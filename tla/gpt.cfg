SPECIFICATION Spec
SYMMETRY DeviceSymmetry
CONSTANTS
    Devices = {nor0, nor1}
    Versions = {"v1", "v2"}
    Table <- MCTable
    EntrySize <- MCEntrySize
    Guids = {"boot", "data"}
    HdrSize = 92
    EntSize = 128
    BufSizes = {128, 512}
    Alignments = {0, 1, 512}
    MaxWrites = 1
INVARIANTS
    ReadFits
    LookupVerified
PROPERTIES
    BestCopy
