SPECIFICATION Spec
CONSTANTS
    Word = 64
    MB_HEADER_SIZE = 2
    AREA_SIZE = 2
    MB_SUB_REGION_HEADER_SZ = 3
    MB_MAX_ITEM_NUM = 8
    MB_MAX_SUB_REGION_NUM = 2
    MB_MAX_SIZE = 9
    Sizes = {40, 63}
    Nums = {0, 3, 7, 9}
    ItemSizes = {0, 3, 9, 10}
    MaxRegions = 2
    Batches = {2, 10}
    MaxCreations = 2
INVARIANTS
    RegionsDisjoint
    MapAccepted
    CopyInBounds
    AckedIsWritten
CHECK_DEADLOCK FALSE
