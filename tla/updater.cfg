SPECIFICATION Spec
CONSTANTS
    RTSS_UPD_PING_RETRY_CNT = 2
    RTSS_UPD_PING_ERR_CNT = 2
    Capacity = 3
    MaxRuns = 2
    OldMessages <- AFlash
    MaxReplay = 1
    MaxSendErrors = 1
    Flows = {"preboot", "postboot", "flasher", "gpt"}
    Boots = {"A", "B", "damaged"}
    NImages = 2
    Faults = {"restart", "corrupt", "read"}
    MaxFaults = 1
CHECK_DEADLOCK FALSE
INVARIANTS
    TypeOK
    LeftoversCounted
PROPERTIES
    ProgramsInStep
    BufferStable
    CommitAfterFlash
    NoFlashFromB
