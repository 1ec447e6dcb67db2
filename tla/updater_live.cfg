SPECIFICATION FairSpec
CONSTANTS
    RTSS_UPD_PING_RETRY_CNT = 2
    RTSS_UPD_PING_ERR_CNT = 1
    Capacity = 3
    MaxRuns = 2
    OldMessages <- AFlashAndAHello
    MaxReplay = 1
    MaxSendErrors = 1
    Flows = {"preboot", "ackstate", "gpt"}
    Boots = {"A"}
    NImages = 1
    Faults = {"restart"}
    MaxFaults = 2
CHECK_DEADLOCK FALSE
PROPERTIES
    HandshakeReturns
    SequenceEnds
