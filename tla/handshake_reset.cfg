SPECIFICATION HandshakeSpec
CONSTANTS
    RTSS_UPD_PING_RETRY_CNT = 3
    RTSS_UPD_PING_ERR_CNT = 2
    Capacity = 4
    MaxRuns = 1
    OldMessages = {}
    MaxReplay = 0
    MaxSendErrors = 1
CHECK_DEADLOCK FALSE
PROPERTY
    ResetWhileQuiet
