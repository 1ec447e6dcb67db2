SPECIFICATION Spec
CONSTANTS
    RTSS_UPD_PING_RETRY_CNT = 2
    RTSS_UPD_PING_ERR_CNT = 2
    Capacity = 3
    MaxRuns = 1
    OldMessages <- AFlash
    MaxReplay = 1
    MaxSendErrors = 0
    Flows = {"preboot"}
    Boots = {"A", "B", "unset", "secondary", "damaged"}
    NImages = 1
    Faults = {"restart"}
    MaxFaults = 1
CHECK_DEADLOCK FALSE
PROPERTIES
    OkMeansFlashed
