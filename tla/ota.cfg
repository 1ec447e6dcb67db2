SPECIFICATION FairSpec
CONSTANTS
    Threads = {m, t1, t2}
    Main = m
    MaxMaps = 3
    MaxSignals = 1
CHECK_DEADLOCK FALSE
INVARIANTS
    TypeOK
    NoDanglingClient
    ReferencesBalanced
PROPERTY
    HandlerExits
