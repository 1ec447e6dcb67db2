SPECIFICATION ConsoleSpec
CONSTANTS
    Capacity = 2
    MaxItems = 3
    MaxWant = 2
    Timeouts <- AllTimeouts
    MaxSignals = 1
    MaxResets = 1
    Users = {"any", "fd", "console"}
CHECK_DEADLOCK FALSE
INVARIANTS
    TypeOK
    NoLostWakeup
    WaitBounded
    StopsForAReason
PROPERTIES
    Delivered
    StopsByNextItem
