SPECIFICATION FairSpec
CONSTANTS
    Capacity = 3
    subchan_item_size = 2
    MaxSize = 7
    MaxItems = 6
    MaxFailures = 2
INVARIANTS
    TypeOK
    NoStrandedItems
PROPERTY
    AckedIsConsumed
