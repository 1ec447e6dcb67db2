SPECIFICATION Spec
CONSTANTS
    N = 4
    MaxBatch = 4
    MaxItems = 9
INVARIANTS
    TypeOK
    ItemsIntact
    InOrderDelivery
    NoSlotConflict
PROPERTY
    ImplementsFifo
