SPECIFICATION Spec
CONSTANTS
    Ids = {i1, i2, i3}
    Sizes <- MCSizes
    MaxItems = 2
    MaxBytes = 3
    TTL = 1
    Horizon = 3
    MaxPuts = 3
INVARIANTS
    OrderIsExact
    OrderedByExpiry
    WithinLimits
    EveryItemLeavesOnce
PROPERTIES
    RefinesTtlStore
