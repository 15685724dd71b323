SPECIFICATION Spec
CONSTANTS
    Collections = {a, b}
    Keys = {k1, k2}
    BodySizes = {1, 2}
    MaxBody = 2
    MaxEntries = 2
    MaxCacheBytes = 3
    TTLs = {0, 1, 2}
    Deadline = 1
    Horizon = 3
    MaxRequests = 2
SYMMETRY MCSymmetry
INVARIANTS
    TypeOK
    CacheAccounting
    EntriesAreSnapshots
    BoundedStaleness
    HitReportTruthful
    OrderedByExpiry
CHECK_DEADLOCK FALSE
