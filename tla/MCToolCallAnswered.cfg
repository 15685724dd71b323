SPECIFICATION Spec
CONSTANTS
    Calls = {c1}
    Services <- EachKind
    Answers <- FoundOrMissing
    MaxSources = 2
    Concurrent = 1
    PerMin = 1
    Minute = 1
    Horizon = 0
INVARIANTS
    CompleteMeansAnswered
