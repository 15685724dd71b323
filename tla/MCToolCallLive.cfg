SPECIFICATION FairSpec
CONSTANTS
    Calls = {c1, c2}
    Services <- OneLoki
    Answers <- FewAnswers
    MaxSources = 1
    Concurrent = 2
    PerMin = 2
    Minute = 1
    Horizon = 0
PROPERTIES
    CancellationReleases
    CallsEnd
