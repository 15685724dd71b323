SPECIFICATION CollectionsSpec
CONSTANTS
    Callers = {c1, c2, c3}
    Concurrent = 2
    PerMin = 3
    Minute = 2
    Horizon = 6
    Windows <- MCWindows
    Snapshots = {1, 4, 6}
    Limits = {1, 2}
    Serials = {0, 8}
    GatusReplies <- MCGatusReplies
    DockerReplies <- MCDockerReplies
    LokiSources <- MCLokiSources
    HealthchecksReplies <- MCHealthchecksReplies
    NtfyReplies <- MCNtfyReplies
    MaxTransitionChecks = 2
    MaxFlipsPerCheck = 1
    MaxMatched = 3
    Wanted = wanted
    Others = {other1, other2, other3}
    PageSize = 1
    MaxPages = 3
    MaxRecords = 3
    MaxSystems = 4
    MaxChanges = 2
INVARIANTS
    TypesOK
    SlotsAreHeld
    TwiceAMinute
    EveryCheckAccounted
    OkHasAnAnswer
    CompleteIsEverything
    KeepsNewest
    RowOrderIrrelevant
    PagesAgree
PROPERTIES
    RefusedOnlyWhenSpent
CHECK_DEADLOCK FALSE
