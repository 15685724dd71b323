SPECIFICATION Spec
CONSTANTS
    Sizes <- MCSizes
    MaxBytes = 3
    MaxFiles = 3
    MaxRecords = 6
    MaxFailures = 2
    MaxCrashes = 1
INVARIANTS
    TypeOK
    FilesBounded
    KeptIsOrderedSuffix
    NewestKept
    OneReportPerPeriod
    RecoversAlone
CHECK_DEADLOCK FALSE
