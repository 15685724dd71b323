SPECIFICATION Spec
CONSTANTS
    Calls = {c1, c2, c3}
    Services <- AnyPair
    Answers <- AllAnswers
    MaxSources = 1
    Concurrent = 2
    PerMin = 2
    Minute = 1
    Horizon = 1
CONSTRAINT Modest
SYMMETRY CallSymmetry
INVARIANTS
    TypeOK
    SourceSlotsExact
    NoOrphans
    EverySourceAccounted
    CompleteMeansWhole
PROPERTIES
    CanceledSaysCanceled
