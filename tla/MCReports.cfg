SPECIFICATION ReportsSpec
CONSTANTS
    Contributors = {k1, k2, k3}
    MaxCount = 5
    Sizes = {1, 3}
    ItemLimits = {1, 2, 4}
    Budgets = {0, 3, 6}
    NameSize = 1
    Doctored = {"gatus", "docker1", "docker2"}
    Rank <- MCRank
    ServicesCount = 2
    Files <- MCFiles
    DefaultPage = 2
    MaxPage = 3
    MaxSources = 2
    MaxServices = 4
INVARIANTS
    SourcesFirst
    LossesCounted
    DoctorTruthful
    AcceptedConfigUsable
    EveryServiceListed
CHECK_DEADLOCK FALSE
