SPECIFICATION ReportsSpec
CONSTANTS
    Contributors = {k1}
    MaxCount = 0
    Sizes = {1}
    ItemLimits = {1}
    Budgets = {0}
    NameSize = 1
    Doctored = {"gatus", "docker1", "docker2"}
    Rank <- MCRank
    ServicesCount = 2
    Files <- MCFiles
    DefaultPage = 2
    MaxPage = 3
    MaxSources = 2
    MaxServices = 4
INVARIANTS
    MixedIsPartial
CHECK_DEADLOCK FALSE
