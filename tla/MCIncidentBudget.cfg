SPECIFICATION Spec
CONSTANTS
    Contributors = {k1, k2}
    MaxCount = 2
    Sizes = {1, 3}
    ItemLimits = {1, 2}
    Budgets = {0, 3}
    NameSize = 1
INVARIANTS
    WithinBudget
CHECK_DEADLOCK FALSE
