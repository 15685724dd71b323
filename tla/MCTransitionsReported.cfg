SPECIFICATION Spec
CONSTANTS
    MaxTransitionChecks = 2
    MaxFlipsPerCheck = 1
    MaxMatched = 3
INVARIANTS
    MissingIdentityReported
CHECK_DEADLOCK FALSE
