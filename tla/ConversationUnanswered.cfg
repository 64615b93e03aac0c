SPECIFICATION Spec
CONSTANTS
    Owners = {planner, implementer}
    Corrections = {refused}
    MayAbort = TRUE
    maxSteps = 2
    MaxBatch = 2
    MaxPrompts = 2
    MaxMessages = 4
SYMMETRY OwnersAreAlike
CHECK_DEADLOCK FALSE
INVARIANT CallsAreAnswered
