CONSTANTS
    Graph <- builtinTransitions
    Rules <- DeclaredRules
    OtherActions <- OperatorActions
    AutoAdvance = TRUE
    maxSteps = 2
    maxIdenticalFailures = 2
    MaxBatch = 2
    MaxDirect = 1
    MaxViolations = 3
    None = None
SPECIFICATION LiveSpec
INVARIANTS TypeOK IdentityFollowsStage LoopSeesTask 
PROPERTIES EscalationIsEarned AnswerFollowsHandoff PlainLeavesTaskAlone RunEnds
