CONSTANTS
    t1 = t1  t2 = t2  unit = unit  lint = lint  p1 = p1  p2 = p2  s1 = s1  s2 = s2  s3 = s3
    None = None
    Trees = {t1, t2}
    Agents <- MCAgents
    Policies = {p1}
    Gates = {unit}
    RequiredGates <- MCRequiredGates
    GatesFor <- JustUnit
    IndependentQA <- AllTrue
    RequirePlan <- AllFalse
    AgentFor <- MCAgentFor
    Sessions = {s1, s2}
    ProcessOf <- TwoProcesses
    PolicyOf <- OwnPolicy
    CallsOf <- CancelBeside
    ActorsOf <- OperatorBeside
    Graph <- builtinTransitions

SPECIFICATION Spec
PROPERTY TerminalIsFinal
