CONSTANTS
    t1 = t1  t2 = t2  unit = unit  lint = lint  p1 = p1  p2 = p2  s1 = s1  s2 = s2  s3 = s3
    None = None
    Trees = {t1, t2}
    Agents <- MCAgents
    Policies = {p1}
    Gates = {unit, lint}
    RequiredGates <- MCRequiredGates
    GatesFor <- MCGatesFor
    IndependentQA <- AllTrue
    RequirePlan <- AllTrue
    AgentFor <- MCAgentFor
    Sessions = {s1, s2}
    ProcessOf <- OneProcess
    PolicyOf <- OwnPolicy
    CallsOf <- AllAndCancel
    ActorsOf <- OperatorBeside
    Graph <- builtinTransitions

SPECIFICATION HealthySpec
INVARIANTS TypeOK CompletionIsGenuine
PROPERTIES VerificationSettles
