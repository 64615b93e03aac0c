------------------------------ MODULE Enforcer ------------------------------
(***************************************************************************)
(* The enforcer (internal/enforce/enforcer.go, mask.go and governor.go):   *)
(* what a policy says of one model turn.  Every decision is a function of  *)
(* the stage, the session's counters and the call; the agent loop, which   *)
(* keeps them, is in GovernedSession.                                      *)
(*                                                                         *)
(* Of tools that are masked and judged alike one is kept: read for grep,   *)
(* glob and ls, edit for write, workflow_status for workflow_history.      *)
(***************************************************************************)
EXTENDS Workflow, Integers, Sequences

CONSTANTS
    Rules,         \* Rules[s]: the settings a policy's states section gives s
    MaxDirect,     \* where the model stops counting direct calls, and
    MaxViolations  \* violations: no budget and no ladder asks for more

WorkflowTools ==
    {"workflow_submit_plan", "workflow_submit_implementation",
     "workflow_submit_qa", "workflow_complete", "workflow_block",
     "workflow_status"}

Tools == {"read", "edit", "bash", "task"} \cup WorkflowTools

\* A call, and whether its arguments are ones the enforcer looks for: a command
\* that publishes, the policy's own path, a delegation that delegates nothing.
ToolCalls == [tool : Tools, flawed : BOOLEAN]

Rungs == {"warn", "force", "auto"}

\* allow = {} and ladder = <<>> are a setting left out, budget = 0 no limit.
StateRules ==
    [allow : SUBSET Tools, delegate : BOOLEAN, budget : Nat, ladder : Seq(Rungs)]

ASSUME RulesAssumption ==
    /\ Rules \in [DOMAIN Rules -> StateRules]
    /\ MaxDirect \in Nat
    /\ MaxViolations \in Nat \ (0..2)  \* the default ladder has three rungs
    /\ \A state \in DOMAIN Rules :
            /\ Rules[state].budget =< MaxDirect
            /\ Len(Rules[state].ladder) =< MaxViolations

\* The counters that drive enforcement, "" for no role and no pinned tool.
EnforceSessions ==
    [role : Roles \cup {""}, direct : 0..MaxDirect, violations : 0..MaxViolations,
     forced : Tools \cup {""}, handedOff : BOOLEAN]

NewSession(role) ==
    [role |-> role, direct |-> 0, violations |-> 0, forced |-> "",
     handedOff |-> FALSE]

Count(n, max) == IF n < max THEN n + 1 ELSE n

-----------------------------------------------------------------------------

\* The handoff a stage expects before a turn may end, "" for none.
HandoffTool(state) ==
    CASE state = "planning" -> "workflow_submit_plan"
      [] IsEditingState(state) -> "workflow_submit_implementation"
      [] state = "qa_review" -> "workflow_submit_qa"
      [] state = "ready_to_complete" -> "workflow_complete"
      [] OTHER -> ""

\* The builtin masking table: reading everywhere, the rest by stage.
defaultStateTools(state) ==
    {"read"}
        \cup (IF IsEditingState(state) THEN {"edit", "bash"} ELSE {})
        \cup (IF state = "qa_review" THEN {"bash"} ELSE {})
        \cup ({HandoffTool(state)} \ {""})

allowedToolNames(state) ==
    {"workflow_status"} \cup
        IF state \in DOMAIN Rules /\ Rules[state].allow # {}
        THEN Rules[state].allow
        ELSE defaultStateTools(state)

delegationAllowed(state) == state \in DOMAIN Rules /\ Rules[state].delegate

VisibleTools(state) ==
    allowedToolNames(state)
        \cup (IF delegationAllowed(state) THEN {"task"} ELSE {})

\* canAdvanceWorkflow: whether the model has a tool to move the stage with.
CanAdvance(state) == VisibleTools(state) \cap WorkflowTools # {"workflow_status"}

-----------------------------------------------------------------------------

budget(state) == IF state \in DOMAIN Rules THEN Rules[state].budget ELSE 0

\* The tool the next request pins: the one an escalation forced, or the
\* handoff once the stage's budget of direct calls is spent.
ToolChoice(state, session) ==
    IF session.forced = "" /\ budget(state) > 0 /\ session.direct >= budget(state)
    THEN HandoffTool(state)
    ELSE session.forced

ladder(state) ==
    IF state \in DOMAIN Rules /\ Rules[state].ladder # <<>>
    THEN Rules[state].ladder
    ELSE <<"warn", "force", "auto">>

\* The rung of the n-th violation: the last one is never passed.
Rung(state, n) ==
    ladder(state)[IF n < 1 THEN 1 ELSE IF n > Len(ladder(state))
                                       THEN Len(ladder(state)) ELSE n]

\* escalate: the tool the session's violations pin next, "" for none.
ForceTool(state, session) ==
    IF Rung(state, session.violations) = "warn" THEN "" ELSE HandoffTool(state)

\* The last rung hands the handoff to the runtime, which ends the run.
AutoPerform(state, session) == Rung(state, session.violations) = "auto"

Masked(state, call) == call.tool \notin VisibleTools(state)

\* A bash command that publishes, and an edit of the policy in force.
Forbidden(state, call) ==
    /\ call.flawed
    /\ \/ call.tool = "bash" /\ state # "complete"
       \/ call.tool = "edit"

HollowDelegation(call) == call.flawed /\ call.tool = "task"

Violated(session) == [session EXCEPT !.violations = Count(@, MaxViolations)]

\* Intercept, refused: a violation more, and the pin if the refusal sets one.
Refuses(state, call) ==
    Masked(state, call) \/ Forbidden(state, call) \/ HollowDelegation(call)

Refused(state, session, call) ==
    LET violated == Violated(session)
        force == IF Masked(state, call) THEN ForceTool(state, violated)
                 ELSE IF Forbidden(state, call) THEN "" ELSE "task"
    IN  IF force = "" THEN violated ELSE [violated EXCEPT !.forced = force]

\* Intercept, allowed: every call but the handoff is direct work.
Allowed(state, session, call) ==
    IF call.tool = HandoffTool(state) THEN session
    ELSE [session EXCEPT !.direct = Count(@, MaxDirect)]

\* Mutation: masking alone keeps plain mode out of the state machine.
NopRefusesNothing(call) == FALSE

\* The ungoverned Governor refuses the state machine's tools and counts nothing.
NopRefuses(call) == call.tool \in WorkflowTools

\* OnTurnEnd: a turn may end once the stage was handed off, in a stage of
\* another role, and in a stage that expects no handoff.
MayEndTurn(state, session) ==
    \/ session.handedOff
    \/ session.role # "" /\ RoleForState(state) # session.role
    \/ HandoffTool(state) = ""

=============================================================================
