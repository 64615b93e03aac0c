--------------------------- MODULE GovernedSession ---------------------------
(***************************************************************************)
(* One interactive session: the agent loop (internal/agent/loop.go) under  *)
(* the enforcer, and the app that holds them together, switches governance *)
(* on and off and runs the gates (cmd/agentwarden/main.go).                *)
(*                                                                         *)
(* The stored task belongs to the controller and may be moved by another   *)
(* process at any moment.  The session works from copies: the app's task,  *)
(* the loop's task, and the role the enforcer takes it for.  They follow   *)
(* the stored one only where the code reads it again.                      *)
(*                                                                         *)
(* What the model does is free: it ends a turn or calls any tools with any *)
(* results.  Of a task only its stage is kept, so an operation of the      *)
(* controller may succeed whenever the graph permits its transition, and   *)
(* may always be refused: Controller says when it is.                      *)
(***************************************************************************)
EXTENDS Enforcer

CONSTANTS
    Graph,                \* the transition graph in force
    AutoAdvance,          \* the policy's auto_advance flag
    OtherActions,         \* the actions other processes take on the task
    maxSteps,             \* model turns and stage advances in one run
    maxIdenticalFailures, \* equal failures in a row that end a run
    MaxBatch,             \* tool calls in one turn: a bound of the model
    None                  \* no task

States == StatesOf(Graph)

\* Of the stored task the stage and, while it is blocked, where it came from.
Tasks == [state : States, resume : States \cup {""}]

ASSUME SessionAssumption ==
    /\ None \notin States \cup Tasks
    /\ AutoAdvance \in BOOLEAN
    /\ OtherActions \subseteq Actions
    /\ maxSteps \in Nat \ {0}
    /\ maxIdenticalFailures \in Nat \ {0}
    /\ MaxBatch \in Nat \ {0}

\* Policy.validate, and a states section that replaces the graph entirely.
ASSUME GraphAssumption ==
    /\ \A state \in DOMAIN Graph : \A action \in DOMAIN Graph[state] :
            Graph[state][action] \in States
    /\ DOMAIN Rules \in {{}, DOMAIN Graph}

VARIABLES
    stored,    \* the stored task, None before one is created
    app,       \* the stage of the app's task
    loop,      \* the stage of the loop's task, None when it has none
    session,   \* the enforcer's counters
    governed,  \* whether the enforcer is engaged
    phase,     \* where the run is, "idle" between runs
    step,      \* steps taken in this run
    left,      \* tool calls of this turn still to execute
    streak,    \* equal failures in a row
    before,    \* the stage Verify moved the loop from, None if it moved none
    ended,     \* how the last run ended, "" while one goes on
    refusals,  \* history: refusals since the loop came to its stage
    missed,    \* history: a reading of the stored task has failed, or it was
               \* moved by an operation that reported an error
    moved      \* history: another process moved the task since the last reading

run == <<phase, step, left, streak, before, ended>>
history == <<refusals, missed, moved>>
vars == <<stored, app, loop, session, governed, run, history>>

Phases ==
    {"idle", "step", "turn", "calls", "refresh", "verify", "stage",
     "net", "net_verify"}

Endings ==
    {"", "answer", "stall", "missing", "stuck", "limit", "error"}

TypeOK ==
    /\ stored \in Tasks \cup {None}
    /\ app \in States \cup {None}
    /\ loop \in States \cup {None}
    /\ session \in EnforceSessions
    /\ governed \in BOOLEAN
    /\ phase \in Phases
    /\ step \in 0..maxSteps
    /\ left \in 0..MaxBatch
    /\ streak \in 0..maxIdenticalFailures
    /\ before \in States \cup {None}
    /\ ended \in Endings
    /\ refusals \in 0..MaxViolations
    /\ missed \in BOOLEAN
    /\ moved \in BOOLEAN

-----------------------------------------------------------------------------

\* Start opens in planning, or in implementing without a plan stage.
NewTask(state) == [state |-> state, resume |-> ""]
OpeningStages == {"planning", "implementing"}

\* A session starts plain, on a task of its own, or on a resumed one, which
\* loadSession never leaves blocked.
Init ==
    /\ \/ /\ governed = FALSE
          /\ stored = None /\ app = None /\ loop = None
          /\ session = NewSession("")
       \/ \E state \in States \ {"blocked"} :
            /\ governed = TRUE
            /\ stored = NewTask(state) /\ app = state /\ loop = state
            /\ session = NewSession(RoleForState(state))
    /\ phase = "idle" /\ step = 0 /\ left = 0 /\ streak = 0
    /\ before = None /\ ended = ""
    /\ refusals = 0 /\ missed = FALSE /\ moved = FALSE

-----------------------------------------------------------------------------

\* Mutation: the pinned tool is not reset.
ResetStateCountersKeepingPin(s) == [s EXCEPT !.direct = 0, !.violations = 0]

\* Mutation: the violations are not reset.
ResetStateCountersKeepingViolations(s) == [s EXCEPT !.direct = 0, !.forced = ""]

ResetStateCounters(s) ==
    [s EXCEPT !.direct = 0, !.violations = 0, !.forced = ""]

\* Mutation: a handoff made stays made in the next stage.
retargetSessionKeepingHandedOff(s, state) ==
    IF s.role = RoleForState(state) THEN s
    ELSE [ResetStateCounters(s) EXCEPT !.role = RoleForState(state)]

\* retargetSession: a stage of another role is a new identity, and its
\* counters start again.
retargetSession(s, state) ==
    IF s.role = RoleForState(state) THEN s
    ELSE [ResetStateCounters(s) EXCEPT !.role = RoleForState(state),
                                       !.handedOff = FALSE]

\* Mutation: the task is followed, the identity is not.
FollowStageOnly(state) ==
    /\ app' = state /\ loop' = state /\ moved' = FALSE
    /\ refusals' = IF state = loop THEN refusals ELSE 0
    /\ UNCHANGED session

\* The stored task has been read, or returned by Verify: the app, the loop and
\* the identity follow its stage.
Follow(state) ==
    /\ app' = state
    /\ loop' = state
    /\ session' = retargetSession(session, state)
    /\ refusals' = IF state = loop THEN refusals ELSE 0
    /\ moved' = FALSE

\* The run is over; what it was in the middle of is dropped.
Stop(next, how) ==
    /\ phase' = next
    /\ ended' = how
    /\ step' = 0 /\ left' = 0 /\ before' = None
    /\ UNCHANGED streak

\* Over with an error, which the runner returns before the safety net.
Fail(how) == Stop("idle", how)

\* Over without one: a governed runner saves the conversation, which may fail,
\* and goes on to the safety net.
Finish(how) ==
    \/ Stop(IF governed THEN "net" ELSE "idle", how)
    \/ governed /\ Fail("error")

\* Mutation: a pass that goes on is not counted.
ContinueUncounted ==
    /\ phase' = "step" /\ left' = 0 /\ before' = None
    /\ UNCHANGED <<step, streak, ended>>

\* The next pass of the loop.
Continue ==
    /\ phase' = "step"
    /\ step' = step + 1
    /\ left' = 0
    /\ before' = None
    /\ UNCHANGED <<streak, ended>>

Goto(next) ==
    /\ phase' = next
    /\ UNCHANGED <<step, left, streak, before, ended>>

-----------------------------------------------------------------------------
(* Between runs. *)

\* A prompt is submitted: the governed runner retargets before the run.
Prompt ==
    /\ phase = "idle"
    /\ phase' = "step"
    /\ ended' = ""
    /\ session' = IF governed THEN retargetSession(session, app) ELSE session
    /\ UNCHANGED <<stored, app, loop, governed, step, left, streak, before,
                   history>>

\* Nothing about the workflow follows the session into plain mode.
SwitchOff ==
    /\ phase = "idle"
    /\ governed
    /\ governed' = FALSE
    /\ loop' = None
    /\ session' = NewSession("")
    /\ refusals' = 0
    /\ UNCHANGED <<stored, app, run, missed, moved>>

\* A session that started plain has no task yet and creates one; another takes
\* up the task it had, as it last knew it.
SwitchOn ==
    /\ phase = "idle"
    /\ ~governed
    /\ IF app = None
       THEN \E state \in OpeningStages :
                /\ stored' = NewTask(state)
                /\ app' = state
       ELSE UNCHANGED <<stored, app>>
    /\ governed' = TRUE
    /\ loop' = app'
    /\ session' = retargetSession(session, app')
    /\ UNCHANGED <<run, history>>

\* The controller takes an action on the stored task.
Moves(action) ==
    /\ stored # None
    /\ Permits(Graph, stored.state, action)
    /\ stored' = Transition(Graph, stored, action)

\* Another process acts on the task: a second session, -cancel, -resume.
Elsewhere(action) ==
    /\ Moves(action)
    /\ moved' = TRUE
    /\ UNCHANGED <<app, loop, session, governed, run, refusals, missed>>

-----------------------------------------------------------------------------
(* The top of the loop. *)

StepLimit ==
    /\ phase = "step"
    /\ step = maxSteps
    /\ Fail("limit")
    /\ UNCHANGED <<stored, app, loop, session, governed, history>>

\* The context was cancelled, or the provider's stream broke.
Interrupted ==
    /\ phase \in {"step", "turn"}
    /\ step < maxSteps
    /\ Fail("error")
    /\ UNCHANGED <<stored, app, loop, session, governed, history>>

BelongsToRuntime == governed /\ ~CanAdvance(loop)

\* Mutation: one step too many.
AskModelOnceMore ==
    /\ phase = "step" /\ step =< maxSteps /\ ~BelongsToRuntime
    /\ Goto("turn")
    /\ UNCHANGED <<stored, app, loop, session, governed, history>>

AskModel ==
    /\ phase = "step"
    /\ step < maxSteps
    /\ ~BelongsToRuntime
    /\ Goto("turn")
    /\ UNCHANGED <<stored, app, loop, session, governed, history>>

\* advanceVerification reads the task: it may fail, find nothing to verify, or
\* go on to Verify.
AdvanceStage ==
    /\ phase = "step"
    /\ step < maxSteps
    /\ BelongsToRuntime
    /\ \/ Fail("error")
       \/ Goto(IF stored.state = "verifying" THEN "verify" ELSE "stage")
    /\ UNCHANGED <<stored, app, loop, session, governed, history>>

\* Verify moves the stored task, from wherever it is by now or not at all.
Verify(action) ==
    /\ action \in {"gates_verified", "gate_failed"}
    /\ stored.state = "verifying"
    /\ Moves(action)
    /\ Follow(stored'.state)
    /\ UNCHANGED <<governed, missed>>

Verified(action) ==
    /\ phase = "verify"
    /\ Verify(action)
    /\ phase' = "stage"
    /\ before' = IF loop' = "verifying" THEN None ELSE loop
    /\ UNCHANGED <<step, left, streak, ended>>

\* A gate could not start, the tree could not be read, the task has left
\* verifying meanwhile, or it was moved and saved and the event not logged.
VerifyFailed ==
    /\ phase \in {"verify", "net_verify"}
    /\ Fail("error")
    /\ \/ UNCHANGED <<stored, missed>>
       \/ /\ stored.state = "verifying"
          /\ \E action \in {"gates_verified", "gate_failed"} : Moves(action)
          /\ missed' = TRUE
    /\ UNCHANGED <<app, loop, session, governed, refusals, moved>>

\* refreshTask: the loop reads the stored task and tells the app of a new stage,
\* or keeps the one it has.
refreshTask ==
    /\ \/ /\ stored.state # loop
          /\ Follow(stored.state)
          /\ UNCHANGED missed
       \/ /\ stored.state = loop
          /\ moved' = FALSE
          /\ UNCHANGED <<app, loop, session, refusals, missed>>
       \/ /\ missed' = TRUE
          /\ UNCHANGED <<app, loop, session, refusals, moved>>
    /\ UNCHANGED <<stored, governed>>

\* The stage was handed to the runtime: the run goes on if the runtime moved
\* it, and otherwise says that it is stuck.
StageChecked ==
    /\ phase = "stage"
    /\ refreshTask
    /\ IF before # None /\ loop' # before THEN Continue ELSE Finish("stall")

-----------------------------------------------------------------------------
(* One turn of the model. *)

TurnWithCalls(n) ==
    /\ phase = "turn"
    /\ phase' = "calls"
    /\ left' = n
    /\ UNCHANGED <<stored, app, loop, session, governed, step, streak, before,
                   ended, history>>

Answer ==
    /\ phase = "turn"
    /\ governed => MayEndTurn(loop, session)
    /\ Finish("answer")
    /\ UNCHANGED <<stored, app, loop, session, governed, history>>

\* A turn that ends without the handoff it owes is refused; the decision's pin
\* replaces the session's even when it is empty.
TurnRefused ==
    LET violated == Violated(session)
    IN  /\ phase = "turn"
        /\ governed
        /\ ~MayEndTurn(loop, session)
        /\ session' = [violated EXCEPT !.forced = ForceTool(loop, violated)]
        /\ refusals' = Count(refusals, MaxViolations)
        /\ IF AutoPerform(loop, violated) THEN Fail("missing") ELSE Continue
        /\ UNCHANGED <<stored, app, loop, governed, missed, moved>>

\* A pin is consumed by the call that complies with it.
Consumed(call) ==
    IF session.forced = call.tool THEN [session EXCEPT !.forced = ""] ELSE session

Intercepted(call) ==
    IF governed THEN Refuses(loop, call) ELSE NopRefuses(call)

CallRefused(call) ==
    /\ phase = "calls"
    /\ left > 0
    /\ Intercepted(call)
    /\ session' = IF governed THEN Refused(loop, Consumed(call), call)
                  ELSE Consumed(call)
    /\ refusals' = IF governed THEN Count(refusals, MaxViolations) ELSE refusals
    /\ left' = left - 1
    /\ UNCHANGED <<stored, app, loop, governed, phase, step, streak, before,
                   ended, missed, moved>>

\* What a workflow tool asks of the controller when it succeeds.
Requests(tool) ==
    CASE tool = "workflow_submit_plan" -> {"plan_submitted"}
      [] tool = "workflow_submit_implementation" -> {"implementation_submitted"}
      [] tool = "workflow_submit_qa" -> {"qa_approved", "qa_rejected"}
      [] tool = "workflow_complete" -> {"completed"}
      [] tool = "workflow_block" -> {"blocked"}
      [] OTHER -> {}

\* What a failing one may have moved it by: a review of stale evidence, and any
\* update that was saved before its event could not be logged.
FailingRequests(tool) ==
    Requests(tool) \cup (IF tool = "workflow_submit_qa" THEN {"code_changed"} ELSE {})

\* The tool runs, and moves the task if it is one that does.
Runs(tool, ok) ==
    \/ /\ Requests(tool) = {} \/ ~ok
       /\ UNCHANGED stored
    \/ \E action \in IF ok THEN Requests(tool) ELSE FailingRequests(tool) :
        Moves(action)

\* trackFailure: the same failure again, another one, or none.
trackFailure(ok, again) ==
    streak' = IF ok THEN 0
              ELSE IF ~again \/ streak = 0 THEN 1
              ELSE IF streak < maxIdenticalFailures THEN streak + 1 ELSE streak

\* The loop hands no task to the enforcer of a plain session: it compares with
\* the handoff of a planning stage.
ExpectedHandoff == HandoffTool(IF loop = None THEN "planning" ELSE loop)

\* Mutation: the task is read once, after the whole batch.
AfterCallAtEnd == IF governed /\ left = 1 THEN "refresh" ELSE "calls"

\* Every call that ran is followed by a reading of the task, when there is one.
AfterCall == IF governed THEN "refresh" ELSE "calls"

CallRuns(call, ok, again) ==
    LET kept == Consumed(call)
        allowed == IF governed THEN Allowed(loop, kept, call) ELSE kept
    IN  /\ phase = "calls"
        /\ left > 0
        /\ ~Intercepted(call)
        /\ Runs(call.tool, ok)
        /\ session' = [allowed EXCEPT
                         !.handedOff = @ \/ (ok /\ call.tool = ExpectedHandoff)]
        /\ trackFailure(ok, again)
        /\ left' = left - 1
        /\ phase' = AfterCall
        /\ UNCHANGED <<app, loop, governed, step, before, ended, refusals,
                       missed, moved>>

\* A confirmation that ends in an error abandons the rest of the batch.
CallAborted(call) ==
    /\ phase = "calls"
    /\ left > 0
    /\ call.tool \in {"edit", "bash", "task"}
    /\ ~Intercepted(call)
    /\ session' = LET kept == Consumed(call)
                  IN  IF governed THEN Allowed(loop, kept, call) ELSE kept
    /\ left' = 0
    /\ UNCHANGED <<stored, app, loop, governed, phase, step, streak, before,
                   ended, history>>

Refreshed ==
    /\ phase = "refresh"
    /\ refreshTask
    /\ Goto("calls")

BatchDone ==
    /\ phase = "calls"
    /\ left = 0
    /\ IF streak >= maxIdenticalFailures THEN Fail("stuck") ELSE Continue
    /\ UNCHANGED <<stored, app, loop, session, governed, history>>

-----------------------------------------------------------------------------
(* The safety net of a governed run that ended without an error. *)

Net ==
    /\ phase = "net"
    /\ \/ Fail("error")
       \/ IF stored.state = "verifying" THEN Goto("net_verify") ELSE Goto("idle")
    /\ UNCHANGED <<stored, app, loop, session, governed, history>>

NetVerified(action) ==
    /\ phase = "net_verify"
    /\ Verify(action)
    /\ Goto(IF AutoAdvance /\ loop' # "verifying" THEN "net" ELSE "idle")

-----------------------------------------------------------------------------

Advance ==
    \/ StepLimit \/ Interrupted \/ AskModel
    \/ AdvanceStage \/ VerifyFailed \/ StageChecked
    \/ \E action \in Actions : Verified(action)

Turn ==
    \/ \E n \in 1..MaxBatch : TurnWithCalls(n)
    \/ Answer \/ TurnRefused
    \/ \E call \in ToolCalls :
        \/ CallRefused(call)
        \/ CallAborted(call)
        \/ \E ok, again \in BOOLEAN : CallRuns(call, ok, again)
    \/ Refreshed \/ BatchDone

SafetyNet == Net \/ \E action \in Actions : NetVerified(action)

RunStep == Advance \/ Turn \/ SafetyNet

Next ==
    \/ Prompt \/ SwitchOff \/ SwitchOn
    \/ RunStep
    \/ \E action \in OtherActions : Elsewhere(action)

Spec == Init /\ [][Next]_vars

\* A run's own steps are taken: a turn, a tool, a confirmation and a gate end.
LiveSpec == Spec /\ WF_vars(RunStep)

-----------------------------------------------------------------------------
(* Properties. *)

\* The loop, the app and the enforcer agree on the stage and on whose it is, and
\* in plain mode the loop has no task and the enforcer no counters of one: the
\* assignments of SetGoverned, OnStateChange, advanceVerification and
\* retargetSession never drift apart.
IdentityFollowsStage ==
    IF governed
    THEN app # None /\ loop = app /\ session.role = RoleForState(loop)
    ELSE loop = None /\ session = NewSession("")

\* While nothing else touched the task and every reading of it succeeded, the
\* stage a request and a tool call are judged by is the stored one, also for
\* the calls of a batch after the one that moved the task.
LoopSeesTask ==
    /\ governed
    /\ phase \in {"step", "turn", "calls"}
    /\ ~missed /\ ~moved
    => loop = stored.state

\* A request never pins a tool it does not offer, whatever stage the pin or the
\* spent budget came from.
PinIsOffered ==
    governed /\ phase = "turn" =>
        ToolChoice(loop, session) \in VisibleTools(loop) \cup {""}

Ends(how) == ended # how /\ ended' = how

\* As long as the task can be read, a run that ends because the handoff is
\* missing has been refused, since it came to this stage, at least as often as
\* the stage's ladder says before its last rung: ResetStateCounters lets no
\* refusal of an earlier stage count.  Besides the session only operators act on
\* the task here: another session could take it on and back between two readings.
EscalationIsEarned ==
    [][Ends("missing") =>
         missed \/ \E n \in 1..refusals' : Rung(loop, n) = "auto"]_vars

\* A governed run ends with an answer only where no handoff is owed: as long as
\* the task can be read and only operators act on it besides the session, a
\* handoff that was made is forgotten with its stage.
AnswerFollowsHandoff ==
    [][governed /\ Ends("answer") => missed \/ HandoffTool(loop) = ""]_vars

\* Plain mode leaves the task alone, even when the model repeats a workflow call
\* it made before the switch.
PlainLeavesTaskAlone ==
    [][~governed /\ stored' # stored =>
         governed' \/ \E action \in OtherActions : Elsewhere(action)]_vars

\* A run ends, by an answer or by one of its limits.
RunEnds == phase # "idle" ~> phase = "idle"

=============================================================================
