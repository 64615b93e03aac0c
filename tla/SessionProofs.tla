---------------------------- MODULE SessionProofs ----------------------------
(***************************************************************************)
(* Theorems about GovernedSession, for every value of its constants: every *)
(* policy, graph, limit and set of actions other processes take.           *)
(***************************************************************************)
EXTENDS GovernedSession, TLAPS

\* The passes of the loop that have a step left, and the phases only a
\* governed session enters.
Counted == {"turn", "calls", "refresh", "verify", "stage"}
Governing == {"refresh", "verify", "stage", "net", "net_verify"}

\* What keeps TypeOK inductive: a counted pass is within the limit, and a
\* governed session has a task wherever it looks for one.
Placed ==
    /\ phase \in Counted => step < maxSteps
    /\ phase \in Governing => governed
    /\ governed => app # None
    /\ app # None => stored # None

TypeInv == TypeOK /\ Placed

-----------------------------------------------------------------------------
\* Operators of the model keep the types.

LEMMA RoleType == \A state : RoleForState(state) \in Roles \cup {""}
  BY DEF RoleForState, Roles

LEMMA HandoffType == \A state : HandoffTool(state) \in Tools \cup {""}
  BY DEF HandoffTool, Tools, WorkflowTools

LEMMA OpeningType == BuiltinStates \subseteq States /\ OpeningStages \subseteq States
  BY DEF States, StatesOf, BuiltinStates, OpeningStages

LEMMA TransitionType ==
    ASSUME NEW t \in Tasks, NEW action \in Actions, Permits(Graph, t.state, action)
    PROVE  Transition(Graph, t, action) \in Tasks
<1>1. Graph[t.state][action] \in States
  BY GraphAssumption DEF Permits
<1>2. Target(Graph, t, action) \in States
  BY <1>1 DEF Target, Tasks
<1>3. ResumeAfter(t, action) \in States \cup {""}
  BY DEF ResumeAfter, activeState, Tasks
<1> QED
  BY <1>2, <1>3 DEF Transition, Tasks

LEMMA MovesType ==
    ASSUME stored \in Tasks \cup {None}, NEW action \in Actions, Moves(action)
    PROVE  stored' \in Tasks /\ stored' # None
<1>1. stored \in Tasks /\ stored' \in Tasks
  BY TransitionType DEF Moves
<1> QED
  BY <1>1, SessionAssumption

LEMMA NewTaskType ==
    ASSUME NEW state \in States
    PROVE  NewTask(state) \in Tasks /\ NewTask(state) # None
<1>1. NewTask(state) \in Tasks
  BY DEF NewTask, Tasks
<1> QED
  BY <1>1, SessionAssumption

LEMMA LimitsType ==
    /\ MaxDirect \in Nat /\ MaxViolations \in Nat
    /\ 0 \in 0..MaxDirect /\ 0 \in 0..MaxViolations
    /\ 0 \in 0..maxSteps /\ 0 \in 0..MaxBatch
    /\ 0 \in 0..maxIdenticalFailures
<1>1. /\ MaxDirect \in Nat /\ MaxViolations \in Nat
      /\ maxSteps \in Nat /\ MaxBatch \in Nat /\ maxIdenticalFailures \in Nat
  BY RulesAssumption, SessionAssumption
<1> QED
  BY <1>1

LEMMA CountType ==
    ASSUME NEW max \in Nat, NEW n \in 0..max
    PROVE  Count(n, max) \in 0..max
  BY DEF Count

LEMMA RetargetType ==
    ASSUME NEW s \in EnforceSessions, NEW state
    PROVE  /\ retargetSession(s, state) \in EnforceSessions
           /\ retargetSession(s, state).role = RoleForState(state)
<1>2. ResetStateCounters(s) \in EnforceSessions
  BY LimitsType DEF ResetStateCounters, EnforceSessions
<1>3. RoleForState(state) \in Roles \cup {""}
  BY RoleType
<1> QED
  BY <1>2, <1>3 DEF retargetSession, EnforceSessions

LEMMA NewSessionType ==
    ASSUME NEW role \in Roles \cup {""}
    PROVE  NewSession(role) \in EnforceSessions
  BY LimitsType DEF NewSession, EnforceSessions

LEMMA ViolatedType ==
    ASSUME NEW s \in EnforceSessions
    PROVE  Violated(s) \in EnforceSessions /\ Violated(s).role = s.role
<1>1. Count(s.violations, MaxViolations) \in 0..MaxViolations
  BY CountType, LimitsType DEF EnforceSessions
<1> QED
  BY <1>1 DEF Violated, EnforceSessions

LEMMA ForceType ==
    ASSUME NEW state, NEW s
    PROVE  ForceTool(state, s) \in {"", HandoffTool(state)}
  BY DEF ForceTool

LEMMA ConsumedType ==
    ASSUME session \in EnforceSessions, NEW call \in ToolCalls
    PROVE  /\ Consumed(call) \in EnforceSessions
           /\ Consumed(call).role = session.role
  BY DEF Consumed, EnforceSessions

LEMMA RefusedType ==
    ASSUME NEW s \in EnforceSessions, NEW state, NEW call \in ToolCalls
    PROVE  /\ Refused(state, s, call) \in EnforceSessions
           /\ Refused(state, s, call).role = s.role
<1> DEFINE violated == Violated(s)
           force == IF Masked(state, call) THEN ForceTool(state, violated)
                    ELSE IF Forbidden(state, call) THEN "" ELSE "task"
<1>1. violated \in EnforceSessions /\ violated.role = s.role
  BY ViolatedType
<1>2. force \in Tools \cup {""}
  <2>1. ForceTool(state, violated) \in Tools \cup {""}
    BY ForceType, HandoffType
  <2> QED
    BY <2>1 DEF Tools
<1>3. Refused(state, s, call) =
        IF force = "" THEN violated ELSE [violated EXCEPT !.forced = force]
  BY DEF Refused
<1> HIDE DEF violated, force
<1> QED
  BY <1>1, <1>2, <1>3 DEF EnforceSessions

LEMMA AllowedType ==
    ASSUME NEW s \in EnforceSessions, NEW state, NEW call \in ToolCalls
    PROVE  /\ Allowed(state, s, call) \in EnforceSessions
           /\ Allowed(state, s, call).role = s.role
<1>1. Count(s.direct, MaxDirect) \in 0..MaxDirect
  BY CountType, LimitsType DEF EnforceSessions
<1> QED
  BY <1>1 DEF Allowed, EnforceSessions

-----------------------------------------------------------------------------
\* TypeInv is of two parts that actions disturb separately: where the run is,
\* and what the session knows of its task.

RunOK ==
    /\ phase \in Phases
    /\ step \in 0..maxSteps
    /\ left \in 0..MaxBatch
    /\ streak \in 0..maxIdenticalFailures
    /\ before \in States \cup {None}
    /\ ended \in Endings
    /\ phase \in Counted => step < maxSteps

TaskOK ==
    /\ stored \in Tasks \cup {None}
    /\ app \in States \cup {None}
    /\ loop \in States \cup {None}
    /\ session \in EnforceSessions
    /\ governed \in BOOLEAN
    /\ refusals \in 0..MaxViolations
    /\ missed \in BOOLEAN
    /\ moved \in BOOLEAN
    /\ governed => app # None
    /\ app # None => stored # None

LEMMA TypeInvParts ==
    /\ TypeInv <=> RunOK /\ TaskOK /\ (phase \in Governing => governed)
    /\ TypeInv' <=> RunOK' /\ TaskOK' /\ (phase' \in Governing => governed')
  BY DEF TypeInv, TypeOK, Placed, RunOK, TaskOK

LEMMA StopRun ==
    ASSUME RunOK, NEW next \in {"idle", "net"}, NEW how \in Endings, Stop(next, how)
    PROVE  RunOK' /\ phase' = next
  BY LimitsType DEF RunOK, Stop, Phases, Counted

LEMMA FinishRun ==
    ASSUME RunOK, NEW how \in Endings, Finish(how)
    PROVE  RunOK' /\ (phase' # "idle" => phase' = "net" /\ governed)
<1>1. CASE Stop(IF governed THEN "net" ELSE "idle", how)
  BY <1>1, StopRun
<1>2. CASE Fail("error")
  BY <1>2, StopRun DEF Fail, Endings
<1> QED
  BY <1>1, <1>2 DEF Finish

LEMMA ContinueRun ==
    ASSUME RunOK, step < maxSteps, Continue
    PROVE  RunOK' /\ phase' = "step"
  BY SessionAssumption DEF RunOK, Continue, Phases, Counted

LEMMA GotoRun ==
    ASSUME RunOK, NEW next \in Phases, next \in Counted => step < maxSteps, Goto(next)
    PROVE  RunOK' /\ phase' = next
  BY DEF RunOK, Goto

LEMMA MovesTask ==
    ASSUME TaskOK, NEW action \in Actions, Moves(action)
    PROVE  stored' \in Tasks /\ stored' # None
  BY MovesType DEF TaskOK

LEMMA FollowTask ==
    ASSUME TaskOK, stored' \in Tasks, NEW state \in States, Follow(state),
           UNCHANGED governed, missed' \in BOOLEAN
    PROVE  TaskOK'
<1>1. state # None /\ stored' # None
  BY SessionAssumption
<1>2. session' \in EnforceSessions
  BY RetargetType DEF Follow, TaskOK
<1>3. refusals' \in 0..MaxViolations
  BY LimitsType DEF Follow, TaskOK
<1> QED
  BY <1>1, <1>2, <1>3 DEF Follow, TaskOK

LEMMA RefreshTask ==
    ASSUME TaskOK, governed, refreshTask
    PROVE  TaskOK' /\ governed'
<1>1. stored \in Tasks /\ stored.state \in States
  <2>1. stored \in Tasks
    BY DEF TaskOK
  <2> QED
    BY <2>1 DEF Tasks
<1>2. CASE Follow(stored.state) /\ UNCHANGED missed
  BY <1>1, <1>2, FollowTask DEF refreshTask, TaskOK
<1>3. CASE UNCHANGED <<app, loop, session, refusals>> /\ moved' \in {moved, FALSE}
                /\ missed' \in {missed, TRUE}
  BY <1>3 DEF refreshTask, TaskOK
<1> QED
  BY <1>2, <1>3 DEF refreshTask

LEMMA VerifyTask ==
    ASSUME TaskOK, governed, NEW action \in Actions, Verify(action)
    PROVE  TaskOK' /\ governed'
<1>1. stored' \in Tasks /\ stored'.state \in States
  <2>1. stored' \in Tasks
    BY MovesTask DEF Verify
  <2> QED
    BY <2>1 DEF Tasks
<1> QED
  BY <1>1, FollowTask DEF Verify, TaskOK

-----------------------------------------------------------------------------

LEMMA InitType == Init => TypeInv
<1> SUFFICES ASSUME Init PROVE TypeInv
  OBVIOUS
<1>1. RunOK /\ phase \notin Governing
  BY LimitsType
  DEF Init, RunOK, Phases, Endings, Counted, Governing
<1>2. TaskOK
  <2>1. CASE governed = FALSE
    <3>1. session \in EnforceSessions
      BY <2>1, NewSessionType DEF Init
    <3> QED
      BY <2>1, <3>1, LimitsType DEF Init, TaskOK
  <2>2. CASE \E state \in States \ {"blocked"} :
               /\ governed = TRUE
               /\ stored = NewTask(state) /\ app = state /\ loop = state
               /\ session = NewSession(RoleForState(state))
    <3>1. PICK state \in States :
               /\ governed = TRUE
               /\ stored = NewTask(state) /\ app = state /\ loop = state
               /\ session = NewSession(RoleForState(state))
      BY <2>2
    <3>2. session \in EnforceSessions
      BY <3>1, NewSessionType, RoleType
    <3>3. stored \in Tasks /\ stored # None
      BY <3>1, NewTaskType
    <3>4. refusals \in 0..MaxViolations /\ missed \in BOOLEAN /\ moved \in BOOLEAN
      BY LimitsType DEF Init
    <3> QED
      BY <3>1, <3>2, <3>3, <3>4, SessionAssumption DEF TaskOK
  <2> QED
    BY <2>1, <2>2 DEF Init
<1> QED
  BY <1>1, <1>2, TypeInvParts

LEMMA BetweenRunsType ==
    ASSUME TypeInv, Prompt \/ SwitchOff \/ SwitchOn
    PROVE  TypeInv'
<1> USE TypeInvParts
<1>1. RunOK /\ TaskOK
  OBVIOUS
<1>2. CASE Prompt
  <2>1. session' \in EnforceSessions
    BY <1>1, <1>2, RetargetType DEF Prompt, TaskOK
  <2>2. TaskOK'
    BY <1>1, <1>2, <2>1 DEF Prompt, TaskOK, history
  <2>3. RunOK' /\ phase' = "step"
    BY <1>1, <1>2 DEF Prompt, RunOK, Phases, Endings, Counted
  <2> QED
    BY <2>2, <2>3 DEF Governing
<1>3. CASE SwitchOff
  <2>1. session' \in EnforceSessions
    BY <1>3, NewSessionType DEF SwitchOff
  <2>2. TaskOK'
    BY <1>1, <1>3, <2>1, LimitsType DEF SwitchOff, TaskOK
  <2>3. RunOK' /\ phase' = "idle"
    BY <1>1, <1>3 DEF SwitchOff, RunOK, run
  <2> QED
    BY <2>2, <2>3 DEF Governing
<1>4. CASE SwitchOn
  <2>1. app' \in States /\ app' # None /\ stored' \in Tasks \cup {None} /\ stored' # None
    <3>1. CASE app = None
      <4>1. PICK state \in OpeningStages : stored' = NewTask(state) /\ app' = state
        BY <1>4, <3>1 DEF SwitchOn
      <4> QED
        BY <4>1, OpeningType, NewTaskType, SessionAssumption
    <3>2. CASE app # None
      BY <1>1, <1>4, <3>2 DEF SwitchOn, TaskOK
    <3> QED
      BY <3>1, <3>2
  <2>2. session' \in EnforceSessions
    BY <1>1, <1>4, RetargetType DEF SwitchOn, TaskOK
  <2>3. TaskOK'
    BY <1>1, <1>4, <2>1, <2>2 DEF SwitchOn, TaskOK, history
  <2>4. RunOK' /\ phase' = "idle"
    BY <1>1, <1>4 DEF SwitchOn, RunOK, run
  <2> QED
    BY <2>3, <2>4 DEF Governing
<1> QED
  BY <1>2, <1>3, <1>4

LEMMA TaskUnchanged ==
    ASSUME TaskOK, UNCHANGED <<stored, app, loop, session, governed, history>>
    PROVE  TaskOK' /\ governed' = governed
  BY DEF TaskOK, history

LEMMA ElsewhereType ==
    ASSUME TypeInv, NEW action \in Actions, Elsewhere(action)
    PROVE  TypeInv'
<1>1. RunOK /\ TaskOK /\ (phase \in Governing => governed)
  BY TypeInvParts
<1>2. stored' \in Tasks /\ stored' # None
  BY <1>1, MovesTask DEF Elsewhere
<1>3. TaskOK'
  BY <1>1, <1>2 DEF Elsewhere, TaskOK
<1>4. RunOK' /\ (phase' \in Governing => governed')
  BY <1>1 DEF Elsewhere, RunOK, run
<1> QED
  BY <1>3, <1>4, TypeInvParts

LEMMA AdvanceType ==
    ASSUME TypeInv, Advance
    PROVE  TypeInv'
<1>1. RunOK /\ TaskOK /\ (phase \in Governing => governed)
  BY TypeInvParts
<1>2. step \in 0..maxSteps /\ maxSteps \in Nat
  BY <1>1, SessionAssumption DEF RunOK
<1>3. CASE StepLimit
  <2>1. RunOK' /\ phase' = "idle"
    BY <1>1, <1>3, StopRun DEF StepLimit, Fail, Endings
  <2> QED
    BY <1>1, <1>3, <2>1, TaskUnchanged, TypeInvParts DEF StepLimit, Governing
<1>4. CASE Interrupted
  <2>1. RunOK' /\ phase' = "idle"
    BY <1>1, <1>4, StopRun DEF Interrupted, Fail, Endings
  <2> QED
    BY <1>1, <1>4, <2>1, TaskUnchanged, TypeInvParts DEF Interrupted, Governing
<1>5. CASE AskModel
  <2>1. RunOK' /\ phase' = "turn"
    BY <1>1, <1>5, GotoRun DEF AskModel, Phases
  <2> QED
    BY <1>1, <1>5, <2>1, TaskUnchanged, TypeInvParts DEF AskModel, Governing
<1>6. CASE AdvanceStage
  <2>1. governed /\ step < maxSteps
    BY <1>6 DEF AdvanceStage, BelongsToRuntime
  <2>2. RunOK'
    <3>1. CASE Fail("error")
      BY <1>1, <3>1, StopRun DEF Fail, Endings
    <3>2. CASE Goto(IF stored.state = "verifying" THEN "verify" ELSE "stage")
      BY <1>1, <2>1, <3>2, GotoRun DEF Phases
    <3> QED
      BY <1>6, <3>1, <3>2 DEF AdvanceStage
  <2> QED
    BY <1>1, <1>6, <2>1, <2>2, TaskUnchanged, TypeInvParts DEF AdvanceStage
<1>7. CASE VerifyFailed
  <2>1. RunOK' /\ phase' = "idle"
    BY <1>1, <1>7, StopRun DEF VerifyFailed, Fail, Endings
  <2>2. stored' \in Tasks \cup {None} /\ (stored' # None \/ stored' = stored)
    <3>1. CASE UNCHANGED stored
      BY <1>1, <3>1 DEF TaskOK
    <3>2. CASE \E action \in {"gates_verified", "gate_failed"} : Moves(action)
      BY <1>1, <3>2, MovesTask DEF Actions
    <3> QED
      BY <1>7, <3>1, <3>2 DEF VerifyFailed
  <2>3. TaskOK'
    BY <1>1, <1>7, <2>2 DEF VerifyFailed, TaskOK
  <2> QED
    BY <2>1, <2>3, TypeInvParts DEF Governing
<1>8. CASE StageChecked
  <2>1. governed /\ step < maxSteps
    BY <1>1, <1>8 DEF StageChecked, Governing, RunOK, Counted
  <2>2. TaskOK' /\ governed'
    BY <1>1, <1>8, <2>1, RefreshTask DEF StageChecked
  <2>3. RunOK'
    <3>1. CASE Continue
      BY <1>1, <2>1, <3>1, ContinueRun
    <3>2. CASE Finish("stall")
      BY <1>1, <3>2, FinishRun DEF Endings
    <3> QED
      BY <1>8, <3>1, <3>2 DEF StageChecked
  <2> QED
    BY <2>2, <2>3, TypeInvParts
<1>9. ASSUME NEW action \in Actions, Verified(action)
      PROVE  TypeInv'
  <2>1. governed /\ step < maxSteps
    BY <1>1, <1>9 DEF Verified, Governing, RunOK, Counted
  <2>2. TaskOK' /\ governed'
    BY <1>1, <1>9, <2>1, VerifyTask DEF Verified
  <2>3. before' \in States \cup {None}
    BY <1>1, <1>9 DEF Verified, TaskOK
  <2>4. RunOK'
    BY <1>1, <1>9, <2>1, <2>3 DEF Verified, RunOK, Phases
  <2> QED
    BY <2>2, <2>4, TypeInvParts
<1> QED
  BY <1>3, <1>4, <1>5, <1>6, <1>7, <1>8, <1>9 DEF Advance

\* What a call leaves of the session: its types and its identity.
LEMMA InterceptType ==
    ASSUME TaskOK, NEW call \in ToolCalls
    PROVE  /\ Consumed(call) \in EnforceSessions
           /\ Consumed(call).role = session.role
           /\ Refused(loop, Consumed(call), call) \in EnforceSessions
           /\ Refused(loop, Consumed(call), call).role = session.role
           /\ Allowed(loop, Consumed(call), call) \in EnforceSessions
           /\ Allowed(loop, Consumed(call), call).role = session.role
<1>1. Consumed(call) \in EnforceSessions /\ Consumed(call).role = session.role
  BY ConsumedType DEF TaskOK
<1> QED
  BY <1>1, RefusedType, AllowedType

LEMMA RunsTask ==
    ASSUME TaskOK, NEW call \in ToolCalls, NEW ok \in BOOLEAN, Runs(call.tool, ok)
    PROVE  stored' \in Tasks \cup {None} /\ (stored' # None \/ stored' = stored)
<1>1. Requests(call.tool) \subseteq Actions /\ FailingRequests(call.tool) \subseteq Actions
  BY DEF Requests, FailingRequests, Actions
<1>2. CASE UNCHANGED stored
  BY <1>2 DEF TaskOK
<1>3. CASE \E action \in IF ok THEN Requests(call.tool) ELSE FailingRequests(call.tool) :
                Moves(action)
  BY <1>1, <1>3, MovesTask
<1> QED
  BY <1>2, <1>3 DEF Runs

LEMMA CallType ==
    ASSUME TypeInv, NEW call \in ToolCalls,
           \/ CallRefused(call)
           \/ CallAborted(call)
           \/ \E ok, again \in BOOLEAN : CallRuns(call, ok, again)
    PROVE  TypeInv' /\ session'.role = session.role
<1>1. RunOK /\ TaskOK /\ (phase \in Governing => governed)
  BY TypeInvParts
<1>2. left > 0 => left - 1 \in 0..MaxBatch
  BY <1>1, SessionAssumption DEF RunOK
<1>3. CASE CallRefused(call)
  <2>1. session' \in EnforceSessions /\ session'.role = session.role
    BY <1>1, <1>3, InterceptType DEF CallRefused
  <2>2. refusals' \in 0..MaxViolations
    BY <1>1, <1>3, CountType, LimitsType DEF CallRefused, TaskOK
  <2>3. TaskOK'
    BY <1>1, <1>3, <2>1, <2>2 DEF CallRefused, TaskOK
  <2>4. RunOK' /\ (phase' \in Governing => governed')
    BY <1>1, <1>2, <1>3 DEF CallRefused, RunOK
  <2> QED
    BY <2>1, <2>3, <2>4, TypeInvParts
<1>4. CASE CallAborted(call)
  <2>1. session' \in EnforceSessions /\ session'.role = session.role
    BY <1>1, <1>4, InterceptType DEF CallAborted
  <2>2. TaskOK'
    BY <1>1, <1>4, <2>1 DEF CallAborted, TaskOK, history
  <2>3. RunOK' /\ (phase' \in Governing => governed')
    BY <1>1, <1>4, LimitsType DEF CallAborted, RunOK
  <2> QED
    BY <2>1, <2>2, <2>3, TypeInvParts
<1>5. CASE \E ok, again \in BOOLEAN : CallRuns(call, ok, again)
  <2>1. PICK ok \in BOOLEAN, again \in BOOLEAN : CallRuns(call, ok, again)
    BY <1>5
  <2> DEFINE allowed == IF governed THEN Allowed(loop, Consumed(call), call)
                        ELSE Consumed(call)
  <2>2. allowed \in EnforceSessions /\ allowed.role = session.role
    BY <1>1, InterceptType
  <2>3. session' = [allowed EXCEPT
                      !.handedOff = @ \/ (ok /\ call.tool = ExpectedHandoff)]
    BY <2>1 DEF CallRuns
  <2> HIDE DEF allowed
  <2>4. session' \in EnforceSessions /\ session'.role = session.role
    BY <2>2, <2>3 DEF EnforceSessions
  <2>5. stored' \in Tasks \cup {None} /\ (stored' # None \/ stored' = stored)
    BY <1>1, <2>1, RunsTask DEF CallRuns
  <2>6. TaskOK'
    BY <1>1, <2>1, <2>4, <2>5 DEF CallRuns, TaskOK
  <2>7. streak' \in 0..maxIdenticalFailures
    BY <1>1, <2>1, SessionAssumption DEF CallRuns, trackFailure, RunOK
  <2>8. RunOK' /\ (phase' \in Governing => governed')
    BY <1>1, <1>2, <2>1, <2>7
    DEF CallRuns, RunOK, AfterCall, Phases, Counted, Governing
  <2> QED
    BY <2>4, <2>6, <2>8, TypeInvParts
<1> QED
  BY <1>3, <1>4, <1>5

LEMMA TurnType ==
    ASSUME TypeInv, Turn
    PROVE  TypeInv'
<1>1. RunOK /\ TaskOK /\ (phase \in Governing => governed)
  BY TypeInvParts
<1>2. ASSUME NEW n \in 1..MaxBatch, TurnWithCalls(n)
      PROVE  TypeInv'
  <2>1. n \in 0..MaxBatch
    BY SessionAssumption
  <2>2. RunOK' /\ phase' = "calls"
    BY <1>1, <1>2, <2>1 DEF TurnWithCalls, RunOK, Phases, Counted
  <2>3. TaskOK'
    BY <1>1, <1>2, TaskUnchanged DEF TurnWithCalls
  <2> QED
    BY <2>2, <2>3, TypeInvParts DEF Governing
<1>3. CASE Answer
  <2>1. RunOK' /\ (phase' # "idle" => phase' = "net" /\ governed)
    BY <1>1, <1>3, FinishRun DEF Answer, Endings
  <2> QED
    BY <1>1, <1>3, <2>1, TaskUnchanged, TypeInvParts DEF Answer, Governing
<1>4. CASE TurnRefused
  <2>1. step < maxSteps
    BY <1>1, <1>4 DEF TurnRefused, RunOK, Counted
  <2>2. RunOK' /\ phase' \in {"idle", "step"}
    <3>1. CASE Fail("missing")
      BY <1>1, <3>1, StopRun DEF Fail, Endings
    <3>2. CASE Continue
      BY <1>1, <2>1, <3>2, ContinueRun
    <3> QED
      BY <1>4, <3>1, <3>2 DEF TurnRefused
  <2>3. session' \in EnforceSessions
    <3>1. Violated(session) \in EnforceSessions
      BY <1>1, ViolatedType DEF TaskOK
    <3>2. ForceTool(loop, Violated(session)) \in Tools \cup {""}
      BY ForceType, HandoffType
    <3> QED
      BY <1>4, <3>1, <3>2 DEF TurnRefused, EnforceSessions
  <2>4. refusals' \in 0..MaxViolations
    BY <1>1, <1>4, CountType, LimitsType DEF TurnRefused, TaskOK
  <2>5. TaskOK'
    BY <1>1, <1>4, <2>3, <2>4 DEF TurnRefused, TaskOK
  <2> QED
    BY <2>2, <2>5, TypeInvParts DEF Governing
<1>5. ASSUME NEW call \in ToolCalls,
             \/ CallRefused(call)
             \/ CallAborted(call)
             \/ \E ok, again \in BOOLEAN : CallRuns(call, ok, again)
      PROVE  TypeInv'
  BY <1>5, CallType
<1>6. CASE Refreshed
  <2>1. governed /\ step < maxSteps
    BY <1>1, <1>6 DEF Refreshed, Governing, RunOK, Counted
  <2>2. TaskOK' /\ governed'
    BY <1>1, <1>6, <2>1, RefreshTask DEF Refreshed
  <2>3. RunOK'
    BY <1>1, <1>6, <2>1, GotoRun DEF Refreshed, Phases
  <2> QED
    BY <2>2, <2>3, TypeInvParts
<1>7. CASE BatchDone
  <2>1. step < maxSteps
    BY <1>1, <1>7 DEF BatchDone, RunOK, Counted
  <2>2. RunOK' /\ phase' \in {"idle", "step"}
    <3>1. CASE Fail("stuck")
      BY <1>1, <3>1, StopRun DEF Fail, Endings
    <3>2. CASE Continue
      BY <1>1, <2>1, <3>2, ContinueRun
    <3> QED
      BY <1>7, <3>1, <3>2 DEF BatchDone
  <2>3. TaskOK'
    BY <1>1, <1>7, TaskUnchanged DEF BatchDone
  <2> QED
    BY <2>2, <2>3, TypeInvParts DEF Governing
<1> QED
  BY <1>2, <1>3, <1>4, <1>5, <1>6, <1>7 DEF Turn

LEMMA SafetyNetType ==
    ASSUME TypeInv, SafetyNet
    PROVE  TypeInv'
<1>1. RunOK /\ TaskOK /\ (phase \in Governing => governed)
  BY TypeInvParts
<1>2. CASE Net
  <2>1. governed
    BY <1>1, <1>2 DEF Net, Governing
  <2>2. RunOK'
    <3>1. CASE Fail("error")
      BY <1>1, <3>1, StopRun DEF Fail, Endings
    <3>2. CASE Goto("net_verify") \/ Goto("idle")
      BY <1>1, <3>2, GotoRun DEF Phases, Counted
    <3> QED
      BY <1>2, <3>1, <3>2 DEF Net
  <2> QED
    BY <1>1, <1>2, <2>1, <2>2, TaskUnchanged, TypeInvParts DEF Net
<1>3. ASSUME NEW action \in Actions, NetVerified(action)
      PROVE  TypeInv'
  <2>1. governed
    BY <1>1, <1>3 DEF NetVerified, Governing
  <2>2. TaskOK' /\ governed'
    BY <1>1, <1>3, <2>1, VerifyTask DEF NetVerified
  <2>3. RunOK'
    BY <1>1, <1>3, GotoRun DEF NetVerified, Phases, Counted
  <2> QED
    BY <2>2, <2>3, TypeInvParts
<1> QED
  BY <1>2, <1>3 DEF SafetyNet

LEMMA StepType == TypeInv /\ [Next]_vars => TypeInv'
<1> SUFFICES ASSUME TypeInv, [Next]_vars PROVE TypeInv'
  OBVIOUS
<1>1. CASE Prompt \/ SwitchOff \/ SwitchOn
  BY <1>1, BetweenRunsType
<1>2. CASE RunStep
  BY <1>2, AdvanceType, TurnType, SafetyNetType DEF RunStep
<1>3. ASSUME NEW action \in OtherActions, Elsewhere(action)
      PROVE  TypeInv'
  BY <1>3, ElsewhereType, SessionAssumption
<1>4. CASE UNCHANGED vars
  BY <1>4 DEF vars, run, history, TypeInv, TypeOK, Placed
<1> QED
  BY <1>1, <1>2, <1>3, <1>4 DEF Next

LEMMA TypeInvHolds == Spec => []TypeInv
  BY InitType, StepType, PTL DEF Spec

\* Every variable keeps its type: a run never counts a step past its limit, and
\* a governed session always has a task to look at.
THEOREM SessionTypeCorrect == Spec => []TypeOK
<1>1. TypeInv => TypeOK
  BY DEF TypeInv
<1> QED
  BY <1>1, TypeInvHolds, PTL

-----------------------------------------------------------------------------
\* The identity.

IdentityInv == TypeInv /\ IdentityFollowsStage

LEMMA FollowIdentity ==
    ASSUME session \in EnforceSessions, NEW state \in States, Follow(state), governed'
    PROVE  IdentityFollowsStage'
<1>1. app' # None
  BY SessionAssumption DEF Follow
<1> QED
  BY <1>1, RetargetType DEF Follow, IdentityFollowsStage

LEMMA UnchangedIdentity ==
    ASSUME IdentityFollowsStage, UNCHANGED <<app, loop, governed>>,
           session' = session \/ (governed /\ session'.role = session.role)
    PROVE  IdentityFollowsStage'
  BY DEF IdentityFollowsStage

LEMMA RefreshIdentity ==
    ASSUME IdentityInv, governed, refreshTask
    PROVE  IdentityFollowsStage'
<1>1. CASE Follow(stored.state)
  <2>1. stored.state \in States /\ session \in EnforceSessions
    BY DEF IdentityInv, TypeInv, TypeOK, Placed, Tasks
  <2> QED
    BY <1>1, <2>1, FollowIdentity DEF refreshTask
<1>2. CASE ~Follow(stored.state)
  BY <1>2, UnchangedIdentity DEF refreshTask, IdentityInv
<1> QED
  BY <1>1, <1>2

LEMMA VerifyIdentity ==
    ASSUME IdentityInv, governed, NEW action \in Actions, Verify(action)
    PROVE  IdentityFollowsStage'
<1>1. TaskOK
  BY TypeInvParts DEF IdentityInv
<1>2. stored' \in Tasks
  BY <1>1, MovesTask DEF Verify
<1>3. stored'.state \in States
  BY <1>2 DEF Tasks
<1> QED
  BY <1>1, <1>3, FollowIdentity DEF Verify, TaskOK

\* A plain session's tools leave its empty counters as they are: the handoffs
\* among them are refused, and a pin is never set.
LEMMA PlainCallIdentity ==
    ASSUME IdentityInv, ~governed, NEW call \in ToolCalls,
           \/ CallRefused(call)
           \/ CallAborted(call)
           \/ \E ok, again \in BOOLEAN : CallRuns(call, ok, again)
    PROVE  session' = session
<1>1. session = NewSession("") /\ loop = None
  BY DEF IdentityInv, IdentityFollowsStage
<1>2. call.tool # ""
  BY DEF ToolCalls, Tools, WorkflowTools
<1>3. Consumed(call) = session
  BY <1>1, <1>2 DEF Consumed, NewSession
<1>4. CASE CallRefused(call) \/ CallAborted(call)
  BY <1>3, <1>4 DEF CallRefused, CallAborted
<1>5. CASE \E ok, again \in BOOLEAN : CallRuns(call, ok, again)
  <2>1. PICK ok \in BOOLEAN, again \in BOOLEAN : CallRuns(call, ok, again)
    BY <1>5
  <2>2. call.tool # ExpectedHandoff
    BY <1>1, <2>1
    DEF CallRuns, Intercepted, NopRefuses, ExpectedHandoff, HandoffTool, WorkflowTools
  <2>3. session' = [session EXCEPT !.handedOff = @ \/ (ok /\ call.tool = ExpectedHandoff)]
    BY <1>3, <2>1 DEF CallRuns
  <2>4. session' = [session EXCEPT !.handedOff = @]
    BY <1>1, <2>2, <2>3 DEF NewSession
  <2> QED
    BY <1>1, <2>4 DEF NewSession
<1> QED
  BY <1>4, <1>5

LEMMA IdentityStep == IdentityInv /\ [Next]_vars => IdentityFollowsStage'
<1> SUFFICES ASSUME IdentityInv, [Next]_vars PROVE IdentityFollowsStage'
  OBVIOUS
<1>1. /\ IdentityFollowsStage
      /\ TypeInv
      /\ session \in EnforceSessions
      /\ phase \in Governing => governed
  BY DEF IdentityInv, TypeInv, TypeOK, Placed
<1>2. CASE UNCHANGED <<app, loop, session, governed>>
  BY <1>1, <1>2, UnchangedIdentity
<1>3. CASE Prompt
  BY <1>1, <1>3, RetargetType DEF Prompt, IdentityFollowsStage
<1>4. CASE SwitchOff
  BY <1>4 DEF SwitchOff, IdentityFollowsStage
<1>5. CASE SwitchOn
  <2>1. app' # None
    BY <1>1, <1>5, OpeningType, SessionAssumption DEF SwitchOn
  <2> QED
    BY <1>1, <1>5, <2>1, RetargetType DEF SwitchOn, IdentityFollowsStage
<1>6. CASE Advance
  <2>1. CASE StageChecked
    BY <1>1, <2>1, RefreshIdentity DEF StageChecked, Governing
  <2>2. ASSUME NEW action \in Actions, Verified(action)
        PROVE  IdentityFollowsStage'
    BY <1>1, <2>2, VerifyIdentity DEF Verified, Governing
  <2> QED
    BY <1>2, <1>6, <2>1, <2>2
    DEF Advance, StepLimit, Interrupted, AskModel, AdvanceStage, VerifyFailed
<1>7. CASE Turn
  <2>1. CASE TurnRefused
    <3>1. session'.role = session.role
      BY <1>1, <2>1, ViolatedType DEF TurnRefused, EnforceSessions
    <3> QED
      BY <1>1, <2>1, <3>1, UnchangedIdentity DEF TurnRefused
  <2>2. ASSUME NEW call \in ToolCalls,
               \/ CallRefused(call)
               \/ CallAborted(call)
               \/ \E ok, again \in BOOLEAN : CallRuns(call, ok, again)
        PROVE  IdentityFollowsStage'
    <3>1. session' = session \/ (governed /\ session'.role = session.role)
      BY <1>1, <2>2, CallType, PlainCallIdentity
    <3> QED
      BY <1>1, <2>2, <3>1, UnchangedIdentity
      DEF CallRefused, CallAborted, CallRuns
  <2>3. CASE Refreshed
    BY <1>1, <2>3, RefreshIdentity DEF Refreshed, Governing
  <2> QED
    BY <1>2, <1>7, <2>1, <2>2, <2>3 DEF Turn, TurnWithCalls, Answer, BatchDone
<1>8. CASE SafetyNet
  <2>1. ASSUME NEW action \in Actions, NetVerified(action)
        PROVE  IdentityFollowsStage'
    BY <1>1, <2>1, VerifyIdentity DEF NetVerified, Governing
  <2> QED
    BY <1>2, <1>8, <2>1 DEF SafetyNet, Net
<1>9. CASE (\E action \in OtherActions : Elsewhere(action)) \/ UNCHANGED vars
  BY <1>2, <1>9 DEF Elsewhere, vars
<1> QED
  BY <1>3, <1>4, <1>5, <1>6, <1>7, <1>8, <1>9 DEF Next, RunStep

LEMMA IdentityInit == Init => IdentityFollowsStage
<1> SUFFICES ASSUME Init PROVE IdentityFollowsStage
  OBVIOUS
<1>1. CASE governed = FALSE
  BY <1>1 DEF Init, IdentityFollowsStage
<1>2. CASE governed = TRUE
  <2>1. PICK state \in States :
             /\ app = state /\ loop = state
             /\ session = NewSession(RoleForState(state))
    BY <1>2 DEF Init
  <2> QED
    BY <1>2, <2>1, SessionAssumption DEF IdentityFollowsStage, NewSession
<1> QED
  BY <1>1, <1>2 DEF Init

LEMMA IdentityInvHolds == Spec => []IdentityInv
<1>1. Init => IdentityInv
  BY IdentityInit, InitType DEF IdentityInv
<1>2. IdentityInv /\ [Next]_vars => IdentityInv'
  BY IdentityStep, StepType DEF IdentityInv
<1> QED
  BY <1>1, <1>2, PTL DEF Spec

\* The app, the loop and the enforcer agree on the stage and on whose it is, and
\* plain mode keeps neither a task in the loop nor a counter in the enforcer.
THEOREM IdentityFollows == Spec => []IdentityFollowsStage
<1>1. IdentityInv => IdentityFollowsStage
  BY DEF IdentityInv
<1> QED
  BY <1>1, IdentityInvHolds, PTL

-----------------------------------------------------------------------------
\* Pinned tools.

\* What PinIsOffered needs of a policy: a stage that owes a handoff is allowed
\* to make it, and stages of one role agree on delegation.
HandoffsAllowed ==
    \A state \in States : HandoffTool(state) \in VisibleTools(state) \cup {""}

DelegationByRole ==
    \A s, t \in States :
        RoleForState(s) = RoleForState(t) =>
            ("task" \in VisibleTools(s) <=> "task" \in VisibleTools(t))

\* The pins a stage can owe its session.
Pins(state) ==
    {"", HandoffTool(state)} \cup (VisibleTools(state) \cap {"task"})

PinOwed == governed => session.forced \in Pins(loop)

PinInv == IdentityInv /\ PinOwed

LEMMA HandoffByRole ==
    ASSUME NEW s, NEW t, RoleForState(s) = RoleForState(t)
    PROVE  HandoffTool(s) = HandoffTool(t)
  BY DEF RoleForState, HandoffTool, IsEditingState

LEMMA PinsByRole ==
    ASSUME DelegationByRole, NEW s \in States, NEW t \in States,
           RoleForState(s) = RoleForState(t)
    PROVE  Pins(s) = Pins(t)
<1>1. HandoffTool(s) = HandoffTool(t)
  BY HandoffByRole
<1>2. "task" \in VisibleTools(s) <=> "task" \in VisibleTools(t)
  BY DEF DelegationByRole
<1>3. VisibleTools(s) \cap {"task"} = VisibleTools(t) \cap {"task"}
  BY <1>2
<1> QED
  BY <1>1, <1>3 DEF Pins

LEMMA FollowPin ==
    ASSUME DelegationByRole, PinInv, governed, NEW state \in States, Follow(state)
    PROVE  PinOwed'
<1>1. /\ session \in EnforceSessions /\ loop \in States
      /\ session.role = RoleForState(loop) /\ session.forced \in Pins(loop)
  BY DEF PinInv, IdentityInv, IdentityFollowsStage, TypeInv, TypeOK, PinOwed
<1>2. CASE session.role = RoleForState(state)
  BY <1>1, <1>2, PinsByRole DEF Follow, retargetSession, PinOwed
<1>3. CASE session.role # RoleForState(state)
  <2>1. session'.forced = ""
    BY <1>1, <1>3
    DEF Follow, retargetSession, ResetStateCounters, EnforceSessions
  <2> QED
    BY <2>1 DEF PinOwed, Pins
<1> QED
  BY <1>2, <1>3

LEMMA RefreshPin ==
    ASSUME DelegationByRole, PinInv, governed, refreshTask
    PROVE  PinOwed'
<1>1. CASE Follow(stored.state)
  <2>1. stored.state \in States
    BY DEF PinInv, IdentityInv, TypeInv, TypeOK, Placed, Tasks
  <2> QED
    BY <1>1, <2>1, FollowPin
<1>2. CASE ~Follow(stored.state)
  BY <1>2 DEF refreshTask, PinInv, PinOwed
<1> QED
  BY <1>1, <1>2

LEMMA VerifyPin ==
    ASSUME DelegationByRole, PinInv, governed, NEW action \in Actions, Verify(action)
    PROVE  PinOwed'
<1>1. TaskOK
  BY TypeInvParts DEF PinInv, IdentityInv
<1>2. stored' \in Tasks
  BY <1>1, MovesTask DEF Verify
<1>3. stored'.state \in States
  BY <1>2 DEF Tasks
<1> QED
  BY <1>3, FollowPin DEF Verify

\* A refusal keeps the pin or sets one its stage owes.
LEMMA RefusedPin ==
    ASSUME NEW s \in EnforceSessions, NEW state, NEW call \in ToolCalls,
           s.forced \in Pins(state), Refuses(state, call)
    PROVE  Refused(state, s, call).forced \in Pins(state)
<1> DEFINE violated == Violated(s)
           force == IF Masked(state, call) THEN ForceTool(state, violated)
                    ELSE IF Forbidden(state, call) THEN "" ELSE "task"
<1>1. violated \in EnforceSessions /\ violated.forced = s.forced
  BY ViolatedType DEF Violated, EnforceSessions
<1>2. force \in Pins(state)
  <2>1. CASE Masked(state, call)
    BY <2>1, ForceType DEF Pins
  <2>2. CASE ~Masked(state, call)
    BY <2>2 DEF Refuses, HollowDelegation, Masked, Pins
  <2> QED
    BY <2>1, <2>2
<1>3. Refused(state, s, call) =
        IF force = "" THEN violated ELSE [violated EXCEPT !.forced = force]
  BY DEF Refused
<1> HIDE DEF violated, force
<1> QED
  BY <1>1, <1>2, <1>3 DEF EnforceSessions

LEMMA CallPin ==
    ASSUME PinInv, governed, NEW call \in ToolCalls,
           \/ CallRefused(call)
           \/ CallAborted(call)
           \/ \E ok, again \in BOOLEAN : CallRuns(call, ok, again)
    PROVE  PinOwed'
<1>1. session \in EnforceSessions /\ session.forced \in Pins(loop)
  BY DEF PinInv, IdentityInv, TypeInv, TypeOK, PinOwed
<1>2. Consumed(call) \in EnforceSessions /\ Consumed(call).forced \in Pins(loop)
  BY <1>1, ConsumedType DEF Consumed, EnforceSessions, Pins
<1>3. /\ Allowed(loop, Consumed(call), call) \in EnforceSessions
      /\ Allowed(loop, Consumed(call), call).forced = Consumed(call).forced
  BY <1>2, AllowedType DEF Allowed, EnforceSessions
<1>4. CASE CallRefused(call)
  BY <1>2, <1>4, RefusedPin DEF CallRefused, Intercepted, PinOwed
<1>5. CASE CallAborted(call)
  BY <1>2, <1>3, <1>5 DEF CallAborted, PinOwed
<1>6. CASE \E ok, again \in BOOLEAN : CallRuns(call, ok, again)
  <2>1. PICK ok \in BOOLEAN, again \in BOOLEAN : CallRuns(call, ok, again)
    BY <1>6
  <2>2. session' = [Allowed(loop, Consumed(call), call) EXCEPT
                      !.handedOff = @ \/ (ok /\ call.tool = ExpectedHandoff)]
    BY <2>1 DEF CallRuns
  <2>3. session'.forced = Consumed(call).forced
    BY <1>3, <2>2 DEF EnforceSessions
  <2> QED
    BY <1>2, <2>1, <2>3 DEF CallRuns, PinOwed
<1> QED
  BY <1>4, <1>5, <1>6

LEMMA PinStep ==
    ASSUME DelegationByRole
    PROVE  PinInv /\ [Next]_vars => PinOwed'
<1> SUFFICES ASSUME PinInv, [Next]_vars PROVE PinOwed'
  OBVIOUS
<1>1. /\ PinOwed
      /\ IdentityFollowsStage
      /\ TypeInv
      /\ session \in EnforceSessions
      /\ phase \in Governing => governed
  BY DEF PinInv, IdentityInv, TypeInv, TypeOK, Placed
<1>2. CASE UNCHANGED <<loop, session, governed>>
  BY <1>1, <1>2 DEF PinOwed
<1>3. CASE Prompt
  BY <1>1, <1>3 DEF Prompt, retargetSession, IdentityFollowsStage, PinOwed
<1>4. CASE SwitchOff
  BY <1>4 DEF SwitchOff, PinOwed
<1>5. CASE SwitchOn
  <2>1. session.forced = ""
    <3>1. session = NewSession("")
      BY <1>1, <1>5 DEF SwitchOn, IdentityFollowsStage
    <3> QED
      BY <3>1 DEF NewSession
  <2>2. session'.forced = ""
    BY <1>1, <1>5, <2>1
    DEF SwitchOn, retargetSession, ResetStateCounters, EnforceSessions
  <2> QED
    BY <2>2 DEF PinOwed, Pins
<1>6. CASE Advance
  <2>1. CASE StageChecked
    BY <1>1, <2>1, RefreshPin DEF StageChecked, Governing
  <2>2. ASSUME NEW action \in Actions, Verified(action)
        PROVE  PinOwed'
    BY <1>1, <2>2, VerifyPin DEF Verified, Governing
  <2> QED
    BY <1>2, <1>6, <2>1, <2>2
    DEF Advance, StepLimit, Interrupted, AskModel, AdvanceStage, VerifyFailed
<1>7. CASE Turn
  <2>1. CASE TurnRefused
    <3>1. session'.forced = ForceTool(loop, Violated(session))
      BY <1>1, <2>1, ViolatedType DEF TurnRefused, EnforceSessions
    <3> QED
      BY <2>1, <3>1, ForceType DEF TurnRefused, PinOwed, Pins
  <2>2. ASSUME NEW call \in ToolCalls,
               \/ CallRefused(call)
               \/ CallAborted(call)
               \/ \E ok, again \in BOOLEAN : CallRuns(call, ok, again)
        PROVE  PinOwed'
    <3>1. CASE governed
      BY <2>2, <3>1, CallPin
    <3>2. CASE ~governed
      BY <2>2, <3>2 DEF CallRefused, CallAborted, CallRuns, PinOwed
    <3> QED
      BY <3>1, <3>2
  <2>3. CASE Refreshed
    BY <1>1, <2>3, RefreshPin DEF Refreshed, Governing
  <2> QED
    BY <1>2, <1>7, <2>1, <2>2, <2>3 DEF Turn, TurnWithCalls, Answer, BatchDone
<1>8. CASE SafetyNet
  <2>1. ASSUME NEW action \in Actions, NetVerified(action)
        PROVE  PinOwed'
    BY <1>1, <2>1, VerifyPin DEF NetVerified, Governing
  <2> QED
    BY <1>2, <1>8, <2>1 DEF SafetyNet, Net
<1>9. CASE (\E action \in OtherActions : Elsewhere(action)) \/ UNCHANGED vars
  BY <1>2, <1>9 DEF Elsewhere, vars
<1> QED
  BY <1>3, <1>4, <1>5, <1>6, <1>7, <1>8, <1>9 DEF Next, RunStep

\* Under a policy that allows every stage its handoff and lets the stages of a
\* role agree on delegation, no request pins a tool it does not offer.
THEOREM PinsAreOffered ==
    ASSUME HandoffsAllowed, DelegationByRole
    PROVE  Spec => []PinIsOffered
<1>1. Init => PinInv
  <2>1. \A role : NewSession(role).forced = ""
    BY DEF NewSession
  <2>2. Init => PinOwed
    BY <2>1 DEF Init, PinOwed, Pins
  <2> QED
    BY <2>2, InitType, IdentityInit DEF PinInv, IdentityInv
<1>2. PinInv /\ [Next]_vars => PinInv'
  BY PinStep, IdentityStep, StepType DEF PinInv, IdentityInv
<1>3. PinInv => PinIsOffered
  <2> SUFFICES ASSUME PinInv, governed, phase = "turn"
               PROVE  ToolChoice(loop, session) \in VisibleTools(loop) \cup {""}
    BY DEF PinIsOffered
  <2>1. loop \in States /\ session.forced \in Pins(loop)
    BY DEF PinInv, PinOwed, IdentityInv, IdentityFollowsStage, TypeInv, TypeOK
  <2>2. HandoffTool(loop) \in VisibleTools(loop) \cup {""}
    BY <2>1 DEF HandoffsAllowed
  <2> QED
    BY <2>1, <2>2 DEF ToolChoice, Pins
<1> QED
  BY <1>1, <1>2, <1>3, PTL DEF Spec

-----------------------------------------------------------------------------
\* What the session knows of the stored task.

\* Whenever the last call has been followed by a reading, the app knows the
\* stage: also in plain mode, which it enters and leaves with the same task.
AppSees ==
    /\ app # None
    /\ phase # "refresh"
    /\ ~missed /\ ~moved
    => app = stored.state

SightInv == IdentityInv /\ AppSees

LEMMA NewTaskState == \A state : NewTask(state).state = state
  BY DEF NewTask

LEMMA RefreshSight ==
    ASSUME SightInv, governed, refreshTask
    PROVE  AppSees'
<1>1. loop = app /\ app # None /\ UNCHANGED stored
  BY DEF SightInv, IdentityInv, IdentityFollowsStage, refreshTask
<1>2. CASE Follow(stored.state)
  BY <1>1, <1>2 DEF Follow, AppSees
<1>3. CASE stored.state = loop /\ UNCHANGED app
  BY <1>1, <1>3 DEF AppSees
<1>4. CASE missed' = TRUE
  BY <1>4 DEF AppSees
<1> QED
  BY <1>2, <1>3, <1>4 DEF refreshTask

\* The tools a plain session runs are not those that move the task.
LEMMA PlainCallTask ==
    ASSUME ~governed, NEW call \in ToolCalls, NEW ok \in BOOLEAN, NEW again \in BOOLEAN,
           CallRuns(call, ok, again)
    PROVE  UNCHANGED stored
<1>1. call.tool \notin WorkflowTools /\ Runs(call.tool, ok)
  BY DEF CallRuns, Intercepted, NopRefuses
<1>2. Requests(call.tool) = {} /\ FailingRequests(call.tool) = {}
  BY <1>1 DEF Requests, FailingRequests, WorkflowTools
<1> QED
  BY <1>1, <1>2 DEF Runs

LEMMA SightStep == SightInv /\ [Next]_vars => AppSees'
<1> SUFFICES ASSUME SightInv, [Next]_vars PROVE AppSees'
  OBVIOUS
<1>1. /\ AppSees
      /\ phase \in Governing => governed
  BY DEF SightInv, IdentityInv, TypeInv, Placed
<1>2. ASSUME UNCHANGED <<stored, app, missed, moved>>, phase # "refresh"
      PROVE  AppSees'
  BY <1>1, <1>2 DEF AppSees
<1>3. CASE Prompt \/ SwitchOff
  BY <1>2, <1>3 DEF Prompt, SwitchOff, run, history
<1>4. CASE SwitchOn
  <2>1. UNCHANGED <<phase, missed, moved>>
    BY <1>4 DEF SwitchOn, run, history
  <2>2. CASE \E state \in OpeningStages : stored' = NewTask(state) /\ app' = state
    <3>1. app' = stored'.state
      BY <2>2, NewTaskState
    <3> QED
      BY <3>1 DEF AppSees
  <2>3. CASE UNCHANGED <<stored, app>>
    BY <1>1, <2>1, <2>3 DEF AppSees
  <2> QED
    BY <1>4, <2>2, <2>3 DEF SwitchOn
<1>5. CASE Advance
  <2>1. CASE StageChecked
    BY <1>1, <2>1, RefreshSight DEF StageChecked, Governing
  <2>2. ASSUME NEW action \in Actions, Verified(action)
        PROVE  AppSees'
    BY <2>2 DEF Verified, Verify, Follow, AppSees
  <2>3. CASE VerifyFailed
    BY <1>1, <2>3 DEF VerifyFailed, AppSees
  <2> QED
    BY <1>2, <1>5, <2>1, <2>2, <2>3
    DEF Advance, StepLimit, Interrupted, AskModel, AdvanceStage, history
<1>6. CASE Turn
  <2>1. CASE Refreshed
    BY <1>1, <2>1, RefreshSight DEF Refreshed, Governing
  <2>2. ASSUME NEW call \in ToolCalls, NEW ok \in BOOLEAN, NEW again \in BOOLEAN,
               CallRuns(call, ok, again)
        PROVE  AppSees'
    <3>1. CASE governed
      BY <2>2, <3>1 DEF CallRuns, AfterCall, AppSees
    <3>2. CASE ~governed
      BY <1>2, <2>2, <3>2, PlainCallTask DEF CallRuns
    <3> QED
      BY <3>1, <3>2
  <2>3. ASSUME NEW call \in ToolCalls, CallRefused(call) \/ CallAborted(call)
        PROVE  AppSees'
    BY <1>2, <2>3 DEF CallRefused, CallAborted, history
  <2> QED
    BY <1>2, <1>6, <2>1, <2>2, <2>3
    DEF Turn, TurnWithCalls, Answer, TurnRefused, BatchDone, history
<1>7. CASE SafetyNet
  <2>1. ASSUME NEW action \in Actions, NetVerified(action)
        PROVE  AppSees'
    BY <2>1 DEF NetVerified, Verify, Follow, AppSees
  <2> QED
    BY <1>2, <1>7, <2>1 DEF SafetyNet, Net, history
<1>8. CASE \E action \in OtherActions : Elsewhere(action)
  BY <1>8 DEF Elsewhere, AppSees
<1>9. CASE UNCHANGED vars
  BY <1>1, <1>9 DEF vars, run, history, AppSees
<1> QED
  BY <1>3, <1>4, <1>5, <1>6, <1>7, <1>8, <1>9 DEF Next, RunStep

\* While nobody else touched the task and every reading of it succeeded, the
\* stage that judges a request or a call is the stored one.
THEOREM LoopSees == Spec => []LoopSeesTask
<1>1. ASSUME Init PROVE AppSees
  <2>1. CASE app = None
    BY <2>1 DEF AppSees
  <2>2. CASE \E state \in States : stored = NewTask(state) /\ app = state
    BY <2>2, NewTaskState DEF AppSees
  <2> QED
    BY <1>1, <2>1, <2>2 DEF Init
<1>2. Init => SightInv
  BY <1>1, InitType, IdentityInit DEF SightInv, IdentityInv
<1>3. SightInv /\ [Next]_vars => SightInv'
  BY SightStep, IdentityStep, StepType DEF SightInv, IdentityInv
<1>4. SightInv => LoopSeesTask
  BY DEF SightInv, IdentityInv, IdentityFollowsStage, AppSees, LoopSeesTask
<1> QED
  BY <1>2, <1>3, <1>4, PTL DEF Spec

-----------------------------------------------------------------------------

\* Plain mode never moves the task: whatever the model asks for, the only steps
\* that change it are the switch to governance and those of other processes.
THEOREM PlainIsHarmless == Spec => PlainLeavesTaskAlone
<1> DEFINE Left == ~governed /\ stored' # stored =>
                     governed' \/ \E action \in OtherActions : Elsewhere(action)
<1>1. TypeInv /\ [Next]_vars => Left
  <2> SUFFICES ASSUME TypeInv, [Next]_vars, ~governed, stored' # stored,
                      ~ \E action \in OtherActions : Elsewhere(action)
               PROVE  governed'
    OBVIOUS
  <2>1. phase \notin Governing
    BY DEF TypeInv, Placed
  <2>2. CASE SwitchOn
    BY <2>2 DEF SwitchOn
  <2>3. CASE Advance
    BY <2>1, <2>3
    DEF Advance, StepLimit, Interrupted, AskModel, AdvanceStage, VerifyFailed,
        StageChecked, Verified, BelongsToRuntime, Governing
  <2>4. CASE Turn
    <3>1. ASSUME NEW call \in ToolCalls, NEW ok \in BOOLEAN, NEW again \in BOOLEAN,
                 CallRuns(call, ok, again)
          PROVE  FALSE
      BY <3>1, PlainCallTask
    <3> QED
      BY <2>1, <2>4, <3>1
      DEF Turn, TurnWithCalls, Answer, TurnRefused, CallRefused, CallAborted,
          Refreshed, BatchDone, Governing
  <2>5. CASE SafetyNet
    BY <2>1, <2>5 DEF SafetyNet, Net, NetVerified, Governing
  <2> QED
    BY <2>2, <2>3, <2>4, <2>5 DEF Next, RunStep, Prompt, SwitchOff, vars
<1>2. TypeInv /\ [Next]_vars => [Left]_vars
  BY <1>1
<1> QED
  BY <1>2, TypeInvHolds, PTL DEF Spec, PlainLeavesTaskAlone

-----------------------------------------------------------------------------
\* Handoffs and refusals, stage by stage.

\* Besides the session, operators block, resume and cancel the task.
OthersOperate == OtherActions \subseteq {"blocked", "resumed", "cancelled"}

\* A graph that parks, cancels and hands on as the builtin one does: only an
\* active stage is blocked and a blocked one resumed or cancelled, a cancelled
\* one is left alone, and every other way out of a stage with an owner leads to a
\* stage of another.
HandsOn ==
    \A state \in DOMAIN Graph : \A action \in DOMAIN Graph[state] :
        LET target == Graph[state][action]
        IN  /\ state # "cancelled"
            /\ target = "blocked" <=> action = "blocked"
            /\ action = "blocked" => activeState(state) # ""
            /\ action = "resumed" => state = "blocked"
            /\ state = "blocked" => action \in {"resumed", "cancelled"}
            /\ action = "cancelled" => target = "cancelled"
            /\ RoleForState(state) # "" /\ action # "blocked" =>
                    RoleForState(target) # RoleForState(state)

\* The builtin graph is one of those the theorems are about.
LEMMA BuiltinHandsOn == Graph = builtinTransitions => HandsOn
<1> SUFFICES ASSUME Graph = builtinTransitions,
                    NEW state \in DOMAIN Graph, NEW action \in DOMAIN Graph[state]
             PROVE  /\ state # "cancelled"
                    /\ Graph[state][action] = "blocked" <=> action = "blocked"
                    /\ action = "blocked" => activeState(state) # ""
                    /\ action = "resumed" => state = "blocked"
                    /\ state = "blocked" => action \in {"resumed", "cancelled"}
                    /\ action = "cancelled" => Graph[state][action] = "cancelled"
                    /\ RoleForState(state) # "" /\ action # "blocked" =>
                            RoleForState(Graph[state][action]) # RoleForState(state)
  BY DEF HandsOn
<1>1. state \in {"planning", "implementing", "verifying", "qa_review",
                 "changes_requested", "ready_to_complete", "blocked"}
  BY DEF builtinTransitions
<1> USE DEF activeState, IsEditingState, RoleForState, builtinTransitions
<1>2. CASE state = "planning"
  BY <1>2
<1>3. CASE state = "implementing"
  BY <1>3
<1>4. CASE state = "verifying"
  BY <1>4
<1>5. CASE state = "qa_review"
  BY <1>5
<1>6. CASE state = "changes_requested"
  BY <1>6
<1>7. CASE state = "ready_to_complete"
  BY <1>7
<1>8. CASE state = "blocked"
  BY <1>8
<1> QED
  BY <1>1, <1>2, <1>3, <1>4, <1>5, <1>6, <1>7, <1>8

\* The stage a task is in, or will be resumed to.
Standing(task) == IF task.state = "blocked" THEN task.resume ELSE task.state

ParkedRight(task) ==
    task.resume # "blocked" /\ (task.state = "blocked" => task.resume # "")

\* Operators have left the task where it was last seen, or cancelled it.
Stands(seen, task) ==
    \/ task.state = "cancelled"
    \/ seen = "blocked"
    \/ Standing(task) = seen

Leaves(seen, task) == RoleForState(Standing(task)) # RoleForState(seen)

\* What the session last saw of the task tells it where the task can be now; a
\* call that moved it has taken it from its owner; a handoff is remembered only
\* from there to the next reading; and no refusal counts for another stage.
StoredInv == stored # None => ParkedRight(stored)
SeenInv == app # None /\ ~missed /\ phase # "refresh" => Stands(app, stored)
CalledInv ==
    governed /\ ~missed /\ phase = "refresh" /\ RoleForState(loop) # "" =>
        Standing(stored) = loop \/ Leaves(loop, stored)
HandedInv ==
    governed /\ ~missed /\ session.handedOff =>
        phase = "refresh" /\ RoleForState(loop) # "" /\ Leaves(loop, stored)
EarnedInv ==
    governed /\ ~missed /\ RoleForState(loop) # "" => session.violations =< refusals

StageInv ==
    /\ IdentityInv
    /\ StoredInv /\ SeenInv /\ CalledInv
    /\ HandedInv /\ EarnedInv

LEMMA NewTaskStands ==
    ASSUME NEW state, state # "blocked"
    PROVE  ParkedRight(NewTask(state)) /\ Stands(state, NewTask(state))
<1>1. NewTask(state).state = state /\ NewTask(state).resume = ""
  BY DEF NewTask
<1> QED
  BY <1>1 DEF ParkedRight, Stands, Standing

LEMMA OwnerlessStages == RoleForState("blocked") = "" /\ RoleForState("cancelled") = ""
  BY DEF RoleForState, IsEditingState

\* What an action of an operator and one of the session do to a task.
LEMMA OperatorMoves ==
    ASSUME HandsOn, NEW t \in Tasks, ParkedRight(t), NEW action,
           action \in {"blocked", "resumed", "cancelled"}, Permits(Graph, t.state, action)
    PROVE  LET u == Transition(Graph, t, action)
           IN  /\ ParkedRight(u)
               /\ u.state = "cancelled" \/ (Standing(u) = Standing(t) /\ t.state # "cancelled")
<1> DEFINE u == Transition(Graph, t, action)
<1>1. u.state = Target(Graph, t, action) /\ u.resume = ResumeAfter(t, action)
  BY DEF Transition, Tasks
<1>2. /\ t.state # "cancelled"
      /\ Graph[t.state][action] = "blocked" <=> action = "blocked"
      /\ action = "blocked" => activeState(t.state) # ""
      /\ action = "resumed" => t.state = "blocked"
      /\ action = "cancelled" => Graph[t.state][action] = "cancelled"
  BY DEF HandsOn, Permits
<1> HIDE DEF u
<1>3. CASE action = "blocked"
  <2>1. u.state = "blocked" /\ u.resume = t.state /\ t.state # "blocked" /\ t.state # ""
    BY <1>1, <1>2, <1>3 DEF Target, ResumeAfter, activeState
  <2> QED
    BY <1>2, <2>1 DEF ParkedRight, Standing, u
<1>4. CASE action = "resumed"
  <2>1. u.state = t.resume /\ u.resume = "" /\ t.resume # "blocked"
    BY <1>1, <1>2, <1>4 DEF Target, ResumeAfter, ParkedRight
  <2> QED
    BY <1>2, <1>4, <2>1 DEF ParkedRight, Standing, u
<1>5. CASE action = "cancelled"
  <2>1. u.state = "cancelled" /\ u.resume = t.resume
    BY <1>1, <1>2, <1>5 DEF Target, ResumeAfter
  <2> QED
    BY <2>1 DEF ParkedRight, u
<1> QED
  BY <1>3, <1>4, <1>5

LEMMA SessionMoves ==
    ASSUME HandsOn, NEW t \in Tasks, ParkedRight(t), NEW action,
           action \notin {"blocked", "resumed", "cancelled"}, Permits(Graph, t.state, action)
    PROVE  LET u == Transition(Graph, t, action)
           IN  /\ ParkedRight(u)
               /\ t.state \notin {"blocked", "cancelled"}
               /\ Standing(t) = t.state /\ Standing(u) = u.state
               /\ RoleForState(t.state) # "" => RoleForState(u.state) # RoleForState(t.state)
<1> DEFINE u == Transition(Graph, t, action)
<1>1. u.state = Graph[t.state][action] /\ u.resume = t.resume
  BY DEF Transition, Tasks, Target, ResumeAfter
<1>2. /\ t.state # "cancelled" /\ t.state # "blocked"
      /\ Graph[t.state][action] # "blocked"
      /\ RoleForState(t.state) # "" =>
            RoleForState(Graph[t.state][action]) # RoleForState(t.state)
  BY DEF HandsOn, Permits
<1> HIDE DEF u
<1> QED
  BY <1>1, <1>2 DEF ParkedRight, Standing, u

LEMMA StageParts ==
    ASSUME StageInv
    PROVE  /\ TypeInv /\ TaskOK /\ IdentityFollowsStage
           /\ StoredInv /\ SeenInv /\ CalledInv /\ HandedInv /\ EarnedInv
           /\ session \in EnforceSessions /\ refusals \in 0..MaxViolations
           /\ phase \in Governing => governed
           /\ app # None => stored \in Tasks /\ ParkedRight(stored)
  BY TypeInvParts DEF StageInv, IdentityInv, TaskOK, Placed, TypeInv, StoredInv

LEMMA StageInit == Init => StageInv
<1> SUFFICES ASSUME Init PROVE StageInv
  OBVIOUS
<1>1. IdentityInv
  BY InitType, IdentityInit DEF IdentityInv
<1>2. session.handedOff = FALSE /\ session.violations = 0 /\ refusals = 0 /\ phase = "idle"
  <2>1. \A role : NewSession(role).handedOff = FALSE /\ NewSession(role).violations = 0
    BY DEF NewSession
  <2> QED
    BY <2>1 DEF Init
<1>3. StoredInv /\ SeenInv
  <2>1. CASE stored = None /\ app = None
    BY <2>1 DEF StoredInv, SeenInv
  <2>2. CASE \E state \in States \ {"blocked"} : stored = NewTask(state) /\ app = state
    BY <2>2, NewTaskStands DEF StoredInv, SeenInv
  <2> QED
    BY <2>1, <2>2 DEF Init
<1> QED
  BY <1>1, <1>2, <1>3 DEF StageInv, CalledInv, HandedInv, EarnedInv

\* Steps that neither read nor move the task, and count what they refuse.
LEMMA QuietStage ==
    ASSUME StageInv, UNCHANGED <<stored, app, loop, governed, missed>>,
           phase # "refresh", phase' # "refresh", session'.handedOff = session.handedOff,
           session.violations =< refusals => session'.violations =< refusals'
    PROVE  StoredInv' /\ SeenInv' /\ CalledInv' /\ HandedInv' /\ EarnedInv'
  BY DEF StageInv, StoredInv, SeenInv, CalledInv, HandedInv, EarnedInv

LEMMA CountedUp == \A m \in Nat : \A n \in 0..m : 0 =< n
  OBVIOUS

\* The task has been read: whoever owns its stage starts with nothing made and
\* nothing refused, unless it is the stage that was read before.
LEMMA FollowStage ==
    ASSUME StageInv, governed, stored' \in Tasks, ParkedRight(stored'),
           Follow(stored'.state), UNCHANGED <<governed, missed>>, phase' # "refresh",
           \/ missed
           \/ RoleForState(loop) = ""
           \/ /\ stored'.state # loop
              /\ RoleForState(stored'.state) # RoleForState(loop)
    PROVE  StoredInv' /\ SeenInv' /\ CalledInv' /\ HandedInv' /\ EarnedInv'
<1>1. /\ session \in EnforceSessions /\ refusals \in 0..MaxViolations
      /\ session.role = RoleForState(loop) /\ HandedInv
  BY StageParts DEF IdentityFollowsStage
<1>2. loop' = stored'.state /\ app' = stored'.state
      /\ session' = retargetSession(session, stored'.state)
      /\ refusals' \in 0..MaxViolations
  BY <1>1, LimitsType DEF Follow
<1>3. StoredInv'
  BY DEF StoredInv
<1>4. SeenInv'
  BY <1>2 DEF SeenInv, Stands, Standing
<1>5. CalledInv'
  BY DEF CalledInv
<1>6. ASSUME ~missed PROVE ~session'.handedOff
  <2>1. CASE session.role = RoleForState(stored'.state)
    <3>1. RoleForState(loop) = ""
      BY <1>1, <1>6, <2>1
    <3> QED
      BY <1>1, <1>2, <1>6, <2>1, <3>1 DEF HandedInv, retargetSession
  <2>2. CASE session.role # RoleForState(stored'.state)
    BY <1>1, <1>2, <2>2 DEF retargetSession, ResetStateCounters, EnforceSessions
  <2> QED
    BY <2>1, <2>2
<1>7. HandedInv'
  BY <1>6 DEF HandedInv
<1>8. ASSUME ~missed, RoleForState(stored'.state) # "" PROVE session'.violations =< refusals'
  <2>1. session.role # RoleForState(stored'.state)
    BY <1>1, <1>8
  <2>2. session'.violations = 0
    BY <1>1, <1>2, <2>1 DEF retargetSession, ResetStateCounters, EnforceSessions
  <2>3. refusals' \in 0..MaxViolations /\ MaxViolations \in Nat
    BY <1>2, LimitsType
  <2>4. 0 =< refusals'
    BY <2>3, CountedUp
  <2> QED
    BY <2>2, <2>4
<1>9. EarnedInv'
  BY <1>2, <1>8 DEF EarnedInv
<1> QED
  BY <1>3, <1>4, <1>5, <1>7, <1>9

LEMMA RefreshStage ==
    ASSUME StageInv, governed, refreshTask, phase' # "refresh"
    PROVE  StoredInv' /\ SeenInv' /\ CalledInv' /\ HandedInv' /\ EarnedInv'
<1>0. /\ loop = app /\ app # None /\ stored \in Tasks /\ ParkedRight(stored)
      /\ StoredInv /\ SeenInv /\ CalledInv /\ HandedInv /\ EarnedInv
  BY StageParts DEF IdentityFollowsStage
<1>1. UNCHANGED <<stored, governed>>
  BY DEF refreshTask
<1>2. CASE missed'
  BY <1>0, <1>1, <1>2 DEF StoredInv, SeenInv, CalledInv, HandedInv, EarnedInv
<1>3. CASE /\ stored.state # loop
           /\ Follow(stored.state)
           /\ UNCHANGED missed
  <2>1. CASE missed
    BY <1>0, <1>1, <1>3, <2>1, FollowStage
  <2>2. CASE RoleForState(loop) = ""
    BY <1>0, <1>1, <1>3, <2>2, FollowStage
  <2>3. CASE ~missed /\ RoleForState(loop) # ""
    <3>1. stored.state = "cancelled" \/ Standing(stored) = loop \/ Leaves(loop, stored)
      BY <1>0, <2>3, OwnerlessStages DEF SeenInv, CalledInv, Stands
    <3>2. RoleForState(stored.state) # RoleForState(loop)
      BY <1>3, <2>3, <3>1, OwnerlessStages DEF Standing, Leaves
    <3> QED
      BY <1>0, <1>1, <1>3, <3>2, FollowStage
  <2> QED
    BY <2>1, <2>2, <2>3
<1>4. CASE /\ stored.state = loop
           /\ UNCHANGED <<app, loop, session, refusals, missed>>
  <2>1. SeenInv'
    BY <1>0, <1>1, <1>4 DEF SeenInv, Stands, Standing
  <2>2. HandedInv'
    BY <1>0, <1>1, <1>4, OwnerlessStages DEF HandedInv, Leaves, Standing
  <2> QED
    BY <1>0, <1>1, <1>4, <2>1, <2>2 DEF StoredInv, CalledInv, EarnedInv
<1> QED
  BY <1>2, <1>3, <1>4 DEF refreshTask

LEMMA VerifyStage ==
    ASSUME HandsOn, StageInv, governed, NEW action, Verify(action),
           phase # "refresh", phase' # "refresh"
    PROVE  StoredInv' /\ SeenInv' /\ CalledInv' /\ HandedInv' /\ EarnedInv'
<1>0. /\ loop = app /\ app # None /\ stored \in Tasks /\ ParkedRight(stored)
      /\ SeenInv
  BY StageParts DEF IdentityFollowsStage
<1>1. /\ action \in {"gates_verified", "gate_failed"} /\ stored.state = "verifying"
      /\ Permits(Graph, stored.state, action)
      /\ stored' = Transition(Graph, stored, action)
      /\ Follow(stored'.state) /\ UNCHANGED <<governed, missed>>
  BY DEF Verify, Moves
<1>2. stored' \in Tasks /\ ParkedRight(stored')
  BY <1>0, <1>1, TransitionType, SessionMoves DEF Actions
<1>3. ~missed => RoleForState(loop) = ""
  <2>1. RoleForState("verifying") = ""
    BY DEF RoleForState, IsEditingState
  <2> QED
    BY <1>0, <1>1, <2>1, OwnerlessStages DEF SeenInv, Stands, Standing
<1> QED
  BY <1>1, <1>2, <1>3, FollowStage

\* A call that ran under governance: what it asks of the controller takes the
\* task from its owner, if it is still where it was seen.
LEMMA CalledStage ==
    ASSUME HandsOn, StageInv, governed, NEW call \in ToolCalls,
           NEW ok \in BOOLEAN, NEW again \in BOOLEAN, CallRuns(call, ok, again)
    PROVE  StoredInv' /\ SeenInv' /\ CalledInv' /\ HandedInv' /\ EarnedInv'
<1>0. /\ loop = app /\ app # None /\ loop # None /\ stored \in Tasks /\ ParkedRight(stored)
      /\ StoredInv /\ SeenInv /\ HandedInv /\ EarnedInv
      /\ session \in EnforceSessions
  BY StageParts DEF IdentityFollowsStage
<1>1. /\ phase = "calls" /\ phase' = "refresh" /\ Runs(call.tool, ok)
      /\ UNCHANGED <<app, loop, governed, refusals, missed>>
  BY DEF CallRuns, AfterCall
<1>2. /\ session'.handedOff => session.handedOff \/ (ok /\ call.tool = HandoffTool(loop))
      /\ session'.violations = session.violations
  <2>1. session' = [Allowed(loop, Consumed(call), call) EXCEPT
                      !.handedOff = @ \/ (ok /\ call.tool = HandoffTool(loop))]
    BY <1>0 DEF CallRuns, ExpectedHandoff
  <2>2. /\ Consumed(call) \in EnforceSessions
        /\ Consumed(call).handedOff = session.handedOff
        /\ Consumed(call).violations = session.violations
    BY <1>0, ConsumedType DEF Consumed, EnforceSessions
  <2>3. /\ Allowed(loop, Consumed(call), call) \in EnforceSessions
        /\ Allowed(loop, Consumed(call), call).handedOff = session.handedOff
        /\ Allowed(loop, Consumed(call), call).violations = session.violations
    BY <2>2, AllowedType DEF Allowed, EnforceSessions
  <2> HIDE DEF Allowed
  <2>4. session'.handedOff = (session.handedOff \/ (ok /\ call.tool = HandoffTool(loop)))
    BY <2>1, <2>3 DEF EnforceSessions
  <2>5. session'.violations = session.violations
    BY <2>1, <2>3 DEF EnforceSessions
  <2> QED
    BY <2>4, <2>5
<1>3. ASSUME stored' # stored
      PROVE  \E action \in FailingRequests(call.tool) : Moves(action)
  BY <1>1, <1>3 DEF Runs, FailingRequests
<1>4. FailingRequests(call.tool) \cap {"resumed", "cancelled"} = {}
  BY DEF FailingRequests, Requests
<1>5. StoredInv'
  <2>1. CASE stored' = stored
    BY <1>0, <2>1 DEF StoredInv
  <2>2. CASE stored' # stored
    <3>1. PICK action \in FailingRequests(call.tool) : Moves(action)
      BY <1>3, <2>2
    <3>2. Permits(Graph, stored.state, action) /\ stored' = Transition(Graph, stored, action)
      BY <3>1 DEF Moves
    <3>3. ParkedRight(stored')
      BY <1>0, <3>2, OperatorMoves, SessionMoves
    <3> QED
      BY <3>3 DEF StoredInv
  <2> QED
    BY <2>1, <2>2
<1>6. SeenInv'
  BY <1>1 DEF SeenInv
<1>7. ASSUME ~missed, RoleForState(loop) # "", NEW action, Moves(action),
             action \notin {"blocked", "resumed", "cancelled"}
      PROVE  Leaves(loop, stored')
  <2>1. Permits(Graph, stored.state, action) /\ stored' = Transition(Graph, stored, action)
    BY <1>7 DEF Moves
  <2>2. /\ stored.state \notin {"blocked", "cancelled"}
        /\ Standing(stored) = stored.state /\ Standing(stored') = stored'.state
        /\ RoleForState(stored.state) # "" =>
              RoleForState(stored'.state) # RoleForState(stored.state)
    BY <1>0, <1>7, <2>1, SessionMoves
  <2>3. stored.state = loop
    BY <1>0, <1>1, <1>7, <2>2, OwnerlessStages DEF SeenInv, Stands
  <2> QED
    BY <1>7, <2>2, <2>3 DEF Leaves
<1>8. CalledInv'
  <2> SUFFICES ASSUME ~missed, RoleForState(loop) # ""
               PROVE  Standing(stored') = loop \/ Leaves(loop, stored')
    BY <1>1 DEF CalledInv, Leaves
  <2>1. stored.state = "cancelled" \/ Standing(stored) = loop
    BY <1>0, <1>1, OwnerlessStages DEF SeenInv, Stands
  <2>2. CASE stored' = stored
    BY <2>1, <2>2, OwnerlessStages DEF Standing, Leaves
  <2>3. CASE stored' # stored
    <3>1. PICK action \in FailingRequests(call.tool) : Moves(action)
      BY <1>3, <2>3
    <3>2. CASE action = "blocked"
      <4>1. stored'.state = "cancelled" \/
               (Standing(stored') = Standing(stored) /\ stored.state # "cancelled")
        BY <1>0, <3>1, <3>2, OperatorMoves DEF Moves
      <4> QED
        BY <2>1, <4>1, OwnerlessStages DEF Standing, Leaves
    <3>3. CASE action # "blocked"
      BY <1>4, <1>7, <3>1, <3>3
    <3> QED
      BY <3>2, <3>3
  <2> QED
    BY <2>2, <2>3
<1>9. HandedInv'
  <2> SUFFICES ASSUME ~missed, session'.handedOff
               PROVE  RoleForState(loop) # "" /\ Leaves(loop, stored')
    BY <1>1 DEF HandedInv, Leaves
  <2>1. ok /\ call.tool = HandoffTool(loop)
    BY <1>0, <1>1, <1>2 DEF HandedInv
  <2>2. call.tool \in Tools /\ "" \notin Tools
    BY DEF ToolCalls, Tools, WorkflowTools
  <2>3. RoleForState(loop) # ""
    BY <2>1, <2>2 DEF HandoffTool, RoleForState
  <2>4. Requests(call.tool) \subseteq {"plan_submitted", "implementation_submitted",
                                        "qa_approved", "qa_rejected", "completed"}
        /\ Requests(call.tool) # {}
    BY <2>1, <2>2 DEF HandoffTool, Requests
  <2>5. PICK action \in Requests(call.tool) : Moves(action)
    BY <1>1, <2>1, <2>4 DEF Runs
  <2> QED
    BY <1>7, <2>3, <2>4, <2>5
<1>10. EarnedInv'
  BY <1>0, <1>1, <1>2 DEF EarnedInv
<1> QED
  BY <1>5, <1>6, <1>8, <1>9, <1>10

LEMMA ElsewhereStage ==
    ASSUME HandsOn, OthersOperate, StageInv, NEW action \in OtherActions, Elsewhere(action)
    PROVE  StoredInv' /\ SeenInv' /\ CalledInv' /\ HandedInv' /\ EarnedInv'
<1>0. /\ StoredInv /\ SeenInv /\ CalledInv /\ HandedInv /\ EarnedInv /\ TaskOK
      /\ UNCHANGED <<app, loop, session, governed, phase, refusals, missed>>
  BY StageParts DEF Elsewhere, run
<1>1. /\ stored \in Tasks /\ ParkedRight(stored) /\ Permits(Graph, stored.state, action)
      /\ stored' = Transition(Graph, stored, action)
  BY <1>0 DEF Elsewhere, Moves, StoredInv, TaskOK
<1>2. /\ ParkedRight(stored')
      /\ stored'.state = "cancelled" \/
            (Standing(stored') = Standing(stored) /\ stored.state # "cancelled")
  BY <1>1, OperatorMoves DEF OthersOperate
<1>3. StoredInv' /\ EarnedInv'
  BY <1>0, <1>2 DEF StoredInv, EarnedInv
<1>4. SeenInv'
  BY <1>0, <1>2 DEF SeenInv, Stands
<1>5. CalledInv' /\ HandedInv'
  BY <1>0, <1>2, OwnerlessStages DEF CalledInv, HandedInv, Leaves, Standing
<1> QED
  BY <1>3, <1>4, <1>5

LEMMA SwitchOnStage ==
    ASSUME StageInv, SwitchOn
    PROVE  StoredInv' /\ SeenInv' /\ CalledInv' /\ HandedInv' /\ EarnedInv'
<1>0. /\ StoredInv /\ SeenInv /\ session = NewSession("") /\ session \in EnforceSessions
      /\ refusals \in 0..MaxViolations /\ UNCHANGED <<phase, refusals, missed>>
      /\ phase = "idle" /\ session' = retargetSession(session, app')
  BY StageParts DEF SwitchOn, IdentityFollowsStage, run, history
<1>1. StoredInv' /\ SeenInv'
  <2>1. CASE \E state \in OpeningStages : stored' = NewTask(state) /\ app' = state
    <3>1. PICK state \in OpeningStages : stored' = NewTask(state) /\ app' = state
      BY <2>1
    <3>2. state # "blocked"
      BY DEF OpeningStages
    <3> QED
      BY <3>1, <3>2, NewTaskStands DEF StoredInv, SeenInv
  <2>2. CASE UNCHANGED <<stored, app>>
    BY <1>0, <2>2 DEF StoredInv, SeenInv
  <2> QED
    BY <2>1, <2>2 DEF SwitchOn
<1>2. session.handedOff = FALSE /\ session.violations = 0
  BY <1>0 DEF NewSession
<1>3. session'.handedOff = FALSE /\ session'.violations = 0
  BY <1>0, <1>2 DEF retargetSession, ResetStateCounters, EnforceSessions
<1>4. session'.violations =< refusals'
  <2>1. refusals' \in 0..MaxViolations /\ MaxViolations \in Nat
    BY <1>0, LimitsType
  <2>2. 0 =< refusals'
    BY <2>1
  <2> QED
    BY <1>3, <2>2
<1> QED
  BY <1>0, <1>1, <1>3, <1>4 DEF CalledInv, HandedInv, EarnedInv

LEMMA CountKeepsOrder ==
    ASSUME NEW max \in Nat, NEW m \in 0..max, NEW n \in 0..max, m =< n
    PROVE  Count(m, max) =< Count(n, max)
  BY DEF Count

\* A refusal is counted by the session and by the history alike.
LEMMA RefusalStage ==
    ASSUME StageInv, NEW call \in ToolCalls, TurnRefused \/ CallRefused(call)
    PROVE  StoredInv' /\ SeenInv' /\ CalledInv' /\ HandedInv' /\ EarnedInv'
<1>0. /\ session \in EnforceSessions /\ refusals \in 0..MaxViolations
      /\ session.violations \in 0..MaxViolations /\ MaxViolations \in Nat
      /\ IdentityInv
  BY StageParts, LimitsType DEF EnforceSessions, StageInv
<1>1. session.violations =< refusals =>
          Count(session.violations, MaxViolations) =< Count(refusals, MaxViolations)
  BY <1>0, CountKeepsOrder
<1>2. /\ UNCHANGED <<stored, app, loop, governed, missed>>
      /\ phase # "refresh" /\ phase' # "refresh"
  BY DEF TurnRefused, CallRefused, Fail, Stop, Continue
<1>3. CASE TurnRefused
  <2>1. /\ session'.violations = Count(session.violations, MaxViolations)
        /\ session'.handedOff = session.handedOff
        /\ refusals' = Count(refusals, MaxViolations)
    BY <1>0, <1>3, ViolatedType DEF TurnRefused, Violated, EnforceSessions
  <2> QED
    BY <1>1, <1>2, <2>1, QuietStage
<1>4. CASE CallRefused(call) /\ governed
  <2>1. /\ session' = Refused(loop, Consumed(call), call)
        /\ refusals' = Count(refusals, MaxViolations)
    BY <1>4 DEF CallRefused
  <2>2. /\ Consumed(call) \in EnforceSessions
        /\ Consumed(call).handedOff = session.handedOff
        /\ Consumed(call).violations = session.violations
    BY <1>0, ConsumedType DEF Consumed, EnforceSessions
  <2> DEFINE violated == Violated(Consumed(call))
             force == IF Masked(loop, call) THEN ForceTool(loop, violated)
                      ELSE IF Forbidden(loop, call) THEN "" ELSE "task"
  <2>3. /\ violated \in EnforceSessions
        /\ violated.handedOff = session.handedOff
        /\ violated.violations = Count(session.violations, MaxViolations)
    BY <2>2, ViolatedType DEF Violated, EnforceSessions
  <2>4. session' = IF force = "" THEN violated ELSE [violated EXCEPT !.forced = force]
    BY <2>1 DEF Refused
  <2> HIDE DEF violated, force
  <2>5. /\ session'.violations = Count(session.violations, MaxViolations)
        /\ session'.handedOff = session.handedOff
    BY <2>3, <2>4 DEF EnforceSessions
  <2> QED
    BY <1>1, <1>2, <2>1, <2>5, QuietStage
<1>5. CASE CallRefused(call) /\ ~governed
  <2>1. session' = session /\ refusals' = refusals
    BY <1>0, <1>5, PlainCallIdentity DEF CallRefused
  <2> QED
    BY <1>2, <2>1, QuietStage
<1> QED
  BY <1>3, <1>4, <1>5

LEMMA StageStep ==
    ASSUME HandsOn, OthersOperate
    PROVE  StageInv /\ [Next]_vars =>
              StoredInv' /\ SeenInv' /\ CalledInv' /\ HandedInv' /\ EarnedInv'
<1> DEFINE Kept == StoredInv' /\ SeenInv' /\ CalledInv' /\ HandedInv' /\ EarnedInv'
<1> SUFFICES ASSUME StageInv, [Next]_vars PROVE Kept
  OBVIOUS
<1>0. /\ StoredInv /\ SeenInv /\ CalledInv /\ HandedInv /\ EarnedInv
      /\ IdentityInv /\ IdentityFollowsStage /\ TaskOK
      /\ session \in EnforceSessions
      /\ phase \in Governing => governed
  BY StageParts DEF StageInv
<1>1. ASSUME UNCHANGED <<stored, app, loop, governed, session, refusals, missed>>,
             phase # "refresh", phase' # "refresh"
      PROVE  Kept
  BY <1>1, QuietStage
<1>2. CASE Prompt
  <2>1. session' = session
    BY <1>0, <1>2 DEF Prompt, retargetSession, IdentityFollowsStage
  <2> QED
    BY <1>1, <1>2, <2>1 DEF Prompt, history
<1>3. CASE SwitchOff
  BY <1>0, <1>3
  DEF SwitchOff, run, StoredInv, SeenInv, CalledInv, HandedInv, EarnedInv
<1>4. CASE SwitchOn
  BY <1>4, SwitchOnStage
<1>5. CASE StepLimit \/ Interrupted \/ AskModel \/ AdvanceStage
  BY <1>1, <1>5
  DEF StepLimit, Interrupted, AskModel, AdvanceStage, Fail, Stop, Goto, history
<1>6. CASE VerifyFailed
  <2>1. /\ UNCHANGED <<app, loop, session, governed, refusals>>
        /\ phase # "refresh" /\ phase' = "idle"
    BY <1>6 DEF VerifyFailed, Fail, Stop
  <2>2. CASE UNCHANGED <<stored, missed>>
    BY <1>1, <2>1, <2>2
  <2>3. CASE missed' /\ \E action \in {"gates_verified", "gate_failed"} : Moves(action)
    <3>1. PICK action \in {"gates_verified", "gate_failed"} : Moves(action)
      BY <2>3
    <3>2. ParkedRight(stored')
      <4>1. stored \in Tasks /\ ParkedRight(stored)
        BY <1>0, <3>1 DEF Moves, TaskOK, StoredInv
      <4> QED
        BY <3>1, <4>1, SessionMoves DEF Moves
    <3> QED
      BY <2>1, <2>3, <3>2 DEF StoredInv, SeenInv, CalledInv, HandedInv, EarnedInv
  <2> QED
    BY <1>6, <2>2, <2>3 DEF VerifyFailed
<1>7. CASE StageChecked
  <2>1. governed /\ refreshTask /\ phase' # "refresh"
    BY <1>0, <1>7 DEF StageChecked, Governing, Continue, Finish, Fail, Stop
  <2> QED
    BY <2>1, RefreshStage
<1>8. ASSUME NEW action \in Actions, Verified(action) \/ NetVerified(action)
      PROVE  Kept
  <2>1. governed /\ Verify(action) /\ phase # "refresh" /\ phase' # "refresh"
    BY <1>0, <1>8 DEF Verified, NetVerified, Governing, Goto
  <2> QED
    BY <2>1, VerifyStage
<1>9. CASE (\E n \in 1..MaxBatch : TurnWithCalls(n)) \/ Answer \/ BatchDone \/ Net
  BY <1>1, <1>9
  DEF TurnWithCalls, Answer, BatchDone, Net, Finish, Fail, Stop, Goto, Continue, history
<1>10. ASSUME NEW call \in ToolCalls
       PROVE  /\ CallRefused(call) => Kept
              /\ CallAborted(call) => Kept
              /\ (\E ok, again \in BOOLEAN : CallRuns(call, ok, again)) => Kept
  <2>1. CallRefused(call) => Kept
    BY RefusalStage
  <2>2. ASSUME CallAborted(call) PROVE Kept
    <3>1. /\ UNCHANGED <<stored, app, loop, governed, refusals, missed>>
          /\ phase # "refresh" /\ phase' # "refresh"
          /\ session' = IF governed THEN Allowed(loop, Consumed(call), call) ELSE Consumed(call)
      BY <2>2 DEF CallAborted, history
    <3>2. /\ Consumed(call) \in EnforceSessions
          /\ Consumed(call).handedOff = session.handedOff
          /\ Consumed(call).violations = session.violations
      BY <1>0, ConsumedType DEF Consumed, EnforceSessions
    <3>3. /\ Allowed(loop, Consumed(call), call).handedOff = session.handedOff
          /\ Allowed(loop, Consumed(call), call).violations = session.violations
      BY <3>2, AllowedType DEF Allowed, EnforceSessions
    <3> QED
      BY <3>1, <3>2, <3>3, QuietStage
  <2>3. ASSUME NEW ok \in BOOLEAN, NEW again \in BOOLEAN, CallRuns(call, ok, again) PROVE Kept
    <3>1. CASE governed
      BY <2>3, <3>1, CalledStage
    <3>2. CASE ~governed
      <4>1. UNCHANGED <<stored, session>>
        BY <1>0, <2>3, <3>2, PlainCallTask, PlainCallIdentity
      <4> QED
        BY <1>1, <2>3, <3>2, <4>1 DEF CallRuns, AfterCall
    <3> QED
      BY <3>1, <3>2
  <2> QED
    BY <2>1, <2>2, <2>3
<1>11. CASE TurnRefused
  <2>1. [tool |-> "read", flawed |-> FALSE] \in ToolCalls
    BY DEF ToolCalls, Tools
  <2> QED
    BY <1>11, <2>1, RefusalStage
<1>12. CASE Refreshed
  <2>1. governed /\ refreshTask /\ phase' # "refresh"
    BY <1>0, <1>12 DEF Refreshed, Governing, Goto
  <2> QED
    BY <2>1, RefreshStage
<1>13. ASSUME NEW action \in OtherActions, Elsewhere(action) PROVE Kept
  BY <1>13, ElsewhereStage
<1>14. CASE UNCHANGED vars
  BY <1>0, <1>14
  DEF vars, run, history, StoredInv, SeenInv, CalledInv, HandedInv, EarnedInv
<1> HIDE DEF Kept
<1>15. CASE Advance
  BY <1>5, <1>6, <1>7, <1>8, <1>15 DEF Advance
<1>16. CASE Turn
  BY <1>9, <1>10, <1>11, <1>12, <1>16 DEF Turn
<1>17. CASE SafetyNet
  BY <1>8, <1>9, <1>17 DEF SafetyNet
<1> QED
  BY <1>2, <1>3, <1>4, <1>13, <1>14, <1>15, <1>16, <1>17 DEF Next, RunStep

LEMMA StageInvHolds ==
    ASSUME HandsOn, OthersOperate
    PROVE  Spec => []StageInv
<1>1. StageInv /\ [Next]_vars => StageInv'
  BY StageStep, IdentityStep, StepType DEF StageInv, IdentityInv
<1> QED
  BY <1>1, StageInit, PTL DEF Spec

\* How a run ends is decided by the action that ends it.
LEMMA EndedBy ==
    ASSUME [Next]_vars, NEW how \in {"answer", "missing"}, Ends(how)
    PROVE  (how = "answer" /\ Answer) \/ (how = "missing" /\ TurnRefused)
<1>1. ended' # ended /\ ended' = how
  BY DEF Ends
<1>2. CASE Advance
  BY <1>1, <1>2
  DEF Advance, StepLimit, Interrupted, AskModel, AdvanceStage, VerifyFailed, StageChecked,
      Verified, Fail, Finish, Stop, Goto, Continue
<1>3. CASE Turn
  BY <1>1, <1>3
  DEF Turn, TurnWithCalls, Answer, TurnRefused, CallRefused, CallAborted, CallRuns,
      Refreshed, BatchDone, Fail, Finish, Stop, Goto, Continue
<1>4. CASE SafetyNet
  BY <1>1, <1>4 DEF SafetyNet, Net, NetVerified, Fail, Stop, Goto
<1> QED
  BY <1>1, <1>2, <1>3, <1>4
  DEF Next, RunStep, Prompt, SwitchOff, SwitchOn, Elsewhere, run, vars

\* A governed run ends with an answer only where no handoff is owed, for every
\* graph that hands on and whatever operators do meanwhile: the handoff of a
\* stage does not excuse the next one (OnTurnEnd, retargetSession).
THEOREM AnswerIsOwed ==
    ASSUME HandsOn, OthersOperate
    PROVE  Spec => AnswerFollowsHandoff
<1> DEFINE Owed == governed /\ Ends("answer") => missed \/ HandoffTool(loop) = ""
<1>1. StageInv /\ [Next]_vars => Owed
  <2> SUFFICES ASSUME StageInv, [Next]_vars, governed, Ends("answer"), ~missed
               PROVE  HandoffTool(loop) = ""
    OBVIOUS
  <2>1. Answer
    BY EndedBy
  <2>2. phase = "turn" /\ MayEndTurn(loop, session)
    BY <2>1 DEF Answer
  <2>3. ~session.handedOff /\ session.role = RoleForState(loop)
    BY <2>2, StageParts DEF HandedInv, IdentityFollowsStage
  <2> QED
    BY <2>2, <2>3 DEF MayEndTurn
<1>2. StageInv /\ [Next]_vars => [Owed]_vars
  BY <1>1
<1> QED
  BY <1>2, StageInvHolds, PTL DEF Spec, AnswerFollowsHandoff

\* A run that ends because the handoff is missing has climbed the ladder of its
\* own stage, for every graph that hands on, every ladder and every limit, and
\* whatever operators do meanwhile (escalate, ResetStateCounters).
THEOREM EscalationEarned ==
    ASSUME HandsOn, OthersOperate
    PROVE  Spec => EscalationIsEarned
<1> DEFINE Earned == Ends("missing") =>
                        missed \/ \E n \in 1..refusals' : Rung(loop, n) = "auto"
<1>1. StageInv /\ [Next]_vars => Earned
  <2> SUFFICES ASSUME StageInv, [Next]_vars, Ends("missing"), ~missed
               PROVE  \E n \in 1..refusals' : Rung(loop, n) = "auto"
    OBVIOUS
  <2>1. TurnRefused
    BY EndedBy
  <2> DEFINE n == Violated(session).violations
  <2>2. governed /\ ~MayEndTurn(loop, session) /\ refusals' = Count(refusals, MaxViolations)
    BY <2>1 DEF TurnRefused
  <2>3. Rung(loop, n) = "auto"
    <3>1. ended' # "missing" \/ AutoPerform(loop, Violated(session))
      BY <2>1 DEF TurnRefused, Continue, Ends
    <3> QED
      BY <3>1 DEF Ends, AutoPerform
  <2>4. RoleForState(loop) # ""
    BY <2>2 DEF MayEndTurn, HandoffTool, RoleForState
  <2>5. /\ session.violations =< refusals /\ session \in EnforceSessions
        /\ session.violations \in 0..MaxViolations /\ refusals \in 0..MaxViolations
    BY <2>2, <2>4, StageParts DEF EarnedInv, EnforceSessions
  <2>6. n = Count(session.violations, MaxViolations)
    BY <2>5 DEF Violated, EnforceSessions
  <2>7. MaxViolations \in Nat /\ MaxViolations >= 1
    BY RulesAssumption
  <2>8. n \in 1..refusals'
    BY <2>2, <2>5, <2>6, <2>7 DEF Count
  <2> HIDE DEF n
  <2> QED
    BY <2>3, <2>8
<1>2. StageInv /\ [Next]_vars => [Earned]_vars
  BY <1>1
<1> QED
  BY <1>2, StageInvHolds, PTL DEF Spec, EscalationIsEarned

-----------------------------------------------------------------------------
\* Runs end.

\* The most steps of one pass of the loop: the request, the turn, two for each
\* call, and the end of the batch.
PassSteps == 2 * MaxBatch + 4

\* The steps of the passes left, this one counted or not.
Passes == (maxSteps - step) * PassSteps
LaterPasses == (maxSteps - (step + 1)) * PassSteps

\* The most steps of its own a run has left while nobody takes its task back to
\* verifying under the safety net.
RunLeft ==
    CASE phase = "idle" -> 0
      [] phase = "net" -> IF stored.state = "verifying" THEN 3 ELSE 1
      [] phase = "net_verify" -> 2
      [] phase = "step" -> Passes + 4
      [] phase \in {"turn", "verify"} -> Passes + 3
      [] phase = "stage" -> Passes + 2
      [] phase = "refresh" -> LaterPasses + 6 + 2 * left
      [] phase = "calls" -> LaterPasses + 5 + 2 * left

LEMMA PassesCount ==
    ASSUME TypeInv
    PROVE  /\ MaxBatch \in Nat /\ left \in 0..MaxBatch
           /\ PassSteps = 2 * MaxBatch + 4
           /\ Passes \in 0..(maxSteps * PassSteps)
           /\ step < maxSteps => Passes = LaterPasses + PassSteps /\ LaterPasses \in Nat
<1>1. /\ step \in 0..maxSteps /\ maxSteps \in Nat /\ MaxBatch \in Nat
      /\ left \in 0..MaxBatch /\ PassSteps \in Nat
  BY SessionAssumption DEF TypeInv, TypeOK, PassSteps
<1>2. \A m, n, k \in Nat : n =< m => n * k =< m * k /\ n * k \in Nat
  OBVIOUS
<1>3. \A m, k \in Nat : (m + 1) * k = m * k + k /\ m * k \in Nat
  OBVIOUS
<1>4. Passes \in 0..(maxSteps * PassSteps)
  <2> DEFINE n == maxSteps - step
  <2>1. n \in Nat /\ n =< maxSteps
    BY <1>1
  <2> HIDE DEF n
  <2>2. n * PassSteps =< maxSteps * PassSteps /\ n * PassSteps \in Nat
    BY <1>1, <1>2, <2>1
  <2>3. Passes = n * PassSteps
    BY DEF Passes, n
  <2>4. maxSteps * PassSteps \in Nat
    BY <1>1, <1>3
  <2> QED
    BY <2>2, <2>3, <2>4
<1>5. ASSUME step < maxSteps
      PROVE  Passes = LaterPasses + PassSteps /\ LaterPasses \in Nat
  <2> DEFINE n == maxSteps - (step + 1)
  <2>1. n \in Nat /\ maxSteps - step = n + 1
    BY <1>1, <1>5
  <2> HIDE DEF n
  <2>2. (n + 1) * PassSteps = n * PassSteps + PassSteps /\ n * PassSteps \in Nat
    BY <1>1, <1>3, <2>1
  <2>3. Passes = (n + 1) * PassSteps /\ LaterPasses = n * PassSteps
    BY <2>1 DEF Passes, LaterPasses, n
  <2> QED
    BY <2>2, <2>3
<1> QED
  BY <1>1, <1>4, <1>5 DEF PassSteps

LEMMA RunLeftBounded ==
    ASSUME TypeInv
    PROVE  RunLeft \in 0..(maxSteps * PassSteps + 4)
<1>1. /\ MaxBatch \in Nat /\ left \in 0..MaxBatch
      /\ PassSteps = 2 * MaxBatch + 4
      /\ Passes \in 0..(maxSteps * PassSteps)
      /\ step < maxSteps => Passes = LaterPasses + PassSteps /\ LaterPasses \in Nat
  BY PassesCount
<1>2. phase \in Phases /\ (phase \in Counted => step < maxSteps)
  BY DEF TypeInv, TypeOK, Placed
<1> DEFINE all == maxSteps * PassSteps
<1>3. Passes \in 0..all
  BY <1>1
<1>4. all \in Nat
  <2>1. maxSteps \in Nat /\ PassSteps \in Nat
    BY <1>1, SessionAssumption
  <2>2. \A m, k \in Nat : m * k \in Nat
    OBVIOUS
  <2> QED
    BY <2>1, <2>2
<1> HIDE DEF all
<1>5. CASE phase \in {"idle", "net", "net_verify"}
  <2>1. RunLeft \in 0..3
    BY <1>5 DEF RunLeft
  <2> QED
    BY <1>4, <2>1 DEF all
<1>6. CASE phase \in {"step", "turn", "verify", "stage"}
  <2>1. RunLeft \in {Passes + 4, Passes + 3, Passes + 2}
    BY <1>6 DEF RunLeft
  <2>2. RunLeft \in 0..(all + 4)
    BY <1>3, <1>4, <2>1
  <2> QED
    BY <2>2 DEF all
<1>7. CASE phase \in {"refresh", "calls"}
  <2>1. RunLeft = LaterPasses + 6 + 2 * left \/ RunLeft = LaterPasses + 5 + 2 * left
    BY <1>7 DEF RunLeft
  <2>2. Passes = LaterPasses + PassSteps /\ LaterPasses \in Nat
    BY <1>1, <1>2, <1>7 DEF Counted
  <2>3. RunLeft \in 0..(all + 4)
    BY <1>1, <1>3, <1>4, <2>1, <2>2
  <2> QED
    BY <2>3 DEF all
<1> QED
  BY <1>2, <1>5, <1>6, <1>7 DEF Phases

\* What ends a pass or a run leaves less than any part of a pass.
LEMMA StopLeft ==
    ASSUME NEW next \in {"idle", "net"}, NEW how, Stop(next, how)
    PROVE  RunLeft' \in 0..3
  BY DEF Stop, RunLeft

LEMMA FinishLeft ==
    ASSUME NEW how, Finish(how)
    PROVE  RunLeft' \in 0..3
  BY StopLeft DEF Finish, Fail

LEMMA ContinueLeft ==
    ASSUME Continue
    PROVE  RunLeft' = LaterPasses + 4
<1>1. phase' = "step" /\ step' = step + 1
  BY DEF Continue
<1>2. PassSteps' = PassSteps
  BY DEF PassSteps
<1>3. Passes' = LaterPasses
  BY <1>1, <1>2 DEF Passes, LaterPasses
<1> QED
  BY <1>1, <1>3 DEF RunLeft

LEMMA SameLeft ==
    ASSUME step' = step
    PROVE  Passes' = Passes /\ LaterPasses' = LaterPasses
  BY DEF Passes, LaterPasses, PassSteps

LEMMA AdvanceShortens ==
    ASSUME TypeInv, Advance
    PROVE  RunLeft' < RunLeft
<1>1. /\ Passes \in Nat
      /\ step < maxSteps => Passes = LaterPasses + PassSteps
                                /\ LaterPasses \in Nat /\ PassSteps \in Nat /\ 4 =< PassSteps
  <2>1. /\ MaxBatch \in Nat /\ PassSteps = 2 * MaxBatch + 4
        /\ Passes \in 0..(maxSteps * PassSteps)
        /\ step < maxSteps => Passes = LaterPasses + PassSteps /\ LaterPasses \in Nat
    BY PassesCount
  <2> QED
    BY <2>1
<1>2. phase \in Counted => step < maxSteps
  BY DEF TypeInv, Placed
<1>3. /\ phase = "step" => RunLeft = Passes + 4
      /\ phase \in {"turn", "verify"} => RunLeft = Passes + 3
      /\ phase = "stage" => RunLeft = Passes + 2
      /\ phase = "net_verify" => RunLeft = 2
  BY DEF RunLeft
<1>4. ASSUME NEW how, Fail(how)
      PROVE  RunLeft' = 0
  BY <1>4 DEF Fail, Stop, RunLeft
<1>5. CASE StepLimit \/ Interrupted
  <2>1. RunLeft' = 0 /\ phase \in {"step", "turn"}
    BY <1>4, <1>5 DEF StepLimit, Interrupted
  <2> QED
    BY <1>1, <1>3, <2>1
<1>6. CASE AskModel
  <2>1. phase = "step" /\ phase' = "turn" /\ step' = step
    BY <1>6 DEF AskModel, Goto
  <2>2. RunLeft' = Passes + 3
    BY <2>1, SameLeft DEF RunLeft
  <2> QED
    BY <1>1, <1>3, <2>1, <2>2
<1>7. CASE AdvanceStage
  <2>1. phase = "step"
    BY <1>7 DEF AdvanceStage
  <2>2. CASE Fail("error")
    BY <1>1, <1>3, <1>4, <2>1, <2>2
  <2>3. CASE Goto(IF stored.state = "verifying" THEN "verify" ELSE "stage")
    <3>1. phase' \in {"verify", "stage"} /\ step' = step
      BY <2>3 DEF Goto
    <3>2. RunLeft' = Passes + 3 \/ RunLeft' = Passes + 2
      BY <3>1, SameLeft DEF RunLeft
    <3> QED
      BY <1>1, <1>3, <2>1, <3>2
  <2> QED
    BY <1>7, <2>2, <2>3 DEF AdvanceStage
<1>8. CASE VerifyFailed
  <2>1. RunLeft' = 0 /\ phase \in {"verify", "net_verify"}
    BY <1>4, <1>8 DEF VerifyFailed
  <2> QED
    BY <1>1, <1>3, <2>1
<1>9. CASE StageChecked
  <2>1. phase = "stage"
    BY <1>9 DEF StageChecked
  <2>2. Passes = LaterPasses + PassSteps /\ LaterPasses \in Nat /\ 4 =< PassSteps
        /\ PassSteps \in Nat
    BY <1>1, <1>2, <2>1 DEF Counted
  <2>3. RunLeft' \in 0..3 \/ RunLeft' = LaterPasses + 4
    BY <1>9, FinishLeft, ContinueLeft DEF StageChecked
  <2> QED
    BY <1>3, <2>1, <2>2, <2>3
<1>10. ASSUME NEW action \in Actions, Verified(action)
       PROVE  RunLeft' < RunLeft
  <2>1. phase = "verify" /\ phase' = "stage" /\ step' = step
    BY <1>10 DEF Verified
  <2>2. RunLeft' = Passes + 2
    BY <2>1, SameLeft DEF RunLeft
  <2> QED
    BY <1>1, <1>3, <2>1, <2>2
<1> QED
  BY <1>5, <1>6, <1>7, <1>8, <1>9, <1>10 DEF Advance

LEMMA TurnShortens ==
    ASSUME TypeInv, Turn
    PROVE  RunLeft' < RunLeft
<1>1. phase \in {"turn", "calls", "refresh"}
  BY DEF Turn, TurnWithCalls, Answer, TurnRefused, CallRefused, CallAborted, CallRuns,
     Refreshed, BatchDone
<1>2. step < maxSteps
  BY <1>1 DEF TypeInv, Placed, Counted
<1>3. /\ MaxBatch \in Nat /\ left \in 0..MaxBatch
      /\ LaterPasses \in Nat
      /\ phase = "turn" => RunLeft = LaterPasses + 2 * MaxBatch + 7
  <2>1. /\ MaxBatch \in Nat /\ left \in 0..MaxBatch /\ PassSteps = 2 * MaxBatch + 4
        /\ Passes = LaterPasses + PassSteps /\ LaterPasses \in Nat
    BY <1>2, PassesCount
  <2>2. phase = "turn" => RunLeft = Passes + 3
    BY DEF RunLeft
  <2> QED
    BY <2>1, <2>2
<1>4. /\ phase = "calls" => RunLeft = LaterPasses + 5 + 2 * left
      /\ phase = "refresh" => RunLeft = LaterPasses + 6 + 2 * left
  BY DEF RunLeft
<1>5. ASSUME phase' \in {"calls", "refresh"}, step' = step
      PROVE  /\ phase' = "calls" => RunLeft' = LaterPasses + 5 + 2 * left'
             /\ phase' = "refresh" => RunLeft' = LaterPasses + 6 + 2 * left'
  BY <1>5, SameLeft DEF RunLeft
<1>6. ASSUME NEW n \in 1..MaxBatch, TurnWithCalls(n)
      PROVE  RunLeft' < RunLeft
  <2>1. phase = "turn" /\ phase' = "calls" /\ left' = n /\ step' = step
    BY <1>6 DEF TurnWithCalls
  <2>2. RunLeft' = LaterPasses + 5 + 2 * n
    BY <1>5, <2>1
  <2> QED
    BY <1>3, <2>1, <2>2
<1>7. CASE Answer \/ TurnRefused
  <2>1. phase = "turn"
    BY <1>7 DEF Answer, TurnRefused
  <2>2. RunLeft' \in 0..3 \/ RunLeft' = LaterPasses + 4
    BY <1>7, FinishLeft, StopLeft, ContinueLeft DEF Answer, TurnRefused, Fail
  <2> QED
    BY <1>3, <2>1, <2>2
<1>8. ASSUME NEW call \in ToolCalls, CallRefused(call)
      PROVE  RunLeft' < RunLeft
  <2>1. phase = "calls" /\ phase' = "calls" /\ left' = left - 1 /\ step' = step
    BY <1>8 DEF CallRefused
  <2>2. RunLeft' = LaterPasses + 5 + 2 * (left - 1)
    BY <1>5, <2>1
  <2> QED
    BY <1>3, <1>4, <2>1, <2>2
<1>9. ASSUME NEW call \in ToolCalls, CallAborted(call)
      PROVE  RunLeft' < RunLeft
  <2>1. phase = "calls" /\ phase' = "calls" /\ left > 0 /\ left' = 0 /\ step' = step
    BY <1>9 DEF CallAborted
  <2>2. RunLeft' = LaterPasses + 5 + 2 * 0
    BY <1>5, <2>1
  <2> QED
    BY <1>3, <1>4, <2>1, <2>2
<1>10. ASSUME NEW call \in ToolCalls, NEW ok, NEW again, CallRuns(call, ok, again)
       PROVE  RunLeft' < RunLeft
  <2>1. /\ phase = "calls" /\ phase' \in {"calls", "refresh"}
        /\ left' = left - 1 /\ step' = step
    BY <1>10 DEF CallRuns, AfterCall
  <2>2. RunLeft' = LaterPasses + 5 + 2 * (left - 1) \/ RunLeft' = LaterPasses + 6 + 2 * (left - 1)
    BY <1>5, <2>1
  <2> QED
    BY <1>3, <1>4, <2>1, <2>2
<1>11. CASE Refreshed
  <2>1. phase = "refresh" /\ phase' = "calls" /\ left' = left /\ step' = step
    BY <1>11 DEF Refreshed, Goto
  <2>2. RunLeft' = LaterPasses + 5 + 2 * left
    BY <1>5, <2>1
  <2> QED
    BY <1>3, <1>4, <2>1, <2>2
<1>12. CASE BatchDone
  <2>1. phase = "calls" /\ left = 0
    BY <1>12 DEF BatchDone
  <2>2. RunLeft' \in 0..3 \/ RunLeft' = LaterPasses + 4
    BY <1>12, StopLeft, ContinueLeft DEF BatchDone, Fail
  <2> QED
    BY <1>3, <1>4, <2>1, <2>2
<1> QED
  BY <1>6, <1>7, <1>8, <1>9, <1>10, <1>11, <1>12 DEF Turn

LEMMA SafetyNetShortens ==
    ASSUME TypeInv, SafetyNet
    PROVE  RunLeft' < RunLeft
<1>1. CASE Net
  <2>1. phase = "net" /\ stored' = stored
    BY <1>1 DEF Net
  <2>2. CASE Fail("error")
    BY <2>1, <2>2 DEF Fail, Stop, RunLeft
  <2>3. CASE stored.state = "verifying" /\ Goto("net_verify")
    BY <2>1, <2>3 DEF Goto, RunLeft
  <2>4. CASE stored.state # "verifying" /\ Goto("idle")
    BY <2>1, <2>4 DEF Goto, RunLeft
  <2> QED
    BY <1>1, <2>2, <2>3, <2>4 DEF Net
<1>2. ASSUME NEW action \in Actions, NetVerified(action)
      PROVE  RunLeft' < RunLeft
  <2>1. phase = "net_verify" /\ loop' = stored'.state
    BY <1>2 DEF NetVerified, Verify, Follow
  <2>2. phase' = "idle" \/ (phase' = "net" /\ stored'.state # "verifying")
    <3>1. CASE AutoAdvance /\ loop' # "verifying"
      BY <1>2, <2>1, <3>1 DEF NetVerified, Goto
    <3>2. CASE ~(AutoAdvance /\ loop' # "verifying")
      BY <1>2, <3>2 DEF NetVerified, Goto
    <3> QED
      BY <3>1, <3>2
  <2> QED
    BY <2>1, <2>2 DEF RunLeft
<1> QED
  BY <1>1, <1>2 DEF SafetyNet

\* Every step of a run leaves it fewer to take, whatever the model does and
\* whoever moves the task, so a run takes at most those of maxSteps passes and the
\* safety net's (Run, governedRunner.Run).  Only another process can give it
\* more to do, by taking the task to verifying while the safety net looks at it.
\* RunEnds asks of fairness only that the steps are taken.
THEOREM RunsShorten ==
    Spec => /\ [](RunLeft \in 0..(maxSteps * PassSteps + 4))
            /\ [][RunStep => RunLeft' < RunLeft]_vars
            /\ [][phase # "idle" /\ ~RunStep
                    => \/ RunLeft' =< RunLeft
                       \/ phase = "net" /\ stored'.state = "verifying"]_vars
<1>1. TypeInv => RunLeft \in 0..(maxSteps * PassSteps + 4)
  BY RunLeftBounded
<1>2. TypeInv /\ [Next]_vars => [RunStep => RunLeft' < RunLeft]_vars
  BY AdvanceShortens, TurnShortens, SafetyNetShortens DEF RunStep
<1>3. TypeInv /\ [Next]_vars
         => [phase # "idle" /\ ~RunStep
                => \/ RunLeft' =< RunLeft
                   \/ phase = "net" /\ stored'.state = "verifying"]_vars
  <2> SUFFICES ASSUME TypeInv, Next, phase # "idle", ~RunStep,
                      ~(phase = "net" /\ stored'.state = "verifying")
               PROVE  RunLeft' =< RunLeft
    OBVIOUS
  <2>1. PICK action \in OtherActions : Elsewhere(action)
    BY DEF Next, Prompt, SwitchOff, SwitchOn
  <2>2. phase' = phase /\ step' = step /\ left' = left
    BY <2>1 DEF Elsewhere, run
  <2>3. Passes' = Passes /\ LaterPasses' = LaterPasses
    BY <2>2, SameLeft
  <2>4. CASE phase = "net"
    <3>1. RunLeft \in {1, 3} /\ RunLeft' = 1
      BY <2>2, <2>4 DEF RunLeft
    <3> QED
      BY <3>1
  <2>5. CASE phase # "net"
    <3>1. RunLeft' = RunLeft
      BY <2>2, <2>3, <2>5 DEF RunLeft
    <3>2. RunLeft \in 0..(maxSteps * PassSteps + 4)
      BY RunLeftBounded
    <3> QED
      BY <3>1, <3>2
  <2> QED
    BY <2>4, <2>5
<1> QED
  BY <1>1, <1>2, <1>3, InitType, StepType, PTL DEF Spec

-----------------------------------------------------------------------------
(***************************************************************************)
(* Stages without a handoff: those whose tools hold none that could move   *)
(* the task, as a custom stage whose policy lists no workflow tool.        *)
(***************************************************************************)

Handless(state) == ~CanAdvance(state) /\ state # "verifying"

\* HandoffTool and the builtin table know the builtin stages only, so a stage of
\* another name has no handoff unless its allow_tools name one.
LEMMA CustomStagesHandless ==
    ASSUME NEW state, state \notin BuiltinStates,
           state \in DOMAIN Rules => Rules[state].allow \cap WorkflowTools = {}
    PROVE  Handless(state) /\ HandoffTool(state) = ""
<1>1. /\ HandoffTool(state) = ""
      /\ ~IsEditingState(state)
      /\ state # "qa_review" /\ state # "verifying"
  BY DEF HandoffTool, IsEditingState, BuiltinStates
<1>2. defaultStateTools(state) = {"read"}
  BY <1>1 DEF defaultStateTools
<1>3. allowedToolNames(state) \cap WorkflowTools = {"workflow_status"}
  BY <1>2 DEF allowedToolNames, WorkflowTools
<1>4. "task" \notin WorkflowTools
  BY DEF WorkflowTools
<1>5. ~CanAdvance(state)
  BY <1>3, <1>4 DEF CanAdvance, VisibleTools
<1>6. QED
  BY <1>1, <1>5 DEF Handless

\* The model is asked only in a stage it could move.
AskedToAdvance == governed /\ phase = "turn" => CanAdvance(loop)

LEMMA AskedStep ==
    ASSUME AskedToAdvance, [Next]_vars
    PROVE  AskedToAdvance'
<1>1. SUFFICES ASSUME phase' = "turn" PROVE AskedToAdvance'
  BY DEF AskedToAdvance
<1>2. CASE AskModel
  BY <1>2 DEF AskModel, BelongsToRuntime, AskedToAdvance
<1>3. CASE phase = "turn" /\ UNCHANGED <<governed, loop>>
  BY <1>3 DEF AskedToAdvance
<1>4. CASE UNCHANGED vars \/ \E action \in OtherActions : Elsewhere(action)
  <2>1. phase = "turn" /\ UNCHANGED <<governed, loop>>
    BY <1>1, <1>4 DEF vars, run, Elsewhere
  <2>2. QED
    BY <1>3, <2>1
<1>5. ~ (Prompt \/ SwitchOff \/ SwitchOn)
  BY <1>1 DEF Prompt, SwitchOff, SwitchOn, run
<1>6. ~ ((Advance /\ ~AskModel) \/ Turn \/ SafetyNet)
  BY <1>1 DEF Advance, StepLimit, Interrupted, AdvanceStage, VerifyFailed, StageChecked,
     Verified, Turn, TurnWithCalls, Answer, TurnRefused, CallRefused, CallAborted, CallRuns,
     AfterCall, Refreshed, BatchDone, SafetyNet, Net, NetVerified, Fail, Finish, Stop,
     Continue, Goto
<1>7. QED
  BY <1>2, <1>4, <1>5, <1>6 DEF Next, RunStep

\* "If nothing in the visible tool list could advance the workflow, the model is
\* not asked", for every policy and graph (canAdvanceWorkflow in Loop.Run).
THEOREM NeverAskedInVain == Spec => []AskedToAdvance
<1>1. Init => AskedToAdvance
  BY DEF Init, AskedToAdvance
<1>2. AskedToAdvance /\ [Next]_vars => AskedToAdvance'
  BY AskedStep
<1>3. QED
  BY <1>1, <1>2, PTL DEF Spec

\* Left to this session, a task stays where nobody can hand it on.
HandlessWaits ==
    [][governed /\ ~missed /\ ~moved /\ stored # None /\ Handless(stored.state)
         => stored' = stored \/ \E action \in OtherActions : Elsewhere(action)]_vars

\* A call that is let through there asks the controller for nothing.
LEMMA HandlessCall ==
    ASSUME SightInv, governed, ~missed, ~moved, Handless(stored.state),
           NEW call \in ToolCalls, NEW ok \in BOOLEAN, NEW again \in BOOLEAN,
           CallRuns(call, ok, again)
    PROVE  stored' = stored
<1>1. loop = stored.state
  BY DEF SightInv, IdentityInv, IdentityFollowsStage, AppSees, CallRuns
<1>2. call.tool \in VisibleTools(loop)
  BY DEF CallRuns, Intercepted, Refuses, Masked
<1>3. call.tool \notin WorkflowTools \ {"workflow_status"}
  <2>1. ~CanAdvance(loop)
    BY <1>1 DEF Handless
  <2>2. "workflow_status" \in VisibleTools(loop) \cap WorkflowTools
    BY DEF VisibleTools, allowedToolNames, WorkflowTools
  <2>3. QED
    BY <1>2, <2>1, <2>2 DEF CanAdvance
<1>4. Requests(call.tool) = {} /\ FailingRequests(call.tool) = {}
  BY <1>3 DEF Requests, FailingRequests, WorkflowTools
<1>5. Runs(call.tool, ok)
  BY DEF CallRuns
<1>6. QED
  BY <1>4, <1>5 DEF Runs

\* A task in a stage without a handoff is moved only by other processes, for
\* every graph and policy, as long as the session knows the stage it is in: the
\* budget of such a stage pins nothing and no run of any length leads out of it.
THEOREM HandlessStagesWait == Spec => HandlessWaits
<1>1. SightInv /\ [Next]_vars =>
          [governed /\ ~missed /\ ~moved /\ stored # None /\ Handless(stored.state)
             => stored' = stored \/ \E action \in OtherActions : Elsewhere(action)]_vars
  <2>1. SUFFICES ASSUME SightInv, Next, governed, ~missed, ~moved,
                        Handless(stored.state),
                        ~ \E action \in OtherActions : Elsewhere(action)
                 PROVE  stored' = stored
    OBVIOUS
  <2>2. stored.state # "verifying"
    BY <2>1 DEF Handless
  <2>3. CASE Prompt \/ SwitchOff \/ SwitchOn
    BY <2>1, <2>3 DEF Prompt, SwitchOff, SwitchOn
  <2>4. CASE Advance
    BY <2>2, <2>4 DEF Advance, StepLimit, Interrupted, AskModel, AdvanceStage, VerifyFailed,
                      StageChecked, refreshTask, Verified, Verify
  <2>5. CASE Turn
    <3>1. ASSUME NEW call \in ToolCalls, NEW ok \in BOOLEAN, NEW again \in BOOLEAN,
                 CallRuns(call, ok, again)
          PROVE  stored' = stored
      BY <2>1, <3>1, HandlessCall
    <3>2. QED
      BY <2>5, <3>1 DEF Turn, TurnWithCalls, Answer, TurnRefused, CallRefused, CallAborted,
                        Refreshed, refreshTask, BatchDone
  <2>6. CASE SafetyNet
    BY <2>2, <2>6 DEF SafetyNet, Net, NetVerified, Verify
  <2>7. QED
    BY <2>1, <2>3, <2>4, <2>5, <2>6 DEF Next, RunStep
<1>2. Init => SightInv
  <2>1. ASSUME Init PROVE AppSees
    BY <2>1, NewTaskState DEF Init, AppSees
  <2>2. QED
    BY <2>1, InitType, IdentityInit DEF SightInv, IdentityInv
<1>3. SightInv /\ [Next]_vars => SightInv'
  BY SightStep, IdentityStep, StepType DEF SightInv, IdentityInv
<1>4. QED
  BY <1>1, <1>2, <1>3, PTL DEF Spec, HandlessWaits

=============================================================================
