----------------------------- MODULE Controller -----------------------------
(***************************************************************************)
(* The workflow controller (internal/controller/controller.go): every      *)
(* operation that can move one governed task, with the gate batch of       *)
(* internal/enforce/gate.go inside Verify.                                 *)
(*                                                                         *)
(* An operation is not atomic.  It fingerprints the work tree, then takes  *)
(* the store's per-task lock, loads the record, changes the copy and saves *)
(* it.  The lock lives in one process's Store, so operations of sessions   *)
(* in different processes interleave between the load and the save.  The   *)
(* work tree is edited at any moment, by the model's tools, by the         *)
(* operator's editor or by a gate's own command.                           *)
(***************************************************************************)
EXTENDS Evidence

CONSTANTS
    Sessions,  \* callers of the controller
    ProcessOf, \* ProcessOf[s]: the operating-system process of session s
    PolicyOf,  \* PolicyOf[s]: the hash of the policy session s loaded
    CallsOf,   \* CallsOf[s]: the operations s performs (a TUI all of them,
               \* a command-line cancel or resume only that one)
    ActorsOf,  \* ActorsOf[s]: the agent IDs s runs as, "" for none
    Graph      \* the transition graph in force

\* The operations of the controller that can move a task.
Calls ==
    {"submit_plan", "submit_implementation", "verify", "submit_qa",
     "complete", "block", "resume", "cancel"}

ASSUME SessionAssumption ==
    /\ DOMAIN ProcessOf = Sessions
    /\ PolicyOf \in [Sessions -> Policies]
    /\ CallsOf \in [Sessions -> SUBSET Calls]
    /\ ActorsOf \in [Sessions -> SUBSET (Agents \cup {""})]

States == StatesOf(Graph)

\* Policy.validate: every transition of a graph targets a state that exists.
ASSUME GraphAssumption ==
    \A state \in DOMAIN Graph : \A action \in DOMAIN Graph[state] :
        Graph[state][action] \in States

Tasks ==
    [state : States, resume : States \cup {""}, policy : Policies,
     baseline : Trees \cup {None}, receipts : [Gates -> Receipts \cup {None}],
     qa : QAVerdicts \cup {None}]

VARIABLES
    tree,     \* the work tree
    task,     \* the stored task record
    op,       \* op[s]: the operation session s is in the middle of
    passed,   \* history: <<p, g, t>> when g really passed on t under p
    endorsed  \* history: <<a, p, t>> when a's approval of t was accepted

vars == <<tree, task, op, passed, endorsed>>
history == <<passed, endorsed>>

\* The operations that end in a store update of the record.
Updates ==
    {"submit_plan", "submit_implementation", "policy_changed", "gates_ran",
     "submit_qa", "record_qa", "complete", "block", "resume", "cancel"}

\* Those that fingerprint the tree after the call began, not as it began.
LateFingerprints == {"policy_changed", "gates_ran"}

\* What a session is in the middle of: the call, its caller, the fingerprint
\* it took, the verdict it carries, the record it loaded, and for Verify the
\* receipts of the batch and the index of the next gate.
Operations ==
    [call : Updates \cup {"idle", "gates", "gate"},
     actor : Agents \cup {""}, seen : Trees \cup {None},
     verdict : Verdicts \cup {None}, copy : Tasks \cup {None},
     batch : [Gates -> Receipts \cup {None}], next : Nat \ {0}]

Idle ==
    [call |-> "idle", actor |-> "", seen |-> None, verdict |-> None,
     copy |-> None, batch |-> NoReceipts, next |-> 1]

TypeOK ==
    /\ tree \in Trees
    /\ task \in Tasks
    /\ op \in [Sessions -> Operations]
    /\ passed \subseteq Policies \X Gates \X Trees
    /\ endorsed \subseteq (Agents \cup {""}) \X Policies \X Trees

-----------------------------------------------------------------------------

\* recordBaseline: the tree an editing stage opens on, nothing elsewhere.
recordBaseline(t, seen) ==
    [t EXCEPT !.baseline = IF IsEditingState(t.state) THEN seen ELSE None]

\* The record Start creates: a policy without a plan stage opens the work
\* directly, on the tree fingerprinted for it.
NewTask(p, seen) ==
    recordBaseline(
        [state |-> IF RequirePlan[p] THEN "planning" ELSE "implementing",
         resume |-> "", policy |-> p, baseline |-> None,
         receipts |-> NoReceipts, qa |-> None],
        seen)

Init ==
    /\ tree \in Trees
    /\ \E s \in Sessions, seen \in Trees : task = NewTask(PolicyOf[s], seen)
    /\ op = [s \in Sessions |-> Idle]
    /\ passed = {}
    /\ endorsed = {}

-----------------------------------------------------------------------------

\* An empty role lets anyone act.
requireActor(p, actor, role) == AgentFor[p][role] \in {"", actor}

mayBlock(p, actor, state) ==
    /\ actor # ""
    /\ \/ actor = AgentFor[p]["orchestrator"]
       \/ /\ RoleForState(state) # ""
          /\ actor = AgentFor[p][RoleForState(state)]

-----------------------------------------------------------------------------

\* An operation of the session begins.
Begin(s, name, call, actor, seen, verdict) ==
    /\ name \in CallsOf[s]
    /\ op[s] = Idle
    /\ op' = [op EXCEPT ![s] = [Idle EXCEPT !.call = call, !.actor = actor,
                                            !.seen = seen, !.verdict = verdict]]
    /\ UNCHANGED <<tree, task, history>>

\* The handoffs fingerprint the tree before anything else.
CallSubmit(s, call, actor) ==
    /\ call \in {"submit_plan", "submit_implementation", "complete"}
    /\ Begin(s, call, call, actor, tree, None)

CallSubmitQA(s, actor, verdict) ==
    Begin(s, "submit_qa", "submit_qa", actor, tree, verdict)

\* Parking, reopening and abandoning a task look at no tree.
CallControl(s, call, actor) ==
    /\ call \in {"block", "resume", "cancel"}
    /\ Begin(s, call, call, actor, None, None)

\* Verify reads the record without the lock and goes by what it read.
CallVerify(s) ==
    /\ task.state = "verifying"
    /\ Begin(s, "verify",
             IF task.policy # PolicyOf[s] THEN "policy_changed" ELSE "gates",
             "", None, None)

-----------------------------------------------------------------------------

BatchDone(s) == op[s].next > Len(GatesFor[PolicyOf[s]])

\* A required gate that ran and did not pass, which ends the batch.
FailedGate(s) ==
    \E g \in RequiredGates[PolicyOf[s]] :
        op[s].batch[g] # None /\ ~op[s].batch[g].success

\* RunGate, first half: fingerprint the tree and start the command.
StartGate(s) ==
    /\ op[s].call = "gates"
    /\ ~BatchDone(s)
    /\ ~FailedGate(s)
    /\ op' = [op EXCEPT ![s] = [@ EXCEPT !.call = "gate", !.seen = tree]]
    /\ UNCHANGED <<tree, task, history>>

\* RunGate, second half: the command has exited, the tree is fingerprinted
\* again and the receipt carries the fingerprint taken before.
FinishGate(s, exited) ==
    LET p == PolicyOf[s]
        g == GatesFor[p][op[s].next]
        success == classify(exited, op[s].seen, tree)
        receipt == [success |-> success, policy |-> p, tree |-> op[s].seen]
    IN  /\ op[s].call = "gate"
        /\ op' = [op EXCEPT ![s] = [@ EXCEPT !.call = "gates", !.seen = None,
                                             !.batch[g] = receipt,
                                             !.next = op[s].next + 1]]
        /\ passed' = IF exited /\ tree = op[s].seen
                     THEN passed \cup {<<p, g, tree>>}
                     ELSE passed
        /\ UNCHANGED <<tree, task, endorsed>>

\* RunGates returns, at the end of the list or at the first required failure.
FinishBatch(s) ==
    /\ op[s].call = "gates"
    /\ BatchDone(s) \/ FailedGate(s)
    /\ op' = [op EXCEPT ![s] = [@ EXCEPT !.call = "gates_ran"]]
    /\ UNCHANGED <<tree, task, history>>

\* Verify fingerprints the tree for the baseline of what comes next.
LateFingerprint(s) ==
    /\ op[s].call \in LateFingerprints
    /\ op[s].seen = None
    /\ op' = [op EXCEPT ![s] = [@ EXCEPT !.seen = tree]]
    /\ UNCHANGED <<tree, task, history>>

-----------------------------------------------------------------------------

\* Store.Update begins: the lock is free in this process, the record is read.
Holds(s) == op[s].copy # None

\* Mutation: the record is read without taking the lock.
LoadUnlocked(s) ==
    /\ op[s].call \in Updates
    /\ op[s].call \in LateFingerprints => op[s].seen # None
    /\ ~Holds(s)
    /\ op' = [op EXCEPT ![s] = [@ EXCEPT !.copy = task]]
    /\ UNCHANGED <<tree, task, history>>

Load(s) ==
    /\ op[s].call \in Updates
    /\ op[s].call \in LateFingerprints => op[s].seen # None
    /\ ~Holds(s)
    /\ \A r \in Sessions : ProcessOf[r] = ProcessOf[s] => ~Holds(r)
    /\ op' = [op EXCEPT ![s] = [@ EXCEPT !.copy = task]]
    /\ UNCHANGED <<tree, task, history>>

\* Store.Update ends: what the callback made of the copy replaces the record.
Save(s, updated) ==
    /\ task' = updated
    /\ op' = [op EXCEPT ![s] = Idle]
    /\ UNCHANGED <<tree, passed>>

\* The callback of call is about to run on the loaded copy.
Loaded(s, call) == op[s].call = call /\ Holds(s)

AfterPlan(s) ==
    recordBaseline(Transition(Graph, op[s].copy, "plan_submitted"), op[s].seen)

SubmitPlan(s) ==
    /\ Loaded(s, "submit_plan")
    /\ requireActor(PolicyOf[s], op[s].actor, "planner")
    /\ Permits(Graph, op[s].copy.state, "plan_submitted")
    /\ Save(s, AfterPlan(s))
    /\ UNCHANGED endorsed

\* The tree did not move since the baseline; a nil baseline accepts anything.
Hollow(t, seen) == t.baseline # None /\ t.baseline = seen

\* Mutation: the evidence of the last round is kept.
AfterImplementationKeepingEvidence(s) ==
    recordBaseline(
        Transition(Graph, [op[s].copy EXCEPT !.policy = PolicyOf[s]],
                   "implementation_submitted"),
        op[s].seen)

AfterImplementation(s) ==
    recordBaseline(
        Transition(Graph,
                   InvalidateEvidence([op[s].copy EXCEPT !.policy = PolicyOf[s]]),
                   "implementation_submitted"),
        op[s].seen)

SubmitImplementation(s) ==
    /\ Loaded(s, "submit_implementation")
    /\ requireActor(PolicyOf[s], op[s].actor, "implementer")
    /\ ~Hollow(op[s].copy, op[s].seen)
    /\ Permits(Graph, op[s].copy.state, "implementation_submitted")
    /\ Save(s, AfterImplementation(s))
    /\ UNCHANGED endorsed

\* Mutation: the policy change opens an editing stage without a baseline.
AfterPolicyChangeWithoutBaseline(s) ==
    Transition(Graph,
               [InvalidateEvidence(op[s].copy) EXCEPT !.policy = PolicyOf[s]],
               "gate_failed")

\* Verify under a policy the record was not verified against.
AfterPolicyChange(s) ==
    recordBaseline(
        Transition(Graph,
                   [InvalidateEvidence(op[s].copy) EXCEPT !.policy = PolicyOf[s]],
                   "gate_failed"),
        op[s].seen)

VerifyPolicyChanged(s) ==
    /\ Loaded(s, "policy_changed")
    /\ Permits(Graph, op[s].copy.state, "gate_failed")
    /\ Save(s, AfterPolicyChange(s))
    /\ UNCHANGED endorsed

GateAction(s) == IF FailedGate(s) THEN "gate_failed" ELSE "gates_verified"

\* The receipts of the batch overwrite those of the same gates.
MergeReceipts(t, batch) ==
    [t EXCEPT !.receipts =
        [g \in Gates |-> IF batch[g] # None THEN batch[g] ELSE @[g]]]

AfterGates(s) ==
    recordBaseline(
        Transition(Graph, MergeReceipts(op[s].copy, op[s].batch), GateAction(s)),
        op[s].seen)

\* Mutation: a batch whose receipts are no longer of the current tree is refused.
VerifyGatesRanUnmoved(s) ==
    /\ Loaded(s, "gates_ran")
    /\ \A g \in Gates :
          op[s].batch[g] # None => op[s].batch[g].tree = op[s].seen
    /\ Permits(Graph, op[s].copy.state, GateAction(s))
    /\ Save(s, AfterGates(s))
    /\ UNCHANGED endorsed

VerifyGatesRan(s) ==
    /\ Loaded(s, "gates_ran")
    /\ Permits(Graph, op[s].copy.state, GateAction(s))
    /\ Save(s, AfterGates(s))
    /\ UNCHANGED endorsed

-----------------------------------------------------------------------------

MayReview(p, actor) ==
    /\ requireActor(p, actor, "reviewer")
    /\ IndependentQA[p] /\ AgentFor[p]["implementer"] # ""
          => actor # AgentFor[p]["implementer"]

AfterStaleReview(s) ==
    Transition(Graph, InvalidateEvidence(op[s].copy), "code_changed")

\* SubmitQA's first update finds the evidence stale: it is dropped and the
\* task goes back to verification, and the call fails.
ReviewStale(s) ==
    /\ Loaded(s, "submit_qa")
    /\ MayReview(PolicyOf[s], op[s].actor)
    /\ VerificationProblem(op[s].copy, PolicyOf[s], op[s].seen)
    /\ Permits(Graph, op[s].copy.state, "code_changed")
    /\ Save(s, AfterStaleReview(s))
    /\ UNCHANGED endorsed

\* It finds the evidence standing: the record is saved back as it was loaded,
\* and a second update follows.
ReviewStands(s) ==
    /\ Loaded(s, "submit_qa")
    /\ MayReview(PolicyOf[s], op[s].actor)
    /\ ~VerificationProblem(op[s].copy, PolicyOf[s], op[s].seen)
    /\ task' = op[s].copy
    /\ op' = [op EXCEPT ![s] = [@ EXCEPT !.call = "record_qa", !.copy = None]]
    /\ endorsed' = IF op[s].verdict = "approved"
                   THEN endorsed \cup {<<op[s].actor, PolicyOf[s], op[s].seen>>}
                   ELSE endorsed
    /\ UNCHANGED <<tree, passed>>

Verdict(s) ==
    [verdict |-> op[s].verdict, actor |-> op[s].actor,
     policy |-> PolicyOf[s], tree |-> op[s].seen]

VerdictAction(s) ==
    IF op[s].verdict = "rejected" THEN "qa_rejected" ELSE "qa_approved"

AfterReview(s) ==
    recordBaseline(
        Transition(Graph, [op[s].copy EXCEPT !.qa = Verdict(s)], VerdictAction(s)),
        op[s].seen)

\* SubmitQA's second update, which looks at nothing but the state.
RecordQA(s) ==
    /\ Loaded(s, "record_qa")
    /\ Permits(Graph, op[s].copy.state, VerdictAction(s))
    /\ Save(s, AfterReview(s))
    /\ UNCHANGED endorsed

\* Mutation: the gates alone complete a task.
EvidenceSufficesWithoutQA(t, p, seen) == ~VerificationProblem(t, p, seen)

\* Complete: only against the tree the gates and the reviewer judged.
EvidenceSuffices(t, p, seen) ==
    /\ ~VerificationProblem(t, p, seen)
    /\ IndependentQA[p] => ~QAProblem(t, p, seen)

Complete(s) ==
    /\ Loaded(s, "complete")
    /\ requireActor(PolicyOf[s], op[s].actor, "orchestrator")
    /\ EvidenceSuffices(op[s].copy, PolicyOf[s], op[s].seen)
    /\ Permits(Graph, op[s].copy.state, "completed")
    /\ Save(s, Transition(Graph, op[s].copy, "completed"))
    /\ UNCHANGED endorsed

Block(s) ==
    /\ Loaded(s, "block")
    /\ mayBlock(PolicyOf[s], op[s].actor, op[s].copy.state)
    /\ Permits(Graph, op[s].copy.state, "blocked")
    /\ Save(s, Transition(Graph, op[s].copy, "blocked"))
    /\ UNCHANGED endorsed

\* Resume records no baseline: the one from before the block stays.
Resume(s) ==
    /\ Loaded(s, "resume")
    /\ requireActor(PolicyOf[s], op[s].actor, "orchestrator")
    /\ Permits(Graph, op[s].copy.state, "resumed")
    /\ Save(s, Transition(Graph, op[s].copy, "resumed"))
    /\ UNCHANGED endorsed

Cancel(s) ==
    /\ Loaded(s, "cancel")
    /\ requireActor(PolicyOf[s], op[s].actor, "orchestrator")
    /\ Permits(Graph, op[s].copy.state, "cancelled")
    /\ Save(s, Transition(Graph, op[s].copy, "cancelled"))
    /\ UNCHANGED endorsed

-----------------------------------------------------------------------------

\* The call ends without saving: a refused actor or transition, a git or file
\* error, a cancelled context, or the death of the process.
GiveUp(s) ==
    /\ op[s] # Idle
    /\ op' = [op EXCEPT ![s] = Idle]
    /\ UNCHANGED <<tree, task, history>>

\* Anything that changes the work tree.
Edit ==
    /\ tree' \in Trees \ {tree}
    /\ UNCHANGED <<task, op, history>>

CallAny(s) ==
    \/ \E actor \in ActorsOf[s], call \in Calls :
          CallSubmit(s, call, actor) \/ CallControl(s, call, actor)
    \/ \E actor \in ActorsOf[s], verdict \in Verdicts :
          CallSubmitQA(s, actor, verdict)
    \/ CallVerify(s)

RunGates(s) ==
    \/ StartGate(s) \/ (\E exited \in BOOLEAN : FinishGate(s, exited))
    \/ FinishBatch(s) \/ LateFingerprint(s)

Mutate(s) ==
    \/ SubmitPlan(s) \/ SubmitImplementation(s)
    \/ VerifyPolicyChanged(s) \/ VerifyGatesRan(s)
    \/ ReviewStale(s) \/ ReviewStands(s) \/ RecordQA(s)
    \/ Complete(s) \/ Block(s) \/ Resume(s) \/ Cancel(s)

Next ==
    \/ Edit
    \/ \E s \in Sessions :
          CallAny(s) \/ RunGates(s) \/ Load(s) \/ Mutate(s) \/ GiveUp(s)

Spec == Init /\ [][Next]_vars

-----------------------------------------------------------------------------
\* What must hold of the record.

\* The stage of the work: a parked task keeps the stage it was parked from.
Stage(t) == IF t.state = "blocked" THEN t.resume ELSE t.state

\* An approval counts when it is not the implementer's own.
Independent(p, a) ==
    AgentFor[p]["implementer"] # "" => a # AgentFor[p]["implementer"]

\* Every required gate of p really passed on t, and so did the review.
Genuine(p, t) ==
    /\ \A g \in RequiredGates[p] : <<p, g, t>> \in passed
    /\ IndependentQA[p] =>
          \E a \in Agents \cup {""} : Independent(p, a) /\ <<a, p, t>> \in endorsed

\* The record shows every required gate passing on w.
ShownOn(t, w) == \A g \in RequiredGates[t.policy] : Stands(t.receipts[g], t.policy, w)

\* A complete task is genuine: on the one tree its receipts are for, every
\* required gate really ran and passed under the task's policy and, when QA
\* must be independent, a reviewer who is not the implementer approved that
\* same tree while the evidence stood.  However the operations of however many
\* processes interleave (Complete, VerificationProblem, QAProblem, classify).
CompletionIsGenuine ==
    task.state = "complete" =>
       \E w \in Trees : ShownOn(task, w) /\ Genuine(task.policy, w)

\* Evidence belongs to the stage it was gathered for: none is carried into
\* verification, a review or a completion has a passing receipt for every
\* required gate verification runs, all under one policy, and the stages after
\* a verdict have that verdict (InvalidateEvidence in SubmitImplementation,
\* Verify and SubmitQA).
EvidenceFollowsStage ==
    /\ Stage(task) = "verifying" => task.receipts = NoReceipts
    /\ Stage(task) \in {"verifying", "qa_review"} => task.qa = None
    /\ Stage(task) \in {"qa_review", "ready_to_complete", "complete"} =>
          \E p \in Policies : \A i \in DOMAIN GatesFor[p] :
             LET r == task.receipts[GatesFor[p][i]]
             IN  GatesFor[p][i] \in RequiredGates[p] =>
                    r # None /\ r.success /\ r.policy = p
    /\ Stage(task) = "changes_requested" =>
          task.qa # None /\ task.qa.verdict = "rejected"
    /\ Stage(task) \in {"ready_to_complete", "complete"} =>
          task.qa # None /\ task.qa.verdict = "approved"

\* A baseline is there exactly while the work is in an editing stage, parked
\* or not, so the nil baseline that SubmitImplementation lets through never
\* comes from a stale or a missing recordBaseline.
BaselineFollowsStage ==
    task.state # "cancelled" =>
       (task.baseline # None <=> IsEditingState(Stage(task)))

\* An approval is "bound to the inputs it was formed against": every required
\* gate really passed on the tree it names, under the policy it names, and its
\* reviewer, not the implementer, approved that tree while the evidence stood.
\* SubmitQA checks in one update and records in another, so what it records may
\* by then lie over the receipts of another tree; such an approval completes
\* nothing, for a task that is complete has the receipts of the tree and the
\* policy its approval names (SubmitQA, Complete, QAProblem).
ApprovalBinds ==
    /\ task.qa # None /\ task.qa.verdict = "approved" =>
          LET p == task.qa.policy IN
          /\ \A g \in RequiredGates[p] : <<p, g, task.qa.tree>> \in passed
          /\ <<task.qa.actor, p, task.qa.tree>> \in endorsed
          /\ IndependentQA[p] => Independent(p, task.qa.actor)
    /\ task.state = "complete" /\ IndependentQA[task.policy] =>
          /\ task.qa # None
          /\ task.qa.policy = task.policy
          /\ ShownOn(task, task.qa.tree)

\* A task that is complete or cancelled never changes again, whatever call
\* was in flight when it ended (Store.Update).
TerminalIsFinal ==
    [][task.state \in {"complete", "cancelled"} => task' = task]_vars

-----------------------------------------------------------------------------
\* The controller keeps TaskPromise's promise.

PhaseOf(state) ==
    CASE state = "complete" -> "finished"
      [] state = "cancelled" -> "abandoned"
      [] state = "blocked" -> "parked"
      [] OTHER -> "open"

ProvenBases ==
    {b \in Policies \X Trees : \A g \in RequiredGates[b[1]] : <<b[1], g, b[2]>> \in passed}

ApprovedBases ==
    {b \in Policies \X Trees :
        \E a \in Agents \cup {""} : Independent(b[1], a) /\ <<a, b[1], b[2]>> \in endorsed}

\* A complete task was completed on the tree of its required receipts.
Outcome ==
    IF task.state = "complete"
    THEN LET g == CHOOSE g \in RequiredGates[task.policy] : TRUE
         IN  <<task.policy, task.receipts[g].tree>>
    ELSE None

Promise == INSTANCE TaskPromise WITH
    Bases <- Policies \X Trees,
    Reviewed <- {b \in Policies \X Trees : IndependentQA[b[1]]},
    Nothing <- None,
    phase <- PhaseOf(task.state), proven <- ProvenBases,
    approved <- ApprovedBases, outcome <- Outcome

\* Within one process the controller implements the abstract lifecycle: no
\* approval before the proof, no completion without both on one basis, no
\* change after the end (Store.Update under its lock).
KeepsPromise == Promise!Spec

-----------------------------------------------------------------------------
\* Fairness: of a call that is under way.  The store's mutex does not starve a
\* waiter, a gate's command ends by itself or by its timeout, and a callback
\* runs to its end.  Nobody owes the call itself: the runtime verifies a task it
\* finds in verifying (advanceVerification), but not after a run that ended in
\* an error.

\* The callback refuses: a wrong actor, stale evidence, a transition the
\* graph does not have.
Refuse(s) == Holds(s) /\ ~ENABLED Mutate(s) /\ GiveUp(s)

\* No git or file error, no cancelled context, no crash.
HealthyNext ==
    \/ Edit
    \/ \E s \in Sessions :
          CallAny(s) \/ RunGates(s) \/ Load(s) \/ Mutate(s) \/ Refuse(s)

HealthySpec ==
    /\ Init /\ [][HealthyNext]_vars
    /\ \A s \in Sessions :
          /\ WF_vars(RunGates(s))
          /\ SF_vars(Load(s))
          /\ WF_vars(Mutate(s) \/ Refuse(s))

\* What a call of Verify is in the middle of.
Verifies(s) == op[s].call \in {"gates", "gate", "gates_ran", "policy_changed"}

\* Verification does not hang: a call of Verify that is under way leaves no task
\* in verifying, whatever its gates say, however the tree moves under them and
\* whoever else moves the task meanwhile (Verify, RunGates).
VerificationSettles == \A s \in Sessions : Verifies(s) ~> task.state # "verifying"

=============================================================================
