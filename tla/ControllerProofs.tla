-------------------------- MODULE ControllerProofs --------------------------
(***************************************************************************)
(* Theorems about Controller, for every value of its constants.            *)
(*                                                                         *)
(* The argument for CompletionIsGenuine follows the records, not the       *)
(* lock.  Every record in existence, the stored one and each copy a        *)
(* session has loaded, is Backed: what it claims about gates and reviews   *)
(* really happened.  A lost update replaces one backed record by another,  *)
(* so the theorem needs nothing of how processes share the store.          *)
(***************************************************************************)
EXTENDS Controller, SequenceTheorems, TLAPS

\* The calls that carry the fingerprint they took when they began.
Fingerprinted ==
    {"submit_plan", "submit_implementation", "submit_qa", "record_qa",
     "complete", "gate"}

\* What an operation o of session s carries, beyond its type.
Shaped(s, o) ==
    /\ o.call \in Fingerprinted => o.seen \in Trees
    /\ o.call \in {"submit_qa", "record_qa"} => o.verdict \in Verdicts
    /\ o.call = "gate" => o.next \in 1..Len(GatesFor[PolicyOf[s]])

TypeInv == TypeOK /\ \A s \in Sessions : Shaped(s, op[s])

-----------------------------------------------------------------------------
\* Operators of the model keep the types.

LEMMA TransitionType ==
    ASSUME NEW t \in Tasks, NEW action \in Actions, Permits(Graph, t.state, action)
    PROVE  Transition(Graph, t, action) \in Tasks
<1>1. Graph[t.state][action] \in States
  BY GraphAssumption DEF Permits
<1>2. Target(Graph, t, action) \in States
  BY <1>1 DEF Target, Tasks
<1>3. t.state \in States
  BY DEF Tasks
<1>4. activeState(t.state) \in States \cup {""}
  BY <1>3 DEF activeState
<1>5. ResumeAfter(t, action) \in States \cup {""}
  BY <1>4 DEF ResumeAfter, Tasks
<1> QED
  BY <1>2, <1>5 DEF Transition, Tasks

LEMMA BaselineType ==
    ASSUME NEW t \in Tasks, NEW seen \in Trees \cup {None}
    PROVE  recordBaseline(t, seen) \in Tasks
  BY DEF recordBaseline, Tasks

LEMMA InvalidateType ==
    ASSUME NEW t \in Tasks
    PROVE  InvalidateEvidence(t) \in Tasks
  BY DEF InvalidateEvidence, NoReceipts, Tasks

LEMMA MergeType ==
    ASSUME NEW t \in Tasks, NEW batch \in [Gates -> Receipts \cup {None}]
    PROVE  MergeReceipts(t, batch) \in Tasks
  BY DEF MergeReceipts, Tasks

LEMMA NewTaskType ==
    ASSUME NEW p \in Policies, NEW seen \in Trees
    PROVE  NewTask(p, seen) \in Tasks
<1> DEFINE fresh ==
        [state |-> IF RequirePlan[p] THEN "planning" ELSE "implementing",
         resume |-> "", policy |-> p, baseline |-> None,
         receipts |-> NoReceipts, qa |-> None]
<1>1. fresh \in Tasks
  BY DEF Tasks, NoReceipts, States, StatesOf, BuiltinStates
<1> HIDE DEF fresh
<1>2. recordBaseline(fresh, seen) \in Tasks
  BY <1>1, BaselineType
<1> QED
  BY <1>2 DEF NewTask, fresh

LEMMA IdleType == Idle \in Operations
  BY DEF Idle, Operations, NoReceipts

LEMMA IdleShaped == \A s \in Sessions : Shaped(s, Idle)
  BY DEF Idle, Shaped, Fingerprinted

\* One session's operation is replaced by a well formed one.
LEMMA OpStep ==
    ASSUME TypeInv, NEW s \in Sessions, NEW o \in Operations, Shaped(s, o),
           op' = [op EXCEPT ![s] = o]
    PROVE  /\ op' \in [Sessions -> Operations]
           /\ \A r \in Sessions : Shaped(r, op'[r])
<1>1. op \in [Sessions -> Operations]
  BY DEF TypeInv, TypeOK
<1>2. \A r \in Sessions : op'[r] = IF r = s THEN o ELSE op[r]
  BY <1>1
<1> QED
  BY <1>1, <1>2 DEF TypeInv

\* An operation saves a record of the right type.
LEMMA SaveType ==
    ASSUME TypeInv, NEW s \in Sessions, NEW updated \in Tasks,
           Save(s, updated), UNCHANGED endorsed
    PROVE  TypeInv'
<1>1. op' = [op EXCEPT ![s] = Idle]
  BY DEF Save
<1>2. /\ op' \in [Sessions -> Operations]
      /\ \A r \in Sessions : Shaped(r, op'[r])
  BY <1>1, OpStep, IdleType, IdleShaped
<1> QED
  BY <1>2 DEF TypeInv, TypeOK, Save

\* The operation of a session that holds a record.
LEMMA LoadedType ==
    ASSUME TypeInv, NEW s \in Sessions, Holds(s)
    PROVE  /\ op[s] \in Operations
           /\ op[s].copy \in Tasks
           /\ op[s].seen \in Trees \cup {None}
           /\ op[s].batch \in [Gates -> Receipts \cup {None}]
           /\ PolicyOf[s] \in Policies
           /\ [op[s].copy EXCEPT !.policy = PolicyOf[s]] \in Tasks
           /\ [InvalidateEvidence(op[s].copy) EXCEPT !.policy = PolicyOf[s]] \in Tasks
<1>1. op[s] \in Operations
  BY DEF TypeInv, TypeOK
<1>2. op[s].copy \in Tasks
  BY <1>1 DEF Operations, Holds
<1>3. PolicyOf[s] \in Policies
  BY SessionAssumption
<1>4. InvalidateEvidence(op[s].copy) \in Tasks
  BY <1>2, InvalidateType
<1>5. \A t \in Tasks : [t EXCEPT !.policy = PolicyOf[s]] \in Tasks
  BY <1>3 DEF Tasks
<1> QED
  BY <1>1, <1>2, <1>3, <1>4, <1>5 DEF Operations

LEMMA SubmitPlanType ==
    ASSUME TypeInv, NEW s \in Sessions, SubmitPlan(s)
    PROVE  TypeInv'
<1>1. Holds(s) /\ Permits(Graph, op[s].copy.state, "plan_submitted")
  BY DEF SubmitPlan, Loaded
<1>2. Transition(Graph, op[s].copy, "plan_submitted") \in Tasks
  BY <1>1, LoadedType, TransitionType DEF Actions
<1>3. AfterPlan(s) \in Tasks
  BY <1>1, <1>2, LoadedType, BaselineType DEF AfterPlan
<1> QED
  BY <1>3, SaveType DEF SubmitPlan

LEMMA SubmitImplementationType ==
    ASSUME TypeInv, NEW s \in Sessions, SubmitImplementation(s)
    PROVE  TypeInv'
<1> DEFINE t == InvalidateEvidence([op[s].copy EXCEPT !.policy = PolicyOf[s]])
<1>1. Holds(s) /\ Permits(Graph, op[s].copy.state, "implementation_submitted")
  BY DEF SubmitImplementation, Loaded
<1>2. t \in Tasks /\ t.state = op[s].copy.state
  BY <1>1, LoadedType, InvalidateType DEF InvalidateEvidence, Tasks
<1> HIDE DEF t
<1>3. Transition(Graph, t, "implementation_submitted") \in Tasks
  BY <1>1, <1>2, TransitionType DEF Actions
<1>4. AfterImplementation(s) \in Tasks
  BY <1>1, <1>3, LoadedType, BaselineType DEF AfterImplementation, t
<1> QED
  BY <1>4, SaveType DEF SubmitImplementation

LEMMA VerifyPolicyChangedType ==
    ASSUME TypeInv, NEW s \in Sessions, VerifyPolicyChanged(s)
    PROVE  TypeInv'
<1> DEFINE t == [InvalidateEvidence(op[s].copy) EXCEPT !.policy = PolicyOf[s]]
<1>1. Holds(s) /\ Permits(Graph, op[s].copy.state, "gate_failed")
  BY DEF VerifyPolicyChanged, Loaded
<1>2. t \in Tasks /\ t.state = op[s].copy.state
  BY <1>1, LoadedType DEF InvalidateEvidence, Tasks
<1> HIDE DEF t
<1>3. Transition(Graph, t, "gate_failed") \in Tasks
  BY <1>1, <1>2, TransitionType DEF Actions
<1>4. AfterPolicyChange(s) \in Tasks
  BY <1>1, <1>3, LoadedType, BaselineType DEF AfterPolicyChange, t
<1> QED
  BY <1>4, SaveType DEF VerifyPolicyChanged

LEMMA VerifyGatesRanType ==
    ASSUME TypeInv, NEW s \in Sessions, VerifyGatesRan(s)
    PROVE  TypeInv'
<1> DEFINE t == MergeReceipts(op[s].copy, op[s].batch)
<1>1. Holds(s) /\ Permits(Graph, op[s].copy.state, GateAction(s))
  BY DEF VerifyGatesRan, Loaded
<1>2. t \in Tasks
  BY <1>1, LoadedType, MergeType
<1>3. t.state = op[s].copy.state
  BY <1>1, LoadedType DEF MergeReceipts, Tasks
<1>4. GateAction(s) \in Actions
  BY DEF GateAction, Actions
<1> HIDE DEF t
<1>5. Transition(Graph, t, GateAction(s)) \in Tasks
  BY <1>1, <1>2, <1>3, <1>4, TransitionType
<1>6. AfterGates(s) \in Tasks
  BY <1>1, <1>5, LoadedType, BaselineType DEF AfterGates, t
<1> QED
  BY <1>6, SaveType DEF VerifyGatesRan

LEMMA ReviewStaleType ==
    ASSUME TypeInv, NEW s \in Sessions, ReviewStale(s)
    PROVE  TypeInv'
<1> DEFINE t == InvalidateEvidence(op[s].copy)
<1>1. Holds(s) /\ Permits(Graph, op[s].copy.state, "code_changed")
  BY DEF ReviewStale, Loaded
<1>2. t \in Tasks /\ t.state = op[s].copy.state
  BY <1>1, LoadedType, InvalidateType DEF InvalidateEvidence, Tasks
<1> HIDE DEF t
<1>3. AfterStaleReview(s) \in Tasks
  BY <1>1, <1>2, TransitionType DEF Actions, AfterStaleReview, t
<1> QED
  BY <1>3, SaveType DEF ReviewStale

LEMMA ReviewStandsType ==
    ASSUME TypeInv, NEW s \in Sessions, ReviewStands(s)
    PROVE  TypeInv'
<1> DEFINE o == [op[s] EXCEPT !.call = "record_qa", !.copy = None]
<1>1. op[s].call = "submit_qa" /\ Holds(s)
  BY DEF ReviewStands, Loaded
<1>2. op[s] \in Operations /\ op[s].copy \in Tasks /\ PolicyOf[s] \in Policies
  BY <1>1, LoadedType
<1>3. op[s].seen \in Trees /\ op[s].verdict \in Verdicts
  BY <1>1 DEF TypeInv, Shaped, Fingerprinted
<1>4. o \in Operations /\ Shaped(s, o)
  BY <1>2, <1>3 DEF Operations, Updates, Shaped
<1>5. op' = [op EXCEPT ![s] = o]
  BY DEF ReviewStands
<1> HIDE DEF o
<1>6. /\ op' \in [Sessions -> Operations]
      /\ \A r \in Sessions : Shaped(r, op'[r])
  BY <1>4, <1>5, OpStep
<1>7. endorsed' \subseteq (Agents \cup {""}) \X Policies \X Trees
  <2>1. op[s].actor \in Agents \cup {""}
    BY <1>2 DEF Operations
  <2>2. <<op[s].actor, PolicyOf[s], op[s].seen>>
            \in (Agents \cup {""}) \X Policies \X Trees
    BY <1>2, <1>3, <2>1
  <2>3. endorsed \subseteq (Agents \cup {""}) \X Policies \X Trees
    BY DEF TypeInv, TypeOK
  <2>4. \/ endorsed' = endorsed
        \/ endorsed' = endorsed \cup {<<op[s].actor, PolicyOf[s], op[s].seen>>}
    BY DEF ReviewStands
  <2> QED
    BY <2>2, <2>3, <2>4
<1> QED
  BY <1>2, <1>6, <1>7 DEF ReviewStands, TypeInv, TypeOK

LEMMA RecordQAType ==
    ASSUME TypeInv, NEW s \in Sessions, RecordQA(s)
    PROVE  TypeInv'
<1> DEFINE t == [op[s].copy EXCEPT !.qa = Verdict(s)]
<1>1. /\ Holds(s)
      /\ op[s].call = "record_qa"
      /\ Permits(Graph, op[s].copy.state, VerdictAction(s))
  BY DEF RecordQA, Loaded
<1>2. op[s] \in Operations /\ op[s].copy \in Tasks /\ PolicyOf[s] \in Policies
  BY <1>1, LoadedType
<1>3. op[s].seen \in Trees /\ op[s].verdict \in Verdicts
  BY <1>1 DEF TypeInv, Shaped, Fingerprinted
<1>4. Verdict(s) \in QAVerdicts
  BY <1>2, <1>3 DEF Verdict, QAVerdicts, Operations
<1>5. t \in Tasks /\ t.state = op[s].copy.state
  BY <1>2, <1>4 DEF Tasks
<1>6. VerdictAction(s) \in Actions
  BY DEF VerdictAction, Actions
<1> HIDE DEF t
<1>7. Transition(Graph, t, VerdictAction(s)) \in Tasks
  BY <1>1, <1>5, <1>6, TransitionType
<1>8. AfterReview(s) \in Tasks
  BY <1>1, <1>7, LoadedType, BaselineType DEF AfterReview, t
<1> QED
  BY <1>8, SaveType DEF RecordQA

\* Complete, Block, Resume and Cancel do nothing but the transition.
LEMMA PlainTransitionType ==
    ASSUME TypeInv, NEW s \in Sessions, NEW action \in Actions, Holds(s),
           Permits(Graph, op[s].copy.state, action),
           Save(s, Transition(Graph, op[s].copy, action)), UNCHANGED endorsed
    PROVE  TypeInv'
<1>1. Transition(Graph, op[s].copy, action) \in Tasks
  BY LoadedType, TransitionType
<1> QED
  BY <1>1, SaveType

LEMMA MutateType ==
    ASSUME TypeInv, NEW s \in Sessions, Mutate(s)
    PROVE  TypeInv'
<1>1. CASE Complete(s)
  BY <1>1, PlainTransitionType DEF Complete, Loaded, Actions
<1>2. CASE Block(s)
  BY <1>2, PlainTransitionType DEF Block, Loaded, Actions
<1>3. CASE Resume(s)
  BY <1>3, PlainTransitionType DEF Resume, Loaded, Actions
<1>4. CASE Cancel(s)
  BY <1>4, PlainTransitionType DEF Cancel, Loaded, Actions
<1> QED
  BY <1>1, <1>2, <1>3, <1>4, SubmitPlanType, SubmitImplementationType,
     VerifyPolicyChangedType, VerifyGatesRanType, ReviewStaleType,
     ReviewStandsType, RecordQAType DEF Mutate

LEMMA CallAnyType ==
    ASSUME TypeInv, NEW s \in Sessions, CallAny(s)
    PROVE  TypeInv'
<1> DEFINE Begun(call, actor, seen, verdict) ==
        [Idle EXCEPT !.call = call, !.actor = actor,
                     !.seen = seen, !.verdict = verdict]
<1>1. ASSUME NEW name, NEW call \in Updates \cup {"gates"},
             NEW actor \in Agents \cup {""}, NEW seen \in Trees \cup {None},
             NEW verdict \in Verdicts \cup {None},
             call \in Fingerprinted => seen \in Trees,
             call \in {"submit_qa", "record_qa"} => verdict \in Verdicts,
             Begin(s, name, call, actor, seen, verdict)
      PROVE  TypeInv'
  <2> DEFINE o == Begun(call, actor, seen, verdict)
  <2>1. o \in Operations /\ Shaped(s, o)
    <3>1. o \in Operations
      BY <1>1, IdleType DEF Operations
    <3>2. o.call = call /\ o.seen = seen /\ o.verdict = verdict
      BY IdleType DEF Operations
    <3>3. call # "gate"
      BY <1>1 DEF Updates
    <3> QED
      BY <1>1, <3>1, <3>2, <3>3 DEF Shaped
  <2>2. op' = [op EXCEPT ![s] = o]
    BY <1>1 DEF Begin
  <2> HIDE DEF o
  <2>3. /\ op' \in [Sessions -> Operations]
        /\ \A r \in Sessions : Shaped(r, op'[r])
    BY <2>1, <2>2, OpStep
  <2> QED
    BY <1>1, <2>3 DEF Begin, history, TypeInv, TypeOK
<1>2. tree \in Trees
  BY DEF TypeInv, TypeOK
<1>3. ActorsOf[s] \subseteq Agents \cup {""}
  BY SessionAssumption
<1>4. ASSUME NEW actor \in ActorsOf[s], NEW call \in Calls, CallSubmit(s, call, actor)
      PROVE  TypeInv'
  BY <1>1, <1>2, <1>3, <1>4 DEF CallSubmit, Updates, Fingerprinted
<1>5. ASSUME NEW actor \in ActorsOf[s], NEW call \in Calls, CallControl(s, call, actor)
      PROVE  TypeInv'
  BY <1>1, <1>3, <1>5 DEF CallControl, Updates, Fingerprinted
<1>6. ASSUME NEW actor \in ActorsOf[s], NEW verdict \in Verdicts,
             CallSubmitQA(s, actor, verdict)
      PROVE  TypeInv'
  BY <1>1, <1>2, <1>3, <1>6 DEF CallSubmitQA, Updates
<1>7. CASE CallVerify(s)
  BY <1>1, <1>7 DEF CallVerify, Updates, Fingerprinted
<1> QED
  BY <1>4, <1>5, <1>6, <1>7 DEF CallAny

LEMMA FinishGateType ==
    ASSUME TypeInv, NEW s \in Sessions, NEW exited \in BOOLEAN, FinishGate(s, exited)
    PROVE  TypeInv'
<1> DEFINE p == PolicyOf[s]
           g == GatesFor[p][op[s].next]
           receipt == [success |-> classify(exited, op[s].seen, tree),
                       policy |-> p, tree |-> op[s].seen]
           o == [op[s] EXCEPT !.call = "gates", !.seen = None,
                              !.batch[g] = receipt, !.next = op[s].next + 1]
<1>1. op[s].call = "gate" /\ op[s] \in Operations /\ tree \in Trees
  BY DEF FinishGate, TypeInv, TypeOK
<1>2. op[s].seen \in Trees /\ op[s].next \in 1..Len(GatesFor[p])
  BY <1>1 DEF TypeInv, Shaped, Fingerprinted
<1>3. p \in Policies /\ g \in Gates
  <2>1. p \in Policies
    BY SessionAssumption
  <2>2. GatesFor[p] \in Seq(Gates)
    BY <2>1, PolicyAssumption
  <2> QED
    BY <1>2, <2>1, <2>2, ElementOfSeq
<1>4. classify(exited, op[s].seen, tree) \in BOOLEAN
  BY DEF classify
<1>5. receipt \in Receipts
  BY <1>2, <1>3, <1>4 DEF Receipts
<1>6. op' = [op EXCEPT ![s] = o]
  BY DEF FinishGate
<1>7. passed' \subseteq Policies \X Gates \X Trees
  <2>1. <<p, g, tree>> \in Policies \X Gates \X Trees
    BY <1>1, <1>3
  <2>2. passed' = passed \cup {<<p, g, tree>>} \/ passed' = passed
    BY DEF FinishGate
  <2> QED
    BY <2>1, <2>2 DEF TypeInv, TypeOK
<1> HIDE DEF receipt, g, p
<1>8. o \in Operations /\ Shaped(s, o)
  <2>1. [op[s].batch EXCEPT ![g] = receipt] \in [Gates -> Receipts \cup {None}]
    BY <1>1, <1>3, <1>5 DEF Operations
  <2>2. op[s].next + 1 \in Nat \ {0}
    <3>1. op[s].next \in Nat
      BY <1>1 DEF Operations
    <3> QED
      BY <3>1
  <2>3. o \in Operations
    BY <1>1, <2>1, <2>2 DEF Operations
  <2>4. o.call = "gates"
    BY <1>1 DEF Operations
  <2> QED
    BY <2>3, <2>4 DEF Shaped, Fingerprinted
<1> HIDE DEF o
<1>9. /\ op' \in [Sessions -> Operations]
      /\ \A r \in Sessions : Shaped(r, op'[r])
  BY <1>6, <1>8, OpStep
<1> QED
  BY <1>7, <1>9 DEF FinishGate, TypeInv, TypeOK

\* A step that does nothing but change one session's operation.
LEMMA OnlyOpType ==
    ASSUME TypeInv, NEW s \in Sessions, NEW o \in Operations, Shaped(s, o),
           op' = [op EXCEPT ![s] = o], UNCHANGED <<tree, task, history>>
    PROVE  TypeInv'
  BY OpStep DEF TypeInv, TypeOK, history

LEMMA RunGatesType ==
    ASSUME TypeInv, NEW s \in Sessions, RunGates(s)
    PROVE  TypeInv'
<1>1. op[s] \in Operations /\ tree \in Trees
  BY DEF TypeInv, TypeOK
<1>2. CASE StartGate(s)
  <2> DEFINE o == [op[s] EXCEPT !.call = "gate", !.seen = tree]
  <2>1. GatesFor[PolicyOf[s]] \in Seq(Gates)
    BY SessionAssumption, PolicyAssumption
  <2>2. Len(GatesFor[PolicyOf[s]]) \in Nat
    BY <2>1
  <2>3. o \in Operations
    BY <1>1 DEF Operations
  <2>4. o.call = "gate" /\ o.seen = tree /\ o.next = op[s].next
    BY <1>1 DEF Operations
  <2>5. op[s].next \in Nat \ {0} /\ ~(op[s].next > Len(GatesFor[PolicyOf[s]]))
    BY <1>1, <1>2 DEF Operations, StartGate, BatchDone
  <2>6. op[s].next \in 1..Len(GatesFor[PolicyOf[s]])
    BY <2>2, <2>5
  <2>7. Shaped(s, o)
    BY <1>1, <2>4, <2>6 DEF Shaped
  <2> QED
    BY <1>2, <2>3, <2>7, OnlyOpType DEF StartGate
<1>3. CASE FinishBatch(s)
  <2> DEFINE o == [op[s] EXCEPT !.call = "gates_ran"]
  <2>1. o \in Operations /\ Shaped(s, o)
    BY <1>1 DEF Operations, Updates, Shaped, Fingerprinted
  <2> QED
    BY <1>3, <2>1, OnlyOpType DEF FinishBatch
<1>4. CASE LateFingerprint(s)
  <2> DEFINE o == [op[s] EXCEPT !.seen = tree]
  <2>1. o \in Operations /\ Shaped(s, o)
    BY <1>1, <1>4 DEF LateFingerprint, LateFingerprints, Operations, Shaped, Fingerprinted
  <2> QED
    BY <1>4, <2>1, OnlyOpType DEF LateFingerprint
<1> QED
  BY <1>2, <1>3, <1>4, FinishGateType DEF RunGates

LEMMA LoadType ==
    ASSUME TypeInv, NEW s \in Sessions, Load(s)
    PROVE  TypeInv'
<1> DEFINE o == [op[s] EXCEPT !.copy = task]
<1>1. o \in Operations /\ Shaped(s, o)
  BY DEF TypeInv, TypeOK, Operations, Shaped
<1> QED
  BY <1>1, OnlyOpType DEF Load

LEMMA GiveUpType ==
    ASSUME TypeInv, NEW s \in Sessions, GiveUp(s)
    PROVE  TypeInv'
  BY IdleType, IdleShaped, OnlyOpType DEF GiveUp

LEMMA NextType == TypeInv /\ [Next]_vars => TypeInv'
<1> SUFFICES ASSUME TypeInv, [Next]_vars
             PROVE  TypeInv'
  OBVIOUS
<1>1. CASE Edit
  BY <1>1 DEF Edit, history, TypeInv, TypeOK
<1>2. CASE UNCHANGED vars
  BY <1>2 DEF vars, TypeInv, TypeOK
<1>3. ASSUME NEW s \in Sessions, CallAny(s) \/ RunGates(s) \/ Load(s) \/ Mutate(s) \/ GiveUp(s)
      PROVE  TypeInv'
  BY <1>3, CallAnyType, RunGatesType, LoadType, MutateType, GiveUpType
<1> QED
  BY <1>1, <1>2, <1>3 DEF Next

LEMMA InitType == Init => TypeInv
<1> SUFFICES ASSUME Init
             PROVE  TypeInv
  OBVIOUS
<1>1. \A s \in Sessions : PolicyOf[s] \in Policies
  BY SessionAssumption
<1>2. task \in Tasks
  BY <1>1, NewTaskType DEF Init
<1>3. \A s \in Sessions : op[s] = Idle
  BY DEF Init
<1>4. op \in [Sessions -> Operations]
  BY IdleType DEF Init
<1> QED
  BY <1>2, <1>3, <1>4, IdleShaped DEF Init, TypeInv, TypeOK

\* Every reachable state has the declared types: in particular no operation
\* records a verdict without the fingerprint it took, and no record is saved
\* that is not a task of the graph in force (Transition, Update).
THEOREM TypeCorrect == Spec => []TypeOK
<1>1. TypeInv => TypeOK
  BY DEF TypeInv
<1> QED
  BY <1>1, InitType, NextType, PTL DEF Spec

-----------------------------------------------------------------------------
\* Completions are genuine.

\* The graph enters complete by the completed action alone, as the builtin one.
OnlyCompletedCompletes ==
    \A state \in DOMAIN Graph : \A action \in DOMAIN Graph[state] :
        Graph[state][action] = "complete" => action = "completed"

\* Genuine, of given histories ps of passes and es of endorsements.
GenuineBy(p, w, ps, es) ==
    /\ \A g \in RequiredGates[p] : <<p, g, w>> \in ps
    /\ IndependentQA[p] =>
          \E a \in Agents \cup {""} : Independent(p, a) /\ <<a, p, w>> \in es

\* Every passing receipt is of a gate that passed.
ReceiptsBacked(receipts, ps) ==
    \A g \in Gates :
        receipts[g] # None /\ receipts[g].success
            => <<receipts[g].policy, g, receipts[g].tree>> \in ps

\* An approval that policy p accepts from actor a, of tree w.
ApprovalBacked(a, p, w, es) ==
    <<a, p, w>> \in es /\ (IndependentQA[p] => Independent(p, a))

\* What the record t claims about gates and reviews happened.
Evidenced(t, ps, es) ==
    /\ t.resume # "complete"
    /\ ReceiptsBacked(t.receipts, ps)
    /\ t.qa # None /\ t.qa.verdict = "approved"
          => ApprovalBacked(t.qa.actor, t.qa.policy, t.qa.tree, es)

\* The approval on record is the task's policy's, of tree w.
Approves(t, w) ==
    t.qa # None /\ t.qa.policy = t.policy /\ t.qa.tree = w

Backed(t, ps, es) ==
    /\ Evidenced(t, ps, es)
    /\ t.state = "complete" =>
          \E w \in Trees :
             /\ ShownOn(t, w)
             /\ GenuineBy(t.policy, w, ps, es)
             /\ IndependentQA[t.policy] => Approves(t, w)

\* The same of what an operation o of session s carries.
OpBacked(s, o, ps, es) ==
    /\ o.copy # None => Backed(o.copy, ps, es)
    /\ ReceiptsBacked(o.batch, ps)
    /\ o.call = "record_qa" /\ o.verdict = "approved"
          => ApprovalBacked(o.actor, PolicyOf[s], o.seen, es)

\* Inductive: the stored record and every loaded copy are backed.
GenuineInv ==
    /\ TypeInv
    /\ Backed(task, passed, endorsed)
    /\ \A s \in Sessions : OpBacked(s, op[s], passed, endorsed)

LEMMA BackedGrows ==
    ASSUME NEW t, NEW ps, NEW es, NEW ps2, NEW es2,
           ps \subseteq ps2, es \subseteq es2, Backed(t, ps, es)
    PROVE  Backed(t, ps2, es2)
<1>1. Evidenced(t, ps2, es2)
  BY DEF Backed, Evidenced, ReceiptsBacked, ApprovalBacked
<1>2. \A p, w : GenuineBy(p, w, ps, es) => GenuineBy(p, w, ps2, es2)
  BY DEF GenuineBy
<1> QED
  BY <1>1, <1>2 DEF Backed

LEMMA OpBackedGrows ==
    ASSUME NEW s, NEW o, NEW ps, NEW es, NEW ps2, NEW es2,
           ps \subseteq ps2, es \subseteq es2, OpBacked(s, o, ps, es)
    PROVE  OpBacked(s, o, ps2, es2)
<1>1. o.copy # None => Backed(o.copy, ps2, es2)
  BY BackedGrows DEF OpBacked
<1> QED
  BY <1>1 DEF OpBacked, ReceiptsBacked, ApprovalBacked

LEMMA IdleBacked ==
    ASSUME NEW s, NEW ps, NEW es
    PROVE  OpBacked(s, Idle, ps, es)
  BY DEF OpBacked, Idle, NoReceipts, ReceiptsBacked

\* A transition other than completed asks no more than evidence of its source.
LEMMA TransitionBacked ==
    ASSUME OnlyCompletedCompletes, NEW t \in Tasks, NEW action \in Actions,
           action # "completed", Permits(Graph, t.state, action),
           NEW ps, NEW es, Evidenced(t, ps, es)
    PROVE  Backed(Transition(Graph, t, action), ps, es)
<1> DEFINE u == Transition(Graph, t, action)
<1>1. /\ u.state = Target(Graph, t, action)
      /\ u.resume = ResumeAfter(t, action)
      /\ u.receipts = t.receipts /\ u.qa = t.qa
  BY DEF Transition, Tasks
<1>2. Target(Graph, t, action) # "complete"
  BY DEF Target, OnlyCompletedCompletes, Permits, Evidenced
<1>3. activeState(t.state) # "complete"
  BY DEF activeState
<1>4. ResumeAfter(t, action) # "complete"
  BY <1>3 DEF ResumeAfter, Evidenced
<1> HIDE DEF u
<1>5. Evidenced(u, ps, es)
  BY <1>1, <1>4 DEF Evidenced
<1>6. Backed(u, ps, es)
  BY <1>1, <1>2, <1>5 DEF Backed
<1> QED
  BY <1>6 DEF u

LEMMA BaselineBacked ==
    ASSUME NEW t \in Tasks, NEW seen, NEW ps, NEW es, Backed(t, ps, es)
    PROVE  Backed(recordBaseline(t, seen), ps, es)
<1> DEFINE u == recordBaseline(t, seen)
<1>1. /\ u.state = t.state /\ u.resume = t.resume /\ u.policy = t.policy
      /\ u.receipts = t.receipts /\ u.qa = t.qa
  BY DEF recordBaseline, Tasks
<1> HIDE DEF u
<1>2. Backed(u, ps, es)
  BY <1>1 DEF Backed, Evidenced, ShownOn, Approves
<1> QED
  BY <1>2 DEF u

LEMMA InvalidateEvidenced ==
    ASSUME NEW t \in Tasks, NEW ps, NEW es, t.resume # "complete"
    PROVE  Evidenced(InvalidateEvidence(t), ps, es)
  BY DEF InvalidateEvidence, NoReceipts, Evidenced, ReceiptsBacked, Tasks

\* What completes under p on w is genuine, whoever wrote the record.
LEMMA CompletedBacked ==
    ASSUME NEW t \in Tasks, NEW p \in Policies, NEW w \in Trees,
           NEW ps, NEW es, Evidenced(t, ps, es), EvidenceSuffices(t, p, w)
    PROVE  Backed(Transition(Graph, t, "completed"), ps, es)
<1> DEFINE u == Transition(Graph, t, "completed")
<1>1. /\ u.resume = t.resume /\ u.policy = t.policy
      /\ u.receipts = t.receipts /\ u.qa = t.qa
  BY DEF Transition, ResumeAfter, Tasks
<1>2. t.policy = p
  BY DEF EvidenceSuffices, VerificationProblem
<1>3. ShownOn(u, w) /\ \A g \in RequiredGates[p] : <<p, g, w>> \in ps
  <2>1. \A g \in RequiredGates[p] : g \in Gates /\ Stands(t.receipts[g], p, w)
    BY PolicyAssumption DEF EvidenceSuffices, VerificationProblem
  <2> QED
    BY <1>1, <1>2, <2>1 DEF ShownOn, Stands, Evidenced, ReceiptsBacked
<1>4. IndependentQA[p] =>
         \E a \in Agents \cup {""} : Independent(p, a) /\ <<a, p, w>> \in es
  <2> SUFFICES ASSUME IndependentQA[p]
               PROVE  \E a \in Agents \cup {""} : Independent(p, a) /\ <<a, p, w>> \in es
    OBVIOUS
  <2>1. /\ t.qa # None /\ t.qa.verdict = "approved"
        /\ t.qa.policy = p /\ t.qa.tree = w
    BY DEF EvidenceSuffices, QAProblem
  <2>2. t.qa.actor \in Agents \cup {""}
    BY <2>1 DEF Tasks, QAVerdicts
  <2>3. Independent(p, t.qa.actor) /\ <<t.qa.actor, p, w>> \in es
    BY <2>1 DEF Evidenced, ApprovalBacked
  <2> QED
    BY <2>2, <2>3
<1>5. IndependentQA[p] => Approves(u, w)
  BY <1>1, <1>2 DEF EvidenceSuffices, QAProblem, Approves
<1> HIDE DEF u
<1>6. Backed(u, ps, es)
  BY <1>1, <1>2, <1>3, <1>4, <1>5 DEF Backed, Evidenced, GenuineBy
<1> QED
  BY <1>6 DEF u

\* An operation saves a backed record and is over.
LEMMA SaveBacked ==
    ASSUME GenuineInv, TypeInv', NEW s \in Sessions, NEW updated,
           Backed(updated, passed, endorsed), Save(s, updated), UNCHANGED endorsed
    PROVE  GenuineInv'
<1>1. op \in [Sessions -> Operations]
  BY DEF GenuineInv, TypeInv, TypeOK
<1>2. \A r \in Sessions : op'[r] = IF r = s THEN Idle ELSE op[r]
  BY <1>1 DEF Save
<1>3. passed' = passed /\ endorsed' = endorsed /\ task' = updated
  BY DEF Save
<1>4. \A r \in Sessions : OpBacked(r, op'[r], passed, endorsed)
  BY <1>2, IdleBacked DEF GenuineInv
<1> QED
  BY <1>3, <1>4 DEF GenuineInv

\* What a session that holds a record knows of it.
LEMMA LoadedBacked ==
    ASSUME GenuineInv, NEW s \in Sessions, Holds(s)
    PROVE  /\ op[s].copy \in Tasks
           /\ Backed(op[s].copy, passed, endorsed)
           /\ Evidenced(op[s].copy, passed, endorsed)
           /\ op[s].copy.resume # "complete"
  BY LoadedType DEF GenuineInv, Holds, OpBacked, Backed, Evidenced

\* Each way a record is changed and saved.
LEMMA MutateBacked ==
    ASSUME OnlyCompletedCompletes, GenuineInv, TypeInv', NEW s \in Sessions, Mutate(s)
    PROVE  GenuineInv'
<1> DEFINE t == op[s].copy
           p == PolicyOf[s]
<1> USE DEF Loaded
<1>a. TypeInv /\ p \in Policies
  BY SessionAssumption DEF GenuineInv
<1>b. ASSUME NEW action \in Actions, action # "completed", Holds(s),
             Permits(Graph, t.state, action)
      PROVE  Backed(Transition(Graph, t, action), passed, endorsed)
  BY <1>b, LoadedBacked, TransitionBacked
<1>1. CASE SubmitPlan(s)
  <2>1. Holds(s) /\ Permits(Graph, t.state, "plan_submitted")
    BY <1>1 DEF SubmitPlan
  <2>2. Transition(Graph, t, "plan_submitted") \in Tasks
    BY <2>1, LoadedBacked, TransitionType DEF Actions
  <2>3. Backed(AfterPlan(s), passed, endorsed)
    BY <1>b, <2>1, <2>2, BaselineBacked DEF Actions, AfterPlan
  <2> QED
    BY <1>1, <2>3, SaveBacked DEF SubmitPlan
<1>2. CASE SubmitImplementation(s)
  <2> DEFINE u == InvalidateEvidence([t EXCEPT !.policy = p])
  <2>1. Holds(s) /\ Permits(Graph, t.state, "implementation_submitted")
    BY <1>2 DEF SubmitImplementation
  <2>2. [t EXCEPT !.policy = p] \in Tasks /\ [t EXCEPT !.policy = p].resume # "complete"
    BY <1>a, <2>1, LoadedType, LoadedBacked DEF Tasks
  <2>3. u \in Tasks /\ Evidenced(u, passed, endorsed)
    BY <2>2, InvalidateType, InvalidateEvidenced
  <2>4. u.state = t.state
    BY <2>1, LoadedBacked DEF InvalidateEvidence, Tasks
  <2> HIDE DEF u
  <2>5. /\ Transition(Graph, u, "implementation_submitted") \in Tasks
        /\ Backed(Transition(Graph, u, "implementation_submitted"), passed, endorsed)
    BY <2>1, <2>3, <2>4, TransitionType, TransitionBacked DEF Actions
  <2>6. Backed(AfterImplementation(s), passed, endorsed)
    BY <2>5, BaselineBacked DEF AfterImplementation, u
  <2> QED
    BY <1>2, <2>6, SaveBacked DEF SubmitImplementation
<1>3. CASE VerifyPolicyChanged(s)
  <2> DEFINE u == [InvalidateEvidence(t) EXCEPT !.policy = p]
  <2>1. Holds(s) /\ Permits(Graph, t.state, "gate_failed")
    BY <1>3 DEF VerifyPolicyChanged
  <2>2. InvalidateEvidence(t) \in Tasks /\ Evidenced(InvalidateEvidence(t), passed, endorsed)
    BY <2>1, LoadedBacked, InvalidateType, InvalidateEvidenced
  <2>3. u \in Tasks /\ Evidenced(u, passed, endorsed)
    BY <1>a, <2>1, <2>2, LoadedType DEF Evidenced, Tasks
  <2>4. u.state = t.state
    BY <2>1, LoadedBacked DEF InvalidateEvidence, Tasks
  <2> HIDE DEF u
  <2>5. /\ Transition(Graph, u, "gate_failed") \in Tasks
        /\ Backed(Transition(Graph, u, "gate_failed"), passed, endorsed)
    BY <2>1, <2>3, <2>4, TransitionType, TransitionBacked DEF Actions
  <2>6. Backed(AfterPolicyChange(s), passed, endorsed)
    BY <2>5, BaselineBacked DEF AfterPolicyChange, u
  <2> QED
    BY <1>3, <2>6, SaveBacked DEF VerifyPolicyChanged
<1>4. CASE VerifyGatesRan(s)
  <2> DEFINE u == MergeReceipts(t, op[s].batch)
  <2>1. Holds(s) /\ Permits(Graph, t.state, GateAction(s))
    BY <1>4 DEF VerifyGatesRan
  <2>2. u \in Tasks
    BY <1>a, <2>1, LoadedType, MergeType
  <2>3. u.state = t.state /\ u.resume = t.resume /\ u.qa = t.qa
    BY <2>1, LoadedBacked DEF MergeReceipts, Tasks
  <2>4. ReceiptsBacked(op[s].batch, passed) /\ ReceiptsBacked(t.receipts, passed)
    BY <2>1, LoadedBacked DEF GenuineInv, OpBacked, Evidenced
  <2>5. \A g \in Gates : u.receipts[g] \in {op[s].batch[g], t.receipts[g]}
    BY <2>1, LoadedBacked DEF MergeReceipts, Tasks
  <2> HIDE DEF u
  <2>6. Evidenced(u, passed, endorsed)
    BY <2>1, <2>3, <2>4, <2>5, LoadedBacked DEF Evidenced, ReceiptsBacked
  <2>7. GateAction(s) \in Actions /\ GateAction(s) # "completed"
    BY DEF GateAction, Actions
  <2>8. /\ Transition(Graph, u, GateAction(s)) \in Tasks
        /\ Backed(Transition(Graph, u, GateAction(s)), passed, endorsed)
    BY <2>1, <2>2, <2>3, <2>6, <2>7, TransitionType, TransitionBacked
  <2>9. Backed(AfterGates(s), passed, endorsed)
    BY <2>8, BaselineBacked DEF AfterGates, u
  <2> QED
    BY <1>4, <2>9, SaveBacked DEF VerifyGatesRan
<1>5. CASE ReviewStale(s)
  <2> DEFINE u == InvalidateEvidence(t)
  <2>1. Holds(s) /\ Permits(Graph, t.state, "code_changed")
    BY <1>5 DEF ReviewStale
  <2>2. u \in Tasks /\ Evidenced(u, passed, endorsed)
    BY <2>1, LoadedBacked, InvalidateType, InvalidateEvidenced
  <2>3. u.state = t.state
    BY <2>1, LoadedBacked DEF InvalidateEvidence, Tasks
  <2> HIDE DEF u
  <2>4. Backed(AfterStaleReview(s), passed, endorsed)
    BY <2>1, <2>2, <2>3, TransitionBacked DEF Actions, AfterStaleReview, u
  <2> QED
    BY <1>5, <2>4, SaveBacked DEF ReviewStale
<1>6. CASE ReviewStands(s)
  <2> DEFINE o == [op[s] EXCEPT !.call = "record_qa", !.copy = None]
  <2>1. op[s] \in Operations /\ Holds(s) /\ op \in [Sessions -> Operations]
    BY <1>6 DEF ReviewStands, GenuineInv, TypeInv, TypeOK
  <2>2. passed' = passed /\ endorsed \subseteq endorsed' /\ task' = t
    BY <1>6 DEF ReviewStands
  <2>3. Backed(task', passed', endorsed')
    BY <2>1, <2>2, LoadedBacked, BackedGrows
  <2>4. op[s].verdict = "approved" => ApprovalBacked(op[s].actor, p, op[s].seen, endorsed')
    BY <1>6 DEF ReviewStands, MayReview, Independent, ApprovalBacked
  <2>5. /\ o.copy = None /\ o.batch = op[s].batch /\ o.actor = op[s].actor
        /\ o.seen = op[s].seen /\ o.verdict = op[s].verdict
    BY <2>1 DEF Operations
  <2>6. \A r \in Sessions : op'[r] = IF r = s THEN o ELSE op[r]
    BY <1>6, <2>1 DEF ReviewStands
  <2> HIDE DEF o
  <2>7. OpBacked(s, o, passed', endorsed')
    BY <2>2, <2>4, <2>5 DEF GenuineInv, OpBacked
  <2>8. \A r \in Sessions : OpBacked(r, op[r], passed', endorsed')
    BY <2>2, OpBackedGrows DEF GenuineInv
  <2>9. \A r \in Sessions : OpBacked(r, op'[r], passed', endorsed')
    BY <2>6, <2>7, <2>8
  <2> QED
    BY <2>3, <2>9 DEF GenuineInv
<1>7. CASE RecordQA(s)
  <2> DEFINE u == [t EXCEPT !.qa = Verdict(s)]
  <2>1. /\ Holds(s) /\ op[s].call = "record_qa"
        /\ Permits(Graph, t.state, VerdictAction(s))
    BY <1>7 DEF RecordQA
  <2>2. Verdict(s) \in QAVerdicts
    <3>1. op[s].seen \in Trees /\ op[s].verdict \in Verdicts
      BY <1>a, <2>1 DEF TypeInv, Shaped, Fingerprinted
    <3>2. op[s].actor \in Agents \cup {""}
      BY <1>a, <2>1, LoadedType DEF Operations
    <3> QED
      BY <1>a, <3>1, <3>2 DEF Verdict, QAVerdicts
  <2>3. u \in Tasks
    BY <2>1, <2>2, LoadedBacked DEF Tasks
  <2>4. /\ u.state = t.state /\ u.resume = t.resume
        /\ u.receipts = t.receipts /\ u.qa = Verdict(s)
    BY <2>1, LoadedBacked DEF Tasks
  <2>5. Verdict(s).verdict = "approved"
            => ApprovalBacked(Verdict(s).actor, Verdict(s).policy, Verdict(s).tree, endorsed)
    BY <2>1 DEF Verdict, GenuineInv, OpBacked
  <2> HIDE DEF u
  <2>6. Evidenced(u, passed, endorsed)
    BY <2>1, <2>4, <2>5, LoadedBacked DEF Evidenced
  <2>7. VerdictAction(s) \in Actions /\ VerdictAction(s) # "completed"
    BY DEF VerdictAction, Actions
  <2>8. /\ Transition(Graph, u, VerdictAction(s)) \in Tasks
        /\ Backed(Transition(Graph, u, VerdictAction(s)), passed, endorsed)
    BY <2>1, <2>3, <2>4, <2>6, <2>7, TransitionType, TransitionBacked
  <2>9. Backed(AfterReview(s), passed, endorsed)
    BY <2>8, BaselineBacked DEF AfterReview, u
  <2> QED
    BY <1>7, <2>9, SaveBacked DEF RecordQA
<1>8. CASE Complete(s)
  <2>1. Holds(s) /\ op[s].call = "complete" /\ EvidenceSuffices(t, p, op[s].seen)
    BY <1>8 DEF Complete
  <2>2. op[s].seen \in Trees
    BY <1>a, <2>1 DEF TypeInv, Shaped, Fingerprinted
  <2>3. Backed(Transition(Graph, t, "completed"), passed, endorsed)
    BY <1>a, <2>1, <2>2, LoadedBacked, CompletedBacked
  <2> QED
    BY <1>8, <2>3, SaveBacked DEF Complete
<1>9. CASE Block(s)
  BY <1>9, <1>b, SaveBacked DEF Block, Actions
<1>10. CASE Resume(s)
  BY <1>10, <1>b, SaveBacked DEF Resume, Actions
<1>11. CASE Cancel(s)
  BY <1>11, <1>b, SaveBacked DEF Cancel, Actions
<1> QED
  BY <1>1, <1>2, <1>3, <1>4, <1>5, <1>6, <1>7, <1>8, <1>9, <1>10, <1>11 DEF Mutate

\* A step that leaves the record alone and changes one session's operation.
LEMMA OnlyOpBacked ==
    ASSUME GenuineInv, TypeInv', NEW s \in Sessions, NEW o,
           op' = [op EXCEPT ![s] = o], task' = task,
           passed \subseteq passed', endorsed' = endorsed,
           OpBacked(s, o, passed', endorsed')
    PROVE  GenuineInv'
<1>1. op \in [Sessions -> Operations]
  BY DEF GenuineInv, TypeInv, TypeOK
<1>2. \A r \in Sessions : op'[r] = IF r = s THEN o ELSE op[r]
  BY <1>1
<1>3. Backed(task', passed', endorsed')
  BY BackedGrows DEF GenuineInv
<1>4. \A r \in Sessions : OpBacked(r, op[r], passed', endorsed')
  BY OpBackedGrows DEF GenuineInv
<1>5. \A r \in Sessions : OpBacked(r, op'[r], passed', endorsed')
  BY <1>2, <1>4
<1> QED
  BY <1>3, <1>5 DEF GenuineInv

\* A gate that succeeds on the tree it was started on really passed on it.
LEMMA FinishGateBacked ==
    ASSUME GenuineInv, TypeInv', NEW s \in Sessions, NEW exited \in BOOLEAN,
           FinishGate(s, exited)
    PROVE  GenuineInv'
<1> DEFINE p == PolicyOf[s]
           g == GatesFor[p][op[s].next]
           receipt == [success |-> classify(exited, op[s].seen, tree),
                       policy |-> p, tree |-> op[s].seen]
           o == [op[s] EXCEPT !.call = "gates", !.seen = None,
                              !.batch[g] = receipt, !.next = op[s].next + 1]
<1>1. op[s] \in Operations
  BY DEF GenuineInv, TypeInv, TypeOK
<1>2. op' = [op EXCEPT ![s] = o] /\ task' = task /\ endorsed' = endorsed
  BY DEF FinishGate
<1>3. passed \subseteq passed'
  BY DEF FinishGate
<1>4. receipt.success => <<receipt.policy, g, receipt.tree>> \in passed'
  BY DEF FinishGate, classify
<1>5. OpBacked(s, op[s], passed', endorsed')
  BY <1>2, <1>3, OpBackedGrows DEF GenuineInv
<1> HIDE DEF receipt, g
<1>6. /\ o.call = "gates" /\ o.copy = op[s].copy
      /\ o.batch = [op[s].batch EXCEPT ![g] = receipt]
  BY <1>1 DEF Operations
<1>7. ReceiptsBacked(o.batch, passed')
  BY <1>1, <1>4, <1>5, <1>6 DEF OpBacked, ReceiptsBacked, Operations
<1>8. OpBacked(s, o, passed', endorsed')
  BY <1>5, <1>6, <1>7 DEF OpBacked
<1> HIDE DEF o
<1> QED
  BY <1>2, <1>3, <1>8, OnlyOpBacked

\* An operation that gains no record, no receipt and no verdict to record.
LEMMA SameClaims ==
    ASSUME GenuineInv, NEW s \in Sessions, NEW o,
           o.copy = op[s].copy, o.batch = op[s].batch, o.call # "record_qa"
    PROVE  OpBacked(s, o, passed, endorsed)
  BY DEF GenuineInv, OpBacked

LEMMA RunGatesBacked ==
    ASSUME GenuineInv, TypeInv', NEW s \in Sessions, RunGates(s)
    PROVE  GenuineInv'
<1>1. op[s] \in Operations
  BY DEF GenuineInv, TypeInv, TypeOK
<1>2. CASE StartGate(s)
  <2> DEFINE o == [op[s] EXCEPT !.call = "gate", !.seen = tree]
  <2>1. o.copy = op[s].copy /\ o.batch = op[s].batch /\ o.call = "gate"
    BY <1>1 DEF Operations
  <2>2. op' = [op EXCEPT ![s] = o] /\ UNCHANGED <<task, passed, endorsed>>
    BY <1>2 DEF StartGate, history
  <2> HIDE DEF o
  <2> QED
    BY <2>1, <2>2, SameClaims, OnlyOpBacked
<1>3. CASE FinishBatch(s)
  <2> DEFINE o == [op[s] EXCEPT !.call = "gates_ran"]
  <2>1. o.copy = op[s].copy /\ o.batch = op[s].batch /\ o.call = "gates_ran"
    BY <1>1 DEF Operations
  <2>2. op' = [op EXCEPT ![s] = o] /\ UNCHANGED <<task, passed, endorsed>>
    BY <1>3 DEF FinishBatch, history
  <2> HIDE DEF o
  <2> QED
    BY <2>1, <2>2, SameClaims, OnlyOpBacked
<1>4. CASE LateFingerprint(s)
  <2> DEFINE o == [op[s] EXCEPT !.seen = tree]
  <2>1. o.copy = op[s].copy /\ o.batch = op[s].batch /\ o.call # "record_qa"
    BY <1>1, <1>4 DEF Operations, LateFingerprint, LateFingerprints
  <2>2. op' = [op EXCEPT ![s] = o] /\ UNCHANGED <<task, passed, endorsed>>
    BY <1>4 DEF LateFingerprint, history
  <2> HIDE DEF o
  <2> QED
    BY <2>1, <2>2, SameClaims, OnlyOpBacked
<1> QED
  BY <1>2, <1>3, <1>4, FinishGateBacked DEF RunGates

LEMMA CallAnyBacked ==
    ASSUME GenuineInv, TypeInv', NEW s \in Sessions, CallAny(s)
    PROVE  GenuineInv'
<1>1. ASSUME NEW name, NEW call, NEW actor, NEW seen, NEW verdict,
             call # "record_qa", Begin(s, name, call, actor, seen, verdict)
      PROVE  GenuineInv'
  <2> DEFINE o == [Idle EXCEPT !.call = call, !.actor = actor,
                               !.seen = seen, !.verdict = verdict]
  <2>1. o.copy = None /\ o.batch = NoReceipts /\ o.call = call
    BY DEF Idle
  <2>2. op' = [op EXCEPT ![s] = o] /\ UNCHANGED <<task, passed, endorsed>>
    BY <1>1 DEF Begin, history
  <2> HIDE DEF o
  <2>3. OpBacked(s, o, passed, endorsed)
    BY <1>1, <2>1 DEF OpBacked, NoReceipts, ReceiptsBacked
  <2> QED
    BY <2>2, <2>3, OnlyOpBacked
<1> QED
  BY <1>1 DEF CallAny, CallSubmit, CallControl, CallSubmitQA, CallVerify

LEMMA LoadBacked ==
    ASSUME GenuineInv, TypeInv', NEW s \in Sessions, Load(s)
    PROVE  GenuineInv'
<1> DEFINE o == [op[s] EXCEPT !.copy = task]
<1>1. op[s] \in Operations
  BY DEF GenuineInv, TypeInv, TypeOK
<1>2. /\ o.copy = task /\ o.batch = op[s].batch /\ o.call = op[s].call
      /\ o.actor = op[s].actor /\ o.seen = op[s].seen /\ o.verdict = op[s].verdict
  BY <1>1 DEF Operations
<1>3. op' = [op EXCEPT ![s] = o] /\ UNCHANGED <<task, passed, endorsed>>
  BY DEF Load, history
<1> HIDE DEF o
<1>4. OpBacked(s, o, passed, endorsed)
  BY <1>2 DEF GenuineInv, OpBacked
<1> QED
  BY <1>3, <1>4, OnlyOpBacked

LEMMA GenuineInit == Init => GenuineInv
<1> SUFFICES ASSUME Init
             PROVE  GenuineInv
  OBVIOUS
<1>1. PICK s \in Sessions, seen \in Trees : task = NewTask(PolicyOf[s], seen)
  BY DEF Init
<1>2. /\ task.resume = "" /\ task.receipts = NoReceipts /\ task.qa = None
      /\ task.state \in {"planning", "implementing"}
  BY <1>1 DEF NewTask, recordBaseline
<1>3. Backed(task, passed, endorsed)
  BY <1>2 DEF Backed, Evidenced, NoReceipts, ReceiptsBacked
<1>4. \A r \in Sessions : op[r] = Idle
  BY DEF Init
<1> QED
  BY <1>3, <1>4, InitType, IdleBacked DEF GenuineInv

LEMMA GenuineNext ==
    ASSUME OnlyCompletedCompletes
    PROVE  GenuineInv /\ [Next]_vars => GenuineInv'
<1> SUFFICES ASSUME GenuineInv, [Next]_vars
             PROVE  GenuineInv'
  OBVIOUS
<1>1. TypeInv'
  BY NextType DEF GenuineInv
<1>2. CASE Edit \/ UNCHANGED vars
  BY <1>1, <1>2 DEF Edit, vars, history, GenuineInv
<1>3. ASSUME NEW s \in Sessions, CallAny(s)
      PROVE  GenuineInv'
  BY <1>1, <1>3, CallAnyBacked
<1>4. ASSUME NEW s \in Sessions, RunGates(s)
      PROVE  GenuineInv'
  BY <1>1, <1>4, RunGatesBacked
<1>5. ASSUME NEW s \in Sessions, Load(s)
      PROVE  GenuineInv'
  BY <1>1, <1>5, LoadBacked
<1>6. ASSUME NEW s \in Sessions, Mutate(s)
      PROVE  GenuineInv'
  BY <1>1, <1>6, MutateBacked
<1>7. ASSUME NEW s \in Sessions, GiveUp(s)
      PROVE  GenuineInv'
  BY <1>1, <1>7, IdleBacked, OnlyOpBacked DEF GiveUp, history
<1> QED
  BY <1>2, <1>3, <1>4, <1>5, <1>6, <1>7 DEF Next

\* However many sessions in however many processes work on a task, under
\* whatever policies, with updates lost to one another and calls failing at
\* any point: a task that is complete was completed on a tree on which every
\* required gate of its policy passed and, when its policy asks for it, which a
\* reviewer other than the implementer approved (SubmitQA, Complete, RunGate).
THEOREM Genuineness ==
    ASSUME OnlyCompletedCompletes
    PROVE  Spec => []CompletionIsGenuine
<1>1. GenuineInv => CompletionIsGenuine
  BY DEF GenuineInv, Backed, GenuineBy, CompletionIsGenuine, Genuine
<1>2. Init => GenuineInv
  BY GenuineInit
<1>3. GenuineInv /\ [Next]_vars => GenuineInv'
  BY GenuineNext
<1> QED
  BY <1>1, <1>2, <1>3, PTL DEF Spec

\* The builtin graph is one of those the theorem is about.
LEMMA BuiltinOnlyCompletedCompletes ==
    Graph = builtinTransitions => OnlyCompletedCompletes
  BY DEF OnlyCompletedCompletes, builtinTransitions

-----------------------------------------------------------------------------
\* Within one process a task that has ended stays as it is.

OneProcess == \A s, r \in Sessions : ProcessOf[s] = ProcessOf[r]

\* The graph has no way out of the two ends, as the builtin one.
EndsAreFinal ==
    \A state \in {"complete", "cancelled"}, action \in Actions :
        ~Permits(Graph, state, action)

\* Inductive: the lock admits one holder, and its copy is the stored record.
SerialInv ==
    /\ TypeInv
    /\ \A s, r \in Sessions : Holds(s) /\ Holds(r) => s = r
    /\ \A s \in Sessions : Holds(s) => op[s].copy = task

\* A step after which one session holds nothing, and the others what they held.
LEMMA ReleaseSerial ==
    ASSUME SerialInv, TypeInv', NEW s \in Sessions, NEW o, o.copy = None,
           op' = [op EXCEPT ![s] = o], Holds(s) \/ task' = task
    PROVE  SerialInv'
<1>1. op \in [Sessions -> Operations]
  BY DEF SerialInv, TypeInv, TypeOK
<1>2. \A r \in Sessions : op'[r] = IF r = s THEN o ELSE op[r]
  BY <1>1
<1>3. \A r \in Sessions : Holds(r)' => r # s /\ Holds(r) /\ op'[r] = op[r]
  BY <1>2 DEF Holds
<1> QED
  BY <1>3 DEF SerialInv

\* A step that leaves the record and what everyone holds alone.
LEMMA KeepSerial ==
    ASSUME SerialInv, TypeInv', NEW s \in Sessions, NEW o, o.copy = op[s].copy,
           op' = [op EXCEPT ![s] = o], task' = task
    PROVE  SerialInv'
<1>1. op \in [Sessions -> Operations]
  BY DEF SerialInv, TypeInv, TypeOK
<1>2. \A r \in Sessions : op'[r].copy = op[r].copy
  BY <1>1
<1> QED
  BY <1>2 DEF SerialInv, Holds

LEMMA SerialNext ==
    ASSUME OneProcess
    PROVE  SerialInv /\ [Next]_vars => SerialInv'
<1> SUFFICES ASSUME SerialInv, [Next]_vars
             PROVE  SerialInv'
  OBVIOUS
<1>1. TypeInv' /\ op \in [Sessions -> Operations]
  BY NextType DEF SerialInv, TypeInv, TypeOK
<1>2. CASE Edit \/ UNCHANGED vars
  BY <1>1, <1>2 DEF Edit, vars, history, SerialInv, Holds
<1>3. ASSUME NEW s \in Sessions, CallAny(s)
      PROVE  SerialInv'
  <2>1. ASSUME NEW name, NEW call, NEW actor, NEW seen, NEW verdict,
               Begin(s, name, call, actor, seen, verdict)
        PROVE  SerialInv'
    <3> DEFINE o == [Idle EXCEPT !.call = call, !.actor = actor,
                                 !.seen = seen, !.verdict = verdict]
    <3>1. o.copy = None
      BY DEF Idle
    <3>2. op' = [op EXCEPT ![s] = o] /\ task' = task
      BY <2>1 DEF Begin
    <3> HIDE DEF o
    <3> QED
      BY <1>1, <3>1, <3>2, ReleaseSerial
  <2> QED
    BY <1>3, <2>1 DEF CallAny, CallSubmit, CallControl, CallSubmitQA, CallVerify
<1>4. ASSUME NEW s \in Sessions, RunGates(s)
      PROVE  SerialInv'
  <2>1. op[s] \in Operations
    BY <1>1
  <2>2. CASE StartGate(s)
    BY <1>1, <2>1, <2>2, KeepSerial DEF StartGate, Operations
  <2>3. CASE FinishBatch(s)
    BY <1>1, <2>1, <2>3, KeepSerial DEF FinishBatch, Operations
  <2>4. CASE LateFingerprint(s)
    BY <1>1, <2>1, <2>4, KeepSerial DEF LateFingerprint, Operations
  <2>5. ASSUME NEW exited \in BOOLEAN, FinishGate(s, exited)
        PROVE  SerialInv'
    BY <1>1, <2>1, <2>5, KeepSerial DEF FinishGate, Operations
  <2> QED
    BY <1>4, <2>2, <2>3, <2>4, <2>5 DEF RunGates
<1>5. ASSUME NEW s \in Sessions, Load(s)
      PROVE  SerialInv'
  <2>1. \A r \in Sessions : ~Holds(r)
    BY <1>5 DEF Load, OneProcess
  <2>2. \A r \in Sessions : r # s => op'[r] = op[r]
    BY <1>1, <1>5 DEF Load
  <2>3. op'[s].copy = task /\ task' = task
    BY <1>1, <1>5 DEF Load, Operations
  <2> QED
    BY <1>1, <2>1, <2>2, <2>3 DEF SerialInv, Holds
<1>6. ASSUME NEW s \in Sessions, Mutate(s)
      PROVE  SerialInv'
  <2>1. Holds(s)
    BY <1>6 DEF Mutate, Loaded, SubmitPlan, SubmitImplementation,
       VerifyPolicyChanged, VerifyGatesRan, ReviewStale, ReviewStands,
       RecordQA, Complete, Block, Resume, Cancel
  <2>2. CASE op' = [op EXCEPT ![s] = Idle]
    BY <1>1, <2>1, <2>2, ReleaseSerial DEF Idle
  <2>3. CASE ReviewStands(s)
    <3> DEFINE o == [op[s] EXCEPT !.call = "record_qa", !.copy = None]
    <3>1. o.copy = None
      BY <1>1 DEF Operations
    <3>2. op' = [op EXCEPT ![s] = o]
      BY <2>3 DEF ReviewStands
    <3> HIDE DEF o
    <3> QED
      BY <1>1, <2>1, <3>1, <3>2, ReleaseSerial
  <2> QED
    BY <1>6, <2>2, <2>3 DEF Mutate, Save, SubmitPlan, SubmitImplementation,
       VerifyPolicyChanged, VerifyGatesRan, ReviewStale, RecordQA, Complete,
       Block, Resume, Cancel
<1>7. ASSUME NEW s \in Sessions, GiveUp(s)
      PROVE  SerialInv'
  BY <1>1, <1>7, ReleaseSerial DEF GiveUp, Idle
<1> QED
  BY <1>2, <1>3, <1>4, <1>5, <1>6, <1>7 DEF Next

LEMMA SerialInit == Init => SerialInv
<1> SUFFICES ASSUME Init
             PROVE  SerialInv
  OBVIOUS
<1>1. \A s \in Sessions : ~Holds(s)
  BY DEF Init, Holds, Idle
<1> QED
  BY <1>1, InitType DEF SerialInv

\* Under a lock that everyone shares, a call that was in flight when the task
\* was completed or cancelled, a gate run of an hour among them, finds that out
\* and changes nothing (Update, Transition).
THEOREM EndIsFinal ==
    ASSUME OneProcess, EndsAreFinal
    PROVE  Spec => TerminalIsFinal
<1>1. SerialInv /\ [Next]_vars
         => [task.state \in {"complete", "cancelled"} => task' = task]_vars
  <2> SUFFICES ASSUME SerialInv, Next, task.state \in {"complete", "cancelled"}
               PROVE  task' = task
    BY DEF vars
  <2>1. CASE Edit
    BY <2>1 DEF Edit
  <2>2. ASSUME NEW s \in Sessions, CallAny(s) \/ RunGates(s) \/ Load(s) \/ GiveUp(s)
        PROVE  task' = task
    BY <2>2 DEF CallAny, CallSubmit, CallControl, CallSubmitQA, CallVerify, Begin,
       RunGates, StartGate, FinishGate, FinishBatch, LateFingerprint, Load, GiveUp
  <2>3. ASSUME NEW s \in Sessions, Mutate(s)
        PROVE  task' = task
    <3>1. Holds(s) => op[s].copy = task
      BY DEF SerialInv
    <3>2. GateAction(s) \in Actions /\ VerdictAction(s) \in Actions
      BY DEF GateAction, VerdictAction, Actions
    <3>3. CASE ReviewStands(s)
      BY <3>1, <3>3 DEF ReviewStands, Loaded
    <3>4. \A action \in Actions : Holds(s) => ~Permits(Graph, op[s].copy.state, action)
      BY <3>1 DEF EndsAreFinal
    <3> QED
      BY <2>3, <3>2, <3>3, <3>4 DEF Mutate, Loaded, Actions, SubmitPlan,
         SubmitImplementation, VerifyPolicyChanged, VerifyGatesRan, ReviewStale,
         RecordQA, Complete, Block, Resume, Cancel
  <2> QED
    BY <2>1, <2>2, <2>3 DEF Next
<1>2. SerialInv /\ [Next]_vars => SerialInv'
  BY SerialNext
<1> QED
  BY <1>1, <1>2, SerialInit, PTL DEF Spec, TerminalIsFinal

-----------------------------------------------------------------------------
(***************************************************************************)
(* What the record holds fits its stage, and what happens to it is what    *)
(* TaskPromise promises.                                                   *)
(*                                                                         *)
(* The first two theorems speak of one record alone, so that they are      *)
(* proved of every record in existence.  The promise is about the one      *)
(* stored record, and needs the lock.                                      *)
(***************************************************************************)

(***************************************************************************)
(* What the theorems ask of the graph.                                     *)
(***************************************************************************)

\* Parking and reopening: a task is parked by blocked alone and reopened by
\* resumed alone.
ParksOnce(state, action, target) ==
    /\ action = "blocked" <=> target = "blocked"
    /\ action = "blocked" => activeState(state) # ""
    /\ action = "resumed" => state = "blocked"

\* The actions that record no baseline stay clear of the editing stages.
EditsRecorded(state, action, target) ==
    /\ action \in {"code_changed", "completed"} =>
          state # "blocked" /\ ~IsEditingState(state)
    /\ action \in {"code_changed", "completed", "resumed"} => ~IsEditingState(target)

\* Each stage that rests on evidence is entered by the action that brings it.
EvidenceBrought(state, action, target) ==
    /\ target = "verifying" => action \in {"implementation_submitted", "code_changed"}
    /\ target = "qa_review" => state = "verifying" /\ action = "gates_verified"
    /\ target = "changes_requested" => action = "qa_rejected"
    /\ target = "ready_to_complete" => state = "qa_review" /\ action = "qa_approved"
    /\ target = "complete" => state = "ready_to_complete" /\ action = "completed"

Orderly ==
    \A state \in DOMAIN Graph : \A action \in DOMAIN Graph[state] :
        LET target == Graph[state][action]
        IN  /\ state # "cancelled"
            /\ action = "cancelled" => target = "cancelled"
            /\ ParksOnce(state, action, target)
            /\ EditsRecorded(state, action, target)
            /\ EvidenceBrought(state, action, target)

\* The builtin graph is one of those the theorems are about.
LEMMA BuiltinOrderly == Graph = builtinTransitions => Orderly
<1> SUFFICES ASSUME Graph = builtinTransitions,
                    NEW state \in DOMAIN Graph, NEW action \in DOMAIN Graph[state]
             PROVE  /\ state # "cancelled"
                    /\ action = "cancelled" => Graph[state][action] = "cancelled"
                    /\ ParksOnce(state, action, Graph[state][action])
                    /\ EditsRecorded(state, action, Graph[state][action])
                    /\ EvidenceBrought(state, action, Graph[state][action])
  BY DEF Orderly
<1>1. state \in {"planning", "implementing", "verifying", "qa_review",
                 "changes_requested", "ready_to_complete", "blocked"}
  BY DEF builtinTransitions
<1> USE DEF ParksOnce, EditsRecorded, EvidenceBrought, activeState, IsEditingState,
            builtinTransitions
<1>2. CASE state = "planning"
  BY <1>2
<1>3. CASE state = "implementing"
  BY <1>3
<1>4. CASE state = "verifying"
  BY <1>4
<1>5. CASE state = "qa_review"
  BY <1>5
<1>6. CASE state = "changes_requested"
  BY <1>6
<1>7. CASE state = "ready_to_complete"
  BY <1>7
<1>8. CASE state = "blocked"
  BY <1>8
<1> QED
  BY <1>1, <1>2, <1>3, <1>4, <1>5, <1>6, <1>7, <1>8

-----------------------------------------------------------------------------
(***************************************************************************)
(* The invariant.                                                          *)
(***************************************************************************)

\* One policy all of whose required gates that verification runs have passed.
ProvenUnderOne(receipts) ==
    \E p \in Policies : \A i \in DOMAIN GatesFor[p] :
        LET r == receipts[GatesFor[p][i]]
        IN  GatesFor[p][i] \in RequiredGates[p] => r # None /\ r.success /\ r.policy = p

EvidenceAt(stage, receipts, qa) ==
    /\ stage = "verifying" => receipts = NoReceipts
    /\ stage \in {"verifying", "qa_review"} => qa = None
    /\ stage \in {"qa_review", "ready_to_complete", "complete"} => ProvenUnderOne(receipts)
    /\ stage = "changes_requested" => qa # None /\ qa.verdict = "rejected"
    /\ stage \in {"ready_to_complete", "complete"} => qa # None /\ qa.verdict = "approved"

BaselineAt(t) ==
    t.state # "cancelled" => (t.baseline # None <=> IsEditingState(Stage(t)))

Right(t) == EvidenceAt(Stage(t), t.receipts, t.qa) /\ BaselineAt(t)

\* What an operation o of session s carries: a record that fits, the late
\* fingerprint before it holds one, and the receipts of the gates it ran.
OpRight(s, o) ==
    LET p == PolicyOf[s]
    IN  /\ o.copy # None => Right(o.copy)
        /\ o.copy # None /\ o.call \in LateFingerprints => o.seen \in Trees
        /\ o.call \in {"gates", "gate"} => o.copy = None
        /\ \A g \in Gates : o.batch[g] # None => o.batch[g].policy = p
        /\ \A i \in DOMAIN GatesFor[p] : i < o.next => o.batch[GatesFor[p][i]] # None
        /\ o.call = "gates_ran" =>
              \/ o.next > Len(GatesFor[p])
              \/ \E g \in RequiredGates[p] : o.batch[g] # None /\ ~o.batch[g].success

RecordInv ==
    /\ TypeInv
    /\ Right(task)
    /\ \A s \in Sessions : OpRight(s, op[s])

-----------------------------------------------------------------------------
(***************************************************************************)
(* Transitions of a record.                                                *)
(***************************************************************************)

\* What the graph does with a permitted action.
LEMMA Moves ==
    ASSUME Orderly, NEW t, NEW action, Permits(Graph, t.state, action)
    PROVE  LET target == Graph[t.state][action]
           IN  /\ t.state # "cancelled"
               /\ action = "cancelled" => target = "cancelled"
               /\ ParksOnce(t.state, action, target)
               /\ EditsRecorded(t.state, action, target)
               /\ EvidenceBrought(t.state, action, target)
  BY DEF Orderly, Permits

LEMMA TransitionFields ==
    ASSUME NEW t \in Tasks, NEW action
    PROVE  LET u == Transition(Graph, t, action)
           IN  /\ u.state = Target(Graph, t, action)
               /\ u.resume = ResumeAfter(t, action)
               /\ u.receipts = t.receipts /\ u.qa = t.qa /\ u.baseline = t.baseline
  BY DEF Transition, Tasks

\* A stage is opened on the tree that was seen, with the evidence it asks for.
LEMMA OpenedRight ==
    ASSUME Orderly, NEW t \in Tasks, NEW action \in Actions \ {"blocked", "resumed"},
           Permits(Graph, t.state, action), NEW seen \in Trees,
           EvidenceAt(Graph[t.state][action], t.receipts, t.qa)
    PROVE  Right(recordBaseline(Transition(Graph, t, action), seen))
<1> DEFINE target == Graph[t.state][action]
           u == Transition(Graph, t, action)
           v == recordBaseline(u, seen)
<1>1. u \in Tasks /\ u.state = target /\ u.receipts = t.receipts /\ u.qa = t.qa
  BY TransitionType, TransitionFields DEF Target
<1>2. target # "blocked"
  BY Moves DEF ParksOnce
<1> HIDE DEF u, target
<1>3. /\ v.state = target /\ v.receipts = t.receipts /\ v.qa = t.qa
      /\ v.baseline = IF IsEditingState(target) THEN seen ELSE None
  BY <1>1 DEF recordBaseline, Tasks
<1> HIDE DEF v
<1>4. Stage(v) = target
  BY <1>2, <1>3 DEF Stage
<1>5. Right(v)
  BY <1>3, <1>4, NoneAssumption DEF Right, BaselineAt, target
<1> QED
  BY <1>5 DEF v, u

\* A task that is not being edited moves on, and no baseline is recorded.
LEMMA MovedRight ==
    ASSUME Orderly, NEW t \in Tasks, NEW action \in {"code_changed", "completed"},
           Permits(Graph, t.state, action), BaselineAt(t),
           EvidenceAt(Graph[t.state][action], t.receipts, t.qa)
    PROVE  Right(Transition(Graph, t, action))
<1> DEFINE target == Graph[t.state][action]
           u == Transition(Graph, t, action)
<1>1. u.state = target /\ u.receipts = t.receipts /\ u.qa = t.qa /\ u.baseline = t.baseline
  BY TransitionFields DEF Target
<1>2. target # "blocked" /\ ~IsEditingState(target)
  BY Moves DEF ParksOnce, EditsRecorded
<1>3. t.state \notin {"blocked", "cancelled"} /\ ~IsEditingState(t.state)
  BY Moves DEF EditsRecorded
<1>4. t.baseline = None
  BY <1>3 DEF BaselineAt, Stage
<1> HIDE DEF u, target
<1>5. Stage(u) = target
  BY <1>1, <1>2 DEF Stage
<1>6. Right(u)
  BY <1>1, <1>2, <1>4, <1>5 DEF Right, BaselineAt, target
<1> QED
  BY <1>6 DEF u

\* Parking keeps the stage, and reopening returns to it.
LEMMA BlockedRight ==
    ASSUME Orderly, NEW t \in Tasks, Permits(Graph, t.state, "blocked"), Right(t)
    PROVE  Right(Transition(Graph, t, "blocked"))
<1> DEFINE u == Transition(Graph, t, "blocked")
<1>1. Graph[t.state]["blocked"] = "blocked" /\ activeState(t.state) # "" /\ t.state # "cancelled"
  BY Moves DEF ParksOnce
<1>2. u.state = "blocked" /\ u.resume = t.state
  BY <1>1, TransitionFields DEF Target, ResumeAfter, activeState
<1>3. u.receipts = t.receipts /\ u.qa = t.qa /\ u.baseline = t.baseline
  BY TransitionFields
<1>4. Stage(t) = t.state
  BY <1>1 DEF Stage, activeState
<1> HIDE DEF u
<1>5. Right(u)
  BY <1>1, <1>2, <1>3, <1>4 DEF Right, BaselineAt, Stage
<1> QED
  BY <1>5 DEF u

LEMMA ResumedRight ==
    ASSUME Orderly, NEW t \in Tasks, Permits(Graph, t.state, "resumed"), Right(t)
    PROVE  Right(Transition(Graph, t, "resumed"))
<1> DEFINE target == Graph[t.state]["resumed"]
           u == Transition(Graph, t, "resumed")
<1>1. t.state = "blocked" /\ Stage(t) = t.resume
  BY Moves DEF ParksOnce, Stage
<1>2. u.resume = "" /\ u.receipts = t.receipts /\ u.qa = t.qa /\ u.baseline = t.baseline
  BY TransitionFields DEF ResumeAfter
<1>3. u.state = IF t.resume # "" THEN t.resume ELSE target
  BY TransitionFields DEF Target
<1>4. t.baseline # None <=> IsEditingState(t.resume)
  BY <1>1 DEF Right, BaselineAt
<1>5. CASE t.resume # "" /\ t.resume # "blocked"
  <2>1. Stage(u) = t.resume
    BY <1>3, <1>5 DEF Stage
  <2> QED
    BY <1>1, <1>2, <1>4, <2>1 DEF Right, BaselineAt
<1>6. CASE t.resume = "blocked"
  <2>1. Stage(u) = ""
    BY <1>2, <1>3, <1>6 DEF Stage
  <2> QED
    BY <1>2, <1>4, <1>6, <2>1 DEF Right, BaselineAt, EvidenceAt, IsEditingState
<1>7. CASE t.resume = ""
  <2>1. /\ target \notin {"blocked", "verifying", "qa_review", "changes_requested",
                          "ready_to_complete", "complete"}
        /\ ~IsEditingState(target)
    BY Moves DEF ParksOnce, EvidenceBrought, EditsRecorded
  <2>2. Stage(u) = target
    BY <1>3, <1>7, <2>1 DEF Stage
  <2> QED
    BY <1>2, <1>4, <1>7, <2>1, <2>2 DEF Right, BaselineAt, EvidenceAt, IsEditingState
<1> QED
  BY <1>5, <1>6, <1>7

LEMMA CancelledRight ==
    ASSUME Orderly, NEW t \in Tasks, Permits(Graph, t.state, "cancelled")
    PROVE  Right(Transition(Graph, t, "cancelled"))
<1>1. Graph[t.state]["cancelled"] = "cancelled"
  BY Moves
<1>2. Transition(Graph, t, "cancelled").state = "cancelled"
  BY <1>1, TransitionFields DEF Target
<1> QED
  BY <1>2 DEF Right, BaselineAt, EvidenceAt, Stage

-----------------------------------------------------------------------------
(***************************************************************************)
(* Operations.                                                             *)
(***************************************************************************)

LEMMA IdleRight == \A s \in Sessions : OpRight(s, Idle)
<1> SUFFICES ASSUME NEW s \in Sessions
             PROVE  OpRight(s, Idle)
  OBVIOUS
<1>1. GatesFor[PolicyOf[s]] \in Seq(Gates)
  BY SessionAssumption, PolicyAssumption
<1>2. \A i \in DOMAIN GatesFor[PolicyOf[s]] : ~(i < 1)
  BY <1>1
<1> QED
  BY <1>2 DEF OpRight, Idle, NoReceipts, LateFingerprints

\* One session's operation is replaced, and the record by one that fits.
LEMMA StepRight ==
    ASSUME RecordInv, TypeInv', NEW s \in Sessions, NEW o, OpRight(s, o),
           op' = [op EXCEPT ![s] = o], Right(task')
    PROVE  RecordInv'
<1>1. op \in [Sessions -> Operations]
  BY DEF RecordInv, TypeInv, TypeOK
<1>2. \A r \in Sessions : op'[r] = IF r = s THEN o ELSE op[r]
  BY <1>1
<1>3. \A r \in Sessions : OpRight(r, op'[r])
  BY <1>2 DEF RecordInv
<1> QED
  BY <1>3 DEF RecordInv

LEMMA SaveRight ==
    ASSUME RecordInv, TypeInv', NEW s \in Sessions, NEW updated,
           Right(updated), Save(s, updated)
    PROVE  RecordInv'
  BY IdleRight, StepRight DEF Save

\* What a session that holds a record knows of it.
LEMMA LoadedRight ==
    ASSUME RecordInv, NEW s \in Sessions, Holds(s)
    PROVE  /\ op[s].copy \in Tasks
           /\ Right(op[s].copy)
           /\ op[s].call \in Fingerprinted \cup LateFingerprints => op[s].seen \in Trees
<1>1. op[s].copy \in Tasks
  BY LoadedType DEF RecordInv
<1>2. Right(op[s].copy)
  BY DEF RecordInv, OpRight, Holds
<1>3. op[s].call \in LateFingerprints => op[s].seen \in Trees
  BY DEF RecordInv, OpRight, Holds
<1> QED
  BY <1>1, <1>2, <1>3 DEF RecordInv, TypeInv, Shaped

LEMMA SubmitPlanRight ==
    ASSUME Orderly, RecordInv, TypeInv', NEW s \in Sessions, SubmitPlan(s)
    PROVE  RecordInv'
<1> DEFINE t == op[s].copy
           target == Graph[t.state]["plan_submitted"]
<1>1. Holds(s) /\ op[s].call = "submit_plan" /\ Permits(Graph, t.state, "plan_submitted")
  BY DEF SubmitPlan, Loaded
<1>2. t \in Tasks /\ op[s].seen \in Trees
  BY <1>1, LoadedRight DEF Fingerprinted
<1>3. EvidenceAt(target, t.receipts, t.qa)
  BY <1>1, Moves DEF EvidenceBrought, EvidenceAt
<1> HIDE DEF t, target
<1>4. Right(AfterPlan(s))
  BY <1>1, <1>2, <1>3, OpenedRight DEF AfterPlan, Actions, t, target
<1> QED
  BY <1>4, SaveRight DEF SubmitPlan

LEMMA SubmitImplementationRight ==
    ASSUME Orderly, RecordInv, TypeInv', NEW s \in Sessions, SubmitImplementation(s)
    PROVE  RecordInv'
<1> DEFINE t == op[s].copy
           u == InvalidateEvidence([t EXCEPT !.policy = PolicyOf[s]])
           target == Graph[u.state]["implementation_submitted"]
<1>1. /\ Holds(s)
      /\ op[s].call = "submit_implementation"
      /\ Permits(Graph, t.state, "implementation_submitted")
  BY DEF SubmitImplementation, Loaded
<1>2. t \in Tasks /\ op[s].seen \in Trees
  BY <1>1, LoadedRight DEF Fingerprinted
<1>3. [t EXCEPT !.policy = PolicyOf[s]] \in Tasks
  BY <1>1, LoadedType DEF RecordInv
<1>4. u \in Tasks /\ u.state = t.state /\ u.receipts = NoReceipts /\ u.qa = None
  BY <1>2, <1>3, InvalidateType DEF InvalidateEvidence, Tasks
<1> HIDE DEF u
<1>5. EvidenceAt(target, u.receipts, u.qa)
  BY <1>1, <1>4, Moves DEF EvidenceBrought, EvidenceAt
<1> HIDE DEF t, target
<1>6. Right(AfterImplementation(s))
  BY <1>1, <1>2, <1>4, <1>5, OpenedRight DEF AfterImplementation, Actions, t, u, target
<1> QED
  BY <1>6, SaveRight DEF SubmitImplementation

LEMMA VerifyPolicyChangedRight ==
    ASSUME Orderly, RecordInv, TypeInv', NEW s \in Sessions, VerifyPolicyChanged(s)
    PROVE  RecordInv'
<1> DEFINE t == op[s].copy
           u == [InvalidateEvidence(t) EXCEPT !.policy = PolicyOf[s]]
           target == Graph[u.state]["gate_failed"]
<1>1. Holds(s) /\ op[s].call = "policy_changed" /\ Permits(Graph, t.state, "gate_failed")
  BY DEF VerifyPolicyChanged, Loaded
<1>2. t \in Tasks /\ op[s].seen \in Trees
  BY <1>1, LoadedRight DEF LateFingerprints
<1>3. u \in Tasks /\ u.state = t.state
  BY <1>1, <1>2, LoadedType DEF RecordInv, InvalidateEvidence, Tasks
<1> HIDE DEF u
<1>4. EvidenceAt(target, u.receipts, u.qa)
  BY <1>1, <1>3, Moves DEF EvidenceBrought, EvidenceAt
<1> HIDE DEF t, target
<1>5. Right(AfterPolicyChange(s))
  BY <1>1, <1>2, <1>3, <1>4, OpenedRight DEF AfterPolicyChange, Actions, t, u, target
<1> QED
  BY <1>5, SaveRight DEF VerifyPolicyChanged

\* The batch of a verification that did not fail proves its gates by itself,
\* whatever the record it is merged into says.
LEMMA BatchProves ==
    ASSUME RecordInv, NEW s \in Sessions, Holds(s), op[s].call = "gates_ran", ~FailedGate(s)
    PROVE  ProvenUnderOne(MergeReceipts(op[s].copy, op[s].batch).receipts)
<1> DEFINE p == PolicyOf[s]
           u == MergeReceipts(op[s].copy, op[s].batch)
<1>1. p \in Policies /\ GatesFor[p] \in Seq(Gates)
  BY SessionAssumption, PolicyAssumption
<1>2. OpRight(s, op[s]) /\ op[s].copy \in Tasks /\ op[s] \in Operations
  BY LoadedRight DEF RecordInv, TypeInv, TypeOK
<1>3. op[s].next > Len(GatesFor[p]) /\ op[s].next \in Nat
  BY <1>2 DEF OpRight, FailedGate, Operations
<1>4. ASSUME NEW i \in DOMAIN GatesFor[p], GatesFor[p][i] \in RequiredGates[p]
      PROVE  LET r == u.receipts[GatesFor[p][i]]
             IN  r # None /\ r.success /\ r.policy = p
  <2> DEFINE g == GatesFor[p][i]
  <2>1. i \in 1..Len(GatesFor[p]) /\ g \in Gates
    BY <1>1
  <2>2. i < op[s].next
    BY <1>3, <2>1
  <2>3. op[s].batch[g] # None
    BY <1>2, <2>2 DEF OpRight
  <2>4. op[s].batch[g].success /\ op[s].batch[g].policy = p
    BY <1>2, <1>4, <2>1, <2>3 DEF OpRight, FailedGate
  <2>5. u.receipts[g] = op[s].batch[g]
    BY <1>2, <2>1, <2>3 DEF MergeReceipts, Tasks
  <2> QED
    BY <2>3, <2>4, <2>5
<1> QED
  BY <1>1, <1>4 DEF ProvenUnderOne

LEMMA VerifyGatesRanRight ==
    ASSUME Orderly, RecordInv, TypeInv', NEW s \in Sessions, VerifyGatesRan(s)
    PROVE  RecordInv'
<1> DEFINE t == op[s].copy
           u == MergeReceipts(t, op[s].batch)
           target == Graph[u.state][GateAction(s)]
<1>1. Holds(s) /\ op[s].call = "gates_ran" /\ Permits(Graph, t.state, GateAction(s))
  BY DEF VerifyGatesRan, Loaded
<1>2. t \in Tasks /\ Right(t) /\ op[s].seen \in Trees
  BY <1>1, LoadedRight DEF LateFingerprints
<1>3. u \in Tasks
  BY <1>1, <1>2, LoadedType, MergeType DEF RecordInv
<1>4. u.state = t.state /\ u.qa = t.qa
  BY <1>2 DEF MergeReceipts, Tasks
<1>5. GateAction(s) \in {"gate_failed", "gates_verified"}
  BY DEF GateAction
<1>6. ~FailedGate(s) => ProvenUnderOne(u.receipts)
  BY <1>1, BatchProves
<1> HIDE DEF u
<1>7. target = "qa_review" => t.state = "verifying" /\ ~FailedGate(s)
  BY <1>1, <1>4, Moves DEF EvidenceBrought, GateAction
<1>8. t.state = "verifying" => t.qa = None
  BY <1>2 DEF Right, EvidenceAt, Stage
<1>9. target \notin {"verifying", "changes_requested", "ready_to_complete", "complete"}
  BY <1>1, <1>4, <1>5, Moves DEF EvidenceBrought
<1>10. EvidenceAt(target, u.receipts, u.qa)
  BY <1>4, <1>6, <1>7, <1>8, <1>9 DEF EvidenceAt
<1> HIDE DEF t, target
<1>11. Right(AfterGates(s))
  BY <1>1, <1>2, <1>3, <1>4, <1>5, <1>10, OpenedRight DEF AfterGates, Actions, t, u, target
<1> QED
  BY <1>11, SaveRight DEF VerifyGatesRan

LEMMA ReviewStaleRight ==
    ASSUME Orderly, RecordInv, TypeInv', NEW s \in Sessions, ReviewStale(s)
    PROVE  RecordInv'
<1> DEFINE t == op[s].copy
           u == InvalidateEvidence(t)
           target == Graph[u.state]["code_changed"]
<1>1. Holds(s) /\ Permits(Graph, t.state, "code_changed")
  BY DEF ReviewStale, Loaded
<1>2. t \in Tasks /\ Right(t)
  BY <1>1, LoadedRight
<1>3. /\ u \in Tasks /\ u.receipts = NoReceipts /\ u.qa = None
      /\ u.state = t.state /\ u.resume = t.resume /\ u.baseline = t.baseline
  BY <1>2, InvalidateType DEF InvalidateEvidence, Tasks
<1> HIDE DEF u
<1>4. BaselineAt(u)
  BY <1>2, <1>3 DEF Right, BaselineAt, Stage
<1>5. EvidenceAt(target, u.receipts, u.qa)
  BY <1>1, <1>3, Moves DEF EvidenceBrought, EvidenceAt
<1> HIDE DEF t, target
<1>6. Right(AfterStaleReview(s))
  BY <1>1, <1>3, <1>4, <1>5, MovedRight DEF AfterStaleReview, t, u, target
<1> QED
  BY <1>6, SaveRight DEF ReviewStale

LEMMA ReviewStandsRight ==
    ASSUME RecordInv, TypeInv', NEW s \in Sessions, ReviewStands(s)
    PROVE  RecordInv'
<1> DEFINE o == [op[s] EXCEPT !.call = "record_qa", !.copy = None]
<1>1. Holds(s) /\ op[s] \in Operations /\ OpRight(s, op[s])
  BY DEF ReviewStands, Loaded, RecordInv, TypeInv, TypeOK
<1>2. /\ o.copy = None /\ o.batch = op[s].batch /\ o.next = op[s].next
      /\ o.call = "record_qa"
  BY <1>1 DEF Operations
<1>3. op' = [op EXCEPT ![s] = o] /\ task' = op[s].copy
  BY DEF ReviewStands
<1> HIDE DEF o
<1>4. OpRight(s, o)
  BY <1>1, <1>2 DEF OpRight
<1> QED
  BY <1>1, <1>3, <1>4, LoadedRight, StepRight

\* The second update of SubmitQA looks at nothing but the state: that is
\* enough, since only a review stage permits its verdict.
LEMMA RecordQARight ==
    ASSUME Orderly, RecordInv, TypeInv', NEW s \in Sessions, RecordQA(s)
    PROVE  RecordInv'
<1> DEFINE t == op[s].copy
           u == [t EXCEPT !.qa = Verdict(s)]
           target == Graph[u.state][VerdictAction(s)]
<1>1. Holds(s) /\ op[s].call = "record_qa" /\ Permits(Graph, t.state, VerdictAction(s))
  BY DEF RecordQA, Loaded
<1>2. t \in Tasks /\ Right(t) /\ op[s].seen \in Trees /\ op[s].verdict \in Verdicts
  BY <1>1, LoadedRight DEF Fingerprinted, RecordInv, TypeInv, Shaped
<1>3. Verdict(s) \in QAVerdicts
  BY <1>1, <1>2, LoadedType DEF Verdict, QAVerdicts, Operations, RecordInv
<1>4. u \in Tasks /\ u.state = t.state /\ u.receipts = t.receipts /\ u.qa = Verdict(s)
  BY <1>2, <1>3 DEF Tasks
<1>5. VerdictAction(s) \in {"qa_rejected", "qa_approved"}
  BY DEF VerdictAction
<1>6. Verdict(s) # None /\ Verdict(s).verdict = op[s].verdict
  BY <1>3, NoneAssumption DEF Verdict
<1> HIDE DEF u
<1>7. target = "changes_requested" => op[s].verdict = "rejected"
  BY <1>1, <1>4, Moves DEF EvidenceBrought, VerdictAction
<1>8. target = "ready_to_complete" => t.state = "qa_review" /\ op[s].verdict = "approved"
  BY <1>1, <1>2, <1>4, Moves DEF EvidenceBrought, VerdictAction, Verdicts
<1>9. t.state = "qa_review" => ProvenUnderOne(t.receipts)
  BY <1>2 DEF Right, EvidenceAt, Stage
<1>10. target \notin {"verifying", "qa_review", "complete"}
  BY <1>1, <1>4, <1>5, Moves DEF EvidenceBrought
<1>11. EvidenceAt(target, u.receipts, u.qa)
  BY <1>4, <1>6, <1>7, <1>8, <1>9, <1>10 DEF EvidenceAt
<1> HIDE DEF t, target
<1>12. Right(AfterReview(s))
  BY <1>1, <1>2, <1>4, <1>5, <1>11, OpenedRight DEF AfterReview, Actions, t, u, target
<1> QED
  BY <1>12, SaveRight DEF RecordQA

LEMMA CompleteRight ==
    ASSUME Orderly, RecordInv, TypeInv', NEW s \in Sessions, Complete(s)
    PROVE  RecordInv'
<1> DEFINE t == op[s].copy
           target == Graph[t.state]["completed"]
<1>1. Holds(s) /\ Permits(Graph, t.state, "completed")
  BY DEF Complete, Loaded
<1>2. t \in Tasks /\ Right(t)
  BY <1>1, LoadedRight
<1>3. target = "complete" => Stage(t) = "ready_to_complete"
  BY <1>1, Moves DEF EvidenceBrought, Stage
<1>4. target \notin {"verifying", "qa_review", "changes_requested", "ready_to_complete"}
  BY <1>1, Moves DEF EvidenceBrought
<1>5. EvidenceAt(target, t.receipts, t.qa) /\ BaselineAt(t)
  BY <1>2, <1>3, <1>4 DEF Right, EvidenceAt
<1> HIDE DEF t, target
<1>6. Right(Transition(Graph, t, "completed"))
  BY <1>1, <1>2, <1>5, MovedRight DEF t, target
<1> QED
  BY <1>6, SaveRight DEF Complete, t

LEMMA ControlRight ==
    ASSUME Orderly, RecordInv, TypeInv', NEW s \in Sessions,
           Block(s) \/ Resume(s) \/ Cancel(s)
    PROVE  RecordInv'
<1>1. Holds(s)
  BY DEF Block, Resume, Cancel, Loaded
<1>2. op[s].copy \in Tasks /\ Right(op[s].copy)
  BY <1>1, LoadedRight
<1>3. CASE Block(s)
  BY <1>2, <1>3, BlockedRight, SaveRight DEF Block
<1>4. CASE Resume(s)
  BY <1>2, <1>4, ResumedRight, SaveRight DEF Resume
<1>5. CASE Cancel(s)
  BY <1>2, <1>5, CancelledRight, SaveRight DEF Cancel
<1> QED
  BY <1>3, <1>4, <1>5

LEMMA FinishGateRight ==
    ASSUME RecordInv, TypeInv', NEW s \in Sessions, NEW exited \in BOOLEAN,
           FinishGate(s, exited)
    PROVE  RecordInv'
<1> DEFINE p == PolicyOf[s]
           g == GatesFor[p][op[s].next]
           receipt == [success |-> classify(exited, op[s].seen, tree),
                       policy |-> p, tree |-> op[s].seen]
           o == [op[s] EXCEPT !.call = "gates", !.seen = None,
                              !.batch[g] = receipt, !.next = op[s].next + 1]
<1>1. op[s] \in Operations /\ OpRight(s, op[s]) /\ op[s].call = "gate"
  BY DEF FinishGate, RecordInv, TypeInv, TypeOK
<1>2. op' = [op EXCEPT ![s] = o] /\ task' = task
  BY DEF FinishGate
<1>3. p \in Policies /\ GatesFor[p] \in Seq(Gates)
  BY SessionAssumption, PolicyAssumption
<1>4. op[s].next \in 1..Len(GatesFor[p]) /\ g \in Gates /\ op[s].seen \in Trees
  <2>1. op[s].next \in 1..Len(GatesFor[p]) /\ op[s].seen \in Trees
    BY <1>1 DEF RecordInv, TypeInv, Shaped, Fingerprinted
  <2> QED
    BY <1>3, <2>1, ElementOfSeq
<1>5. receipt # None /\ receipt.policy = p
  <2>1. classify(exited, op[s].seen, tree) \in BOOLEAN
    BY DEF classify
  <2>2. receipt \in Receipts
    BY <1>3, <1>4, <2>1 DEF Receipts
  <2> QED
    BY <2>2, NoneAssumption
<1> HIDE DEF receipt
<1>6. /\ o.call = "gates" /\ o.copy = op[s].copy /\ o.next = op[s].next + 1
      /\ o.batch = [op[s].batch EXCEPT ![g] = receipt]
  BY <1>1 DEF Operations
<1>7. op[s].batch \in [Gates -> Receipts \cup {None}] /\ op[s].next \in Nat
  BY <1>1 DEF Operations
<1>8. \A h \in Gates : o.batch[h] = IF h = g THEN receipt ELSE op[s].batch[h]
  BY <1>6, <1>7
<1> HIDE DEF o
<1>9. \A h \in Gates : o.batch[h] # None => o.batch[h].policy = p
  BY <1>1, <1>5, <1>8 DEF OpRight
<1>10. ASSUME NEW i \in DOMAIN GatesFor[p], i < o.next
       PROVE  o.batch[GatesFor[p][i]] # None
  <2>1. i \in 1..Len(GatesFor[p]) /\ GatesFor[p][i] \in Gates
    BY <1>3
  <2>2. CASE i = op[s].next
    BY <1>4, <1>5, <1>8, <2>2
  <2>3. CASE i # op[s].next
    <3>1. i < op[s].next
      BY <1>6, <1>7, <1>10, <2>1, <2>3
    <3>2. op[s].batch[GatesFor[p][i]] # None
      BY <1>1, <3>1 DEF OpRight
    <3> QED
      BY <1>5, <1>8, <2>1, <3>2
  <2> QED
    BY <2>2, <2>3
<1>11. OpRight(s, o)
  BY <1>1, <1>6, <1>9, <1>10 DEF OpRight, LateFingerprints
<1> QED
  BY <1>2, <1>11, StepRight DEF RecordInv

LEMMA RunGatesRight ==
    ASSUME RecordInv, TypeInv', NEW s \in Sessions, RunGates(s)
    PROVE  RecordInv'
<1>1. op[s] \in Operations /\ OpRight(s, op[s]) /\ tree \in Trees /\ Right(task)
  BY DEF RecordInv, TypeInv, TypeOK
<1>2. CASE StartGate(s)
  <2> DEFINE o == [op[s] EXCEPT !.call = "gate", !.seen = tree]
  <2>1. /\ o.copy = op[s].copy /\ o.batch = op[s].batch /\ o.next = op[s].next
        /\ o.call = "gate"
    BY <1>1 DEF Operations
  <2>2. op' = [op EXCEPT ![s] = o] /\ task' = task
    BY <1>2 DEF StartGate
  <2> HIDE DEF o
  <2>3. OpRight(s, o)
    <3>1. op[s].copy = None
      BY <1>1, <1>2 DEF StartGate, OpRight
    <3> QED
      BY <1>1, <2>1, <3>1 DEF OpRight
  <2> QED
    BY <1>1, <2>2, <2>3, StepRight
<1>3. CASE FinishBatch(s)
  <2> DEFINE o == [op[s] EXCEPT !.call = "gates_ran"]
  <2>1. /\ o.copy = op[s].copy /\ o.batch = op[s].batch /\ o.next = op[s].next
        /\ o.call = "gates_ran"
    BY <1>1 DEF Operations
  <2>2. op' = [op EXCEPT ![s] = o] /\ task' = task /\ op[s].call = "gates"
    BY <1>3 DEF FinishBatch
  <2>3. \/ op[s].next > Len(GatesFor[PolicyOf[s]])
        \/ \E g \in RequiredGates[PolicyOf[s]] :
              op[s].batch[g] # None /\ ~op[s].batch[g].success
    BY <1>3 DEF FinishBatch, BatchDone, FailedGate
  <2>4. op[s].copy = None
    BY <2>2 DEF RecordInv, OpRight
  <2> HIDE DEF o
  <2>5. OpRight(s, o)
    BY <1>1, <2>1, <2>3, <2>4 DEF OpRight
  <2> QED
    BY <1>1, <2>2, <2>5, StepRight
<1>4. CASE LateFingerprint(s)
  <2> DEFINE o == [op[s] EXCEPT !.seen = tree]
  <2>1. /\ o.copy = op[s].copy /\ o.batch = op[s].batch /\ o.next = op[s].next
        /\ o.call = op[s].call /\ o.seen = tree
    BY <1>1 DEF Operations
  <2>2. op' = [op EXCEPT ![s] = o] /\ task' = task
    BY <1>4 DEF LateFingerprint
  <2> HIDE DEF o
  <2>3. OpRight(s, o)
    BY <1>1, <2>1 DEF OpRight
  <2> QED
    BY <1>1, <2>2, <2>3, StepRight
<1>5. ASSUME NEW exited \in BOOLEAN, FinishGate(s, exited)
      PROVE  RecordInv'
  BY <1>5, FinishGateRight
<1> QED
  BY <1>2, <1>3, <1>4, <1>5 DEF RunGates

LEMMA CallAnyRight ==
    ASSUME RecordInv, TypeInv', NEW s \in Sessions, CallAny(s)
    PROVE  RecordInv'
<1>1. ASSUME NEW name, NEW call, NEW actor, NEW seen, NEW verdict,
             call # "gates_ran", Begin(s, name, call, actor, seen, verdict)
      PROVE  RecordInv'
  <2> DEFINE o == [Idle EXCEPT !.call = call, !.actor = actor,
                               !.seen = seen, !.verdict = verdict]
  <2>1. o.copy = None /\ o.batch = Idle.batch /\ o.call = call /\ o.next = Idle.next
    BY DEF Idle
  <2>2. op' = [op EXCEPT ![s] = o] /\ task' = task
    BY <1>1 DEF Begin
  <2> HIDE DEF o
  <2>3. OpRight(s, o)
    BY <1>1, <2>1, IdleRight DEF OpRight
  <2> QED
    BY <2>2, <2>3, StepRight DEF RecordInv
<1> QED
  BY <1>1 DEF CallAny, CallSubmit, CallControl, CallSubmitQA, CallVerify

LEMMA LoadRight ==
    ASSUME RecordInv, TypeInv', NEW s \in Sessions, Load(s)
    PROVE  RecordInv'
<1> DEFINE o == [op[s] EXCEPT !.copy = task]
<1>1. op[s] \in Operations /\ OpRight(s, op[s]) /\ Right(task)
  BY DEF RecordInv, TypeInv, TypeOK
<1>2. /\ o.copy = task /\ o.batch = op[s].batch /\ o.next = op[s].next
      /\ o.call = op[s].call /\ o.seen = op[s].seen
  BY <1>1 DEF Operations
<1>3. op' = [op EXCEPT ![s] = o] /\ task' = task
  BY DEF Load
<1>4. /\ op[s].call \in LateFingerprints => op[s].seen \in Trees
      /\ op[s].call \notin {"gates", "gate"}
  BY <1>1 DEF Load, Operations, Updates
<1> HIDE DEF o
<1>5. OpRight(s, o)
  BY <1>1, <1>2, <1>4 DEF OpRight
<1> QED
  BY <1>1, <1>3, <1>5, StepRight

-----------------------------------------------------------------------------

LEMMA RecordInit == Init => RecordInv
<1> SUFFICES ASSUME Init
             PROVE  RecordInv
  OBVIOUS
<1>1. PICK s \in Sessions, seen \in Trees : task = NewTask(PolicyOf[s], seen)
  BY DEF Init
<1>2. /\ task.state \in {"planning", "implementing"} /\ task.resume = ""
      /\ task.baseline = IF IsEditingState(task.state) THEN seen ELSE None
  BY <1>1 DEF NewTask, recordBaseline
<1>3. Right(task)
  BY <1>2, NoneAssumption DEF Right, EvidenceAt, BaselineAt, Stage
<1>4. \A r \in Sessions : op[r] = Idle
  BY DEF Init
<1> QED
  BY <1>3, <1>4, InitType, IdleRight DEF RecordInv

LEMMA RecordNext ==
    ASSUME Orderly
    PROVE  RecordInv /\ [Next]_vars => RecordInv'
<1> SUFFICES ASSUME RecordInv, [Next]_vars
             PROVE  RecordInv'
  OBVIOUS
<1>1. TypeInv'
  BY NextType DEF RecordInv
<1>2. CASE Edit \/ UNCHANGED vars
  BY <1>1, <1>2 DEF Edit, vars, history, RecordInv
<1>3. ASSUME NEW s \in Sessions, CallAny(s) \/ RunGates(s) \/ Load(s)
      PROVE  RecordInv'
  BY <1>1, <1>3, CallAnyRight, RunGatesRight, LoadRight
<1>4. ASSUME NEW s \in Sessions, Mutate(s)
      PROVE  RecordInv'
  BY <1>1, <1>4, SubmitPlanRight, SubmitImplementationRight, VerifyPolicyChangedRight,
     VerifyGatesRanRight, ReviewStaleRight, ReviewStandsRight, RecordQARight,
     CompleteRight, ControlRight DEF Mutate
<1>5. ASSUME NEW s \in Sessions, GiveUp(s)
      PROVE  RecordInv'
  BY <1>1, <1>5, IdleRight, StepRight DEF GiveUp, RecordInv
<1> QED
  BY <1>2, <1>3, <1>4, <1>5 DEF Next

\* Evidence belongs to the stage it was gathered for, whatever sessions,
\* processes and policies work on the task and whichever updates are lost:
\* nothing old is carried into verification, and no review or completion is
\* reached without every gate that verification runs (InvalidateEvidence,
\* Verify, SubmitQA).
THEOREM EvidenceFollows ==
    ASSUME Orderly
    PROVE  Spec => []EvidenceFollowsStage
<1>1. RecordInv => EvidenceFollowsStage
  BY DEF RecordInv, Right, EvidenceAt, ProvenUnderOne, EvidenceFollowsStage
<1>2. RecordInv /\ [Next]_vars => RecordInv'
  BY RecordNext
<1> QED
  BY <1>1, <1>2, RecordInit, PTL DEF Spec

\* A baseline is there exactly in the editing stages, parked or not, so that
\* the nil baseline SubmitImplementation lets through is never one that
\* recordBaseline forgot (recordBaseline and its callers).
THEOREM BaselineFollows ==
    ASSUME Orderly
    PROVE  Spec => []BaselineFollowsStage
<1>1. RecordInv => BaselineFollowsStage
  BY DEF RecordInv, Right, BaselineAt, BaselineFollowsStage
<1>2. RecordInv /\ [Next]_vars => RecordInv'
  BY RecordNext
<1> QED
  BY <1>1, <1>2, RecordInit, PTL DEF Spec

-----------------------------------------------------------------------------
(***************************************************************************)
(* Within one process the controller implements TaskPromise.               *)
(*                                                                         *)
(* The lock makes every update a step from the stored record               *)
(* (SerialInv); that its evidence happened is GenuineInv.                  *)
(***************************************************************************)

NotParkable == {"blocked", "complete", "cancelled"}

PromiseInv ==
    /\ GenuineInv
    /\ SerialInv
    /\ task.resume \notin NotParkable

LEMMA BuiltinEndsAreFinal == Graph = builtinTransitions => EndsAreFinal
  BY DEF EndsAreFinal, Permits, builtinTransitions

LEMMA OrderlyCompletes == Orderly => OnlyCompletedCompletes
  BY DEF Orderly, EvidenceBrought, OnlyCompletedCompletes

\* An action on the record, other than one that completes it, stays in the
\* phase or takes one of the promised ways.
LEMMA PhaseMoves ==
    ASSUME Orderly, EndsAreFinal, NEW t \in Tasks, t.resume \notin NotParkable,
           NEW action \in Actions, Permits(Graph, t.state, action),
           NEW to, to = Target(Graph, t, action), to # "complete"
    PROVE  /\ t.state # "complete"
           /\ ResumeAfter(t, action) \notin NotParkable
           /\ \/ PhaseOf(t.state) = PhaseOf(to)
              \/ PhaseOf(t.state) = "open" /\ PhaseOf(to) = "parked"
              \/ PhaseOf(t.state) = "parked" /\ PhaseOf(to) = "open"
              \/ PhaseOf(t.state) \in {"open", "parked"} /\ PhaseOf(to) = "abandoned"
<1>1. t.state \notin {"complete", "cancelled"}
  BY DEF EndsAreFinal
<1>2. PhaseOf(t.state) = IF t.state = "blocked" THEN "parked" ELSE "open"
  BY <1>1 DEF PhaseOf
<1>3. PhaseOf(to) = IF to = "cancelled" THEN "abandoned"
                    ELSE IF to = "blocked" THEN "parked" ELSE "open"
  BY DEF PhaseOf
<1>4. ResumeAfter(t, action) \notin NotParkable
  BY DEF ResumeAfter, activeState, NotParkable
<1> QED
  BY <1>1, <1>2, <1>3, <1>4

\* Evidence that stands is of gates that passed.
LEMMA StandingIsProven ==
    ASSUME NEW t \in Tasks, NEW p \in Policies, NEW w \in Trees,
           ReceiptsBacked(t.receipts, passed), ~VerificationProblem(t, p, w)
    PROVE  <<p, w>> \in ProvenBases
<1>1. \A g \in RequiredGates[p] : g \in Gates /\ Stands(t.receipts[g], p, w)
  BY PolicyAssumption DEF VerificationProblem
<1>2. \A g \in RequiredGates[p] : <<p, g, w>> \in passed
  BY <1>1 DEF Stands, ReceiptsBacked
<1> QED
  BY <1>2 DEF ProvenBases

LEMMA BasisIsPair == \A c \in Policies \X Trees : c = <<c[1], c[2]>>
  OBVIOUS

LEMMA InitPromise == Init => Promise!Init
<1> SUFFICES ASSUME Init
             PROVE  Promise!Init
  OBVIOUS
<1>1. task.state \in {"planning", "implementing"}
  BY DEF Init, NewTask, recordBaseline
<1>2. PhaseOf(task.state) = "open" /\ Outcome = None
  BY <1>1 DEF PhaseOf, Outcome
<1>3. ProvenBases = {}
  <2>1. \A q \in Policies : RequiredGates[q] # {}
    BY PolicyAssumption
  <2> QED
    BY <2>1 DEF Init, ProvenBases
<1>4. ApprovedBases = {}
  BY DEF Init, ApprovedBases
<1> QED
  BY <1>2, <1>3, <1>4 DEF Promise!Init

\* A gate that passed proves its basis, or is not the last one it needs.
LEMMA GatePromise ==
    ASSUME TypeInv, NEW s \in Sessions, NEW exited \in BOOLEAN, FinishGate(s, exited)
    PROVE  [Promise!Next]_(Promise!promised)
<1> DEFINE p == PolicyOf[s]
           b == <<p, tree>>
<1>1. p \in Policies /\ tree \in Trees
  BY SessionAssumption DEF TypeInv, TypeOK
<1>2. task' = task /\ endorsed' = endorsed
  BY DEF FinishGate
<1>3. PICK g : passed' = passed \/ passed' = passed \cup {<<p, g, tree>>}
  BY DEF FinishGate
<1>4. ApprovedBases' = ApprovedBases /\ Outcome' = Outcome
  BY <1>2 DEF ApprovedBases, Outcome
<1>5. ProvenBases \subseteq ProvenBases'
  BY <1>3 DEF ProvenBases
<1>6. ASSUME NEW c \in ProvenBases', c # b
      PROVE  c \in ProvenBases
  <2>1. c \in Policies \X Trees /\ \A h \in RequiredGates[c[1]] : <<c[1], h, c[2]>> \in passed'
    BY <1>6 DEF ProvenBases
  <2>2. \A h : <<c[1], h, c[2]>> # <<p, g, tree>>
    BY <1>6, <2>1
  <2> QED
    BY <1>3, <2>1, <2>2 DEF ProvenBases
<1>7. ProvenBases' = ProvenBases \/ ProvenBases' = ProvenBases \cup {b}
  BY <1>5, <1>6
<1> QED
  BY <1>1, <1>2, <1>4, <1>7 DEF Promise!Next, Promise!Prove, Promise!promised

\* A review that stands approves a basis that is proven.
LEMMA ReviewPromise ==
    ASSUME PromiseInv, NEW s \in Sessions, ReviewStands(s)
    PROVE  [Promise!Next]_(Promise!promised)
<1> DEFINE p == PolicyOf[s]
           w == op[s].seen
           b == <<p, w>>
<1>1. Holds(s) /\ TypeInv /\ GenuineInv /\ op[s].call = "submit_qa"
  BY DEF ReviewStands, Loaded, PromiseInv, GenuineInv
<1>2. p \in Policies /\ w \in Trees
  BY <1>1, SessionAssumption DEF TypeInv, Shaped, Fingerprinted
<1>3. task' = task /\ passed' = passed
  BY <1>1 DEF ReviewStands, PromiseInv, SerialInv
<1>4. b \in ProvenBases
  <2>1. op[s].copy \in Tasks /\ Evidenced(op[s].copy, passed, endorsed)
    BY <1>1, LoadedBacked
  <2> QED
    BY <1>2, <2>1, StandingIsProven DEF ReviewStands, Evidenced
<1>5. endorsed' = endorsed \/ endorsed' = endorsed \cup {<<op[s].actor, p, w>>}
  BY DEF ReviewStands
<1>6. ProvenBases' = ProvenBases /\ Outcome' = Outcome
  BY <1>3 DEF ProvenBases, Outcome
<1>7. ApprovedBases \subseteq ApprovedBases'
  BY <1>5 DEF ApprovedBases
<1>8. ASSUME NEW c \in ApprovedBases', c # b
      PROVE  c \in ApprovedBases
  <2>1. c \in Policies \X Trees
    BY <1>8 DEF ApprovedBases
  <2>2. PICK a \in Agents \cup {""} :
             Independent(c[1], a) /\ <<a, c[1], c[2]>> \in endorsed'
    BY <1>8 DEF ApprovedBases
  <2>3. c[1] # p \/ c[2] # w
    <3>1. c = <<c[1], c[2]>>
      BY <2>1, BasisIsPair
    <3> QED
      BY <1>8, <3>1
  <2>4. <<a, c[1], c[2]>> # <<op[s].actor, p, w>>
    BY <2>3
  <2>5. <<a, c[1], c[2]>> \in endorsed
    BY <1>5, <2>2, <2>4
  <2> QED
    BY <2>1, <2>2, <2>5 DEF ApprovedBases
<1>9. ApprovedBases' = ApprovedBases \/ ApprovedBases' = ApprovedBases \cup {b}
  BY <1>7, <1>8
<1> QED
  BY <1>2, <1>3, <1>4, <1>6, <1>9 DEF Promise!Next, Promise!Approve, Promise!promised

\* A task is completed on a basis that is proven and, where it must be, approved.
LEMMA CompletePromise ==
    ASSUME Orderly, PromiseInv, NEW s \in Sessions, Complete(s), task'.state = "complete"
    PROVE  [Promise!Next]_(Promise!promised)
<1> DEFINE p == PolicyOf[s]
           w == op[s].seen
           t == op[s].copy
           b == <<p, w>>
<1>1. Holds(s) /\ TypeInv /\ GenuineInv /\ op[s].call = "complete"
  BY DEF Complete, Loaded, PromiseInv, GenuineInv
<1>2. p \in Policies /\ w \in Trees
  BY <1>1, SessionAssumption DEF TypeInv, Shaped, Fingerprinted
<1>3. t = task /\ t \in Tasks /\ Evidenced(t, passed, endorsed)
  BY <1>1, LoadedBacked DEF PromiseInv, SerialInv
<1>4. ~VerificationProblem(t, p, w) /\ (IndependentQA[p] => ~QAProblem(t, p, w))
  BY DEF Complete, EvidenceSuffices
<1>5. UNCHANGED <<passed, endorsed>> /\ task' = Transition(Graph, t, "completed")
  BY DEF Complete, Save
<1>6. /\ task'.state = Graph[t.state]["completed"]
      /\ task'.policy = t.policy /\ task'.receipts = t.receipts
  BY <1>3, <1>5 DEF Transition, Target, Tasks
<1>7. t.state = "ready_to_complete"
  BY <1>6, Moves DEF Complete, EvidenceBrought
<1>8. b \in ProvenBases
  BY <1>2, <1>3, <1>4, StandingIsProven DEF Evidenced
<1>9. IndependentQA[p] => b \in ApprovedBases
  <2> SUFFICES ASSUME IndependentQA[p]
               PROVE  b \in ApprovedBases
    OBVIOUS
  <2>1. /\ t.qa # None /\ t.qa.verdict = "approved"
        /\ t.qa.policy = p /\ t.qa.tree = w
    BY <1>4 DEF QAProblem
  <2>2. t.qa.actor \in Agents \cup {""}
    BY <1>3, <2>1 DEF Tasks, QAVerdicts
  <2>3. Independent(p, t.qa.actor) /\ <<t.qa.actor, p, w>> \in endorsed
    BY <1>3, <2>1 DEF Evidenced, ApprovalBacked
  <2> QED
    BY <1>2, <2>2, <2>3 DEF ApprovedBases
<1>10. Outcome' = b
  <2>1. t.policy = p /\ \A g \in RequiredGates[p] : t.receipts[g].tree = w
    BY <1>4 DEF VerificationProblem, Stands
  <2>2. RequiredGates[p] # {}
    BY <1>2, PolicyAssumption
  <2>3. (CHOOSE g \in RequiredGates[p] : TRUE) \in RequiredGates[p]
    BY <2>2
  <2> QED
    BY <1>6, <2>1, <2>3 DEF Outcome
<1>11. PhaseOf(task.state) = "open" /\ PhaseOf(task'.state) = "finished"
  BY <1>3, <1>7 DEF PhaseOf
<1>12. ProvenBases' = ProvenBases /\ ApprovedBases' = ApprovedBases
  BY <1>5 DEF ProvenBases, ApprovedBases
<1>13. b \in {c \in Policies \X Trees : IndependentQA[c[1]]} => IndependentQA[p]
  OBVIOUS
<1> HIDE DEF b
<1>14. b \in Policies \X Trees
  BY <1>2 DEF b
<1>15. Promise!Finish(b)
  BY <1>8, <1>9, <1>10, <1>11, <1>12, <1>13 DEF Promise!Finish
<1> QED
  BY <1>14, <1>15 DEF Promise!Next

\* Every other update takes one permitted transition from the stored record.
LEMMA UpdatesTransit ==
    ASSUME SerialInv, NEW s \in Sessions, Mutate(s), ~ReviewStands(s)
    PROVE  \E action \in Actions :
              /\ action = "completed" => Complete(s)
              /\ action = "qa_approved" => RecordQA(s)
              /\ action \in {"blocked", "resumed"} => Block(s) \/ Resume(s)
              /\ Permits(Graph, task.state, action)
              /\ task'.state = Target(Graph, task, action)
              /\ task'.resume = ResumeAfter(task, action)
              /\ UNCHANGED <<passed, endorsed>>
<1> DEFINE t == op[s].copy
           p == PolicyOf[s]
<1>1. t = task /\ t \in Tasks /\ p \in Policies
  <2>1. Holds(s)
    BY DEF Mutate, Loaded, SubmitPlan, SubmitImplementation, VerifyPolicyChanged,
       VerifyGatesRan, ReviewStale, RecordQA, Complete, Block, Resume, Cancel
  <2> QED
    BY <2>1, SessionAssumption DEF SerialInv, TypeInv, TypeOK
\* What the callbacks do to the record before and after the transition leaves
\* its state and what it resumes to.
<1>2. ASSUME NEW action, NEW u \in Tasks, u.state = t.state, u.resume = t.resume,
             NEW seen, task' \in {Transition(Graph, u, action),
                                  recordBaseline(Transition(Graph, u, action), seen)}
      PROVE  /\ task'.state = Target(Graph, task, action)
             /\ task'.resume = ResumeAfter(task, action)
  <2> DEFINE moved == Transition(Graph, u, action)
  <2>1. /\ moved.state = Target(Graph, u, action)
        /\ moved.resume = ResumeAfter(u, action)
    BY TransitionFields
  <2>2. /\ recordBaseline(moved, seen).state = moved.state
        /\ recordBaseline(moved, seen).resume = moved.resume
    BY DEF recordBaseline, Transition, Tasks
  <2>3. task'.state = moved.state /\ task'.resume = moved.resume
    BY <1>2, <2>2
  <2>4. /\ Target(Graph, u, action) = Target(Graph, task, action)
        /\ ResumeAfter(u, action) = ResumeAfter(task, action)
    BY <1>1, <1>2 DEF Target, ResumeAfter
  <2> QED
    BY <2>1, <2>3, <2>4
<1>3. CASE SubmitPlan(s)
  BY <1>1, <1>2, <1>3 DEF SubmitPlan, AfterPlan, Save, Actions
<1>4. CASE SubmitImplementation(s)
  <2> DEFINE u == InvalidateEvidence([t EXCEPT !.policy = p])
  <2>1. u \in Tasks /\ u.state = t.state /\ u.resume = t.resume
    BY <1>1 DEF InvalidateEvidence, NoReceipts, Tasks
  <2> QED
    BY <1>1, <1>2, <1>4, <2>1
    DEF SubmitImplementation, AfterImplementation, Save, Actions
<1>5. CASE VerifyPolicyChanged(s)
  <2> DEFINE u == [InvalidateEvidence(t) EXCEPT !.policy = p]
  <2>1. u \in Tasks /\ u.state = t.state /\ u.resume = t.resume
    BY <1>1 DEF InvalidateEvidence, NoReceipts, Tasks
  <2>2. /\ task' = recordBaseline(Transition(Graph, u, "gate_failed"), op[s].seen)
        /\ Permits(Graph, task.state, "gate_failed")
        /\ UNCHANGED <<passed, endorsed>>
    BY <1>1, <1>5 DEF VerifyPolicyChanged, AfterPolicyChange, Save
  <2> HIDE DEF u
  <2>3. /\ task'.state = Target(Graph, task, "gate_failed")
        /\ task'.resume = ResumeAfter(task, "gate_failed")
    BY <1>2, <2>1, <2>2
  <2> QED
    BY <2>2, <2>3 DEF Actions
<1>6. CASE VerifyGatesRan(s)
  <2> DEFINE u == MergeReceipts(t, op[s].batch)
  <2>1. u \in Tasks /\ u.state = t.state /\ u.resume = t.resume
    <3>1. op[s].batch \in [Gates -> Receipts \cup {None}]
      BY DEF SerialInv, TypeInv, TypeOK, Operations
    <3>2. u \in Tasks
      BY <1>1, <3>1, MergeType
    <3> QED
      BY <1>1, <3>2 DEF MergeReceipts, Tasks
  <2>2. /\ GateAction(s) \in Actions
        /\ GateAction(s) \notin {"completed", "qa_approved", "blocked", "resumed"}
    BY DEF GateAction, Actions
  <2>3. /\ task' = recordBaseline(Transition(Graph, u, GateAction(s)), op[s].seen)
        /\ Permits(Graph, task.state, GateAction(s))
        /\ UNCHANGED <<passed, endorsed>>
    BY <1>1, <1>6 DEF VerifyGatesRan, AfterGates, Save
  <2> HIDE DEF u
  <2>4. /\ task'.state = Target(Graph, task, GateAction(s))
        /\ task'.resume = ResumeAfter(task, GateAction(s))
    BY <1>2, <2>1, <2>3
  <2> QED
    BY <2>2, <2>3, <2>4
<1>7. CASE ReviewStale(s)
  <2> DEFINE u == InvalidateEvidence(t)
  <2>1. u \in Tasks /\ u.state = t.state /\ u.resume = t.resume
    BY <1>1 DEF InvalidateEvidence, NoReceipts, Tasks
  <2> QED
    BY <1>1, <1>2, <1>7, <2>1 DEF ReviewStale, AfterStaleReview, Save, Actions
<1>8. CASE RecordQA(s)
  <2> DEFINE u == [t EXCEPT !.qa = Verdict(s)]
  <2>1. u \in Tasks /\ u.state = t.state /\ u.resume = t.resume
    <3>1. op[s].call = "record_qa" /\ op[s] \in Operations
      BY <1>8 DEF RecordQA, Loaded, SerialInv, TypeInv, TypeOK
    <3>2. op[s].seen \in Trees /\ op[s].verdict \in Verdicts /\ op[s].actor \in Agents \cup {""}
      BY <3>1 DEF SerialInv, TypeInv, Shaped, Fingerprinted, Operations
    <3>3. Verdict(s) \in QAVerdicts
      BY <1>1, <3>2 DEF Verdict, QAVerdicts
    <3> QED
      BY <1>1, <3>3 DEF Tasks
  <2>2. /\ VerdictAction(s) \in Actions
        /\ VerdictAction(s) \notin {"completed", "blocked", "resumed"}
    BY DEF VerdictAction, Actions
  <2>3. /\ task' = recordBaseline(Transition(Graph, u, VerdictAction(s)), op[s].seen)
        /\ Permits(Graph, task.state, VerdictAction(s))
        /\ UNCHANGED <<passed, endorsed>>
    BY <1>1, <1>8 DEF RecordQA, AfterReview, Save
  <2> HIDE DEF u
  <2>4. /\ task'.state = Target(Graph, task, VerdictAction(s))
        /\ task'.resume = ResumeAfter(task, VerdictAction(s))
    BY <1>2, <2>1, <2>3
  <2> QED
    BY <1>8, <2>2, <2>3, <2>4
<1>9. CASE Complete(s)
  BY <1>1, <1>2, <1>9 DEF Complete, Save, Actions
<1>10. CASE Block(s)
  BY <1>1, <1>2, <1>10 DEF Block, Save, Actions
<1>11. CASE Resume(s)
  BY <1>1, <1>2, <1>11 DEF Resume, Save, Actions
<1>12. CASE Cancel(s)
  BY <1>1, <1>2, <1>12 DEF Cancel, Save, Actions
<1> QED
  BY <1>3, <1>4, <1>5, <1>6, <1>7, <1>8, <1>9, <1>10, <1>11, <1>12 DEF Mutate

\* Steps that leave the record and the histories alone.
LEMMA OtherSteps ==
    ASSUME Next, ~ \E s \in Sessions : Mutate(s),
           ~ \E s \in Sessions, exited \in BOOLEAN : FinishGate(s, exited)
    PROVE  UNCHANGED <<task, passed, endorsed>>
  BY DEF Next, Edit, CallAny, CallSubmit, CallControl, CallSubmitQA, CallVerify, Begin,
     RunGates, StartGate, FinishBatch, LateFingerprint, Load, GiveUp, history

LEMMA StutterPromise ==
    UNCHANGED <<task, passed, endorsed>> => UNCHANGED Promise!promised
  BY DEF Promise!promised, ProvenBases, ApprovedBases, Outcome

LEMMA PromiseStep ==
    ASSUME Orderly, EndsAreFinal, PromiseInv, [Next]_vars
    PROVE  /\ [Promise!Next]_(Promise!promised)
           /\ task'.resume \notin NotParkable
<1>1. TypeInv /\ task \in Tasks /\ task.resume \notin NotParkable
  BY DEF PromiseInv, GenuineInv, TypeInv, TypeOK
<1>2. CASE UNCHANGED <<task, passed, endorsed>>
  BY <1>1, <1>2, StutterPromise
<1>3. ASSUME NEW s \in Sessions, NEW exited \in BOOLEAN, FinishGate(s, exited)
      PROVE  /\ [Promise!Next]_(Promise!promised)
             /\ task'.resume \notin NotParkable
  BY <1>1, <1>3, GatePromise DEF FinishGate
<1>4. ASSUME NEW s \in Sessions, ReviewStands(s)
      PROVE  /\ [Promise!Next]_(Promise!promised)
             /\ task'.resume \notin NotParkable
  <2>1. task' = task
    BY <1>4 DEF ReviewStands, Loaded, PromiseInv, SerialInv
  <2> QED
    BY <1>1, <1>4, <2>1, ReviewPromise
<1>5. ASSUME NEW s \in Sessions, Mutate(s), ~ReviewStands(s)
      PROVE  /\ [Promise!Next]_(Promise!promised)
             /\ task'.resume \notin NotParkable
  <2>1. PICK action \in Actions :
              /\ action = "completed" => Complete(s)
              /\ Permits(Graph, task.state, action)
              /\ task'.state = Target(Graph, task, action)
              /\ task'.resume = ResumeAfter(task, action)
              /\ UNCHANGED <<passed, endorsed>>
    BY <1>5, UpdatesTransit DEF PromiseInv
  <2>2. CASE task'.state = "complete"
    <3>1. action = "completed"
      <4>1. task'.state = Graph[task.state][action]
        BY <1>1, <2>1, <2>2 DEF Target, NotParkable
      <4>2. EvidenceBrought(task.state, action, Graph[task.state][action])
        BY <2>1, Moves
      <4> QED
        BY <2>2, <4>1, <4>2 DEF EvidenceBrought
    <3>2. task'.resume \notin NotParkable
      BY <1>1, <2>1, <3>1 DEF ResumeAfter
    <3> QED
      BY <2>1, <2>2, <3>1, <3>2, CompletePromise
  <2>3. CASE task'.state # "complete"
    <3>1. /\ task.state # "complete"
          /\ ResumeAfter(task, action) \notin NotParkable
          /\ \/ PhaseOf(task.state) = PhaseOf(task'.state)
             \/ PhaseOf(task.state) = "open" /\ PhaseOf(task'.state) = "parked"
             \/ PhaseOf(task.state) = "parked" /\ PhaseOf(task'.state) = "open"
             \/ /\ PhaseOf(task.state) \in {"open", "parked"}
                /\ PhaseOf(task'.state) = "abandoned"
      BY <1>1, <2>1, <2>3, PhaseMoves
    <3>2. Outcome' = Outcome
      BY <2>3, <3>1 DEF Outcome
    <3>3. ProvenBases' = ProvenBases /\ ApprovedBases' = ApprovedBases
      BY <2>1 DEF ProvenBases, ApprovedBases
    <3> QED
      BY <2>1, <3>1, <3>2, <3>3
      DEF Promise!Next, Promise!Park, Promise!Reopen, Promise!Abandon, Promise!promised
  <2> QED
    BY <2>2, <2>3
<1> QED
  BY <1>2, <1>3, <1>4, <1>5, OtherSteps DEF vars, history

\* Within one process, for any sessions, policies and gates and every orderly
\* graph: no basis is approved before it is proven, a task is finished on one
\* that is both, and nothing changes it after its end.
THEOREM PromiseKept ==
    ASSUME OneProcess, Orderly, EndsAreFinal
    PROVE  Spec => KeepsPromise
<1>1. Init => PromiseInv
  <2>1. Init => task.resume \notin NotParkable
    BY DEF Init, NewTask, recordBaseline, NotParkable
  <2> QED
    BY <2>1, GenuineInit, SerialInit DEF PromiseInv
<1>2. PromiseInv /\ [Next]_vars => PromiseInv'
  BY GenuineNext, SerialNext, OrderlyCompletes, PromiseStep DEF PromiseInv
<1>3. PromiseInv /\ [Next]_vars => [Promise!Next]_(Promise!promised)
  BY PromiseStep
<1> QED
  BY <1>1, <1>2, <1>3, InitPromise, PTL DEF Spec, KeepsPromise, Promise!Spec

-----------------------------------------------------------------------------
(***************************************************************************)
(* Approvals are bound to the tree they were formed against.               *)
(***************************************************************************)

\* Inductive: nothing is endorsed but what had passed its gates.
EndorsedInv ==
    /\ GenuineInv
    /\ \A e \in endorsed : <<e[2], e[3]>> \in ProvenBases

\* What passed has passed, and only a review that stands endorses.
LEMMA HistoryGrows ==
    ASSUME [Next]_vars
    PROVE  /\ passed \subseteq passed'
           /\ endorsed' = endorsed \/ \E s \in Sessions : ReviewStands(s)
<1>1. CASE Edit \/ UNCHANGED vars
  BY <1>1 DEF Edit, vars, history
<1>2. ASSUME NEW s \in Sessions, CallAny(s) \/ Load(s) \/ GiveUp(s)
      PROVE  passed' = passed /\ endorsed' = endorsed
  BY <1>2 DEF CallAny, CallSubmit, CallControl, CallSubmitQA, CallVerify, Begin,
     Load, GiveUp, history
<1>3. ASSUME NEW s \in Sessions, RunGates(s)
      PROVE  passed \subseteq passed' /\ endorsed' = endorsed
  <2>1. ASSUME NEW exited \in BOOLEAN, FinishGate(s, exited)
        PROVE  passed \subseteq passed' /\ endorsed' = endorsed
    BY <2>1 DEF FinishGate
  <2> QED
    BY <1>3, <2>1 DEF RunGates, StartGate, FinishBatch, LateFingerprint, history
<1>4. ASSUME NEW s \in Sessions, Mutate(s)
      PROVE  passed' = passed /\ (endorsed' = endorsed \/ ReviewStands(s))
  BY <1>4 DEF Mutate, Save, SubmitPlan, SubmitImplementation, VerifyPolicyChanged,
     VerifyGatesRan, ReviewStale, ReviewStands, RecordQA, Complete, Block, Resume, Cancel
<1> QED
  BY <1>1, <1>2, <1>3, <1>4 DEF Next

\* The evidence a review stands on is in the record it loaded, whatever has
\* become of the stored one since.
LEMMA ReviewEndorsesProven ==
    ASSUME GenuineInv, NEW s \in Sessions, ReviewStands(s), NEW e \in endorsed' \ endorsed
    PROVE  <<e[2], e[3]>> \in ProvenBases
<1> DEFINE p == PolicyOf[s]
           w == op[s].seen
<1>1. Holds(s) /\ TypeInv /\ op[s].call = "submit_qa"
  BY DEF ReviewStands, Loaded, GenuineInv
<1>2. p \in Policies /\ w \in Trees
  BY <1>1, SessionAssumption DEF TypeInv, Shaped, Fingerprinted
<1>3. op[s].copy \in Tasks /\ Evidenced(op[s].copy, passed, endorsed)
  BY <1>1, LoadedBacked
<1>4. <<p, w>> \in ProvenBases
  BY <1>2, <1>3, StandingIsProven DEF ReviewStands, Evidenced
<1>5. e = <<op[s].actor, p, w>>
  BY DEF ReviewStands
<1> QED
  BY <1>4, <1>5

LEMMA EndorsedNext ==
    ASSUME OnlyCompletedCompletes
    PROVE  EndorsedInv /\ [Next]_vars => EndorsedInv'
<1> SUFFICES ASSUME EndorsedInv, [Next]_vars
             PROVE  EndorsedInv'
  OBVIOUS
<1>1. GenuineInv'
  BY GenuineNext DEF EndorsedInv
<1>2. ProvenBases \subseteq ProvenBases'
  BY HistoryGrows DEF ProvenBases
<1>3. ASSUME NEW e \in endorsed'
      PROVE  <<e[2], e[3]>> \in ProvenBases
  BY <1>3, HistoryGrows, ReviewEndorsesProven DEF EndorsedInv
<1> QED
  BY <1>1, <1>2, <1>3 DEF EndorsedInv

LEMMA EndorsedBinds == EndorsedInv => ApprovalBinds
<1> SUFFICES ASSUME EndorsedInv
             PROVE  ApprovalBinds
  OBVIOUS
<1>1. Backed(task, passed, endorsed)
  BY DEF EndorsedInv, GenuineInv
<1>2. ASSUME task.qa # None, task.qa.verdict = "approved"
      PROVE  /\ \A g \in RequiredGates[task.qa.policy] :
                    <<task.qa.policy, g, task.qa.tree>> \in passed
             /\ <<task.qa.actor, task.qa.policy, task.qa.tree>> \in endorsed
             /\ IndependentQA[task.qa.policy] => Independent(task.qa.policy, task.qa.actor)
  <2>1. ApprovalBacked(task.qa.actor, task.qa.policy, task.qa.tree, endorsed)
    BY <1>1, <1>2 DEF Backed, Evidenced
  <2>2. <<task.qa.policy, task.qa.tree>> \in ProvenBases
    <3> DEFINE e == <<task.qa.actor, task.qa.policy, task.qa.tree>>
    <3>1. e \in endorsed /\ e[2] = task.qa.policy /\ e[3] = task.qa.tree
      BY <2>1 DEF ApprovalBacked
    <3> QED
      BY <3>1 DEF EndorsedInv
  <2> QED
    BY <2>1, <2>2 DEF ApprovalBacked, ProvenBases
<1>3. ASSUME task.state = "complete", IndependentQA[task.policy]
      PROVE  /\ task.qa # None
             /\ task.qa.policy = task.policy
             /\ ShownOn(task, task.qa.tree)
  BY <1>1, <1>3 DEF Backed, Approves
<1> QED
  BY <1>2, <1>3 DEF ApprovalBinds

\* However many sessions in however many processes work on a task, with any of
\* their operations between the two updates of a review and updates lost to one
\* another: the approval on record was given, by its reviewer, on the tree it
\* names after every required gate had passed there, and no task is complete on
\* another tree than its approval names (SubmitQA, Complete).
THEOREM ApprovalsBind ==
    ASSUME OnlyCompletedCompletes
    PROVE  Spec => []ApprovalBinds
<1>1. Init => EndorsedInv
  <2> SUFFICES ASSUME Init
               PROVE  EndorsedInv
    OBVIOUS
  <2>1. endorsed = {}
    BY DEF Init
  <2> QED
    BY <2>1, GenuineInit DEF EndorsedInv
<1>2. EndorsedInv /\ [Next]_vars => EndorsedInv'
  BY EndorsedNext
<1> QED
  BY <1>1, <1>2, EndorsedBinds, PTL DEF Spec

-----------------------------------------------------------------------------
\* A gate that verification leaves out.

\* Policy p requires a gate that verifying does not run.
Starved(p) ==
    \E g \in RequiredGates[p] : \A i \in DOMAIN GatesFor[p] : GatesFor[p][i] # g

\* Inductive: a gate that passed under a policy is one its verification runs.
RanInv ==
    /\ TypeInv
    /\ \A pass \in passed : \E i \in DOMAIN GatesFor[pass[1]] : GatesFor[pass[1]][i] = pass[2]

LEMMA RanNext == RanInv /\ [Next]_vars => RanInv'
<1> SUFFICES ASSUME RanInv, [Next]_vars
             PROVE  RanInv'
  OBVIOUS
<1>1. TypeInv'
  BY NextType DEF RanInv
<1>2. ASSUME passed' = passed
      PROVE  RanInv'
  BY <1>1, <1>2 DEF RanInv
<1>3. CASE Edit \/ UNCHANGED vars
  BY <1>2, <1>3 DEF Edit, vars, history
<1>4. ASSUME NEW s \in Sessions, CallAny(s) \/ Load(s) \/ GiveUp(s)
      PROVE  RanInv'
  BY <1>2, <1>4 DEF CallAny, CallSubmit, CallControl, CallSubmitQA, CallVerify, Begin,
     Load, GiveUp, history
<1>5. ASSUME NEW s \in Sessions, Mutate(s)
      PROVE  RanInv'
  BY <1>2, <1>5 DEF Mutate, Save, SubmitPlan, SubmitImplementation, VerifyPolicyChanged,
     VerifyGatesRan, ReviewStale, ReviewStands, RecordQA, Complete, Block, Resume, Cancel
<1>6. ASSUME NEW s \in Sessions, NEW exited \in BOOLEAN, FinishGate(s, exited)
      PROVE  RanInv'
  <2> DEFINE p == PolicyOf[s]
             g == GatesFor[p][op[s].next]
  <2>1. op[s].next \in 1..Len(GatesFor[p])
    BY <1>6 DEF RanInv, TypeInv, Shaped, FinishGate
  <2>2. GatesFor[p] \in Seq(Gates)
    BY SessionAssumption, PolicyAssumption
  <2>3. \E i \in DOMAIN GatesFor[p] : GatesFor[p][i] = g
    BY <2>1, <2>2
  <2>4. passed' \subseteq passed \cup {<<p, g, tree>>}
    BY <1>6 DEF FinishGate
  <2>5. <<p, g, tree>>[1] = p /\ <<p, g, tree>>[2] = g
    OBVIOUS
  <2> HIDE DEF p, g
  <2> QED
    BY <1>1, <2>3, <2>4, <2>5 DEF RanInv
<1>7. ASSUME NEW s \in Sessions, StartGate(s) \/ FinishBatch(s) \/ LateFingerprint(s)
      PROVE  RanInv'
  BY <1>2, <1>7 DEF StartGate, FinishBatch, LateFingerprint, history
<1> QED
  BY <1>3, <1>4, <1>5, <1>6, <1>7 DEF Next, RunGates

\* A gate that is required and left out of verifying by its run_at never gets a
\* receipt, yet completion asks for one (GatesFor, VerificationProblem): under such
\* a policy, which validation accepts, no task is ever completed, whatever sessions
\* do.
THEOREM StarvedNeverCompletes ==
    ASSUME OnlyCompletedCompletes, NEW p \in Policies, Starved(p)
    PROVE  Spec => [](task.state = "complete" => task.policy # p)
<1>1. RanInv /\ CompletionIsGenuine => (task.state = "complete" => task.policy # p)
  <2> SUFFICES ASSUME RanInv, CompletionIsGenuine, task.state = "complete", task.policy = p
               PROVE  FALSE
    OBVIOUS
  <2>1. PICK w \in Trees : \A g \in RequiredGates[p] : <<p, g, w>> \in passed
    BY DEF CompletionIsGenuine, Genuine
  <2>2. PICK g \in RequiredGates[p] : \A i \in DOMAIN GatesFor[p] : GatesFor[p][i] # g
    BY DEF Starved
  <2> QED
    BY <2>1, <2>2 DEF RanInv
<1>2. Init => RanInv
  BY InitType DEF Init, RanInv
<1> QED
  BY <1>1, <1>2, RanNext, Genuineness, PTL DEF Spec

-----------------------------------------------------------------------------
\* Calls end.

\* The gates the batch of operation o has not run yet.
GatesLeft(s, o) == Len(GatesFor[PolicyOf[s]]) + 1 - o.next

\* The most steps of its own that operation o of session s has left.
StepsLeft(s, o) ==
    CASE o.call = "idle" -> 0
      [] o.call = "gates" -> 2 * GatesLeft(s, o) + 4
      [] o.call = "gate" -> 2 * GatesLeft(s, o) + 3
      [] OTHER -> 1 + (IF o.copy = None THEN 1 ELSE 0)
                    + (IF o.call \in LateFingerprints /\ o.seen = None THEN 1 ELSE 0)
                    + (IF o.call = "submit_qa" THEN 2 ELSE 0)

\* The batch of an operation that runs gates is within its list.
Bounded(s, o) ==
    o.call \in {"gates", "gate"} => o.next \in 1..(Len(GatesFor[PolicyOf[s]]) + 1)

StepsInv == TypeInv /\ \A s \in Sessions : Bounded(s, op[s])

\* Operation o of s has fewer steps left than the present one, if there is one.
Shorter(s, o) ==
    op[s].call = "idle" \/ o = op[s] \/ StepsLeft(s, o) < StepsLeft(s, op[s])

LEMMA StepsBounded ==
    ASSUME NEW s \in Sessions, NEW o \in Operations, Bounded(s, o)
    PROVE  StepsLeft(s, o) \in 0..(2 * Len(GatesFor[PolicyOf[s]]) + 4)
<1> DEFINE n == Len(GatesFor[PolicyOf[s]])
<1>1. n \in Nat
  <2>1. GatesFor[PolicyOf[s]] \in Seq(Gates)
    BY SessionAssumption, PolicyAssumption
  <2> QED
    BY <2>1
<1>2. CASE o.call \in {"gates", "gate"}
  <2>1. o.next \in 1..(n + 1)
    BY <1>2 DEF Bounded
  <2> DEFINE left == GatesLeft(s, o)
  <2>2. left = n + 1 - o.next
    BY DEF GatesLeft
  <2> HIDE DEF n
  <2>3. left \in 0..n
    BY <1>1, <2>1, <2>2
  <2>4. StepsLeft(s, o) = 2 * left + 4 \/ StepsLeft(s, o) = 2 * left + 3
    BY <1>2 DEF StepsLeft
  <2> HIDE DEF left
  <2>5. StepsLeft(s, o) \in 0..(2 * n + 4)
    BY <1>1, <2>3, <2>4
  <2> QED
    BY <2>5 DEF n
<1>3. CASE o.call \notin {"gates", "gate"}
  <2>1. StepsLeft(s, o) \in 0..5 /\ StepsLeft(s, o) # 5
    BY <1>3 DEF StepsLeft, LateFingerprints
  <2> HIDE DEF n
  <2>2. StepsLeft(s, o) \in 0..(2 * n + 4)
    BY <1>1, <2>1
  <2> QED
    BY <2>2 DEF n
<1> QED
  BY <1>2, <1>3

\* A step that replaces the operation of one session by a shorter one.
LEMMA OpShortens ==
    ASSUME StepsInv, TypeInv', NEW s \in Sessions, NEW o, op' = [op EXCEPT ![s] = o],
           Bounded(s, o), Shorter(s, o)
    PROVE  StepsInv' /\ \A r \in Sessions : Shorter(r, op'[r])
<1>1. \A r \in Sessions : op'[r] = IF r = s THEN o ELSE op[r]
  BY DEF StepsInv, TypeInv, TypeOK
<1>2. \A r \in Sessions : Bounded(r, op'[r])
  BY <1>1 DEF StepsInv
<1>3. \A r \in Sessions : Shorter(r, op'[r])
  BY <1>1 DEF Shorter
<1> QED
  BY <1>2, <1>3 DEF StepsInv, Bounded

LEMMA IdleShorter ==
    ASSUME StepsInv, NEW s \in Sessions
    PROVE  Bounded(s, Idle) /\ Shorter(s, Idle)
<1>1. op[s] \in Operations /\ Bounded(s, op[s])
  BY DEF StepsInv, TypeInv, TypeOK
<1> DEFINE left == StepsLeft(s, op[s])
<1>2. StepsLeft(s, Idle) = 0 /\ Bounded(s, Idle)
  BY DEF StepsLeft, Idle, Bounded
<1>3. CASE op[s].call \in {"gates", "gate"}
  <2>1. GatesFor[PolicyOf[s]] \in Seq(Gates)
    BY SessionAssumption, PolicyAssumption
  <2>2. Len(GatesFor[PolicyOf[s]]) \in Nat
    BY <2>1
  <2>3. op[s].next \in 1..(Len(GatesFor[PolicyOf[s]]) + 1)
    BY <1>1, <1>3 DEF Bounded
  <2>4. GatesLeft(s, op[s]) \in Nat
    BY <2>2, <2>3 DEF GatesLeft
  <2>5. left = 2 * GatesLeft(s, op[s]) + 4 \/ left = 2 * GatesLeft(s, op[s]) + 3
    BY <1>3 DEF StepsLeft
  <2> HIDE DEF left
  <2>6. 0 < left
    BY <2>4, <2>5
  <2> QED
    BY <1>2, <2>6 DEF Shorter, left
<1>4. CASE op[s].call \notin {"gates", "gate", "idle"}
  <2>1. left \in {1, 2, 3, 4, 5}
    BY <1>4 DEF StepsLeft
  <2> HIDE DEF left
  <2>2. 0 < left
    BY <2>1
  <2> QED
    BY <1>2, <2>2 DEF Shorter, left
<1> QED
  BY <1>2, <1>3, <1>4 DEF Shorter

LEMMA RunGatesShortens ==
    ASSUME StepsInv, TypeInv', NEW s \in Sessions, RunGates(s)
    PROVE  StepsInv' /\ \A r \in Sessions : Shorter(r, op'[r])
<1>1. op \in [Sessions -> Operations] /\ op[s] \in Operations /\ Bounded(s, op[s])
  BY DEF StepsInv, TypeInv, TypeOK
<1> DEFINE n == Len(GatesFor[PolicyOf[s]])
<1>2. n \in Nat
  <2>1. GatesFor[PolicyOf[s]] \in Seq(Gates)
    BY SessionAssumption, PolicyAssumption
  <2> QED
    BY <2>1
<1>3. \A o : GatesLeft(s, o) = n + 1 - o.next
  BY DEF GatesLeft
<1>4. \A o : Bounded(s, o) <=> (o.call \in {"gates", "gate"} => o.next \in 1..(n + 1))
  BY DEF Bounded
<1>5. CASE StartGate(s)
  <2> DEFINE o == [op[s] EXCEPT !.call = "gate", !.seen = tree]
  <2>1. o.call = "gate" /\ o.next = op[s].next /\ op[s].call = "gates"
    BY <1>1, <1>5 DEF StartGate, Operations
  <2>2. op' = [op EXCEPT ![s] = o]
    BY <1>5 DEF StartGate
  <2> HIDE DEF o, n
  <2>3. op[s].next \in 1..(n + 1)
    BY <1>1, <1>4, <2>1
  <2>4. StepsLeft(s, o) = 2 * (n + 1 - op[s].next) + 3
        /\ StepsLeft(s, op[s]) = 2 * (n + 1 - op[s].next) + 4
    BY <1>3, <2>1 DEF StepsLeft
  <2>5. StepsLeft(s, o) < StepsLeft(s, op[s])
    BY <1>2, <2>3, <2>4
  <2>6. Bounded(s, o)
    BY <1>4, <2>1, <2>3
  <2> QED
    BY <2>2, <2>5, <2>6, OpShortens DEF Shorter
<1>6. ASSUME NEW exited \in BOOLEAN, FinishGate(s, exited)
      PROVE  StepsInv' /\ \A r \in Sessions : Shorter(r, op'[r])
  <2>1. PICK receipt : op' = [op EXCEPT ![s] = [op[s] EXCEPT !.call = "gates", !.seen = None,
             !.batch[GatesFor[PolicyOf[s]][op[s].next]] = receipt, !.next = op[s].next + 1]]
    BY <1>6 DEF FinishGate
  <2> DEFINE o == [op[s] EXCEPT !.call = "gates", !.seen = None,
             !.batch[GatesFor[PolicyOf[s]][op[s].next]] = receipt, !.next = op[s].next + 1]
  <2>2. o.call = "gates" /\ o.next = op[s].next + 1 /\ op[s].call = "gate"
    BY <1>1, <1>6 DEF FinishGate, Operations
  <2>3. op[s].next \in 1..n
    BY <2>2 DEF StepsInv, TypeInv, Shaped
  <2>4. op' = [op EXCEPT ![s] = o]
    BY <2>1
  <2> HIDE DEF o, n
  <2>5. StepsLeft(s, o) = 2 * (n + 1 - (op[s].next + 1)) + 4
        /\ StepsLeft(s, op[s]) = 2 * (n + 1 - op[s].next) + 3
    BY <1>3, <2>2 DEF StepsLeft
  <2>6. StepsLeft(s, o) < StepsLeft(s, op[s])
    BY <1>2, <2>3, <2>5
  <2>7. op[s].next + 1 \in 1..(n + 1)
    BY <1>2, <2>3
  <2>8. Bounded(s, o)
    BY <1>4, <2>2, <2>7
  <2> QED
    BY <2>4, <2>6, <2>8, OpShortens DEF Shorter
<1>7. CASE FinishBatch(s)
  <2> DEFINE o == [op[s] EXCEPT !.call = "gates_ran"]
  <2>1. o.call = "gates_ran" /\ op[s].call = "gates"
    BY <1>1, <1>7 DEF FinishBatch, Operations
  <2>2. op' = [op EXCEPT ![s] = o]
    BY <1>7 DEF FinishBatch
  <2> HIDE DEF o, n
  <2>3. op[s].next \in 1..(n + 1)
    BY <1>1, <1>4, <2>1
  <2>4. StepsLeft(s, o) \in {1, 2, 3}
        /\ StepsLeft(s, op[s]) = 2 * (n + 1 - op[s].next) + 4
    BY <1>3, <2>1 DEF StepsLeft
  <2>5. StepsLeft(s, o) < StepsLeft(s, op[s])
    BY <1>2, <2>3, <2>4
  <2>6. Bounded(s, o)
    BY <1>4, <2>1
  <2> QED
    BY <2>2, <2>5, <2>6, OpShortens DEF Shorter
<1>8. CASE LateFingerprint(s)
  <2> DEFINE o == [op[s] EXCEPT !.seen = tree]
  <2>1. /\ o.call = op[s].call /\ op[s].call \in LateFingerprints
        /\ op[s].seen = None /\ o.seen = tree /\ o.copy = op[s].copy
    BY <1>1, <1>8 DEF LateFingerprint, Operations
  <2>2. op' = [op EXCEPT ![s] = o]
    BY <1>8 DEF LateFingerprint
  <2>3. tree \in Trees /\ None \notin Trees
    BY NoneAssumption DEF StepsInv, TypeInv, TypeOK
  <2> HIDE DEF o, n
  <2>5. StepsLeft(s, o) < StepsLeft(s, op[s])
    BY <2>1, <2>3 DEF StepsLeft, LateFingerprints
  <2>6. Bounded(s, o)
    BY <1>4, <2>1 DEF LateFingerprints
  <2> QED
    BY <2>2, <2>5, <2>6, OpShortens DEF Shorter
<1> QED
  BY <1>5, <1>6, <1>7, <1>8 DEF RunGates

LEMMA CallAnyShortens ==
    ASSUME StepsInv, TypeInv', NEW s \in Sessions, CallAny(s)
    PROVE  StepsInv' /\ \A r \in Sessions : Shorter(r, op'[r])
<1>1. ASSUME NEW name, NEW call, NEW actor, NEW seen, NEW verdict,
             Begin(s, name, call, actor, seen, verdict)
      PROVE  StepsInv' /\ \A r \in Sessions : Shorter(r, op'[r])
  <2> DEFINE o == [Idle EXCEPT !.call = call, !.actor = actor,
                               !.seen = seen, !.verdict = verdict]
  <2>1. o.next = 1
    BY DEF Idle
  <2>2. op' = [op EXCEPT ![s] = o]
    BY <1>1 DEF Begin
  <2> HIDE DEF o
  <2>6. op[s].call = "idle"
    <3>1. op[s] = Idle /\ Idle.call = "idle"
      BY <1>1 DEF Begin, Idle
    <3> QED
      BY <3>1
  <2>3. GatesFor[PolicyOf[s]] \in Seq(Gates)
    BY SessionAssumption, PolicyAssumption
  <2>4. 1 \in 1..(Len(GatesFor[PolicyOf[s]]) + 1)
    <3>1. Len(GatesFor[PolicyOf[s]]) \in Nat
      BY <2>3
    <3> QED
      BY <3>1
  <2>5. Bounded(s, o) /\ Shorter(s, o)
    BY <2>1, <2>4, <2>6 DEF Bounded, Shorter
  <2> QED
    BY <2>2, <2>5, OpShortens
<1> QED
  BY <1>1 DEF CallAny, CallSubmit, CallControl, CallSubmitQA, CallVerify

LEMMA LoadShortens ==
    ASSUME StepsInv, TypeInv', NEW s \in Sessions, Load(s)
    PROVE  StepsInv' /\ \A r \in Sessions : Shorter(r, op'[r])
<1> DEFINE o == [op[s] EXCEPT !.copy = task]
<1>1. op[s] \in Operations /\ op[s].call \in Updates /\ op[s].copy = None
  BY DEF StepsInv, TypeInv, TypeOK, Load, Holds
<1>2. /\ o.copy = task /\ o.call = op[s].call /\ o.seen = op[s].seen
      /\ task = None => o = op[s]
  BY <1>1 DEF Operations
<1>3. op' = [op EXCEPT ![s] = o]
  BY DEF Load
<1> HIDE DEF o
<1>4. task # None => StepsLeft(s, o) < StepsLeft(s, op[s])
  BY <1>1, <1>2 DEF StepsLeft, Updates, LateFingerprints
<1>5. Bounded(s, o)
  BY <1>1, <1>2 DEF Bounded, Updates
<1> QED
  BY <1>2, <1>3, <1>4, <1>5, OpShortens DEF Shorter

LEMMA MutateShortens ==
    ASSUME StepsInv, TypeInv', NEW s \in Sessions, Mutate(s)
    PROVE  StepsInv' /\ \A r \in Sessions : Shorter(r, op'[r])
<1>1. ASSUME op' = [op EXCEPT ![s] = Idle]
      PROVE  StepsInv' /\ \A r \in Sessions : Shorter(r, op'[r])
  BY <1>1, IdleShorter, OpShortens
<1>2. CASE ReviewStands(s)
  <2> DEFINE o == [op[s] EXCEPT !.call = "record_qa", !.copy = None]
  <2>1. op[s] \in Operations /\ op[s].call = "submit_qa"
    BY <1>2 DEF StepsInv, TypeInv, TypeOK, ReviewStands, Loaded
  <2>2. o.call = "record_qa" /\ o.copy = None
    BY <2>1 DEF Operations
  <2>3. op' = [op EXCEPT ![s] = o]
    BY <1>2 DEF ReviewStands
  <2> HIDE DEF o
  <2>4. StepsLeft(s, o) = 2 /\ StepsLeft(s, op[s]) \in {3, 4}
    BY <2>1, <2>2 DEF StepsLeft, LateFingerprints
  <2>5. StepsLeft(s, o) < StepsLeft(s, op[s])
    BY <2>4
  <2>6. Bounded(s, o)
    BY <2>2 DEF Bounded
  <2> QED
    BY <2>3, <2>5, <2>6, OpShortens DEF Shorter
<1> QED
  BY <1>1, <1>2 DEF Mutate, Save, SubmitPlan, SubmitImplementation, VerifyPolicyChanged,
     VerifyGatesRan, ReviewStale, RecordQA, Complete, Block, Resume, Cancel

LEMMA NextShortens ==
    ASSUME StepsInv, [Next]_vars
    PROVE  StepsInv' /\ \A r \in Sessions : Shorter(r, op'[r])
<1>1. TypeInv'
  BY NextType DEF StepsInv
<1>2. CASE Edit \/ UNCHANGED vars
  BY <1>1, <1>2 DEF Edit, vars, StepsInv, Bounded, Shorter
<1>3. ASSUME NEW s \in Sessions, GiveUp(s)
      PROVE  StepsInv' /\ \A r \in Sessions : Shorter(r, op'[r])
  BY <1>1, <1>3, IdleShorter, OpShortens DEF GiveUp
<1> QED
  BY <1>1, <1>2, <1>3, CallAnyShortens, RunGatesShortens, LoadShortens, MutateShortens DEF Next

\* No call runs on for ever: whatever the other sessions and the tree do, every
\* step of a call leaves it fewer to take, so it returns after at most two for each
\* gate and four more (RunGates, SubmitQA with its two updates, Store.Update).
\* What VerificationSettles asks of fairness is only that these steps are taken.
THEOREM CallsEnd ==
    Spec => /\ [](\A s \in Sessions :
                    StepsLeft(s, op[s]) \in 0..(2 * Len(GatesFor[PolicyOf[s]]) + 4))
            /\ [][\A s \in Sessions :
                    op[s].call # "idle" /\ op'[s] # op[s]
                        => StepsLeft(s, op'[s]) < StepsLeft(s, op[s])]_vars
<1>1. Init => StepsInv
  <2> SUFFICES ASSUME Init PROVE StepsInv
    OBVIOUS
  <2>1. \A s \in Sessions : op[s].call = "idle"
    BY DEF Init, Idle
  <2> QED
    BY <2>1, InitType DEF StepsInv, Bounded
<1>2. StepsInv /\ [Next]_vars => StepsInv'
  BY NextShortens
<1>3. StepsInv => \A s \in Sessions :
         StepsLeft(s, op[s]) \in 0..(2 * Len(GatesFor[PolicyOf[s]]) + 4)
  BY StepsBounded DEF StepsInv, TypeInv, TypeOK
<1>4. StepsInv /\ [Next]_vars
         => [\A s \in Sessions : op[s].call # "idle" /\ op'[s] # op[s]
                => StepsLeft(s, op'[s]) < StepsLeft(s, op[s])]_vars
  BY NextShortens DEF Shorter
<1> QED
  BY <1>1, <1>2, <1>3, <1>4, PTL DEF Spec

-----------------------------------------------------------------------------
(***************************************************************************)
(* An approved task waits for its tree.                                    *)
(***************************************************************************)

\* What the stage of an approved task, and a parked task, can be left by.
ReadyExits ==
    /\ \A action \in Actions :
          /\ Permits(Graph, "ready_to_complete", action) =>
                action \in {"completed", "code_changed", "blocked", "cancelled"}
          /\ Permits(Graph, "blocked", action) => action \in {"resumed", "cancelled"}
    /\ Permits(Graph, "ready_to_complete", "completed") =>
          Graph["ready_to_complete"]["completed"] = "complete"

LEMMA BuiltinReadyExits == Graph = builtinTransitions => ReadyExits
  BY DEF ReadyExits, Permits, builtinTransitions

\* The record shows what an approval of w under p rests on.
Rests(t, p, w) == \A g \in RequiredGates[p] : Stands(t.receipts[g], p, w)

EvidenceKept(t, u) == u.policy = t.policy /\ u.receipts = t.receipts /\ u.qa = t.qa

\* The task is completed on the tree its evidence is for.
SettledBy(s) ==
    /\ Complete(s)
    /\ Rests(task, task.policy, op[s].seen)
    /\ IndependentQA[task.policy] => task.qa.tree = op[s].seen

WaitsForTree ==
    Stage(task) = "ready_to_complete" =>
        \/ \E s \in Sessions : ReviewStale(s)
        \/ /\ EvidenceKept(task, task')
           /\ \/ Stage(task') \in {"ready_to_complete", "cancelled"}
              \/ task'.state = "complete" /\ \E s \in Sessions : SettledBy(s)

AwaitsItsTree == [][WaitsForTree]_vars

LEMMA TransitionKeeps ==
    ASSUME NEW t \in Tasks, NEW action
    PROVE  EvidenceKept(t, Transition(Graph, t, action))
  BY DEF EvidenceKept, Transition, Tasks

LEMMA CompleteSettles ==
    ASSUME ReadyExits, SerialInv, NEW s \in Sessions, Complete(s)
    PROVE  WaitsForTree
<1>1. op[s].copy = task /\ task \in Tasks
  BY DEF Complete, Loaded, SerialInv, TypeInv, TypeOK
<1>2. Permits(Graph, task.state, "completed") /\ "completed" \in Actions
  BY <1>1 DEF Complete, Actions
<1>3. SUFFICES ASSUME Stage(task) = "ready_to_complete" PROVE WaitsForTree
  BY DEF WaitsForTree
<1>4. task.state = "ready_to_complete"
  BY <1>2, <1>3 DEF Stage, ReadyExits
<1>5. task' = Transition(Graph, task, "completed")
  BY <1>1 DEF Complete, Save
<1>6. task'.state = "complete"
  <2>1. task'.state = Target(Graph, task, "completed")
    BY <1>1, <1>5, TransitionFields
  <2>2. QED
    BY <1>2, <1>4, <2>1 DEF Target, ReadyExits
<1>7. EvidenceKept(task, task')
  BY <1>1, <1>5, TransitionKeeps
<1>8. SettledBy(s)
  <2>1. EvidenceSuffices(task, PolicyOf[s], op[s].seen)
    BY <1>1 DEF Complete
  <2>2. task.policy = PolicyOf[s] /\ Rests(task, task.policy, op[s].seen)
    BY <2>1 DEF EvidenceSuffices, VerificationProblem, Rests
  <2>3. IndependentQA[task.policy] => task.qa.tree = op[s].seen
    BY <2>1, <2>2 DEF EvidenceSuffices, QAProblem
  <2>4. QED
    BY <2>2, <2>3 DEF SettledBy
<1>9. QED
  BY <1>6, <1>7, <1>8 DEF WaitsForTree

\* Parking, reopening and abandoning keep the evidence, and the stage unless
\* the task is abandoned.
LEMMA ControlWaits ==
    ASSUME Orderly, ReadyExits, SerialInv, NEW s \in Sessions,
           Block(s) \/ Resume(s) \/ Cancel(s)
    PROVE  WaitsForTree
<1>1. op[s].copy = task /\ task \in Tasks
  BY DEF Block, Resume, Cancel, Loaded, SerialInv, TypeInv, TypeOK
<1>2. SUFFICES ASSUME Stage(task) = "ready_to_complete" PROVE WaitsForTree
  BY DEF WaitsForTree
<1>3. PICK action \in {"blocked", "resumed", "cancelled"} :
          Permits(Graph, task.state, action) /\ task' = Transition(Graph, task, action)
  BY <1>1 DEF Block, Resume, Cancel, Save
<1>4. /\ EvidenceKept(task, task')
      /\ task'.state = Target(Graph, task, action)
      /\ task'.resume = ResumeAfter(task, action)
  BY <1>1, <1>3, TransitionKeeps, TransitionFields
<1>5. /\ ParksOnce(task.state, action, Graph[task.state][action])
      /\ action = "cancelled" => Graph[task.state][action] = "cancelled"
  BY <1>3, Moves
<1>6. CASE action = "blocked"
  <2>1. task.state # "blocked" /\ task'.state = "blocked"
    BY <1>4, <1>5, <1>6 DEF ParksOnce, Target, activeState
  <2>2. task.state = "ready_to_complete"
    BY <1>2, <2>1 DEF Stage
  <2>3. task'.resume = "ready_to_complete"
    BY <1>4, <1>6, <2>2 DEF ResumeAfter, activeState
  <2>4. QED
    BY <1>4, <2>1, <2>3 DEF WaitsForTree, Stage
<1>7. CASE action = "resumed"
  <2>1. task.resume = "ready_to_complete"
    BY <1>2, <1>5, <1>7 DEF ParksOnce, Stage
  <2>2. task'.state = "ready_to_complete"
    BY <1>4, <1>7, <2>1 DEF Target
  <2>3. QED
    BY <1>4, <2>2 DEF WaitsForTree, Stage
<1>8. CASE action = "cancelled"
  <2>1. task'.state = "cancelled"
    BY <1>4, <1>5, <1>8 DEF Target
  <2>2. QED
    BY <1>4, <2>1 DEF WaitsForTree, Stage
<1>9. QED
  BY <1>3, <1>6, <1>7, <1>8

LEMMA MutateWaits ==
    ASSUME Orderly, ReadyExits, SerialInv, NEW s \in Sessions, Mutate(s)
    PROVE  WaitsForTree
<1>1. CASE Complete(s)
  BY <1>1, CompleteSettles
<1>2. CASE Block(s) \/ Resume(s) \/ Cancel(s)
  BY <1>2, ControlWaits
<1>3. CASE ReviewStale(s)
  BY <1>3 DEF WaitsForTree
<1>4. CASE ReviewStands(s)
  <2>1. task' = task
    BY <1>4 DEF ReviewStands, Loaded, SerialInv
  <2>2. QED
    BY <2>1 DEF WaitsForTree, EvidenceKept, Stage
<1>5. CASE \/ SubmitPlan(s) \/ SubmitImplementation(s) \/ VerifyPolicyChanged(s)
           \/ VerifyGatesRan(s) \/ RecordQA(s)
  <2>1. PICK action \in Actions :
            /\ action \notin {"completed", "code_changed", "blocked", "resumed", "cancelled"}
            /\ Permits(Graph, task.state, action)
    <3>1. op[s].copy = task
      BY <1>5 DEF SubmitPlan, SubmitImplementation, VerifyPolicyChanged, VerifyGatesRan,
                  RecordQA, Loaded, SerialInv
    <3>2. QED
      BY <1>5, <3>1 DEF SubmitPlan, SubmitImplementation, VerifyPolicyChanged,
                        VerifyGatesRan, GateAction, RecordQA, VerdictAction, Actions
  <2>2. Stage(task) # "ready_to_complete"
    BY <2>1 DEF ReadyExits, Stage
  <2>3. QED
    BY <2>2 DEF WaitsForTree
<1>6. QED
  BY <1>1, <1>2, <1>3, <1>4, <1>5 DEF Mutate

\* An approved task whose tree has moved is not completed, in one process and
\* for any sessions, policies and gates: until a reviewer's call finds its
\* evidence stale, the evidence stays what it was, parked or not, and Complete
\* takes only the tree that evidence is for.  Nothing sends the task back to be
\* verified by itself (Complete, SubmitQA).
THEOREM ApprovalWaitsForItsTree ==
    ASSUME OneProcess, Orderly, ReadyExits
    PROVE  Spec => AwaitsItsTree
<1>1. SerialInv /\ [Next]_vars => [WaitsForTree]_vars
  <2>1. SUFFICES ASSUME SerialInv, Next PROVE WaitsForTree
    OBVIOUS
  <2>2. CASE \E s \in Sessions : Mutate(s)
    BY <2>1, <2>2, MutateWaits
  <2>3. CASE ~ \E s \in Sessions : Mutate(s)
    <3>1. task' = task
      BY <2>1, <2>3 DEF Next, Edit, CallAny, CallSubmit, CallControl, CallSubmitQA,
         CallVerify, Begin, RunGates, StartGate, FinishGate, FinishBatch, LateFingerprint,
         Load, GiveUp
    <3>2. QED
      BY <3>1 DEF WaitsForTree, EvidenceKept, Stage
  <2>4. QED
    BY <2>2, <2>3
<1>2. SerialInv /\ [Next]_vars => SerialInv'
  BY SerialNext
<1>3. QED
  BY <1>1, <1>2, SerialInit, PTL DEF Spec, AwaitsItsTree

=============================================================================
