------------------------------ MODULE Evidence ------------------------------
(***************************************************************************)
(* Policies, receipts, QA verdicts and the two predicates that decide      *)
(* whether recorded evidence still stands (internal/enforce/receipt.go,    *)
(* internal/workflow/policy.go).                                           *)
(*                                                                         *)
(* A policy is known by its hash p \in Policies; the functions below give  *)
(* what each policy says.  Trees are work-tree fingerprints.               *)
(***************************************************************************)
EXTENDS Workflow, Naturals, Sequences

CONSTANTS
    Trees,         \* fingerprints of the work trees that can occur
    Agents,        \* agent IDs a session can run as
    Policies,      \* hashes of the policies in use
    Gates,         \* gate IDs declared by any policy
    RequiredGates, \* RequiredGates[p]: the gates that block completion
    GatesFor,      \* GatesFor[p]: the gates run in verifying, in order
    IndependentQA, \* IndependentQA[p]: workflow.require_independent_qa
    RequirePlan,   \* RequirePlan[p]: workflow.require_plan
    AgentFor,      \* AgentFor[p][role]: the agent of a role, "" when unset
    None           \* the value of a nil pointer or a missing map entry

\* Policy.validate: at least one required gate, and roles that differ when QA
\* must be independent.
ASSUME PolicyAssumption ==
    /\ RequiredGates \in [Policies -> (SUBSET Gates) \ {{}}]
    /\ GatesFor \in [Policies -> Seq(Gates)]
    /\ IndependentQA \in [Policies -> BOOLEAN]
    /\ RequirePlan \in [Policies -> BOOLEAN]
    /\ AgentFor \in [Policies -> [Roles -> Agents \cup {""}]]
    /\ \A p \in Policies :
          IndependentQA[p] /\ AgentFor[p]["implementer"] # ""
             => AgentFor[p]["implementer"] # AgentFor[p]["reviewer"]

Verdicts == {"approved", "rejected"}

Receipts == [success : BOOLEAN, policy : Policies, tree : Trees]

QAVerdicts ==
    [verdict : Verdicts, actor : Agents \cup {""}, policy : Policies, tree : Trees]

ASSUME NoneAssumption ==
    /\ None \notin Trees
    /\ None \notin Receipts
    /\ None \notin QAVerdicts

NoReceipts == [g \in Gates |-> None]

\* Mutation: the map of receipts becomes nil instead of empty.
InvalidateEvidenceToNil(task) == [task EXCEPT !.receipts = None, !.qa = None]

InvalidateEvidence(task) == [task EXCEPT !.receipts = NoReceipts, !.qa = None]

\* A receipt that counts for policy p and tree t.
Stands(receipt, p, t) ==
    /\ receipt # None
    /\ receipt.success
    /\ receipt.policy = p
    /\ receipt.tree = t

VerificationProblem(task, p, t) ==
    \/ task.policy # p
    \/ \E g \in RequiredGates[p] : ~Stands(task.receipts[g], p, t)

\* Mutation: an approval counts for whatever tree there is now.
QAProblemIgnoringTree(task, p, t) ==
    task.qa = None \/ task.qa.verdict # "approved" \/ task.qa.policy # p

QAProblem(task, p, t) ==
    \/ task.qa = None
    \/ task.qa.verdict # "approved"
    \/ task.qa.policy # p
    \/ task.qa.tree # t

\* Mutation: only the exit status is looked at.
classifyIgnoringTree(exited, before, after) == exited

\* classify: a gate whose command changed the tree it was judging fails
\* whatever its exit status; start failures, timeouts and non-zero exits are
\* the other reasons, and leave exited = FALSE.
classify(exited, before, after) == before = after /\ exited

=============================================================================
