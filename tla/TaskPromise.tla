----------------------------- MODULE TaskPromise -----------------------------
(***************************************************************************)
(* What the controller promises about a governed task, with no word of     *)
(* how: work on a basis (a policy and a tree) is proven when its gates     *)
(* pass, only proven work is approved, only proven and approved work       *)
(* finishes the task, a task can be parked and reopened, and once it is    *)
(* finished or abandoned nothing changes it.  Approvals are those a        *)
(* reviewer other than the implementer gave.                               *)
(***************************************************************************)

CONSTANTS
    Bases,   \* what evidence is bound to
    Reviewed, \* the bases whose policy demands an approval
    Nothing  \* the outcome of an unfinished task

VARIABLES phase, proven, approved, outcome

promised == <<phase, proven, approved, outcome>>

Init ==
    /\ phase = "open"
    /\ proven = {}
    /\ approved = {}
    /\ outcome = Nothing

Prove(b) ==
    /\ proven' = proven \cup {b}
    /\ UNCHANGED <<phase, approved, outcome>>

Approve(b) ==
    /\ b \in proven
    /\ approved' = approved \cup {b}
    /\ UNCHANGED <<phase, proven, outcome>>

Finish(b) ==
    /\ phase = "open"
    /\ b \in proven
    /\ b \in Reviewed => b \in approved
    /\ phase' = "finished"
    /\ outcome' = b
    /\ UNCHANGED <<proven, approved>>

Park ==
    /\ phase = "open"
    /\ phase' = "parked"
    /\ UNCHANGED <<proven, approved, outcome>>

Reopen ==
    /\ phase = "parked"
    /\ phase' = "open"
    /\ UNCHANGED <<proven, approved, outcome>>

Abandon ==
    /\ phase \in {"open", "parked"}
    /\ phase' = "abandoned"
    /\ UNCHANGED <<proven, approved, outcome>>

Next ==
    \/ \E b \in Bases : Prove(b) \/ Approve(b) \/ Finish(b)
    \/ Park \/ Reopen \/ Abandon

Spec == Init /\ [][Next]_promised

=============================================================================
