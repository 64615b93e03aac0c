---------------------------- MODULE MCController ----------------------------
(* Finite instances of Controller for TLC. *)
EXTENDS Controller, TLC

CONSTANTS t1, t2, unit, lint, p1, p2, s1, s2, s3

MCAgents == {"lead", "engineer", "qa"}

\* The README's example policy, the tech lead also orchestrating.
MCAgentFor ==
    [p \in Policies |->
        [orchestrator |-> "lead", planner |-> "lead",
         implementer |-> "engineer", reviewer |-> "qa"]]

\* One required gate, then an optional one.
MCRequiredGates == [p \in Policies |-> {unit}]
MCGatesFor == [p \in Policies |-> <<unit, lint>>]

\* Two sessions of one process: s1 performs every operation as every agent, and
\* s2 cancels the task beside it.
AllAndCancel == (s1 :> Calls) @@ (s2 :> {"cancel"})
OperatorBeside == (s1 :> Agents) @@ (s2 :> {"lead"})

\* Three sessions of one process: s1 drives the task as the TUI does, taking
\* each stage's agent in turn, s2 reviews beside it, and s3, which loaded an
\* edited policy, verifies.
TrioCalls ==
    (s1 :> Calls \ {"block", "resume"}) @@ (s2 :> {"submit_qa"}) @@ (s3 :> {"verify"})
TrioActors == (s1 :> Agents) @@ (s2 :> {"qa"}) @@ (s3 :> {"lead"})
EditedPolicy == (s1 :> p1) @@ (s2 :> p1) @@ (s3 :> p2)

\* Two processes: a session that drives the task and, beside it, the one-shot
\* cancel of the command line.
DriverCalls == {"submit_implementation", "submit_qa", "verify", "complete"}
CancelBeside == (s1 :> DriverCalls) @@ (s2 :> {"cancel"})
JustUnit == [p \in Policies |-> <<unit>>]

AllFalse == [p \in Policies |-> FALSE]
AllTrue == [p \in Policies |-> TRUE]
OneProcess == [s \in Sessions |-> "agentwarden"]
TwoProcesses == [s \in Sessions |-> s]
OwnPolicy == [s \in Sessions |-> p1]

=============================================================================
