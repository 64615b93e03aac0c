------------------------------ MODULE MCSession ------------------------------
(***************************************************************************)
(* Instances of GovernedSession for TLC.                                   *)
(***************************************************************************)
EXTENDS GovernedSession

\* What an operator can do to a task from the command line, and a block.
OperatorActions == {"blocked", "resumed", "cancelled"}

\* A policy that declares the builtin graph again, to give stages settings: the
\* implementer may delegate and has a budget, planning skips the warning, and
\* the reviewer is only ever warned.
Plain == [allow |-> {}, delegate |-> FALSE, budget |-> 0, ladder |-> <<>>]
Editing == [Plain EXCEPT !.delegate = TRUE, !.budget = 1]

DeclaredRules ==
    [state \in DOMAIN builtinTransitions |->
        CASE IsEditingState(state) -> Editing
          [] state = "planning" -> [Plain EXCEPT !.ladder = <<"force", "auto">>]
          [] state = "qa_review" ->
                [Plain EXCEPT !.ladder = <<"warn">>,
                              !.allow = {"bash", "workflow_submit_qa",
                                         "workflow_block"}]
          [] OTHER -> Plain]

=============================================================================
