------------------------------ MODULE Workflow ------------------------------
(***************************************************************************)
(* The pure workflow domain: states, actions, roles and the transition     *)
(* machine (internal/workflow/types.go and machine.go).                    *)
(*                                                                         *)
(* A graph is a function from states to functions from actions to states,  *)
(* as the code's map[State]map[Action]State.  A state outside the graph's  *)
(* domain has no exit.  Audit events, timestamps and the revision counter  *)
(* that Transition also writes are the business of the task store.         *)
(***************************************************************************)

BuiltinStates ==
    {"planning", "implementing", "verifying", "qa_review", "changes_requested",
     "ready_to_complete", "complete", "blocked", "cancelled"}

Actions ==
    {"plan_submitted", "implementation_submitted", "gates_verified",
     "gate_failed", "qa_approved", "qa_rejected", "code_changed", "completed",
     "blocked", "resumed", "cancelled"}

Roles == {"orchestrator", "planner", "implementer", "reviewer"}

builtinTransitions ==
    [planning |->
        [plan_submitted |-> "implementing",
         blocked |-> "blocked", cancelled |-> "cancelled"],
     implementing |->
        [implementation_submitted |-> "verifying",
         blocked |-> "blocked", cancelled |-> "cancelled"],
     verifying |->
        [gates_verified |-> "qa_review", gate_failed |-> "implementing",
         blocked |-> "blocked", cancelled |-> "cancelled"],
     qa_review |->
        [qa_approved |-> "ready_to_complete",
         qa_rejected |-> "changes_requested", code_changed |-> "verifying",
         blocked |-> "blocked", cancelled |-> "cancelled"],
     changes_requested |->
        [implementation_submitted |-> "verifying",
         blocked |-> "blocked", cancelled |-> "cancelled"],
     ready_to_complete |->
        [completed |-> "complete", code_changed |-> "verifying",
         blocked |-> "blocked", cancelled |-> "cancelled"],
     blocked |-> [resumed |-> "planning", cancelled |-> "cancelled"]]

\* The states a graph can put a task in.  Policy validation lets a transition
\* target any declared state and any builtin one, declared or not.
StatesOf(graph) == BuiltinStates \cup DOMAIN graph

Permits(graph, state, action) ==
    /\ state \in DOMAIN graph
    /\ action \in DOMAIN graph[state]

IsTerminal(graph, state) == \A action \in Actions : ~Permits(graph, state, action)

IsEditingState(state) == state \in {"implementing", "changes_requested"}

\* RoleForState: the role that owns a stage, "" for none.
RoleForState(state) ==
    CASE state = "planning" -> "planner"
      [] IsEditingState(state) -> "implementer"
      [] state = "qa_review" -> "reviewer"
      [] state = "ready_to_complete" -> "orchestrator"
      [] OTHER -> ""

\* The state a block returns to: "" when there is none to return to.
activeState(state) ==
    IF state \in {"blocked", "complete", "cancelled"} THEN "" ELSE state

\* Where the action takes a task.  Resuming prefers the remembered state.
Target(graph, task, action) ==
    IF action = "resumed" /\ task.resume # ""
    THEN task.resume
    ELSE graph[task.state][action]

\* What the task remembers after the action.
ResumeAfter(task, action) ==
    CASE action = "blocked" /\ activeState(task.state) # "" -> activeState(task.state)
      [] action = "resumed" -> ""
      [] OTHER -> task.resume

\* The task after a permitted action.
Transition(graph, task, action) ==
    [task EXCEPT !.state = Target(graph, task, action),
                 !.resume = ResumeAfter(task, action)]

=============================================================================
