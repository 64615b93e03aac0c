------------------------------- MODULE Policy -------------------------------
(***************************************************************************)
(* A workflow policy (internal/workflow/policy.go): defaults, validation,  *)
(* the gates of a stage and the transition graph; and the spine the UI     *)
(* draws of a graph (internal/workflow/pipeline.go).                       *)
(*                                                                         *)
(* A policy is a sequence of gates, a states section, the agents of the    *)
(* two roles that must differ, and the switch that says they must.  A gate *)
(* or a switch may leave out what has a default.  Timeouts, output limits, *)
(* commands and the hash are not part of it.                               *)
(***************************************************************************)
EXTENDS Workflow, Lists, SequencesExt

Omitted == "omitted"
Given(value) == value # Omitted

GateIsRequired(gate) == gate.required \in {Omitted, "yes"}
RequiredGates(policy) ==
    Chosen(policy.gates, {i \in DOMAIN policy.gates : GateIsRequired(policy.gates[i])})
RequireIndependentQA(policy) == policy.independent \in {Omitted, "yes"}

\* A gate without run_at runs in verifying.
RunsIn(gate, state) ==
    IF gate.runAt = {} THEN state = "verifying" ELSE state \in gate.runAt
GatesFor(policy, state) ==
    Chosen(policy.gates, {i \in DOMAIN policy.gates : RunsIn(policy.gates[i], state)})

\* A states section replaces the builtin graph.
Transitions(policy) ==
    IF DOMAIN policy.states = {} THEN builtinTransitions ELSE policy.states

\* normalize makes the defaults explicit.
Explicitly(switch) == IF Given(switch) THEN switch ELSE "yes"
ExplicitGate(gate) == [gate EXCEPT !.required = Explicitly(@)]
normalize(policy) ==
    LET gates == [i \in DOMAIN policy.gates |-> ExplicitGate(policy.gates[i])]
    IN  [policy EXCEPT !.gates = gates, !.independent = Explicitly(@)]

GatesAreDistinct(policy) ==
    \A i, j \in DOMAIN policy.gates : policy.gates[i].id = policy.gates[j].id => i = j

isBuiltinState(state) == state \in DOMAIN builtinTransitions \cup {"complete", "cancelled"}

\* Mutation: only the stages that have actions are looked at.
TargetsAreDeclaredSources(policy) ==
    \A state \in DOMAIN policy.states :
        policy.states[state] = <<>> \/ isBuiltinState(state)

TargetsAreDeclared(policy) ==
    \A state \in DOMAIN policy.states : \A action \in DOMAIN policy.states[state] :
        \/ policy.states[state][action] \in DOMAIN policy.states
        \/ isBuiltinState(policy.states[state][action])

validate(policy) ==
    /\ policy.gates # <<>>
    /\ GatesAreDistinct(policy)
    /\ RequiredGates(policy) # <<>>
    /\ TargetsAreDeclared(policy)
    /\ RequireIndependentQA(policy) /\ policy.implementer # ""
            => policy.implementer # policy.reviewer

-----------------------------------------------------------------------------

\* forwardEdge: neither an escape hatch nor a stage already walked.
IsForward(graph, seen, state, action) ==
    /\ Permits(graph, state, action)
    /\ action \notin {"blocked", "cancelled"}
    /\ graph[state][action] \notin seen \cup {"blocked", "cancelled"}

\* The actions in the order of their names.
Alphabetical ==
    <<"blocked", "cancelled", "code_changed", "completed", "gate_failed",
      "gates_verified", "implementation_submitted", "plan_submitted",
      "qa_approved", "qa_rejected", "resumed">>

\* One stage further along the first forward edge, if there is one.
Onward(graph, path) ==
    LET edge == SelectInSeq(Alphabetical, LAMBDA action :
                    IsForward(graph, ToSet(path), Last(path), action))
    IN  IF edge = 0 THEN path
        ELSE Append(path, graph[Last(path)][Alphabetical[edge]])

\* Pipeline: the walk from planning until no edge leads forward, for which there
\* is time to visit every state.
Pipeline(graph) ==
    LET walk[n \in 0..Cardinality(StatesOf(graph))] ==
            IF n = 0 THEN <<"planning">> ELSE Onward(graph, walk[n - 1])
    IN  IF "planning" \notin DOMAIN graph
        THEN <<>>
        ELSE walk[Cardinality(StatesOf(graph))]

=============================================================================
