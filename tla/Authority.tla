----------------------------- MODULE Authority -----------------------------
(***************************************************************************)
(* Whom a session acts as: the actor the controller checks, the permission *)
(* rules in force and the identity of the system prompt, which follow the  *)
(* stage of the task while the session is governed, and leave the workflow *)
(* when it is not (cmd/agentwarden/main.go).                               *)
(*                                                                         *)
(* An agent is a name; a role may be mapped to none, "", and a mapped name *)
(* may have no definition.  Rules are those of an agent, or the plain ones,*)
(* or "" for none.  The prompt is an agent's, "plain" or "governed".       *)
(***************************************************************************)
EXTENDS Workflow

\* assemble and build: the session before its task.  selected is the agent
\* named with -agent (explicit) or configured as the default, "" for none.
NewSession(agentFor, defined, selected, explicit) ==
    [agentFor |-> agentFor, defined |-> defined, selected |-> selected,
     explicit |-> explicit, governed |-> FALSE, stage |-> "", actor |-> "",
     rules |-> selected, prompt |-> ""]

HasTask(s) == s.stage # ""

\* The role whose agent acts in a stage, and that agent.
ActingRole(stage) ==
    IF RoleForState(stage) = "" THEN "orchestrator" ELSE RoleForState(stage)
Owner(s) ==
    LET mapped == s.agentFor[ActingRole(s.stage)]
    IN  IF mapped # "" THEN mapped ELSE s.selected

\* syncActor and syncPermissions: an owner without a definition leaves the
\* rules as they are.
syncActor(s) ==
    IF HasTask(s) /\ Owner(s) # ""
    THEN [s EXCEPT !.actor = Owner(s),
                   !.rules = IF Owner(s) \in s.defined THEN Owner(s) ELSE @]
    ELSE s

\* Mutation: the rules of the last stage stay in plain mode.
applyPlainPermissionsIfExplicit(s) ==
    IF s.explicit THEN [s EXCEPT !.rules = s.selected] ELSE s

applyPlainPermissions(s) ==
    [s EXCEPT !.rules = IF s.explicit THEN s.selected ELSE "plain"]

\* promptAgent and systemPrompt.
systemPrompt(s) ==
    CASE s.governed /\ s.actor \in s.defined -> s.actor
      [] s.governed /\ s.actor \notin s.defined /\ s.selected # "" -> s.selected
      [] s.governed /\ s.actor \notin s.defined /\ s.selected = "" -> "governed"
      [] ~s.governed /\ s.explicit -> s.selected
      [] ~s.governed /\ ~s.explicit -> "plain"

Prompted(s) == [s EXCEPT !.prompt = systemPrompt(s)]

\* build and newLoop: a session that starts governed, on a new task or one it
\* resumes, and one that starts plain.
StartGoverned(s, stage) == Prompted(syncActor([s EXCEPT !.governed = TRUE, !.stage = stage]))
StartPlain(s) == Prompted(applyPlainPermissions(s))

\* SetGoverned.  A session that has no task yet creates one.
SwitchOn(s, opening) ==
    Prompted(syncActor([s EXCEPT !.governed = TRUE, !.stage = IF @ = "" THEN opening ELSE @]))
SwitchOff(s) == Prompted(applyPlainPermissions([s EXCEPT !.governed = FALSE]))

\* OnStateChange and advanceVerification: the task is found in another stage.
Follow(s, stage) == Prompted(syncActor([s EXCEPT !.stage = stage]))

\* governedRunner.Run before every prompt.
Resync(s) == IF s.governed THEN syncActor(s) ELSE s

=============================================================================
