------------------------------- MODULE Parts -------------------------------
(***************************************************************************)
(* The parts of the program that decide by themselves, each driven alone   *)
(* over every small input: permissions, publication, the assembly of       *)
(* streamed calls, the policy, the configuration, the authority of a       *)
(* session, and the transcript.                                            *)
(***************************************************************************)
EXTENDS Transcript, Permission, Assembly, Policy, Config, Authority

CONSTANTS
    Agents,     \* the agents a session may have
    Indices, Ids, Names,  \* what a fragment of a streamed call may carry
    Endpoints, Models,    \* the providers a file may name, the models it may refer to
    Listings,             \* the sets of models it may declare with a provider
    MaxRules, MaxWords, MaxChunks, MaxGates, MaxTargets  \* bounds on inputs

\* No agent is called what stands for none, or for nobody's prompt and rules.
ASSUME PartsAssumption == Agents \cap {"", "plain", "governed"} = {}

VARIABLES
    part,   \* the part that is driven
    input   \* what it is given

partsVars == <<vars, part, input>>

Rules ==
    [action : {"edit", "shell"}, effect : Effects,
     resource : {[kind |-> "any"], [kind |-> "prefix", prefix |-> <<"src">>],
                 [kind |-> "members", members |-> {<<"src", "go">>, <<"doc">>}]}]
Resources == {<<"src", "go">>, <<"src", "c">>, <<"doc">>}

Words ==
    {"git", "gh", "push", "status", "pr", "merge", "release", "create",
     "-C", "--no-pager", "--git-dir=other"}

GateChoices ==
    [id : {"lint", "test"}, required : {Omitted, "yes", "no"},
     runAt : {{}, {"verifying"}, {"implementing"}}]
Edges == {"plan_submitted", "completed", "blocked"}
Ends == {"planning", "research", "complete", "blocked", "nowhere"}

Partial(keys, values) == UNION {[some -> values] : some \in SUBSET keys}
Settings ==
    {model @@ routing @@ refs :
        model \in Partial({"model"}, Endpoints \X Models),
        routing \in Partial({"routing"}, {"auto"}),
        refs \in Partial({"small", "large"}, Endpoints \X Models)}

\* A provider as a file declares it, or as a file names it again for its models
\* alone, without a base URL.
Declarations ==
    [baseUrl : {"given"}, models : Listings] \cup [baseUrl : {""}, models : {Models}]
Files == [settings : Settings, providers : Partial(Endpoints, Declarations)]

PlainPolicy ==
    [gates |-> <<[id |-> "test", required |-> Omitted, runAt |-> {}]>>, states |-> <<>>,
     implementer |-> "", reviewer |-> "", independent |-> Omitted]

\* A session starts with its roles mapped in any way to agents, any of whom may
\* lack a definition; only a defined agent can be selected.
PartsInit ==
    /\ Init
    /\ \/ part \in {"rules", "argv", "stream", "config"} /\ input = <<>>
       \/ part = "transcript" /\ input = <<>>
       \/ part = "graph" /\ input = PlainPolicy
       \/ part = "authority" /\ \E agentFor \in [Roles -> Agents \cup {""}],
                                  defined \in SUBSET Agents, explicit \in BOOLEAN :
            \E selected \in defined \cup {""} :
                /\ explicit => selected # ""
                /\ input = NewSession(agentFor, defined, selected, explicit)
       \/ part = "gates" /\ \E implementer, reviewer \in {"", "a", "b"},
                               independent \in {Omitted, "yes", "no"} :
            input = [PlainPolicy EXCEPT !.gates = <<>>, !.implementer = implementer,
                                        !.reviewer = reviewer, !.independent = independent]

Grow(name, limit, items) ==
    /\ part = name
    /\ Len(input) < limit
    /\ \E item \in items : input' = Append(input, item)

AddRule == Grow("rules", MaxRules, Rules)
AddWord == Grow("argv", MaxWords, Words)
\* What the nth chunk of a stream may be.
Chunks(n) == Fragments(Indices, Ids, Names, {n}) \cup {Text(n), Garbled, EndMark}
AddChunk == Grow("stream", MaxChunks, Chunks(Len(input) + 1))
AddFile == Grow("config", 2, Files)

AddGate ==
    /\ part = "gates"
    /\ Len(input.gates) < MaxGates
    /\ \E gate \in GateChoices : input' = [input EXCEPT !.gates = Append(@, gate)]

AddTarget ==
    /\ part = "graph"
    /\ \E state \in {"planning", "research"}, action \in Edges, end \in Ends :
        LET old == input.states
            on == IF state \in DOMAIN old THEN old[state] ELSE <<>>
        IN  /\ action \notin DOMAIN on
            /\ Cardinality(DOMAIN on) < MaxTargets
            /\ input' = [input EXCEPT !.states = Known(old, state, Known(on, action, end))]

\* A new session has no prompt yet.
Authorize ==
    /\ part = "authority"
    /\ \/ /\ input.prompt = ""
          /\ \/ \E stage \in BuiltinStates : input' = StartGoverned(input, stage)
             \/ input' = StartPlain(input)
       \/ /\ input.prompt # ""
          /\ \/ /\ ~input.governed
                /\ \E opening \in {"planning", "implementing"} : input' = SwitchOn(input, opening)
             \/ input.governed /\ input' = SwitchOff(input)
             \/ input.governed /\ \E stage \in BuiltinStates : input' = Follow(input, stage)
             \/ input' = Resync(input)

Extended == AddRule \/ AddWord \/ AddChunk \/ AddFile \/ AddGate \/ AddTarget \/ Authorize

PartsNext ==
    \/ Extended /\ UNCHANGED <<vars, part>>
    \/ part = "transcript" /\ Next /\ UNCHANGED <<part, input>>

PartsSpec == PartsInit /\ [][PartsNext]_partsVars

-----------------------------------------------------------------------------

\* "Later rules win": the last rule for the action and the resource decides, a
\* call no rule speaks of is asked about, a mode that approves answers the
\* asking and never a refusal, and reading needs no rule (Evaluate).
RulesDecide ==
    part = "rules" =>
        \A auto \in BOOLEAN, tool \in {"edit", "bash", "read"}, resource \in Resources :
            LET action == ActionOf(tool)
                spoken == {i \in DOMAIN input : Applies(input[i], action, resource)}
                stated == IF spoken = {} THEN "ask" ELSE input[Max(spoken)].effect
            IN  Evaluate(input, auto, action, resource) =
                    IF tool = "read" THEN "allow"
                    ELSE IF stated = "ask" /\ auto THEN "allow"
                    ELSE stated

\* An option of git, with its value where it takes one.
OptionUnits == {<<"-C", word>> : word \in Words} \cup {<<"--no-pager">>, <<"--git-dir=other">>}

\* Nothing but options stands between git and word i: a set of words at which an
\* option begins leads from the second word to it.
BehindOptions(i) ==
    \E begins \in SUBSET (2..i) :
        /\ {2, i} \subseteq begins
        /\ \A j \in begins \ {i} : \E k \in begins : SubSeq(input, j, k - 1) \in OptionUnits

\* "git -c protocol.version=2 push is still a push": a push is recognised behind
\* any options of git and nowhere else, in particular not as the value of an
\* option or as an argument of another subcommand (IsPublishCommand).
PushesAreSeen ==
    part = "argv" =>
        (IsPublishCommand(input) <=>
            \/ IsPrefix(<<"gh", "pr", "merge">>, input)
            \/ IsPrefix(<<"gh", "release", "create">>, input)
            \/ \E i \in 2..Len(input) :
                input[1] = "git" /\ input[i] = "push" /\ BehindOptions(i))

\* What a stream says before its end mark.
Heard == {i \in DOMAIN input : \A j \in 1..i : input[j].kind # "end"}
HeardOf(kind) == {i \in Heard : input[i].kind = kind}
Texts == Chosen(input, HeardOf("text"))

FirstOf(values) ==
    LET known == {i \in DOMAIN values : values[i] # ""}
    IN  IF known = {} THEN "" ELSE values[Min(known)]

\* Its calls, told apart by the key that each of their fragments has.
CallsBy(key) ==
    LET begins == {i \in DOMAIN key : \A j \in DOMAIN key : j < i => key[j] # key[i]}
        order == Chosen([i \in DOMAIN input |-> i], begins)
        of(n) == Chosen(input, {i \in DOMAIN key : key[i] = key[order[n]]})
        id(n) == FirstOf([i \in DOMAIN of(n) |-> of(n)[i].id])
        call(n) ==
            [id |-> IF id(n) = "" THEN <<"call", n>> ELSE <<"sent", id(n)>>,
             name |-> FirstOf([i \in DOMAIN of(n) |-> of(n)[i].name]),
             args |-> [i \in DOMAIN of(n) |-> of(n)[i].piece]]
    IN  Chosen([n \in DOMAIN order |-> call(n)], {n \in DOMAIN order : call(n).name # ""})

\* Whichever way an endpoint marks the fragments of a call, the calls come out
\* once, after the text and before the end, in order of arrival, each with all the
\* pieces of its arguments in order and none of another's, and with the first id
\* and name sent (mergeToolCall, flush).
CallsAssembled ==
    part = "stream" =>
        LET fragments == HeardOf("fragment")
            index == [i \in fragments |-> input[i].index]
            id == [i \in fragments |-> input[i].id]
        IN  /\ (\A i \in fragments : index[i] # NoIndex) =>
                    Events(input) = Texts \o CallsBy(index) \o <<EndMark>>
            /\ (\A i \in fragments : index[i] = NoIndex /\ id[i] # "") =>
                    Events(input) = Texts \o CallsBy(id) \o <<EndMark>>

\* A policy that is accepted has a graph that leads nowhere undeclared, gates
\* that their ids tell apart, one of them required, and two agents where review
\* is independent; it decides as it does with its defaults spelled out; and the
\* spine the UI draws of it is a walk through its graph from planning on, that
\* visits no stage twice and stops only where nothing new lies ahead (validate,
\* normalize, Pipeline).
PolicyIsSound ==
    LET graph == Transitions(input)
        spine == Pipeline(graph)
        ahead(state) == {graph[state][action] : action \in
                            {a \in Actions \ {"blocked", "cancelled"} : Permits(graph, state, a)}}
    IN  part \in {"gates", "graph"} /\ validate(input) =>
            /\ \A state \in DOMAIN graph : \A action \in DOMAIN graph[state] :
                    graph[state][action] \in StatesOf(graph)
            /\ \E i \in DOMAIN input.gates : input.gates[i].required # "no"
            /\ Cardinality({input.gates[i].id : i \in DOMAIN input.gates}) = Len(input.gates)
            /\ input.implementer = input.reviewer =>
                    input.implementer = "" \/ input.independent = "no"
            /\ validate(normalize(input))
            /\ \A state \in {"verifying", "implementing"} :
                    GatesFor(normalize(input), state) = normalize(
                        [input EXCEPT !.gates = GatesFor(input, state)]).gates
            /\ (spine = <<>>) <=> "planning" \notin DOMAIN graph
            /\ IsInjective(spine)
            /\ \A i \in 2..Len(spine) : spine[i] \in ahead(spine[i - 1])
            /\ spine # <<>> =>
                    ahead(Last(spine)) \subseteq ToSet(spine) \cup {"blocked", "cancelled"}

\* What the project's file mentions is as it says, what only the global file
\* mentions as that says, and the rest as by default ("project config overrides
\* only what it mentions"): setting by setting, but provider by provider, so that
\* a file which names one again for its models alone takes its base URL away, and
\* the configuration is refused (mergeFile).  It is accepted exactly when every
\* provider has a base URL where it is mentioned last and every model named or
\* routed to is served there, whichever files they come from (Validate).
LaterFileWins ==
    part = "config" /\ Len(input) = 2 =>
        LET config == Merged(input)
            set == config.settings
            LastSaid(key, Of(_)) ==
                LET said == {i \in 1..2 : key \in DOMAIN Of(input[i])}
                IN  IF said = {} THEN Of(Default)[key] ELSE Of(input[Max(said)])[key]
            Provider(id) == LastSaid(id, LAMBDA file : file.providers)
            Named == {set.model}
                \cup (IF set.routing = "auto" THEN {set.small, set.large} ELSE {})
            Served(ref) ==
                \E i \in 1..2 :
                    /\ ref[1] \in DOMAIN input[i].providers \cup {"ollama"}
                    /\ LET models == Provider(ref[1]).models
                       IN  models = {} \/ ref[2] \in models
        IN  /\ \A key \in DOMAIN set : set[key] = LastSaid(key, LAMBDA file : file.settings)
            /\ \A i \in 1..2 : DOMAIN input[i].providers \subseteq DOMAIN config.providers
            /\ \A key \in DOMAIN config.providers :
                    config.providers[key] = Provider(key)
            /\ \A ref \in ModelRefs(config) : Resolves(config, ref)
            /\ Validate(config) <=>
                 /\ \A id \in {"ollama"} \cup UNION {DOMAIN input[i].providers : i \in 1..2} :
                       Provider(id).baseUrl # ""
                 /\ \A ref \in Named :
                       IF ref = NoRef
                       THEN set.routing # "auto" \/ ref \notin {set.small, set.large}
                       ELSE Served(ref)

\* A governed session acts, is prompted and may do things as the agent that owns
\* the stage, and a plain one as the agent the operator named, or as nobody's:
\* "nothing about the workflow follows the session into plain mode", nor plain
\* mode into a stage whose owner is defined, whichever way the session came to
\* its mode and stage (SetGoverned, syncActor, build, loadSession).
AuthorityFollows ==
    part = "authority" /\ input.prompt # "" =>
        IF input.governed
        THEN Owner(input) \in input.defined =>
                /\ input.actor = Owner(input)
                /\ input.rules = Owner(input)
                /\ input.prompt = Owner(input)
        ELSE /\ input.rules = IF input.explicit THEN input.selected ELSE "plain"
             /\ input.prompt = input.rules

=============================================================================
