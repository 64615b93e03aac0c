------------------------------- MODULE Config -------------------------------
(***************************************************************************)
(* The configuration (internal/config/config.go): the global file and then *)
(* the project's are laid over the defaults, and model references are      *)
(* looked up in the result.                                                *)
(*                                                                         *)
(* A file says what it mentions: a function from the settings it names to  *)
(* values, and its providers, each with a base URL, "" for none, and the   *)
(* set of models it declares.  A reference is a provider and a model.      *)
(***************************************************************************)
EXTENDS Integers, SequencesExt

Laid(under, over) ==
    [k \in DOMAIN under \cup DOMAIN over |-> IF k \in DOMAIN over THEN over[k] ELSE under[k]]

\* Mutation: a file that names providers replaces those of the files before.
mergeFileWholesale(config, file) ==
    [settings |-> Laid(config.settings, file.settings),
     providers |-> IF DOMAIN file.providers = {} THEN config.providers ELSE file.providers]

\* mergeFile: a provider named again is replaced as a whole, and no other is.
mergeFile(config, file) ==
    [settings |-> Laid(config.settings, file.settings),
     providers |-> Laid(config.providers, file.providers)]

NoRef == <<>>

\* Default: one endpoint that declares no models, no default model, no routing.
Default ==
    [settings |-> [enabled |-> FALSE, model |-> NoRef,
                   routing |-> "", small |-> NoRef, large |-> NoRef],
     providers |-> [ollama |-> [baseUrl |-> "given", models |-> {}]]]

Merged(files) == FoldLeft(mergeFile, Default, files)

\* ResolveModel: a provider that declares no models serves any.
Resolves(config, ref) ==
    /\ ref[1] \in DOMAIN config.providers
    /\ LET models == config.providers[ref[1]].models
       IN  models = {} \/ ref[2] \in models

\* Validate: a provider without a base URL is refused, used or not; routing is
\* only looked at when it is automatic.
Validate(config) ==
    LET set == config.settings IN
    /\ DOMAIN config.providers # {}
    /\ \A id \in DOMAIN config.providers : config.providers[id].baseUrl # ""
    /\ set.model # NoRef => Resolves(config, set.model)
    /\ set.routing = "auto" =>
            \A ref \in {set.small, set.large} : ref # NoRef /\ Resolves(config, ref)

ModelRefs(config) ==
    UNION {{<<provider, model>> : model \in config.providers[provider].models} :
                provider \in DOMAIN config.providers}

=============================================================================
