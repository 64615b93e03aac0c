----------------------------- MODULE Permission -----------------------------
(***************************************************************************)
(* What a tool call may do without asking (internal/enforce/permission.go) *)
(* and which commands publish work (internal/enforce/publish.go).          *)
(*                                                                         *)
(* A resource is a sequence of words.  A pattern matches everything, what  *)
(* begins with a prefix, or the members of a set, which is what a glob or  *)
(* a literal comes to.                                                     *)
(***************************************************************************)
EXTENDS Integers, SequencesExt

Effects == {"allow", "ask", "deny"}

matchResource(pattern, resource) ==
    CASE pattern.kind = "any" -> TRUE
      [] pattern.kind = "prefix" -> IsPrefix(pattern.prefix, resource)
      [] pattern.kind = "members" -> resource \in pattern.members

Applies(rule, action, resource) ==
    rule.action = action /\ matchResource(rule.resource, resource)

\* Mutation: the first rule that applies decides.
EvaluateFirst(rules, auto, action, resource) ==
    LET first == SelectInSeq(rules, LAMBDA rule : Applies(rule, action, resource))
        effect == IF first = 0 THEN "ask" ELSE rules[first].effect
    IN  IF action = "" \/ (effect = "ask" /\ auto) THEN "allow" ELSE effect

\* Evaluate: "" is the action of tools that only read.
Evaluate(rules, auto, action, resource) ==
    LET effect == FoldLeft(LAMBDA sofar, rule :
                            IF Applies(rule, action, resource) THEN rule.effect ELSE sofar,
                           "ask", rules)
    IN  IF action = "" \/ (effect = "ask" /\ auto) THEN "allow" ELSE effect

\* describeCall and actionForTool: what a call needs a permission for.
ActionOf(tool) ==
    CASE tool = "bash" -> "shell"
      [] tool \in {"edit", "write"} -> "edit"
      [] tool = "task" -> "subagent"
      [] OTHER -> ""

-----------------------------------------------------------------------------

gitGlobalFlagsWithValue == {"-c", "-C", "--git-dir", "--work-tree"}

\* Options that stand alone: valueless ones and ones that hold their value.
OtherGitFlags == {"--no-pager", "--git-dir=other"}

\* Mutation: no flag takes the next word for its value.
gitSubcommandAnyWord(argv) ==
    LET first == SelectInSubSeq(argv, 2, Len(argv),
                    LAMBDA word : word \notin gitGlobalFlagsWithValue \cup OtherGitFlags)
    IN  IF first = 0 THEN "" ELSE argv[first]

\* gitSubcommand: the first word that is neither an option nor a value of one.
gitSubcommand(argv) ==
    LET from[i \in 2..(Len(argv) + 2)] ==
            IF i > Len(argv) THEN ""
            ELSE IF argv[i] \in gitGlobalFlagsWithValue THEN from[i + 2]
            ELSE IF argv[i] \in OtherGitFlags THEN from[i + 1]
            ELSE argv[i]
    IN  from[2]

IsPublishCommand(argv) ==
    /\ argv # <<>>
    /\ \/ argv[1] = "git" /\ gitSubcommand(argv) = "push"
       \/ IsPrefix(<<"gh", "pr", "merge">>, argv)
       \/ IsPrefix(<<"gh", "release", "create">>, argv)

=============================================================================
