-------------------------- MODULE ConversationProofs --------------------------
(***************************************************************************)
(* Every request speaks as the identity of the session, every tool result  *)
(* follows its reply, no note of the runtime is repeated, and a prompt     *)
(* whose save was reported is never lost: for runs of any length, any      *)
(* number of owners, of switches of the mode and of restarts.              *)
(*                                                                         *)
(* A conversation is "sound", and one sound conversation becomes another   *)
(* by a message that may follow its last, by another identity in its       *)
(* system prompt, or by the normalisation of what was saved, which is a    *)
(* fold and is followed message by message.                                *)
(***************************************************************************)
EXTENDS Conversation, Induction, SequenceTheorems

Identities == Owners \cup {"plain"}

Follows(message, before) ==
    IF message.answers = 1
    THEN before.role = "assistant" /\ before.calls > 0
    ELSE before = Result(message.answers - 1)

\* A conversation that speaks as one identity only, whose results have their
\* parents, and whose notes are not repeated.
Sound(list, identity) ==
    /\ list \in Seq(Messages)
    /\ list # <<>>
    /\ list[1] = System(identity)
    /\ \A i \in 2..Len(list) : list[i].role # "system"
    /\ \A i \in 2..Len(list) :
            list[i].role = "tool" => Follows(list[i], list[i - 1])
    /\ \A i \in 2..Len(list) : list[i].role = "internal" => list[i - 1] # list[i]

\* The note of the mode the session is not in is never the last thing said.
NoteFits(list, engaged) ==
    \A i \in 1..Len(list) :
        list[i] = Internal(IF engaged THEN "off" ELSE "on") =>
            \E j \in (i + 1)..Len(list) : ~Blank(list[j])

\* While calls are executed, the last message is the reply, or the result
\* before the next one.
ExpectsResult(list) ==
    /\ next \in 1..(batch + 1)
    /\ next = 1 => list[Len(list)].role = "assistant" /\ list[Len(list)].calls > 0
    /\ next > 1 => list[Len(list)] = Result(next - 1)

ConversationInv ==
    /\ batch \in 0..MaxBatch
    /\ prompts \in Nat
    /\ owner \in Owners
    /\ governed \in BOOLEAN
    /\ prompt = systemPrompt(governed, owner)
    /\ \/ messages = <<>> /\ phase \in {"idle", "down"}
       \/ Sound(messages, prompt)
    /\ phase = "calls" => ExpectsResult(messages)
    /\ NoteFits(messages, governed)

\* What a process that is started later finds.
CheckpointInv ==
    /\ checkpoint = <<>> \/ \E identity \in Identities : Sound(checkpoint, identity)
    /\ NoteFits(checkpoint, TRUE)

\* A prompt that was saved is in the checkpoint and in the conversation.
MemoryInv ==
    /\ kept \subseteq PromptsIn(checkpoint)
    /\ phase # "down" => kept \subseteq PromptsIn(messages)

-----------------------------------------------------------------------------
\* Messages and conversations.

LEMMA PromptType ==
    ASSUME NEW engaged, NEW agent \in Owners
    PROVE  systemPrompt(engaged, agent) \in Identities
  BY DEF systemPrompt, Identities

LEMMA MessageTypes ==
    /\ \A identity \in Identities :
            System(identity) \in Messages /\ System(identity).role = "system"
    /\ \A number \in Nat : User(number) \in Messages /\ User(number).role = "user"
    /\ \A text \in Corrections \cup {"off", "on"} :
            Internal(text) \in Messages /\ Internal(text).role = "internal"
    /\ \A text \in BOOLEAN, calls \in 0..MaxBatch :
            /\ Assistant(text, calls) \in Messages
            /\ Assistant(text, calls).role = "assistant"
            /\ Assistant(text, calls).calls = calls
    /\ \A call \in 1..MaxBatch :
            /\ Result(call) \in Messages
            /\ Result(call).role = "tool"
            /\ Result(call).answers = call
  BY DEF Messages, Identities, System, User, Internal, Assistant, Result

LEMMA LengthType ==
    ASSUME NEW list \in Seq(Messages), list # <<>>
    PROVE  Len(list) \in Nat \ {0} /\ Head(list) = list[1]
  BY EmptySeq, HeadTailProperties

\* The conversation Run starts with.
LEMMA OnlyPrompt ==
    ASSUME NEW identity \in Identities
    PROVE  Sound(<<System(identity)>>, identity)
<1> DEFINE first == <<System(identity)>>
<1>1. /\ first \in Seq(Messages) /\ first # <<>>
      /\ Len(first) = 1 /\ first[1] = System(identity)
  BY MessageTypes
<1> HIDE DEF first
<1>2. 2..Len(first) = {}
  BY <1>1
<1>3. Sound(first, identity)
  BY <1>1, <1>2 DEF Sound
<1> QED
  BY <1>3 DEF first

\* A message that is no system prompt, and a result only after its parent.
LEMMA Appended ==
    ASSUME NEW list, NEW identity, Sound(list, identity), NEW message \in Messages,
           message.role # "system",
           message.role = "tool" => Follows(message, list[Len(list)]),
           message.role = "internal" => list[Len(list)] # message
    PROVE  LET longer == Append(list, message)
           IN  Sound(longer, identity) /\ longer[Len(longer)] = message
<1> DEFINE longer == Append(list, message)
<1>1. /\ list \in Seq(Messages) /\ list # <<>>
      /\ Len(list) \in Nat \ {0}
  BY LengthType DEF Sound
<1>2. /\ longer \in Seq(Messages) /\ longer # <<>>
      /\ Len(longer) = Len(list) + 1 /\ longer[Len(list) + 1] = message
      /\ \A i \in 1..Len(list) : longer[i] = list[i]
  BY <1>1, AppendProperties
<1> HIDE DEF longer
<1>3. ASSUME NEW i \in 2..Len(longer)
      PROVE  /\ longer[i].role # "system"
             /\ longer[i].role = "tool" => Follows(longer[i], longer[i - 1])
             /\ longer[i].role = "internal" => longer[i - 1] # longer[i]
  <2>1. CASE i = Len(list) + 1
    BY <1>1, <1>2, <2>1
  <2>2. CASE i \in 2..Len(list)
    <3>1. longer[i] = list[i] /\ longer[i - 1] = list[i - 1]
      BY <1>1, <1>2, <2>2
    <3> QED
      BY <2>2, <3>1 DEF Sound
  <2> QED
    BY <1>1, <1>2, <2>1, <2>2
<1>4. longer[1] = System(identity)
  BY <1>1, <1>2 DEF Sound
<1> QED
  BY <1>2, <1>3, <1>4 DEF Sound, longer

\* A new system prompt takes the place of the old one.
LEMMA PromptSet ==
    ASSUME NEW list, NEW old, NEW identity \in Identities,
           list = <<>> \/ (Sound(list, old) /\ old \in Identities)
    PROVE  LET set == SetSystemPrompt(list, identity)
           IN  /\ Sound(set, identity)
               /\ list # <<>> => /\ Len(set) = Len(list)
                                 /\ \A i \in 2..Len(list) : set[i] = list[i]
<1> DEFINE set == SetSystemPrompt(list, identity)
           first == <<System(identity)>>
           rest == Tail(list)
<1>1. first \in Seq(Messages) /\ Len(first) = 1 /\ first[1] = System(identity)
  BY MessageTypes
<1>2. CASE list = <<>>
  <2>1. set = first
    BY <1>1, <1>2, ConcatEmptySeq DEF SetSystemPrompt, HasSystem
  <2> QED
    BY <1>2, <2>1, OnlyPrompt
<1>3. CASE list # <<>>
  <2>1. /\ list \in Seq(Messages) /\ Len(list) \in Nat \ {0}
        /\ Sound(list, old)
    BY <1>3, LengthType DEF Sound
  <2>2. Head(list).role = "system"
    BY <1>3, <2>1, LengthType, MessageTypes DEF Sound
  <2>3. set = first \o rest
    BY <1>3, <2>2 DEF SetSystemPrompt, HasSystem
  <2>4. /\ rest \in Seq(Messages) /\ Len(rest) = Len(list) - 1
        /\ \A i \in 1..Len(rest) : rest[i] = list[i + 1]
    BY <1>3, <2>1, HeadTailProperties
  <2> HIDE DEF set, first, rest
  <2>5. /\ set \in Seq(Messages) /\ Len(set) = Len(first) + Len(rest)
        /\ \A i \in 1..(Len(first) + Len(rest)) :
               set[i] = IF i =< Len(first) THEN first[i] ELSE rest[i - Len(first)]
    BY <1>1, <2>3, <2>4, ConcatProperties
  <2>6. /\ Len(set) = Len(list) /\ set # <<>> /\ set[1] = System(identity)
        /\ \A i \in 2..Len(list) : set[i] = rest[i - 1]
    BY <1>1, <2>1, <2>4, <2>5
  <2>7. \A i \in 2..Len(list) : set[i] = list[i]
    BY <2>1, <2>4, <2>6
  <2>8. ASSUME NEW i \in 2..Len(set), set[i].role = "tool"
        PROVE  Follows(set[i], set[i - 1])
    <3>1. Follows(list[i], list[i - 1]) /\ set[i] = list[i]
      BY <2>1, <2>6, <2>7, <2>8 DEF Sound
    <3>2. CASE i > 2
      BY <2>6, <2>7, <2>8, <3>1, <3>2
    <3>3. CASE i = 2
      \* No result follows a system prompt.
      <4>1. ~Follows(list[i], list[1])
        BY <2>1, MessageTypes DEF Sound, Follows, Result
      <4> QED
        BY <3>1, <3>3, <4>1
    <3> QED
      BY <2>8, <3>2, <3>3
  <2>9. ASSUME NEW i \in 2..Len(set), set[i].role = "internal"
        PROVE  set[i - 1] # set[i]
    <3>1. list[i - 1] # list[i] /\ set[i] = list[i]
      BY <2>1, <2>6, <2>7, <2>9 DEF Sound
    <3>2. CASE i > 2
      BY <2>6, <2>7, <2>9, <3>1, <3>2
    <3>3. CASE i = 2
      BY <2>6, <2>9, <3>3 DEF System
    <3> QED
      BY <2>9, <3>2, <3>3
  <2>10. Sound(set, identity)
    BY <2>1, <2>5, <2>6, <2>7, <2>8, <2>9 DEF Sound
  <2> QED
    BY <2>6, <2>7, <2>10 DEF set
<1> QED
  BY <1>2, <1>3

\* A message after which no note of the other mode is the last thing said: what
\* is blank says nothing, and what is not hides every note before it.
LEMMA AppendedFits ==
    ASSUME NEW list \in Seq(Messages), NEW message \in Messages, NEW engaged \in BOOLEAN,
           message # Internal(IF engaged THEN "off" ELSE "on"),
           NoteFits(list, engaged) \/ ~Blank(message)
    PROVE  NoteFits(Append(list, message), engaged)
<1> DEFINE longer == Append(list, message)
           other == Internal(IF engaged THEN "off" ELSE "on")
<1>1. /\ longer \in Seq(Messages) /\ Len(list) \in Nat
      /\ Len(longer) = Len(list) + 1 /\ longer[Len(list) + 1] = message
      /\ \A i \in 1..Len(list) : longer[i] = list[i]
  BY AppendProperties, LenProperties
<1> HIDE DEF longer
<1>2. ASSUME NEW i \in 1..Len(longer), longer[i] = other
      PROVE  \E j \in (i + 1)..Len(longer) : ~Blank(longer[j])
  <2>1. i \in 1..Len(list) /\ list[i] = other
    BY <1>1, <1>2
  <2>2. CASE ~Blank(message)
    <3>1. Len(list) + 1 \in (i + 1)..Len(longer)
      BY <1>1, <2>1
    <3> QED
      BY <1>1, <2>2, <3>1
  <2>3. CASE NoteFits(list, engaged)
    <3>1. PICK j \in (i + 1)..Len(list) : ~Blank(list[j])
      BY <2>1, <2>3 DEF NoteFits
    <3>2. j \in (i + 1)..Len(longer) /\ j \in 1..Len(list)
      BY <1>1, <2>1
    <3> QED
      BY <1>1, <3>1, <3>2
  <2> QED
    BY <2>2, <2>3
<1> QED
  BY <1>2 DEF NoteFits, longer

LEMMA PromptSetFits ==
    ASSUME NEW list, NEW old \in Identities, NEW identity \in Identities,
           NEW engaged \in BOOLEAN, Sound(list, old), NoteFits(list, engaged)
    PROVE  NoteFits(SetSystemPrompt(list, identity), engaged)
<1> DEFINE set == SetSystemPrompt(list, identity)
           other == Internal(IF engaged THEN "off" ELSE "on")
<1>1. /\ Sound(set, identity) /\ Len(set) = Len(list)
      /\ \A i \in 2..Len(list) : set[i] = list[i]
      /\ Len(list) \in Nat
  BY PromptSet, LengthType DEF Sound
<1> HIDE DEF set
<1>2. ASSUME NEW i \in 1..Len(set), set[i] = other
      PROVE  \E j \in (i + 1)..Len(set) : ~Blank(set[j])
  <2>1. i # 1
    BY <1>1, <1>2 DEF Sound, System, Internal
  <2>2. i \in 2..Len(list) /\ i \in 1..Len(list) /\ list[i] = other
    BY <1>1, <1>2, <2>1
  <2>3. PICK j \in (i + 1)..Len(list) : ~Blank(list[j])
    BY <2>2 DEF NoteFits
  <2>4. j \in 2..Len(list) /\ j \in (i + 1)..Len(set)
    BY <1>1, <2>2
  <2> QED
    BY <1>1, <2>3, <2>4
<1> QED
  BY <1>2 DEF NoteFits, set

\* No prompt is lost by a message that is added, or by a new identity.
LEMMA PromptsAppended ==
    ASSUME NEW list \in Seq(Messages), NEW message \in Messages
    PROVE  PromptsIn(list) \subseteq PromptsIn(Append(list, message))
<1> DEFINE longer == Append(list, message)
<1>1. /\ longer \in Seq(Messages) /\ Len(list) \in Nat /\ DOMAIN list = 1..Len(list)
      /\ DOMAIN longer = 1..(Len(list) + 1)
      /\ \A i \in 1..Len(list) : longer[i] = list[i]
  BY AppendProperties, LenProperties
<1> HIDE DEF longer
<1>2. \A i \in DOMAIN list : i \in DOMAIN longer /\ longer[i] = list[i]
  BY <1>1
<1> QED
  BY <1>2 DEF PromptsIn, longer

LEMMA PromptsSet ==
    ASSUME NEW list, NEW old \in Identities, NEW identity \in Identities, Sound(list, old)
    PROVE  PromptsIn(list) \subseteq PromptsIn(SetSystemPrompt(list, identity))
<1> DEFINE set == SetSystemPrompt(list, identity)
<1>1. /\ Sound(set, identity) /\ Len(set) = Len(list)
      /\ \A i \in 2..Len(list) : set[i] = list[i]
      /\ Len(list) \in Nat
  BY PromptSet, LengthType DEF Sound
<1> HIDE DEF set
<1>2. DOMAIN list = 1..Len(list) /\ DOMAIN set = 1..Len(list) /\ list[1].role = "system"
  BY <1>1, LenProperties DEF Sound, System
<1>3. ASSUME NEW i \in DOMAIN list, list[i].role = "user"
      PROVE  i \in DOMAIN set /\ set[i] = list[i]
  BY <1>1, <1>2, <1>3
<1> QED
  BY <1>3 DEF PromptsIn, set

-----------------------------------------------------------------------------
\* The checkpoint, one saved message at a time.

Normalized(list, message) ==
    IF Blank(message) \/ Repeats(list, message) THEN list ELSE Append(list, message)

\* normalizeMessages computes the conversation that is restored from each part
\* of what was saved.
LEMMA NormalizedSteps ==
    ASSUME NEW saved \in Seq(Messages)
    PROVE  \E g \in [0..Len(saved) -> Seq(Messages)] :
              /\ g[0] = <<>>
              /\ \A i \in 1..Len(saved) : g[i] = Normalized(g[i - 1], saved[i])
              /\ normalizeMessages(saved) = g[Len(saved)]
<1> DEFINE m == Len(saved)
           V == Seq(Messages)
           IsFold(f) == f = [s \in SUBSET DOMAIN saved |->
              IF s = {} THEN <<>> ELSE
                IF Blank(saved[Max(s)]) \/ Repeats(f[s \ {Max(s)}], saved[Max(s)])
                THEN f[s \ {Max(s)}]
                ELSE Append(f[s \ {Max(s)}], saved[Max(s)])]
           fold == CHOOSE f : IsFold(f)
           advance == [pair \in (1..m) \X V |-> Normalized(pair[2], saved[pair[1]])]
<1>1. m \in Nat /\ DOMAIN saved = 1..m /\ \A i \in 1..m : saved[i] \in Messages
  BY LenProperties, ElementOfSeq
<1>2. normalizeMessages(saved) = fold[DOMAIN saved]
  BY DEF normalizeMessages, FoldLeft, MapThenFoldSet
<1>3. \A list \in V, i \in 1..m : Normalized(list, saved[i]) \in V
  BY <1>1, AppendProperties DEF Normalized
<1>4. advance \in [(1..m) \X V -> V] /\ <<>> \in V
  BY <1>3
<1> HIDE DEF m, V
<1>5. PICK f \in [SUBSET (1..m) -> V] : LeftFold(f, m, <<>>, advance)
   <2> HIDE DEF advance
   <2> QED
     BY <1>1, <1>4, LeftFoldExists
<1>6. f = [s \in SUBSET (1..m) |->
              IF s = {} THEN <<>> ELSE Normalized(f[s \ {Max(s)}], saved[Max(s)])]
  <2>1. ASSUME NEW s \in SUBSET (1..m), s # {}
        PROVE  advance[<<Max(s), f[s \ {Max(s)}]>>] = Normalized(f[s \ {Max(s)}], saved[Max(s)])
    <3>1. Max(s) \in 1..m
      BY <1>1, <2>1, MaxIs
    <3>2. f[s \ {Max(s)}] \in V
      BY <1>5
    <3> QED
      BY <3>1, <3>2
  <2> HIDE DEF advance
  <2> QED
    BY <1>5, <2>1 DEF LeftFold
<1>7. IsFold(f)
  BY <1>1, <1>6 DEF Normalized
<1>8. IsFold(fold)
  <2> HIDE DEF IsFold
  <2> QED
    BY <1>7
<1> HIDE DEF advance
<1>9. fold = [s \in SUBSET (1..m) |->
              IF s = {} THEN <<>> ELSE Normalized(fold[s \ {Max(s)}], saved[Max(s)])]
  BY <1>1, <1>8 DEF Normalized
<1> HIDE DEF fold
<1> DEFINE g == [i \in 0..m |-> fold[1..i]]
<1>10. g[0] = <<>>
  BY <1>1, <1>9
<1>11. ASSUME NEW i \in 1..m PROVE g[i] = Normalized(g[i - 1], saved[i])
  <2>1. 1..i \in SUBSET (1..m) /\ 1..i # {} /\ (1..i) \ {i} = 1..(i - 1) /\ i - 1 \in 0..m
    <3>1. (1..i) \ {i} = 1..(i - 1)
      BY <1>1
    <3>2. 1..i \subseteq 1..m /\ i \in 1..i /\ i - 1 \in 0..m
      BY <1>1
    <3> QED
      BY <3>1, <3>2
  <2>2. Max(1..i) = i
    BY <1>1, MaxOfInterval
  <2>3. fold[1..i] = Normalized(fold[(1..i) \ {i}], saved[i])
    BY <1>9, <2>1, <2>2
  <2>4. g[i] = fold[1..i] /\ g[i - 1] = fold[1..(i - 1)]
    BY <1>1, <2>1
  <2> QED
    BY <2>1, <2>3, <2>4
<1>12. normalizeMessages(saved) = g[m]
  BY <1>1, <1>2
<1> HIDE DEF g
<1>13. \A i \in 0..m : g[i] \in V
  <2> DEFINE T == {i \in 0..m : g[i] \in V}
  <2>1. 0 \in T
    BY <1>1, <1>4, <1>10
  <2>2. \A n \in 0..(m - 1) : n \in T => n + 1 \in T
    BY <1>1, <1>3, <1>11
  <2> HIDE DEF T
  <2>3. 0..m \subseteq T
    BY <1>1, <2>1, <2>2, IntervalInduction
  <2> QED
    BY <2>3 DEF T
<1>14. g \in [0..m -> V]
  BY <1>13 DEF g
<1> QED
  BY <1>10, <1>11, <1>12, <1>14 DEF m, V

LEMMA NormalizedEmpty == normalizeMessages(<<>>) = <<>>
<1>1. <<>> \in Seq(Messages) /\ Len(<<>>) = 0
  OBVIOUS
<1> QED
  BY <1>1, NormalizedSteps

\* A restored conversation is as sound as the saved one, ends in what was said
\* last, and has every prompt.
LEMMA NormalizedSound ==
    ASSUME NEW saved, NEW identity \in Identities, Sound(saved, identity)
    PROVE  LET restored == normalizeMessages(saved)
           IN  /\ Sound(restored, identity)
               /\ PromptsIn(saved) \subseteq PromptsIn(restored)
               /\ \A engaged \in BOOLEAN :
                      NoteFits(saved, engaged) => NoteFits(restored, engaged)
<1> DEFINE m == Len(saved)
<1>1. /\ saved \in Seq(Messages) /\ m \in Nat \ {0} /\ DOMAIN saved = 1..m
      /\ \A i \in 1..m : saved[i] \in Messages
      /\ saved[1] = System(identity)
      /\ \A i \in 2..m :
            /\ saved[i].role # "system"
            /\ saved[i].role = "tool" => Follows(saved[i], saved[i - 1])
  BY LengthType, LenProperties, ElementOfSeq DEF Sound
<1>2. PICK g \in [0..m -> Seq(Messages)] :
         /\ g[0] = <<>>
         /\ \A i \in 1..m : g[i] = Normalized(g[i - 1], saved[i])
         /\ normalizeMessages(saved) = g[m]
  BY <1>1, NormalizedSteps
<1> DEFINE Said(i) ==
              \* what of the first i messages is not blank ends the list
              \E k \in 1..i :
                 /\ g[i][Len(g[i])] = saved[k]
                 /\ ~Blank(saved[k])
                 /\ \A j \in (k + 1)..i : Blank(saved[j])
           Good(i) ==
              /\ Sound(g[i], identity)
              /\ \A j \in 1..Len(g[i]) : ~Blank(g[i][j])
              /\ Said(i)
              /\ \A k \in 1..i : saved[k].role = "user" =>
                    \E j \in 1..Len(g[i]) : g[i][j] = saved[k]
           T == {n \in 0..m : n = 0 \/ Good(n)}
<1> HIDE DEF m
<1>3. Good(1)
  <2>1. saved[1] = System(identity) /\ ~Blank(saved[1]) /\ ~Repeats(<<>>, saved[1])
        /\ saved[1].role = "system"
    BY <1>1 DEF System, Blank, Repeats
  <2>2. 1 \in 1..m /\ 1 - 1 = 0
    BY <1>1
  <2>3. g[1] = Append(<<>>, saved[1])
    BY <1>2, <2>1, <2>2 DEF Normalized
  <2>4. g[1] = <<System(identity)>>
    BY <2>1, <2>3
  <2>5. Sound(g[1], identity)
    BY <2>4, OnlyPrompt
  <2>6. Len(g[1]) = 1 /\ g[1][1] = saved[1]
    BY <2>1, <2>4
  <2>7. Said(1)
    BY <2>1, <2>6
  <2> QED
    BY <2>1, <2>5, <2>6, <2>7
<1>4. ASSUME NEW n \in 1..(m - 1), Good(n) PROVE Good(n + 1)
  <2> DEFINE list == g[n]
             message == saved[n + 1]
  <2>1. /\ n + 1 \in 2..m /\ n \in 1..m /\ n \in 0..m /\ n + 1 \in 1..m
        /\ (n + 1) - 1 = n
    BY <1>1
  <2>2. g[n + 1] = Normalized(list, message) /\ message \in Messages
    BY <1>1, <1>2, <2>1
  <2>3. Sound(list, identity) /\ list \in Seq(Messages) /\ list # <<>>
        /\ Len(list) \in Nat \ {0}
    BY <1>4, LengthType DEF Sound
  <2>4. CASE Blank(message)
    <3>1. g[n + 1] = list
      BY <2>2, <2>4 DEF Normalized
    <3>2. message.role # "user"
      BY <2>4 DEF Blank
    <3>3. PICK k \in 1..n : /\ list[Len(list)] = saved[k] /\ ~Blank(saved[k])
                           /\ \A j \in (k + 1)..n : Blank(saved[j])
      BY <1>4
    <3>4. k \in 1..(n + 1) /\ \A j \in (k + 1)..(n + 1) : Blank(saved[j])
      BY <2>1, <2>4, <3>3
    <3>5. Said(n + 1)
      BY <3>1, <3>3, <3>4
    <3>6. \A i \in 1..(n + 1) : i \in 1..n \/ i = n + 1
      BY <2>1
    <3> QED
      BY <1>4, <2>3, <3>1, <3>2, <3>5, <3>6
  <2>5. CASE ~Blank(message) /\ Repeats(list, message)
    <3>1. g[n + 1] = list
      BY <2>2, <2>5 DEF Normalized
    <3>2. list[Len(list)] = message /\ message.role = "internal"
      BY <2>5 DEF Repeats, Last
    <3>3. n + 1 \in 1..(n + 1) /\ \A j \in (n + 1 + 1)..(n + 1) : FALSE
      BY <2>1
    <3>4. Said(n + 1)
      BY <2>5, <3>1, <3>2, <3>3
    <3>5. \A i \in 1..(n + 1) : i \in 1..n \/ i = n + 1
      BY <2>1
    <3> QED
      BY <1>4, <2>3, <3>1, <3>2, <3>4, <3>5
  <2>6. CASE ~Blank(message) /\ ~Repeats(list, message)
    <3> DEFINE longer == g[n + 1]
    <3>1. longer = Append(list, message)
      BY <2>2, <2>6 DEF Normalized
    <3>2. message.role # "system"
      BY <1>1, <2>1
    <3>3. message.role = "tool" => Follows(message, list[Len(list)])
      <4>1. SUFFICES ASSUME message.role = "tool" PROVE Follows(message, list[Len(list)])
        OBVIOUS
      <4>2. Follows(message, saved[n])
        BY <1>1, <2>1, <4>1
      <4>3. ~Blank(saved[n])
        BY <4>2 DEF Follows, Blank, Result
      <4>4. PICK k \in 1..n : /\ list[Len(list)] = saved[k] /\ ~Blank(saved[k])
                             /\ \A j \in (k + 1)..n : Blank(saved[j])
        BY <1>4
      <4>5. k = n
        BY <2>1, <4>3, <4>4
      <4> QED
        BY <4>2, <4>4, <4>5
    <3>4. message.role = "internal" => list[Len(list)] # message
      BY <2>3, <2>6 DEF Repeats, Last
    <3>5. Sound(longer, identity) /\ longer[Len(longer)] = message
      BY <2>2, <2>3, <3>1, <3>2, <3>3, <3>4, Appended
    <3>6. /\ Len(longer) = Len(list) + 1 /\ longer[Len(list) + 1] = message
          /\ \A j \in 1..Len(list) : longer[j] = list[j]
      BY <2>2, <2>3, <3>1, AppendProperties
    <3>7. \A j \in 1..Len(longer) : ~Blank(longer[j])
      BY <1>4, <2>3, <2>6, <3>6
    <3>8. n + 1 \in 1..(n + 1) /\ \A j \in (n + 1 + 1)..(n + 1) : FALSE
      BY <2>1
    <3>9. Said(n + 1)
      BY <2>6, <3>5, <3>8
    <3>10. ASSUME NEW k \in 1..(n + 1), saved[k].role = "user"
           PROVE  \E j \in 1..Len(longer) : longer[j] = saved[k]
      <4>1. CASE k = n + 1
        BY <2>3, <3>6, <4>1
      <4>2. CASE k \in 1..n
        <5>1. PICK j \in 1..Len(list) : list[j] = saved[k]
          BY <1>4, <3>10, <4>2
        <5> QED
          BY <2>3, <3>6, <5>1
      <4> QED
        BY <2>1, <4>1, <4>2
    <3> QED
      BY <3>5, <3>7, <3>9, <3>10
  <2> QED
    BY <2>4, <2>5, <2>6
<1>5. Good(m)
  <2>1. 0 \in T
    BY <1>1
  <2>2. ASSUME NEW n \in 0..(m - 1), n \in T PROVE n + 1 \in T
    <3> HIDE DEF Good
    <3>1. n + 1 \in 0..m /\ (n = 0 => n + 1 = 1) /\ (n # 0 => n \in 1..(m - 1))
      BY <1>1
    <3> QED
      BY <1>3, <1>4, <2>2, <3>1
  <2> HIDE DEF T
  <2>3. 0..m \subseteq T
    BY <1>1, <2>1, <2>2, IntervalInduction
  <2>4. m \in 0..m
    BY <1>1
  <2> HIDE DEF Good
  <2> QED
    BY <1>1, <2>3, <2>4 DEF T
<1> DEFINE restored == g[m]
<1>6. /\ Sound(restored, identity) /\ restored \in Seq(Messages)
      /\ Len(restored) \in Nat \ {0} /\ DOMAIN restored = 1..Len(restored)
  BY <1>5, LengthType, LenProperties DEF Sound
<1>7. PromptsIn(saved) \subseteq PromptsIn(restored)
  <2>1. \A k \in DOMAIN saved : saved[k].role = "user" =>
            \E j \in DOMAIN restored : restored[j] = saved[k]
    BY <1>1, <1>5, <1>6
  <2> HIDE DEF restored, Good
  <2> QED
    BY <2>1 DEF PromptsIn
<1>8. ASSUME NEW engaged \in BOOLEAN, NoteFits(saved, engaged)
      PROVE  NoteFits(restored, engaged)
  <2> DEFINE other == Internal(IF engaged THEN "off" ELSE "on")
  <2> SUFFICES ASSUME NEW i \in 1..Len(restored), restored[i] = other
               PROVE  \E j \in (i + 1)..Len(restored) : ~Blank(restored[j])
    BY DEF NoteFits
  <2>1. CASE i < Len(restored)
    BY <1>5, <1>6, <2>1
  <2>2. CASE i = Len(restored)
    <3>1. PICK k \in 1..m : /\ restored[i] = saved[k]
                           /\ \A j \in (k + 1)..m : Blank(saved[j])
      BY <1>5, <2>2
    <3> HIDE DEF Good, restored
    <3>2. \E j \in (k + 1)..m : ~Blank(saved[j])
      BY <1>8, <3>1 DEF NoteFits, m
    <3> QED
      BY <3>1, <3>2
  <2> QED
    BY <1>6, <2>1, <2>2
<1> HIDE DEF Good
<1> QED
  BY <1>2, <1>6, <1>7, <1>8

-----------------------------------------------------------------------------
\* The steps.

\* Outside the execution of calls, a conversation that is sound is enough.
LEMMA SoundIsEnough ==
    ASSUME ConversationInv, Sound(messages', prompt'), prompt' = systemPrompt(governed', owner'),
           owner' \in Owners, governed' \in BOOLEAN, batch' \in 0..MaxBatch,
           prompts' \in Nat, phase' # "calls", NoteFits(messages', governed')
    PROVE  ConversationInv'
  BY DEF ConversationInv

LEMMA SpokenSound ==
    ASSUME ConversationInv, phase = "turn", NEW text \in BOOLEAN
    PROVE  Sound(Spoken(text), prompt) /\ NoteFits(Spoken(text), governed)
<1>1. /\ Sound(messages, prompt) /\ messages \in Seq(Messages)
      /\ NoteFits(messages, governed) /\ governed \in BOOLEAN
  BY DEF ConversationInv, Sound
<1>2. 0 \in 0..MaxBatch
  BY ConversationAssumption
<1>3. /\ Assistant(TRUE, 0) \in Messages
      /\ Assistant(TRUE, 0).role = "assistant"
  BY <1>2, MessageTypes
<1>4. Sound(Append(messages, Assistant(TRUE, 0)), prompt)
  BY <1>1, <1>3, Appended
<1>5. NoteFits(Append(messages, Assistant(TRUE, 0)), governed)
  BY <1>1, <1>3, AppendedFits DEF Assistant, Internal
<1> QED
  BY <1>1, <1>4, <1>5 DEF Spoken

LEMMA TurnStep ==
    ASSUME ConversationInv, NEW text \in BOOLEAN,
           \/ TurnAnswers(text)
           \/ \E correction \in Corrections : TurnRefused(text, correction)
           \/ TurnGivenUp(text)
           \/ \E calls \in 1..MaxBatch : TurnCalls(text, calls)
    PROVE  ConversationInv'
<1>1. phase = "turn" /\ UNCHANGED <<prompt, owner, governed, prompts>>
  BY DEF TurnAnswers, TurnRefused, TurnGivenUp, TurnCalls, Stop
<1>2. /\ Sound(messages, prompt) /\ prompt = systemPrompt(governed, owner)
      /\ owner \in Owners /\ governed \in BOOLEAN /\ prompts \in Nat
      /\ batch \in 0..MaxBatch
      /\ messages \in Seq(Messages) /\ NoteFits(messages, governed)
  BY <1>1 DEF ConversationInv, Sound
<1>3. 0 \in 0..MaxBatch
  BY ConversationAssumption
<1>4. CASE TurnAnswers(text)
  <2>1. /\ Assistant(text, 0) \in Messages
        /\ Assistant(text, 0).role = "assistant"
    BY <1>3, MessageTypes
  <2>2. Sound(Append(messages, Assistant(text, 0)), prompt)
    BY <1>2, <2>1, Appended
  <2>3. NoteFits(Append(messages, Assistant(text, 0)), governed)
    BY <1>2, <2>1, AppendedFits DEF Assistant, Internal
  <2> QED
    BY <1>1, <1>2, <1>3, <1>4, <2>2, <2>3, SoundIsEnough DEF TurnAnswers, Stop
<1>5. ASSUME NEW correction \in Corrections, TurnRefused(text, correction)
      PROVE  ConversationInv'
  <2>1. Internal(correction) \in Messages /\ Internal(correction).role = "internal"
    BY MessageTypes
  <2>2. /\ Sound(Spoken(text), prompt) /\ Spoken(text) \in Seq(Messages)
        /\ Spoken(text) # <<>> /\ NoteFits(Spoken(text), governed)
    BY <1>1, SpokenSound DEF Sound
  <2>3. CASE messages' = Spoken(text)
    BY <1>1, <1>2, <1>5, <2>2, <2>3, SoundIsEnough DEF TurnRefused
  <2>4. CASE /\ messages' = Append(Spoken(text), Internal(correction))
             /\ Spoken(text)[Len(Spoken(text))] # Internal(correction)
    <3>1. Sound(Append(Spoken(text), Internal(correction)), prompt)
      BY <2>1, <2>2, <2>4, Appended
    <3>2. NoteFits(Append(Spoken(text), Internal(correction)), governed)
      <4>1. Internal(correction) # Internal(IF governed THEN "off" ELSE "on")
        BY ConversationAssumption DEF Internal
      <4> QED
        BY <1>2, <2>1, <2>2, <4>1, AppendedFits
    <3> QED
      BY <1>1, <1>2, <1>5, <2>4, <3>1, <3>2, SoundIsEnough DEF TurnRefused
  <2> QED
    BY <1>5, <2>2, <2>3, <2>4 DEF TurnRefused, AppendCorrection, Last
<1>6. CASE TurnGivenUp(text)
  <2>1. Sound(Spoken(text), prompt) /\ NoteFits(Spoken(text), governed)
    BY <1>1, SpokenSound
  <2> QED
    BY <1>1, <1>2, <1>3, <1>6, <2>1, SoundIsEnough DEF TurnGivenUp, Stop
<1>7. ASSUME NEW calls \in 1..MaxBatch, TurnCalls(text, calls)
      PROVE  ConversationInv'
  <2>1. calls \in 0..MaxBatch /\ calls > 0
    BY ConversationAssumption
  <2>2. /\ Assistant(text, calls) \in Messages
        /\ Assistant(text, calls).role = "assistant"
        /\ Assistant(text, calls).calls = calls
    BY <2>1, MessageTypes
  <2>3. /\ Sound(messages', prompt)
        /\ messages'[Len(messages')] = Assistant(text, calls)
    BY <1>2, <1>7, <2>2, Appended DEF TurnCalls
  <2>4. ExpectsResult(messages)'
    BY <1>7, <2>1, <2>2, <2>3 DEF TurnCalls, ExpectsResult
  <2>5. NoteFits(messages', governed)
    BY <1>2, <1>7, <2>2, AppendedFits DEF TurnCalls, Assistant, Internal
  <2> QED
    BY <1>1, <1>2, <1>7, <2>1, <2>3, <2>4, <2>5 DEF ConversationInv, TurnCalls
<1> QED
  BY <1>4, <1>5, <1>6, <1>7

LEMMA CallStep ==
    ASSUME ConversationInv, NEW agent \in Owners, CallDone(agent)
    PROVE  ConversationInv'
<1> DEFINE answered == Append(messages, Result(next))
<1>1. /\ Sound(messages, prompt) /\ prompt = systemPrompt(governed, owner)
      /\ governed \in BOOLEAN /\ prompts \in Nat /\ batch \in 0..MaxBatch
      /\ ExpectsResult(messages) /\ next =< batch
      /\ UNCHANGED <<governed, phase, batch, prompts>>
      /\ messages \in Seq(Messages) /\ NoteFits(messages, governed)
  BY DEF ConversationInv, CallDone, Sound
<1>2. next \in 1..MaxBatch
  BY <1>1, ConversationAssumption DEF ExpectsResult
<1>3. /\ Result(next) \in Messages /\ Result(next).role = "tool"
      /\ Result(next).answers = next
  BY <1>2, MessageTypes
<1>4. Follows(Result(next), messages[Len(messages)])
  BY <1>1, <1>2, <1>3 DEF ExpectsResult, Follows
<1>5. Sound(answered, prompt) /\ answered[Len(answered)] = Result(next)
  BY <1>1, <1>3, <1>4, Appended
<1>6. NoteFits(answered, governed)
  BY <1>1, <1>3, AppendedFits DEF Result, Internal
<1>7. /\ Sound(messages', prompt') /\ messages'[Len(messages')] = Result(next)
      /\ NoteFits(messages', governed')
  <2>1. CASE agent = owner
    BY <1>1, <1>5, <1>6, <2>1 DEF CallDone
  <2>2. CASE agent # owner
    <3>1. messages' = SetSystemPrompt(answered, prompt') /\ prompt' \in Identities
      BY <2>2, PromptType DEF CallDone
    <3>2. answered # <<>> /\ Len(answered) \in Nat \ {0} /\ Len(answered) # 1
      <4>1. answered \in Seq(Messages) /\ answered # <<>> /\ answered[1] = System(prompt)
        BY <1>5 DEF Sound
      <4>2. System(prompt).role = "system"
        BY DEF System
      <4> HIDE DEF answered
      <4> QED
        BY <1>3, <1>5, <4>1, <4>2, LengthType
    <3>3. prompt \in Identities
      BY <1>1, PromptType DEF ConversationInv
    <3> HIDE DEF answered
    <3>4. /\ Sound(messages', prompt') /\ Len(messages') = Len(answered)
          /\ \A i \in 2..Len(answered) : messages'[i] = answered[i]
      BY <1>5, <3>1, <3>2, <3>3, PromptSet
    <3>5. NoteFits(messages', governed')
      BY <1>1, <1>5, <1>6, <3>1, <3>3, PromptSetFits
    <3> QED
      BY <1>5, <3>2, <3>4, <3>5
  <2> QED
    BY <2>1, <2>2
<1>8. prompt' = systemPrompt(governed', owner') /\ owner' \in Owners
  BY <1>1 DEF CallDone, systemPrompt
<1>9. ExpectsResult(messages)'
  <2>1. next' = next + 1
    BY DEF CallDone
  <2>2. next' \in 1..(batch' + 1) /\ next' # 1 /\ next' - 1 = next
    BY <1>1, <1>2, <2>1
  <2> QED
    BY <1>7, <2>2 DEF ExpectsResult
<1> QED
  BY <1>1, <1>7, <1>8, <1>9 DEF ConversationInv

\* A step that only moves the session to another owner.
LEMMA RepromptStep ==
    ASSUME ConversationInv, messages # <<>>, owner' \in Owners, UNCHANGED governed,
           prompt' = systemPrompt(governed', owner'),
           messages' = SetSystemPrompt(messages, prompt'),
           batch' \in 0..MaxBatch, prompts' \in Nat, phase' # "calls"
    PROVE  ConversationInv'
<1>1. prompt \in Identities /\ prompt' \in Identities
  BY PromptType DEF ConversationInv
<1>2. Sound(messages', prompt')
  BY <1>1, PromptSet DEF ConversationInv
<1>3. governed' \in BOOLEAN /\ NoteFits(messages', governed')
  BY <1>1, PromptSetFits DEF ConversationInv
<1> QED
  BY <1>2, <1>3, SoundIsEnough

LEMMA SwitchStep ==
    ASSUME ConversationInv, SwitchOff \/ SwitchOn
    PROVE  ConversationInv'
<1>1. /\ owner \in Owners /\ UNCHANGED <<owner, batch, prompts, phase>>
      /\ batch \in 0..MaxBatch /\ prompts \in Nat /\ phase' # "calls"
      /\ governed' \in BOOLEAN /\ prompt' = systemPrompt(governed', owner')
      /\ prompt \in Identities /\ prompt' \in Identities
  BY PromptType DEF ConversationInv, SwitchOff, SwitchOn, run
<1> DEFINE text == IF governed THEN "off" ELSE "on"
           set == SetSystemPrompt(messages, prompt')
<1>2. messages' = Append(set, Internal(text)) /\ governed' = ~governed
  BY DEF SwitchOff, SwitchOn
<1>3. /\ Sound(set, prompt') /\ set \in Seq(Messages) /\ Len(set) \in Nat \ {0}
      /\ messages # <<>> =>
            Len(set) = Len(messages) /\ \A i \in 2..Len(messages) : set[i] = messages[i]
      /\ messages = <<>> => Len(set) = 1
  <2>1. /\ Sound(set, prompt')
        /\ messages # <<>> =>
              Len(set) = Len(messages) /\ \A i \in 2..Len(messages) : set[i] = messages[i]
    <3>1. messages = <<>> \/ Sound(messages, prompt)
      BY DEF ConversationInv
    <3> QED
      BY <1>1, <3>1, PromptSet
  <2>2. messages = <<>> => set = <<System(prompt')>>
    BY ConcatEmptySeq DEF SetSystemPrompt, HasSystem
  <2> HIDE DEF set
  <2> QED
    BY <2>1, <2>2, LengthType DEF Sound
<1>4. /\ Internal(text) \in Messages /\ Internal(text).role = "internal"
      /\ Internal(text) # Internal(IF governed' THEN "off" ELSE "on")
      /\ ~Blank(Internal(text))
  BY <1>1, <1>2, MessageTypes DEF Internal, Blank, ConversationInv
<1>5. set[Len(set)] # Internal(text)
  <2>1. set[1] # Internal(text)
    BY <1>3 DEF Sound, System, Internal
  <2>2. messages # <<>> => messages[Len(messages)] # Internal(text)
    <3>1. messages # <<>> => Len(messages) \in Nat \ {0}
      BY LengthType DEF ConversationInv, Sound
    <3>2. NoteFits(messages, governed) /\ \A j \in (Len(messages) + 1)..Len(messages) : FALSE
      BY <3>1, <1>3 DEF ConversationInv
    <3> QED
      BY <3>1, <3>2 DEF NoteFits
  <2> HIDE DEF set, text
  <2> QED
    BY <1>3, <2>1, <2>2
<1> HIDE DEF set, text
<1>6. Sound(messages', prompt')
  BY <1>2, <1>3, <1>4, <1>5, Appended
<1>7. NoteFits(messages', governed')
  BY <1>1, <1>2, <1>3, <1>4, AppendedFits
<1> QED
  BY <1>1, <1>6, <1>7, SoundIsEnough

LEMMA PromptStep ==
    ASSUME ConversationInv, Prompt
    PROVE  ConversationInv'
<1> DEFINE list == IF messages = <<>> THEN <<System(prompt)>> ELSE messages
<1>1. prompt \in Identities /\ prompts' \in Nat
  BY PromptType DEF ConversationInv, Prompt
<1>2. Sound(list, prompt)
  BY <1>1, OnlyPrompt DEF ConversationInv
<1>3. User(prompts') \in Messages /\ User(prompts').role = "user"
  BY <1>1, MessageTypes
<1>4. messages' = Append(list, User(prompts'))
  BY DEF Prompt
<1> HIDE DEF list
<1>5. Sound(messages', prompt)
  BY <1>2, <1>3, <1>4, Appended
<1>6. NoteFits(messages', governed)
  <2>1. User(prompts') # Internal(IF governed THEN "off" ELSE "on") /\ ~Blank(User(prompts'))
    BY DEF User, Internal, Blank
  <2>2. list \in Seq(Messages) /\ governed \in BOOLEAN
    BY <1>2 DEF Sound, ConversationInv
  <2> QED
    BY <1>3, <1>4, <2>1, <2>2, AppendedFits
<1> QED
  BY <1>1, <1>5, <1>6, SoundIsEnough DEF Prompt, ConversationInv

\* A resumed process speaks as the owner of the stage it finds.
LEMMA ResumeStep ==
    ASSUME ConversationInv, CheckpointInv, NEW agent \in Owners, Resume(agent)
    PROVE  ConversationInv'
<1> DEFINE restored == normalizeMessages(checkpoint)
<1>1. /\ batch' \in 0..MaxBatch /\ prompts' \in Nat /\ owner' \in Owners
      /\ governed' = TRUE /\ prompt' = systemPrompt(governed', owner') /\ phase' = "idle"
      /\ prompt' \in Identities
  BY PromptType DEF ConversationInv, Resume
<1>2. messages' = IF restored = <<>> THEN <<>> ELSE SetSystemPrompt(restored, prompt')
  BY DEF Resume
<1>3. CASE restored = <<>>
  <2>1. NoteFits(<<>>, TRUE)
    BY DEF NoteFits
  <2> QED
    BY <1>1, <1>2, <1>3, <2>1 DEF ConversationInv
<1>4. CASE restored # <<>>
  <2>1. PICK identity \in Identities : Sound(checkpoint, identity)
    BY <1>4, NormalizedEmpty DEF CheckpointInv
  <2>2. Sound(restored, identity) /\ NoteFits(restored, TRUE)
    BY <2>1, NormalizedSound DEF CheckpointInv
  <2> HIDE DEF restored
  <2>3. Sound(messages', prompt')
    BY <1>1, <1>2, <1>4, <2>2, PromptSet
  <2>4. NoteFits(messages', governed')
    BY <1>1, <1>2, <1>4, <2>2, PromptSetFits
  <2> QED
    BY <1>1, <2>3, <2>4, SoundIsEnough
<1> QED
  BY <1>3, <1>4

LEMMA ConversationStep ==
    ConversationInv /\ CheckpointInv /\ [Next]_vars => ConversationInv'
<1> SUFFICES ASSUME ConversationInv, CheckpointInv, [Next]_vars
             PROVE  ConversationInv'
  OBVIOUS
<1>1. 0 \in 0..MaxBatch
  BY ConversationAssumption
<1>2. CASE UNCHANGED vars
  BY <1>2 DEF vars, ConversationInv, ExpectsResult
<1>3. CASE Prompt
  BY <1>3, PromptStep
<1>4. ASSUME NEW agent \in Owners, AdvanceStage(agent)
      PROVE  ConversationInv'
  BY <1>4, RepromptStep, EmptySeq DEF AdvanceStage, ConversationInv, Sound
<1>5. CASE AskModel \/ EndBeforeTurn \/ TurnFails \/ CallAborted \/ BatchDone \/ Stuck
  BY <1>1, <1>5, SoundIsEnough
  DEF AskModel, EndBeforeTurn, TurnFails, CallAborted, BatchDone, Stuck, Stop,
      ConversationInv
<1>6. ASSUME NEW text \in BOOLEAN,
             \/ TurnAnswers(text)
             \/ \E correction \in Corrections : TurnRefused(text, correction)
             \/ TurnGivenUp(text)
             \/ \E calls \in 1..MaxBatch : TurnCalls(text, calls)
      PROVE  ConversationInv'
  BY <1>6, TurnStep
<1>7. ASSUME NEW agent \in Owners, CallDone(agent)
      PROVE  ConversationInv'
  BY <1>7, CallStep
<1>8. ASSUME NEW ok \in BOOLEAN, NEW agent \in Owners, EndRun(ok, agent)
      PROVE  ConversationInv'
  <2>1. messages # <<>> /\ Sound(messages, prompt)
    BY <1>8 DEF EndRun, ConversationInv, Sound
  <2>2. CASE agent = owner
    BY <1>8, <2>1, <2>2, SoundIsEnough DEF EndRun, ConversationInv
  <2>3. CASE agent # owner
    BY <1>8, <2>1, <2>3, RepromptStep DEF EndRun, ConversationInv
  <2> QED
    BY <2>2, <2>3
<1>9. CASE SwitchOff \/ SwitchOn
  BY <1>9, SwitchStep
<1>10. CASE Exit
  <2>1. NoteFits(<<>>, governed)
    BY DEF NoteFits
  <2> QED
    BY <1>1, <1>10, <2>1 DEF Exit, ConversationInv
<1>11. ASSUME NEW agent \in Owners, Resume(agent)
       PROVE  ConversationInv'
  BY <1>11, ResumeStep
<1> QED
  BY <1>2, <1>3, <1>4, <1>5, <1>6, <1>7, <1>8, <1>9, <1>10, <1>11 DEF Next

\* What EndRun saves is the conversation of a governed run.
LEMMA CheckpointStep ==
    ConversationInv /\ CheckpointInv /\ [Next]_vars => CheckpointInv'
<1> SUFFICES ASSUME ConversationInv, CheckpointInv, [Next]_vars
             PROVE  CheckpointInv'
  OBVIOUS
<1>1. \/ UNCHANGED checkpoint
      \/ governed /\ phase = "save" /\ checkpoint' = messages
  BY DEF Next, vars, disk, Prompt, AdvanceStage, AskModel, EndBeforeTurn, TurnFails,
         TurnAnswers, TurnRefused, TurnGivenUp, TurnCalls, CallDone, CallAborted, BatchDone,
         Stuck, Stop, EndRun, Save, SwitchOff, SwitchOn, Exit, Resume
<1>2. CASE UNCHANGED checkpoint
  BY <1>2 DEF CheckpointInv
<1>3. CASE governed /\ phase = "save" /\ checkpoint' = messages
  <2>1. prompt \in Identities /\ Sound(messages, prompt) /\ NoteFits(messages, TRUE)
    BY <1>3, PromptType DEF ConversationInv
  <2> QED
    BY <1>3, <2>1 DEF CheckpointInv
<1> QED
  BY <1>1, <1>2, <1>3

\* Within a process the prompts in a conversation only become more.
LEMMA PromptsGrow ==
    ASSUME ConversationInv, [Next]_vars, phase # "down", phase' # "down"
    PROVE  PromptsIn(messages) \subseteq PromptsIn(messages')
<1>1. CASE messages = <<>>
  BY <1>1 DEF PromptsIn
<1>2. CASE messages # <<>>
  <2>1. /\ Sound(messages, prompt) /\ messages \in Seq(Messages)
        /\ prompt \in Identities /\ governed \in BOOLEAN /\ owner \in Owners
        /\ prompts \in Nat
    BY <1>2, PromptType DEF ConversationInv, Sound
  <2>2. ASSUME NEW message \in Messages
        PROVE  PromptsIn(messages) \subseteq PromptsIn(Append(messages, message))
    BY <2>1, PromptsAppended
  <2>3. ASSUME NEW identity \in Identities
        PROVE  PromptsIn(messages) \subseteq PromptsIn(SetSystemPrompt(messages, identity))
    BY <2>1, PromptsSet
  <2>4. 0 \in 0..MaxBatch /\ \A calls \in 1..MaxBatch : calls \in 0..MaxBatch
    BY ConversationAssumption
  <2>5. CASE Prompt
    <3>1. User(prompts') \in Messages
      BY <2>1, <2>5, MessageTypes DEF Prompt
    <3> QED
      BY <1>2, <2>2, <2>5, <3>1 DEF Prompt
  <2>6. ASSUME NEW agent \in Owners, AdvanceStage(agent)
        PROVE  PromptsIn(messages) \subseteq PromptsIn(messages')
    BY <2>3, <2>6, PromptType DEF AdvanceStage
  <2>7. CASE \/ AskModel \/ EndBeforeTurn \/ TurnFails \/ CallAborted \/ BatchDone
             \/ Stuck \/ UNCHANGED vars
    BY <2>7 DEF AskModel, EndBeforeTurn, TurnFails, CallAborted, BatchDone, Stuck, Stop, vars
  <2>8. ASSUME NEW text \in BOOLEAN
        PROVE  /\ Spoken(text) \in Seq(Messages)
               /\ PromptsIn(messages) \subseteq PromptsIn(Spoken(text))
               /\ \A calls \in 0..MaxBatch :
                    PromptsIn(messages) \subseteq
                        PromptsIn(Append(messages, Assistant(text, calls)))
    BY <2>1, <2>2, <2>4, MessageTypes, AppendProperties DEF Spoken
  <2>9. ASSUME NEW text \in BOOLEAN, TurnAnswers(text) \/ TurnGivenUp(text)
        PROVE  PromptsIn(messages) \subseteq PromptsIn(messages')
    BY <2>4, <2>8, <2>9 DEF TurnAnswers, TurnGivenUp, Stop
  <2>10. ASSUME NEW text \in BOOLEAN, NEW correction \in Corrections,
                TurnRefused(text, correction)
         PROVE  PromptsIn(messages) \subseteq PromptsIn(messages')
    <3>1. Internal(correction) \in Messages
      BY MessageTypes
    <3>2. PromptsIn(Spoken(text))
            \subseteq PromptsIn(Append(Spoken(text), Internal(correction)))
      BY <2>8, <3>1, PromptsAppended
    <3> QED
      BY <2>8, <2>10, <3>2 DEF TurnRefused, AppendCorrection
  <2>11. ASSUME NEW text \in BOOLEAN, NEW calls \in 1..MaxBatch, TurnCalls(text, calls)
         PROVE  PromptsIn(messages) \subseteq PromptsIn(messages')
    BY <2>4, <2>8, <2>11 DEF TurnCalls
  <2>12. ASSUME NEW agent \in Owners, CallDone(agent)
         PROVE  PromptsIn(messages) \subseteq PromptsIn(messages')
    <3> DEFINE answered == Append(messages, Result(next))
    <3>1. ExpectsResult(messages) /\ next =< batch /\ batch \in 0..MaxBatch
      BY <2>12 DEF CallDone, ConversationInv
    <3>2. next \in 1..MaxBatch
      BY <3>1, ConversationAssumption DEF ExpectsResult
    <3>3. /\ Result(next) \in Messages /\ Result(next).role = "tool"
          /\ Result(next).answers = next
      BY <3>2, MessageTypes
    <3>4. Follows(Result(next), messages[Len(messages)])
      BY <3>1, <3>2, <3>3 DEF ExpectsResult, Follows
    <3>5. Sound(answered, prompt)
      BY <2>1, <3>3, <3>4, Appended
    <3>6. PromptsIn(messages) \subseteq PromptsIn(answered)
      BY <2>2, <3>3
    <3> HIDE DEF answered
    <3>7. ASSUME NEW identity \in Identities
          PROVE  PromptsIn(answered) \subseteq PromptsIn(SetSystemPrompt(answered, identity))
      BY <2>1, <3>5, PromptsSet
    <3>8. \/ messages' = answered
          \/ \E identity \in Identities : messages' = SetSystemPrompt(answered, identity)
      BY <2>12, PromptType DEF CallDone, answered
    <3> QED
      BY <3>6, <3>7, <3>8
  <2>13. ASSUME NEW ok \in BOOLEAN, NEW agent \in Owners, EndRun(ok, agent)
         PROVE  PromptsIn(messages) \subseteq PromptsIn(messages')
    BY <2>3, <2>13, PromptType DEF EndRun
  <2>14. CASE SwitchOff \/ SwitchOn
    <3>1. PICK identity \in Identities, text \in {"off", "on"} :
             messages' = Append(SetSystemPrompt(messages, identity), Internal(text))
      BY <2>1, <2>14, PromptType DEF SwitchOff, SwitchOn
    <3>2. SetSystemPrompt(messages, identity) \in Seq(Messages)
      BY <2>1, PromptSet DEF Sound
    <3>3. Internal(text) \in Messages
      BY MessageTypes
    <3>4. PromptsIn(SetSystemPrompt(messages, identity)) \subseteq PromptsIn(messages')
      BY <3>1, <3>2, <3>3, PromptsAppended
    <3> QED
      BY <2>3, <3>4
  <2>15. ~Exit /\ \A agent \in Owners : ~Resume(agent)
    BY DEF Exit, Resume
  <2> QED
    BY <2>5, <2>6, <2>7, <2>9, <2>10, <2>11, <2>12, <2>13, <2>14, <2>15 DEF Next
<1> QED
  BY <1>1, <1>2

\* What is reported as saved is in the checkpoint, and what is in the checkpoint
\* is restored.
LEMMA MemoryStep ==
    ConversationInv /\ CheckpointInv /\ MemoryInv /\ [Next]_vars => MemoryInv'
<1> SUFFICES ASSUME ConversationInv, CheckpointInv, MemoryInv, [Next]_vars
             PROVE  MemoryInv'
  OBVIOUS
<1>1. \/ UNCHANGED <<checkpoint, kept>>
      \/ /\ phase = "save" /\ phase' = "idle"
         /\ checkpoint' = messages /\ kept' = PromptsIn(messages)
  BY DEF Next, vars, disk, Prompt, AdvanceStage, AskModel, EndBeforeTurn, TurnFails,
         TurnAnswers, TurnRefused, TurnGivenUp, TurnCalls, CallDone, CallAborted, BatchDone,
         Stuck, Stop, EndRun, Save, SwitchOff, SwitchOn, Exit, Resume
<1>2. phase = "down" => UNCHANGED vars \/ \E agent \in Owners : Resume(agent)
  BY DEF Next, Prompt, AdvanceStage, AskModel, EndBeforeTurn, TurnFails,
         TurnAnswers, TurnRefused, TurnGivenUp, TurnCalls, CallDone, CallAborted, BatchDone,
         Stuck, EndRun, SwitchOff, SwitchOn, Exit
<1>3. kept' \subseteq PromptsIn(checkpoint')
  BY <1>1 DEF MemoryInv
<1>4. ASSUME phase' # "down" PROVE kept' \subseteq PromptsIn(messages')
  <2>1. CASE phase # "down"
    BY <1>1, <1>4, <2>1, PromptsGrow DEF MemoryInv
  <2>2. CASE phase = "down" /\ UNCHANGED vars
    BY <1>4, <2>2 DEF vars
  <2>3. ASSUME NEW agent \in Owners, Resume(agent)
        PROVE  kept' \subseteq PromptsIn(messages')
    <3> DEFINE restored == normalizeMessages(checkpoint)
    <3>1. /\ messages' = IF restored = <<>> THEN <<>> ELSE SetSystemPrompt(restored, prompt')
          /\ prompt' \in Identities /\ kept' = kept
      BY <2>3, PromptType DEF Resume, disk
    <3>2. CASE checkpoint = <<>>
      <4>1. PromptsIn(<<>>) = {}
        BY DEF PromptsIn
      <4> QED
        BY <3>1, <3>2, <4>1 DEF MemoryInv
    <3>3. CASE checkpoint # <<>>
      <4>1. PICK identity \in Identities : Sound(checkpoint, identity)
        BY <3>3 DEF CheckpointInv
      <4>2. /\ Sound(restored, identity)
            /\ PromptsIn(checkpoint) \subseteq PromptsIn(restored)
        BY <4>1, NormalizedSound
      <4> HIDE DEF restored
      <4>3. PromptsIn(restored) \subseteq PromptsIn(messages')
        BY <3>1, <4>1, <4>2, PromptsSet
      <4> QED
        BY <3>1, <4>2, <4>3 DEF MemoryInv
    <3> QED
      BY <3>2, <3>3
  <2> QED
    BY <1>2, <2>1, <2>2, <2>3
<1> QED
  BY <1>3, <1>4 DEF MemoryInv

LEMMA ConversationInvariant == Spec => [](ConversationInv /\ CheckpointInv /\ MemoryInv)
<1>1. Init => ConversationInv /\ CheckpointInv /\ MemoryInv
  BY ConversationAssumption
  DEF Init, ConversationInv, CheckpointInv, MemoryInv, NoteFits
<1> QED
  BY <1>1, ConversationStep, CheckpointStep, MemoryStep, PTL DEF Spec

\* Every request speaks as the identity the session has then,
\* and as no other (SetSystemPrompt).
THEOREM PromptStaysCurrent == Spec => []PromptIsCurrent
<1>1. ConversationInv => PromptIsCurrent
  <2> SUFFICES ASSUME ConversationInv, phase = "turn"
               PROVE  /\ Head(messages) = System(systemPrompt(governed, owner))
                      /\ \A i \in 2..Len(messages) : messages[i].role # "system"
    BY DEF PromptIsCurrent
  <2> QED
    BY LengthType DEF ConversationInv, Sound
<1> QED
  BY <1>1, ConversationInvariant, PTL

\* Every result follows its reply or the result before it,
\* whatever is refused, aborted or switched between them (Run, executeCalls).
THEOREM ParentsStay == Spec => []ResultsHaveParents
<1>1. ConversationInv => ResultsHaveParents
  <2> SUFFICES ASSUME ConversationInv, NEW i \in DOMAIN messages,
                      messages[i].role = "tool"
               PROVE  i > 1 /\ Follows(messages[i], messages[i - 1])
    BY DEF ResultsHaveParents, Follows
  <2>1. Sound(messages, prompt) /\ i \in 1..Len(messages)
    BY EmptySeq DEF ConversationInv, Sound
  <2>2. i # 1
    BY <2>1 DEF Sound, System
  <2> QED
    BY <2>1, <2>2 DEF Sound
<1> QED
  BY <1>1, ConversationInvariant, PTL

\* No note stands behind its like, whether a refusal is repeated, the mode is
\* switched to and fro, or a conversation is restored (appendInternalCorrection,
\* Note, normalizeMessages).
THEOREM NotesStayDistinct == Spec => []NotesDoNotRepeat
<1>1. ConversationInv => NotesDoNotRepeat
  BY EmptySeq DEF ConversationInv, Sound, NotesDoNotRepeat
<1> QED
  BY <1>1, ConversationInvariant, PTL

\* A prompt whose save was reported is in every later conversation of the
\* session, in this process or any that resumes it (saveConversation,
\* LoadMessages, normalizeMessages).
THEOREM PromptsAreKept == Spec => []PromptsSurvive
<1>1. MemoryInv => PromptsSurvive
  BY DEF MemoryInv, PromptsSurvive
<1> QED
  BY <1>1, ConversationInvariant, PTL

=============================================================================
