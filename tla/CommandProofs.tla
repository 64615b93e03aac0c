---------------------------- MODULE CommandProofs ----------------------------
(***************************************************************************)
(* Theorems about Command, for every number of streams, every cap and      *)
(* every amount of output, with and without a WaitDelay.                   *)
(***************************************************************************)
EXTENDS Command, Induction, SequenceTheorems

\* How the end of the context, the signal and what Run returned hang together.
\* A cancelled context leaves its mark in cancelled, an expired one in the
\* outcome; a signal is sent only after one or the other.
PassInv ==
    /\ context \in {"live", "expired", "cancelled"}
    /\ context = "cancelled" => cancelled
    /\ signalled => context # "live"
    /\ outcome # None =>
          /\ Over
          /\ outcome.exit = process
          /\ outcome.timedOut <=> context = "expired"
    /\ receipt # None => outcome # None
    /\ receipt = TRUE => process = "succeeded" /\ ~signalled

LEMMA PassInit == Init => PassInv
  BY CommandAssumption DEF Init, PassInv

\* Steps that only move output about.
LEMMA PassStays == PassInv /\ UNCHANGED <<os, outcome, receipt>> => PassInv'
  BY DEF PassInv, os, Over

LEMMA PassNext == PassInv /\ [Next]_vars => PassInv'
<1> SUFFICES ASSUME PassInv, [Next]_vars
             PROVE  PassInv'
  OBVIOUS
<1>1. ASSUME NEW s \in Streams, NEW piece \in Pieces, Write(s, piece)
      PROVE  PassInv'
  BY <1>1, PassStays DEF Write
<1>2. ASSUME NEW s \in Streams, EndOfFile(s) \/ ClosePipe(s) \/ Copy(s) \/ Show(s)
      PROVE  PassInv'
  BY <1>2, PassStays DEF EndOfFile, ClosePipe, Copy, Show
<1>3. ASSUME NEW code \in Exited, Exit(code)
      PROVE  PassInv'
  BY <1>3 DEF Exit, PassInv, Over
<1>4. CASE Fork \/ ChildExits
  BY <1>4 DEF Fork, ChildExits, PassInv, Over
<1>5. CASE Expire
  BY <1>5 DEF Expire, PassInv, Over
<1>6. CASE CancelContext
  BY <1>6 DEF CancelContext, PassInv, Over
<1>7. CASE Signal
  BY <1>7 DEF Signal, PassInv, Over
<1>8. CASE Kill
  BY <1>8 DEF Kill, PassInv, Over
<1>9. CASE Return
  <2>1. UNCHANGED <<os, receipt>> /\ Over /\ receipt = None
    BY <1>9 DEF Return, PassInv
  <2>2. outcome'.exit = process /\ (outcome'.timedOut <=> context = "expired")
    BY <1>9 DEF Return, TimedOut
  <2> QED
    BY <2>1, <2>2, CommandAssumption DEF os, PassInv, Over
<1>10. CASE RunGate
  <2>1. UNCHANGED <<os, outcome>> /\ outcome # None /\ ~cancelled
    BY <1>10 DEF RunGate
  <2>2. receipt' = TRUE => process = "succeeded" /\ context = "live"
    BY <1>10, <2>1 DEF RunGate, classify, PassInv
  <2> QED
    BY <2>1, <2>2 DEF os, PassInv, Over
<1>11. CASE UNCHANGED vars
  BY <1>11, PassStays DEF vars
<1> QED
  BY <1>1, <1>2, <1>3, <1>4, <1>5, <1>6, <1>7, <1>8, <1>9, <1>10, <1>11 DEF Next

\* A gate that passed exited with 0 and was never told to stop, whatever it
\* printed, started and left running, and whenever its time ran out or its run
\* was cancelled: between the exit and the end of its output, or after Run had
\* returned (ExecRunner.Run, classify, RunGate).
THEOREM PassesAreGenuine == Spec => []PassIsGenuine
<1>1. PassInv => PassIsGenuine
  BY DEF PassInv, PassIsGenuine
<1> QED
  BY <1>1, PassInit, PassNext, PTL DEF Spec

-----------------------------------------------------------------------------
\* What is kept of the output, and what of it is reported.

KeptBy(out) == [s \in Streams |-> out[s].kept]
Kept == SumFunction(KeptBy(output))
Read == SumFunction(copied)

OutputTypes ==
    /\ pipe \in [Streams -> Seq(Pieces)]
    /\ copier \in [Streams -> {"reading", "showing", "done"}]
    /\ output \in [Streams -> [kept : Nat, pending : BOOLEAN]]
    /\ copied \in [Streams -> Nat]
    /\ lines \in [Streams -> Nat]
    /\ shown \in [Streams -> Nat]
    /\ budget \in Nat
    /\ truncated \in BOOLEAN

\* The budget is what the cap leaves over both streams, and the mark says that
\* something was read and not kept.
WithinBudget ==
    /\ Kept + budget = Cap
    /\ Read >= Kept
    /\ truncated <=> Read > Kept

\* A line begun is reported, or is being reported, or has not ended.
LinesKept ==
    \A s \in Streams :
        /\ copier[s] = "showing" => ~output[s].pending
        /\ lines[s] = shown[s] +
                IF output[s].pending \/ copier[s] = "showing" THEN 1 ELSE 0

Returned ==
    outcome # None =>
        /\ AllCopied
        /\ \A s \in Streams : ~output[s].pending
        /\ outcome.truncated = truncated

OutputInv == OutputTypes /\ WithinBudget /\ LinesKept /\ Returned

LEMMA KeptType ==
    OutputTypes => KeptBy(output) \in [Streams -> Nat] /\ Kept \in Nat /\ Read \in Nat
<1> SUFFICES ASSUME OutputTypes
             PROVE  KeptBy(output) \in [Streams -> Nat] /\ Kept \in Nat /\ Read \in Nat
  OBVIOUS
<1>1. KeptBy(output) \in [Streams -> Nat] /\ copied \in [Streams -> Nat]
  BY DEF OutputTypes, KeptBy
<1> QED
  BY <1>1, CommandAssumption, SumType DEF Kept, Read

LEMMA OutputInit == Init => OutputInv
<1> SUFFICES ASSUME Init PROVE OutputInv
  OBVIOUS
<1>1. OutputTypes
  BY CommandAssumption, EmptySeq DEF Init, OutputTypes
<1>2. WithinBudget
  <2>1. Kept = 0
    <3>1. KeptBy(output) \in [Streams -> Nat] /\ \A s \in Streams : KeptBy(output)[s] = 0
      BY DEF Init, KeptBy
    <3> QED
      BY <3>1, CommandAssumption, SumOfZeros DEF Kept
  <2>2. Read = 0
    <3>1. copied \in [Streams -> Nat] /\ \A s \in Streams : copied[s] = 0
      BY DEF Init
    <3> QED
      BY <3>1, CommandAssumption, SumOfZeros DEF Read
  <2>3. budget = Cap /\ ~truncated
    BY DEF Init
  <2> QED
    BY <2>1, <2>2, <2>3, CommandAssumption DEF WithinBudget
<1>3. LinesKept
  BY DEF Init, LinesKept
<1>4. Returned
  BY DEF Init, Returned
<1> QED
  BY <1>1, <1>2, <1>3, <1>4 DEF OutputInv

\* Steps of the command and of os/exec that leave the output alone.
LEMMA OutputStays ==
    ASSUME OutputInv, UNCHANGED <<output, budget, truncated, copied, lines, shown, outcome>>,
           pipe' \in [Streams -> Seq(Pieces)],
           copier' \in [Streams -> {"reading", "showing", "done"}],
           \A s \in Streams :
              copier'[s] = copier[s] \/ (copier[s] = "reading" /\ copier'[s] = "done")
    PROVE  OutputInv'
<1>1. OutputTypes'
  BY DEF OutputInv, OutputTypes
<1>2. WithinBudget'
  BY DEF OutputInv, WithinBudget, Kept, KeptBy, Read
<1>3. LinesKept'
  BY DEF OutputInv, LinesKept
<1>4. Returned'
  BY DEF OutputInv, Returned, AllCopied
<1> QED
  BY <1>1, <1>2, <1>3, <1>4 DEF OutputInv

LEMMA OutputCopied ==
    ASSUME OutputInv, NEW s \in Streams, Copy(s)
    PROVE  OutputInv'
<1>0. OutputTypes /\ WithinBudget /\ LinesKept /\ Returned
  BY DEF OutputInv
<1>1. /\ copier[s] = "reading" /\ pipe[s] \in Seq(Pieces) /\ pipe[s] # <<>>
      /\ output[s].kept \in Nat /\ output[s].pending \in BOOLEAN
  BY <1>0 DEF Copy, OutputTypes
<1>2. Head(pipe[s]) \in Pieces /\ Tail(pipe[s]) \in Seq(Pieces)
  BY <1>1, HeadTailProperties
<1>3. /\ output' = [output EXCEPT ![s].kept = IF budget > 0 THEN @ + 1 ELSE @,
                                   ![s].pending = Head(pipe[s]) = "part"]
      /\ truncated' = (truncated \/ budget = 0)
      /\ budget' = IF budget > 0 THEN budget - 1 ELSE 0
  BY DEF Copy, WriteCapped
<1>4. /\ \A t \in Streams \ {s} : output'[t] = output[t]
      /\ output'[s] = [kept |-> IF budget > 0 THEN output[s].kept + 1 ELSE output[s].kept,
                       pending |-> Head(pipe[s]) = "part"]
      /\ output' \in [Streams -> [kept : Nat, pending : BOOLEAN]]
  <2> DEFINE kept == IF budget > 0 THEN output[s].kept + 1 ELSE output[s].kept
             pending == Head(pipe[s]) = "part"
  <2>1. kept \in Nat /\ pending \in BOOLEAN
    BY <1>0, <1>1 DEF OutputTypes
  <2>2. output' = [output EXCEPT ![s].kept = kept, ![s].pending = pending]
    BY <1>0, <1>3 DEF OutputTypes
  <2> HIDE DEF kept, pending
  <2>3. /\ \A t \in Streams \ {s} : output'[t] = output[t]
        /\ output'[s] = [kept |-> kept, pending |-> pending]
        /\ output' \in [Streams -> [kept : Nat, pending : BOOLEAN]]
    BY <1>0, <2>1, <2>2 DEF OutputTypes
  <2> QED
    BY <2>3 DEF kept, pending
<1>5. OutputTypes'
  <2>1. budget' \in Nat /\ truncated' \in BOOLEAN
    BY <1>0, <1>3 DEF OutputTypes
  <2>2. pipe' \in [Streams -> Seq(Pieces)]
    BY <1>0, <1>2 DEF Copy, OutputTypes
  <2>3. copier' \in [Streams -> {"reading", "showing", "done"}]
    BY <1>0 DEF Copy, OutputTypes
  <2>4. copied' \in [Streams -> Nat] /\ lines' \in [Streams -> Nat] /\ shown' \in [Streams -> Nat]
    BY <1>0 DEF Copy, OutputTypes
  <2> QED
    BY <1>4, <2>1, <2>2, <2>3, <2>4 DEF OutputTypes
<1>6. WithinBudget'
  <2>1. KeptBy(output) \in [Streams -> Nat] /\ KeptBy(output') \in [Streams -> Nat]
        /\ Kept \in Nat /\ Read \in Nat /\ budget \in Nat /\ truncated \in BOOLEAN
        /\ copied \in [Streams -> Nat] /\ copied' \in [Streams -> Nat]
    BY <1>0, <1>4, <1>5, KeptType DEF KeptBy, OutputTypes
  <2>2. Read' = Read + 1
    <3>1. copied'[s] = copied[s] + 1 /\ \A t \in Streams \ {s} : copied'[t] = copied[t]
      BY <1>0 DEF Copy, OutputTypes
    <3> QED
      BY <2>1, <3>1, CommandAssumption, SumGrows DEF Read
  <2>3. ASSUME NEW d \in Nat, output'[s].kept = output[s].kept + d
        PROVE  Kept' = Kept + d
    <3>1. /\ KeptBy(output')[s] = KeptBy(output)[s] + d
          /\ \A t \in Streams \ {s} : KeptBy(output')[t] = KeptBy(output)[t]
      BY <1>4, <2>3 DEF KeptBy
    <3>2. SumFunction(KeptBy(output')) = SumFunction(KeptBy(output)) + d
      BY <2>1, <3>1, CommandAssumption, SumGrows
    <3> QED
      BY <3>2 DEF Kept, KeptBy
  <2>4. CASE budget > 0
    <3>1. Kept' = Kept + 1
      BY <1>4, <2>3, <2>4
    <3>2. budget' = budget - 1 /\ truncated' = truncated
      BY <1>3, <2>1, <2>4
    <3> QED
      BY <1>0, <2>1, <2>2, <3>1, <3>2 DEF WithinBudget
  <2>5. CASE budget = 0
    <3>1. Kept' = Kept
      <4>1. output'[s].kept = output[s].kept + 0
        BY <1>1, <1>4, <2>5
      <4> QED
        BY <2>1, <2>3, <4>1
    <3>2. budget' = 0
      BY <1>3, <2>5
    <3>3. truncated'
      BY <1>3, <2>5, Zenon
    <3> QED
      BY <1>0, <2>1, <2>2, <2>5, <3>1, <3>2, <3>3 DEF WithinBudget
  <2> QED
    BY <2>1, <2>4, <2>5
<1>7. LinesKept'
  <2>1. ASSUME NEW t \in Streams, t # s
        PROVE  /\ copier'[t] = copier[t] /\ output'[t] = output[t]
               /\ lines'[t] = lines[t] /\ shown'[t] = shown[t]
    BY <1>0, <1>4, <2>1 DEF Copy, OutputTypes
  <2>2. /\ copier'[s] = IF Head(pipe[s]) = "line" THEN "showing" ELSE "reading"
        /\ lines'[s] = IF output[s].pending THEN lines[s] ELSE lines[s] + 1
        /\ shown'[s] = shown[s]
    BY <1>0, <1>1 DEF Copy, OutputTypes
  <2>3. lines[s] = shown[s] + IF output[s].pending THEN 1 ELSE 0
    BY <1>0, <1>1 DEF LinesKept
  <2>4. lines'[s] = shown[s] + 1
    <3>1. lines[s] \in Nat /\ shown[s] \in Nat
      BY <1>0 DEF OutputTypes
    <3>2. CASE output[s].pending
      BY <2>2, <2>3, <3>1, <3>2
    <3>3. CASE ~output[s].pending
      BY <2>2, <2>3, <3>1, <3>3
    <3> QED
      BY <3>2, <3>3
  <2>5. CASE Head(pipe[s]) = "line"
    <3>1. copier'[s] = "showing" /\ ~output'[s].pending
      BY <1>4, <2>2, <2>5
    <3> QED
      BY <1>0, <2>1, <2>2, <2>4, <3>1 DEF LinesKept
  <2>6. CASE Head(pipe[s]) = "part"
    <3>1. copier'[s] = "reading" /\ output'[s].pending
      BY <1>4, <2>2, <2>6
    <3> QED
      BY <1>0, <2>1, <2>2, <2>4, <3>1 DEF LinesKept
  <2> QED
    BY <1>2, <2>5, <2>6 DEF Pieces
<1>8. Returned'
  <2>1. outcome' = outcome /\ (outcome # None => FALSE)
    BY <1>0, <1>1 DEF Copy, Returned, AllCopied
  <2> QED
    BY <2>1 DEF Returned
<1> QED
  BY <1>5, <1>6, <1>7, <1>8 DEF OutputInv

LEMMA OutputShown ==
    ASSUME OutputInv, NEW s \in Streams, Show(s)
    PROVE  OutputInv'
<1>0. OutputTypes /\ WithinBudget /\ LinesKept /\ Returned
  BY DEF OutputInv
<1>1. OutputTypes'
  BY <1>0 DEF Show, OutputTypes
<1>2. WithinBudget'
  BY <1>0 DEF Show, WithinBudget, Kept, KeptBy, Read
<1>3. LinesKept'
  <2>1. ASSUME NEW t \in Streams, t # s
        PROVE  /\ copier'[t] = copier[t] /\ output'[t] = output[t]
               /\ lines'[t] = lines[t] /\ shown'[t] = shown[t]
    BY <1>0, <2>1 DEF Show, OutputTypes
  <2>2. /\ copier[s] = "showing" /\ copier'[s] = "reading" /\ output'[s] = output[s]
        /\ lines'[s] = lines[s] /\ shown'[s] = shown[s] + 1 /\ shown[s] \in Nat
    BY <1>0 DEF Show, OutputTypes
  <2>3. ~output[s].pending /\ lines[s] = shown[s] + 1
    BY <1>0, <2>2 DEF LinesKept
  <2>4. lines'[s] = shown'[s] + 0
    BY <2>2, <2>3
  <2> QED
    BY <1>0, <2>1, <2>2, <2>3, <2>4 DEF LinesKept
<1>4. Returned'
  <2>1. outcome' = outcome /\ (outcome # None => FALSE)
    BY <1>0 DEF Show, Returned, AllCopied
  <2> QED
    BY <2>1 DEF Returned
<1> QED
  BY <1>1, <1>2, <1>3, <1>4 DEF OutputInv

LEMMA OutputReturned ==
    ASSUME OutputInv, Return
    PROVE  OutputInv'
<1>0. OutputTypes /\ WithinBudget /\ LinesKept
  BY DEF OutputInv
<1>1. /\ UNCHANGED <<pipe, copier, budget, truncated, copied, lines>>
      /\ AllCopied
      /\ output' = [s \in Streams |-> [output[s] EXCEPT !.pending = FALSE]]
      /\ shown' = [s \in Streams |-> shown[s] + IF output[s].pending THEN 1 ELSE 0]
      /\ outcome' = [exit |-> process, timedOut |-> TimedOut, truncated |-> truncated]
  BY DEF Return, flush
<1>2. \A s \in Streams : output'[s].kept = output[s].kept /\ output'[s].pending = FALSE
  BY <1>0, <1>1 DEF OutputTypes
<1>3. OutputTypes'
  <2>1. output' \in [Streams -> [kept : Nat, pending : BOOLEAN]]
    BY <1>0, <1>1 DEF OutputTypes
  <2>2. shown' \in [Streams -> Nat]
    BY <1>0, <1>1 DEF OutputTypes
  <2> QED
    BY <1>0, <1>1, <2>1, <2>2 DEF OutputTypes
<1>4. WithinBudget'
  <2>1. KeptBy(output') = KeptBy(output)
    BY <1>2 DEF KeptBy
  <2>2. Kept' = Kept
    BY <2>1 DEF Kept, KeptBy
  <2> QED
    BY <1>0, <1>1, <2>2 DEF WithinBudget, Read
<1>5. LinesKept'
  <2> SUFFICES ASSUME NEW s \in Streams
               PROVE  /\ copier'[s] # "showing" /\ ~output'[s].pending
                      /\ lines'[s] = shown'[s] + 0
    BY DEF LinesKept
  <2>1. copier[s] = "done" /\ copier'[s] = "done" /\ ~output'[s].pending
    BY <1>1, <1>2 DEF AllCopied
  <2>2. lines[s] = shown[s] + IF output[s].pending THEN 1 ELSE 0
    BY <1>0, <2>1 DEF LinesKept
  <2>3. lines'[s] = shown'[s] /\ shown'[s] \in Nat
    BY <1>1, <1>3, <2>2 DEF OutputTypes
  <2> QED
    BY <2>1, <2>3
<1>6. Returned'
  BY <1>1, <1>2 DEF Returned, AllCopied
<1> QED
  BY <1>3, <1>4, <1>5, <1>6 DEF OutputInv

LEMMA OutputNext == OutputInv /\ [Next]_vars => OutputInv'
<1> SUFFICES ASSUME OutputInv, [Next]_vars
             PROVE  OutputInv'
  OBVIOUS
<1>0. pipe \in [Streams -> Seq(Pieces)] /\ copier \in [Streams -> {"reading", "showing", "done"}]
  BY DEF OutputInv, OutputTypes
<1>1. CASE UNCHANGED <<copying, outcome>>
  BY <1>0, <1>1, OutputStays DEF copying
<1>2. ASSUME NEW s \in Streams, NEW piece \in Pieces, Write(s, piece)
      PROVE  OutputInv'
  <2>1. pipe[s] \in Seq(Pieces) /\ Append(pipe[s], piece) \in Seq(Pieces)
    BY <1>0, AppendProperties
  <2>2. pipe' \in [Streams -> Seq(Pieces)]
    BY <1>0, <1>2, <2>1 DEF Write
  <2> QED
    BY <1>0, <1>2, <2>2, OutputStays DEF Write
<1>3. ASSUME NEW s \in Streams, EndOfFile(s) \/ ClosePipe(s)
      PROVE  OutputInv'
  <2>1. pipe' \in [Streams -> Seq(Pieces)]
    BY <1>0, <1>3, EmptySeq DEF EndOfFile, ClosePipe
  <2>2. copier[s] = "reading" /\ copier' = [copier EXCEPT ![s] = "done"]
        /\ UNCHANGED <<output, budget, truncated, copied, lines, shown, outcome>>
    BY <1>3 DEF EndOfFile, ClosePipe
  <2> QED
    BY <1>0, <2>1, <2>2, OutputStays
<1>4. CASE \/ Fork \/ ChildExits \/ Expire \/ CancelContext \/ Signal \/ Kill \/ RunGate
           \/ \E code \in Exited : Exit(code)
  BY <1>1, <1>4 DEF Fork, ChildExits, Expire, CancelContext, Signal, Kill, RunGate, Exit
<1>5. CASE UNCHANGED vars
  BY <1>1, <1>5 DEF vars
<1> QED
  BY <1>2, <1>3, <1>4, <1>5, OutputCopied, OutputShown, OutputReturned DEF Next

\* However the streams share the budget and whoever closes them, what is kept is
\* within the cap, the outcome says whether something was left out, and every
\* line that was read is reported once (cappedBuffer, ExecRunner.Run).
THEOREM OutputAccounted == Spec => []OutputIsAccounted
<1>1. OutputInv => OutputIsAccounted
  <2> SUFFICES ASSUME OutputInv
               PROVE  /\ Kept =< Cap
                      /\ outcome # None => (outcome.truncated <=> Read > Kept)
                      /\ outcome # None => shown = lines
    BY DEF OutputIsAccounted, Kept, KeptBy, Read
  <2>1. OutputTypes /\ WithinBudget /\ LinesKept /\ Returned
    BY DEF OutputInv
  <2>2. Kept \in Nat /\ budget \in Nat /\ Cap \in Nat
    BY <2>1, KeptType, CommandAssumption DEF OutputTypes
  <2>3. Kept =< Cap
    BY <2>1, <2>2 DEF WithinBudget
  <2>4. outcome # None => (outcome.truncated <=> Read > Kept)
    BY <2>1 DEF WithinBudget, Returned
  <2>5. ASSUME outcome # None PROVE shown = lines
    <3>1. \A s \in Streams : lines[s] = shown[s] + 0 /\ shown[s] \in Nat
      BY <2>1, <2>5 DEF LinesKept, Returned, AllCopied, OutputTypes
    <3>2. \A s \in Streams : shown[s] = lines[s]
      BY <3>1
    <3> QED
      BY <2>1, <3>2 DEF OutputTypes
  <2> QED
    BY <2>3, <2>4, <2>5
<1> QED
  BY <1>1, OutputInit, OutputNext, PTL DEF Spec

=============================================================================
