------------------------------ MODULE Command ------------------------------
(***************************************************************************)
(* Running one command (internal/enforce/runner.go, gate.go;               *)
(* internal/tool/bash.go): the process and what it leaves running, the     *)
(* goroutines that copy its output, the context that may expire or be      *)
(* cancelled at any moment, and the package os/exec that waits for it all. *)
(*                                                                         *)
(* Output is counted in pieces: a piece ends a line or is a part of one.   *)
(* The pipes belong to whoever still holds them, so a process that was     *)
(* started in the background keeps them open after the command has exited. *)
(***************************************************************************)
EXTENDS Integers, Sequences, FiniteSets, Functions

CONSTANTS
    Streams,    \* the pipes: of a gate two, of a shell command one for both
    WaitDelay,  \* whether the command is waited for with a WaitDelay
    Cap,        \* pieces of output kept
    MaxWrites,  \* bound: pieces of output
    None        \* no outcome

ASSUME CommandAssumption ==
    /\ IsFiniteSet(Streams)
    /\ WaitDelay \in BOOLEAN
    /\ Cap \in Nat
    /\ MaxWrites \in Nat
    /\ None \notin BOOLEAN

VARIABLES
    process,    \* "unstarted", "running", how it exited, or "killed"
    child,      \* whether a background process holds the pipes
    context,    \* "live", "expired" or "cancelled", whichever came first
    cancelled,  \* whether the caller has cancelled, before or after
    signalled,  \* whether the running command was sent a signal
    pipe,       \* what is written to each pipe and not yet read
    copier,     \* each copying goroutine: "reading", "showing" a line, "done"
    output,     \* per stream: pieces kept, and whether a line is unfinished
    budget,     \* pieces that may still be kept
    truncated,
    outcome,    \* what Run has returned
    receipt,    \* whether the gate passed, None before there is a receipt
    written,    \* history: pieces the command's side wrote
    copied,     \* history: pieces read from the pipes
    lines,      \* history: lines begun in what was read
    shown       \* history: lines reported to the UI

os == <<process, child, context, cancelled, signalled>>
copying == <<pipe, copier, output, budget, truncated, copied, lines, shown>>
vars == <<os, copying, outcome, receipt, written>>

Exited == {"succeeded", "failed"}
Pieces == {"part", "line"}
Over == process # "running"
AllCopied == \A s \in Streams : copier[s] = "done"

Init ==
    /\ process \in {"unstarted", "running"}
    /\ child = FALSE
    /\ context = "live"
    /\ cancelled = FALSE
    /\ signalled = FALSE
    /\ pipe = [s \in Streams |-> <<>>]
    /\ copier = [s \in Streams |-> IF process = "running" THEN "reading" ELSE "done"]
    /\ output = [s \in Streams |-> [kept |-> 0, pending |-> FALSE]]
    /\ budget = Cap
    /\ truncated = FALSE
    /\ outcome = None
    /\ receipt = None
    /\ written = 0
    /\ copied = [s \in Streams |-> 0]
    /\ lines = [s \in Streams |-> 0]
    /\ shown = [s \in Streams |-> 0]

-----------------------------------------------------------------------------
\* The command, its children and the caller.

Write(s, piece) ==
    /\ process = "running" \/ child
    /\ copier[s] # "done"
    /\ written < MaxWrites
    /\ written' = written + 1
    /\ pipe' = [pipe EXCEPT ![s] = Append(@, piece)]
    /\ UNCHANGED <<os, copier, output, budget, truncated, copied, lines, shown,
                   outcome, receipt>>

\* By itself, or because it handles the signal that asks it to.
Exit(code) ==
    /\ process = "running"
    /\ process' = code
    /\ UNCHANGED <<child, context, cancelled, signalled, copying, outcome, receipt, written>>

Fork ==
    /\ process = "running"
    /\ ~child
    /\ child' = TRUE
    /\ UNCHANGED <<process, context, cancelled, signalled, copying, outcome, receipt, written>>

ChildExits ==
    /\ child
    /\ child' = FALSE
    /\ UNCHANGED <<process, context, cancelled, signalled, copying, outcome, receipt, written>>

Expire ==
    /\ outcome = None
    /\ context = "live"
    /\ context' = "expired"
    /\ UNCHANGED <<process, child, cancelled, signalled, copying, outcome, receipt, written>>

CancelContext ==
    /\ receipt = None
    /\ ~cancelled
    /\ cancelled' = TRUE
    /\ context' = IF context = "live" THEN "cancelled" ELSE context
    /\ UNCHANGED <<process, child, signalled, copying, outcome, receipt, written>>

-----------------------------------------------------------------------------
\* os/exec.

\* The end of the context: a gate is asked to stop, a shell is killed.
Signal ==
    /\ context # "live"
    /\ process = "running"
    /\ ~signalled
    /\ signalled' = TRUE
    /\ process' = IF WaitDelay THEN process ELSE "killed"
    /\ UNCHANGED <<child, context, cancelled, copying, outcome, receipt, written>>

\* Mutation: the command is never killed.
KillNever ==
    /\ signalled
    /\ process = "unstarted"
    /\ process' = "killed"
    /\ UNCHANGED <<child, context, cancelled, signalled, copying, outcome, receipt, written>>

\* What a default handler does at once, and what follows a grace period.
Kill ==
    /\ signalled
    /\ process = "running"
    /\ process' = "killed"
    /\ UNCHANGED <<child, context, cancelled, signalled, copying, outcome, receipt, written>>

EndOfFile(s) ==
    /\ copier[s] = "reading"
    /\ pipe[s] = <<>>
    /\ Over
    /\ ~child
    /\ copier' = [copier EXCEPT ![s] = "done"]
    /\ UNCHANGED <<os, pipe, output, budget, truncated, copied, lines, shown, outcome,
                   receipt, written>>

\* WaitDelay after the exit the pipes are closed, whatever is left in them.
ClosePipe(s) ==
    /\ WaitDelay
    /\ Over
    /\ copier[s] = "reading"
    /\ copier' = [copier EXCEPT ![s] = "done"]
    /\ pipe' = [pipe EXCEPT ![s] = <<>>]
    /\ UNCHANGED <<os, output, budget, truncated, copied, lines, shown, outcome,
                   receipt, written>>

-----------------------------------------------------------------------------
\* cappedBuffer.

\* Mutation: each stream is given the whole cap.
WriteUncapped(s) ==
    /\ output' = [output EXCEPT ![s].kept = IF @ < Cap THEN @ + 1 ELSE @,
                                ![s].pending = Head(pipe[s]) = "part"]
    /\ truncated' = (truncated \/ output[s].kept = Cap)
    /\ UNCHANGED budget

\* The budget is of both streams.  Lines are collected beyond it.
WriteCapped(s) ==
    /\ output' = [output EXCEPT ![s].kept = IF budget > 0 THEN @ + 1 ELSE @,
                                ![s].pending = Head(pipe[s]) = "part"]
    /\ truncated' = (truncated \/ budget = 0)
    /\ budget' = IF budget > 0 THEN budget - 1 ELSE 0

Copy(s) ==
    /\ copier[s] = "reading"
    /\ pipe[s] # <<>>
    /\ WriteCapped(s)
    /\ pipe' = [pipe EXCEPT ![s] = Tail(@)]
    /\ copied' = [copied EXCEPT ![s] = @ + 1]
    /\ lines' = [lines EXCEPT ![s] = IF output[s].pending THEN @ ELSE @ + 1]
    /\ copier' = [copier EXCEPT ![s] = IF Head(pipe[s]) = "line" THEN "showing" ELSE @]
    /\ UNCHANGED <<os, shown, outcome, receipt, written>>

\* A completed line is reported after the lock is released.
Show(s) ==
    /\ copier[s] = "showing"
    /\ copier' = [copier EXCEPT ![s] = "reading"]
    /\ shown' = [shown EXCEPT ![s] = @ + 1]
    /\ UNCHANGED <<os, pipe, output, budget, truncated, copied, lines, outcome, receipt,
                   written>>

-----------------------------------------------------------------------------
\* Run, classify and RunGate.

\* Mutation: a command that outlived its signal is not timed out.
TimedOutIfKilled == process = "killed" /\ context = "expired"

TimedOut == context = "expired"

\* A line that never ended is reported as it is.
flush ==
    /\ output' = [s \in Streams |-> [output[s] EXCEPT !.pending = FALSE]]
    /\ shown' = [s \in Streams |-> shown[s] + IF output[s].pending THEN 1 ELSE 0]

\* An exit code is kept when there is one; a killed process has none.
Return ==
    /\ outcome = None
    /\ Over
    /\ AllCopied
    /\ flush
    /\ outcome' = [exit |-> process, timedOut |-> TimedOut, truncated |-> truncated]
    /\ UNCHANGED <<os, pipe, copier, budget, truncated, copied, lines, receipt, written>>

classify(result) == ~result.timedOut /\ result.exit = "succeeded"

\* The tree is fingerprinted once more, which a cancelled context refuses.
RunGate ==
    /\ outcome # None
    /\ receipt = None
    /\ ~cancelled
    /\ receipt' = classify(outcome)
    /\ UNCHANGED <<os, copying, outcome, written>>

Next ==
    \/ \E s \in Streams, piece \in Pieces : Write(s, piece)
    \/ \E code \in Exited : Exit(code)
    \/ Fork
    \/ ChildExits
    \/ Expire
    \/ CancelContext
    \/ Signal
    \/ Kill
    \/ \E s \in Streams : EndOfFile(s) \/ ClosePipe(s) \/ Copy(s) \/ Show(s)
    \/ Return
    \/ RunGate

Spec == Init /\ [][Next]_vars

\* Timers fire, signals arrive and goroutines run.  The command and what it
\* left behind owe nothing.
LiveSpec ==
    /\ Spec
    /\ WF_vars(Signal)
    /\ WF_vars(Kill)
    /\ \A s \in Streams : WF_vars(EndOfFile(s) \/ ClosePipe(s) \/ Copy(s) \/ Show(s))
    /\ WF_vars(Return)

-----------------------------------------------------------------------------

\* A gate that passed exited with 0 of its own accord: it was not told to stop
\* by its timeout or by a cancelled run, even if it then exited with 0
\* (ExecRunner.Run, classify, RunGate).
PassIsGenuine ==
    receipt = TRUE => process = "succeeded" /\ ~signalled

\* What is kept of both streams together is within the cap, something was left
\* out exactly when the outcome says so, and every line that was read has been
\* reported once when Run returns, the unfinished last one included
\* (cappedBuffer, "a chatty stderr cannot evade the cap").
OutputIsAccounted ==
    LET kept == SumFunction([s \in Streams |-> output[s].kept])
        read == SumFunction(copied)
    IN  /\ kept =< Cap
        /\ outcome # None => (outcome.truncated <=> read > kept)
        /\ outcome # None => shown = lines

\* A command whose time is up, or whose run was cancelled, comes to an end,
\* whatever it does and whatever it has started.
RunReturns == context # "live" ~> outcome # None

=============================================================================
