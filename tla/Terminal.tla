------------------------------ MODULE Terminal ------------------------------
(***************************************************************************)
(* The terminal UI (internal/tui/app.go, confirmation.go): a run of the    *)
(* agent loop in one goroutine, the bubbletea update loop in another, and  *)
(* what passes between them.                                               *)
(*                                                                         *)
(* Frames travel through the channel events.  A waiter is a waitForEvent   *)
(* command: it takes the first frame and carries it to the update loop by  *)
(* itself, so what several waiters carry is applied in any order.  The     *)
(* end of a run reaches the loop without having passed through events.     *)
(* Frames that only show text are one kind; what the transcript makes of   *)
(* frames is in Transcript.                                                *)
(***************************************************************************)
EXTENDS Integers, Sequences

CONSTANTS
    Targets,    \* what a permission can be asked for: an action on a resource
    Gates,      \* the gates the pane shows
    Capacity,   \* of the channel events, 256 in the code
    MaxRuns,    \* bound: runs of one session
    MaxSends,   \* bound: frames and confirmations of one run
    None        \* no request

ASSUME TerminalAssumption ==
    /\ Capacity \in Nat \ {0}
    /\ MaxRuns \in Nat
    /\ MaxSends \in Nat
    /\ None \notin Gates \cup [id : Nat, target : Targets]

VARIABLES
    events,     \* frames sent and not yet taken
    hands,      \* what each waiter carries, if it has been started
    ended,      \* whether a doneMsg is on its way to Update
    quitting,   \* whether a QuitMsg is
    ui,         \* the fields of Model that decide anything
    ticks,      \* frame timers under way
    gates,      \* GatePane: what it shows of each gate
    run,        \* the goroutine that executes a prompt
    response,   \* the channel the current Confirm reads its answer from
    allowed,    \* confirmer.allowed: targets approved for the session
    asked,      \* requests made so far
    decided,    \* history: the keys the operator answered shown requests with
    approved    \* history: the requests Confirm returned true for

vars == <<events, hands, ended, quitting, ui, ticks, gates, run, response, allowed,
          asked, decided, approved>>
pump == <<events, hands, ended, quitting>>
consent == <<response, allowed, asked, decided, approved>>

Requests == [id : Nat \ {0}, target : Targets]
Allowing == {"once", "session"}
Decisions == Allowing \cup {"deny"}

Frames ==
    [kind : {"text"}] \cup [kind : {"gateStart", "gateDone"}, gate : Gates]
        \cup [kind : {"confirm"}, request : Requests]

\* A waiter that waits, and one that was never started.  Every run that ends
\* starts one.
Waiting == [kind |-> "waiting"]
Unborn == [kind |-> "unborn"]
Waiters == 1..(MaxRuns + 1)

\* Phases of a run: under way, in a gate, in Confirm before and after the
\* request is sent; "over" is no run.
Phases == {"over", "work", "gate", "ask", "wait"}

Live == run.phase # "over"
\* The mode and the model of the session: any two that differ.
Settings == {1, 2}

-----------------------------------------------------------------------------

\* A progress frame never blocks its sender: a full channel drops it.
Sent(frame) ==
    events' = IF Len(events) < Capacity THEN Append(events, frame) ELSE events

Running(pane) == \E gate \in DOMAIN pane : pane[gate] = "running"

Reset(pane) == [gate \in DOMAIN pane |-> "pending"]

animating(model, pane) == model.busy \/ Running(pane)

\* resumeAnimation after an update: a timer is started if something moves and
\* none is under way.
Resume(model, pane) ==
    /\ ui' = [model EXCEPT !.ticking = @ \/ animating(model, pane)]
    /\ ticks' = IF ui'.ticking /\ ~model.ticking THEN ticks + 1 ELSE ticks

\* Mutation: any Confirm that waits takes the answer.
ResolveAny(decision) ==
    response' =
        IF ui.pending # None /\ run.phase = "wait" THEN decision ELSE response

\* resolveConfirmation: the answer goes into the request's own channel, which
\* somebody reads only while its Confirm still waits.
Resolve(decision) ==
    response' =
        IF ui.pending # None /\ run.phase = "wait" /\ run.request = ui.pending
        THEN decision
        ELSE response

Init ==
    /\ events = <<>>
    /\ hands = [waiter \in Waiters |-> IF waiter = 1 THEN Waiting ELSE Unborn]
    /\ ended = FALSE
    /\ quitting = FALSE
    /\ ui = [up |-> TRUE, busy |-> FALSE, pending |-> None, picker |-> FALSE,
             ticking |-> TRUE, settings |-> 1]
    /\ ticks = 1
    /\ gates = [gate \in Gates |-> "pending"]
    /\ run = [number |-> 0, phase |-> "over", cancelled |-> FALSE,
              left |-> 0, request |-> None, gate |-> None]
    /\ response = ""
    /\ allowed = {}
    /\ asked = 0
    /\ decided = {}
    /\ approved = {}

-----------------------------------------------------------------------------
\* The goroutine of the run.

Working == ui.up /\ run.phase = "work" /\ run.left > 0

Spend(phase) == run' = [run EXCEPT !.phase = phase, !.left = @ - 1]

\* The loop's observer: a delta, a blocked call, a tool's start or end, usage.
Observe ==
    /\ Working
    /\ Sent([kind |-> "text"])
    /\ Spend("work")
    /\ UNCHANGED <<hands, ended, quitting, ui, ticks, gates, consent>>

StartGate(gate) ==
    /\ Working
    /\ Sent([kind |-> "gateStart", gate |-> gate])
    /\ run' = [run EXCEPT !.phase = "gate", !.left = @ - 1, !.gate = gate]
    /\ UNCHANGED <<hands, ended, quitting, ui, ticks, gates, consent>>

FinishGate ==
    /\ ui.up
    /\ run.phase = "gate"
    /\ Sent([kind |-> "gateDone", gate |-> run.gate])
    /\ run' = [run EXCEPT !.phase = "work", !.gate = None]
    /\ UNCHANGED <<hands, ended, quitting, ui, ticks, gates, consent>>

\* The run returns: its context is released and its end reported.
EndRun ==
    /\ run' = [run EXCEPT !.phase = "over", !.request = None, !.gate = None,
                          !.left = 0]
    /\ ended' = TRUE
    /\ UNCHANGED <<events, hands, quitting, ui, ticks, gates>>

FinishRun ==
    /\ ui.up
    /\ run.phase = "work"
    /\ EndRun
    /\ UNCHANGED consent

\* The tree cannot be fingerprinted after the gate, as when the run was
\* cancelled: RunGate returns without a receipt and the run ends.
AbortGate ==
    /\ ui.up
    /\ run.phase = "gate"
    /\ EndRun
    /\ UNCHANGED consent

\* Confirm of a target that is approved for the session.
ConfirmKnown(target) ==
    /\ Working
    /\ ~run.cancelled
    /\ target \in allowed
    /\ Spend("work")
    /\ approved' = approved \cup {[id |-> 0, target |-> target]}
    /\ UNCHANGED <<pump, ui, ticks, gates, response, allowed, asked, decided>>

Confirm(target) ==
    /\ Working
    /\ ~run.cancelled
    /\ target \notin allowed
    /\ asked' = asked + 1
    /\ run' = [run EXCEPT !.phase = "ask", !.left = @ - 1,
                          !.request = [id |-> asked', target |-> target]]
    /\ response' = ""
    /\ UNCHANGED <<pump, ui, ticks, gates, allowed, decided, approved>>

\* The request waits for room, unlike a progress frame.
SendRequest ==
    /\ ui.up
    /\ run.phase = "ask"
    /\ Len(events) < Capacity
    /\ events' = Append(events, [kind |-> "confirm", request |-> run.request])
    /\ run' = [run EXCEPT !.phase = "wait"]
    /\ UNCHANGED <<hands, ended, quitting, ui, ticks, gates, consent>>

HearAnswer ==
    /\ ui.up
    /\ run.phase = "wait"
    /\ response # ""
    /\ allowed' = IF response = "session"
                  THEN allowed \cup {run.request.target}
                  ELSE allowed
    /\ approved' = IF response \in Allowing
                   THEN approved \cup {run.request}
                   ELSE approved
    /\ response' = ""
    /\ run' = [run EXCEPT !.phase = "work", !.request = None]
    /\ UNCHANGED <<pump, ui, ticks, gates, asked, decided>>

\* Confirm returns the context's error: the batch and then the run end.
ConfirmCancelled ==
    /\ ui.up
    /\ run.phase \in {"ask", "wait"}
    /\ run.cancelled
    /\ EndRun
    /\ response' = ""
    /\ UNCHANGED <<allowed, asked, decided, approved>>

-----------------------------------------------------------------------------
\* The pump: waiters, and Update for what they bring.

Receive(waiter) ==
    /\ ui.up
    /\ hands[waiter] = Waiting
    /\ events # <<>>
    /\ hands' = [hands EXCEPT ![waiter] = Head(events)]
    /\ events' = Tail(events)
    /\ UNCHANGED <<ended, quitting, ui, ticks, gates, run, consent>>

\* Every handler of a frame returns waitForEvent again.
Deliver(kind, waiter) ==
    /\ ui.up
    /\ hands[waiter].kind = kind
    /\ hands' = [hands EXCEPT ![waiter] = Waiting]
    /\ UNCHANGED <<events, ended, quitting>>

ShowText(waiter) ==
    /\ Deliver("text", waiter)
    /\ UNCHANGED <<ui, ticks, gates, run, consent>>

\* Mutation: no timer is started for the gate.
ShowGateStartOnly(waiter) ==
    /\ Deliver("gateStart", waiter)
    /\ gates' = [gates EXCEPT ![hands[waiter].gate] = "running"]
    /\ UNCHANGED <<ui, ticks, run, consent>>

ShowGateStart(waiter) ==
    /\ Deliver("gateStart", waiter)
    /\ gates' = [gates EXCEPT ![hands[waiter].gate] = "running"]
    /\ Resume(ui, gates')
    /\ UNCHANGED <<run, consent>>

ShowGateDone(waiter) ==
    /\ Deliver("gateDone", waiter)
    /\ gates' = [gates EXCEPT ![hands[waiter].gate] = "done"]
    /\ UNCHANGED <<ui, ticks, run, consent>>

\* Mutation: the request that was shown stays unanswered.
ShowRequestReplacing(waiter) ==
    /\ Deliver("confirm", waiter)
    /\ ui' = [ui EXCEPT !.pending = hands[waiter].request]
    /\ UNCHANGED <<ticks, gates, run, consent>>

\* A request replaces the one that is shown, which is denied.
ShowRequest(waiter) ==
    /\ Deliver("confirm", waiter)
    /\ Resolve("deny")
    /\ ui' = [ui EXCEPT !.pending = hands[waiter].request]
    /\ UNCHANGED <<ticks, gates, run, allowed, asked, decided, approved>>

\* doneMsg did not come from events, yet its handler waits for one more.
ShowDone ==
    /\ ui.up
    /\ ended
    /\ ended' = FALSE
    /\ hands' = [hands EXCEPT ![run.number + 1] = Waiting]
    /\ Resolve("deny")
    /\ ui' = [ui EXCEPT !.pending = None, !.busy = FALSE]
    /\ UNCHANGED <<events, quitting, ticks, gates, run, allowed, asked, decided,
                   approved>>

Leave ==
    /\ ui.up
    /\ quitting
    /\ ui' = [ui EXCEPT !.up = FALSE]
    /\ UNCHANGED <<pump, ticks, gates, run, consent>>

Tick ==
    /\ ui.up
    /\ ticks > 0
    /\ ~animating(ui, gates)
    /\ ticks' = ticks - 1
    /\ ui' = [ui EXCEPT !.ticking = FALSE]
    /\ UNCHANGED <<pump, gates, run, consent>>

-----------------------------------------------------------------------------
\* The operator.

\* The confirmation pane owns every key, then the picker.
Free == ui.up /\ ui.pending = None /\ ~ui.picker

\* Mutation: a prompt is taken during a run.
SubmitWhileBusy ==
    /\ Free
    /\ run.number < MaxRuns
    /\ run' = [number |-> run.number + 1, phase |-> "work", cancelled |-> FALSE,
               left |-> MaxSends, request |-> None, gate |-> None]
    /\ gates' = Reset(gates)
    /\ Resume([ui EXCEPT !.busy = TRUE], gates')
    /\ UNCHANGED <<pump, consent>>

Submit ==
    /\ Free
    /\ ~ui.busy
    /\ run.number < MaxRuns
    /\ run' = [number |-> run.number + 1, phase |-> "work", cancelled |-> FALSE,
               left |-> MaxSends, request |-> None, gate |-> None]
    /\ gates' = Reset(gates)
    /\ Resume([ui EXCEPT !.busy = TRUE], gates')
    /\ UNCHANGED <<pump, consent>>

\* cancel is set exactly while the model is busy; it cancels the context of
\* the run it was made with.
CancelRun ==
    /\ ui.busy
    /\ run' = [run EXCEPT !.cancelled = Live]

Interrupt ==
    /\ Free
    /\ CancelRun
    /\ UNCHANGED <<pump, ui, ticks, gates, consent>>

Answer(decision) ==
    /\ ui.up
    /\ ui.pending # None
    /\ Resolve(decision)
    /\ ui' = [ui EXCEPT !.pending = None]
    /\ decided' = IF decision \in Allowing
                  THEN decided \cup {[request |-> ui.pending, decision |-> decision]}
                  ELSE decided
    /\ UNCHANGED <<pump, ticks, gates, run, allowed, asked, approved>>

\* ctrl+c on the pane denies and cancels.
AnswerAndCancel ==
    /\ ui.up
    /\ ui.pending # None
    /\ Resolve("deny")
    /\ ui' = [ui EXCEPT !.pending = None]
    /\ IF ui.busy THEN CancelRun ELSE run' = run
    /\ UNCHANGED <<pump, ticks, gates, allowed, asked, decided, approved>>

\* Mutation: the switch is not refused during a run.
setGovernedWhileBusy ==
    /\ Free
    /\ \E other \in Settings \ {ui.settings} :
            ui' = [ui EXCEPT !.settings = other]
    /\ UNCHANGED <<pump, ticks, gates, run, consent>>

\* The mode (/plain, /governed, ctrl+g) or, by /model <reference>, the model.
setGoverned ==
    /\ Free
    /\ ~ui.busy
    /\ \E other \in Settings \ {ui.settings} :
            ui' = [ui EXCEPT !.settings = other]
    /\ UNCHANGED <<pump, ticks, gates, run, consent>>

OpenModelPicker ==
    /\ Free
    /\ ~ui.busy
    /\ ui' = [ui EXCEPT !.picker = TRUE]
    /\ UNCHANGED <<pump, ticks, gates, run, consent>>

\* Selecting a row applies the model, even the one in use; escape does not.
ClosePicker(settings) ==
    /\ ui.up
    /\ ui.pending = None
    /\ ui.picker
    /\ ui' = [ui EXCEPT !.picker = FALSE, !.settings = settings]
    /\ UNCHANGED <<pump, ticks, gates, run, consent>>

\* ctrl+d, or ctrl+c with nothing to cancel.
AskToQuit ==
    /\ ui.up
    /\ ui.pending # None \/ ~ui.picker
    /\ quitting' = TRUE
    /\ Resolve("deny")
    /\ ui' = [ui EXCEPT !.pending = None]
    /\ IF ui.busy /\ ui.pending # None THEN CancelRun ELSE run' = run
    /\ UNCHANGED <<events, hands, ended, ticks, gates, allowed, asked, decided, approved>>

-----------------------------------------------------------------------------

Confirming == SendRequest \/ HearAnswer \/ ConfirmCancelled

Execute ==
    \/ Observe
    \/ \E gate \in Gates : StartGate(gate)
    \/ FinishGate
    \/ AbortGate
    \/ FinishRun
    \/ \E target \in Targets : ConfirmKnown(target) \/ Confirm(target)
    \/ Confirming

Update ==
    \/ \E waiter \in Waiters :
            \/ ShowText(waiter)
            \/ ShowGateStart(waiter)
            \/ ShowGateDone(waiter)
            \/ ShowRequest(waiter)
    \/ ShowDone
    \/ Leave

Operate ==
    \/ Submit
    \/ Interrupt
    \/ \E decision \in Decisions : Answer(decision)
    \/ AnswerAndCancel
    \/ setGoverned
    \/ OpenModelPicker
    \/ \E settings \in Settings : ClosePicker(settings)
    \/ AskToQuit

Take == \E waiter \in Waiters : Receive(waiter)

Next == Execute \/ Take \/ Update \/ Tick \/ Operate

Spec == Init /\ [][Next]_vars

\* Go runs every goroutine that can run, bubbletea applies every message it is
\* handed, and an operator who is asked something answers.
LiveSpec ==
    /\ Spec
    /\ WF_vars(Confirming)
    /\ WF_vars(Take)
    /\ WF_vars(Update)
    /\ WF_vars(\E decision \in Decisions : Answer(decision))

-----------------------------------------------------------------------------

TypeOK ==
    /\ events \in Seq(Frames)
    /\ Len(events) =< Capacity
    /\ hands \in [Waiters -> Frames \cup {Waiting, Unborn}]
    /\ ended \in BOOLEAN
    /\ quitting \in BOOLEAN
    /\ ui \in [up : BOOLEAN, busy : BOOLEAN, pending : Requests \cup {None},
               picker : BOOLEAN, ticking : BOOLEAN, settings : Settings]
    /\ ticks \in Nat
    /\ gates \in [Gates -> {"pending", "running", "done"}]
    /\ run \in [number : 0..MaxRuns, phase : Phases, cancelled : BOOLEAN,
                left : 0..MaxSends, request : Requests \cup {None},
                gate : Gates \cup {None}]
    /\ response \in Decisions \cup {""}
    /\ allowed \subseteq Targets
    /\ asked \in Nat
    /\ decided \subseteq [request : Requests, decision : Allowing]
    /\ approved \subseteq Requests \cup [id : {0}, target : Targets]

\* A run and the report of its end are covered by busy, which is what keeps a
\* second prompt, a switch of model and a switch of mode out (submit, doneMsg
\* and the guards of handleKey): so there is never a second run.
BusyCoversRun ==
    /\ ui.busy <=> (Live \/ ended)
    /\ ~(Live /\ ended)

\* Confirm returns true only for a request the operator allowed while the pane
\* showed that request, or for a target allowed for the session on such a pane
\* (Confirm, resolveConfirmation), however late and in whatever order requests
\* are shown, replaced and answered.
ConsentIsOwn ==
    \A request \in approved :
        \E key \in decided :
            /\ key.request.target = request.target
            /\ key.request = request \/ key.decision = "session"

\* What moves on the screen has a frame timer, and never two (animating,
\* resumeAnimation and the handler of tickMsg).
TickerRuns ==
    /\ animating(ui, gates) => ui.ticking
    /\ ticks = IF ui.ticking THEN 1 ELSE 0

\* Mode and model change between runs only (setGoverned, applyModel), although
\* the UI learns of a run's end later than the run ends.
SwitchesBetweenRuns ==
    [][ui'.settings # ui.settings => ~Live]_vars

\* A run that asks the operator hears the answer, or that it was cancelled
\* (Confirm, confirmationMsg and doneMsg), unless the program ends.
ConfirmReturns ==
    run.phase \in {"ask", "wait"}
        ~> run.phase \notin {"ask", "wait"} \/ ~ui.up

=============================================================================
