--------------------------- MODULE TerminalProofs ---------------------------
(***************************************************************************)
(* Theorems about Terminal, for every capacity of the channel, every       *)
(* number of runs, requests and waiters, and every set of targets and      *)
(* gates.                                                                  *)
(***************************************************************************)
EXTENDS Terminal, TLAPS

USE TerminalAssumption

-----------------------------------------------------------------------------
(***************************************************************************)
(* Types.  What a run carries depends on its phase, and an answer lies     *)
(* only where one is awaited.                                              *)
(***************************************************************************)

Panes == [Gates -> {"pending", "running", "done"}]

Models ==
    [up : BOOLEAN, busy : BOOLEAN, pending : Requests \cup {None},
     picker : BOOLEAN, ticking : BOOLEAN, settings : Settings]

Runs ==
    [number : 0..MaxRuns, phase : Phases, cancelled : BOOLEAN,
     left : 0..MaxSends, request : Requests \cup {None}, gate : Gates \cup {None}]

PumpOK ==
    /\ events \in Seq(Frames)
    /\ Len(events) =< Capacity
    /\ hands \in [Waiters -> Frames \cup {Waiting, Unborn}]
    /\ ended \in BOOLEAN
    /\ quitting \in BOOLEAN

UiOK ==
    /\ ui \in Models
    /\ ticks \in Nat
    /\ gates \in Panes

RunOK ==
    /\ run \in Runs
    /\ asked \in Nat
    /\ run.phase \in {"ask", "wait"} => run.request \in Requests
    /\ run.phase = "gate" => run.gate \in Gates

ConsentOK ==
    /\ response \in Decisions \cup {""}
    /\ run.phase # "wait" => response = ""
    /\ allowed \subseteq Targets
    /\ decided \subseteq [request : Requests, decision : Allowing]
    /\ approved \subseteq Requests \cup [id : {0}, target : Targets]

TypeInv == PumpOK /\ UiOK /\ RunOK /\ ConsentOK

LEMMA TypeInvTypes == TypeInv => TypeOK
  BY DEF TypeInv, TypeOK, PumpOK, UiOK, RunOK, ConsentOK, Panes, Models, Runs

\* A kept frame is one frame more, and there was room for it.
LEMMA Appended ==
    ASSUME PumpOK, NEW frame \in Frames, Len(events) < Capacity
    PROVE  /\ Append(events, frame) \in Seq(Frames)
           /\ Len(Append(events, frame)) =< Capacity
  BY DEF PumpOK

LEMMA SentType ==
    ASSUME PumpOK, NEW frame \in Frames, Sent(frame)
    PROVE  events' \in Seq(Frames) /\ Len(events') =< Capacity
<1>1. CASE Len(events) < Capacity
  <2>1. events' = Append(events, frame)
    BY <1>1 DEF Sent
  <2>2. QED
    BY <1>1, <2>1, Appended
<1>2. CASE ~(Len(events) < Capacity)
  BY <1>2 DEF Sent, PumpOK
<1>3. QED
  BY <1>1, <1>2

LEMMA FrameKinds ==
    ASSUME NEW msg \in Frames \cup {Waiting, Unborn}
    PROVE  /\ msg.kind \in {"gateStart", "gateDone"} => msg.gate \in Gates
           /\ msg.kind = "confirm" => msg.request \in Requests
  BY DEF Frames, Waiting, Unborn

\* Frames of the run's own making.
LEMMA FrameTypes ==
    /\ [kind |-> "text"] \in Frames
    /\ \A gate \in Gates :
          /\ [kind |-> "gateStart", gate |-> gate] \in Frames
          /\ [kind |-> "gateDone", gate |-> gate] \in Frames
    /\ \A request \in Requests : [kind |-> "confirm", request |-> request] \in Frames
  BY DEF Frames

LEMMA ResolveType ==
    ASSUME ConsentOK, NEW decision \in Decisions, Resolve(decision)
    PROVE  /\ response' \in Decisions \cup {""}
           /\ run.phase # "wait" => response' = ""
  BY DEF ConsentOK, Resolve

LEMMA ResumeType ==
    ASSUME NEW model \in Models, NEW pane, UiOK, Resume(model, pane)
    PROVE  ui' \in Models /\ ticks' \in Nat
<1>1. animating(model, pane) \in BOOLEAN
  BY DEF animating, Models, Running
<1>2. (model.ticking \/ animating(model, pane)) \in BOOLEAN
  OBVIOUS
<1>3. ui' = [model EXCEPT !.ticking = model.ticking \/ animating(model, pane)]
  BY DEF Resume
<1>4. ui' \in Models
  BY <1>2, <1>3 DEF Models
<1>5. ticks' = ticks + 1 \/ ticks' = ticks
  BY DEF Resume
<1>6. QED
  BY <1>4, <1>5 DEF UiOK

LEMMA PumpStays == PumpOK /\ UNCHANGED pump => PumpOK'
  BY DEF PumpOK, pump

LEMMA UiStays == UiOK /\ UNCHANGED <<ui, ticks, gates>> => UiOK'
  BY DEF UiOK

LEMMA RunStays == RunOK /\ UNCHANGED <<run, asked>> => RunOK'
  BY DEF RunOK

LEMMA ConsentStays ==
    ASSUME ConsentOK, UNCHANGED <<response, allowed, decided, approved>>,
           run'.phase = run.phase \/ response = ""
    PROVE  ConsentOK'
  BY DEF ConsentOK

\* A frame is sent while the waiters and the reports stay.
LEMMA SendPump ==
    ASSUME PumpOK, NEW frame \in Frames, Sent(frame), UNCHANGED <<hands, ended, quitting>>
    PROVE  PumpOK'
  BY SentType DEF PumpOK

LEMMA DeliverPump ==
    ASSUME PumpOK, NEW kind, NEW waiter \in Waiters, Deliver(kind, waiter)
    PROVE  PumpOK'
  BY DEF PumpOK, Deliver

LEMMA DeliveredFrame ==
    ASSUME PumpOK, NEW kind, NEW waiter \in Waiters, Deliver(kind, waiter)
    PROVE  /\ kind \in {"gateStart", "gateDone"} => hands[waiter].gate \in Gates
           /\ kind = "confirm" => hands[waiter].request \in Requests
<1>1. hands[waiter] \in Frames \cup {Waiting, Unborn}
  BY DEF PumpOK
<1>2. hands[waiter].kind = kind
  BY DEF Deliver
<1>3. QED
  BY <1>1, <1>2, FrameKinds

\* What remains of a run once it has returned.
LEMMA EndRunType ==
    ASSUME TypeInv, EndRun
    PROVE  PumpOK' /\ UiOK'
  BY DEF TypeInv, EndRun, PumpOK, UiOK

LEMMA EndRunRun ==
    ASSUME TypeInv, EndRun, UNCHANGED asked
    PROVE  RunOK' /\ run'.phase = "over"
<1>1. run \in Runs
  BY DEF TypeInv, RunOK
<1>2. run' = [run EXCEPT !.phase = "over", !.request = None, !.gate = None, !.left = 0]
  BY DEF EndRun
<1>3. "over" \in Phases /\ 0 \in 0..MaxSends
  BY DEF Phases
<1>4. run' \in Runs /\ run'.phase = "over"
  BY <1>1, <1>2, <1>3 DEF Runs
<1>5. QED
  BY <1>4 DEF TypeInv, RunOK

LEMMA LeftStays ==
    ASSUME RunOK, Working
    PROVE  run.left - 1 \in 0..MaxSends
<1>1. run.left \in 0..MaxSends
  BY DEF RunOK, Runs
<1>2. run.left > 0
  BY DEF Working
<1>3. QED
  BY <1>1, <1>2

LEMMA SpendRun ==
    ASSUME RunOK, Working, UNCHANGED asked,
           run' = [run EXCEPT !.phase = "work", !.left = @ - 1]
    PROVE  RunOK' /\ run'.phase = run.phase
<1>1. run \in Runs /\ run.phase = "work"
  BY DEF RunOK, Working
<1>2. run.left - 1 \in 0..MaxSends
  BY <1>1, LeftStays
<1>3. run' = [run EXCEPT !.left = run.left - 1]
  BY <1>1 DEF Runs
<1>4. run' \in Runs /\ run'.phase = "work"
  BY <1>1, <1>2, <1>3 DEF Runs
<1>5. QED
  BY <1>1, <1>4 DEF RunOK

-----------------------------------------------------------------------------
(***************************************************************************)
(* The steps of the run.                                                   *)
(***************************************************************************)

LEMMA ObserveTypes == ASSUME TypeInv, Observe PROVE TypeInv'
<1>1. PumpOK'
  BY SendPump, FrameTypes DEF Observe, TypeInv
<1>2. UiOK'
  BY UiStays DEF Observe, TypeInv
<1>3. RunOK' /\ run'.phase = run.phase
  BY SpendRun DEF Observe, TypeInv, Spend, consent
<1>4. ConsentOK'
  BY <1>3, ConsentStays DEF Observe, TypeInv, consent
<1>5. QED
  BY <1>1, <1>2, <1>3, <1>4 DEF TypeInv

LEMMA StartGateTypes == ASSUME TypeInv, NEW gate \in Gates, StartGate(gate) PROVE TypeInv'
<1>1. PumpOK'
  BY SendPump, FrameTypes DEF StartGate, TypeInv
<1>2. UiOK'
  BY UiStays DEF StartGate, TypeInv
<1>3. run \in Runs /\ Working /\ asked' = asked /\ run.phase = "work"
  BY DEF StartGate, Working, TypeInv, consent, RunOK
<1>4. RunOK'
  <2>1. run.left - 1 \in 0..MaxSends /\ "gate" \in Phases
    BY <1>3, LeftStays DEF TypeInv, Phases
  <2>2. run' = [run EXCEPT !.phase = "gate", !.left = run.left - 1, !.gate = gate]
    BY DEF StartGate
  <2>3. run' \in Runs /\ run'.phase = "gate" /\ run'.gate = gate
    BY <1>3, <2>1, <2>2 DEF Runs
  <2>4. QED
    BY <1>3, <2>3 DEF RunOK, TypeInv
<1>5. ConsentOK'
  BY <1>3, ConsentStays DEF StartGate, TypeInv, consent, ConsentOK
<1>6. QED
  BY <1>1, <1>2, <1>4, <1>5 DEF TypeInv

LEMMA FinishGateTypes == ASSUME TypeInv, FinishGate PROVE TypeInv'
<1>1. run.gate \in Gates
  BY DEF TypeInv, RunOK, FinishGate
<1>2. PumpOK'
  BY <1>1, SendPump, FrameTypes DEF FinishGate, TypeInv
<1>3. UiOK'
  BY UiStays DEF FinishGate, TypeInv
<1>4. RunOK'
  BY DEF FinishGate, TypeInv, consent, RunOK, Runs, Phases
<1>5. ConsentOK'
  BY ConsentStays DEF FinishGate, TypeInv, consent, ConsentOK
<1>6. QED
  BY <1>2, <1>3, <1>4, <1>5 DEF TypeInv

LEMMA FinishRunTypes == ASSUME TypeInv, FinishRun \/ AbortGate PROVE TypeInv'
<1>1. EndRun /\ UNCHANGED consent /\ run.phase # "wait"
  BY DEF FinishRun, AbortGate
<1>2. RunOK' /\ run'.phase = "over"
  BY <1>1, EndRunRun DEF consent
<1>3. ConsentOK'
  BY <1>1, ConsentStays DEF TypeInv, ConsentOK, consent
<1>4. QED
  BY <1>1, <1>2, <1>3, EndRunType DEF TypeInv

LEMMA ConfirmKnownTypes ==
    ASSUME TypeInv, NEW target \in Targets, ConfirmKnown(target)
    PROVE  TypeInv'
<1>1. PumpOK' /\ UiOK'
  BY PumpStays, UiStays DEF ConfirmKnown, TypeInv
<1>2. RunOK' /\ run'.phase = run.phase
  BY SpendRun DEF ConfirmKnown, Spend, TypeInv
<1>3. [id |-> 0, target |-> target] \in [id : {0}, target : Targets]
  OBVIOUS
<1>4. ConsentOK'
  BY <1>2, <1>3 DEF ConfirmKnown, TypeInv, ConsentOK
<1>5. QED
  BY <1>1, <1>2, <1>4 DEF TypeInv

LEMMA ConfirmTypes ==
    ASSUME TypeInv, NEW target \in Targets, Confirm(target)
    PROVE  TypeInv'
<1>1. PumpOK' /\ UiOK'
  BY PumpStays, UiStays DEF Confirm, TypeInv
<1>2. asked' \in Nat \ {0}
  <2>1. asked \in Nat /\ asked' = asked + 1
    BY DEF Confirm, TypeInv, RunOK
  <2>2. QED
    BY <2>1
<1>3. RunOK'
  <2>1. run \in Runs /\ Working
    BY DEF Confirm, TypeInv, RunOK
  <2>2. run.left - 1 \in 0..MaxSends /\ "ask" \in Phases
    BY <2>1, LeftStays DEF TypeInv, Phases
  <2>3. [id |-> asked', target |-> target] \in Requests
    BY <1>2 DEF Requests
  <2>4. run' = [run EXCEPT !.phase = "ask", !.left = run.left - 1,
                           !.request = [id |-> asked', target |-> target]]
    BY DEF Confirm
  <2>5. run' \in Runs /\ run'.phase = "ask" /\ run'.request \in Requests
    BY <2>1, <2>2, <2>3, <2>4 DEF Runs
  <2>6. QED
    BY <1>2, <2>5 DEF RunOK
<1>4. ConsentOK'
  BY DEF Confirm, TypeInv, ConsentOK
<1>5. QED
  BY <1>1, <1>3, <1>4 DEF TypeInv

LEMMA SendRequestTypes == ASSUME TypeInv, SendRequest PROVE TypeInv'
<1>1. run.request \in Requests
  BY DEF TypeInv, RunOK, SendRequest
<1>2. [kind |-> "confirm", request |-> run.request] \in Frames
  BY <1>1, FrameTypes
<1>3. PumpOK'
  BY <1>2, Appended DEF SendRequest, TypeInv, PumpOK
<1>4. UiOK'
  BY UiStays DEF SendRequest, TypeInv
<1>5. RunOK'
  BY DEF SendRequest, TypeInv, RunOK, Runs, Phases, consent
<1>6. ConsentOK'
  BY ConsentStays DEF SendRequest, TypeInv, ConsentOK, consent
<1>7. QED
  BY <1>3, <1>4, <1>5, <1>6 DEF TypeInv

LEMMA HearAnswerTypes == ASSUME TypeInv, HearAnswer PROVE TypeInv'
<1>1. PumpOK' /\ UiOK'
  BY PumpStays, UiStays DEF HearAnswer, TypeInv
<1>2. run.request \in Requests
  BY DEF HearAnswer, TypeInv, RunOK
<1>3. run.request.target \in Targets
  BY <1>2 DEF Requests
<1>4. RunOK'
  BY DEF HearAnswer, TypeInv, RunOK, Runs, Phases
<1>5. allowed' \subseteq Targets
  BY <1>3 DEF HearAnswer, TypeInv, ConsentOK
<1>6. approved' \subseteq Requests \cup [id : {0}, target : Targets]
  BY <1>2 DEF HearAnswer, TypeInv, ConsentOK
<1>7. ConsentOK'
  BY <1>5, <1>6 DEF HearAnswer, TypeInv, ConsentOK
<1>8. QED
  BY <1>1, <1>4, <1>7 DEF TypeInv

LEMMA ConfirmCancelledTypes == ASSUME TypeInv, ConfirmCancelled PROVE TypeInv'
<1>1. RunOK' /\ run'.phase = "over"
  BY EndRunRun DEF ConfirmCancelled
<1>2. ConsentOK'
  BY DEF ConfirmCancelled, TypeInv, ConsentOK
<1>3. QED
  BY <1>1, <1>2, EndRunType DEF ConfirmCancelled, TypeInv

-----------------------------------------------------------------------------
(***************************************************************************)
(* The steps of the waiters and of the update loop.                        *)
(***************************************************************************)

LEMMA ReceiveTypes ==
    ASSUME TypeInv, NEW waiter \in Waiters, Receive(waiter)
    PROVE  TypeInv'
<1>1. events # <<>> /\ events \in Seq(Frames)
  BY DEF Receive, TypeInv, PumpOK
<1>2. Head(events) \in Frames /\ Tail(events) \in Seq(Frames)
  BY <1>1
<1>3. Len(Tail(events)) =< Capacity
  BY <1>1 DEF TypeInv, PumpOK
<1>4. PumpOK'
  BY <1>2, <1>3 DEF Receive, TypeInv, PumpOK
<1>5. UiOK' /\ RunOK' /\ ConsentOK'
  BY UiStays, RunStays, ConsentStays DEF Receive, TypeInv, consent
<1>6. QED
  BY <1>4, <1>5 DEF TypeInv

LEMMA ShowTextTypes ==
    ASSUME TypeInv, NEW waiter \in Waiters, ShowText(waiter)
    PROVE  TypeInv'
<1>1. PumpOK'
  BY DeliverPump DEF ShowText, TypeInv
<1>2. UiOK' /\ RunOK' /\ ConsentOK'
  BY UiStays, RunStays, ConsentStays DEF ShowText, TypeInv, consent
<1>3. QED
  BY <1>1, <1>2 DEF TypeInv

LEMMA ShowGateStartTypes ==
    ASSUME TypeInv, NEW waiter \in Waiters, ShowGateStart(waiter)
    PROVE  TypeInv'
<1>1. PumpOK' /\ hands[waiter].gate \in Gates
  BY DeliverPump, DeliveredFrame DEF ShowGateStart, TypeInv
<1>2. gates' \in Panes
  BY <1>1 DEF ShowGateStart, TypeInv, UiOK, Panes
<1>3. ui' \in Models /\ ticks' \in Nat
  BY ResumeType DEF ShowGateStart, TypeInv, UiOK
<1>4. RunOK' /\ ConsentOK'
  BY RunStays, ConsentStays DEF ShowGateStart, TypeInv, consent
<1>5. QED
  BY <1>1, <1>2, <1>3, <1>4 DEF TypeInv, UiOK

LEMMA ShowGateDoneTypes ==
    ASSUME TypeInv, NEW waiter \in Waiters, ShowGateDone(waiter)
    PROVE  TypeInv'
<1>1. PumpOK' /\ hands[waiter].gate \in Gates
  BY DeliverPump, DeliveredFrame DEF ShowGateDone, TypeInv
<1>2. UiOK'
  BY <1>1 DEF ShowGateDone, TypeInv, UiOK, Panes
<1>3. RunOK' /\ ConsentOK'
  BY RunStays, ConsentStays DEF ShowGateDone, TypeInv, consent
<1>4. QED
  BY <1>1, <1>2, <1>3 DEF TypeInv

LEMMA ShowRequestTypes ==
    ASSUME TypeInv, NEW waiter \in Waiters, ShowRequest(waiter)
    PROVE  TypeInv'
<1>1. PumpOK' /\ hands[waiter].request \in Requests
  BY DeliverPump, DeliveredFrame DEF ShowRequest, TypeInv
<1>2. UiOK'
  BY <1>1 DEF ShowRequest, TypeInv, UiOK, Models
<1>3. RunOK'
  BY RunStays DEF ShowRequest, TypeInv
<1>4. ConsentOK'
  BY ResolveType DEF ShowRequest, TypeInv, ConsentOK, Decisions
<1>5. QED
  BY <1>1, <1>2, <1>3, <1>4 DEF TypeInv

LEMMA ShowDoneTypes == ASSUME TypeInv, ShowDone PROVE TypeInv'
<1>1. PumpOK'
  BY DEF ShowDone, TypeInv, PumpOK
<1>2. UiOK'
  BY DEF ShowDone, TypeInv, UiOK, Models
<1>3. RunOK'
  BY RunStays DEF ShowDone, TypeInv
<1>4. ConsentOK'
  BY ResolveType DEF ShowDone, TypeInv, ConsentOK, Decisions
<1>5. QED
  BY <1>1, <1>2, <1>3, <1>4 DEF TypeInv

LEMMA LeaveTickTypes == ASSUME TypeInv, Leave \/ Tick PROVE TypeInv'
<1>1. UiOK'
  <2>1. CASE Leave
    BY <2>1 DEF Leave, TypeInv, UiOK, Models
  <2>2. CASE Tick
    <3>1. ui' \in Models /\ gates' \in Panes
      BY <2>2 DEF Tick, TypeInv, UiOK, Models
    <3>2. ticks \in Nat /\ ticks > 0 /\ ticks' = ticks - 1
      BY <2>2 DEF Tick, TypeInv, UiOK
    <3>3. ticks' \in Nat
      BY <3>2
    <3>4. QED
      BY <3>1, <3>3 DEF UiOK
  <2>3. QED
    BY <2>1, <2>2
<1>2. PumpOK' /\ RunOK' /\ ConsentOK'
  BY PumpStays, RunStays, ConsentStays DEF Leave, Tick, TypeInv, consent
<1>3. QED
  BY <1>1, <1>2 DEF TypeInv

-----------------------------------------------------------------------------
(***************************************************************************)
(* The steps of the operator.                                              *)
(***************************************************************************)

\* No run is over-written while it waits for an answer: busy covers it.
LEMMA SubmitTypes == ASSUME TypeInv, BusyCoversRun, Submit PROVE TypeInv'
<1>1. run' \in Runs /\ run'.phase = "work"
  <2>1. run.number + 1 \in 0..MaxRuns
    BY DEF Submit, TypeInv, RunOK, Runs
  <2>2. MaxSends \in 0..MaxSends /\ "work" \in Phases
    BY DEF Phases
  <2>3. QED
    BY <2>1, <2>2 DEF Submit, Runs
<1>2. RunOK'
  BY <1>1 DEF Submit, consent, TypeInv, RunOK
<1>3. gates' \in Panes
  BY DEF Submit, Reset, TypeInv, UiOK, Panes
<1>4. [ui EXCEPT !.busy = TRUE] \in Models
  BY DEF TypeInv, UiOK, Models
<1>5. ui' \in Models /\ ticks' \in Nat
  BY <1>4, ResumeType DEF Submit, TypeInv
<1>6. ConsentOK'
  <2>1. run.phase # "wait"
    BY DEF Submit, BusyCoversRun, Live
  <2>2. response = ""
    BY <2>1 DEF TypeInv, ConsentOK
  <2>3. QED
    BY <2>2, ConsentStays DEF Submit, TypeInv, consent
<1>7. PumpOK'
  BY PumpStays DEF Submit, TypeInv
<1>8. QED
  BY <1>2, <1>3, <1>5, <1>6, <1>7 DEF TypeInv, UiOK

\* Cancelling a run, or leaving it, changes nothing of what it carries.
LEMMA CancelRunType ==
    ASSUME RunOK, CancelRun \/ run' = run, UNCHANGED asked
    PROVE  RunOK' /\ run'.phase = run.phase /\ run'.request = run.request
<1>1. CASE CancelRun
  BY <1>1 DEF CancelRun, RunOK, Runs, Live
<1>2. CASE run' = run
  BY <1>2 DEF RunOK
<1>3. QED
  BY <1>1, <1>2

LEMMA InterruptTypes == ASSUME TypeInv, Interrupt PROVE TypeInv'
<1>1. PumpOK' /\ UiOK'
  BY PumpStays, UiStays DEF Interrupt, TypeInv
<1>2. RunOK' /\ run'.phase = run.phase
  BY CancelRunType DEF Interrupt, TypeInv, consent
<1>3. ConsentOK'
  BY <1>2, ConsentStays DEF Interrupt, TypeInv, consent
<1>4. QED
  BY <1>1, <1>2, <1>3 DEF TypeInv

LEMMA AnswerTypes ==
    ASSUME TypeInv, NEW decision \in Decisions, Answer(decision)
    PROVE  TypeInv'
<1>1. PumpOK' /\ RunOK'
  BY PumpStays, RunStays DEF Answer, TypeInv
<1>2. ui.pending \in Requests
  BY DEF Answer, TypeInv, UiOK, Models
<1>3. UiOK'
  BY DEF Answer, TypeInv, UiOK, Models
<1>4. decided' \subseteq [request : Requests, decision : Allowing]
  <2>1. decided \subseteq [request : Requests, decision : Allowing]
    BY DEF TypeInv, ConsentOK
  <2>2. CASE decision \in Allowing
    <3>1. [request |-> ui.pending, decision |-> decision]
              \in [request : Requests, decision : Allowing]
      BY <1>2, <2>2
    <3>2. QED
      BY <2>1, <2>2, <3>1 DEF Answer
  <2>3. CASE decision \notin Allowing
    BY <2>1, <2>3 DEF Answer
  <2>4. QED
    BY <2>2, <2>3
<1>5. ConsentOK'
  BY <1>4, ResolveType DEF Answer, TypeInv, ConsentOK
<1>6. QED
  BY <1>1, <1>3, <1>5 DEF TypeInv

LEMMA AnswerAndCancelTypes == ASSUME TypeInv, AnswerAndCancel PROVE TypeInv'
<1>1. PumpOK'
  BY PumpStays DEF AnswerAndCancel, TypeInv
<1>2. RunOK' /\ run'.phase = run.phase
  BY CancelRunType DEF AnswerAndCancel, TypeInv
<1>3. UiOK'
  BY DEF AnswerAndCancel, TypeInv, UiOK, Models
<1>4. ConsentOK'
  BY <1>2, ResolveType DEF AnswerAndCancel, TypeInv, ConsentOK, Decisions
<1>5. QED
  BY <1>1, <1>2, <1>3, <1>4 DEF TypeInv

LEMMA AskToQuitTypes == ASSUME TypeInv, AskToQuit PROVE TypeInv'
<1>1. PumpOK'
  BY DEF AskToQuit, TypeInv, PumpOK
<1>2. RunOK' /\ run'.phase = run.phase
  BY CancelRunType DEF AskToQuit, TypeInv
<1>3. UiOK'
  BY DEF AskToQuit, TypeInv, UiOK, Models
<1>4. ConsentOK'
  BY <1>2, ResolveType DEF AskToQuit, TypeInv, ConsentOK, Decisions
<1>5. QED
  BY <1>1, <1>2, <1>3, <1>4 DEF TypeInv

LEMMA SwitchTypes ==
    ASSUME TypeInv,
           \/ setGoverned
           \/ OpenModelPicker
           \/ \E settings \in Settings : ClosePicker(settings)
    PROVE  TypeInv'
<1>1. UiOK'
  BY DEF setGoverned, OpenModelPicker, ClosePicker, TypeInv, UiOK, Models
<1>2. PumpOK' /\ RunOK' /\ ConsentOK'
  BY PumpStays, RunStays, ConsentStays
     DEF setGoverned, OpenModelPicker, ClosePicker, TypeInv, consent
<1>3. QED
  BY <1>1, <1>2 DEF TypeInv

-----------------------------------------------------------------------------
(***************************************************************************)
(* Busy covers the run.  Only Submit starts a run, when the model is idle; *)
(* only the end of a run sets ended; only ShowDone clears either.          *)
(***************************************************************************)

Covered == TypeInv /\ BusyCoversRun

LEMMA CoverStays ==
    ASSUME BusyCoversRun, ui'.busy = ui.busy, ended' = ended, Live' <=> Live
    PROVE  BusyCoversRun'
  BY DEF BusyCoversRun

LEMMA CoverEnds == ASSUME TypeInv, BusyCoversRun, Live, EndRun PROVE BusyCoversRun'
<1>1. run'.phase = "over"
  BY DEF EndRun, TypeInv, RunOK, Runs
<1>2. ui.busy /\ ~ended
  BY DEF BusyCoversRun
<1>3. QED
  BY <1>1, <1>2 DEF EndRun, BusyCoversRun, Live

LEMMA ExecuteCovers == ASSUME Covered, Execute PROVE Covered'
<1>1. TypeInv /\ BusyCoversRun
  BY DEF Covered
<1>2. CASE Observe
  <2>1. Live /\ Live' /\ UNCHANGED <<ui, ended>>
    BY <1>1, <1>2 DEF Observe, Working, Spend, Live, TypeInv, RunOK, Runs
  <2>2. QED
    BY <1>1, <1>2, <2>1, ObserveTypes, CoverStays DEF Covered
<1>3. CASE \E gate \in Gates : StartGate(gate)
  <2>1. PICK gate \in Gates : StartGate(gate)
    BY <1>3
  <2>2. Live /\ Live' /\ UNCHANGED <<ui, ended>>
    BY <1>1, <2>1 DEF StartGate, Working, Live, TypeInv, RunOK, Runs
  <2>3. QED
    BY <1>1, <2>1, <2>2, StartGateTypes, CoverStays DEF Covered
<1>4. CASE FinishGate
  <2>1. Live /\ Live' /\ UNCHANGED <<ui, ended>>
    BY <1>1, <1>4 DEF FinishGate, Live, TypeInv, RunOK, Runs
  <2>2. QED
    BY <1>1, <1>4, <2>1, FinishGateTypes, CoverStays DEF Covered
<1>5. CASE AbortGate \/ FinishRun
  <2>1. Live /\ EndRun
    BY <1>5 DEF AbortGate, FinishRun, Live
  <2>2. QED
    BY <1>1, <1>5, <2>1, FinishRunTypes, CoverEnds DEF Covered
<1>6. CASE \E target \in Targets : ConfirmKnown(target) \/ Confirm(target)
  <2>1. PICK target \in Targets : ConfirmKnown(target) \/ Confirm(target)
    BY <1>6
  <2>2. Live /\ UNCHANGED <<ui, ended>>
    BY <2>1 DEF ConfirmKnown, Confirm, Working, Live, pump
  <2>3. run'.phase \in {"work", "ask"}
    <3>1. run \in Runs
      BY <1>1 DEF TypeInv, RunOK
    <3>2. CASE ConfirmKnown(target)
      BY <3>1, <3>2 DEF ConfirmKnown, Spend, Runs
    <3>3. CASE Confirm(target)
      BY <3>1, <3>3 DEF Confirm, Runs
    <3>4. QED
      BY <2>1, <3>2, <3>3
  <2>4. Live'
    BY <2>3 DEF Live
  <2>5. QED
    BY <1>1, <2>1, <2>2, <2>4, ConfirmKnownTypes, ConfirmTypes, CoverStays DEF Covered
<1>7. CASE SendRequest
  <2>1. Live /\ Live' /\ UNCHANGED <<ui, ended>>
    BY <1>1, <1>7 DEF SendRequest, Live, TypeInv, RunOK, Runs
  <2>2. QED
    BY <1>1, <1>7, <2>1, SendRequestTypes, CoverStays DEF Covered
<1>8. CASE HearAnswer
  <2>1. Live /\ Live' /\ UNCHANGED <<ui, ended>>
    BY <1>1, <1>8 DEF HearAnswer, Live, pump, TypeInv, RunOK, Runs
  <2>2. QED
    BY <1>1, <1>8, <2>1, HearAnswerTypes, CoverStays DEF Covered
<1>9. CASE ConfirmCancelled
  <2>1. Live /\ EndRun
    BY <1>9 DEF ConfirmCancelled, Live
  <2>2. QED
    BY <1>1, <1>9, <2>1, ConfirmCancelledTypes, CoverEnds DEF Covered
<1>10. QED
  BY <1>2, <1>3, <1>4, <1>5, <1>6, <1>7, <1>8, <1>9 DEF Execute, Confirming

LEMMA TakeCovers == ASSUME Covered, Take PROVE Covered'
<1>1. PICK waiter \in Waiters : Receive(waiter)
  BY DEF Take
<1>2. UNCHANGED <<ui, ended, run>>
  BY <1>1 DEF Receive
<1>3. QED
  BY <1>1, <1>2, ReceiveTypes, CoverStays DEF Covered, Live

LEMMA UpdateCovers == ASSUME Covered, Update PROVE Covered'
<1>1. TypeInv /\ BusyCoversRun
  BY DEF Covered
<1>2. ASSUME NEW waiter \in Waiters, ShowText(waiter)
      PROVE  Covered'
  <2>1. UNCHANGED <<ui, ended, run>>
    BY <1>2 DEF ShowText, Deliver
  <2>2. QED
    BY <1>1, <1>2, <2>1, ShowTextTypes, CoverStays DEF Covered, Live
<1>3. ASSUME NEW waiter \in Waiters, ShowGateStart(waiter)
      PROVE  Covered'
  <2>1. UNCHANGED <<ended, run>>
    BY <1>3 DEF ShowGateStart, Deliver
  <2>2. ui'.busy = ui.busy
    BY <1>1, <1>3 DEF ShowGateStart, Resume, TypeInv, UiOK, Models
  <2>3. QED
    BY <1>1, <1>3, <2>1, <2>2, ShowGateStartTypes, CoverStays DEF Covered, Live
<1>4. ASSUME NEW waiter \in Waiters, ShowGateDone(waiter)
      PROVE  Covered'
  <2>1. UNCHANGED <<ui, ended, run>>
    BY <1>4 DEF ShowGateDone, Deliver
  <2>2. QED
    BY <1>1, <1>4, <2>1, ShowGateDoneTypes, CoverStays DEF Covered, Live
<1>5. ASSUME NEW waiter \in Waiters, ShowRequest(waiter)
      PROVE  Covered'
  <2>1. UNCHANGED <<ended, run>>
    BY <1>5 DEF ShowRequest, Deliver
  <2>2. ui'.busy = ui.busy
    BY <1>1, <1>5 DEF ShowRequest, TypeInv, UiOK, Models
  <2>3. QED
    BY <1>1, <1>5, <2>1, <2>2, ShowRequestTypes, CoverStays DEF Covered, Live
<1>6. CASE ShowDone
  <2>1. ended /\ ~ended' /\ ~Live /\ run' = run
    BY <1>1, <1>6 DEF ShowDone, BusyCoversRun
  <2>2. ~ui'.busy
    BY <1>1, <1>6 DEF ShowDone, TypeInv, UiOK, Models
  <2>3. BusyCoversRun'
    BY <2>1, <2>2 DEF BusyCoversRun, Live
  <2>4. QED
    BY <1>1, <1>6, <2>3, ShowDoneTypes DEF Covered
<1>7. CASE Leave
  <2>1. UNCHANGED <<ended, run>> /\ ui'.busy = ui.busy
    BY <1>1, <1>7 DEF Leave, pump, TypeInv, UiOK, Models
  <2>2. QED
    BY <1>1, <1>7, <2>1, LeaveTickTypes, CoverStays DEF Covered, Live
<1>8. QED
  BY <1>2, <1>3, <1>4, <1>5, <1>6, <1>7 DEF Update

LEMMA TickCovers == ASSUME Covered, Tick PROVE Covered'
<1>1. UNCHANGED <<ended, run>> /\ ui'.busy = ui.busy
  BY DEF Covered, Tick, pump, TypeInv, UiOK, Models
<1>2. QED
  BY <1>1, LeaveTickTypes, CoverStays DEF Covered, Live

LEMMA OperateCovers == ASSUME Covered, Operate PROVE Covered'
<1>1. TypeInv /\ BusyCoversRun
  BY DEF Covered
<1>2. CASE Submit
  <2>1. Live' /\ ~ended /\ ended' = ended
    BY <1>1, <1>2 DEF Submit, BusyCoversRun, Live, pump
  <2>2. ui'.busy
    BY <1>1, <1>2 DEF Submit, Resume, TypeInv, UiOK, Models
  <2>3. BusyCoversRun'
    BY <2>1, <2>2 DEF BusyCoversRun
  <2>4. QED
    BY <1>1, <1>2, <2>3, SubmitTypes DEF Covered
<1>3. CASE Interrupt
  <2>1. UNCHANGED <<ui, ended>> /\ run'.phase = run.phase
    BY <1>1, <1>3, CancelRunType DEF Interrupt, pump, TypeInv, consent
  <2>2. QED
    BY <1>1, <1>3, <2>1, InterruptTypes, CoverStays DEF Covered, Live
<1>4. CASE \E decision \in Decisions : Answer(decision)
  <2>1. PICK decision \in Decisions : Answer(decision)
    BY <1>4
  <2>2. UNCHANGED <<ended, run>> /\ ui'.busy = ui.busy
    BY <1>1, <2>1 DEF Answer, pump, TypeInv, UiOK, Models
  <2>3. QED
    BY <1>1, <2>1, <2>2, AnswerTypes, CoverStays DEF Covered, Live
<1>5. CASE AnswerAndCancel
  <2>1. run'.phase = run.phase
    BY <1>1, <1>5, CancelRunType DEF AnswerAndCancel, TypeInv
  <2>2. ended' = ended /\ ui'.busy = ui.busy
    BY <1>1, <1>5 DEF AnswerAndCancel, pump, TypeInv, UiOK, Models
  <2>3. QED
    BY <1>1, <1>5, <2>1, <2>2, AnswerAndCancelTypes, CoverStays DEF Covered, Live
<1>6. CASE AskToQuit
  <2>1. run'.phase = run.phase
    BY <1>1, <1>6, CancelRunType DEF AskToQuit, TypeInv
  <2>2. ended' = ended /\ ui'.busy = ui.busy
    BY <1>1, <1>6 DEF AskToQuit, TypeInv, UiOK, Models
  <2>3. QED
    BY <1>1, <1>6, <2>1, <2>2, AskToQuitTypes, CoverStays DEF Covered, Live
<1>7. CASE setGoverned \/ OpenModelPicker \/ \E settings \in Settings : ClosePicker(settings)
  <2>1. UNCHANGED <<ended, run>> /\ ui'.busy = ui.busy
    BY <1>1, <1>7 DEF setGoverned, OpenModelPicker, ClosePicker, pump, TypeInv, UiOK, Models
  <2>2. QED
    BY <1>1, <1>7, <2>1, SwitchTypes, CoverStays DEF Covered, Live
<1>8. QED
  BY <1>2, <1>3, <1>4, <1>5, <1>6, <1>7 DEF Operate

LEMMA CoveredStays == ASSUME Covered, UNCHANGED vars PROVE Covered'
<1>1. UNCHANGED <<ui, ticks, gates, run, ended, asked>>
  BY DEF vars
<1>2. PumpOK' /\ ConsentOK' /\ UiOK' /\ RunOK'
  BY PumpStays, ConsentStays, UiStays, RunStays DEF vars, pump, Covered, TypeInv
<1>3. BusyCoversRun'
  BY <1>1, CoverStays DEF Covered, Live
<1>4. QED
  BY <1>2, <1>3 DEF Covered, TypeInv

LEMMA CoveredInit == Init => Covered
<1> SUFFICES ASSUME Init PROVE Covered
  OBVIOUS
<1>2. PumpOK
  <2>1. events \in Seq(Frames) /\ Len(events) =< Capacity
    <3>1. events = <<>>
      BY DEF Init
    <3>2. <<>> \in Seq(Frames) /\ Len(<<>>) = 0
      OBVIOUS
    <3>3. QED
      BY <3>1, <3>2
  <2>2. hands \in [Waiters -> Frames \cup {Waiting, Unborn}]
    BY DEF Init
  <2>3. QED
    BY <2>1, <2>2 DEF Init, PumpOK
<1>3. UiOK
  BY DEF Init, UiOK, Models, Panes, Settings
<1>4. RunOK
  <2>1. 0 \in 0..MaxRuns /\ 0 \in 0..MaxSends /\ "over" \in Phases
    BY DEF Phases
  <2>2. run \in Runs /\ run.phase = "over"
    BY <2>1 DEF Init, Runs
  <2>3. QED
    BY <2>2 DEF Init, RunOK
<1>5. ConsentOK
  BY DEF Init, ConsentOK
<1>6. BusyCoversRun
  BY DEF Init, BusyCoversRun, Live
<1>7. QED
  BY <1>2, <1>3, <1>4, <1>5, <1>6 DEF Covered, TypeInv

LEMMA CoveredNext == Covered /\ [Next]_vars => Covered'
  BY ExecuteCovers, TakeCovers, UpdateCovers, TickCovers, OperateCovers, CoveredStays
     DEF Next

LEMMA AlwaysCovered == Spec => []Covered
  BY CoveredInit, CoveredNext, PTL DEF Spec

\* Every reachable state is well typed, for every capacity and number of runs
\* (app.go, confirmation.go): in particular the channel never holds more than
\* its capacity, and the request of a Confirm that is under way is a real one.
THEOREM TerminalTypes == Spec => []TypeOK
<1>1. Covered => TypeOK
  BY TypeInvTypes DEF Covered
<1>2. QED
  BY <1>1, AlwaysCovered, PTL

\* A run and the report of its end are covered by busy, for every capacity and
\* any number of waiters and runs: so submit never starts a second run beside
\* the first.
THEOREM BusyCovers == Spec => []BusyCoversRun
<1>1. Covered => BusyCoversRun
  BY DEF Covered
<1>2. QED
  BY <1>1, AlwaysCovered, PTL

-----------------------------------------------------------------------------
(***************************************************************************)
(* The frame timer.                                                        *)
(***************************************************************************)

LEMMA TickerKept ==
    ASSUME TickerRuns, ui'.ticking = ui.ticking, ticks' = ticks,
           ui'.busy => ui.busy, Running(gates') => Running(gates)
    PROVE  TickerRuns'
  BY DEF TickerRuns, animating

\* resumeAnimation starts at most the one timer that is missing.
LEMMA TickerResumes ==
    ASSUME TickerRuns, NEW model \in Models, model.ticking = ui.ticking,
           Resume(model, gates')
    PROVE  TickerRuns'
<1>1. animating(model, gates') \in BOOLEAN /\ model.ticking \in BOOLEAN
  BY DEF animating, Models, Running
<1>2. ui'.busy = model.busy /\ ui'.ticking = (model.ticking \/ animating(model, gates'))
  BY <1>1 DEF Resume, Models
<1>3. animating(ui', gates') => ui'.ticking
  BY <1>1, <1>2 DEF animating
<1>4. ticks = IF model.ticking THEN 1 ELSE 0
  BY DEF TickerRuns
<1>5. CASE model.ticking
  <2>1. ui'.ticking /\ ticks' = 1
    BY <1>1, <1>2, <1>4, <1>5 DEF Resume
  <2>2. QED
    BY <1>3, <2>1 DEF TickerRuns
<1>6. CASE ~model.ticking /\ ui'.ticking
  <2>1. ticks' = 1
    BY <1>4, <1>6 DEF Resume
  <2>2. QED
    BY <1>3, <1>6, <2>1 DEF TickerRuns
<1>7. CASE ~model.ticking /\ ~ui'.ticking
  <2>1. ticks' = 0
    BY <1>4, <1>7 DEF Resume
  <2>2. QED
    BY <1>3, <1>7, <2>1 DEF TickerRuns
<1>8. QED
  BY <1>5, <1>6, <1>7

LEMMA ExecuteTicker == ASSUME TickerRuns, Execute \/ Take PROVE TickerRuns'
<1>1. UNCHANGED <<ui, ticks, gates>>
  BY DEF Execute, Observe, StartGate, FinishGate, AbortGate, FinishRun, EndRun, ConfirmKnown,
         Confirm, Confirming, SendRequest, HearAnswer, ConfirmCancelled, Take, Receive
<1>2. QED
  BY <1>1, TickerKept

LEMMA UpdateTicker == ASSUME Covered, TickerRuns, Update PROVE TickerRuns'
<1>1. ui \in Models /\ gates \in Panes
  BY DEF Covered, TypeInv, UiOK
<1>2. ASSUME NEW waiter \in Waiters, ShowText(waiter)
      PROVE  TickerRuns'
  BY <1>2, TickerKept DEF ShowText
<1>3. ASSUME NEW waiter \in Waiters, ShowGateStart(waiter)
      PROVE  TickerRuns'
  BY <1>1, <1>3, TickerResumes DEF ShowGateStart
<1>4. ASSUME NEW waiter \in Waiters, ShowGateDone(waiter)
      PROVE  TickerRuns'
  <2>1. gates' = [gates EXCEPT ![hands[waiter].gate] = "done"]
    BY <1>4 DEF ShowGateDone
  <2>2. Running(gates') => Running(gates)
    BY <1>1, <2>1 DEF Running, Panes
  <2>3. QED
    BY <1>4, <2>2, TickerKept DEF ShowGateDone
<1>5. ASSUME NEW waiter \in Waiters, ShowRequest(waiter)
      PROVE  TickerRuns'
  <2>1. ui'.ticking = ui.ticking /\ ui'.busy = ui.busy /\ UNCHANGED <<ticks, gates>>
    BY <1>1, <1>5 DEF ShowRequest, Models
  <2>2. QED
    BY <2>1, TickerKept
<1>6. CASE ShowDone
  <2>1. ui'.ticking = ui.ticking /\ ~ui'.busy /\ UNCHANGED <<ticks, gates>>
    BY <1>1, <1>6 DEF ShowDone, Models
  <2>2. QED
    BY <2>1, TickerKept
<1>7. CASE Leave
  <2>1. ui'.ticking = ui.ticking /\ ui'.busy = ui.busy /\ UNCHANGED <<ticks, gates>>
    BY <1>1, <1>7 DEF Leave, Models
  <2>2. QED
    BY <2>1, TickerKept
<1>8. QED
  BY <1>2, <1>3, <1>4, <1>5, <1>6, <1>7 DEF Update

LEMMA TickTicker == ASSUME Covered, TickerRuns, Tick PROVE TickerRuns'
<1>1. ui \in Models
  BY DEF Covered, TypeInv, UiOK
<1>2. ~ui'.ticking /\ ui'.busy = ui.busy /\ gates' = gates
  BY <1>1 DEF Tick, Models
<1>3. ticks = 1 /\ ticks' = 0
  BY DEF Tick, TickerRuns
<1>4. QED
  BY <1>2, <1>3 DEF Tick, TickerRuns, animating

LEMMA OperateTicker == ASSUME Covered, TickerRuns, Operate PROVE TickerRuns'
<1>1. ui \in Models
  BY DEF Covered, TypeInv, UiOK
<1>2. CASE Submit
  <2>1. [ui EXCEPT !.busy = TRUE] \in Models
    BY <1>1 DEF Models
  <2>2. [ui EXCEPT !.busy = TRUE].ticking = ui.ticking
    BY <1>1 DEF Models
  <2>3. QED
    BY <1>2, <2>1, <2>2, TickerResumes DEF Submit
<1>3. CASE ~Submit
  <2>1. /\ ui'.ticking = ui.ticking
        /\ ui'.busy = ui.busy
        /\ UNCHANGED <<ticks, gates>>
    BY <1>1, <1>3 DEF Operate, Interrupt, Answer, AnswerAndCancel, AskToQuit, setGoverned,
                      OpenModelPicker, ClosePicker, Models
  <2>2. QED
    BY <2>1, TickerKept
<1>4. QED
  BY <1>2, <1>3

\* Whatever moves on the screen has a frame timer and there are never two, for
\* every set of gates and however frames, gates, prompts and ticks follow one
\* another (resumeAnimation, the handler of tickMsg).
THEOREM OneTicker == Spec => []TickerRuns
<1>1. ASSUME Init PROVE TickerRuns
  <2>1. ui.busy = FALSE /\ ui.ticking = TRUE /\ ticks = 1
    BY <1>1 DEF Init
  <2>2. QED
    BY <2>1 DEF TickerRuns
<1>2. Covered /\ TickerRuns /\ [Next]_vars => TickerRuns'
  <2>1. SUFFICES ASSUME Covered, TickerRuns, [Next]_vars PROVE TickerRuns'
    OBVIOUS
  <2>2. CASE UNCHANGED vars
    BY <2>1, <2>2, TickerKept DEF vars
  <2>3. CASE Next
    BY <2>1, <2>3, ExecuteTicker, UpdateTicker, TickTicker, OperateTicker DEF Next
  <2>4. QED
    BY <2>1, <2>2, <2>3
<1>3. QED
  BY <1>1, <1>2, AlwaysCovered, PTL DEF Spec

-----------------------------------------------------------------------------
(***************************************************************************)
(* Switches of mode and model.  The picker is open between runs only, so   *)
(* that closing it is not a switch during a run.                           *)
(***************************************************************************)

PickerIdle == ui.picker => ~ui.busy

LEMMA IdleStays ==
    ASSUME Covered, PickerIdle, [Next]_vars
    PROVE  PickerIdle'
<1>1. ui \in Models
  BY DEF Covered, TypeInv, UiOK
<1>2. CASE Execute \/ Take \/ UNCHANGED vars
  <2>1. ui' = ui
    BY <1>2 DEF Execute, Observe, StartGate, FinishGate, AbortGate, FinishRun, EndRun,
                ConfirmKnown, Confirm, Confirming, SendRequest, HearAnswer,
                ConfirmCancelled, Take, Receive, vars
  <2>2. QED
    BY <2>1 DEF PickerIdle
<1>3. CASE Tick
  BY <1>1, <1>3 DEF Tick, PickerIdle, Models
<1>4. CASE Update
  <2>1. ui'.picker = ui.picker /\ (ui'.busy => ui.busy)
    BY <1>1, <1>4 DEF Update, ShowText, ShowGateStart, ShowGateDone, ShowRequest, ShowDone,
                      Leave, Resume, Models
  <2>2. QED
    BY <2>1 DEF PickerIdle
<1>5. CASE Submit
  BY <1>1, <1>5 DEF Submit, Free, Resume, PickerIdle, Models
<1>6. CASE Operate /\ ~Submit
  BY <1>1, <1>6 DEF Operate, Interrupt, Answer, AnswerAndCancel, AskToQuit, setGoverned,
                    OpenModelPicker, ClosePicker, PickerIdle, Models
<1>7. QED
  BY <1>2, <1>3, <1>4, <1>5, <1>6 DEF Next

LEMMA SettingsChange ==
    ASSUME Covered, PickerIdle, Next, ui'.settings # ui.settings
    PROVE  ~Live
<1>1. ui \in Models
  BY DEF Covered, TypeInv, UiOK
<1>2. ui' # ui
  OBVIOUS
<1>3. ~Execute /\ ~Take
  BY <1>2 DEF Execute, Observe, StartGate, FinishGate, AbortGate, FinishRun, EndRun,
              ConfirmKnown, Confirm, Confirming, SendRequest, HearAnswer,
              ConfirmCancelled, Take, Receive
<1>4. ~Tick /\ ~Update
  BY <1>1 DEF Tick, Update, ShowText, ShowGateStart, ShowGateDone, ShowRequest, ShowDone,
              Leave, Resume, Models
<1>5. setGoverned \/ \E settings \in Settings : ClosePicker(settings)
  BY <1>1, <1>3, <1>4 DEF Next, Operate, Submit, Resume, Interrupt, Answer, AnswerAndCancel,
                          AskToQuit, OpenModelPicker, Models
<1>6. ~ui.busy
  BY <1>5 DEF setGoverned, ClosePicker, PickerIdle
<1>7. QED
  BY <1>6 DEF Covered, BusyCoversRun

\* Mode and model change between runs only, for every number of runs and every
\* schedule (setGoverned, applyModel and the guards of handleKey): neither a
\* late doneMsg nor a picker left open lets a switch into a run.
THEOREM SwitchesWait == Spec => SwitchesBetweenRuns
<1>1. ASSUME Init PROVE PickerIdle
  <2>1. ui.picker = FALSE
    BY <1>1 DEF Init
  <2>2. QED
    BY <2>1 DEF PickerIdle
<1>2. Covered /\ PickerIdle /\ [Next]_vars => PickerIdle'
  BY IdleStays
<1>3. Covered /\ PickerIdle /\ [Next]_vars
          => [ui'.settings # ui.settings => ~Live]_vars
  BY SettingsChange DEF vars
<1>4. QED
  BY <1>1, <1>2, <1>3, AlwaysCovered, PTL DEF Spec, SwitchesBetweenRuns

-----------------------------------------------------------------------------
(***************************************************************************)
(* Consent.  ConsentIsOwn looks back at what the operator did; what leads  *)
(* to it are the two other places a yes is kept in: the list of targets    *)
(* allowed for the session, and the answer on its way to the run.          *)
(***************************************************************************)

AllowedOwn ==
    \A target \in allowed :
        \E key \in decided : key.request.target = target /\ key.decision = "session"

AnswerOwn ==
    response \in Allowing =>
        \E key \in decided : key.request = run.request /\ key.decision = response

ConsentInv == AllowedOwn /\ AnswerOwn /\ ConsentIsOwn

\* History only grows.
LEMMA ConsentKept ==
    ASSUME ConsentInv, UNCHANGED <<allowed, approved>>, decided \subseteq decided',
           \/ response' \notin Allowing
           \/ response' = response /\ run'.request = run.request
    PROVE  ConsentInv'
<1>1. AllowedOwn' /\ ConsentIsOwn'
  BY DEF ConsentInv, AllowedOwn, ConsentIsOwn
<1>2. AnswerOwn'
  BY DEF ConsentInv, AnswerOwn
<1>3. QED
  BY <1>1, <1>2 DEF ConsentInv

LEMMA NoAnswer == "" \notin Allowing /\ "deny" \notin Allowing
  BY DEF Allowing

\* A denial is no consent, whomever it reaches.
LEMMA DenyKept ==
    ASSUME ConsentInv, UNCHANGED <<allowed, approved, decided>>, Resolve("deny"),
           run'.request = run.request
    PROVE  ConsentInv'
  BY NoAnswer, ConsentKept DEF Resolve

LEMMA ExecuteConsent == ASSUME Covered, ConsentInv, Execute PROVE ConsentInv'
<1>1. run.phase # "wait" => response = ""
  BY DEF Covered, TypeInv, ConsentOK
<1>2. CASE \/ Observe
           \/ \E gate \in Gates : StartGate(gate)
           \/ FinishGate
           \/ AbortGate
           \/ FinishRun
           \/ SendRequest
  <2>1. response' = "" /\ UNCHANGED <<allowed, approved, decided>>
    BY <1>1, <1>2 DEF Observe, Working, StartGate, FinishGate, AbortGate, FinishRun,
                      SendRequest, consent
  <2>2. QED
    BY <2>1, NoAnswer, ConsentKept
<1>3. ASSUME NEW target \in Targets, ConfirmKnown(target)
      PROVE  ConsentInv'
  <2>1. response' = "" /\ UNCHANGED <<allowed, decided>>
    BY <1>1, <1>3 DEF ConfirmKnown, Working
  <2>2. PICK key \in decided : key.request.target = target /\ key.decision = "session"
    BY <1>3 DEF ConfirmKnown, ConsentInv, AllowedOwn
  <2>3. approved' = approved \cup {[id |-> 0, target |-> target]}
    BY <1>3 DEF ConfirmKnown
  <2>4. ConsentIsOwn'
    <3>1. [id |-> 0, target |-> target].target = target
      OBVIOUS
    <3>2. \A request \in approved :
              \E other \in decided :
                  /\ other.request.target = request.target
                  /\ other.request = request \/ other.decision = "session"
      BY DEF ConsentInv, ConsentIsOwn
    <3>3. QED
      BY <2>1, <2>2, <2>3, <3>1, <3>2 DEF ConsentIsOwn
  <2>5. AllowedOwn' /\ AnswerOwn'
    BY <2>1, NoAnswer DEF ConsentInv, AllowedOwn, AnswerOwn
  <2>6. QED
    BY <2>4, <2>5 DEF ConsentInv
<1>4. ASSUME NEW target \in Targets, Confirm(target)
      PROVE  ConsentInv'
  BY <1>4, NoAnswer, ConsentKept DEF Confirm
<1>5. CASE HearAnswer
  <2>1. response' = "" /\ decided' = decided
    BY <1>5 DEF HearAnswer
  <2>2. ConsentIsOwn'
    <3>1. CASE response \in Allowing
      <4>1. PICK key \in decided : key.request = run.request
        BY <3>1 DEF ConsentInv, AnswerOwn
      <4>2. approved' = approved \cup {run.request}
        BY <1>5, <3>1 DEF HearAnswer
      <4>3. QED
        BY <2>1, <4>1, <4>2 DEF ConsentInv, ConsentIsOwn
    <3>2. CASE response \notin Allowing
      BY <1>5, <2>1, <3>2 DEF HearAnswer, ConsentInv, ConsentIsOwn
    <3>3. QED
      BY <3>1, <3>2
  <2>3. AllowedOwn'
    <3>1. CASE response = "session"
      <4>1. PICK key \in decided : key.request = run.request /\ key.decision = "session"
        BY <3>1 DEF ConsentInv, AnswerOwn, Allowing
      <4>2. allowed' = allowed \cup {run.request.target}
        BY <1>5, <3>1 DEF HearAnswer
      <4>3. QED
        BY <2>1, <4>1, <4>2 DEF ConsentInv, AllowedOwn
    <3>2. CASE response # "session"
      BY <1>5, <2>1, <3>2 DEF HearAnswer, ConsentInv, AllowedOwn
    <3>3. QED
      BY <3>1, <3>2
  <2>4. QED
    BY <2>1, <2>2, <2>3, NoAnswer DEF ConsentInv, AnswerOwn
<1>6. CASE ConfirmCancelled
  BY <1>6, NoAnswer, ConsentKept DEF ConfirmCancelled
<1>7. QED
  BY <1>2, <1>3, <1>4, <1>5, <1>6 DEF Execute, Confirming

LEMMA UpdateConsent == ASSUME Covered, ConsentInv, Update \/ Take \/ Tick PROVE ConsentInv'
<1>1. ASSUME NEW waiter \in Waiters, ShowRequest(waiter)
      PROVE  ConsentInv'
  BY <1>1, DenyKept DEF ShowRequest
<1>2. CASE ShowDone
  BY <1>2, DenyKept DEF ShowDone
<1>3. CASE \/ \E waiter \in Waiters :
                  ShowText(waiter) \/ ShowGateStart(waiter) \/ ShowGateDone(waiter)
           \/ Leave
           \/ Take
           \/ Tick
  <2>1. UNCHANGED <<response, run, allowed, approved, decided>>
    BY <1>3 DEF ShowText, ShowGateStart, ShowGateDone, Leave, Take, Receive, Tick, consent
  <2>2. QED
    BY <2>1, ConsentKept
<1>4. QED
  BY <1>1, <1>2, <1>3 DEF Update

\* The answer goes only to the Confirm whose request the pane showed.
LEMMA AnswerConsent ==
    ASSUME Covered, ConsentInv, NEW decision \in Decisions, Answer(decision)
    PROVE  ConsentInv'
<1>1. run' = run /\ UNCHANGED <<allowed, approved>> /\ decided \subseteq decided'
  BY DEF Answer
<1>2. CASE response' = response
  BY <1>1, <1>2, ConsentKept
<1>3. CASE decision \notin Allowing /\ response' = decision
  BY <1>1, <1>3, ConsentKept
<1>4. CASE decision \in Allowing /\ run.request = ui.pending /\ response' = decision
  <2>1. AllowedOwn' /\ ConsentIsOwn'
    BY <1>1 DEF ConsentInv, AllowedOwn, ConsentIsOwn
  <2>2. [request |-> ui.pending, decision |-> decision] \in decided'
    BY <1>4 DEF Answer
  <2>3. AnswerOwn'
    BY <1>1, <1>4, <2>2 DEF AnswerOwn
  <2>4. QED
    BY <2>1, <2>3 DEF ConsentInv
<1>5. QED
  BY <1>2, <1>3, <1>4 DEF Answer, Resolve

LEMMA OperateConsent == ASSUME Covered, ConsentInv, Operate PROVE ConsentInv'
<1>1. RunOK
  BY DEF Covered, TypeInv
<1>2. CASE Submit
  <2>1. run.phase # "wait"
    BY <1>2 DEF Covered, BusyCoversRun, Submit, Live
  <2>2. response' = "" /\ UNCHANGED <<allowed, approved, decided>>
    BY <1>2, <2>1 DEF Submit, Covered, TypeInv, ConsentOK, consent
  <2>3. QED
    BY <2>2, NoAnswer, ConsentKept
<1>3. CASE Interrupt
  <2>1. run'.request = run.request
    BY <1>1, <1>3, CancelRunType DEF Interrupt, consent
  <2>2. QED
    BY <1>3, <2>1, ConsentKept DEF Interrupt, consent
<1>4. CASE \E decision \in Decisions : Answer(decision)
  BY <1>4, AnswerConsent
<1>5. CASE AnswerAndCancel
  <2>1. run'.request = run.request
    BY <1>1, <1>5, CancelRunType DEF AnswerAndCancel
  <2>2. QED
    BY <1>5, <2>1, DenyKept DEF AnswerAndCancel
<1>6. CASE AskToQuit
  <2>1. run'.request = run.request
    BY <1>1, <1>6, CancelRunType DEF AskToQuit
  <2>2. QED
    BY <1>6, <2>1, DenyKept DEF AskToQuit
<1>7. CASE setGoverned \/ OpenModelPicker \/ \E settings \in Settings : ClosePicker(settings)
  <2>1. UNCHANGED <<response, run, allowed, approved, decided>>
    BY <1>7 DEF setGoverned, OpenModelPicker, ClosePicker, consent
  <2>2. QED
    BY <2>1, ConsentKept
<1>8. QED
  BY <1>2, <1>3, <1>4, <1>5, <1>6, <1>7 DEF Operate

\* Confirm returns true only on the operator's own yes to that request, or to
\* that target for the session, for every number of targets, requests and
\* waiters and in whatever order requests are shown, replaced and answered.
THEOREM ConsentTheirs == Spec => []ConsentIsOwn
<1>1. ASSUME Init PROVE ConsentInv
  <2>1. allowed = {} /\ approved = {} /\ response = ""
    BY <1>1 DEF Init
  <2>2. QED
    BY <2>1, NoAnswer DEF ConsentInv, AllowedOwn, AnswerOwn, ConsentIsOwn
<1>2. Covered /\ ConsentInv /\ [Next]_vars => ConsentInv'
  <2>1. SUFFICES ASSUME Covered, ConsentInv, [Next]_vars PROVE ConsentInv'
    OBVIOUS
  <2>2. CASE UNCHANGED vars
    BY <2>1, <2>2, ConsentKept DEF vars
  <2>3. CASE Next
    BY <2>1, <2>3, ExecuteConsent, UpdateConsent, OperateConsent DEF Next
  <2>4. QED
    BY <2>1, <2>2, <2>3
<1>3. ConsentInv => ConsentIsOwn
  BY DEF ConsentInv
<1>4. QED
  BY <1>1, <1>2, <1>3, AlwaysCovered, PTL DEF Spec

-----------------------------------------------------------------------------
(***************************************************************************)
(* Requests.  What ConfirmReturns needs of every state: the request of a   *)
(* Confirm that waits has not been lost between the channel, the waiters   *)
(* and the pane, and there is a waiter to bring it.                        *)
(***************************************************************************)

Underway(frame) ==
    \/ \E place \in DOMAIN events : events[place] = frame
    \/ \E waiter \in Waiters : hands[waiter] = frame

Question == [kind |-> "confirm", request |-> run.request]

RequestKept ==
    run.phase = "wait" => response # "" \/ ui.pending = run.request \/ Underway(Question)

PumpRuns == \E waiter \in Waiters : hands[waiter] # Unborn

PumpInv == RequestKept /\ PumpRuns

\* A request that was shown is answered as it leaves the pane.
LEMMA KeptStays ==
    ASSUME RequestKept, UNCHANGED <<events, hands>>,
           run'.phase = run.phase, run'.request = run.request,
           response # "" => response' # "",
           ui.pending = run.request /\ run.phase = "wait"
               => ui'.pending = ui.pending \/ response' # ""
    PROVE  RequestKept'
<1>1. Underway(Question) => Underway(Question)'
  BY DEF Underway, Question, Waiters
<1>2. QED
  BY <1>1 DEF RequestKept

LEMMA PumpStarted ==
    ASSUME PumpRuns, \A waiter \in Waiters : hands[waiter] # Unborn => hands'[waiter] # Unborn
    PROVE  PumpRuns'
  BY DEF PumpRuns, Waiters

LEMMA NotUnborn == Waiting # Unborn /\ \A frame \in Frames : frame # Unborn
  BY DEF Waiting, Unborn, Frames

LEMMA NoneAsked == None \notin Requests
<1>1. Requests \subseteq [id : Nat, target : Targets]
  BY DEF Requests
<1>2. QED
  BY <1>1

LEMMA UnderwayTaken ==
    ASSUME TypeInv, NEW waiter \in Waiters, Receive(waiter),
           NEW frame, frame # Waiting, Underway(frame)
    PROVE  Underway(frame)'
<1>1. /\ hands \in [Waiters -> Frames \cup {Waiting, Unborn}]
      /\ events \in Seq(Frames) /\ events # <<>>
  BY DEF TypeInv, PumpOK, Receive
<1>2. /\ hands[waiter] = Waiting
      /\ hands' = [hands EXCEPT ![waiter] = Head(events)]
      /\ events' = Tail(events)
  BY DEF Receive
<1>3. CASE \E other \in Waiters : hands[other] = frame
  <2>1. PICK other \in Waiters : hands[other] = frame
    BY <1>3
  <2>2. hands'[other] = frame
    BY <1>1, <1>2, <2>1
  <2>3. QED
    BY <2>2 DEF Underway, Waiters
<1>4. CASE \E place \in DOMAIN events : events[place] = frame
  <2>1. PICK place \in 1..Len(events) : events[place] = frame
    BY <1>1, <1>4
  <2>2. CASE place = 1
    <3>1. hands'[waiter] = frame
      BY <1>1, <1>2, <2>1, <2>2
    <3>2. QED
      BY <3>1 DEF Underway, Waiters
  <2>3. CASE place # 1
    <3>1. place - 1 \in 1..Len(Tail(events)) /\ Tail(events)[place - 1] = events[place]
      BY <1>1, <2>1, <2>3
    <3>2. DOMAIN Tail(events) = 1..Len(Tail(events))
      BY <1>1
    <3>3. QED
      BY <1>2, <2>1, <3>1, <3>2 DEF Underway
  <2>4. QED
    BY <2>2, <2>3
<1>5. QED
  BY <1>3, <1>4 DEF Underway

LEMMA TakeKeeps == ASSUME Covered, PumpInv, Take PROVE PumpInv'
<1>1. PICK waiter \in Waiters : Receive(waiter)
  BY DEF Take
<1>2. TypeInv /\ RequestKept /\ PumpRuns
  BY DEF Covered, PumpInv
<1>3. UNCHANGED <<run, ui, response>>
  BY <1>1 DEF Receive, consent
<1>4. Underway(Question) => Underway(Question)'
  <2>1. Question # Waiting
    BY DEF Question, Waiting
  <2>2. Question' = Question
    BY <1>3 DEF Question
  <2>3. Underway(Question) => \E frame : frame = Question' /\ Underway(frame)'
    BY <1>1, <1>2, <2>1, <2>2, UnderwayTaken
  <2>4. QED
    BY <2>3 DEF Underway
<1>5. RequestKept'
  BY <1>2, <1>3, <1>4 DEF RequestKept
<1>6. PumpRuns'
  <2>1. events # <<>> /\ events \in Seq(Frames)
    BY <1>1, <1>2 DEF Receive, TypeInv, PumpOK
  <2>2. Head(events) \in Frames
    BY <2>1
  <2>3. hands' = [hands EXCEPT ![waiter] = Head(events)]
    BY <1>1 DEF Receive
  <2>4. hands'[waiter] # Unborn
    BY <1>2, <2>2, <2>3, NotUnborn DEF TypeInv, PumpOK
  <2>5. QED
    BY <2>4 DEF PumpRuns, Waiters
<1>7. QED
  BY <1>5, <1>6 DEF PumpInv

LEMMA ExecuteKeeps == ASSUME Covered, PumpInv, Execute PROVE PumpInv'
<1>1. hands' = hands
  BY DEF Execute, Observe, StartGate, FinishGate, AbortGate, FinishRun, EndRun, ConfirmKnown,
         Confirm, Confirming, SendRequest, HearAnswer, ConfirmCancelled, pump
<1>2. PumpRuns'
  BY <1>1, PumpStarted DEF PumpInv
<1>3. run \in Runs /\ events \in Seq(Frames)
  BY DEF Covered, TypeInv, RunOK, PumpOK
<1>4. CASE SendRequest
  <2>1. run' = [run EXCEPT !.phase = "wait"]
    BY <1>4 DEF SendRequest
  <2>2. run'.request = run.request
    BY <1>3, <2>1 DEF Runs
  <2>3. Question' = Question
    BY <2>2 DEF Question
  <2>4. events' = Append(events, Question)
    BY <1>4 DEF SendRequest, Question
  <2>5. Len(events) + 1 \in DOMAIN events' /\ events'[Len(events) + 1] = Question
    BY <1>3, <2>4
  <2>6. Underway(Question)'
    BY <2>3, <2>5 DEF Underway
  <2>7. QED
    BY <1>2, <2>6 DEF PumpInv, RequestKept
<1>5. CASE ~SendRequest
  <2>1. run'.phase # "wait"
    BY <1>3, <1>5 DEF Execute, Observe, StartGate, FinishGate, AbortGate, FinishRun, EndRun,
           ConfirmKnown, Confirm, Confirming, HearAnswer, ConfirmCancelled, Spend, Runs
  <2>2. QED
    BY <1>2, <2>1 DEF PumpInv, RequestKept
<1>6. QED
  BY <1>4, <1>5

\* What a waiter showed was another frame, so that the request stays where it
\* was.
LEMMA UnderwayDelivered ==
    ASSUME TypeInv, NEW kind, NEW waiter \in Waiters, Deliver(kind, waiter),
           NEW frame, frame # hands[waiter], Underway(frame)
    PROVE  Underway(frame)'
<1>1. hands \in [Waiters -> Frames \cup {Waiting, Unborn}]
  BY DEF TypeInv, PumpOK
<1>2. hands' = [hands EXCEPT ![waiter] = Waiting] /\ events' = events
  BY DEF Deliver
<1>3. \A other \in Waiters : hands[other] = frame => hands'[other] = frame
  BY <1>1, <1>2
<1>4. QED
  BY <1>2, <1>3 DEF Underway, Waiters

LEMMA DeliverPumps ==
    ASSUME TypeInv, PumpRuns, NEW kind, NEW waiter \in Waiters, Deliver(kind, waiter)
    PROVE  PumpRuns'
<1>1. hands'[waiter] = Waiting
  BY DEF TypeInv, PumpOK, Deliver
<1>2. QED
  BY <1>1, NotUnborn DEF PumpRuns, Waiters

\* A frame of another kind is shown.
LEMMA OtherShown ==
    ASSUME Covered, PumpInv, NEW kind, kind # "confirm", NEW waiter \in Waiters,
           Deliver(kind, waiter), UNCHANGED <<run, response>>, ui'.pending = ui.pending
    PROVE  PumpInv'
<1>1. TypeInv /\ RequestKept /\ PumpRuns
  BY DEF Covered, PumpInv
<1>2. Question # hands[waiter]
  BY DEF Deliver, Question
<1>3. Question' = Question
  BY DEF Question
<1>4. Underway(Question) => \E frame : frame = Question' /\ Underway(frame)'
  BY <1>1, <1>2, <1>3, UnderwayDelivered
<1>5. RequestKept'
  <2>1. Underway(Question) => Underway(Question)'
    BY <1>4 DEF Underway
  <2>2. QED
    BY <1>1, <2>1 DEF RequestKept
<1>6. QED
  BY <1>1, <1>5, DeliverPumps DEF PumpInv

LEMMA ShowRequestKeeps ==
    ASSUME Covered, PumpInv, NEW waiter \in Waiters, ShowRequest(waiter)
    PROVE  PumpInv'
<1>1. TypeInv /\ RequestKept /\ PumpRuns
  BY DEF Covered, PumpInv
<1>2. /\ run' = run
      /\ Deliver("confirm", waiter)
      /\ Resolve("deny")
      /\ ui' = [ui EXCEPT !.pending = hands[waiter].request]
  BY DEF ShowRequest
<1>3. ui'.pending = hands[waiter].request
  BY <1>1, <1>2 DEF TypeInv, UiOK, Models
<1>4. Question' = Question
  BY <1>2 DEF Question
<1>5. RequestKept'
  <2>1. SUFFICES ASSUME run.phase = "wait"
                 PROVE  response' # "" \/ ui'.pending = run.request \/ Underway(Question)'
    BY <1>2 DEF RequestKept
  <2>2. CASE hands[waiter] = Question
    BY <1>3, <2>2 DEF Question
  <2>3. CASE response # ""
    BY <1>2, <2>3 DEF Resolve
  <2>4. CASE ui.pending = run.request
    <3>1. run.request # None
      BY <1>1, <2>1, NoneAsked DEF TypeInv, RunOK
    <3>2. QED
      BY <1>2, <2>1, <2>4, <3>1 DEF Resolve
  <2>5. CASE Underway(Question) /\ hands[waiter] # Question
    <3>1. \E frame : frame = Question' /\ Underway(frame)'
      BY <1>1, <1>2, <1>4, <2>5, UnderwayDelivered
    <3>2. QED
      BY <3>1 DEF Underway
  <2>6. QED
    BY <1>1, <2>1, <2>2, <2>3, <2>4, <2>5 DEF RequestKept
<1>6. QED
  BY <1>1, <1>2, <1>5, DeliverPumps DEF PumpInv

LEMMA UpdateKeeps == ASSUME Covered, PumpInv, Update PROVE PumpInv'
<1>1. ui \in Models /\ TypeInv /\ RequestKept /\ PumpRuns
  BY DEF Covered, TypeInv, UiOK, PumpInv
<1>2. ASSUME NEW waiter \in Waiters, ShowText(waiter)
      PROVE  PumpInv'
  BY <1>2, OtherShown DEF ShowText, consent
<1>3. ASSUME NEW waiter \in Waiters, ShowGateStart(waiter)
      PROVE  PumpInv'
  <2>1. ui'.pending = ui.pending
    BY <1>1, <1>3 DEF ShowGateStart, Resume, Models
  <2>2. QED
    BY <1>3, <2>1, OtherShown DEF ShowGateStart, consent
<1>4. ASSUME NEW waiter \in Waiters, ShowGateDone(waiter)
      PROVE  PumpInv'
  BY <1>4, OtherShown DEF ShowGateDone, consent
<1>5. ASSUME NEW waiter \in Waiters, ShowRequest(waiter)
      PROVE  PumpInv'
  BY <1>5, ShowRequestKeeps
<1>6. CASE ShowDone
  <2>1. run' = run /\ run.phase # "wait"
    BY <1>6 DEF ShowDone, Covered, BusyCoversRun, Live
  <2>2. hands' = [hands EXCEPT ![run.number + 1] = Waiting]
    BY <1>6 DEF ShowDone
  <2>3. \A waiter \in Waiters : hands[waiter] # Unborn => hands'[waiter] # Unborn
    BY <1>1, <2>2, NotUnborn DEF TypeInv, PumpOK
  <2>4. PumpRuns'
    BY <1>1, <2>3, PumpStarted
  <2>5. QED
    BY <2>1, <2>4 DEF PumpInv, RequestKept
<1>7. CASE Leave
  <2>1. UNCHANGED <<events, hands, run, response>> /\ ui'.pending = ui.pending
    BY <1>1, <1>7 DEF Leave, pump, consent, Models
  <2>2. RequestKept'
    BY <1>1, <2>1, KeptStays
  <2>3. QED
    BY <1>1, <2>1, <2>2, PumpStarted DEF PumpInv
<1>8. QED
  BY <1>2, <1>3, <1>4, <1>5, <1>6, <1>7 DEF Update

LEMMA ResolveAnswers ==
    ASSUME Covered, NEW decision \in Decisions, Resolve(decision)
    PROVE  /\ response # "" => response' # ""
           /\ ui.pending = run.request /\ run.phase = "wait" => response' # ""
<1>1. decision # ""
  BY DEF Decisions, Allowing
<1>2. run.phase = "wait" => run.request # None
  BY NoneAsked DEF Covered, TypeInv, RunOK
<1>3. QED
  BY <1>1, <1>2 DEF Resolve

LEMMA OperateKeeps == ASSUME Covered, PumpInv, Operate \/ Tick PROVE PumpInv'
<1>1. ui \in Models /\ run \in Runs /\ RunOK /\ RequestKept /\ PumpRuns
  BY DEF Covered, TypeInv, UiOK, RunOK, PumpInv
<1>2. events' = events /\ hands' = hands
  BY DEF Operate, Tick, Submit, Interrupt, Answer, AnswerAndCancel, setGoverned,
         OpenModelPicker, ClosePicker, AskToQuit, pump
<1>3. PumpRuns'
  BY <1>1, <1>2, PumpStarted
<1>4. CASE Submit
  <2>1. run'.phase # "wait"
    BY <1>4 DEF Submit
  <2>2. QED
    BY <1>3, <2>1 DEF PumpInv, RequestKept
<1>5. CASE Interrupt
  <2>1. run'.phase = run.phase /\ run'.request = run.request
    BY <1>1, <1>5, CancelRunType DEF Interrupt, consent
  <2>2. UNCHANGED <<ui, response>>
    BY <1>5 DEF Interrupt, consent
  <2>3. QED
    BY <1>1, <1>2, <1>3, <2>1, <2>2, KeptStays DEF PumpInv
<1>6. ASSUME NEW decision \in Decisions, Answer(decision)
      PROVE  PumpInv'
  BY <1>1, <1>2, <1>3, <1>6, ResolveAnswers, KeptStays DEF Answer, PumpInv
<1>7. CASE AnswerAndCancel \/ AskToQuit
  <2>1. run'.phase = run.phase /\ run'.request = run.request
    BY <1>1, <1>7, CancelRunType DEF AnswerAndCancel, AskToQuit
  <2>2. Resolve("deny") /\ "deny" \in Decisions
    BY <1>7 DEF AnswerAndCancel, AskToQuit, Decisions
  <2>3. QED
    BY <1>1, <1>2, <1>3, <2>1, <2>2, ResolveAnswers, KeptStays DEF PumpInv
<1>8. CASE \/ setGoverned \/ OpenModelPicker \/ Tick
           \/ \E settings \in Settings : ClosePicker(settings)
  <2>1. UNCHANGED <<run, response>> /\ ui'.pending = ui.pending
    BY <1>1, <1>8 DEF setGoverned, OpenModelPicker, ClosePicker, Tick, consent, Models
  <2>2. QED
    BY <1>1, <1>2, <1>3, <2>1, KeptStays DEF PumpInv
<1>9. QED
  BY <1>4, <1>5, <1>6, <1>7, <1>8 DEF Operate

\* The safety half of ConfirmReturns, for every capacity, number of runs and
\* schedule (Confirm, waitForEvent, confirmationMsg and doneMsg): while Confirm
\* waits, its request is in the channel, carried by a waiter, on the pane, or
\* answered, whatever other requests are shown or replaced and however the
\* operator cancels or leaves; and a waiter is always there to bring it.
THEOREM RequestsKept == Spec => [](RequestKept /\ PumpRuns)
<1>1. ASSUME Init PROVE PumpInv
  <2>1. 1 \in Waiters
    BY DEF Waiters
  <2>2. run.phase = "over" /\ hands[1] = Waiting
    BY <1>1, <2>1 DEF Init
  <2>3. QED
    BY <2>1, <2>2, NotUnborn DEF PumpInv, RequestKept, PumpRuns
<1>2. Covered /\ PumpInv /\ [Next]_vars => PumpInv'
  <2>1. SUFFICES ASSUME Covered, PumpInv, [Next]_vars PROVE PumpInv'
    OBVIOUS
  <2>2. CASE UNCHANGED vars
    BY <2>1, <2>2, KeptStays, PumpStarted DEF PumpInv, vars
  <2>3. CASE Next
    BY <2>1, <2>3, ExecuteKeeps, TakeKeeps, UpdateKeeps, OperateKeeps DEF Next
  <2>4. QED
    BY <2>1, <2>2, <2>3
<1>3. PumpInv => RequestKept /\ PumpRuns
  BY DEF PumpInv
<1>4. QED
  BY <1>1, <1>2, <1>3, AlwaysCovered, PTL DEF Spec

=============================================================================
