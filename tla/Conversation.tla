---------------------------- MODULE Conversation ----------------------------
(***************************************************************************)
(* The conversation of a session: the messages the agent loop keeps and    *)
(* sends with every request (internal/agent/loop.go), what switching the   *)
(* mode and moving to another stage write into them                        *)
(* (cmd/agentwarden/main.go), and the checkpoint that is saved when a      *)
(* governed run ends and loaded when its session is resumed                *)
(* (internal/session/store.go).                                            *)
(*                                                                         *)
(* The model answers a request with text, calls, both or neither.  Its     *)
(* calls are numbered within their reply, as the stream does for an        *)
(* endpoint that sends no ids, so numbers come again in later replies.     *)
(***************************************************************************)
EXTENDS Integers, Sequences, SequencesExt

CONSTANTS
    Owners,         \* the agents that own stages
    Corrections,    \* what the enforcer writes when it refuses a turn's end
    MayAbort,       \* whether a confirmation is ever cut off
    maxSteps,       \* model turns of one run
    MaxBatch,       \* bound: calls in one reply
    MaxPrompts,     \* bound: prompts typed
    MaxMessages     \* bound: messages when the mode is switched

ASSUME ConversationAssumption ==
    /\ "plain" \notin Owners
    /\ {"off", "on"} \cap Corrections = {}
    /\ MayAbort \in BOOLEAN
    /\ {maxSteps, MaxBatch, MaxPrompts, MaxMessages} \subseteq Nat

VARIABLES
    messages,   \* the loop's messages
    prompt,     \* the identity the loop's system prompt speaks as
    owner,      \* the owner of the stage the app's task is in
    governed,   \* whether the enforcer is engaged
    hasTask,    \* whether the session has a task
    checkpoint, \* the messages stored for the task
    phase,      \* where the run is; "idle" between runs, "down" without a process
    step,       \* turns taken in this run
    batch,      \* the calls of the reply that is being executed
    next,       \* the one of them that is executed next
    prompts,    \* prompts typed so far
    kept        \* history: the prompts that a save has reported as stored

vars == <<messages, prompt, owner, governed, hasTask, checkpoint, phase, step, batch,
          next, prompts, kept>>
run == <<phase, step, batch, next, prompts>>
disk == <<hasTask, checkpoint, kept>>

\* "internal" is a user message of the runtime.
Messages ==
    [role : {"system"}, identity : Owners \cup {"plain"}]
        \cup [role : {"user"}, number : Nat]
        \cup [role : {"internal"}, text : Corrections \cup {"off", "on"}]
        \cup [role : {"assistant"}, text : BOOLEAN, calls : 0..MaxBatch]
        \cup [role : {"tool"}, answers : 1..MaxBatch]

System(identity) == [role |-> "system", identity |-> identity]
User(number) == [role |-> "user", number |-> number]
Internal(text) == [role |-> "internal", text |-> text]
Assistant(text, calls) == [role |-> "assistant", text |-> text, calls |-> calls]
Result(call) == [role |-> "tool", answers |-> call]

\* systemPrompt: nobody's stage leaves the prompt with no owner to "plain" only
\* in a session that is not governed.
systemPrompt(engaged, agent) == IF engaged THEN agent ELSE "plain"

HasSystem(list) == list # <<>> /\ Head(list).role = "system"

\* Mutation: a prompt that is there is kept.
SetSystemPromptOnNew(list, identity) ==
    IF HasSystem(list) THEN list ELSE <<System(identity)>> \o list

\* SetSystemPrompt, of a prompt that is never empty.
SetSystemPrompt(list, identity) ==
    <<System(identity)>> \o IF HasSystem(list) THEN Tail(list) ELSE list

\* Mutation: the correction is added whatever stands last.
AppendCorrectionAlways(list, text) == Append(list, Internal(text))

\* appendInternalCorrection
AppendCorrection(list, text) ==
    IF list # <<>> /\ Last(list) = Internal(text)
    THEN list
    ELSE Append(list, Internal(text))

-----------------------------------------------------------------------------
\* The checkpoint.

Blank(message) ==
    message.role = "assistant" /\ ~message.text /\ message.calls = 0

Repeats(list, message) ==
    message.role = "internal" /\ list # <<>> /\ Last(list) = message

normalizeMessages(saved) ==
    FoldLeft(LAMBDA list, message :
                IF Blank(message) \/ Repeats(list, message)
                THEN list
                ELSE Append(list, message),
             <<>>, saved)

PromptsIn(list) == {list[i].number : i \in {j \in DOMAIN list : list[j].role = "user"}}

\* Mutation: a conversation without an answer is not saved.
SaveAnswers(ok, list) ==
    /\ checkpoint' = IF ok /\ hasTask /\ Last(list).role = "assistant"
                     THEN list ELSE checkpoint
    /\ kept' = IF ok /\ hasTask THEN PromptsIn(list) ELSE kept
    /\ UNCHANGED hasTask

\* saveConversation: a failed write leaves the checkpoint that was there.
Save(ok, list) ==
    /\ checkpoint' = IF ok /\ hasTask THEN list ELSE checkpoint
    /\ kept' = IF ok /\ hasTask THEN PromptsIn(list) ELSE kept
    /\ UNCHANGED hasTask

-----------------------------------------------------------------------------

\* A session that is governed from the start has a task.
Init ==
    /\ messages = <<>>
    /\ owner \in Owners
    /\ governed \in BOOLEAN
    /\ hasTask = governed
    /\ prompt = systemPrompt(governed, owner)
    /\ checkpoint = <<>>
    /\ phase = "idle"
    /\ step = 0
    /\ batch = 0
    /\ next = 0
    /\ prompts = 0
    /\ kept = {}

\* Run: the system prompt goes before the first message of all.
Prompt ==
    /\ phase = "idle"
    /\ prompts < MaxPrompts
    /\ prompts' = prompts + 1
    /\ messages' = Append(IF messages = <<>> THEN <<System(prompt)>> ELSE messages,
                          User(prompts'))
    /\ phase' = "step"
    /\ UNCHANGED <<prompt, owner, governed, step, batch, next, disk>>

\* The runtime moves the task out of a stage that is its own and takes another
\* step; the prompt follows the owner.
AdvanceStage(agent) ==
    /\ phase = "step"
    /\ governed
    /\ step < maxSteps
    /\ step' = step + 1
    /\ owner' = agent
    /\ prompt' = systemPrompt(TRUE, agent)
    /\ messages' = SetSystemPrompt(messages, prompt')
    /\ UNCHANGED <<governed, phase, batch, next, prompts, disk>>

AskModel ==
    /\ phase = "step"
    /\ step < maxSteps
    /\ phase' = "turn"
    /\ step' = step + 1
    /\ UNCHANGED <<messages, prompt, owner, governed, batch, next, prompts, disk>>

\* The run is over and its conversation is about to be saved.
Stop(list) ==
    /\ messages' = list
    /\ phase' = "save"
    /\ step' = 0
    /\ batch' = 0
    /\ next' = 0
    /\ UNCHANGED <<prompt, owner, governed, prompts, disk>>

\* The context is cancelled, the steps are used up, or the stage is stuck.
EndBeforeTurn ==
    /\ phase = "step"
    /\ Stop(messages)

\* The request or its stream fails: what was received of the reply is dropped.
TurnFails ==
    /\ phase = "turn"
    /\ Stop(messages)

\* The last word of a run, kept even when there is none.
TurnAnswers(text) ==
    /\ phase = "turn"
    /\ Stop(Append(messages, Assistant(text, 0)))

\* What a refused turn said.
Spoken(text) == IF text THEN Append(messages, Assistant(TRUE, 0)) ELSE messages

TurnRefused(text, correction) ==
    /\ phase = "turn"
    /\ governed
    /\ messages' = AppendCorrection(Spoken(text), correction)
    /\ phase' = "step"
    /\ UNCHANGED <<prompt, owner, governed, step, batch, next, prompts, disk>>

\* The rung at which the loop gives up.
TurnGivenUp(text) ==
    /\ phase = "turn"
    /\ governed
    /\ Stop(Spoken(text))

\* Mutation: calls without text are not recorded.
TurnCallsUnrecorded(text, calls) ==
    /\ phase = "turn"
    /\ messages' = IF text THEN Append(messages, Assistant(TRUE, 0)) ELSE messages
    /\ phase' = "calls"
    /\ batch' = calls
    /\ next' = 1
    /\ UNCHANGED <<prompt, owner, governed, step, prompts, disk>>

TurnCalls(text, calls) ==
    /\ phase = "turn"
    /\ messages' = Append(messages, Assistant(text, calls))
    /\ phase' = "calls"
    /\ batch' = calls
    /\ next' = 1
    /\ UNCHANGED <<prompt, owner, governed, step, prompts, disk>>

\* A call is refused, declined, failed or executed: it has a result either way.
\* In a governed run the task is read again and may have another owner.
CallDone(agent) ==
    /\ phase = "calls"
    /\ next =< batch
    /\ governed \/ agent = owner
    /\ owner' = agent
    /\ prompt' = IF agent = owner THEN prompt ELSE systemPrompt(TRUE, agent)
    /\ messages' = LET answered == Append(messages, Result(next))
                   IN  IF agent = owner
                       THEN answered
                       ELSE SetSystemPrompt(answered, prompt')
    /\ next' = next + 1
    /\ UNCHANGED <<governed, phase, step, batch, prompts, disk>>

\* Confirm returns the error of its cancelled context: the rest of the batch is
\* dropped, and the next step sees the cancellation.
CallAborted ==
    /\ MayAbort
    /\ phase = "calls"
    /\ next =< batch
    /\ Stop(messages)

BatchDone ==
    /\ phase = "calls"
    /\ next > batch
    /\ phase' = "step"
    /\ batch' = 0
    /\ next' = 0
    /\ UNCHANGED <<messages, prompt, owner, governed, step, prompts, disk>>

\* The model repeats one failing call.
Stuck ==
    /\ phase = "calls"
    /\ next > batch
    /\ Stop(messages)

\* governedRunner.Run: a plain run is not saved.  After a governed one the
\* safety net may still move the task.
EndRun(ok, agent) ==
    /\ phase = "save"
    /\ IF governed THEN Save(ok, messages) ELSE UNCHANGED disk
    /\ governed \/ agent = owner
    /\ owner' = agent
    /\ prompt' = systemPrompt(governed, agent)
    /\ messages' = IF agent = owner THEN messages ELSE SetSystemPrompt(messages, prompt')
    /\ phase' = "idle"
    /\ UNCHANGED <<governed, step, batch, next, prompts>>

-----------------------------------------------------------------------------

\* SetGoverned, whose note is what the model reads last.
SwitchOff ==
    /\ phase = "idle"
    /\ governed
    /\ Len(messages) < MaxMessages
    /\ governed' = FALSE
    /\ prompt' = systemPrompt(FALSE, owner)
    /\ messages' = Append(SetSystemPrompt(messages, prompt'), Internal("off"))
    /\ UNCHANGED <<owner, run, disk>>

\* The first switch makes a task.
SwitchOn ==
    /\ phase = "idle"
    /\ ~governed
    /\ Len(messages) < MaxMessages
    /\ governed' = TRUE
    /\ hasTask' = TRUE
    /\ prompt' = systemPrompt(TRUE, owner)
    /\ messages' = Append(SetSystemPrompt(messages, prompt'), Internal("on"))
    /\ UNCHANGED <<owner, run, checkpoint, kept>>

\* The process ends, whatever it was doing.
Exit ==
    /\ phase # "down"
    /\ phase' = "down"
    /\ messages' = <<>>
    /\ step' = 0
    /\ batch' = 0
    /\ next' = 0
    /\ UNCHANGED <<prompt, owner, governed, prompts, disk>>

\* loadSession and newLoop: only a session with a task can be resumed, and its
\* stage may have moved since the checkpoint was saved.
Resume(agent) ==
    /\ phase = "down"
    /\ hasTask
    /\ governed' = TRUE
    /\ owner' = agent
    /\ prompt' = systemPrompt(TRUE, agent)
    /\ LET restored == normalizeMessages(checkpoint) IN
       messages' = IF restored = <<>> THEN <<>> ELSE SetSystemPrompt(restored, prompt')
    /\ phase' = "idle"
    /\ UNCHANGED <<step, batch, next, prompts, disk>>

Next ==
    \/ Prompt
    \/ \E agent \in Owners : AdvanceStage(agent)
    \/ AskModel
    \/ EndBeforeTurn
    \/ TurnFails
    \/ \E text \in BOOLEAN :
            \/ TurnAnswers(text)
            \/ \E correction \in Corrections : TurnRefused(text, correction)
            \/ TurnGivenUp(text)
            \/ \E calls \in 1..MaxBatch : TurnCalls(text, calls)
    \/ \E agent \in Owners : CallDone(agent)
    \/ CallAborted
    \/ BatchDone
    \/ Stuck
    \/ \E ok \in BOOLEAN, agent \in Owners : EndRun(ok, agent)
    \/ SwitchOff
    \/ SwitchOn
    \/ Exit
    \/ \E agent \in Owners : Resume(agent)

Spec == Init /\ [][Next]_vars

-----------------------------------------------------------------------------

TypeOK ==
    /\ messages \in Seq(Messages)
    /\ prompt \in Owners \cup {"plain"}
    /\ owner \in Owners
    /\ governed \in BOOLEAN
    /\ hasTask \in BOOLEAN
    /\ checkpoint \in Seq(Messages)
    /\ phase \in {"idle", "step", "turn", "calls", "save", "down"}
    /\ step \in 0..maxSteps
    /\ batch \in 0..MaxBatch
    /\ next \in 0..(MaxBatch + 1)
    /\ prompts \in 0..MaxPrompts
    /\ kept \subseteq 1..MaxPrompts

\* Every result has its reply for a parent (Run, executeCalls): the message
\* before the first result of a reply is that reply, and before a later result
\* is the one of the call before, whatever notes, prompts and restarts follow.
ResultsHaveParents ==
    \A i \in DOMAIN messages :
        messages[i].role = "tool" =>
            /\ i > 1
            /\ IF messages[i].answers = 1
               THEN messages[i - 1].role = "assistant" /\ messages[i - 1].calls > 0
               ELSE messages[i - 1] = Result(messages[i].answers - 1)

\* A request speaks as the identity the session now has, and as no other
\* (SetSystemPrompt): not as the owner of a stage it left, nor as a workflow
\* that was switched off, in this process or in the one that saved it.
PromptIsCurrent ==
    phase = "turn" =>
        /\ Head(messages) = System(systemPrompt(governed, owner))
        /\ \A i \in 2..Len(messages) : messages[i].role # "system"

\* A prompt whose save succeeded is in every conversation the session has
\* afterwards, however the run ended and the process with it (saveConversation,
\* LoadMessages, normalizeMessages).
PromptsSurvive ==
    phase # "down" => kept \subseteq PromptsIn(messages)

\* "Without growing the conversation with identical synthetic turns"
\* (appendInternalCorrection, Note, normalizeMessages).
NotesDoNotRepeat ==
    \A i \in 2..Len(messages) :
        messages[i].role = "internal" => messages[i - 1] # messages[i]

\* "Tool calls must be preserved as an assistant message so their results have
\* a valid parent in the next provider request" (Run): a request carries the
\* results of all calls it carries.
CallsAreAnswered ==
    phase = "turn" =>
        \A i \in DOMAIN messages :
            messages[i].role = "assistant" =>
                /\ i + messages[i].calls =< Len(messages)
                /\ \A call \in 1..messages[i].calls : messages[i + call] = Result(call)

=============================================================================
