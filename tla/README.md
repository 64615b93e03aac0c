# Verification of agentwarden

agentwarden is a terminal coding agent that can put a session under a workflow:
a task moves from planning to implementation, verification by gates, independent
review and completion, and what the model may do depends on the stage it is in.
This directory holds TLA+ models of the parts of that system whose correctness
depends on order, concurrency and failure, TLC runs on small instances of them,
and TLAPS proofs of the results that matter most for instances of any size.

The models are translated from the Go source. `PROJECT.json` maps every
definition to the lines it stands for.

## 1. The system

### Components, their state and their operations

| component (source) | state | operations | what makes it hard | modules |
|---|---|---|---|---|
| workflow domain (`workflow/types.go`, `machine.go`) | none: a transition graph and the pure `Transition` | `Transition`, block/resume memory | custom graphs; resume target | `Workflow` |
| policy (`workflow/policy.go`, `pipeline.go`) | an immutable policy and its hash | defaults, validation, `GatesFor`, `RequiredGates`, `Pipeline` | two sessions may hold different policies for one task | `Policy`, `Evidence` |
| evidence (`enforce/receipt.go`) | receipts and a QA verdict inside the task record | `VerificationProblem`, `QAProblem`, `InvalidateEvidence` | evidence is about a tree that keeps moving | `Evidence` |
| gate runner (`enforce/gate.go`, `runner.go`) | the batch in progress, a command and its output | `RunGate`, `RunGates`, `ExecRunner.Run` | long commands, timeouts, background processes, commands that edit the tree | `Controller`, `Command` |
| fingerprint (`enforce/fingerprint.go`) | none | `Fingerprint` | read at one moment, used at a later one | `Controller` |
| controller (`controller/controller.go`) | none of its own | `Start`, `SubmitPlan`, `SubmitImplementation`, `Verify`, `SubmitQA`, `Complete`, `Block`, `Resume`, `Cancel` | every operation is fingerprint, lock, load, change, save; `Verify` and `SubmitQA` touch the record twice | `Controller`, `TaskPromise` |
| store (`session/store.go`) | one JSON record per task, one append-only event log, one message checkpoint | `Create`, `Load`, `Save`, `AppendEvents`, `Update`, `SaveMessages`, `LoadMessages` | the lock is in memory; a crash between record and log | `Store`, `TaskHistory`, `Conversation` |
| enforcer (`enforce/enforcer.go`, `mask.go`) | `Session`: violations, forced tool, direct calls, handed off | `Intercept`, `OnTurnEnd`, `ToolChoice`, `MaskTools` | per-session counters while the stage changes | `Enforcer`, `GovernedSession` |
| agent loop (`agent/loop.go`) | conversation, current task, failure streak, step count | `Run`, `turn`, `executeCalls`, `stageBelongsToRuntime`, `SetSystemPrompt`, `Note` | the task moves under a running turn; partial tool batches | `GovernedSession`, `Conversation` |
| session assembly (`cmd/agentwarden/main.go`) | the app: current task, loop, policy, actor, rules | `SetGoverned`, `attachGovernance`, `syncActor`, `applyPlainPermissions`, `advanceVerification`, `retargetSession`, `governedRunner.Run`, `-cancel`, `-resume` | governance switched on and off mid-session; several processes | `GovernedSession`, `Conversation`, `Authority` |
| terminal UI (`tui/app.go`, `confirmation.go`, `toolpane.go`, `gatepane.go`) | the bubbletea model, event channel, pending confirmation, transcript | `Update`, `submit`, `resolveConfirmation`, `Confirm`, observers | events, deltas and the end of a run over different paths | `Terminal`, `Transcript` |
| provider client (`provider/openaicompat`) | one HTTP stream | `Recv`, assembly of tool calls | endpoints that mark fragments in three ways; streams that stop | `Assembly` |
| permissions, publication (`enforce/permission.go`, `publish.go`) | the rules in force | `Evaluate`, `IsPublishCommand` | the order of rules; options of git | `Permission` |
| model tools (`tool/`) | the work tree | file, search and shell tools | the shell's timeout | `Command` |
| configuration (`config/config.go`) | the merged files | `mergeFile`, `Validate`, `ResolveModel`, `ModelRefs` | what a later file mentions and what it does not | `Config` |
| skills, agent files, context | none | parsing of prose | none for a model checker | none |

How they interact: the UI (or the one-shot command line) starts a run of the
agent loop in a goroutine of its own; the loop asks the enforcer before and after
each model turn and calls the workflow tools, which call the controller; the
controller updates the task record through the store and asks the gate runner and
the fingerprinter about the work tree. When a task is in `verifying` the loop does
not ask the model at all: the runtime calls `Controller.Verify`. The run reports to
the UI through a bounded channel and asks it for permissions through the same
channel and one of its own for the answer. All processes on one repository share
the store's files and the work tree, and nothing else.

### The hard behaviours, and the properties that answer them

* **Evidence and a moving tree.** Fingerprints are taken before the lock, gates
  run for minutes, and anyone may edit. A completion must still rest on one tree
  that was really tested and really reviewed: `CompletionIsGenuine`,
  `ApprovalBinds`.
* **Operations in pieces.** `Verify` loads, runs gates and updates; `SubmitQA`
  makes two updates: `EvidenceFollowsStage`, `ApprovalBinds`, `TerminalIsFinal`,
  `KeepsPromise`.
* **The baseline** that makes an empty submission impossible is set and cleared
  on seven different transitions: `BaselineFollowsStage`.
* **Several processes.** The store's lock is an in-memory mutex, so updates can
  be lost between processes. `CompletionIsGenuine` and the two stage invariants
  survive that (they are proved without the lock), `TerminalIsFinal` does not.
* **Files, failures and crashes.** A save is a write to a temporary file, a rename
  and an append to the log, and any of them can be the last: `RecordReadable`,
  `LogIsOfTheRecord`, `AcknowledgedIsKept`, `LogHasNoGap`, `KeepsHistory`.
* **Progress.** Verification has three ways out and two ways to fail:
  `VerificationSettles`. A run has refused turns, blocked calls and stages the
  runtime moves, and must end: `RunEnds`. A command is asked to stop and leaves
  others behind: `RunReturns`. A confirmation waits for somebody to answer:
  `ConfirmReturns`.
* **Copies of the stage.** The app, the loop and the enforcer each remember a
  stage or whose it is, while tools, gates and other processes move the task:
  `IdentityFollowsStage`, `LoopSeesTask`. So do the permission rules, the actor and
  the system prompt: `AuthorityFollows`, `PromptIsCurrent`.
* **Counters that outlive what they count.** Pins, violations and the handed-off
  mark belong to the session, their meaning to a stage: `PinIsOffered`,
  `EscalationIsEarned`, `AnswerFollowsHandoff`.
* **Governance switched off.** `PlainLeavesTaskAlone`, `SwitchesBetweenRuns`.
* **A conversation longer than a run.** It passes through refused turns, aborted
  batches, switches, checkpoints and restarts: `ResultsHaveParents`,
  `CallsAreAnswered`, `PromptsSurvive`, `NotesDoNotRepeat`.
* **Two goroutines and a channel.** Frames are dropped, delayed and overtaken; the
  end of a run does not pass through the channel; an answer may come after the
  question is gone: `BusyCoversRun`, `ConsentIsOwn`, `TickerRuns`,
  `ToolRowsAreTheirs`.
* **Verdicts on commands.** A timeout, a cancelled run and an exit race, and two
  copiers share one cap: `PassIsGenuine`, `OutputIsAccounted`.
* **Decisions over data**, each with a definition to be compared with:
  `RulesDecide`, `PushesAreSeen`, `CallsAssembled`, `PolicyIsSound`,
  `LaterFileWins`.

The full list, at the lines where each bites, is under "hazards" in
`PROJECT.json`; the few without a property say why.

## 2. Modules

| module | models | kind |
|---|---|---|
| `Workflow` | states, actions, the builtin graph and the transition machine | pure operators |
| `Evidence` | what the controller sees of policies, receipts, verdicts, the staleness predicates, `classify` | pure operators and named assumptions on the constants |
| `Controller` | all controller operations over one task, the store's lock, the gate batch, the moving work tree | state machine |
| `TaskPromise` | what the controller promises, with no word of how | abstract specification |
| `Store` | the files behind a task: temporary file, rename, event log, failure and crash | state machine |
| `TaskHistory` | the history of a task, which only grows, one event at a time | abstract specification |
| `Enforcer` | what a policy says of one model turn: masking, interception, ladder, pins, budgets, turn ends | pure operators |
| `GovernedSession` | the agent loop under the enforcer, and the app that switches, retargets and verifies | state machine |
| `Conversation` | the messages of a session, its checkpoint, and resuming from it | state machine |
| `Terminal` | the UI's update loop beside the goroutine of a run: event pump, confirmations, switches, frame timer | state machine |
| `Transcript` | the rows of the transcript and the messages and calls that keep their numbers | state machine |
| `Command` | one command under `os/exec`: context, signals, background process, output | state machine |
| `Permission` | permission rules, publishing commands | pure operators |
| `Assembly` | the reading of a streamed reply | pure operators |
| `Policy` | defaults, validation, gates of a stage, the UI's spine of a graph | pure operators |
| `Config` | files laid over defaults, validation, model references | pure operators |
| `Authority` | actor, rules and prompt of a session across stages and switches | pure operators |
| `Lists` | what the code's loops pick out of a list | pure operators |
| `Parts` | `Permission`, `Assembly`, `Policy`, `Config`, `Authority` and `Transcript`, driven over every small input | state machine |
| `MCController`, `MCStore`, `MCSession`, `MCConversation`, `MCTerminal`, `MCCommand` | finite instances | model checking |
| `ControllerProofs`, `StoreProofs`, `SessionProofs`, `ConversationProofs`, `TerminalProofs`, `CommandProofs`, `PartsProofs` | theorems about the state machines and the pure parts | proofs |
| `Induction` | induction, recursion, folds and sums in a form the provers can use | lemmas |

### How Controller corresponds to the code

One governed task is modelled. `task` is its stored record with the fields that
decide anything: state, resume state, policy hash, baseline, receipts and
verdict. `tree` is the current fingerprint of the work tree, and `Edit` lets it
become another at any moment: the model's tools, the operator's editor and the
gates' own commands all do that. `op[s]` is what session `s` is in the middle
of. A session is whatever calls the controller: the TUI, a second TUI, a
one-shot `-cancel`.

An operation is several steps, because the code's is:

1. *Call* (`CallSubmit`, `CallSubmitQA`, `CallControl`, `CallVerify`): take the
   fingerprint where the code takes it first, and for `Verify` read the record
   without the lock.
2. *Gates*, for `Verify`: `StartGate` fingerprints and starts the command,
   `FinishGate` fingerprints again and makes the receipt with `classify`,
   `FinishBatch` returns at the end or at the first required failure, and
   `LateFingerprint` takes the fingerprint for the next baseline.
3. *Load*: `Store.Update` takes the task's lock, held by one session per
   process, and reads the record into `op[s].copy`.
4. *Mutate and save*: one action per callback (`SubmitPlan`,
   `SubmitImplementation`, `VerifyPolicyChanged`, `VerifyGatesRan`,
   `ReviewStale`, `ReviewStands`, `RecordQA`, `Complete`, `Block`, `Resume`,
   `Cancel`). The guard is every check the callback makes, in the code's order;
   the effect is on the copy, which replaces the record. `SubmitQA` is two
   rounds of load and save: `ReviewStale` or `ReviewStands`, then `RecordQA`.
5. *GiveUp*: a refusal, a failed fingerprint, a cancelled context or the death of
   the process. The record stays as it was: `Save` renames a complete file into
   place, and an error after the rename changes only what the caller is told.

`Start` is the initial state. `passed` and `endorsed` are history variables: what
really happened, to compare the record with. They are written where it happens
(`FinishGate`, `ReviewStands`) and no guard reads them.

What the model abstracts: the audit log, timestamps, the revision number, notes
and reasons, gate output, the way a fingerprint is computed (a tree is its
identity), and the argument checks of the tools.

### How Store corresponds to the code

`Store` opens up the *Load* and *save* of `Controller`, for one task, and forgets
what the record says except for its events, which tell one record from another.
An update of writer `w` is `LoadAndChange` (the lock, `Load` and the callback),
`OpenTmp` and `WriteTmp` (the two halves of `os.WriteFile`), `Rename`, and
`AppendEvents`. `Fail` is any of them returning an error, `Crash` the end of a
process with all its writers. Files are inodes and `path` and `tmp` are names, so
a writer whose file was renamed under it goes on writing to the record.

`Controller` treats a save as one step and its processes as losing updates but not
tearing files. `RecordStaysReadable` and `HistoryIsKept` say that within one
process this is right. Two processes can do more: they share the temporary file too.

What the model abstracts: an event's contents; lengths of records, so that a
write over another's is either clean or mixed; and a line of the log cut in the
middle, since an event is appended whole or not at all.

### How GovernedSession corresponds to the code

One interactive session of one process. `stored` is the task in the store,
`app` the stage of `app.task`, `loop` that of `Loop.Task`, `session` the
enforcer's `Session`, `governed` the switch. The code's control is `phase`:

| phase | where the code is | actions |
|---|---|---|
| `idle` | between runs | `Prompt`, `SwitchOff`, `SwitchOn` (the TUI refuses the switch during a run) |
| `step` | top of `Loop.Run`'s loop | `StepLimit`, `Interrupted`, `AskModel`, `AdvanceStage` |
| `turn` | the model's request | `TurnWithCalls`, `Answer`, `TurnRefused`, `Interrupted` |
| `calls`, `refresh` | `executeCalls`, `refreshTask` after each call | `CallRefused`, `CallRuns`, `CallAborted`, `Refreshed`, `BatchDone` |
| `verify`, `stage` | `advanceVerification`, then the rest of `stageBelongsToRuntime` | `Verified`, `VerifyFailed`, `StageChecked` |
| `net`, `net_verify` | the safety net of `governedRunner.Run` | `Net`, `NetVerified`, `VerifyFailed` |

`Follow` is what every place does that takes over a task it has read: app, loop and
`retargetSession`. `Elsewhere` is another process acting on the task between any two
steps. The decisions about a turn or a call are `Enforcer`'s operators, applied to
the stage the loop knows, as in the code.

The controller is coarse here: of a task only the stage is kept, so an operation may
succeed whenever the graph permits its transition and may always be refused.
`Controller` says when it really is. An operation whose record was saved and whose
event was not logged has moved the task and reports an error (`VerifyFailed`, a
failing call in `Runs`): the two models meet in that hazard of `Store`.

What the model abstracts: messages, prompts, tool arguments (a call is `flawed` or
not) and results (a failure is the same as the last or another), permissions (a
declined call is a failing one) and, of tools that are masked and judged alike, all
but one. `ended`, `refusals`, `missed` and `moved` record what happened, for the
properties; no guard reads them.

### How Conversation corresponds to the code

`GovernedSession` forgets what is said; `Conversation` keeps that and forgets why.
`messages` is `Loop.Messages`, `prompt` the identity `Loop.SystemPrompt` speaks as,
`checkpoint` the file `SaveMessages` writes. A message is its role and what tells it
from others: the identity of a system prompt, the number of a prompt, the text of a
note, the number of calls of a reply, the call a result answers. `phase` follows
`Loop.Run` (`step`, `turn`, `calls`) and `governedRunner.Run` (`save`); `Exit` takes
the process away at any point and `Resume` is `loadSession` with what
`normalizeMessages` makes of the checkpoint. What the enforcer and the task decide is
a choice here: a turn may be refused, given up or answered, and a call or a stage the
runtime moves may bring another owner. Calls are numbered within their reply, which
is what the client does for an endpoint that sends no ids.

### How Terminal and Transcript correspond to the code

`Terminal` has the two goroutines of a session: the run, which sends frames, starts
gates and asks for permissions, and the update loop of bubbletea. `events` is the
channel `Model.events`; `hands` are the `waitForEvent` commands, each of which takes
one frame from it and hands it to `Update` when bubbletea gets to it, so that two of
them may overtake each other. `ended` is a `doneMsg` on its way. An action named
`Show...` is a case of `Update` with everything it calls (`resolveConfirmation`,
`resumeAnimation`); an action of the operator is a key with its guards in
`handleKey`: the confirmation owns every key, then the picker. `Sent` is
the observers' `send`, which drops when the channel is full; `SendRequest` waits, as `Confirm`
does. `decided` and `approved` record what was answered and what `Confirm` returned.

`Transcript` has what `Terminal` leaves out of a frame: the rows and the indices kept
beside them. Its frames come in any order and number, which includes every order
`Terminal` delivers them in. An index past the end is the panic it is in Go (`up`).
`forgotten` is a history variable: the calls there were when `/clear` was last typed.

What the two abstract: rendering, layout, scrolling, history, the contents of panes,
and the pickers but for the one that changes the model.

### How Command corresponds to the code

`ExecRunner.Run` (for gates) and `Bash.Run` (for the model's shell), which differ in
`Streams` and `WaitDelay` and in how they end a process. The part of `os/exec` they
rely on is modelled from its documented use and marked external in the map: a context
that ends leads to a signal (`Cancel`) or a kill, a grace period (`WaitDelay`) to a
kill and to closed pipes, and `Wait` returns when the process and the copying
goroutines are done. `Copy` and `Show` are the two halves of `cappedBuffer.Write`, of
which only the first holds the lock. Output is counted in pieces, the cap too.

### How the pure parts correspond to the code

`Permission`, `Assembly`, `Policy`, `Config` and `Authority` are functions in the code
and operators here. `Parts` gives each of them every input up to its bounds, one item
at a time, and its properties compare the answer with a definition made
another way: `Evaluate`, a loop that overwrites, with "the last rule that applies";
the stream reader, with its tables, with grouping the fragments by the key that marks
them; `Pipeline` with what a walk through the graph must be. `Authority` has the
operations that set a session's actor, rules and prompt, in all orders in which
`Parts` can apply them; the transcript's steps run there for their invariant. Globs
are the sets of names they match and a command is its words. What a fragment of a
streamed call may carry (`Indices`, `Ids`, `Names`) and what a configuration file may
say of models (`Endpoints`, `Models`, `Listings`) are constants of `Parts`; the words of
a command, the rules and the edges of a graph are fixed alphabets in it. A file declares
a provider with a base URL, or names it again for its models alone, without one.

## 3. Runs

The instances of `Controller` and `GovernedSession` use the policy of the README's
example: a tech lead who plans and orchestrates, an engineer, a QA engineer.

| run | instance | asks |
|---|---|---|
| `controller_pair` | one session that performs every operation as every agent and an operator who cancels beside it, in one process; two trees, a required and an optional gate | types; completions are genuine; a verification that was begun does not leave the task in `verifying` |
| `controller_trio` | three sessions of one process: one driving, one submitting reviews, one verifying under an edited policy | evidence and baseline follow the stage; an approval is bound to its tree, whatever came between the two updates of its review; a finished task stays finished; `Controller` implements `TaskPromise` |
| `controller_cancel_race` | a driving session and a one-shot cancel in another process | finds a cancelled task brought back |
| `session_governed` | a policy that declares the builtin graph again, with a budget and delegation for the implementer, a ladder without a warning in planning, one with only warnings and a list of tools in review; the operator's commands beside it | the copies of the stage agree and follow the stored one; pins are offered; refusals and handoffs count in their own stage; plain mode leaves the task alone; runs end |
| `store_one_process` | two goroutines, up to three events, every failure and crash | the record parses and keeps the history, the log is truthful, what was acknowledged stays |
| `store_crash` | two goroutines, up to two events | finds a gap in the log |
| `conversation` | two owners, two prompts, two turns a run, two calls a reply, one kind of correction, every end of a run and of the process | results have parents, a request speaks as the session's identity, a saved prompt survives, notes do not repeat |
| `conversation_unanswered` | the same | finds a request with calls that have no results |
| `terminal` | two runs of two frames or requests each, a channel of two, one gate, one target of permissions | one run at a time; consent is for its own request; one frame timer; switches between runs; every `Confirm` returns |
| `command` | a gate: two streams, four pieces of output, a cap of two, a background process, timeout and cancellation | a pass is genuine; output is capped and accounted for; `Run` returns |
| `bash_timeout` | a shell command: one stream, no `WaitDelay` | finds a timeout after which `Run` does not return |
| `parts` | every input of the pure parts within the bounds | each part against its reference definition; rows of the transcript; authority of a session |

**Bounds.** Two trees are enough for every comparison the code makes: it only
ever asks whether two fingerprints are the same, and "different" needs one
other. They also let a tree return to an earlier one, the case in which an equal
fingerprint proves least. Two sessions give every race between a read and a
write; `controller_trio` has a third, so that one session's gate run can meet
another's review between two steps of the driver. It runs under an edited policy,
which the controller's operations must withstand (`Verify` has a branch for it)
although `loadSession` refuses to open such a task. One gate is enough where
evidence is compared and two, required then optional, where the batch matters.
`controller_trio` starts in `implementing` (`require_plan` off). Nothing in
`Controller` grows without bound, so no run has a state constraint.

In `Store` histories grow, and `MaxEvents` stops them: two events already give an
update that follows a failed one, three an update between two failed ones. Two
writers can hold the temporary file open at once. Four inodes are the most two
writers can have in use: the record, the temporary file, and a nameless one each.

In `GovernedSession`, `MaxDirect` and `MaxViolations` are where the two counters stop:
the code only compares them with a budget and with the length of a ladder, and the
assumption keeps both bounds at or above all of these, so nothing is lost. `maxSteps`
and `maxIdenticalFailures` are the code's constants, 40 and 4, made small: with two
passes a run has one that follows another, and every longer history is a series of
runs, since the session's counters live on between them. Two calls in a batch give
one after a handoff, `MaxBatch`'s only purpose. Other processes block, resume and
cancel (`OperatorActions`): a second session that drives the same task would also let
it pass unseen from `implementing` to `changes_requested`, two stages of one role, and
then `EscalationIsEarned` does not hold: `retargetSession` resets by role.

In `Conversation`, two prompts give a run after a run, and a run after a restart;
two turns a refused turn or a batch before another request; two calls a result that
has a result for its parent. `MaxMessages` bounds only the switches, which nothing
else does: four messages are the two notes in turn, or one after a run. The owners
are alike and the run uses that symmetry; all its properties
are invariants.

In `Terminal`, a channel of two holds two frames that two waiters can take and bring
in either order, and is full while a third is sent; two runs give a `doneMsg`, the
extra waiter it starts, and a request left over from the run before. Two frames or
requests a run give a second permission for the same target, and a request that the
next run's replaces. With one gate and one target the timer and the consent are seen once;
the theorems cover more.

In `Command`, four pieces of output go past the cap of two in one stream or across
both, and leave a line unfinished in either. `Parts` takes up to three rules, five
words, four chunks, two files, three gates and two targets a stage, which gives three
rules that contradict each other, an option with a value before a push, two calls
with two fragments each in every order, and a graph that lacks, loops or branches.
Two agents are enough to tell an owner from another and from nobody. The theorems lift
the bounds on lengths, and those on agents, indices, ids, names, endpoints and models;
the files stay two, as in the code, and the alphabets of words, rules and edges fixed.

**Fairness.** `session_governed` (`LiveSpec`): weak fairness of the run's own steps
taken together. A turn, a tool, a confirmation and a gate end or are cancelled, and
the loop then goes on at once. Prompts, switches and other processes owe nothing.

`controller_pair` (`HealthySpec`): weak fairness of the gate steps: a command ends by
itself or is killed by its timeout (`Command`), and `RunGates` has no other wait.
Strong fairness of `Load`, which the other session can disable again and again by
taking the lock: Go's mutex does not starve a waiter. Weak fairness of the callback: it
runs to its end or is refused (`Refuse`, enabled exactly when no callback can finish).
Nothing is assumed of the call itself, and `VerificationSettles` speaks of a call of
`Verify` that is under way. A run calls `advanceVerification` for a task it finds in
`verifying`, but one that ended in an error has returned before the safety net
(`main.go:1325`), and then nobody calls it until another prompt. `HealthySpec` has no git
errors, cancelled contexts or crashes: with those, verification may fail for as long as
they last, and the code does not claim otherwise. Edits are unconstrained, gates may
pass or fail.

`terminal` (`LiveSpec`): weak fairness of the steps of a waiting `Confirm`, of some
waiter taking a frame, of `Update` applying what it was handed, and of the operator
answering a request that is shown. The rest of the run and every other key owe nothing.

`command` and `bash_timeout` (`LiveSpec`): weak fairness of the signal, of the kill,
of each copier and of the return, all of them steps of the Go runtime or of the kernel.
The command and what it left running owe nothing: they may write, and hold the pipes,
for ever.

**Deadlock** is checked in the runs of `Controller`, `Store` and `GovernedSession`: the
tree can always be edited, a writer can always make an update without an event, and
a session that is not in a run can be switched. It is not checked in the others, which
really stop:
a program that has quit, a session without a task that has exited, a command whose
receipt is written, an input at its bounds.

**Mutants.** For every property of a passing run `PROJECT.json` names a plausible
bug in one definition (a dropped comparison, evidence that is not cleared, a
lock that is not taken) under which TLC finds that property violated.

## 4. Proofs

| module | theorems |
|---|---|
| `ControllerProofs` | `TypeCorrect`, `Genuineness`, `EndIsFinal`, `EvidenceFollows`, `BaselineFollows`, `PromiseKept`, `ApprovalsBind`, `StarvedNeverCompletes`, `ApprovalWaitsForItsTree`, `CallsEnd` |
| `StoreProofs` | `StoreTypeCorrect`, `RecordStaysReadable`, `HistoryIsKept`, `AcknowledgedStays`, `LogIsOfRecord` |
| `SessionProofs` | `SessionTypeCorrect`, `IdentityFollows`, `LoopSees`, `PinsAreOffered`, `PlainIsHarmless`, `AnswerIsOwed`, `EscalationEarned`, `RunsShorten`, `NeverAskedInVain`, `HandlessStagesWait` |
| `ConversationProofs` | `PromptStaysCurrent`, `ParentsStay`, `NotesStayDistinct`, `PromptsAreKept` |
| `TerminalProofs` | `TerminalTypes`, `BusyCovers`, `OneTicker`, `SwitchesWait`, `ConsentTheirs`, `RequestsKept` |
| `CommandProofs` | `PassesAreGenuine`, `OutputAccounted` |
| `PartsProofs` | `RowsAreTheirs`, `LaterRulesWin`, `PushesAreFound`, `CallsComeOut`, `AuthorityFits`, `PolicySound`, `LaterFileDecides` |

**Induction over data.** What a fold over a list of any length computes, or a sum over
any set of streams, is an induction, and the library states induction with an
operator for the property, which the provers cannot be given. `Induction` states it of
sets: a set of numbers that has 0 and with each number the next has them all
(`IntervalInduction`, `SubsetInduction`, from the well-foundedness of the naturals).
From that it has that functions defined by recursion exist and take the values their
equations say (`RecursionExists`, `FoldExists`), what `FoldLeft` and sums over
functions are (`LeftFoldExists`, `SumIs`, `SumStep`, `SumGrows`), and least and
greatest elements. Every loop of the code that is a fold or a recursive function in
the model is then followed one item at a time: `RulesSteps`, `SubcommandSteps`,
`ChoiceSteps`, `AssemblyStep`, `NormalizedSteps`, `SpineIsWalk`.

**Controller**, for every number of sessions, processes, agents, policies, gates and
trees.

* `TypeCorrect`: `Spec => []TypeOK`. The type invariant is not inductive alone: that
  a verdict is recorded with a real fingerprint depends on which calls carry
  one. `TypeInv` adds `Shaped`, which says what each operation in progress carries.
* `Genuineness`: `Spec => []CompletionIsGenuine`, for graphs that enter `complete`
  by `completed` alone (`OnlyCompletedCompletes`; the builtin graph is one, by
  `BuiltinOnlyCompletedCompletes`). The invariant `GenuineInv` follows records and
  not the lock: each record in existence, the stored one and every loaded copy,
  is `Backed`, meaning that its passing receipts are of gates that passed and its
  approval is of a tree that was endorsed. A lost update puts one backed record in
  the place of another, so nothing is assumed of how processes share the store.
  `Evidenced` is the part of `Backed` that survives while a callback is half way
  through a record; `TransitionBacked` and `CompletedBacked` close the gap at the
  transition that ends every callback.
* `EndIsFinal`: `Spec => TerminalIsFinal`, when all sessions share a process
  (`OneProcess`) and the graph has no exit from its ends (`EndsAreFinal`). Its
  invariant `SerialInv` is the lock: at most one session holds a record, and what
  it holds is the stored one. `controller_cancel_race` shows that `OneProcess` is needed.
* `EvidenceFollows` and `BaselineFollows`: `Spec => []EvidenceFollowsStage` and
  `Spec => []BaselineFollowsStage`, for graphs that are `Orderly`: tasks park in
  `blocked` by `blocked` and leave it by `resumed` alone, each stage that rests on
  evidence is entered by the action that brings it, and the actions that record no
  baseline stay clear of the editing stages (`BuiltinOrderly`: the builtin graph is
  one). `RecordInv` is again of records: every one in existence is `Right`, and an
  operation in progress holds what its call promises (`OpRight`), above all that a
  finished batch has a receipt for each gate or a failed required one. So both hold
  whatever updates are lost between processes.
* `PromiseKept`: `Spec => KeepsPromise`, in one process, for orderly graphs without a
  way out of their ends. `PromiseInv` is `GenuineInv`, `SerialInv` and that a task is
  never parked from a stage it could not work in: a step of `TaskPromise` is judged by
  the stored record, so here the lock is needed to know that the callback saw that one.
  `BuiltinOrderly` and `BuiltinEndsAreFinal` show that the builtin graph qualifies.
* `ApprovalsBind`: `Spec => []ApprovalBinds`, for any sessions in any processes, when
  the graph enters `complete` by `completed` alone. `EndorsedInv` is `GenuineInv` and
  that nothing is endorsed but a tree which had passed the required gates of its policy;
  `Backed` says of every record that an approval in it was endorsed (`Approves`). The
  receipts may change between the two updates of a review: what is approved does not,
  and `Complete` compares the two.
* `StarvedNeverCompletes`: under a policy with a required gate that its `run_at` keeps
  out of `verifying` (`Starved`), which validation accepts, no task is ever completed.
  `RanInv` says that a gate which passed under a policy is one its verification runs;
  that a completion is genuine does the rest.
* `ApprovalWaitsForItsTree`: `Spec => AwaitsItsTree`, in one process, for orderly graphs
  that leave `ready_to_complete` only to `complete` or `blocked`, or by a reviewer's call
  (`ReadyExits`; `BuiltinReadyExits`: the builtin graph is one). A task whose approval
  is recorded keeps its evidence, parked or not, until a call of a reviewer finds it
  stale; on any other tree it is not completed. The moment at which the callback sees
  the record is the step itself, by `SerialInv`.
* `CallsEnd`, the safety half of `VerificationSettles`: `StepsLeft` counts what a call
  has still to do, at most two steps for each gate of its policy and four more, and
  every step of the call makes it smaller, whatever the other sessions and the tree
  do. What fairness adds is that the steps are taken.

**Store**, for every number of writers, files and events, when the writers share a
process. Writers of two processes share the temporary file's name without a lock, and
there already the first of these fails.

* `RecordStaysReadable` and `StoreTypeCorrect`: `[]RecordReadable`, `[]TypeOK`. Neither
  is inductive: whether a rename puts a good record in place depends on what the
  temporary file holds, and that on who may write to it. `StoreInv` adds that at most
  one writer is in an update (`Serial`), that the temporary file is not the record and
  holds what that writer put there (`TmpIsOwn`), and that its copy is the record, or
  one event more (`CopyExtends`).
* `HistoryIsKept`: `Spec => KeepsHistory`. The refinement comes down to `Rename`, the
  one step that changes the record (`RenameReplaces`, `HistoryStep`).
* `AcknowledgedStays`: `Spec => AcknowledgedIsKept`; `Durable` follows the events into
  both files.
* `LogIsOfRecord`: `Spec => []LogIsOfTheRecord`. The events of the log have their
  places in the history (`Placed`); while an update is between its rename and its
  append they have them before its event, so that the append finds room at the end
  (`LogInv`). A failure in between only leaves a place empty.

**GovernedSession**, for every graph, policy, limit and set of actions other processes
take.

* `SessionTypeCorrect`: `Spec => []TypeOK`. Not inductive alone: that a step is never
  counted past `maxSteps`, and that a governed session has a task to read, depend on
  the phase. `TypeInv` adds `Placed`, which says so. `RunOK` and `TaskOK` are the two
  halves of it that actions disturb separately.
* `IdentityFollows`: `Spec => []IdentityFollowsStage`, by `IdentityInv`, which is that
  property with `TypeInv`. Its one surprise is plain mode: no call leaves a trace in
  the counters because the only call that could, a planner's handoff, is refused
  (`PlainCallIdentity`).
* `LoopSees`: `Spec => []LoopSeesTask`. The property speaks of the phases in which a
  turn or a call is judged; `SightInv` says of every phase but `refresh` that the app
  knows the stored stage, in plain mode too, because a switch back takes up the task
  as the app last knew it.
* `PinsAreOffered`: `Spec => []PinIsOffered`, for policies that allow each stage its
  handoff (`HandoffsAllowed`) and grant delegation by role (`DelegationByRole`).
  `Policy.validate` checks neither, and without them the property fails. The
  invariant `PinOwed` says which pins a stage can owe its session: none, its handoff,
  or the delegation tool. It survives a change of stage because a role decides its
  handoff (`HandoffByRole`) and a change of role clears the pin.
* `PlainIsHarmless`: `Spec => PlainLeavesTaskAlone`. It rests on `Nop.Intercept` alone,
  as the comment there says it must: masking plays no part in the proof.
* `AnswerIsOwed` and `EscalationEarned`: `Spec => AnswerFollowsHandoff` and
  `Spec => EscalationIsEarned`, for graphs in which a stage with an owner is left only
  to a stage of another, or to be parked (`HandsOn`; `BuiltinHandsOn`: the builtin graph
  is one), while besides the session only operators act on the task (`OthersOperate`).
  The stage is known to the session from its last reading, so `StageInv` says where
  the task can be since then (`SeenInv`, `CalledInv`), that a handoff is remembered only
  from the call to that reading (`HandedInv`), and that no refusal of another stage is
  counted (`EarnedInv`). With other sessions taking every action both properties
  fail, as TLC finds: the task can go on and come back between two readings.
* `RunsShorten`, the safety half of `RunEnds`: `RunLeft` counts the passes left to the run
  and the steps left in this one, and every step of the run makes it smaller. Other
  processes add to it in one place only, by taking the task to `verifying` under the
  safety net.
* `NeverAskedInVain`: the model of a governed session is asked only when it is offered a
  tool that moves the task on (`AskedToAdvance`), for every graph and policy.
* `HandlessStagesWait`: `Spec => HandlessWaits`. A task in a stage whose tools move it
  nowhere (`Handless`) is moved by other processes only, as long as the session knows
  which stage it is in, which is `SightInv`. `CustomStagesHandless`: every stage that is
  not builtin is one, unless its own `allow_tools` names a workflow tool.

**Conversation**, for any owners, corrections and bounds, with exits at any point and
resumptions. `PromptStaysCurrent`, `ParentsStay` and `NotesStayDistinct`
(`[]PromptIsCurrent`, `[]ResultsHaveParents`, `[]NotesDoNotRepeat`) share
`ConversationInv`: outside a fresh session the conversation is `Sound`, that is, has its
one system prompt first, a parent for each result and no note behind its like; while a
batch is executed its last message is the one the next result must follow
(`ExpectsResult`); and the note of the mode the session is not in is never the last thing
said (`NoteFits`), so a switch never repeats one. `CheckpointInv` says the same of the
file, and `NormalizedSteps` follows what a resumed session makes of it message by
message. `PromptsAreKept` (`[]PromptsSurvive`) adds that a prompt whose save was reported
is in the file, and in the conversation whenever there is one (`MemoryInv`).

**Terminal**, for any capacity, targets, gates and numbers of runs and requests.
`TerminalTypes` and `BusyCovers` are inductive as they stand, the second on top of the
first (`Covered`). `OneTicker` is inductive on top of that. `SwitchesWait` needs
that the model picker is open between runs only (`PickerIdle`), since it applies a
model without asking whether a run is on. `ConsentTheirs`: an answer on its way to a
`Confirm` was given to that request (`AnswerOwn`), and a target allowed for the session
was allowed by a key (`AllowedOwn`). `RequestsKept` is the safety half of
`ConfirmReturns`: the request of a waiting `Confirm` is in the channel, carried by a
waiter, on the pane, or answered (`PumpInv`), and a waiter or its message is always
under way. A request that another takes the pane from is denied, which is an answer;
a `doneMsg` cannot come while a `Confirm` waits, because `busy` covers the run
(`BusyCovers`).

**Command**, for any streams, caps and output. `PassesAreGenuine`,
`Spec => []PassIsGenuine`: `PassInv` says how context, signal and outcome hang together: a
signal means that the context has ended, an expired context that the outcome is timed
out, and a cancelled one leaves the mark at which `RunGate` writes no receipt.
`OutputAccounted`, `Spec => []OutputIsAccounted`: what is kept in all streams and the
budget left make up the cap, and the mark is set exactly when something was read and
not kept (`WithinBudget`, sums over any finite set of streams); a line begun is reported,
being reported, or unfinished (`LinesKept`); and `Wait` returns only when the copiers
are done (`Returned`).

**Parts**, for inputs of any length, whatever the bounds of the run.

* `RowsAreTheirs`: `PartsSpec => []ToolRowsAreTheirs`, for any rows and calls, `/clear`
  included. `RowsInv` ties each tool row to the call that claims it, and each call since
  the last `/clear` to a row that no chat message and no other such call has. After a
  `/clear` the calls of before it keep their numbers, so only they can be drawn over
  other rows or miss theirs (section 5).
* `LaterRulesWin`: `PartsSpec => []RulesDecide`, for any number of rules.
* `PushesAreFound`: `PartsSpec => []PushesAreSeen`, for command lines of any length. One
  direction follows the options from git to the push, the other takes the last
  place at which an option begins and finds no room for an error after it.
* `CallsComeOut`: `PartsSpec => []CallsAssembled`, for streams of any length, ended or cut
  off anywhere, with any indices, ids and names. The reader's tables after each chunk
  are the groups of the fragments so far, in order of arrival (`AssemblyStep`,
  `AssembledAll`); `StreamAssembled` closes with the flush.
* `LaterFileDecides`: `PartsSpec => []LaterFileWins`, for files of any contents: what two
  merges leave of a provider (`TwoMerged`) and of a setting (`LastFileSays`), and so
  which configurations are accepted.
* `AuthorityFits`: `PartsSpec => []AuthorityFollows`, for any agents, any mapping of roles
  to them and any of them defined. `Authorized` is inductive: before its first prompt
  a session is plain, and after it its authority `Fits` its mode and stage.
* `PolicySound`: `PartsSpec => []PolicyIsSound`, for any number of gates; `AcceptedIsSound`,
  the lemma behind it, is of any finite graph. `SpineIsWalk` is the one with a counting
  argument: a walk that could go on has a new stage with each step, so after as many
  steps as there are states it has stopped.

Assumptions: `PolicyAssumption` and `GraphAssumption` are what `Policy.validate`
enforces, `SessionAssumption` types the other constants of `Controller`,
`NoneAssumption` keeps the nil value apart from values; `StoreAssumption`,
`RulesAssumption`, the `SessionAssumption` of `GovernedSession`,
`ConversationAssumption`, `TerminalAssumption`, `TranscriptAssumption` and
`CommandAssumption` type the constants of their modules. TLC evaluates them on every run.

**Model-checked only.** Every invariant and every action property of the passing runs
is stated by a theorem. Liveness (`VerificationSettles`, `RunEnds`, `ConfirmReturns`,
`RunReturns`), and anything that rests on `ENABLED` (`Refuse`), is beyond the proof
system. For the first three a safety half is proved (`CallsEnd`, `RunsShorten`,
`RequestsKept`): that there is only so much to do, or that nothing is lost. That
it gets done, under the fairness of section 3, is what TLC checks.

## 5. What was found

By the runs that expect a violation:

* A one-shot `-cancel` can be undone by a running session: the store's lock
  orders the updates of one process only (`controller_cancel_race`).
* An event whose append failed, or was cut off by a crash, never reaches the log,
  though `Update` is documented to persist it: later updates append only their own
  (`store_crash`).
* A confirmation that ends with its cancelled run ends the batch: the reply's calls
  stay in the conversation without results, and the next prompt sends them so
  (`conversation_unanswered`).
* A shell command whose background process keeps the output pipe open is waited for
  beyond the timeout, since `Bash.Run` sets no `WaitDelay` (`bash_timeout`).

Read off the code while modelling, with no run of their own:

* `SubmitQA`'s second update checks the state alone, so with two reviewers in one
  process an approval can be recorded over receipts of another tree: one of them
  resubmits and verifies while the other's verdict waits. It stays an approval of the
  tree it was formed against, and `Complete` refuses to finish on another
  (`ApprovalBinds`, whose mutant drops that comparison and meets just this race).
* Resuming into an editing stage keeps the baseline from before the block
  (`controller.go:440`), though the repository's README says the tree is fingerprinted
  on every return.
* Two processes that save one task share its temporary file, so a record that does
  not parse can be renamed into place, though `Save` is documented as atomic.
* A run can end with the message that its stage is the runtime's and did not advance,
  although the stage it names is the model's, when another process moved the task
  between the judgement and the second reading.
* The failure streak is the loop's and nothing resets it between runs: after a run
  that was given up for it, the next is given up too if its first batch executes no
  call.
* Optional gates after a failed required gate do not run, though the comment on
  `RunGates` (`gate.go:120-123`) says they always do, and without independent QA passing
  gates still lead to `qa_review`, though the comment in `Verify` (`controller.go:284`)
  says they go straight to completion.
* The safety net of `governedRunner.Run` is skipped after the step limit and after a
  cancelled turn, since both are errors (`main.go:1325`), though they are the two cases
  its comment (`main.go:1329-1332`) gives for it. The task then stays in `verifying`
  until another prompt, so no property says that it leaves that stage by itself.
* A stage whose owner is mapped but has no definition keeps the rules that were in
  force, which in a new session are the plain ones (`main.go:664-668`); an unmapped role
  of a session with no selected agent keeps the last stage's actor as well.
* When the fingerprint after a gate fails (`gate.go:70-73`), the UI hears of no end of
  that gate and its spinner runs until the next prompt.
* `/clear` empties the transcript and keeps `toolCalls` (`app.go:1021-1025`), so a later
  click, or the end of a call, may find a row that is another's, or none, which is an
  index out of range and ends the program. `ToolRowsAreTheirs` says that nothing but
  the calls of before a `/clear` ever does so.
* A project file that names a provider again for its models alone takes its base URL
  away, and the configuration is refused (`config.go:214`, `config.go:287-291`), though
  the comment on `mergeFile` (`config.go:192-194`) says that an absent key leaves the
  earlier value intact (`LaterFileWins`).
* Every `doneMsg` starts one more waiter, so after a run frames can be applied out of
  order, and text of an earlier run can arrive in a later one.
* In a reply whose fragments all carry index 0, the reader merges all calls into one;
  a call the client numbers for want of an id may get the number of an earlier reply's.
* A required gate whose `run_at` leaves out `verifying` passes validation and makes
  completion impossible (`policy.go:130`; `StarvedNeverCompletes`).
* The custom stage `research` of the repository's README (`README.md:273-280`) has no
  handoff to pin, though its comment says that the budget pins one: `HandoffTool`
  (`mask.go:156`) knows the builtin stages only. In that stage the model is not even
  asked, and the task stays (`HandlessStagesWait`, `NeverAskedInVain`).
* An approved task whose tree has moved is refused completion, and nothing sends it
  back to be verified (`controller.go:389`; `ApprovalWaitsForItsTree`).
* An empty last answer is kept and saved; loading drops it.
* The routing section of the configuration is validated and used by nothing.

## 6. Plan

Done, in the order in which the modules build on each other: `Controller` and
`TaskPromise`, `Store` and `TaskHistory`, `Enforcer` and `GovernedSession`, `Conversation`,
`Terminal` and `Transcript`, `Command`, the pure parts, and the proofs above.

Left:

1. Custom graphs, and policies whose verification leaves out a required gate, as
   further instances of `Controller` and `GovernedSession`. What the hazards at
   `policy.go:130` and `mask.go:156` come to is proved for all of them; no run shows it.
2. `Controller` and `GovernedSession` as one model. What the controller makes of a task
   in `ready_to_complete` whose tree has moved is proved (`controller.go:389`); that the
   tool table hides the one call that would help needs both.
3. The readers of the log, with lines that were cut (`store.go:235`).

## 7. Not modelled, and why

Agent files, skills and context are prose read from files and put into a prompt, with
no state that a protocol property speaks of; the fake provider is a test double. Of the
parts that are modelled, these are left out: rendering, layout, scrolling, the input
history, the status and usage panes; the file and search tools, whose effect on a
task is that the tree moves; the parsing of policies, configuration with
comments, and command lines; path handling (`IsPolicyEdit`, expansion of variables and
paths); the canonical form a policy's hash is taken of; the encoding of requests and
HTTP errors, which end a turn; token accounting; `List` and the readers of the log. How
git objects become a fingerprint is a hash: the models take equal fingerprints to mean
equal trees.
