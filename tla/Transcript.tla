----------------------------- MODULE Transcript -----------------------------
(***************************************************************************)
(* What the terminal UI keeps of a conversation (internal/tui/app.go,      *)
(* toolpane.go): the rows of the transcript, and beside them the chat      *)
(* messages and tool calls, each with the number of its row, so that a row *)
(* can be drawn again when a call ends, is clicked, or the width changes.  *)
(*                                                                         *)
(* Frames arrive as Terminal delivers them: any of them may have been      *)
(* dropped or overtaken, so the end of a call may come without its start,  *)
(* and late, so it may come after the end of its run.                      *)
(* All calls are of one tool, the name by which an end finds its call.     *)
(***************************************************************************)
EXTENDS Integers, Sequences

CONSTANTS
    MaxRows,    \* bound: rows of the transcript
    MaxCalls    \* bound: tool calls of a session

ASSUME TranscriptAssumption ==
    /\ MaxRows \in Nat
    /\ MaxCalls \in Nat

VARIABLES
    transcript,     \* the rows
    chatMessages,   \* the row of each chat message
    toolCalls,      \* the row of each tool call, and whether it still runs
    streaming,      \* whether a reply is being received
    session,        \* "new", "busy" with a run, or "idle" after one
    up,             \* FALSE once an index out of range has ended the program
    forgotten       \* history: the calls there were at the last /clear

vars == <<transcript, chatMessages, toolCalls, streaming, session, up, forgotten>>

\* A row shows a chat message or a tool call, by its number, or a note.
Rows == [kind : {"chat", "tool"}, of : Nat \ {0}] \cup [kind : {"note"}, of : {0}]
ToolCalls == [row : Nat \ {0}, running : BOOLEAN]

ChatRow(n) == [kind |-> "chat", of |-> n]
ToolRow(n) == [kind |-> "tool", of |-> n]
Note == [kind |-> "note", of |-> 0]

Init ==
    /\ transcript = <<>>
    /\ chatMessages = <<>>
    /\ toolCalls = <<>>
    /\ streaming = FALSE
    /\ session = "new"
    /\ up = TRUE
    /\ forgotten = 0

Room == up /\ Len(transcript) < MaxRows

-----------------------------------------------------------------------------

appendChatMessage ==
    /\ chatMessages' = Append(chatMessages, Len(transcript) + 1)
    /\ transcript' = Append(transcript, ChatRow(Len(chatMessages) + 1))

\* Mutation: the number of the row is taken after the row has been added.
appendToolCallAfter(running) ==
    /\ toolCalls' = Append(toolCalls, [row |-> Len(transcript) + 2, running |-> running])
    /\ transcript' = Append(transcript, ToolRow(Len(toolCalls) + 1))

appendToolCall(running) ==
    /\ toolCalls' = Append(toolCalls, [row |-> Len(transcript) + 1, running |-> running])
    /\ transcript' = Append(transcript, ToolRow(Len(toolCalls) + 1))

Submit ==
    /\ Room
    /\ session # "busy"
    /\ session' = "busy"
    /\ appendChatMessage
    /\ UNCHANGED <<toolCalls, streaming, up, forgotten>>

TextDelta ==
    /\ up
    /\ session # "new"
    /\ streaming' = TRUE
    /\ UNCHANGED <<transcript, chatMessages, toolCalls, session, up, forgotten>>

ToolStarted ==
    /\ Room
    /\ session # "new"
    /\ Len(toolCalls) < MaxCalls
    /\ appendToolCall(TRUE)
    /\ UNCHANGED <<chatMessages, streaming, session, up, forgotten>>

\* The first call still running is the one that ended.
IsFirstRunning(n) ==
    /\ toolCalls[n].running
    /\ \A other \in 1..(n - 1) : ~toolCalls[other].running

ToolFinished(n) ==
    /\ up
    /\ IsFirstRunning(n)
    /\ IF toolCalls[n].row \in DOMAIN transcript
       THEN /\ transcript' = [transcript EXCEPT ![toolCalls[n].row] = ToolRow(n)]
            /\ toolCalls' = [toolCalls EXCEPT ![n].running = FALSE]
            /\ UNCHANGED up
       ELSE /\ up' = FALSE
            /\ UNCHANGED <<transcript, toolCalls>>
    /\ UNCHANGED <<chatMessages, streaming, session, forgotten>>

ToolFinishedUnknown ==
    /\ Room
    /\ session # "new"
    /\ Len(toolCalls) < MaxCalls
    /\ \A n \in DOMAIN toolCalls : ~toolCalls[n].running
    /\ appendToolCall(FALSE)
    /\ UNCHANGED <<chatMessages, streaming, session, up, forgotten>>

\* A blocked call, the error of a run, the outcome of a command or a decision.
AddNote ==
    /\ Room
    /\ transcript' = Append(transcript, Note)
    /\ UNCHANGED <<chatMessages, toolCalls, streaming, session, up, forgotten>>

\* doneMsg: what was received becomes a chat message.
RunDone ==
    /\ session = "busy"
    /\ session' = "idle"
    /\ streaming' = FALSE
    /\ IF streaming
       THEN Room /\ appendChatMessage
       ELSE up /\ UNCHANGED <<transcript, chatMessages>>
    /\ UNCHANGED <<toolCalls, up, forgotten>>

\* /clear forgets the rows and the chat messages, but not the tool calls.
Clear ==
    /\ up
    /\ session # "busy"
    /\ transcript' = <<>>
    /\ chatMessages' = <<>>
    /\ forgotten' = Len(toolCalls)
    /\ UNCHANGED <<toolCalls, streaming, session, up>>

-----------------------------------------------------------------------------

\* rerenderChatMessages: rows that are gone are left alone.
Rerendered(rows) ==
    [i \in DOMAIN rows |->
        IF \E n \in DOMAIN chatMessages : chatMessages[n] = i
        THEN ChatRow(CHOOSE n \in DOMAIN chatMessages : chatMessages[n] = i)
        ELSE rows[i]]

Resize ==
    /\ up
    /\ transcript' = Rerendered(transcript)
    /\ UNCHANGED <<chatMessages, toolCalls, streaming, session, up, forgotten>>

\* toolRows: the call a click on row i is for, the first that claims the row;
\* 0 for none.
CallsAt(i) == {n \in DOMAIN toolCalls : toolCalls[n].row = i}

ToolIndex(i) ==
    IF CallsAt(i) = {}
    THEN 0
    ELSE CHOOSE n \in CallsAt(i) : \A other \in CallsAt(i) : n =< other

\* toggleToolAt: the call's row is drawn again, then the chat messages' rows.
Click(i) ==
    /\ up
    /\ ToolIndex(i) # 0
    /\ transcript' = Rerendered([transcript EXCEPT ![i] = ToolRow(ToolIndex(i))])
    /\ UNCHANGED <<chatMessages, toolCalls, streaming, session, up, forgotten>>

Next ==
    \/ Submit
    \/ TextDelta
    \/ ToolStarted
    \/ \E n \in DOMAIN toolCalls : ToolFinished(n)
    \/ ToolFinishedUnknown
    \/ AddNote
    \/ RunDone
    \/ Clear
    \/ Resize
    \/ \E i \in DOMAIN transcript : Click(i)

Spec == Init /\ [][Next]_vars

-----------------------------------------------------------------------------

\* A call of before the last /clear keeps the number of a row, and whatever is
\* put there next is drawn over, or clicked, as that call.
Claimed(row) == \E old \in 1..forgotten : toolCalls[old].row = row

\* "toolCalls are the structured entries behind the transcript's tool rows": a
\* click on the row of a tool call is for the call the row shows, every call has
\* its row and its row shows it, and no number of a row is out of range, as long as
\* /clear is not typed, which empties the rows and keeps the calls (app.go:1021).
\* After it only the calls of before it do damage: a click on a row may be for one
\* of those, a row it claims may show it, and the end of one may find no row.  The
\* calls since then have their rows (refresh, toggleToolAt, runCommand).
ToolRowsAreTheirs ==
    /\ \A i \in DOMAIN transcript :
          transcript[i].kind = "tool" =>
             ToolIndex(i) \in {transcript[i].of} \cup 1..forgotten
    /\ \A n \in (DOMAIN toolCalls) \ (1..forgotten) :
          LET row == toolCalls[n].row IN
          /\ row \in DOMAIN transcript
          /\ transcript[row] = ToolRow(n) \/ Claimed(row)
    /\ up \/ \E old \in 1..forgotten : toolCalls[old].row \notin DOMAIN transcript

=============================================================================
