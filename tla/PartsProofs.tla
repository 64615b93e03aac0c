----------------------------- MODULE PartsProofs -----------------------------
(***************************************************************************)
(* What the parts that decide by themselves compute, for inputs of any     *)
(* length: the rows of the transcript, the permission a list of rules      *)
(* gives, the subcommand of git, the authority of a session, the calls     *)
(* assembled from a stream, the configuration two files give, and what is  *)
(* true of a policy that is accepted and of the spine drawn of it.         *)
(***************************************************************************)
EXTENDS Parts, Induction, SequenceTheorems

-----------------------------------------------------------------------------
\* The transcript.

\* The call numbered n was made since the last /clear.
Recent(n) == n \in DOMAIN toolCalls /\ n \notin 1..forgotten

\* Every tool row shows a call that claims it.
RowsClaimed ==
    \A i \in DOMAIN transcript :
        transcript[i].kind = "tool"
            => /\ transcript[i].of \in DOMAIN toolCalls
               /\ toolCalls[transcript[i].of].row = i

\* A recent call has a row, which shows it or a call of before that claims it, and
\* which no message and no other recent call claims.
RecentKept(n) ==
    /\ toolCalls[n].row \in DOMAIN transcript
    /\ transcript[toolCalls[n].row] = ToolRow(n) \/ Claimed(toolCalls[n].row)
    /\ \A k \in DOMAIN chatMessages : chatMessages[k] # toolCalls[n].row
    /\ \A m : Recent(m) /\ m # n => toolCalls[m].row # toolCalls[n].row

\* Inductive: /clear makes every call one of before, so nothing is asked of them.
RowsInv ==
    /\ transcript \in Seq(Rows)
    /\ chatMessages \in Seq(Nat \ {0})
    /\ toolCalls \in Seq(ToolCalls)
    /\ forgotten \in 0..Len(toolCalls)
    /\ \A k \in DOMAIN chatMessages : chatMessages[k] \in DOMAIN transcript
    /\ RowsClaimed
    /\ \A n : Recent(n) => RecentKept(n)
    /\ up \/ \E old \in 1..forgotten : toolCalls[old].row \notin DOMAIN transcript

LEMMA SameRows ==
    ASSUME RowsInv, UNCHANGED <<transcript, chatMessages, toolCalls, up, forgotten>>
    PROVE  RowsInv'
<1>1. (\A n : Recent(n)' <=> Recent(n)) /\ \A i : Claimed(i)' <=> Claimed(i)
  BY DEF Recent, Claimed
<1>2. \A n : RecentKept(n)' <=> RecentKept(n)
  BY <1>1 DEF RecentKept
<1> QED
  BY <1>1, <1>2 DEF RowsInv, RowsClaimed

LEMMA ForgottenAreCalls == RowsInv => 1..forgotten \subseteq DOMAIN toolCalls
  BY DEF RowsInv

\* Of the calls that claim a row the first is the one a click on it is for.
LEMMA FirstClaims ==
    ASSUME RowsInv, NEW i, CallsAt(i) # {}
    PROVE  /\ ToolIndex(i) \in CallsAt(i)
           /\ \A n \in CallsAt(i) : ToolIndex(i) =< n
<1>1. CallsAt(i) \subseteq Nat
  BY DEF RowsInv, CallsAt
<1>2. \E n \in CallsAt(i) : \A other \in CallsAt(i) : n =< other
  BY <1>1, LeastElement
<1> QED
  BY <1>2 DEF ToolIndex

\* The call that a tool row shows claims it, and two recent calls never share one.
LEMMA RowsFound == RowsInv => ToolRowsAreTheirs
<1> SUFFICES ASSUME RowsInv
             PROVE  ToolRowsAreTheirs
  OBVIOUS
<1>1. ASSUME NEW i \in DOMAIN transcript, transcript[i].kind = "tool"
      PROVE  ToolIndex(i) \in {transcript[i].of} \cup 1..forgotten
  <2> DEFINE shown == transcript[i].of
             first == ToolIndex(i)
  <2>1. shown \in CallsAt(i)
    BY <1>1 DEF RowsInv, RowsClaimed, CallsAt
  <2>2. first \in CallsAt(i) /\ first =< shown
    BY <2>1, FirstClaims
  <2> HIDE DEF first, shown
  <2>3. /\ first \in DOMAIN toolCalls /\ toolCalls[first].row = i
        /\ shown \in DOMAIN toolCalls /\ toolCalls[shown].row = i
    BY <2>1, <2>2 DEF CallsAt
  <2>4. first \notin 1..forgotten => Recent(first) /\ Recent(shown)
    BY <2>2, <2>3 DEF RowsInv, Recent
  <2>5. first \notin 1..forgotten => first = shown
    BY <2>3, <2>4 DEF RowsInv, RecentKept
  <2> QED
    BY <2>5 DEF first, shown
<1> QED
  BY <1>1 DEF ToolRowsAreTheirs, RowsInv, Recent, RecentKept

\* Messages and calls are drawn in rows they claim; else only what runs changes.
LEMMA Redrawn ==
    ASSUME RowsInv, up', UNCHANGED <<chatMessages, forgotten>>,
           toolCalls' \in Seq(ToolCalls), Len(toolCalls') = Len(toolCalls),
           \A n \in DOMAIN toolCalls : toolCalls'[n].row = toolCalls[n].row,
           transcript' \in Seq(Rows), Len(transcript') = Len(transcript),
           \A i \in DOMAIN transcript :
              \/ transcript'[i] = transcript[i]
              \/ \E k \in DOMAIN chatMessages :
                    chatMessages[k] = i /\ transcript'[i] = ChatRow(k)
              \/ \E n \in DOMAIN toolCalls :
                    toolCalls[n].row = i /\ transcript'[i] = ToolRow(n)
    PROVE  RowsInv'
<1>1. /\ DOMAIN transcript' = DOMAIN transcript
      /\ DOMAIN toolCalls' = DOMAIN toolCalls
  BY DEF RowsInv
<1>2. \A n : Recent(n)' <=> Recent(n)
  BY <1>1 DEF Recent
<1>3. \A row : Claimed(row) => Claimed(row)'
  BY ForgottenAreCalls DEF Claimed
<1>4. RowsClaimed'
  <2> SUFFICES ASSUME NEW i \in DOMAIN transcript, transcript'[i].kind = "tool"
               PROVE  /\ transcript'[i].of \in DOMAIN toolCalls
                      /\ toolCalls[transcript'[i].of].row = i
    BY <1>1 DEF RowsClaimed
  <2>1. CASE transcript'[i] = transcript[i]
    BY <2>1 DEF RowsInv, RowsClaimed
  <2>2. CASE transcript'[i] # transcript[i]
    <3>1. PICK n \in DOMAIN toolCalls : toolCalls[n].row = i /\ transcript'[i] = ToolRow(n)
      <4>1. \A k : ChatRow(k).kind = "chat"
        BY DEF ChatRow
      <4> QED
        BY <2>2, <4>1
    <3> QED
      BY <3>1 DEF ToolRow
  <2> QED
    BY <2>1, <2>2
<1>5. ASSUME NEW n, Recent(n)
      PROVE  transcript'[toolCalls[n].row] = ToolRow(n) \/ Claimed(toolCalls[n].row)
  <2> DEFINE row == toolCalls[n].row
  <2>1. /\ row \in DOMAIN transcript
        /\ transcript[row] = ToolRow(n) \/ Claimed(row)
        /\ \A k \in DOMAIN chatMessages : chatMessages[k] # row
        /\ \A m : Recent(m) /\ m # n => toolCalls[m].row # row
    BY <1>5 DEF RowsInv, RecentKept
  <2> HIDE DEF row
  <2>2. ASSUME NEW m \in DOMAIN toolCalls, toolCalls[m].row = row, m # n
        PROVE  Claimed(row)
    BY <2>1, <2>2 DEF Recent, Claimed
  <2>3. transcript'[row] = ToolRow(n) \/ Claimed(row)
    BY <2>1, <2>2
  <2> QED
    BY <2>3 DEF row
<1>6. ASSUME NEW n, Recent(n)
      PROVE  RecentKept(n)'
  <2>1. /\ n \in DOMAIN toolCalls /\ toolCalls'[n].row = toolCalls[n].row
        /\ \A m : Recent(m)' => Recent(m) /\ toolCalls'[m].row = toolCalls[m].row
    BY <1>2, <1>6 DEF Recent
  <2>2. RecentKept(n)
    BY <1>6 DEF RowsInv
  <2> QED
    BY <1>1, <1>3, <1>5, <1>6, <2>1, <2>2 DEF RecentKept
<1>7. /\ forgotten' \in 0..Len(toolCalls')
      /\ \A k \in DOMAIN chatMessages' : chatMessages'[k] \in DOMAIN transcript'
  BY <1>1 DEF RowsInv
<1> QED
  BY <1>2, <1>4, <1>6, <1>7 DEF RowsInv

\* A row that is put at the end is claimed by nothing of now.
LEMMA AppendedRow ==
    ASSUME RowsInv, NEW row \in Rows, transcript' = Append(transcript, row)
    PROVE  /\ transcript' \in Seq(Rows)
           /\ DOMAIN transcript' = DOMAIN transcript \cup {Len(transcript) + 1}
           /\ Len(transcript) + 1 \in Nat \ {0}
           /\ Len(transcript) + 1 \notin DOMAIN transcript
           /\ transcript'[Len(transcript) + 1] = row
           /\ \A i \in DOMAIN transcript : transcript'[i] = transcript[i]
  BY DEF RowsInv

\* A note, or a message with its row.
LEMMA AppendedTalk ==
    ASSUME RowsInv, up', UNCHANGED <<toolCalls, forgotten>>,
           NEW row \in Rows, row.kind # "tool", transcript' = Append(transcript, row),
           chatMessages' \in {chatMessages, Append(chatMessages, Len(transcript) + 1)}
    PROVE  RowsInv'
<1> DEFINE end == Len(transcript) + 1
<1>1. /\ transcript' \in Seq(Rows) /\ DOMAIN transcript' = DOMAIN transcript \cup {end}
      /\ end \in Nat \ {0} /\ end \notin DOMAIN transcript /\ transcript'[end] = row
      /\ \A i \in DOMAIN transcript : transcript'[i] = transcript[i]
  BY AppendedRow
<1>2. /\ chatMessages' \in Seq(Nat \ {0})
      /\ \A k \in DOMAIN chatMessages' :
            \/ chatMessages'[k] = end
            \/ \E j \in DOMAIN chatMessages : chatMessages'[k] = chatMessages[j]
  <2>1. CASE chatMessages' = chatMessages
    BY <2>1 DEF RowsInv
  <2>2. CASE chatMessages' = Append(chatMessages, end)
    <3>1. /\ chatMessages' \in Seq(Nat \ {0})
          /\ \A k \in DOMAIN chatMessages' :
                IF k \in DOMAIN chatMessages THEN chatMessages'[k] = chatMessages[k]
                ELSE chatMessages'[k] = end
      BY <1>1, <2>2 DEF RowsInv
    <3> QED
      BY <3>1
  <2> QED
    BY <2>1, <2>2
<1> HIDE DEF end
<1>3. \A k \in DOMAIN chatMessages' : chatMessages'[k] \in DOMAIN transcript'
  BY <1>1, <1>2 DEF RowsInv
<1>4. RowsClaimed'
  BY <1>1 DEF RowsInv, RowsClaimed
<1>5. (\A n : Recent(n)' <=> Recent(n)) /\ \A i : Claimed(i)' <=> Claimed(i)
  BY DEF Recent, Claimed
<1>6. ASSUME NEW n, Recent(n)
      PROVE  RecentKept(n)'
  <2>1. RecentKept(n)
    BY <1>6 DEF RowsInv
  <2>2. \A k \in DOMAIN chatMessages' : chatMessages'[k] # toolCalls[n].row
    BY <1>1, <1>2, <2>1 DEF RecentKept
  <2> QED
    BY <1>1, <1>5, <2>1, <2>2 DEF RecentKept
<1> QED
  BY <1>1, <1>2, <1>3, <1>4, <1>5, <1>6 DEF RowsInv

\* A call with its row.
LEMMA AppendedCall ==
    ASSUME RowsInv, up', UNCHANGED <<chatMessages, forgotten>>,
           NEW running \in BOOLEAN, appendToolCall(running)
    PROVE  RowsInv'
<1> DEFINE end == Len(transcript) + 1
           last == Len(toolCalls) + 1
           row == ToolRow(last)
           call == [row |-> end, running |-> running]
<1>1. row \in Rows /\ row.of = last /\ row = ToolRow(last)
  BY DEF RowsInv, Rows, ToolRow
<1>2. transcript' = Append(transcript, row)
  BY DEF appendToolCall
<1>3. /\ transcript' \in Seq(Rows) /\ DOMAIN transcript' = DOMAIN transcript \cup {end}
      /\ end \in Nat \ {0} /\ end \notin DOMAIN transcript /\ transcript'[end] = row
      /\ \A i \in DOMAIN transcript : transcript'[i] = transcript[i]
  BY <1>1, <1>2, AppendedRow
<1>4. /\ toolCalls' \in Seq(ToolCalls) /\ Len(toolCalls') = last
      /\ DOMAIN toolCalls' = DOMAIN toolCalls \cup {last} /\ last \notin DOMAIN toolCalls
      /\ toolCalls'[last].row = end
      /\ \A n \in DOMAIN toolCalls : toolCalls'[n] = toolCalls[n]
  <2>1. call \in ToolCalls
    BY <1>3 DEF ToolCalls
  <2>2. toolCalls' = Append(toolCalls, call) /\ call.row = end
    BY DEF appendToolCall
  <2> HIDE DEF call
  <2> QED
    BY <2>1, <2>2 DEF RowsInv
<1>5. forgotten' \in 0..Len(toolCalls') /\ last \notin 1..forgotten
  BY <1>4 DEF RowsInv
<1> HIDE DEF end, last, row
<1>6. \A n : Recent(n)' <=> Recent(n) \/ n = last
  BY <1>4, <1>5 DEF Recent
<1>7. \A i : Claimed(i) => Claimed(i)'
  BY <1>4, ForgottenAreCalls DEF Claimed
<1>8. RowsClaimed'
  <2> SUFFICES ASSUME NEW i \in DOMAIN transcript', transcript'[i].kind = "tool"
               PROVE  /\ transcript'[i].of \in DOMAIN toolCalls'
                      /\ toolCalls'[transcript'[i].of].row = i
    BY DEF RowsClaimed
  <2>1. CASE i = end
    BY <1>1, <1>3, <1>4, <2>1
  <2>2. CASE i \in DOMAIN transcript
    BY <1>3, <1>4, <2>2 DEF RowsInv, RowsClaimed
  <2> QED
    BY <1>3, <2>1, <2>2
<1>9. ASSUME NEW n, Recent(n)
      PROVE  RecentKept(n)'
  <2>1. /\ RecentKept(n) /\ n \in DOMAIN toolCalls /\ toolCalls'[n].row = toolCalls[n].row
    BY <1>4, <1>9 DEF RowsInv, Recent
  <2>2. \A m : Recent(m)' /\ m # n => toolCalls'[m].row # toolCalls[n].row
    BY <1>3, <1>4, <1>6, <2>1 DEF RecentKept, Recent
  <2> QED
    BY <1>3, <1>7, <2>1, <2>2 DEF RecentKept
<1>10. ASSUME NEW n, n = last
       PROVE  RecentKept(n)'
  <2>1. \A k \in DOMAIN chatMessages' : chatMessages'[k] # end
    BY <1>3 DEF RowsInv
  <2>2. \A m : Recent(m)' /\ m # last => toolCalls'[m].row # end
    BY <1>3, <1>4, <1>6 DEF RowsInv, RecentKept, Recent
  <2>3. /\ toolCalls'[n].row = end /\ transcript'[end] = ToolRow(n)
        /\ end \in DOMAIN transcript'
    BY <1>1, <1>3, <1>4, <1>10
  <2>4. \A m : Recent(m)' /\ m # n => toolCalls'[m].row # end
    BY <1>10, <2>2
  <2> QED
    BY <2>1, <2>3, <2>4 DEF RecentKept
<1>11. \A k \in DOMAIN chatMessages' : chatMessages'[k] \in DOMAIN transcript'
  BY <1>3 DEF RowsInv
<1>12. ASSUME NEW n, Recent(n)'
       PROVE  RecentKept(n)'
  <2>1. Recent(n) \/ n = last
    BY <1>6, <1>12
  <2> QED
    BY <1>9, <1>10, <2>1
<1> QED
  BY <1>3, <1>4, <1>5, <1>8, <1>11, <1>12 DEF RowsInv

\* The end of a call finds its row, or the call is one of before.
LEMMA FinishedCall ==
    ASSUME RowsInv, NEW n \in DOMAIN toolCalls, ToolFinished(n)
    PROVE  RowsInv'
<1>1. toolCalls \in Seq(ToolCalls) /\ n \in 1..Len(toolCalls) /\ toolCalls[n] \in ToolCalls
  BY DEF RowsInv
<1>2. CASE toolCalls[n].row \in DOMAIN transcript
  <2> DEFINE ended == [toolCalls[n] EXCEPT !.running = FALSE]
  <2>1. /\ transcript' = [transcript EXCEPT ![toolCalls[n].row] = ToolRow(n)]
        /\ toolCalls' = [toolCalls EXCEPT ![n] = ended]
        /\ up' /\ UNCHANGED <<chatMessages, forgotten>>
    BY <1>2 DEF ToolFinished
  <2>2. ended \in ToolCalls /\ ended.row = toolCalls[n].row
    BY <1>1 DEF ToolCalls
  <2> HIDE DEF ended
  <2>3. /\ toolCalls' \in Seq(ToolCalls) /\ Len(toolCalls') = Len(toolCalls)
        /\ \A m \in DOMAIN toolCalls : toolCalls'[m].row = toolCalls[m].row
    BY <1>1, <2>1, <2>2
  <2>4. ToolRow(n) \in Rows
    BY <1>1 DEF Rows, ToolRow
  <2>5. transcript' \in Seq(Rows) /\ Len(transcript') = Len(transcript)
    BY <1>2, <2>1, <2>4 DEF RowsInv
  <2>6. \A i \in DOMAIN transcript :
           \/ transcript'[i] = transcript[i]
           \/ toolCalls[n].row = i /\ transcript'[i] = ToolRow(n)
    BY <2>1 DEF RowsInv
  <2> QED
    BY <2>1, <2>3, <2>5, <2>6, Redrawn
<1>3. CASE toolCalls[n].row \notin DOMAIN transcript
  <2>1. ~Recent(n)
    BY <1>3 DEF RowsInv, RecentKept
  <2>2. n \in 1..forgotten
    BY <2>1 DEF Recent
  <2>3. UNCHANGED <<transcript, toolCalls, chatMessages, forgotten>>
    BY <1>3 DEF ToolFinished
  <2> QED
    BY <1>3, <2>2, <2>3 DEF RowsInv, RowsClaimed, Recent, RecentKept, Claimed
<1> QED
  BY <1>2, <1>3

\* What rerenderChatMessages makes of rows is drawn where it is claimed.
LEMMA RerenderedRows ==
    ASSUME RowsInv, NEW rows \in Seq(Rows)
    PROVE  /\ Rerendered(rows) \in Seq(Rows)
           /\ Len(Rerendered(rows)) = Len(rows)
           /\ \A i \in DOMAIN rows :
                 \/ Rerendered(rows)[i] = rows[i]
                 \/ \E k \in DOMAIN chatMessages :
                       chatMessages[k] = i /\ Rerendered(rows)[i] = ChatRow(k)
<1>1. ASSUME NEW i \in DOMAIN rows
      PROVE  /\ Rerendered(rows)[i] \in Rows
             /\ \/ Rerendered(rows)[i] = rows[i]
                \/ \E k \in DOMAIN chatMessages :
                      chatMessages[k] = i /\ Rerendered(rows)[i] = ChatRow(k)
  <2>1. CASE \E k \in DOMAIN chatMessages : chatMessages[k] = i
    <3> DEFINE message == CHOOSE k \in DOMAIN chatMessages : chatMessages[k] = i
    <3>1. message \in DOMAIN chatMessages /\ chatMessages[message] = i
      BY <2>1
    <3>2. Rerendered(rows)[i] = ChatRow(message)
      BY <2>1 DEF Rerendered
    <3> HIDE DEF message
    <3>3. ChatRow(message) \in Rows
      BY <3>1 DEF RowsInv, ChatRow, Rows
    <3> QED
      BY <3>1, <3>2, <3>3
  <2>2. CASE ~\E k \in DOMAIN chatMessages : chatMessages[k] = i
    BY <2>2 DEF Rerendered
  <2> QED
    BY <2>1, <2>2
<1>2. DOMAIN Rerendered(rows) = 1..Len(rows) /\ Len(rows) \in Nat
  BY DEF Rerendered
<1>3. Rerendered(rows) \in [1..Len(rows) -> Rows]
  BY <1>1 DEF Rerendered
<1> QED
  BY <1>1, <1>2, <1>3

LEMMA ClickedRow ==
    ASSUME RowsInv, NEW i \in DOMAIN transcript, Click(i)
    PROVE  RowsInv'
<1> DEFINE n == ToolIndex(i)
           drawn == [transcript EXCEPT ![i] = ToolRow(n)]
<1>1. n \in DOMAIN toolCalls /\ toolCalls[n].row = i
  <2>1. CallsAt(i) # {}
    BY DEF Click, ToolIndex
  <2> QED
    BY <2>1, FirstClaims DEF CallsAt
<1>2. transcript' = Rerendered(drawn) /\ up' /\ UNCHANGED <<chatMessages, toolCalls, forgotten>>
  BY DEF Click
<1> HIDE DEF n
<1>3. ToolRow(n) \in Rows
  BY <1>1 DEF RowsInv, Rows, ToolRow
<1>4. /\ drawn \in Seq(Rows) /\ Len(drawn) = Len(transcript)
      /\ DOMAIN drawn = DOMAIN transcript
      /\ \A j \in DOMAIN transcript :
            \/ drawn[j] = transcript[j]
            \/ toolCalls[n].row = j /\ drawn[j] = ToolRow(n)
  <2>1. transcript \in Seq(Rows) /\ i \in DOMAIN transcript
    BY DEF RowsInv
  <2> QED
    BY <1>1, <1>3, <2>1
<1> HIDE DEF drawn
<1>5. /\ transcript' \in Seq(Rows) /\ Len(transcript') = Len(transcript)
      /\ \A j \in DOMAIN transcript :
            \/ transcript'[j] = drawn[j]
            \/ \E k \in DOMAIN chatMessages :
                  chatMessages[k] = j /\ transcript'[j] = ChatRow(k)
  BY <1>2, <1>4, RerenderedRows
<1>6. \A j \in DOMAIN transcript :
         \/ transcript'[j] = transcript[j]
         \/ \E k \in DOMAIN chatMessages :
               chatMessages[k] = j /\ transcript'[j] = ChatRow(k)
         \/ \E m \in DOMAIN toolCalls :
               toolCalls[m].row = j /\ transcript'[j] = ToolRow(m)
  BY <1>1, <1>4, <1>5
<1>7. toolCalls' \in Seq(ToolCalls) /\ \A m \in DOMAIN toolCalls : toolCalls'[m].row = toolCalls[m].row
  BY <1>2 DEF RowsInv
<1> QED
  BY <1>2, <1>5, <1>6, <1>7, Redrawn

LEMMA RowsStep == RowsInv /\ [Next]_vars => RowsInv'
<1> SUFFICES ASSUME RowsInv, [Next]_vars
             PROVE  RowsInv'
  OBVIOUS
<1>1. ASSUME up', UNCHANGED <<toolCalls, forgotten>>, appendChatMessage
      PROVE  RowsInv'
  <2> DEFINE row == ChatRow(Len(chatMessages) + 1)
  <2>1. row \in Rows /\ row.kind # "tool"
    BY DEF RowsInv, Rows, ChatRow
  <2>2. /\ transcript' = Append(transcript, row)
        /\ chatMessages' = Append(chatMessages, Len(transcript) + 1)
    BY <1>1 DEF appendChatMessage
  <2> HIDE DEF row
  <2> QED
    BY <1>1, <2>1, <2>2, AppendedTalk
<1>2. CASE Submit
  BY <1>1, <1>2 DEF Submit, Room
<1>3. CASE TextDelta \/ UNCHANGED vars
  BY <1>3, SameRows DEF TextDelta, vars
<1>4. ASSUME NEW running \in BOOLEAN, appendToolCall(running),
             up', UNCHANGED <<chatMessages, forgotten>>
      PROVE  RowsInv'
  BY <1>4, AppendedCall
<1>5. CASE AddNote
  <2>1. Note \in Rows /\ Note.kind # "tool"
    BY DEF Note, Rows
  <2>2. transcript' = Append(transcript, Note) /\ up' /\ UNCHANGED <<chatMessages, toolCalls, forgotten>>
    BY <1>5 DEF AddNote, Room
  <2> QED
    BY <2>1, <2>2, AppendedTalk
<1>6. CASE RunDone
  <2>1. CASE streaming
    BY <1>1, <1>6, <2>1 DEF RunDone, Room
  <2>2. CASE ~streaming
    BY <1>6, <2>2, SameRows DEF RunDone
  <2> QED
    BY <2>1, <2>2
<1>7. CASE Clear
  <2>1. /\ transcript' = <<>> /\ chatMessages' = <<>> /\ forgotten' = Len(toolCalls)
        /\ toolCalls' = toolCalls /\ up'
    BY <1>7 DEF Clear
  <2>2. \A n : ~Recent(n)'
    BY <2>1 DEF Recent, RowsInv
  <2> QED
    BY <2>1, <2>2 DEF RowsInv, RowsClaimed
<1>8. CASE Resize
  <2>1. /\ transcript' = Rerendered(transcript) /\ up'
        /\ UNCHANGED <<chatMessages, toolCalls, forgotten>>
    BY <1>8 DEF Resize
  <2>2. transcript \in Seq(Rows) /\ toolCalls' \in Seq(ToolCalls)
    BY <2>1 DEF RowsInv
  <2> QED
    BY <2>1, <2>2, RerenderedRows, Redrawn
<1>9. ASSUME NEW n \in DOMAIN toolCalls, ToolFinished(n)
      PROVE  RowsInv'
  BY <1>9, FinishedCall
<1>10. ASSUME NEW i \in DOMAIN transcript, Click(i)
       PROVE  RowsInv'
  BY <1>10, ClickedRow
<1>11. CASE ToolStarted
  <2>1. appendToolCall(TRUE) /\ up' /\ UNCHANGED <<chatMessages, forgotten>>
    BY <1>11 DEF ToolStarted, Room
  <2> QED
    BY <1>4, <2>1
<1>12. CASE ToolFinishedUnknown
  <2>1. appendToolCall(FALSE) /\ up' /\ UNCHANGED <<chatMessages, forgotten>>
    BY <1>12 DEF ToolFinishedUnknown, Room
  <2> QED
    BY <1>4, <2>1
<1> QED
  BY <1>2, <1>3, <1>5, <1>6, <1>7, <1>8, <1>9, <1>10, <1>11, <1>12 DEF Next

\* Whatever frames are dropped, overtaken or late, and however often the operator
\* types /clear: a click on the row of a tool call is for the call the row shows or
\* for one of before the last /clear, the calls since then have their rows, and only
\* the end of one of before ends the program (refresh, toggleToolAt, command).
THEOREM RowsAreTheirs == PartsSpec => []ToolRowsAreTheirs
<1>1. PartsInit => RowsInv
  <2> SUFFICES ASSUME Init
               PROVE  RowsInv
    BY DEF PartsInit
  <2>1. transcript = <<>> /\ chatMessages = <<>> /\ toolCalls = <<>> /\ up /\ forgotten = 0
    BY DEF Init
  <2>2. \A n : ~Recent(n)
    BY <2>1 DEF Recent
  <2> QED
    BY <2>1, <2>2 DEF RowsInv, RowsClaimed
<1>2. RowsInv /\ [PartsNext]_partsVars => RowsInv'
  BY RowsStep DEF PartsNext, partsVars
<1> QED
  BY <1>1, <1>2, RowsFound, PTL DEF PartsSpec

-----------------------------------------------------------------------------
\* Permissions: what the rules say is followed rule by rule.

\* g tells what the first i rules say.
FollowsRules(g, rules, action, resource) ==
    /\ g[0] = "ask"
    /\ \A i \in 1..Len(rules) :
          g[i] = IF Applies(rules[i], action, resource) THEN rules[i].effect ELSE g[i - 1]
    /\ \A auto \in BOOLEAN :
          Evaluate(rules, auto, action, resource) =
              IF action = "" \/ (g[Len(rules)] = "ask" /\ auto)
              THEN "allow" ELSE g[Len(rules)]

LEMMA RulesSteps ==
    ASSUME NEW rules \in Seq(Rules), NEW action, NEW resource
    PROVE  \E g \in [0..Len(rules) -> Effects] : FollowsRules(g, rules, action, resource)
<1> DEFINE m == Len(rules)
           Says(rule, sofar) == IF Applies(rule, action, resource) THEN rule.effect ELSE sofar
           IsFold(f) == f = [s \in SUBSET DOMAIN rules |->
              IF s = {} THEN "ask" ELSE
                IF Applies(rules[Max(s)], action, resource)
                THEN rules[Max(s)].effect ELSE f[s \ {Max(s)}]]
           fold == CHOOSE f : IsFold(f)
           advance == [pair \in (1..m) \X Effects |-> Says(rules[pair[1]], pair[2])]
<1>1. m \in Nat /\ DOMAIN rules = 1..m /\ \A i \in 1..m : rules[i] \in Rules
  BY LenProperties, ElementOfSeq
<1>2. \A auto \in BOOLEAN :
        Evaluate(rules, auto, action, resource) =
            IF action = "" \/ (fold[DOMAIN rules] = "ask" /\ auto)
            THEN "allow" ELSE fold[DOMAIN rules]
  BY DEF Evaluate, FoldLeft, MapThenFoldSet
<1>3. \A sofar \in Effects, i \in 1..m : Says(rules[i], sofar) \in Effects
  BY <1>1 DEF Rules
<1>4. advance \in [(1..m) \X Effects -> Effects] /\ "ask" \in Effects
  BY <1>3 DEF Effects
<1> HIDE DEF m
<1>5. PICK f \in [SUBSET (1..m) -> Effects] : LeftFold(f, m, "ask", advance)
  <2> HIDE DEF advance
  <2> QED
    BY <1>1, <1>4, LeftFoldExists
<1>6. f = [s \in SUBSET (1..m) |->
              IF s = {} THEN "ask" ELSE Says(rules[Max(s)], f[s \ {Max(s)}])]
  <2>1. ASSUME NEW s \in SUBSET (1..m), s # {}
        PROVE  advance[<<Max(s), f[s \ {Max(s)}]>>] = Says(rules[Max(s)], f[s \ {Max(s)}])
    <3>1. Max(s) \in 1..m
      BY <1>1, <2>1, MaxIs
    <3>2. f[s \ {Max(s)}] \in Effects
      BY <1>5
    <3> QED
      BY <3>1, <3>2
  <2> HIDE DEF advance, Says
  <2> QED
    BY <1>5, <2>1 DEF LeftFold
<1>7. IsFold(f)
  BY <1>1, <1>6
<1>8. IsFold(fold)
  <2> HIDE DEF IsFold
  <2> QED
    BY <1>7
<1> HIDE DEF advance
<1>9. fold = [s \in SUBSET (1..m) |->
              IF s = {} THEN "ask" ELSE Says(rules[Max(s)], fold[s \ {Max(s)}])]
  BY <1>1, <1>8
<1> HIDE DEF fold, Says
<1> DEFINE g == [i \in 0..m |-> fold[1..i]]
<1>10. g[0] = "ask"
  BY <1>1, <1>9
<1>11. ASSUME NEW i \in 1..m PROVE g[i] = Says(rules[i], g[i - 1])
  <2>1. 1..i \in SUBSET (1..m) /\ 1..i # {} /\ (1..i) \ {i} = 1..(i - 1) /\ i - 1 \in 0..m
    <3>1. (1..i) \ {i} = 1..(i - 1)
      BY <1>1
    <3>2. 1..i \subseteq 1..m /\ i \in 1..i /\ i - 1 \in 0..m
      BY <1>1
    <3> QED
      BY <3>1, <3>2
  <2>2. Max(1..i) = i
    BY <1>1, MaxOfInterval
  <2>3. fold[1..i] = Says(rules[i], fold[(1..i) \ {i}])
    BY <1>9, <2>1, <2>2
  <2>4. g[i] = fold[1..i] /\ g[i - 1] = fold[1..(i - 1)]
    BY <1>1, <2>1
  <2> QED
    BY <2>1, <2>3, <2>4
<1>12. g[m] = fold[DOMAIN rules]
  BY <1>1
<1> HIDE DEF g
<1>13. \A i \in 0..m : g[i] \in Effects
  <2> DEFINE T == {i \in 0..m : g[i] \in Effects}
  <2>1. 0 \in T
    BY <1>1, <1>4, <1>10
  <2>2. \A n \in 0..(m - 1) : n \in T => n + 1 \in T
    BY <1>1, <1>3, <1>11
  <2> HIDE DEF T
  <2>3. 0..m \subseteq T
    BY <1>1, <2>1, <2>2, IntervalInduction
  <2> QED
    BY <2>3 DEF T
<1>14. g \in [0..m -> Effects]
  BY <1>13 DEF g
<1> QED
  BY <1>2, <1>10, <1>11, <1>12, <1>14 DEF m, Says, FollowsRules

\* The last rule that applies decides, and "ask" when there is none.
StatedBy(rules, action, resource) ==
    LET spoken == {i \in DOMAIN rules : Applies(rules[i], action, resource)}
    IN  IF spoken = {} THEN "ask" ELSE rules[Max(spoken)].effect

LEMMA LastRuleDecides ==
    ASSUME NEW rules \in Seq(Rules), NEW action, NEW resource, NEW auto \in BOOLEAN
    PROVE  Evaluate(rules, auto, action, resource) =
              IF action = "" \/ (StatedBy(rules, action, resource) = "ask" /\ auto)
              THEN "allow" ELSE StatedBy(rules, action, resource)
<1> DEFINE m == Len(rules)
           Spoken(n) == {i \in 1..n : Applies(rules[i], action, resource)}
           Stated(n) == IF Spoken(n) = {} THEN "ask" ELSE rules[Max(Spoken(n))].effect
<1>1. m \in Nat /\ DOMAIN rules = 1..m
  BY LenProperties
<1>2. PICK g \in [0..Len(rules) -> Effects] : FollowsRules(g, rules, action, resource)
  BY RulesSteps
<1>3. /\ g[0] = "ask"
      /\ \A i \in 1..m : g[i] = IF Applies(rules[i], action, resource)
                                THEN rules[i].effect ELSE g[i - 1]
      /\ Evaluate(rules, auto, action, resource) =
             IF action = "" \/ (g[m] = "ask" /\ auto) THEN "allow" ELSE g[m]
  BY <1>2 DEF FollowsRules
<1> DEFINE T == {n \in 0..m : g[n] = Stated(n)}
<1> HIDE DEF m
<1>4. 0 \in T
  <2>1. Spoken(0) = {} /\ 0 \in 0..m
    BY <1>1
  <2> QED
    BY <1>3, <2>1
<1>5. ASSUME NEW n \in 0..(m - 1), n \in T PROVE n + 1 \in T
  <2>1. n + 1 \in 1..m /\ n \in 0..m /\ n + 1 \in 0..m /\ (n + 1) - 1 = n /\ n \in Nat
    BY <1>1
  <2>2. CASE Applies(rules[n + 1], action, resource)
    <3>1. Spoken(n + 1) \subseteq 1..(n + 1) /\ n + 1 \in Spoken(n + 1)
      BY <2>1, <2>2
    <3>2. Max(Spoken(n + 1)) = n + 1
      <4> HIDE DEF Spoken
      <4>1. /\ Max(Spoken(n + 1)) \in Spoken(n + 1)
            /\ \A x \in Spoken(n + 1) : x =< Max(Spoken(n + 1))
        BY <2>1, <3>1, MaxIs
      <4> QED
        BY <2>1, <3>1, <4>1
    <3> QED
      BY <1>3, <2>1, <2>2, <3>1, <3>2
  <2>3. CASE ~Applies(rules[n + 1], action, resource)
    <3>1. Spoken(n + 1) = Spoken(n)
      BY <2>1, <2>3
    <3> QED
      BY <1>3, <1>5, <2>1, <2>3, <3>1
  <2> QED
    BY <2>2, <2>3
<1>6. m \in T
  <2> HIDE DEF T
  <2>1. 0..m \subseteq T
    BY <1>1, <1>4, <1>5, IntervalInduction
  <2> QED
    BY <1>1, <2>1
<1>7. Stated(m) = StatedBy(rules, action, resource)
  <2>1. Spoken(m) = {i \in DOMAIN rules : Applies(rules[i], action, resource)}
    BY <1>1
  <2> QED
    BY <2>1 DEF StatedBy
<1> QED
  BY <1>3, <1>6, <1>7

-----------------------------------------------------------------------------
\* Publication: what git is told to do is read word by word, from the last.

IsSubcommandFrom(from, argv) ==
    from = [i \in 2..(Len(argv) + 2) |->
              IF i > Len(argv) THEN ""
              ELSE IF argv[i] \in gitGlobalFlagsWithValue THEN from[i + 2]
              ELSE IF argv[i] \in OtherGitFlags THEN from[i + 1]
              ELSE argv[i]]

LEMMA SubcommandSteps ==
    ASSUME NEW argv \in Seq(Words), argv # <<>>
    PROVE  \E from : IsSubcommandFrom(from, argv) /\ gitSubcommand(argv) = from[2]
<1> DEFINE n == Len(argv)
           Some == Words \cup {""}
           Pairs == Some \X Some
           Word(k, two) ==
              IF n + 2 - k > n THEN ""
              ELSE IF argv[n + 2 - k] \in gitGlobalFlagsWithValue THEN two[2]
              ELSE IF argv[n + 2 - k] \in OtherGitFlags THEN two[1]
              ELSE argv[n + 2 - k]
           \* the answers from two neighbouring words on
           advance == [pair \in (1..n) \X Pairs |->
                          <<Word(pair[1], pair[2]), pair[2][1]>>]
<1>1. n \in Nat /\ n >= 1 /\ \A i \in 1..n : argv[i] \in Words
  BY EmptySeq, LenProperties, ElementOfSeq
<1> HIDE DEF n
<1>0. /\ \A two \in Pairs : two[1] \in Some /\ two[2] \in Some
      /\ \A one, other \in Some :
            LET two == <<one, other>>
            IN  two \in Pairs /\ two[1] = one /\ two[2] = other
  OBVIOUS
<1> HIDE DEF Pairs
<1>2. \A k \in 1..n, two \in Pairs : Word(k, two) \in Some
  <2> SUFFICES ASSUME NEW k \in 1..n, NEW two \in Pairs
               PROVE  Word(k, two) \in Some
    OBVIOUS
  <2>1. n + 2 - k > n \/ n + 2 - k \in 1..n
    BY <1>1
  <2>2. two[1] \in Some /\ two[2] \in Some
    BY <1>0
  <2> QED
    BY <1>1, <2>1, <2>2
<1> HIDE DEF Word, Some
<1>3. advance \in [(1..n) \X Pairs -> Pairs]
  BY <1>0, <1>2
<1>4. <<"", "">> \in Pairs
  BY <1>0 DEF Some
<1>5. PICK h \in [0..n -> Pairs] : Recursion(h, n, <<"", "">>, advance)
  <2> HIDE DEF advance
  <2> QED
    BY <1>1, <1>3, <1>4, RecursionExists
<1>6. /\ h[0][1] = "" /\ h[0][2] = ""
      /\ \A k \in 1..n : h[k][1] = Word(k, h[k - 1]) /\ h[k][2] = h[k - 1][1]
  <2>1. h[0][1] = "" /\ h[0][2] = ""
    <3>1. h[0] = <<"", "">> /\ "" \in Some
      BY <1>5 DEF Recursion, Some
    <3> QED
      BY <1>0, <3>1
  <2>2. ASSUME NEW k \in 1..n
        PROVE  h[k][1] = Word(k, h[k - 1]) /\ h[k][2] = h[k - 1][1]
    <3>1. k - 1 \in 0..n
      BY <1>1
    <3>2. h[k - 1] \in Pairs
      BY <1>5, <3>1
    <3>3. h[k] = <<Word(k, h[k - 1]), h[k - 1][1]>>
      BY <1>5, <3>2 DEF Recursion
    <3>4. Word(k, h[k - 1]) \in Some /\ h[k - 1][1] \in Some
      BY <1>0, <1>2, <3>2
    <3> HIDE DEF advance
    <3> QED
      BY <1>0, <3>3, <3>4
  <2> QED
    BY <2>1, <2>2
<1> HIDE DEF advance
<1> DEFINE from == [i \in 2..(n + 2) |-> h[n + 2 - i][1]]
<1>7. ASSUME NEW i \in 2..(n + 2)
      PROVE  from[i] = IF i > n THEN ""
                       ELSE IF argv[i] \in gitGlobalFlagsWithValue THEN from[i + 2]
                       ELSE IF argv[i] \in OtherGitFlags THEN from[i + 1]
                       ELSE argv[i]
  <2> DEFINE k == n + 2 - i
  <2>1. k \in 0..n /\ n + 2 - k = i /\ from[i] = h[k][1]
    BY <1>1
  <2>0. /\ k = 0 => i > n
        /\ k = 1 => i > n /\ 1 \in 1..n
    BY <1>1
  <2> HIDE DEF k, from
  <2>2. CASE k = 0
    BY <1>6, <2>0, <2>1, <2>2
  <2>3. CASE k = 1
    <3>1. h[1][1] = Word(1, h[1 - 1]) /\ n + 2 - 1 = i
      BY <1>6, <2>0, <2>1, <2>3
    <3>2. Word(1, h[1 - 1]) = ""
      BY <2>0, <2>3, <3>1 DEF Word
    <3> QED
      BY <2>0, <2>1, <2>3, <3>1, <3>2
  <2>4. CASE k >= 2
    <3>1. /\ k \in 1..n /\ k - 1 \in 1..n /\ i =< n
          /\ i + 1 \in 2..(n + 2) /\ i + 2 \in 2..(n + 2)
          /\ n + 2 - (i + 1) = k - 1 /\ n + 2 - (i + 2) = (k - 1) - 1
      BY <1>1, <2>1, <2>4
    <3>2. from[i + 1] = h[k - 1][1] /\ from[i + 2] = h[(k - 1) - 1][1]
      BY <3>1 DEF from
    <3>3. h[k - 1][2] = from[i + 2]
      BY <1>6, <3>1, <3>2
    <3>4. h[k][1] = Word(k, h[k - 1])
      BY <1>6, <3>1
    <3>5. ~(i > n)
      BY <1>1, <3>1
    <3>6. Word(k, h[k - 1]) = IF argv[i] \in gitGlobalFlagsWithValue THEN from[i + 2]
                              ELSE IF argv[i] \in OtherGitFlags THEN from[i + 1]
                              ELSE argv[i]
      BY <2>1, <3>2, <3>3, <3>5 DEF Word
    <3> QED
      BY <2>1, <3>4, <3>5, <3>6
  <2>5. k = 0 \/ k = 1 \/ k >= 2
    BY <2>1
  <2> QED
    BY <2>2, <2>3, <2>4, <2>5
<1>8. IsSubcommandFrom(from, argv)
  BY <1>7 DEF IsSubcommandFrom, n
<1> DEFINE chosen == CHOOSE f : IsSubcommandFrom(f, argv)
<1>9. IsSubcommandFrom(chosen, argv)
  <2> HIDE DEF from
  <2> QED
    BY <1>8
<1>10. gitSubcommand(argv) = chosen[2]
  BY DEF gitSubcommand, IsSubcommandFrom
<1> QED
  BY <1>9, <1>10

\* The options of git that are one word, and the one that takes the next.
LEMMA UnitsAt ==
    ASSUME NEW argv \in Seq(Words), NEW j \in 2..Len(argv), NEW k \in 2..Len(argv)
    PROVE  SubSeq(argv, j, k - 1) \in OptionUnits <=>
              \/ k = j + 1 /\ argv[j] \in OtherGitFlags
              \/ k = j + 2 /\ argv[j] \in gitGlobalFlagsWithValue
<1> DEFINE n == Len(argv)
           between == SubSeq(argv, j, k - 1)
<1>1. n \in Nat /\ \A i \in 1..n : argv[i] \in Words
  BY LenProperties, ElementOfSeq
<1>2. /\ between \in Seq(Words)
      /\ Len(between) = IF j =< k - 1 THEN k - j ELSE 0
      /\ \A i \in 1..Len(between) : between[i] = argv[j + i - 1]
  BY <1>1
<1>3. j \in Nat /\ k \in Nat /\ j + 1 - 1 = j /\ j + 2 - 1 = j + 1
  BY <1>1
<1> HIDE DEF between
<1>4. ASSUME k = j + 1 PROVE between = <<argv[j]>>
  BY <1>2, <1>3, <1>4
<1>5. ASSUME k = j + 2 PROVE between = <<argv[j], argv[j + 1]>> /\ argv[j + 1] \in Words
  BY <1>1, <1>2, <1>3, <1>5
<1>6. ASSUME between \in OptionUnits PROVE k = j + 1 \/ k = j + 2
  <2>1. Len(between) \in {1, 2}
    BY <1>6 DEF OptionUnits
  <2> QED
    BY <1>2, <1>3, <2>1
<1>7. argv[j] \in Words
  BY <1>1
<1>8. ASSUME k = j + 1
      PROVE  between \in OptionUnits <=> argv[j] \in OtherGitFlags
  BY <1>4, <1>7, <1>8 DEF OptionUnits, OtherGitFlags
<1>9. ASSUME k = j + 2
      PROVE  between \in OptionUnits <=> argv[j] \in gitGlobalFlagsWithValue
  <2>1. argv[j] \in gitGlobalFlagsWithValue <=> argv[j] = "-C"
    BY <1>7 DEF gitGlobalFlagsWithValue, Words
  <2>2. between = <<argv[j], argv[j + 1]>> /\ argv[j + 1] \in Words
    BY <1>5, <1>9
  <2>3. between # <<"--no-pager">> /\ between # <<"--git-dir=other">>
    BY <2>2
  <2>4. \A word \in Words : between = <<"-C", word>> => argv[j] = "-C"
    BY <2>2
  <2>5. argv[j] = "-C" => between = <<"-C", argv[j + 1]>>
    BY <2>2
  <2> QED
    BY <2>1, <2>2, <2>3, <2>4, <2>5 DEF OptionUnits
<1> QED
  BY <1>3, <1>6, <1>8, <1>9 DEF between

\* A push is found behind options only, and behind any of them.
LEMMA PushIsFound ==
    ASSUME input \in Seq(Words), input # <<>>
    PROVE  gitSubcommand(input) = "push"
              <=> \E i \in 2..Len(input) : input[i] = "push" /\ BehindOptions(i)
<1> DEFINE n == Len(input)
<1>1. PICK from : IsSubcommandFrom(from, input) /\ gitSubcommand(input) = from[2]
  BY SubcommandSteps
<1>2. n \in Nat /\ n >= 1
  BY EmptySeq, LenProperties
<1>3. /\ \A i \in 2..n :
            from[i] = IF input[i] \in gitGlobalFlagsWithValue THEN from[i + 2]
                      ELSE IF input[i] \in OtherGitFlags THEN from[i + 1]
                      ELSE input[i]
      /\ from[n + 1] = "" /\ from[n + 2] = ""
  <2>1. \A i \in 2..(n + 2) :
            from[i] = IF i > n THEN ""
                      ELSE IF input[i] \in gitGlobalFlagsWithValue THEN from[i + 2]
                      ELSE IF input[i] \in OtherGitFlags THEN from[i + 1]
                      ELSE input[i]
    BY <1>1 DEF IsSubcommandFrom
  <2> HIDE DEF n
  <2>2. /\ n + 1 \in 2..(n + 2) /\ n + 1 > n /\ n + 2 \in 2..(n + 2) /\ n + 2 > n
        /\ \A i \in 2..n : i \in 2..(n + 2) /\ ~(i > n)
    BY <1>2
  <2> QED
    BY <2>1, <2>2
<1> HIDE DEF n
<1>4. ASSUME from[2] = "push"
      PROVE  \E i \in 2..n : input[i] = "push" /\ BehindOptions(i)
  <2> DEFINE Led(i) ==
                \E p \in 2..n : \E begins \in SUBSET (i..p) :
                    /\ input[p] = "push" /\ {i, p} \subseteq begins
                    /\ \A j \in begins \ {p} : \E k \in begins :
                           SubSeq(input, j, k - 1) \in OptionUnits
             \* the words from which it is found, counted from the end
             T == {d \in 0..n : \A i \in 2..(n + 2) :
                        n + 2 - d =< i /\ from[i] = "push" => Led(i)}
  <2>1. 0 \in T
    <3>1. \A i \in 2..(n + 2) : n + 2 - 0 =< i => i = n + 2
      BY <1>2
    <3>2. 0 \in 0..n
      BY <1>2
    <3>3. from[n + 2] # "push"
      BY <1>3
    <3> HIDE DEF Led
    <3> QED
      BY <3>1, <3>2, <3>3
  <2>2. ASSUME NEW d \in 0..(n - 1), d \in T PROVE d + 1 \in T
    <3>1. SUFFICES ASSUME NEW i \in 2..(n + 2), i = n + 2 - (d + 1), from[i] = "push"
                   PROVE  Led(i)
      <4>1. \A i \in 2..(n + 2) :
                n + 2 - (d + 1) =< i => n + 2 - d =< i \/ i = n + 2 - (d + 1)
        BY <1>2
      <4>2. d + 1 \in 0..n
        BY <1>2
      <4> HIDE DEF Led
      <4> QED
        BY <2>2, <4>1, <4>2
    <3>2. i \in 2..n
      <4>1. i # n + 1 /\ i # n + 2
        BY <1>3, <3>1
      <4> QED
        BY <1>2, <4>1
    <3>3. /\ i + 1 \in 2..(n + 2) /\ n + 2 - d =< i + 1
          /\ i + 2 \in 2..(n + 2) /\ n + 2 - d =< i + 2
      BY <1>2, <3>1, <3>2
    <3>4. ASSUME NEW k \in {i + 1, i + 2}, from[k] = "push",
                 k = i + 1 => input[i] \in OtherGitFlags,
                 k = i + 2 => input[i] \in gitGlobalFlagsWithValue
          PROVE  Led(i)
      <4>1. Led(k)
        <5> HIDE DEF Led
        <5> QED
          BY <2>2, <3>3, <3>4
      <4>2. PICK p \in 2..n : \E begins \in SUBSET (k..p) :
               /\ input[p] = "push" /\ {k, p} \subseteq begins
               /\ \A j \in begins \ {p} : \E next \in begins :
                      SubSeq(input, j, next - 1) \in OptionUnits
        BY <4>1
      <4>3. PICK begins \in SUBSET (k..p) :
               /\ input[p] = "push" /\ {k, p} \subseteq begins
               /\ \A j \in begins \ {p} : \E next \in begins :
                      SubSeq(input, j, next - 1) \in OptionUnits
        BY <4>2
      <4>4. i < k /\ k =< p /\ k \in 2..n
        BY <1>2, <3>2, <4>3
      <4>5. SubSeq(input, i, k - 1) \in OptionUnits
        BY <3>2, <3>4, <4>4, UnitsAt DEF n
      <4> DEFINE more == begins \cup {i}
      <4>6. more \in SUBSET (i..p) /\ {i, p} \subseteq more
        BY <3>2, <4>3, <4>4
      <4>7. \A j \in more \ {p} : \E next \in more :
                SubSeq(input, j, next - 1) \in OptionUnits
        BY <4>3, <4>5
      <4> HIDE DEF more
      <4> QED
        BY <4>3, <4>6, <4>7
    <3>5. CASE input[i] \in gitGlobalFlagsWithValue
      <4>1. from[i + 2] = "push"
        BY <1>3, <3>1, <3>2, <3>5
      <4>2. i + 2 # i + 1
        BY <3>2
      <4> HIDE DEF Led
      <4> QED
        BY <3>4, <3>5, <4>1, <4>2
    <3>6. CASE input[i] \notin gitGlobalFlagsWithValue /\ input[i] \in OtherGitFlags
      <4>1. from[i + 1] = "push"
        BY <1>3, <3>1, <3>2, <3>6
      <4>2. i + 2 # i + 1
        BY <3>2
      <4> HIDE DEF Led
      <4> QED
        BY <3>4, <3>6, <4>1, <4>2
    <3>7. CASE input[i] \notin gitGlobalFlagsWithValue \cup OtherGitFlags
      <4>1. input[i] = "push"
        BY <1>3, <3>1, <3>2, <3>7
      <4>2. {i} \in SUBSET (i..i)
        BY <3>2
      <4> QED
        BY <3>2, <4>1, <4>2
    <3> QED
      BY <3>5, <3>6, <3>7
  <2>3. n \in T
    <3> HIDE DEF T
    <3>1. 0..n \subseteq T
      BY <1>2, <2>1, <2>2, IntervalInduction
    <3> QED
      BY <1>2, <3>1
  <2>4. Led(2)
    <3>1. 2 \in 2..(n + 2) /\ n + 2 - n =< 2
      BY <1>2
    <3> HIDE DEF Led
    <3> QED
      BY <1>4, <2>3, <3>1
  <2> QED
    BY <2>4 DEF BehindOptions
<1>5. ASSUME NEW p \in 2..n, input[p] = "push", BehindOptions(p)
      PROVE  from[2] = "push"
  <2>1. PICK begins \in SUBSET (2..p) :
           /\ {2, p} \subseteq begins
           /\ \A j \in begins \ {p} : \E k \in begins :
                  SubSeq(input, j, k - 1) \in OptionUnits
    BY <1>5 DEF BehindOptions
  <2> DEFINE others == {j \in begins : from[j] # "push"}
  <2>2. SUFFICES ASSUME others # {} PROVE FALSE
    BY <2>1
  <2>3. PICK j \in others : \A k \in others : k =< j
    <3>1. others \subseteq 0..n
      <4>1. others \subseteq 2..p
        OBVIOUS
      <4>2. 2..p \subseteq 0..n
        BY <1>2
      <4> QED
        BY <4>1, <4>2
    <3> HIDE DEF others
    <3> QED
      BY <1>2, <2>2, <3>1, GreatestElement
  <2>4. j # p
    BY <1>5, <1>3 DEF gitGlobalFlagsWithValue, OtherGitFlags
  <2>5. PICK k \in begins : SubSeq(input, j, k - 1) \in OptionUnits
    BY <2>1, <2>4
  <2>6. j \in 2..n /\ k \in 2..n
    BY <1>2, <2>1
  <2>7. \/ k = j + 1 /\ input[j] \in OtherGitFlags
        \/ k = j + 2 /\ input[j] \in gitGlobalFlagsWithValue
    BY <2>5, <2>6, UnitsAt DEF n
  <2>8. from[j] = from[k]
    <3>1. input[j] \in OtherGitFlags => input[j] \notin gitGlobalFlagsWithValue
      BY DEF OtherGitFlags, gitGlobalFlagsWithValue
    <3> QED
      BY <1>3, <2>6, <2>7, <3>1
  <2>9. k > j
    BY <2>6, <2>7
  <2> QED
    BY <2>3, <2>6, <2>8, <2>9
<1> QED
  BY <1>1, <1>4, <1>5 DEF n
-----------------------------------------------------------------------------
\* Authority: what every way into a mode and a stage leaves behind.

Sessions ==
    [agentFor : [Roles -> Agents \cup {""}], defined : SUBSET Agents,
     selected : Agents \cup {""}, explicit : BOOLEAN, governed : BOOLEAN,
     stage : BuiltinStates \cup {""}, actor : Agents \cup {""},
     rules : Agents \cup {"", "plain"}, prompt : Agents \cup {"", "plain", "governed"}]

\* The authority of a session fits its mode and stage.
Fits(s) ==
    IF s.governed
    THEN Owner(s) \in s.defined =>
            s.actor = Owner(s) /\ s.rules = Owner(s) /\ s.prompt = Owner(s)
    ELSE /\ s.rules = IF s.explicit THEN s.selected ELSE "plain"
         /\ s.prompt = s.rules

\* Before its first prompt a session is not governed.
Authorized(s) ==
    /\ s \in Sessions
    /\ s.explicit => s.selected # ""
    /\ IF s.prompt = "" THEN ~s.governed ELSE Fits(s)

LEMMA OwnerType ==
    ASSUME NEW s \in Sessions
    PROVE  Owner(s) \in Agents \cup {""}
<1>1. ActingRole(s.stage) \in Roles
  BY DEF ActingRole, RoleForState, Roles
<1> QED
  BY <1>1 DEF Owner, Sessions

\* An owner that is defined acts, and brings its rules and its prompt.
LEMMA GovernedFits ==
    ASSUME NEW s \in Sessions, s.governed, s.explicit => s.selected # "",
           s.stage # ""
    PROVE  Authorized(Prompted(syncActor(s)))
<1> DEFINE synced == syncActor(s)
<1>1. /\ synced \in Sessions
      /\ synced.governed /\ synced.explicit = s.explicit /\ synced.selected = s.selected
      /\ synced.agentFor = s.agentFor /\ synced.defined = s.defined
      /\ synced.stage = s.stage
      /\ Owner(s) \in s.defined => synced.actor = Owner(s) /\ synced.rules = Owner(s)
  <2>1. CASE Owner(s) = ""
    <3>1. synced = s /\ Owner(s) \notin s.defined
      BY <2>1, PartsAssumption DEF syncActor, Sessions
    <3> QED
      BY <3>1
  <2>2. CASE Owner(s) # ""
    <3>1. synced = [s EXCEPT !.actor = Owner(s),
                             !.rules = IF Owner(s) \in s.defined THEN Owner(s) ELSE s.rules]
      BY <2>2 DEF syncActor, HasTask
    <3> QED
      BY <3>1, OwnerType DEF Sessions
  <2> QED
    BY <2>1, <2>2
<1> HIDE DEF synced
<1>2. Owner(synced) = Owner(s)
  BY <1>1 DEF Owner
<1>3. /\ systemPrompt(synced) \in Agents \cup {"governed"}
      /\ synced.actor \in synced.defined => systemPrompt(synced) = synced.actor
  BY <1>1 DEF systemPrompt, Sessions
<1> DEFINE prompted == Prompted(synced)
<1>4. /\ prompted \in Sessions /\ prompted.prompt = systemPrompt(synced)
      /\ prompted.governed /\ prompted.explicit = s.explicit /\ prompted.selected = s.selected
      /\ prompted.agentFor = s.agentFor /\ prompted.defined = s.defined
      /\ prompted.stage = s.stage /\ prompted.actor = synced.actor
      /\ prompted.rules = synced.rules
  BY <1>1, <1>3 DEF Prompted, Sessions
<1> HIDE DEF prompted
<1>5. Owner(prompted) = Owner(s)
  BY <1>4 DEF Owner
<1>6. prompted.prompt # ""
  BY <1>3, <1>4, PartsAssumption
<1>7. Authorized(prompted)
  BY <1>1, <1>3, <1>4, <1>5, <1>6 DEF Authorized, Fits
<1> QED
  BY <1>7 DEF prompted, synced

\* Plain mode leaves nothing of a stage.
LEMMA PlainFits ==
    ASSUME NEW s \in Sessions, ~s.governed, s.explicit => s.selected # ""
    PROVE  Authorized(Prompted(applyPlainPermissions(s)))
<1> DEFINE authority == IF s.explicit THEN s.selected ELSE "plain"
           plain == applyPlainPermissions(s)
           prompted == Prompted(plain)
<1>1. authority \in Agents \cup {"plain"} /\ authority # ""
  BY PartsAssumption DEF Sessions
<1>2. /\ plain \in Sessions /\ plain.rules = authority /\ ~plain.governed
      /\ plain.explicit = s.explicit /\ plain.selected = s.selected
  BY <1>1 DEF applyPlainPermissions, Sessions
<1> HIDE DEF plain
<1>3. systemPrompt(plain) = authority
  BY <1>2 DEF systemPrompt, Sessions
<1> HIDE DEF authority
<1>4. /\ prompted \in Sessions /\ prompted.rules = authority /\ ~prompted.governed
      /\ prompted.prompt = authority
      /\ prompted.explicit = s.explicit /\ prompted.selected = s.selected
  BY <1>1, <1>2, <1>3 DEF Prompted, Sessions
<1> HIDE DEF prompted
<1>5. Authorized(prompted)
  BY <1>1, <1>4 DEF Authorized, Fits, authority
<1> QED
  BY <1>5 DEF prompted, plain

LEMMA AuthorityStep ==
    ASSUME Authorized(input), Authorize
    PROVE  Authorized(input')
<1>1. input \in Sessions /\ (input.explicit => input.selected # "")
  BY DEF Authorized
<1>2. "" \notin BuiltinStates
  BY DEF BuiltinStates
<1>3. ASSUME NEW stage \in BuiltinStates
      PROVE  LET s == [input EXCEPT !.governed = TRUE, !.stage = stage]
             IN  /\ s \in Sessions /\ s.governed /\ s.stage # ""
                 /\ s.explicit => s.selected # ""
  BY <1>1, <1>2 DEF Sessions
<1>4. ASSUME NEW stage \in BuiltinStates, input' = StartGoverned(input, stage)
      PROVE  Authorized(input')
  BY <1>3, <1>4, GovernedFits DEF StartGoverned
<1>5. CASE input.prompt = "" /\ input' = StartPlain(input)
  BY <1>1, <1>5, PlainFits DEF Authorized, StartPlain
<1>6. ASSUME NEW opening \in {"planning", "implementing"}, input' = SwitchOn(input, opening)
      PROVE  Authorized(input')
  <2> DEFINE s == [input EXCEPT !.governed = TRUE,
                                !.stage = IF @ = "" THEN opening ELSE @]
  <2>1. opening \in BuiltinStates
    BY DEF BuiltinStates
  <2>2. s \in Sessions /\ s.governed /\ s.stage # "" /\ (s.explicit => s.selected # "")
    BY <1>1, <1>2, <2>1 DEF Sessions
  <2> HIDE DEF s
  <2>3. Authorized(Prompted(syncActor(s)))
    BY <2>2, GovernedFits
  <2> QED
    BY <1>6, <2>3 DEF SwitchOn, s
<1>7. CASE input' = SwitchOff(input)
  <2> DEFINE s == [input EXCEPT !.governed = FALSE]
  <2>1. s \in Sessions /\ ~s.governed /\ (s.explicit => s.selected # "")
    BY <1>1 DEF Sessions
  <2> HIDE DEF s
  <2>2. Authorized(Prompted(applyPlainPermissions(s)))
    BY <2>1, PlainFits
  <2> QED
    BY <1>7, <2>2 DEF SwitchOff, s
<1>8. ASSUME NEW stage \in BuiltinStates, input.governed, input' = Follow(input, stage)
      PROVE  Authorized(input')
  <2> DEFINE s == [input EXCEPT !.stage = stage]
  <2>1. s \in Sessions /\ s.governed /\ s.stage # "" /\ (s.explicit => s.selected # "")
    BY <1>1, <1>2, <1>8 DEF Sessions
  <2> HIDE DEF s
  <2>2. Authorized(Prompted(syncActor(s)))
    BY <2>1, GovernedFits
  <2> QED
    BY <1>8, <2>2 DEF Follow, s
<1>9. CASE input.prompt # "" /\ input' = Resync(input)
  <2>1. CASE ~input.governed \/ Owner(input) = ""
    <3>1. input' = input
      BY <1>9, <2>1 DEF Resync, syncActor
    <3> QED
      BY <3>1
  <2>2. CASE input.governed /\ Owner(input) # "" /\ input.stage = ""
    <3>1. input' = input
      BY <1>9, <2>2 DEF Resync, syncActor, HasTask
    <3> QED
      BY <3>1
  <2>3. CASE input.governed /\ Owner(input) # "" /\ input.stage # ""
    <3>1. input' = [input EXCEPT !.actor = Owner(input),
                        !.rules = IF Owner(input) \in input.defined THEN Owner(input)
                                  ELSE input.rules]
      BY <1>9, <2>3 DEF Resync, syncActor, HasTask
    <3>2. /\ input' \in Sessions /\ input'.governed /\ input'.prompt = input.prompt
          /\ input'.explicit = input.explicit /\ input'.selected = input.selected
          /\ input'.agentFor = input.agentFor /\ input'.defined = input.defined
          /\ input'.stage = input.stage
          /\ Owner(input) \in input.defined =>
                input'.actor = Owner(input) /\ input'.rules = Owner(input)
      BY <1>1, <2>3, <3>1, OwnerType DEF Sessions
    <3>3. Owner(input') = Owner(input)
      BY <3>2 DEF Owner
    <3>4. Owner(input) \in input.defined => input.prompt = Owner(input)
      BY <1>9, <2>3 DEF Authorized, Fits
    <3> QED
      BY <1>1, <1>9, <3>2, <3>3, <3>4 DEF Authorized, Fits
  <2> QED
    BY <2>1, <2>2, <2>3
<1> QED
  BY <1>4, <1>5, <1>6, <1>7, <1>8, <1>9 DEF Authorize

-----------------------------------------------------------------------------
\* What is chosen of a list.

IsChoice(f, seq, places) ==
    f = [n \in 0..Len(seq) |->
            IF n = 0 THEN <<>>
            ELSE IF n \in places THEN Append(f[n - 1], seq[n])
            ELSE f[n - 1]]

\* f[n] is what is chosen of the first n elements.
Chooses(f, S, seq, places) ==
    /\ f \in [0..Len(seq) -> Seq(S)]
    /\ f[0] = <<>>
    /\ \A n \in 1..Len(seq) :
          f[n] = IF n \in places THEN Append(f[n - 1], seq[n]) ELSE f[n - 1]
    /\ Chosen(seq, places) = f[Len(seq)]

LEMMA ChoiceSteps ==
    ASSUME NEW S, NEW seq \in Seq(S), NEW places
    PROVE  \E f : Chooses(f, S, seq, places)
<1> DEFINE m == Len(seq)
           advance == [pair \in (1..m) \X Seq(S) |->
              IF pair[1] \in places THEN Append(pair[2], seq[pair[1]]) ELSE pair[2]]
<1>1. m \in Nat /\ \A n \in 1..m : seq[n] \in S
  BY LenProperties, ElementOfSeq
<1> HIDE DEF m
<1>2. \A n \in 1..m, kept \in Seq(S) :
         /\ Append(kept, seq[n]) \in Seq(S)
         /\ advance[<<n, kept>>] = IF n \in places THEN Append(kept, seq[n]) ELSE kept
  BY <1>1, AppendProperties
<1>3. advance \in [(1..m) \X Seq(S) -> Seq(S)] /\ <<>> \in Seq(S)
  BY <1>2, EmptySeq
<1>4. PICK f \in [0..m -> Seq(S)] : Recursion(f, m, <<>>, advance)
  <2> HIDE DEF advance
  <2> QED
    BY <1>1, <1>3, RecursionExists
<1> HIDE DEF advance
<1>5. /\ f[0] = <<>>
      /\ \A n \in 1..m :
            f[n] = IF n \in places THEN Append(f[n - 1], seq[n]) ELSE f[n - 1]
  <2>1. \A n \in 1..m : n - 1 \in 0..m
    BY <1>1
  <2> QED
    BY <1>2, <1>4, <2>1 DEF Recursion
<1>6. IsChoice(f, seq, places)
  <2>1. \A n \in 0..m : n = 0 \/ n \in 1..m
    BY <1>1
  <2>2. f = [n \in 0..m |-> IF n = 0 THEN <<>>
                ELSE IF n \in places THEN Append(f[n - 1], seq[n]) ELSE f[n - 1]]
    BY <1>4, <1>5, <2>1
  <2> QED
    BY <2>2 DEF IsChoice, m
<1> DEFINE g == CHOOSE h : IsChoice(h, seq, places)
<1>7. IsChoice(g, seq, places)
  BY <1>6
<1>8. Chosen(seq, places) = g[m]
  BY DEF Chosen, IsChoice, m
<1> HIDE DEF g
<1>9. /\ g[0] = <<>>
      /\ \A n \in 1..m :
            g[n] = IF n \in places THEN Append(g[n - 1], seq[n]) ELSE g[n - 1]
  <2>1. g = [n \in 0..m |-> IF n = 0 THEN <<>>
                ELSE IF n \in places THEN Append(g[n - 1], seq[n]) ELSE g[n - 1]]
    BY <1>7 DEF IsChoice, m
  <2>2. 0 \in 0..m /\ \A n \in 1..m : n \in 0..m /\ n # 0
    BY <1>1
  <2> QED
    BY <2>1, <2>2
<1> DEFINE T == {n \in 0..m : g[n] = f[n]}
<1>10. 0 \in T
  BY <1>1, <1>5, <1>9
<1>11. ASSUME NEW n \in 0..(m - 1), n \in T PROVE n + 1 \in T
  <2>1. n + 1 \in 1..m /\ n + 1 \in 0..m /\ (n + 1) - 1 = n
    BY <1>1
  <2>2. g[n] = f[n]
    BY <1>11
  <2>3. g[n + 1] = f[n + 1]
    BY <1>5, <1>9, <2>1, <2>2
  <2> QED
    BY <2>1, <2>3
<1>12. g[m] = f[m]
  <2> HIDE DEF T
  <2>1. 0..m \subseteq T
    BY <1>1, <1>10, <1>11, IntervalInduction
  <2> QED
    BY <1>1, <2>1 DEF T
<1> QED
  BY <1>4, <1>5, <1>8, <1>12 DEF m, Chooses

LEMMA ChosenIn ==
    ASSUME NEW S, NEW seq \in Seq(S), NEW places
    PROVE  Chosen(seq, places) \in Seq(S)
<1>1. PICK f : Chooses(f, S, seq, places)
  BY ChoiceSteps
<1>2. Len(seq) \in 0..Len(seq)
  BY LenProperties
<1> QED
  BY <1>1, <1>2 DEF Chooses

\* Nothing is chosen exactly at no places.
LEMMA NoneChosen ==
    ASSUME NEW S, NEW seq \in Seq(S), NEW places
    PROVE  Chosen(seq, places) = <<>> <=> \A n \in DOMAIN seq : n \notin places
<1> DEFINE m == Len(seq)
<1>1. m \in Nat /\ DOMAIN seq = 1..m
  BY LenProperties
<1>0. PICK f : Chooses(f, S, seq, places)
  BY ChoiceSteps
<1>2. /\ f \in [0..m -> Seq(S)] /\ f[0] = <<>>
      /\ \A n \in 1..m :
            f[n] = IF n \in places THEN Append(f[n - 1], seq[n]) ELSE f[n - 1]
      /\ Chosen(seq, places) = f[m]
  BY <1>0 DEF Chooses
<1> HIDE DEF m
<1> DEFINE T == {n \in 0..m : f[n] = <<>> <=> \A i \in 1..n : i \notin places}
<1>3. 0 \in T
  BY <1>1, <1>2
<1>4. ASSUME NEW n \in 0..(m - 1), n \in T PROVE n + 1 \in T
  <2>1. n \in 0..m /\ n + 1 \in 1..m /\ n + 1 \in 0..m /\ (n + 1) - 1 = n
        /\ 1..(n + 1) = (1..n) \cup {n + 1}
    BY <1>1
  <2>2. f[n] \in Seq(S)
    BY <1>2, <2>1
  <2>3. \A x : Append(f[n], x) # <<>>
    BY <2>2
  <2>4. f[n + 1] = IF n + 1 \in places THEN Append(f[n], seq[n + 1]) ELSE f[n]
    BY <1>2, <2>1
  <2>5. f[n] = <<>> <=> \A i \in 1..n : i \notin places
    BY <1>4
  <2>6. f[n + 1] = <<>> <=> \A i \in 1..(n + 1) : i \notin places
    BY <2>1, <2>3, <2>4, <2>5
  <2> QED
    BY <2>1, <2>6
<1>5. 0..m \subseteq T
  <2> HIDE DEF T
  <2> QED
    BY <1>1, <1>3, <1>4, IntervalInduction
<1>6. m \in T
  BY <1>1, <1>5
<1> QED
  BY <1>1, <1>2, <1>6

\* One more place behind the others adds what is there at the end.
LEMMA ChosenGrows ==
    ASSUME NEW S, NEW seq \in Seq(S), NEW k \in 1..Len(seq),
           NEW places, \A i \in places : i \in 1..(k - 1)
    PROVE  Chosen(seq, places \cup {k}) = Append(Chosen(seq, places), seq[k])
<1> DEFINE m == Len(seq)
           more == places \cup {k}
<1>1. m \in Nat
  BY LenProperties
<1>2. PICK f : Chooses(f, S, seq, places)
  BY ChoiceSteps
<1>3. PICK g : Chooses(g, S, seq, more)
  BY ChoiceSteps
<1>4. /\ f[0] = <<>> /\ g[0] = <<>>
      /\ \A n \in 1..m :
            f[n] = IF n \in places THEN Append(f[n - 1], seq[n]) ELSE f[n - 1]
      /\ \A n \in 1..m :
            g[n] = IF n \in more THEN Append(g[n - 1], seq[n]) ELSE g[n - 1]
      /\ Chosen(seq, places) = f[m] /\ Chosen(seq, more) = g[m]
  BY <1>2, <1>3 DEF Chooses
<1>5. k \in 1..m
  OBVIOUS
<1> HIDE DEF m
<1> DEFINE Longer(n) == g[n] = IF n < k THEN f[n] ELSE Append(f[n], seq[k])
           T == {n \in 0..m : Longer(n)}
<1>6. 0 \in T
  BY <1>1, <1>4, <1>5
<1>7. ASSUME NEW n \in 0..(m - 1), n \in T PROVE n + 1 \in T
  <2>1. n \in 0..m /\ n + 1 \in 1..m /\ n + 1 \in 0..m /\ (n + 1) - 1 = n
    BY <1>1
  <2>2. /\ f[n + 1] = IF n + 1 \in places THEN Append(f[n], seq[n + 1]) ELSE f[n]
        /\ g[n + 1] = IF n + 1 \in more THEN Append(g[n], seq[n + 1]) ELSE g[n]
    BY <1>4, <2>1
  <2>3. Longer(n)
    BY <1>7
  <2>4. CASE n + 1 < k
    <3>1. n < k /\ (n + 1 \in more <=> n + 1 \in places)
      BY <1>5, <2>1, <2>4
    <3>2. Longer(n + 1)
      BY <2>2, <2>3, <2>4, <3>1
    <3> QED
      BY <2>1, <3>2
  <2>5. CASE n + 1 = k
    <3>1. n < k /\ n + 1 \in more /\ n + 1 \notin places /\ ~(n + 1 < k)
      BY <1>5, <2>1, <2>5
    <3>2. Longer(n + 1)
      BY <2>2, <2>3, <2>5, <3>1
    <3> QED
      BY <2>1, <3>2
  <2>6. CASE n + 1 > k
    <3>1. ~(n < k) /\ n + 1 \notin more /\ n + 1 \notin places /\ ~(n + 1 < k)
      BY <1>5, <2>1, <2>6
    <3>2. Longer(n + 1)
      BY <2>2, <2>3, <3>1
    <3> QED
      BY <2>1, <3>2
  <2> QED
    BY <1>5, <2>1, <2>4, <2>5, <2>6
<1>8. Longer(m)
  <2>1. 0..m \subseteq T
    <3> HIDE DEF T
    <3> QED
      BY <1>1, <1>6, <1>7, IntervalInduction
  <2> QED
    BY <1>1, <2>1
<1>9. ~(m < k)
  BY <1>1, <1>5
<1> QED
  BY <1>4, <1>8, <1>9

\* Each element of a sequence replaced by what h says.
Mapped(h, seq) == [n \in DOMAIN seq |-> h[seq[n]]]

LEMMA MappedAppend ==
    ASSUME NEW S, NEW h
    PROVE  \A seq \in Seq(S), x \in S :
              Mapped(h, Append(seq, x)) = Append(Mapped(h, seq), h[x])
<1> TAKE seq \in Seq(S), x \in S
<1> DEFINE n == Len(seq)
           R == {h[y] : y \in S}
           longer == Append(seq, x)
           image == Mapped(h, seq)
<1>1. n \in Nat /\ DOMAIN seq = 1..n /\ \A i \in 1..n : seq[i] \in S
  BY LenProperties, ElementOfSeq
<1>2. /\ longer \in Seq(S) /\ Len(longer) = n + 1 /\ DOMAIN longer = 1..(n + 1)
      /\ longer[n + 1] = x /\ \A i \in 1..n : longer[i] = seq[i]
  BY AppendProperties, LenProperties
<1>3. image \in Seq(R) /\ Len(image) = n
  <2>1. image \in [1..n -> R]
    BY <1>1 DEF Mapped
  <2> QED
    BY <1>1, <2>1
<1>4. /\ Append(image, h[x]) \in Seq(R) /\ DOMAIN Append(image, h[x]) = 1..(n + 1)
      /\ Append(image, h[x])[n + 1] = h[x]
      /\ \A i \in 1..n : Append(image, h[x])[i] = image[i]
  BY <1>3, AppendProperties, LenProperties
<1>5. ASSUME NEW i \in 1..(n + 1)
      PROVE  Mapped(h, longer)[i] = Append(image, h[x])[i]
  <2>1. Mapped(h, longer)[i] = h[longer[i]]
    BY <1>2 DEF Mapped
  <2>2. CASE i = n + 1
    <3> HIDE DEF n, longer, image
    <3> QED
      BY <1>2, <1>4, <2>1, <2>2
  <2>3. CASE i \in 1..n
    <3>1. image[i] = h[seq[i]]
      BY <1>1, <2>3 DEF Mapped
    <3> HIDE DEF n, longer, image
    <3> QED
      BY <1>2, <1>4, <2>1, <2>3, <3>1
  <2>4. i = n + 1 \/ i \in 1..n
    BY <1>1
  <2> QED
    BY <2>2, <2>3, <2>4
<1>6. Mapped(h, longer) = [i \in 1..(n + 1) |-> Mapped(h, longer)[i]]
  BY <1>2 DEF Mapped
<1>7. Append(image, h[x]) = [i \in 1..(n + 1) |-> Append(image, h[x])[i]]
  BY <1>4
<1> HIDE DEF longer, image
<1>8. Mapped(h, longer) = Append(image, h[x])
  BY <1>5, <1>6, <1>7
<1> QED
  BY <1>3, <1>8 DEF longer, image

\* Choosing at the same places and replacing commute.
LEMMA ChosenMapped ==
    ASSUME NEW S, NEW h, NEW seq \in Seq(S), NEW places
    PROVE  Chosen(Mapped(h, seq), places) = Mapped(h, Chosen(seq, places))
<1> DEFINE m == Len(seq)
           R == {h[x] : x \in S}
           image == Mapped(h, seq)
<1>1. m \in Nat /\ DOMAIN seq = 1..m /\ \A n \in 1..m : seq[n] \in S
  BY LenProperties, ElementOfSeq
<1>2. image \in Seq(R) /\ Len(image) = m /\ \A n \in 1..m : image[n] = h[seq[n]]
  <2>1. image \in [1..m -> R]
    BY <1>1 DEF Mapped
  <2>2. \A n \in 1..m : image[n] = h[seq[n]]
    BY <1>1 DEF Mapped
  <2> HIDE DEF image, m
  <2> QED
    BY <1>1, <2>1, <2>2
<1>0. PICK f : Chooses(f, S, seq, places)
  BY ChoiceSteps
<1>3. /\ f \in [0..m -> Seq(S)] /\ f[0] = <<>>
      /\ \A n \in 1..m :
            f[n] = IF n \in places THEN Append(f[n - 1], seq[n]) ELSE f[n - 1]
      /\ Chosen(seq, places) = f[m]
  BY <1>0 DEF Chooses
<1>9. PICK g : Chooses(g, R, image, places)
  <2> HIDE DEF image
  <2> QED
    BY <1>2, ChoiceSteps
<1>4. /\ g \in [0..m -> Seq(R)] /\ g[0] = <<>>
      /\ \A n \in 1..m :
            g[n] = IF n \in places THEN Append(g[n - 1], image[n]) ELSE g[n - 1]
      /\ Chosen(image, places) = g[m]
  <2> HIDE DEF image
  <2> QED
    BY <1>2, <1>9 DEF Chooses
<1>10. \A few \in Seq(S), x \in S :
         Mapped(h, Append(few, x)) = Append(Mapped(h, few), h[x])
  BY MappedAppend
<1> HIDE DEF m, image
<1> DEFINE T == {n \in 0..m : g[n] = Mapped(h, f[n])}
<1>5. 0 \in T
  <2>1. Mapped(h, <<>>) = <<>>
    BY DEF Mapped
  <2> QED
    BY <1>1, <1>3, <1>4, <2>1
<1>6. ASSUME NEW n \in 0..(m - 1), n \in T PROVE n + 1 \in T
  <2>1. n \in 0..m /\ n + 1 \in 1..m /\ n + 1 \in 0..m /\ (n + 1) - 1 = n
    BY <1>1
  <2>2. f[n] \in Seq(S) /\ seq[n + 1] \in S
    BY <1>1, <1>3, <2>1
  <2>3. g[n] = Mapped(h, f[n])
    BY <1>6
  <2>5. CASE n + 1 \in places
    <3>1. f[n + 1] = Append(f[n], seq[n + 1]) /\ g[n + 1] = Append(g[n], image[n + 1])
      BY <1>3, <1>4, <2>1, <2>5
    <3>2. image[n + 1] = h[seq[n + 1]]
      BY <1>2, <2>1
    <3>3. Mapped(h, Append(f[n], seq[n + 1])) = Append(Mapped(h, f[n]), h[seq[n + 1]])
      BY <1>10, <2>2
    <3>4. g[n + 1] = Mapped(h, f[n + 1])
      BY <2>3, <3>1, <3>2, <3>3
    <3> QED
      BY <2>1, <3>4
  <2>6. CASE n + 1 \notin places
    <3>1. f[n + 1] = f[n] /\ g[n + 1] = g[n]
      BY <1>3, <1>4, <2>1, <2>6
    <3> QED
      BY <2>1, <2>3, <3>1
  <2> QED
    BY <2>5, <2>6
<1>7. 0..m \subseteq T
  <2> HIDE DEF T
  <2> QED
    BY <1>1, <1>5, <1>6, IntervalInduction
<1>8. m \in T
  BY <1>1, <1>7
<1> QED
  BY <1>3, <1>4, <1>8 DEF image

-----------------------------------------------------------------------------
\* The spine: a walk that is given one step for every state.

LEMMA AlphabetOfActions ==
    /\ Len(Alphabetical) = 11
    /\ \A i \in 1..11 : Alphabetical[i] \in Actions
    /\ \A action \in Actions : \E i \in 1..11 : Alphabetical[i] = action
  BY DEF Alphabetical, Actions

\* Something new lies ahead of the last stage of the path.
Leads(graph, path, action) == IsForward(graph, ToSet(path), Last(path), action)

LEMMA OnwardStep ==
    ASSUME NEW graph, NEW path
    PROVE  \/ /\ Onward(graph, path) = path
              /\ \A action \in Actions : ~Leads(graph, path, action)
           \/ \E action \in Actions :
              /\ Leads(graph, path, action)
              /\ Onward(graph, path) = Append(path, graph[Last(path)][action])
<1> DEFINE I == {i \in 1..Len(Alphabetical) : Leads(graph, path, Alphabetical[i])}
           edge == IF I # {} THEN Min(I) ELSE 0
<1>1. Onward(graph, path) =
         IF edge = 0 THEN path ELSE Append(path, graph[Last(path)][Alphabetical[edge]])
  BY DEF Onward, SelectInSeq, Leads
<1>2. CASE I = {}
  <2>1. \A action \in Actions : ~Leads(graph, path, action)
    BY <1>2, AlphabetOfActions
  <2> QED
    BY <1>1, <1>2, <2>1
<1>3. CASE I # {}
  <2>1. I \subseteq Nat
    BY AlphabetOfActions
  <2>2. PICK i \in I : \A j \in I : i =< j
    <3> HIDE DEF I
    <3> QED
      BY <1>3, <2>1, LeastElement
  <2>3. Min(I) \in I
    <3> HIDE DEF I
    <3> QED
      BY <2>2 DEF Min
  <2>4. edge \in 1..11 /\ Leads(graph, path, Alphabetical[edge])
    BY <1>3, <2>3, AlphabetOfActions
  <2> HIDE DEF edge
  <2>5. Alphabetical[edge] \in Actions /\ edge # 0
    BY <2>4, AlphabetOfActions
  <2> QED
    BY <1>1, <2>4, <2>5
<1> QED
  BY <1>2, <1>3

IsWalkOf(walk, graph, bound) ==
    walk = [n \in 0..bound |-> IF n = 0 THEN <<"planning">> ELSE Onward(graph, walk[n - 1])]

\* A walk along forward edges, that visits no stage twice.
Onwards(graph, path) ==
    /\ path \in Seq(StatesOf(graph))
    /\ path # <<>>
    /\ IsInjective(path)
    /\ \A i \in 2..Len(path) : \E action \in Actions \ {"blocked", "cancelled"} :
          /\ Permits(graph, path[i - 1], action)
          /\ path[i] = graph[path[i - 1]][action]

LEMMA OnwardKeeps ==
    ASSUME NEW graph, NEW path, Onwards(graph, path),
           \A state \in DOMAIN graph : \A action \in DOMAIN graph[state] :
              graph[state][action] \in StatesOf(graph),
           NEW action \in Actions, Leads(graph, path, action)
    PROVE  LET further == Append(path, graph[Last(path)][action])
           IN  Onwards(graph, further) /\ Len(further) = Len(path) + 1
<1> DEFINE n == Len(path)
           last == path[n]
           next == graph[last][action]
           further == Append(path, next)
           St == StatesOf(graph)
<1>1. n \in Nat /\ n >= 1 /\ DOMAIN path = 1..n /\ \A i \in 1..n : path[i] \in St
  BY LenProperties, ElementOfSeq, EmptySeq DEF Onwards
<1>2. /\ Permits(graph, last, action) /\ action \notin {"blocked", "cancelled"}
      /\ next \notin ToSet(path)
  BY DEF Leads, IsForward, Last
<1>3. next \in St
  BY <1>2 DEF Permits
<1>4. \A i \in 1..n : path[i] # next
  BY <1>1, <1>2 DEF ToSet
<1>5. path \in Seq(St)
  BY DEF Onwards
<1> HIDE DEF n, next, St
<1>6. /\ further \in Seq(St) /\ Len(further) = n + 1 /\ DOMAIN further = 1..(n + 1)
      /\ further[n + 1] = next /\ \A i \in 1..n : further[i] = path[i]
  BY <1>1, <1>3, <1>5, AppendProperties, LenProperties DEF n
<1> HIDE DEF further
<1>7. IsInjective(further)
  <2> SUFFICES ASSUME NEW i \in 1..(n + 1), NEW j \in 1..(n + 1), further[i] = further[j]
               PROVE  i = j
    BY <1>6 DEF IsInjective
  <2>1. \A k \in 1..n, l \in 1..n : path[k] = path[l] => k = l
    BY <1>1 DEF Onwards, IsInjective
  <2>2. (i \in 1..n \/ i = n + 1) /\ (j \in 1..n \/ j = n + 1)
    BY <1>1
  <2> QED
    BY <1>4, <1>6, <2>1, <2>2
<1>8. ASSUME NEW i \in 2..(n + 1)
      PROVE  \E a \in Actions \ {"blocked", "cancelled"} :
                /\ Permits(graph, further[i - 1], a)
                /\ further[i] = graph[further[i - 1]][a]
  <2>1. i - 1 \in 1..n /\ (i = n + 1 \/ i \in 2..n) /\ (i \in 2..n => i \in 1..n)
        /\ (i = n + 1 => i - 1 = n)
    BY <1>1
  <2>2. CASE i = n + 1
    <3>1. further[i - 1] = last /\ further[i] = next
      BY <1>6, <2>1, <2>2
    <3> QED
      BY <1>2, <3>1 DEF next
  <2>3. CASE i \in 2..n
    <3>1. PICK a \in Actions \ {"blocked", "cancelled"} :
             Permits(graph, path[i - 1], a) /\ path[i] = graph[path[i - 1]][a]
      BY <2>3 DEF Onwards, n
    <3>2. further[i - 1] = path[i - 1] /\ further[i] = path[i]
      BY <1>6, <2>1, <2>3
    <3> QED
      BY <3>1, <3>2
  <2> QED
    BY <2>1, <2>2, <2>3
<1>9. further # <<>>
  BY <1>1, <1>6, EmptySeq
<1>10. Onwards(graph, further)
  BY <1>6, <1>7, <1>8, <1>9 DEF Onwards, St
<1> QED
  BY <1>6, <1>10 DEF further, next, Last, n

\* A path that visits no stage twice is no longer than there are states.
LEMMA PathIsBounded ==
    ASSUME NEW graph, IsFiniteSet(StatesOf(graph)), NEW path, Onwards(graph, path)
    PROVE  Len(path) =< Cardinality(StatesOf(graph))
<1> DEFINE n == Len(path)
<1>1. n \in Nat /\ DOMAIN path = 1..n /\ path \in [1..n -> StatesOf(graph)]
  BY LenProperties DEF Onwards
<1>2. path \in Injection(1..n, StatesOf(graph))
  BY <1>1 DEF Onwards, Injection, IsInjective
<1>3. Cardinality(1..n) = n
  BY <1>1, FS_Interval
<1> QED
  BY <1>2, <1>3, FS_Injection

LEMMA SpineIsWalk ==
    ASSUME NEW graph, "planning" \in DOMAIN graph, IsFiniteSet(StatesOf(graph)),
           \A state \in DOMAIN graph : \A action \in DOMAIN graph[state] :
              graph[state][action] \in StatesOf(graph)
    PROVE  /\ Onwards(graph, Pipeline(graph))
           /\ \A action \in Actions : ~Leads(graph, Pipeline(graph), action)
<1> DEFINE bound == Cardinality(StatesOf(graph))
           V == {path \in Seq(StatesOf(graph)) : Onwards(graph, path)}
           advance == [pair \in (1..bound) \X V |-> Onward(graph, pair[2])]
           Stopped(path) == \A action \in Actions : ~Leads(graph, path, action)
<1>1. bound \in Nat
  BY FS_CardinalityType
<1>2. <<"planning">> \in V
  <2>1. "planning" \in StatesOf(graph)
    BY DEF StatesOf
  <2>2. /\ <<"planning">> \in Seq(StatesOf(graph)) /\ Len(<<"planning">>) = 1
        /\ <<"planning">> # <<>> /\ 2..1 = {}
    BY <2>1
  <2>3. IsInjective(<<"planning">>)
    BY DEF IsInjective
  <2> QED
    BY <2>2, <2>3 DEF Onwards
<1>3. ASSUME NEW path \in V
      PROVE  /\ Onward(graph, path) \in V
             /\ Stopped(path) => Onward(graph, path) = path
             /\ ~Stopped(path) => Len(Onward(graph, path)) = Len(path) + 1
  <2>1. CASE Onward(graph, path) = path /\ Stopped(path)
    BY <2>1
  <2>2. CASE \E action \in Actions :
              /\ Leads(graph, path, action)
              /\ Onward(graph, path) = Append(path, graph[Last(path)][action])
    <3>1. PICK action \in Actions :
              /\ Leads(graph, path, action)
              /\ Onward(graph, path) = Append(path, graph[Last(path)][action])
      BY <2>2
    <3>2. Onwards(graph, Onward(graph, path)) /\ Len(Onward(graph, path)) = Len(path) + 1
      BY <3>1, OnwardKeeps
    <3>3. Onward(graph, path) \in V
      BY <3>2 DEF Onwards
    <3> QED
      BY <3>1, <3>2, <3>3
  <2> QED
    BY <2>1, <2>2, OnwardStep
<1>4. \A path \in V : Onwards(graph, path) /\ Len(path) \in Nat
  OBVIOUS
<1>5. Len(<<"planning">>) = 1
  OBVIOUS
<1> HIDE DEF V, bound
<1>6. /\ advance \in [(1..bound) \X V -> V]
      /\ \A n \in 1..bound, path \in V : advance[<<n, path>>] = Onward(graph, path)
  BY <1>3
<1> HIDE DEF advance, Stopped
<1>7. PICK f \in [0..bound -> V] : Recursion(f, bound, <<"planning">>, advance)
  BY <1>1, <1>2, <1>6, RecursionExists
<1>8. /\ f[0] = <<"planning">>
      /\ \A n \in 1..bound : n - 1 \in 0..bound /\ f[n] = Onward(graph, f[n - 1])
  <2>1. \A n \in 1..bound : n - 1 \in 0..bound
    BY <1>1
  <2> QED
    BY <1>6, <1>7, <2>1 DEF Recursion
<1>9. IsWalkOf(f, graph, bound)
  <2>1. \A n \in 0..bound : n = 0 \/ n \in 1..bound
    BY <1>1
  <2> QED
    BY <1>7, <1>8, <2>1 DEF IsWalkOf
<1> DEFINE walk == CHOOSE g : IsWalkOf(g, graph, bound)
<1>10. IsWalkOf(walk, graph, bound)
  BY <1>9
<1>11. Pipeline(graph) = walk[bound]
  BY DEF Pipeline, IsWalkOf, bound
<1> HIDE DEF walk
<1>12. walk[0] = <<"planning">> /\ \A n \in 1..bound : walk[n] = Onward(graph, walk[n - 1])
  <2>1. 0 \in 0..bound /\ \A n \in 1..bound : n \in 0..bound /\ n # 0
    BY <1>1
  <2> QED
    BY <1>10, <2>1 DEF IsWalkOf
\* As long as the walk goes on, it has a new stage with every step.
<1> DEFINE T == {n \in 0..bound : walk[n] = f[n] /\ (Stopped(f[n]) \/ Len(f[n]) = n + 1)}
<1>13. 0 \in T
  <2>1. 0 \in 0..bound /\ 0 + 1 = 1
    BY <1>1
  <2>2. walk[0] = f[0] /\ Len(f[0]) = 1
    BY <1>5, <1>8, <1>12
  <2> QED
    BY <2>1, <2>2
<1>14. ASSUME NEW n \in 0..(bound - 1), n \in T PROVE n + 1 \in T
  <2>1. n \in 0..bound /\ n + 1 \in 1..bound /\ n + 1 \in 0..bound /\ (n + 1) - 1 = n
    BY <1>1
  <2>2. f[n] \in V /\ f[n + 1] = Onward(graph, f[n]) /\ walk[n + 1] = Onward(graph, walk[n])
    BY <1>7, <1>8, <1>12, <2>1
  <2>3. walk[n] = f[n] /\ (Stopped(f[n]) \/ Len(f[n]) = n + 1)
    BY <1>14
  <2>4. walk[n + 1] = f[n + 1]
    BY <2>2, <2>3
  <2>5. CASE Stopped(f[n])
    BY <1>3, <2>1, <2>2, <2>4, <2>5
  <2>6. CASE ~Stopped(f[n])
    <3>1. Len(f[n + 1]) = (n + 1) + 1
      BY <1>3, <2>2, <2>3, <2>6
    <3> QED
      BY <2>1, <2>4, <3>1
  <2> QED
    BY <2>5, <2>6
<1>15. walk[bound] = f[bound] /\ f[bound] \in V
       /\ (Stopped(f[bound]) \/ Len(f[bound]) = bound + 1)
  <2> HIDE DEF T
  <2>1. 0..bound \subseteq T
    BY <1>1, <1>13, <1>14, IntervalInduction
  <2>2. bound \in 0..bound
    BY <1>1
  <2> QED
    BY <1>7, <2>1, <2>2 DEF T
<1>16. Len(f[bound]) =< bound
  BY <1>4, <1>15, PathIsBounded DEF bound
<1>17. Stopped(f[bound])
  BY <1>1, <1>4, <1>15, <1>16
<1> QED
  BY <1>4, <1>11, <1>15, <1>17 DEF Stopped

-----------------------------------------------------------------------------
\* A policy as a whole.

Independences == {Omitted, "yes", "no"}

\* What a policy that is driven may be: any list of gates and any finite graph.
APolicy(policy) ==
    /\ policy.gates \in Seq(GateChoices)
    /\ DOMAIN policy = {"gates", "states", "implementer", "reviewer", "independent"}
    /\ policy.independent \in Independences
    /\ IsFiniteSet(DOMAIN policy.states)

\* A gate with its default spelled out.
Explicit == [gate \in GateChoices |-> ExplicitGate(gate)]

LEMMA NormalizedFields ==
    ASSUME NEW policy, APolicy(policy)
    PROVE  /\ normalize(policy).gates = Mapped(Explicit, policy.gates)
           /\ normalize(policy).states = policy.states
           /\ normalize(policy).implementer = policy.implementer
           /\ normalize(policy).reviewer = policy.reviewer
           /\ normalize(policy).independent =
                 Explicitly(policy.independent)
<1> DEFINE gates == [i \in DOMAIN policy.gates |-> ExplicitGate(policy.gates[i])]
<1>1. \A n \in DOMAIN policy.gates : policy.gates[n] \in GateChoices
  BY ElementOfSeq, LenProperties DEF APolicy
<1>2. Mapped(Explicit, policy.gates) = gates
  BY <1>1 DEF Mapped, Explicit
<1>3. normalize(policy) =
         [policy EXCEPT !.gates = gates, !.independent = Explicitly(@)]
  BY Zenon DEF normalize
<1> HIDE DEF gates
<1> QED
  BY <1>2, <1>3 DEF APolicy

LEMMA ExplicitGateIs ==
    ASSUME NEW gate \in GateChoices
    PROVE  /\ Explicit[gate] \in GateChoices
           /\ Explicit[gate].id = gate.id /\ Explicit[gate].runAt = gate.runAt
           /\ GateIsRequired(Explicit[gate]) <=> GateIsRequired(gate)
  BY DEF Explicit, ExplicitGate, Explicitly, GateChoices, GateIsRequired, Given, Omitted

LEMMA MappedGates ==
    ASSUME NEW gates \in Seq(GateChoices)
    PROVE  /\ Mapped(Explicit, gates) \in Seq(GateChoices)
           /\ Len(Mapped(Explicit, gates)) = Len(gates)
           /\ DOMAIN Mapped(Explicit, gates) = DOMAIN gates
           /\ \A n \in DOMAIN gates : /\ gates[n] \in GateChoices
                                      /\ Mapped(Explicit, gates)[n] = Explicit[gates[n]]
<1> DEFINE image == Mapped(Explicit, gates)
<1>1. /\ Len(gates) \in Nat /\ DOMAIN gates = 1..Len(gates)
      /\ \A n \in DOMAIN gates : gates[n] \in GateChoices
  BY LenProperties, ElementOfSeq
<1>2. DOMAIN image = DOMAIN gates /\ \A n \in DOMAIN gates : image[n] = Explicit[gates[n]]
  BY DEF Mapped
<1>3. image \in [1..Len(gates) -> GateChoices]
  BY <1>1, <1>2, ExplicitGateIs DEF Mapped
<1> HIDE DEF image
<1> QED
  BY <1>1, <1>2, <1>3 DEF image

LEMMA RequiredSome ==
    ASSUME NEW policy, policy.gates \in Seq(GateChoices)
    PROVE  RequiredGates(policy) # <<>> <=>
              \E n \in DOMAIN policy.gates : GateIsRequired(policy.gates[n])
<1> DEFINE required == {i \in DOMAIN policy.gates : GateIsRequired(policy.gates[i])}
<1>1. Chosen(policy.gates, required) = <<>>
         <=> \A n \in DOMAIN policy.gates : n \notin required
  <2> HIDE DEF required
  <2> QED
    BY NoneChosen
<1> QED
  BY <1>1 DEF RequiredGates

\* Spelling the defaults out changes nothing about what is accepted.
LEMMA NormalizedIsValid ==
    ASSUME NEW policy, APolicy(policy), validate(policy)
    PROVE  validate(normalize(policy))
<1> DEFINE gates == policy.gates
           explicit == normalize(policy)
<1>1. gates \in Seq(GateChoices) /\ explicit.gates = Mapped(Explicit, gates)
  BY NormalizedFields DEF APolicy
<1>2. /\ explicit.gates \in Seq(GateChoices)
      /\ Len(explicit.gates) = Len(gates) /\ DOMAIN explicit.gates = DOMAIN gates
      /\ \A n \in DOMAIN gates : /\ gates[n] \in GateChoices
                                 /\ explicit.gates[n] = Explicit[gates[n]]
  BY <1>1, MappedGates
<1>3. explicit.states = policy.states
      /\ explicit.implementer = policy.implementer /\ explicit.reviewer = policy.reviewer
      /\ RequireIndependentQA(explicit) = RequireIndependentQA(policy)
  BY NormalizedFields
  DEF RequireIndependentQA, Explicitly, Given, APolicy, Independences, Omitted
<1> HIDE DEF explicit
<1>4. explicit.gates # <<>>
  <2>1. Len(gates) # 0
    BY <1>1, EmptySeq DEF validate
  <2> QED
    BY <1>2, <2>1
<1>5. GatesAreDistinct(explicit)
  <2>1. \A n \in DOMAIN gates : explicit.gates[n].id = gates[n].id
    BY <1>2, ExplicitGateIs
  <2>2. \A i, j \in DOMAIN gates : gates[i].id = gates[j].id => i = j
    BY DEF GatesAreDistinct, validate
  <2> HIDE DEF gates
  <2> QED
    BY <1>2, <2>1, <2>2 DEF GatesAreDistinct
<1>6. RequiredGates(explicit) # <<>>
  <2>1. PICK n \in DOMAIN gates : GateIsRequired(gates[n])
    BY <1>1, RequiredSome DEF validate
  <2>2. GateIsRequired(explicit.gates[n])
    BY <1>2, <2>1, ExplicitGateIs
  <2> QED
    BY <1>2, <2>1, <2>2, RequiredSome
<1>7. TargetsAreDeclared(explicit)
  BY <1>3 DEF TargetsAreDeclared, validate
<1> QED
  BY <1>3, <1>4, <1>5, <1>6, <1>7 DEF validate, explicit

\* Nor about which gates a stage runs.
LEMMA NormalizedRunsSame ==
    ASSUME NEW policy, APolicy(policy), NEW state
    PROVE  GatesFor(normalize(policy), state) =
              normalize([policy EXCEPT !.gates = GatesFor(policy, state)]).gates
<1> DEFINE gates == policy.gates
           image == Mapped(Explicit, gates)
           running == {i \in DOMAIN gates : RunsIn(gates[i], state)}
           chosen == Chosen(gates, running)
<1>1. gates \in Seq(GateChoices) /\ normalize(policy).gates = image
  BY NormalizedFields DEF APolicy
<1>2. /\ DOMAIN image = DOMAIN gates
      /\ \A n \in DOMAIN gates : gates[n] \in GateChoices /\ image[n] = Explicit[gates[n]]
  BY <1>1, MappedGates
<1>3. GatesFor(normalize(policy), state) = Chosen(image, running)
  <2>1. \A n \in DOMAIN gates : RunsIn(image[n], state) <=> RunsIn(gates[n], state)
    BY <1>2, ExplicitGateIs DEF RunsIn
  <2>2. {i \in DOMAIN image : RunsIn(image[i], state)} = running
    BY <1>2, <2>1
  <2> QED
    BY <1>1, <2>2 DEF GatesFor
<1>4. GatesFor(policy, state) = chosen
  BY DEF GatesFor
<1> HIDE DEF running
<1>5. Chosen(image, running) = Mapped(Explicit, chosen)
  BY <1>1, ChosenMapped
<1>6. chosen \in Seq(GateChoices)
  BY <1>1, ChosenIn
<1> HIDE DEF chosen, image
<1> DEFINE narrowed == [policy EXCEPT !.gates = chosen]
<1>7. narrowed.gates = chosen /\ APolicy(narrowed)
  BY <1>6 DEF APolicy
<1>8. normalize(narrowed).gates = Mapped(Explicit, chosen)
  BY <1>7, NormalizedFields
<1> QED
  BY <1>3, <1>4, <1>5, <1>8

\* Ids that tell the gates apart are as many as the gates.
LEMMA DistinctIds ==
    ASSUME NEW policy, policy.gates \in Seq(GateChoices), GatesAreDistinct(policy)
    PROVE  Cardinality({policy.gates[i].id : i \in DOMAIN policy.gates}) = Len(policy.gates)
<1> DEFINE n == Len(policy.gates)
           ids == {policy.gates[i].id : i \in DOMAIN policy.gates}
           f == [i \in 1..n |-> policy.gates[i].id]
<1>1. n \in Nat /\ DOMAIN policy.gates = 1..n
  BY LenProperties
<1>2. f \in [1..n -> ids] /\ \A i, j \in 1..n : f[i] = f[j] => i = j
  BY <1>1 DEF GatesAreDistinct
<1>3. \A id \in ids : \E i \in 1..n : f[i] = id
  BY <1>1
<1>4. f \in Bijection(1..n, ids)
  <2> HIDE DEF f, ids
  <2> QED
    BY <1>2, <1>3 DEF Bijection, Injection, Surjection, IsInjective
<1>5. ExistsBijection(1..n, ids)
  <2> HIDE DEF f, ids
  <2> QED
    BY <1>4 DEF ExistsBijection
<1>6. IsFiniteSet(1..n) /\ Cardinality(1..n) = n
  BY <1>1, FS_Interval
<1> QED
  BY <1>5, <1>6, FS_Bijection

LEMMA TargetsAreStates ==
    ASSUME NEW policy, TargetsAreDeclared(policy)
    PROVE  \A state \in DOMAIN Transitions(policy) :
              \A action \in DOMAIN Transitions(policy)[state] :
                 Transitions(policy)[state][action] \in StatesOf(Transitions(policy))
<1>1. CASE DOMAIN policy.states = {}
  <2>1. \A state \in DOMAIN builtinTransitions :
           \A action \in DOMAIN builtinTransitions[state] :
              builtinTransitions[state][action] \in BuiltinStates
    BY DEF builtinTransitions, BuiltinStates
  <2> QED
    BY <1>1, <2>1 DEF Transitions, StatesOf
<1>2. CASE DOMAIN policy.states # {}
  <2>1. DOMAIN builtinTransitions \cup {"complete", "cancelled"} \subseteq BuiltinStates
    BY DEF builtinTransitions, BuiltinStates
  <2> QED
    BY <1>2, <2>1 DEF Transitions, StatesOf, TargetsAreDeclared, isBuiltinState
<1> QED
  BY <1>1, <1>2

LEMMA StatesAreFinite ==
    ASSUME NEW policy, APolicy(policy)
    PROVE  IsFiniteSet(StatesOf(Transitions(policy)))
<1>1. IsFiniteSet(BuiltinStates)
  <2>1. BuiltinStates =
           {"planning"} \cup {"implementing"} \cup {"verifying"} \cup {"qa_review"}
             \cup {"changes_requested"} \cup {"ready_to_complete"} \cup {"blocked"}
             \cup {"complete"} \cup {"cancelled"}
    BY DEF BuiltinStates
  <2>2. \A x : IsFiniteSet({x})
    BY FS_Singleton
  <2> QED
    BY <2>1, <2>2, FS_Union
<1>2. DOMAIN Transitions(policy) \subseteq BuiltinStates \cup DOMAIN policy.states
  BY DEF Transitions, builtinTransitions, BuiltinStates
<1>3. StatesOf(Transitions(policy)) \subseteq BuiltinStates \cup DOMAIN policy.states
  BY <1>2 DEF StatesOf
<1>4. IsFiniteSet(BuiltinStates \cup DOMAIN policy.states)
  BY <1>1, FS_Union DEF APolicy
<1> QED
  BY <1>3, <1>4, FS_Subset

\* What the spine shows of a graph that leads nowhere undeclared.
SpineShows(graph) ==
    LET spine == Pipeline(graph)
        ahead(state) == {graph[state][action] : action \in
                            {a \in Actions \ {"blocked", "cancelled"} : Permits(graph, state, a)}}
    IN  /\ (spine = <<>>) <=> "planning" \notin DOMAIN graph
        /\ IsInjective(spine)
        /\ \A i \in 2..Len(spine) : spine[i] \in ahead(spine[i - 1])
        /\ spine # <<>> =>
                ahead(Last(spine)) \subseteq ToSet(spine) \cup {"blocked", "cancelled"}

LEMMA SpineIsShown ==
    ASSUME NEW graph, IsFiniteSet(StatesOf(graph)),
           \A state \in DOMAIN graph : \A action \in DOMAIN graph[state] :
              graph[state][action] \in StatesOf(graph)
    PROVE  SpineShows(graph)
<1> DEFINE spine == Pipeline(graph)
<1>1. CASE "planning" \notin DOMAIN graph
  <2>1. spine = <<>>
    BY <1>1 DEF Pipeline
  <2>2. IsInjective(<<>>) /\ 2..Len(<<>>) = {}
    BY DEF IsInjective
  <2> QED
    BY <1>1, <2>1, <2>2 DEF SpineShows
<1>2. CASE "planning" \in DOMAIN graph
  <2>1. /\ Onwards(graph, spine)
        /\ \A action \in Actions : ~Leads(graph, spine, action)
    BY <1>2, SpineIsWalk
  <2> HIDE DEF spine
  <2>2. spine # <<>> /\ IsInjective(spine)
    BY <2>1 DEF Onwards
  <2>3. \A i \in 2..Len(spine) :
           spine[i] \in {graph[spine[i - 1]][action] : action \in
              {a \in Actions \ {"blocked", "cancelled"} : Permits(graph, spine[i - 1], a)}}
    BY <2>1 DEF Onwards
  <2>4. {graph[Last(spine)][action] : action \in
           {a \in Actions \ {"blocked", "cancelled"} : Permits(graph, Last(spine), a)}}
             \subseteq ToSet(spine) \cup {"blocked", "cancelled"}
    BY <2>1 DEF Leads, IsForward
  <2> QED
    BY <1>2, <2>2, <2>3, <2>4 DEF SpineShows, spine
<1> QED
  BY <1>1, <1>2

LEMMA AcceptedIsSound ==
    ASSUME part \in {"gates", "graph"}, validate(input), APolicy(input)
    PROVE  PolicyIsSound
<1>1. input.gates \in Seq(GateChoices) /\ input.independent \in Independences
  BY DEF APolicy
<1>2. \A state \in DOMAIN Transitions(input) :
         \A action \in DOMAIN Transitions(input)[state] :
            Transitions(input)[state][action] \in StatesOf(Transitions(input))
  BY TargetsAreStates DEF validate
<1>3. \E i \in DOMAIN input.gates : input.gates[i].required # "no"
  BY <1>1, RequiredSome DEF validate, GateIsRequired, Omitted
<1>4. Cardinality({input.gates[i].id : i \in DOMAIN input.gates}) = Len(input.gates)
  BY <1>1, DistinctIds DEF validate
<1>5. input.implementer = input.reviewer =>
         input.implementer = "" \/ input.independent = "no"
  BY <1>1 DEF validate, RequireIndependentQA, Independences
<1>6. validate(normalize(input))
  BY NormalizedIsValid
<1>7. \A state \in {"verifying", "implementing"} :
         GatesFor(normalize(input), state) =
            normalize([input EXCEPT !.gates = GatesFor(input, state)]).gates
  BY NormalizedRunsSame
<1>8. SpineShows(Transitions(input))
  BY <1>2, StatesAreFinite, SpineIsShown
<1> QED
  BY <1>2, <1>3, <1>4, <1>5, <1>6, <1>7, <1>8, Zenon DEF PolicyIsSound, SpineShows

LEMMA PolicyGrows ==
    ASSUME APolicy(input), AddGate \/ AddTarget
    PROVE  APolicy(input')
<1>1. CASE AddGate
  <2>1. PICK gate \in GateChoices : input' = [input EXCEPT !.gates = Append(@, gate)]
    BY <1>1 DEF AddGate
  <2>2. Append(input.gates, gate) \in Seq(GateChoices)
    BY AppendProperties DEF APolicy
  <2> QED
    BY <2>1, <2>2 DEF APolicy
<1>2. CASE AddTarget
  <2>1. PICK state, table : input' = [input EXCEPT !.states = Known(input.states, state, table)]
    BY <1>2 DEF AddTarget
  <2>2. DOMAIN Known(input.states, state, table) = DOMAIN input.states \cup {state}
    BY DEF Known
  <2>3. IsFiniteSet(DOMAIN input.states \cup {state})
    BY FS_AddElement DEF APolicy
  <2> QED
    BY <2>1, <2>2, <2>3 DEF APolicy
<1> QED
  BY <1>1, <1>2

-----------------------------------------------------------------------------
\* The assembly of streamed calls.

StreamFragments == Fragments(Indices, Ids, Names, Nat)
StreamTexts == [kind : {"text"}, piece : Nat]
StreamChunks == StreamFragments \cup StreamTexts \cup {Garbled, EndMark}

RawCalls == [id : Ids \cup {""}, name : Names \cup {""}, args : Seq(Nat)]
Streams ==
    [calls : Seq(RawCalls),
     byIndex : Partial(Indices \cup {NoIndex}, Nat), byID : Partial(Ids \cup {""}, Nat),
     queue : Seq(StreamChunks), finished : BOOLEAN]

\* A call with one more fragment.
WithFragment(call, fragment) ==
    [id |-> IF call.id = "" THEN fragment.id ELSE call.id,
     name |-> IF call.name = "" THEN fragment.name ELSE call.name,
     args |-> Append(call.args, fragment.piece)]
NoCall == [id |-> "", name |-> "", args |-> <<>>]

LEMMA ExtendedType ==
    ASSUME NEW call \in RawCalls, NEW fragment \in StreamFragments
    PROVE  WithFragment(call, fragment) \in RawCalls
<1>1. /\ call.id \in Ids \cup {""} /\ call.name \in Names \cup {""} /\ call.args \in Seq(Nat)
      /\ fragment.id \in Ids \cup {""} /\ fragment.name \in Names \cup {""} /\ fragment.piece \in Nat
  BY DEF RawCalls, StreamFragments, Fragments
<1>2. Append(call.args, fragment.piece) \in Seq(Nat)
  BY <1>1, AppendProperties
<1> QED
  BY <1>1, <1>2 DEF WithFragment, RawCalls

LEMMA PlacesOf ==
    ASSUME NEW S, NEW seq \in Seq(S)
    PROVE  /\ Len(seq) \in Nat /\ DOMAIN seq = 1..Len(seq)
           /\ \A i \in DOMAIN seq : i \in Nat /\ i # 0 /\ seq[i] \in S
           /\ seq = [i \in DOMAIN seq |-> seq[i]]
<1>1. Len(seq) \in Nat /\ DOMAIN seq = 1..Len(seq) /\ seq \in [1..Len(seq) -> S]
  BY LenProperties
<1>2. \A i \in 1..Len(seq) : i \in Nat /\ i # 0
  BY <1>1
<1> QED
  BY <1>1, <1>2

LEMMA KnownType ==
    ASSUME NEW keys, NEW table \in Partial(keys, Nat), NEW key \in keys, NEW n \in Nat
    PROVE  Known(table, key, n) \in Partial(keys, Nat)
<1>1. PICK some \in SUBSET keys : table \in [some -> Nat]
  BY DEF Partial
<1>2. Known(table, key, n) \in [some \cup {key} -> Nat]
  BY <1>1 DEF Known
<1>3. some \cup {key} \in SUBSET keys
  OBVIOUS
<1> QED
  BY <1>2, <1>3 DEF Partial

\* What Extend makes of a stream that has call n.
IsExtended(extended, stream, n, fragment) ==
    /\ extended \in Streams
    /\ extended.calls = [stream.calls EXCEPT ![n] = WithFragment(stream.calls[n], fragment)]
    /\ extended.byIndex = stream.byIndex
    /\ extended.byID = IF stream.calls[n].id = "" /\ fragment.id # ""
                       THEN Known(stream.byID, fragment.id, n)
                       ELSE stream.byID
    /\ extended.queue = stream.queue
    /\ extended.finished = stream.finished

LEMMA ExtendIs ==
    ASSUME NEW stream \in Streams, NEW n \in DOMAIN stream.calls,
           NEW fragment \in StreamFragments
    PROVE  IsExtended(Extend(stream, n, fragment), stream, n, fragment)
<1> DEFINE call == stream.calls[n]
           named == call.id = "" /\ fragment.id # ""
           calls == [stream.calls EXCEPT ![n] = WithFragment(call, fragment)]
           byID == IF named THEN Known(stream.byID, fragment.id, n) ELSE stream.byID
           extended == Extend(stream, n, fragment)
<1>1. /\ stream.calls \in Seq(RawCalls) /\ n \in 1..Len(stream.calls)
      /\ call \in RawCalls /\ n \in Nat
  <2>1. stream.calls \in Seq(RawCalls)
    BY DEF Streams
  <2> QED
    BY <2>1, LenProperties, ElementOfSeq
<1>2. [id |-> IF named THEN fragment.id ELSE call.id,
       name |-> IF call.name = "" THEN fragment.name ELSE call.name,
       args |-> Append(call.args, fragment.piece)] = WithFragment(call, fragment)
  <2>1. (IF named THEN fragment.id ELSE call.id) = (IF call.id = "" THEN fragment.id ELSE call.id)
    OBVIOUS
  <2> QED
    BY <2>1 DEF WithFragment
<1>3. extended = [stream EXCEPT !.calls = calls, !.byID = byID]
  BY <1>2, Zenon DEF Extend
<1>4. calls \in Seq(RawCalls)
  BY <1>1, ExtendedType
<1>5. byID \in Partial(Ids \cup {""}, Nat)
  <2>1. stream.byID \in Partial(Ids \cup {""}, Nat) /\ fragment.id \in Ids \cup {""}
    BY DEF Streams, StreamFragments, Fragments
  <2> QED
    BY <1>1, <2>1, KnownType
<1> HIDE DEF calls, byID, extended
<1>6. /\ extended \in Streams /\ extended.calls = calls /\ extended.byID = byID
      /\ extended.byIndex = stream.byIndex /\ extended.queue = stream.queue
      /\ extended.finished = stream.finished
  BY <1>3, <1>4, <1>5 DEF Streams
<1> QED
  BY <1>6 DEF calls, byID, extended, IsExtended

\* What opening call n and extending it makes of a stream.
IsOpened(opened, stream, n, fragment) ==
    /\ opened \in Streams
    /\ opened.calls = Append(stream.calls, WithFragment(NoCall, fragment))
    /\ opened.byIndex = IF fragment.index = NoIndex THEN stream.byIndex
                        ELSE Known(stream.byIndex, fragment.index, n)
    /\ opened.byID = IF fragment.id = "" THEN stream.byID
                     ELSE Known(stream.byID, fragment.id, n)
    /\ opened.queue = stream.queue
    /\ opened.finished = stream.finished

LEMMA OpenIs ==
    ASSUME NEW stream \in Streams, NEW fragment \in StreamFragments,
           NEW n, n = Len(stream.calls) + 1
    PROVE  IsOpened(Extend(Open(stream, fragment), n, fragment), stream, n, fragment)
<1> DEFINE call == [id |-> fragment.id, name |-> fragment.name, args |-> <<>>]
           calls == Append(stream.calls, call)
           byIndex == IF fragment.index = NoIndex THEN stream.byIndex
                      ELSE Known(stream.byIndex, fragment.index, n)
           byID == IF fragment.id = "" THEN stream.byID
                   ELSE Known(stream.byID, fragment.id, n)
           open == Open(stream, fragment)
           opened == Extend(open, n, fragment)
           full == Append(stream.calls, WithFragment(NoCall, fragment))
<1>1. stream.calls \in Seq(RawCalls) /\ Len(stream.calls) \in Nat /\ call \in RawCalls
  <2>1. <<>> \in Seq(Nat)
    BY EmptySeq
  <2> QED
    BY <2>1, LenProperties DEF Streams, StreamFragments, Fragments, RawCalls
<1>2. n \in Nat /\ calls \in Seq(RawCalls) /\ Len(calls) = n /\ DOMAIN calls = 1..n
      /\ n \in 1..n /\ calls[n] = call /\ \A i \in 1..(n - 1) : calls[i] = stream.calls[i]
  <2> HIDE DEF call
  <2> QED
    BY <1>1, AppendProperties, LenProperties
<1>3. byIndex \in Partial(Indices \cup {NoIndex}, Nat) /\ byID \in Partial(Ids \cup {""}, Nat)
  <2>1. /\ stream.byIndex \in Partial(Indices \cup {NoIndex}, Nat) /\ stream.byID \in Partial(Ids \cup {""}, Nat)
        /\ fragment.index \in Indices \cup {NoIndex} /\ fragment.id \in Ids \cup {""}
    BY DEF Streams, StreamFragments, Fragments
  <2> QED
    BY <1>2, <2>1, KnownType
<1>4. open = [stream EXCEPT !.calls = calls, !.byIndex = byIndex, !.byID = byID]
  BY Zenon DEF Open
<1> HIDE DEF calls, byIndex, byID, open
<1>5. /\ open \in Streams /\ open.calls = calls /\ open.byIndex = byIndex
      /\ open.byID = byID /\ open.queue = stream.queue /\ open.finished = stream.finished
  BY <1>2, <1>3, <1>4 DEF Streams
<1>6. /\ opened \in Streams
      /\ opened.calls = [calls EXCEPT ![n] = WithFragment(call, fragment)]
      /\ opened.byIndex = byIndex
      /\ opened.byID = IF call.id = "" /\ fragment.id # ""
                       THEN Known(byID, fragment.id, n) ELSE byID
      /\ opened.queue = stream.queue /\ opened.finished = stream.finished
  <2>1. n \in DOMAIN open.calls /\ open.calls[n] = call
    BY <1>2, <1>5
  <2> HIDE DEF call
  <2>2. IsExtended(opened, open, n, fragment)
    BY <1>5, <2>1, ExtendIs
  <2> HIDE DEF opened
  <2> QED
    BY <1>5, <2>1, <2>2 DEF IsExtended
<1>7. ~(call.id = "" /\ fragment.id # "")
  OBVIOUS
<1>8. WithFragment(call, fragment) = WithFragment(NoCall, fragment)
  BY DEF WithFragment, NoCall
<1>9. [calls EXCEPT ![n] = WithFragment(call, fragment)] = full
  <2> DEFINE last == WithFragment(NoCall, fragment)
  <2>1. last \in RawCalls
    <3>1. NoCall \in RawCalls
      <4>1. <<>> \in Seq(Nat)
        BY EmptySeq
      <4> QED
        BY <4>1 DEF NoCall, RawCalls
    <3> QED
      BY <3>1, ExtendedType
  <2> HIDE DEF last
  <2>2. /\ Append(stream.calls, last) \in Seq(RawCalls)
        /\ DOMAIN Append(stream.calls, last) = 1..n
        /\ Append(stream.calls, last)[n] = last
        /\ \A i \in 1..(n - 1) : Append(stream.calls, last)[i] = stream.calls[i]
    BY <1>1, <2>1, AppendProperties, LenProperties
  <2>3. \A i \in 1..n : i = n \/ i \in 1..(n - 1)
    BY <1>2
  <2> HIDE DEF call
  <2>4. \A i \in 1..n : [calls EXCEPT ![n] = last][i] = Append(stream.calls, last)[i]
    BY <1>2, <2>2, <2>3
  <2>5. [calls EXCEPT ![n] = last] = Append(stream.calls, last)
    BY <1>2, <2>2, <2>4
  <2> QED
    BY <1>8, <2>5 DEF last
<1> QED
  BY <1>6, <1>7, <1>9 DEF byIndex, byID, open, IsOpened

\* Calls are told apart by index or by id.
Marks == {"index", "id"}
TableOf(stream, mark) == IF mark = "index" THEN stream.byIndex ELSE stream.byID
KeyOf(fragment, mark) == IF mark = "index" THEN fragment.index ELSE fragment.id
IsMarked(fragment, mark) ==
    IF mark = "index" THEN fragment.index # NoIndex
    ELSE fragment.index = NoIndex /\ fragment.id # ""

\* A fragment with a key that is known goes to the call of that key.
GoesTo(merged, stream, fragment, mark, n) ==
    /\ merged.calls = [stream.calls EXCEPT ![n] = WithFragment(stream.calls[n], fragment)]
    /\ DOMAIN TableOf(merged, mark) = DOMAIN TableOf(stream, mark)
    /\ \A key \in DOMAIN TableOf(stream, mark) :
          TableOf(merged, mark)[key] = TableOf(stream, mark)[key]
    /\ merged.queue = stream.queue
    /\ merged.finished = stream.finished

LEMMA MergedKnown ==
    ASSUME NEW stream \in Streams, NEW fragment \in StreamFragments, NEW mark \in Marks,
           IsMarked(fragment, mark),
           KeyOf(fragment, mark) \in DOMAIN TableOf(stream, mark),
           NEW n \in DOMAIN stream.calls, TableOf(stream, mark)[KeyOf(fragment, mark)] = n
    PROVE  GoesTo(mergeToolCall(stream, fragment), stream, fragment, mark, n)
<1> DEFINE merged == mergeToolCall(stream, fragment)
           next == Extend(stream, n, fragment)
<1>1. n \in 1..Len(stream.calls) /\ n # 0
  <2>1. stream.calls \in Seq(RawCalls)
    BY DEF Streams
  <2>2. Len(stream.calls) \in Nat /\ DOMAIN stream.calls = 1..Len(stream.calls)
    BY <2>1, LenProperties
  <2> QED
    BY <2>2
<1>2. Route(stream, fragment) = n
  BY DEF Route, IsMarked, KeyOf, TableOf, Marks
<1>3. merged = next
  BY <1>1, <1>2 DEF mergeToolCall
<1> HIDE DEF merged, next
<1>4. IsExtended(next, stream, n, fragment)
  BY ExtendIs DEF next
<1>5. /\ DOMAIN TableOf(next, mark) = DOMAIN TableOf(stream, mark)
      /\ \A key \in DOMAIN TableOf(stream, mark) :
            TableOf(next, mark)[key] = TableOf(stream, mark)[key]
  <2>1. CASE mark = "index"
    BY <1>4, <2>1 DEF TableOf, IsExtended
  <2>2. CASE mark = "id"
    <3>1. fragment.id \in DOMAIN stream.byID /\ stream.byID[fragment.id] = n
      BY <2>2 DEF TableOf, KeyOf
    <3>2. next.byID = stream.byID \/ next.byID = Known(stream.byID, fragment.id, n)
      BY <1>4 DEF IsExtended
    <3>3. /\ DOMAIN next.byID = DOMAIN stream.byID
          /\ \A key \in DOMAIN stream.byID : next.byID[key] = stream.byID[key]
      BY <3>1, <3>2 DEF Known
    <3> QED
      BY <2>2, <3>3 DEF TableOf
  <2> QED
    BY <2>1, <2>2 DEF Marks
<1> QED
  BY <1>3, <1>4, <1>5 DEF merged, IsExtended, GoesTo

\* A fragment with a key that is not opens a call of its own.
OpensFor(merged, stream, fragment, mark) ==
    /\ merged.calls = Append(stream.calls, WithFragment(NoCall, fragment))
    /\ DOMAIN TableOf(merged, mark) =
          DOMAIN TableOf(stream, mark) \cup {KeyOf(fragment, mark)}
    /\ TableOf(merged, mark)[KeyOf(fragment, mark)] = Len(stream.calls) + 1
    /\ \A key \in DOMAIN TableOf(stream, mark) :
          TableOf(merged, mark)[key] = TableOf(stream, mark)[key]
    /\ merged.queue = stream.queue
    /\ merged.finished = stream.finished

LEMMA MergedNew ==
    ASSUME NEW stream \in Streams, NEW fragment \in StreamFragments, NEW mark \in Marks,
           IsMarked(fragment, mark),
           KeyOf(fragment, mark) \notin DOMAIN TableOf(stream, mark)
    PROVE  OpensFor(mergeToolCall(stream, fragment), stream, fragment, mark)
<1> DEFINE merged == mergeToolCall(stream, fragment)
           n == Len(stream.calls) + 1
           next == Extend(Open(stream, fragment), n, fragment)
<1>1. Route(stream, fragment) = 0
  BY DEF Route, IsMarked, KeyOf, TableOf, Marks
<1>2. merged = next
  BY <1>1 DEF mergeToolCall
<1>7. n = Len(stream.calls) + 1
  OBVIOUS
<1> HIDE DEF merged, next, n
<1>3. IsOpened(next, stream, n, fragment)
  BY <1>7, OpenIs DEF next
<1>4. TableOf(next, mark) = Known(TableOf(stream, mark), KeyOf(fragment, mark), n)
  BY <1>3 DEF TableOf, KeyOf, IsMarked, Marks, IsOpened
<1> DEFINE key == KeyOf(fragment, mark)
           table == TableOf(stream, mark)
<1>5. /\ DOMAIN Known(table, key, n) = DOMAIN table \cup {key}
      /\ Known(table, key, n)[key] = n
      /\ \A k \in DOMAIN table : Known(table, key, n)[k] = table[k]
  <2>1. key \notin DOMAIN table
    OBVIOUS
  <2> HIDE DEF key, table
  <2> QED
    BY <2>1 DEF Known
<1> QED
  BY <1>2, <1>3, <1>4, <1>5 DEF merged, n, IsOpened, OpensFor

LEMMA MergeType ==
    ASSUME NEW stream \in Streams, NEW fragment \in StreamFragments
    PROVE  mergeToolCall(stream, fragment) \in Streams
<1> DEFINE n == Route(stream, fragment)
<1>1. /\ stream.calls \in Seq(RawCalls) /\ Len(stream.calls) \in Nat
      /\ DOMAIN stream.calls = 1..Len(stream.calls)
      /\ stream.byID \in Partial(Ids \cup {""}, Nat) /\ stream.byIndex \in Partial(Indices \cup {NoIndex}, Nat)
  BY LenProperties DEF Streams
<1>6. \A i \in DOMAIN stream.calls : i # 0
  BY <1>1, PlacesOf
<1>2. n \in Nat
  <2>1. \A index \in DOMAIN stream.byIndex : stream.byIndex[index] \in Nat
    BY <1>1 DEF Partial
  <2>2. \A id \in DOMAIN stream.byID : stream.byID[id] \in Nat
    BY <1>1 DEF Partial
  <2> QED
    BY <1>1, <2>1, <2>2 DEF Route
<1> HIDE DEF n
<1>3. CASE n = 0
  <2> DEFINE next == Len(stream.calls) + 1
  <2>1. mergeToolCall(stream, fragment) = Extend(Open(stream, fragment), next, fragment)
    BY <1>3 DEF mergeToolCall, n
  <2>2. next = Len(stream.calls) + 1
    OBVIOUS
  <2> HIDE DEF next
  <2> QED
    BY <2>1, <2>2, OpenIs DEF IsOpened
<1>4. CASE n \in DOMAIN stream.calls
  <2>1. n # 0
    BY <1>4, <1>6
  <2>2. Extend(stream, n, fragment) \in Streams
    BY <1>4, ExtendIs DEF IsExtended
  <2> QED
    BY <2>1, <2>2 DEF mergeToolCall, n
\* No table leads out of the calls; where one did, nothing would be stored but an id.
<1>5. CASE n # 0 /\ n \notin DOMAIN stream.calls
  <2> DEFINE call == stream.calls[n]
             named == call.id = "" /\ fragment.id # ""
             later == [id |-> IF named THEN fragment.id ELSE call.id,
                       name |-> IF call.name = "" THEN fragment.name ELSE call.name,
                       args |-> Append(call.args, fragment.piece)]
             calls == [stream.calls EXCEPT ![n] = later]
             byID == IF named THEN Known(stream.byID, fragment.id, n) ELSE stream.byID
  <2>1. calls = stream.calls
    <3> HIDE DEF later
    <3>1. stream.calls = [i \in DOMAIN stream.calls |-> stream.calls[i]]
      BY <1>1, PlacesOf
    <3>2. /\ calls = [i \in DOMAIN stream.calls |-> calls[i]]
          /\ \A i \in DOMAIN stream.calls : calls[i] = stream.calls[i]
      BY <1>5
    <3> QED
      BY <3>1, <3>2
  <2>2. byID \in Partial(Ids \cup {""}, Nat)
    <3>1. fragment.id \in Ids \cup {""}
      BY DEF StreamFragments, Fragments
    <3> QED
      BY <1>1, <1>2, <3>1, KnownType
  <2>3. Extend(stream, n, fragment) = [stream EXCEPT !.calls = calls, !.byID = byID]
    BY Zenon DEF Extend
  <2> HIDE DEF calls, byID
  <2>4. Extend(stream, n, fragment) \in Streams
    BY <1>1, <2>1, <2>2, <2>3 DEF Streams
  <2> QED
    BY <1>5, <2>4 DEF mergeToolCall, n
<1> QED
  BY <1>3, <1>4, <1>5

LEMMA KindsOf ==
    ASSUME NEW chunk \in StreamChunks
    PROVE  /\ chunk.kind \in {"fragment", "text", "garbled", "end"}
           /\ chunk.kind = "fragment" => chunk \in StreamFragments
<1>1. CASE chunk \in StreamFragments
  BY <1>1 DEF StreamFragments, Fragments
<1>2. CASE chunk \in StreamTexts
  BY <1>2 DEF StreamTexts
<1>3. CASE chunk = Garbled
  BY <1>3 DEF Garbled
<1>4. CASE chunk = EndMark
  BY <1>4 DEF EndMark
<1> QED
  BY <1>1, <1>2, <1>3, <1>4 DEF StreamChunks

LEMMA ConsumeType ==
    ASSUME NEW stream \in Streams, NEW chunk \in StreamChunks
    PROVE  consume(stream, chunk) \in Streams
<1>1. chunk.kind \in {"fragment", "text", "garbled", "end"}
      /\ (chunk.kind = "fragment" => chunk \in StreamFragments)
  BY KindsOf
<1>2. CASE stream.finished \/ chunk.kind = "garbled"
  BY <1>2 DEF consume
<1>3. CASE ~stream.finished /\ chunk.kind = "text"
  <2>1. consume(stream, chunk) = [stream EXCEPT !.queue = Append(stream.queue, chunk)]
    BY <1>3 DEF consume
  <2>2. Append(stream.queue, chunk) \in Seq(StreamChunks)
    BY AppendProperties DEF Streams
  <2> QED
    BY <2>1, <2>2 DEF Streams
<1>4. CASE ~stream.finished /\ chunk.kind = "fragment"
  BY <1>1, <1>4, MergeType DEF consume
<1>5. CASE ~stream.finished /\ chunk.kind = "end"
  <2>1. consume(stream, chunk) = [stream EXCEPT !.finished = TRUE]
    BY <1>5 DEF consume
  <2> QED
    BY <2>1 DEF Streams
<1> QED
  BY <1>1, <1>2, <1>3, <1>4, <1>5 DEF Streams

\* g[i] is the stream after the first i chunks.
Reads(g, chunks) ==
    /\ g \in [0..Len(chunks) -> Streams]
    /\ g[0] = newStream
    /\ \A i \in 1..Len(chunks) : g[i] = consume(g[i - 1], chunks[i])
    /\ Events(chunks) = flush(g[Len(chunks)])

LEMMA ReadSteps ==
    ASSUME NEW chunks \in Seq(StreamChunks)
    PROVE  \E g : Reads(g, chunks)
<1> DEFINE m == Len(chunks)
           IsFold(f) == f = [s \in SUBSET DOMAIN chunks |->
              IF s = {} THEN newStream ELSE consume(f[s \ {Max(s)}], chunks[Max(s)])]
           fold == CHOOSE f : IsFold(f)
           advance == [pair \in (1..m) \X Streams |-> consume(pair[2], chunks[pair[1]])]
<1>1. m \in Nat /\ DOMAIN chunks = 1..m /\ \A i \in 1..m : chunks[i] \in StreamChunks
  BY LenProperties, ElementOfSeq
<1>2. Events(chunks) = flush(fold[DOMAIN chunks])
  BY DEF Events, FoldLeft, MapThenFoldSet
<1>3. newStream \in Streams
  <2>1. \A keys : <<>> \in Partial(keys, Nat)
    <3> SUFFICES ASSUME NEW keys PROVE <<>> \in Partial(keys, Nat)
      OBVIOUS
    <3>1. <<>> \in [{} -> Nat] /\ {} \in SUBSET keys
      OBVIOUS
    <3> QED
      BY <3>1 DEF Partial
  <2>2. <<>> \in Seq(RawCalls) /\ <<>> \in Seq(StreamChunks)
    BY EmptySeq
  <2> QED
    BY <2>1, <2>2 DEF newStream, Streams
<1>4. \A stream \in Streams, i \in 1..m : consume(stream, chunks[i]) \in Streams
  BY <1>1, ConsumeType
<1>5. advance \in [(1..m) \X Streams -> Streams]
      /\ \A stream \in Streams, i \in 1..m :
            advance[<<i, stream>>] = consume(stream, chunks[i])
  <2> HIDE DEF m
  <2> QED
    BY <1>4
<1> HIDE DEF m, advance
<1>6. PICK f \in [SUBSET (1..m) -> Streams] : LeftFold(f, m, newStream, advance)
  BY <1>1, <1>3, <1>5, LeftFoldExists
<1>7. f = [s \in SUBSET (1..m) |->
              IF s = {} THEN newStream ELSE consume(f[s \ {Max(s)}], chunks[Max(s)])]
  <2>1. ASSUME NEW s \in SUBSET (1..m), s # {}
        PROVE  advance[<<Max(s), f[s \ {Max(s)}]>>] = consume(f[s \ {Max(s)}], chunks[Max(s)])
    <3>1. Max(s) \in 1..m
      BY <1>1, <2>1, MaxIs
    <3>2. f[s \ {Max(s)}] \in Streams
      BY <1>6
    <3> QED
      BY <1>5, <3>1, <3>2
  <2> QED
    BY <1>6, <2>1 DEF LeftFold
<1>8. IsFold(f)
  BY <1>1, <1>7
<1>9. IsFold(fold)
  <2> HIDE DEF IsFold
  <2> QED
    BY <1>8
<1> HIDE DEF fold
<1>10. fold = [s \in SUBSET (1..m) |->
              IF s = {} THEN newStream ELSE consume(fold[s \ {Max(s)}], chunks[Max(s)])]
  BY <1>1, <1>9
<1> DEFINE g == [i \in 0..m |-> fold[1..i]]
<1>11. g[0] = newStream
  <2>1. 0 \in 0..m /\ 1..0 = {} /\ {} \in SUBSET (1..m)
    BY <1>1
  <2> QED
    BY <1>10, <2>1
<1>12. ASSUME NEW i \in 1..m PROVE g[i] = consume(g[i - 1], chunks[i])
  <2>1. 1..i \in SUBSET (1..m) /\ 1..i # {} /\ (1..i) \ {i} = 1..(i - 1) /\ i - 1 \in 0..m
    <3>1. (1..i) \ {i} = 1..(i - 1)
      BY <1>1
    <3>2. 1..i \subseteq 1..m /\ i \in 1..i /\ i - 1 \in 0..m
      BY <1>1
    <3> QED
      BY <3>1, <3>2
  <2>2. Max(1..i) = i
    BY <1>1, MaxOfInterval
  <2>3. fold[1..i] = consume(fold[(1..i) \ {i}], chunks[i])
    BY <1>10, <2>1, <2>2
  <2>4. g[i] = fold[1..i] /\ g[i - 1] = fold[1..(i - 1)]
    BY <1>1, <2>1
  <2> QED
    BY <2>1, <2>3, <2>4
<1>13. g[m] = fold[DOMAIN chunks]
  BY <1>1
<1>14. DOMAIN g = 0..m
  OBVIOUS
<1> HIDE DEF g
<1>15. \A i \in 0..m : g[i] \in Streams
  <2> DEFINE T == {i \in 0..m : g[i] \in Streams}
  <2>1. 0 \in T
    BY <1>1, <1>3, <1>11
  <2>2. ASSUME NEW n \in 0..(m - 1), n \in T PROVE n + 1 \in T
    <3>1. n + 1 \in 1..m /\ n + 1 \in 0..m /\ (n + 1) - 1 = n
      BY <1>1
    <3> QED
      BY <1>4, <1>12, <2>2, <3>1
  <2> HIDE DEF T
  <2>3. 0..m \subseteq T
    BY <1>1, <2>1, <2>2, IntervalInduction
  <2> QED
    BY <2>3 DEF T
<1>16. g \in [0..m -> Streams]
  BY <1>14, <1>15 DEF g
<1> QED
  BY <1>2, <1>11, <1>12, <1>13, <1>16 DEF m, Reads

-----------------------------------------------------------------------------
\* What one more fragment adds to a call.

LEMMA FirstOfAppend ==
    ASSUME NEW S, NEW values \in Seq(S), NEW value \in S
    PROVE  FirstOf(Append(values, value)) =
              IF FirstOf(values) = "" THEN value ELSE FirstOf(values)
<1> DEFINE n == Len(values)
           more == Append(values, value)
           known == {i \in DOMAIN values : values[i] # ""}
           later == {i \in DOMAIN more : more[i] # ""}
<1>1. n \in Nat /\ DOMAIN values = 1..n
  BY LenProperties
<1>2. /\ DOMAIN more = 1..(n + 1) /\ more[n + 1] = value
      /\ \A i \in 1..n : more[i] = values[i]
  BY AppendProperties, LenProperties
<1>3. 1..(n + 1) = (1..n) \cup {n + 1}
  BY <1>1
<1> HIDE DEF n, more
<1>8. /\ \A i \in 1..n : i \in Nat /\ i \in Int
      /\ \A i \in 1..(n + 1) : i \in Int
      /\ n + 1 \in Int /\ n + 1 =< n + 1
  BY <1>1
<1>4. /\ \A i \in 1..n : i \in later <=> i \in known
      /\ n + 1 \in later <=> value # ""
      /\ known \subseteq 1..n /\ later \subseteq 1..(n + 1)
  <2>1. \A i \in 1..n : i \in 1..(n + 1)
    BY <1>3
  <2>2. n + 1 \in 1..(n + 1)
    BY <1>3
  <2> QED
    BY <1>1, <1>2, <2>1, <2>2
<1>0. /\ FirstOf(values) = IF known = {} THEN "" ELSE values[Min(known)]
      /\ FirstOf(more) = IF later = {} THEN "" ELSE more[Min(later)]
      /\ \A i \in known : values[i] # ""
  BY DEF FirstOf
<1> HIDE DEF known, later
<1>5. \A S1, k : k \in S1 /\ S1 \subseteq Int /\ (\A i \in S1 : k =< i) => Min(S1) = k
  <2> SUFFICES ASSUME NEW S1, NEW k \in S1, S1 \subseteq Int, \A i \in S1 : k =< i
               PROVE  Min(S1) = k
    OBVIOUS
  <2>1. Min(S1) \in S1 /\ \A i \in S1 : Min(S1) =< i
    BY DEF Min
  <2>2. Min(S1) =< k /\ k =< Min(S1) /\ k \in Int /\ Min(S1) \in Int
    BY <2>1
  <2> QED
    BY <2>2
<1>6. CASE known = {}
  <2>1. FirstOf(values) = ""
    BY <1>0, <1>6
  <2>2. later \subseteq {n + 1}
    BY <1>3, <1>4, <1>6
  <2>3. CASE value = ""
    <3>1. later = {}
      BY <1>4, <2>2, <2>3
    <3> QED
      BY <1>0, <2>1, <2>3, <3>1 DEF more
  <2>4. CASE value # ""
    <3>1. later = {n + 1}
      BY <1>4, <2>2, <2>4
    <3>2. Min(later) = n + 1
      <4>1. n + 1 \in later /\ later \subseteq Int /\ \A i \in later : n + 1 =< i
        BY <1>8, <3>1
      <4> QED
        BY <1>5, <4>1
    <3>3. FirstOf(more) = more[Min(later)]
      BY <1>0, <3>1
    <3> QED
      BY <1>2, <2>1, <3>2, <3>3 DEF more
  <2> QED
    BY <2>3, <2>4
<1>7. CASE known # {}
  <2>1. PICK k \in known : \A i \in known : k =< i
    <3>1. known \subseteq Nat
      BY <1>4, <1>8
    <3> QED
      BY <1>7, <3>1, LeastElement
  <2>2. k \in 1..n /\ k \in later
    BY <1>4, <2>1
  <2>3. \A i \in later : k =< i
    <3>1. ASSUME NEW i \in later PROVE k =< i
      <4>1. CASE i = n + 1
        BY <1>1, <2>2, <4>1
      <4>2. CASE i \in 1..n
        BY <1>4, <2>1, <4>2
      <4> QED
        BY <1>3, <1>4, <4>1, <4>2
    <3> QED
      BY <3>1
  <2>4. Min(known) = k /\ Min(later) = k
    <3>1. known \subseteq Int /\ later \subseteq Int
      BY <1>4, <1>8
    <3> QED
      BY <1>5, <2>1, <2>2, <2>3, <3>1
  <2>5. FirstOf(values) = values[k] /\ values[k] # ""
    BY <1>0, <1>7, <2>1, <2>4
  <2>6. FirstOf(more) = more[k]
    BY <1>0, <2>2, <2>4
  <2> QED
    BY <1>2, <2>2, <2>5, <2>6 DEF more
<1> QED
  BY <1>6, <1>7

\* The call that some fragments make.
CallFrom(fragments) ==
    [id |-> FirstOf([i \in DOMAIN fragments |-> fragments[i].id]),
     name |-> FirstOf([i \in DOMAIN fragments |-> fragments[i].name]),
     args |-> [i \in DOMAIN fragments |-> fragments[i].piece]]

LEMMA CallFromAppend ==
    ASSUME NEW fragments \in Seq(StreamChunks), NEW fragment \in StreamChunks
    PROVE  CallFrom(Append(fragments, fragment)) = WithFragment(CallFrom(fragments), fragment)
<1> DEFINE id == [chunk \in StreamChunks |-> chunk.id]
           name == [chunk \in StreamChunks |-> chunk.name]
           piece == [chunk \in StreamChunks |-> chunk.piece]
           ids == {id[chunk] : chunk \in StreamChunks}
           names == {name[chunk] : chunk \in StreamChunks}
           pieces == {piece[chunk] : chunk \in StreamChunks}
           more == Append(fragments, fragment)
<1>1. /\ \A i \in DOMAIN fragments : fragments[i] \in StreamChunks
      /\ more \in Seq(StreamChunks) /\ \A i \in DOMAIN more : more[i] \in StreamChunks
  <2>1. more \in Seq(StreamChunks)
    BY AppendProperties
  <2> HIDE DEF more
  <2> QED
    BY <2>1, PlacesOf
<1>2. ASSUME NEW list \in Seq(StreamChunks)
      PROVE  /\ [i \in DOMAIN list |-> list[i].id] = Mapped(id, list)
             /\ [i \in DOMAIN list |-> list[i].name] = Mapped(name, list)
             /\ [i \in DOMAIN list |-> list[i].piece] = Mapped(piece, list)
             /\ Mapped(id, list) \in Seq(ids)
             /\ Mapped(name, list) \in Seq(names)
  <2>1. /\ Len(list) \in Nat /\ DOMAIN list = 1..Len(list)
        /\ \A i \in DOMAIN list : list[i] \in StreamChunks
    BY PlacesOf
  <2>2. /\ [i \in DOMAIN list |-> list[i].id] = Mapped(id, list)
        /\ [i \in DOMAIN list |-> list[i].name] = Mapped(name, list)
        /\ [i \in DOMAIN list |-> list[i].piece] = Mapped(piece, list)
    BY <2>1 DEF Mapped
  <2> HIDE DEF id, name, piece
  <2>3. /\ Mapped(id, list) \in [1..Len(list) -> ids]
        /\ Mapped(name, list) \in [1..Len(list) -> names]
    BY <2>1 DEF Mapped
  <2> HIDE DEF ids, names
  <2> QED
    BY <2>1, <2>2, <2>3
<1>3. \A h : Mapped(h, more) = Append(Mapped(h, fragments), h[fragment])
  BY MappedAppend
<1>4. id[fragment] = fragment.id /\ name[fragment] = fragment.name
      /\ piece[fragment] = fragment.piece
      /\ id[fragment] \in ids /\ name[fragment] \in names
  OBVIOUS
<1> HIDE DEF id, name, piece, ids, names, more
<1>5. FirstOf(Mapped(id, more)) =
         IF FirstOf(Mapped(id, fragments)) = "" THEN fragment.id
         ELSE FirstOf(Mapped(id, fragments))
  <2> DEFINE values == Mapped(id, fragments)
  <2>1. values \in Seq(ids) /\ id[fragment] \in ids
    BY <1>2, <1>4
  <2>2. Mapped(id, more) = Append(values, id[fragment])
    BY <1>3
  <2> HIDE DEF values
  <2>3. FirstOf(Append(values, id[fragment])) =
           IF FirstOf(values) = "" THEN id[fragment] ELSE FirstOf(values)
    BY <2>1, FirstOfAppend
  <2> QED
    BY <1>4, <2>2, <2>3 DEF values
<1>6. FirstOf(Mapped(name, more)) =
         IF FirstOf(Mapped(name, fragments)) = "" THEN fragment.name
         ELSE FirstOf(Mapped(name, fragments))
  <2> DEFINE values == Mapped(name, fragments)
  <2>1. values \in Seq(names) /\ name[fragment] \in names
    BY <1>2, <1>4
  <2>2. Mapped(name, more) = Append(values, name[fragment])
    BY <1>3
  <2> HIDE DEF values
  <2>3. FirstOf(Append(values, name[fragment])) =
           IF FirstOf(values) = "" THEN name[fragment] ELSE FirstOf(values)
    BY <2>1, FirstOfAppend
  <2> QED
    BY <1>4, <2>2, <2>3 DEF values
<1>7. Mapped(piece, more) = Append(Mapped(piece, fragments), fragment.piece)
  BY <1>3, <1>4
<1>8. CallFrom(more) = [id |-> FirstOf(Mapped(id, more)), name |-> FirstOf(Mapped(name, more)),
                        args |-> Mapped(piece, more)]
  BY <1>1, <1>2 DEF CallFrom
<1>9. CallFrom(fragments) =
         [id |-> FirstOf(Mapped(id, fragments)), name |-> FirstOf(Mapped(name, fragments)),
          args |-> Mapped(piece, fragments)]
  BY <1>2 DEF CallFrom
<1> QED
  <2> DEFINE call == CallFrom(fragments)
  <2>1. /\ call.id = FirstOf(Mapped(id, fragments))
        /\ call.name = FirstOf(Mapped(name, fragments))
        /\ call.args = Mapped(piece, fragments)
    BY <1>9
  <2> HIDE DEF call
  <2>2. CallFrom(more) = WithFragment(call, fragment)
    BY <1>5, <1>6, <1>7, <1>8, <2>1 DEF WithFragment
  <2> QED
    BY <2>2 DEF call, more

LEMMA CallFromNone == CallFrom(<<>>) = NoCall
<1>1. FirstOf([i \in DOMAIN <<>> |-> <<>>[i].id]) = ""
      /\ FirstOf([i \in DOMAIN <<>> |-> <<>>[i].name]) = ""
  BY DEF FirstOf
<1>2. [i \in DOMAIN <<>> |-> <<>>[i].piece] = <<>>
  OBVIOUS
<1> QED
  BY <1>1, <1>2 DEF CallFrom, NoCall

-----------------------------------------------------------------------------
\* The calls after some of the fragments, told apart by a key.

Begins(key) == {i \in DOMAIN key : \A j \in DOMAIN key : j < i => key[j] # key[i]}
Order(key, places) == Chosen([i \in DOMAIN input |-> i], Begins(key) \cap places)
FragmentsOf(key, places, k) == Chosen(input, {i \in places : key[i] = k})

\* calls are those of the fragments at these places, and table leads to them.
CallsTo(calls, table, key, places) ==
    LET order == Order(key, places)
    IN  /\ order \in Seq(Nat)
        /\ Len(order) = Len(calls)
        /\ \A n \in DOMAIN calls :
              /\ calls[n] = CallFrom(FragmentsOf(key, places, key[order[n]]))
              /\ key[order[n]] \in DOMAIN table
              /\ table[key[order[n]]] = n
        /\ DOMAIN table = {key[i] : i \in places}
        /\ \A k \in DOMAIN table : table[k] \in DOMAIN calls /\ key[order[table[k]]] = k

\* All of these places lie before another.
AreBefore(places, at) == \A i \in places : i \in 1..(at - 1)

\* One place more adds to the fragments of its key and to no others.
GrowsAt(key, places, at) ==
    \A k : FragmentsOf(key, places \cup {at}, k) =
              IF k = key[at] THEN Append(FragmentsOf(key, places, k), input[at])
              ELSE FragmentsOf(key, places, k)

LEMMA FragmentsGrow ==
    ASSUME input \in Seq(StreamChunks), NEW key, NEW at \in DOMAIN input,
           NEW places, AreBefore(places, at)
    PROVE  GrowsAt(key, places, at)
<1> SUFFICES ASSUME NEW k
             PROVE  FragmentsOf(key, places \cup {at}, k) =
                       IF k = key[at] THEN Append(FragmentsOf(key, places, k), input[at])
                       ELSE FragmentsOf(key, places, k)
  BY DEF GrowsAt
<1> DEFINE some == {i \in places : key[i] = k}
           more == {i \in places \cup {at} : key[i] = k}
<1>1. CASE k = key[at]
  <2>1. more = some \cup {at}
    BY <1>1
  <2>2. \A i \in some : i \in 1..(at - 1)
    BY DEF AreBefore
  <2>3. at \in 1..Len(input)
    BY LenProperties
  <2> HIDE DEF some, more
  <2>4. Chosen(input, some \cup {at}) = Append(Chosen(input, some), input[at])
    BY <2>2, <2>3, ChosenGrows
  <2> QED
    BY <1>1, <2>1, <2>4 DEF some, more, FragmentsOf
<1>2. CASE k # key[at]
  <2>1. more = some
    BY <1>2
  <2> QED
    BY <1>2, <2>1 DEF FragmentsOf
<1> QED
  BY <1>1, <1>2

LEMMA OrderIn ==
    ASSUME input \in Seq(StreamChunks), NEW key, NEW places
    PROVE  Order(key, places) \in Seq(Nat)
<1> DEFINE positions == [i \in DOMAIN input |-> i]
<1>1. positions \in Seq(Nat)
  <2>1. Len(input) \in Nat /\ DOMAIN input = 1..Len(input) /\ \A i \in DOMAIN input : i \in Nat
    BY PlacesOf
  <2>2. positions \in [1..Len(input) -> Nat]
    BY <2>1
  <2> HIDE DEF positions
  <2> QED
    BY <2>1, <2>2
<1> HIDE DEF positions
<1> QED
  BY <1>1, ChosenIn DEF Order, positions

\* A fragment that begins a call comes last in the order of calls.
LEMMA OrderGrows ==
    ASSUME input \in Seq(StreamChunks), NEW key, NEW at \in DOMAIN input,
           NEW places, AreBefore(places, at), at \in Begins(key)
    PROVE  Order(key, places \cup {at}) = Append(Order(key, places), at)
<1> DEFINE positions == [i \in DOMAIN input |-> i]
           some == Begins(key) \cap places
           more == Begins(key) \cap (places \cup {at})
<1>1. Len(input) \in Nat /\ DOMAIN input = 1..Len(input) /\ \A i \in DOMAIN input : i \in Nat
  BY PlacesOf
<1>2. positions \in Seq(Nat) /\ Len(positions) = Len(input) /\ positions[at] = at
  <2>1. positions \in [1..Len(input) -> Nat] /\ positions[at] = at
    BY <1>1
  <2> HIDE DEF positions
  <2> QED
    BY <1>1, <2>1
<1>3. more = some \cup {at} /\ \A i \in some : i \in 1..(at - 1)
  BY DEF AreBefore
<1>4. at \in 1..Len(positions)
  BY <1>1, <1>2
<1> HIDE DEF positions, some, more
<1>5. Chosen(positions, some \cup {at}) = Append(Chosen(positions, some), positions[at])
  BY <1>2, <1>3, <1>4, ChosenGrows
<1> QED
  BY <1>2, <1>3, <1>5 DEF Order, positions, some, more

\* One more fragment, of a call that has begun.
LEMMA CallGoesOn ==
    ASSUME input \in Seq(StreamChunks), NEW key, NEW at \in DOMAIN key,
           DOMAIN key \subseteq DOMAIN input,
           NEW places, places \subseteq DOMAIN key, AreBefore(places, at),
           NEW calls \in Seq(RawCalls), NEW table, CallsTo(calls, table, key, places),
           key[at] \in DOMAIN table,
           NEW later \in Seq(RawCalls),
           later = [calls EXCEPT ![table[key[at]]] =
                      WithFragment(calls[table[key[at]]], input[at])],
           NEW after, DOMAIN after = DOMAIN table,
           \A k \in DOMAIN table : after[k] = table[k]
    PROVE  CallsTo(later, after, key, places \cup {at})
<1> DEFINE more == places \cup {at}
           order == Order(key, places)
           mine == table[key[at]]
<1>1. at \in DOMAIN input /\ input[at] \in StreamChunks
  BY PlacesOf
<1>2. PICK i \in places : key[i] = key[at]
  BY DEF CallsTo
<1>3. at \notin Begins(key)
  <2>1. i < at /\ i \in DOMAIN key
    <3>1. i \in 1..(at - 1) /\ at \in Nat
      BY <1>1, PlacesOf DEF AreBefore
    <3> QED
      BY <3>1
  <2> QED
    BY <1>2, <2>1 DEF Begins
<1>4. Order(key, more) = order
  <2>1. Begins(key) \cap more = Begins(key) \cap places
    BY <1>3
  <2> QED
    BY <2>1 DEF Order
<1>5. /\ order \in Seq(Nat) /\ Len(order) = Len(calls)
      /\ \A n \in DOMAIN calls : /\ calls[n] = CallFrom(FragmentsOf(key, places, key[order[n]]))
                                 /\ key[order[n]] \in DOMAIN table
                                 /\ table[key[order[n]]] = n
      /\ DOMAIN table = {key[j] : j \in places}
      /\ \A k \in DOMAIN table : table[k] \in DOMAIN calls /\ key[order[table[k]]] = k
  BY DEF CallsTo
<1>6. /\ mine \in DOMAIN calls /\ DOMAIN later = DOMAIN calls
      /\ later[mine] = WithFragment(calls[mine], input[at])
      /\ \A n \in DOMAIN calls : n # mine => later[n] = calls[n]
      /\ Len(later) = Len(calls)
  <2>1. mine \in DOMAIN calls
    BY <1>5
  <2>2. /\ DOMAIN later = DOMAIN calls
        /\ later[mine] = WithFragment(calls[mine], input[at])
        /\ \A n \in DOMAIN calls : n # mine => later[n] = calls[n]
    BY <2>1
  <2>3. Len(later) = Len(calls)
    BY <2>2, LenProperties
  <2> QED
    BY <2>1, <2>2, <2>3
<1>7. \A k : FragmentsOf(key, places \cup {at}, k) =
                IF k = key[at] THEN Append(FragmentsOf(key, places, k), input[at])
                ELSE FragmentsOf(key, places, k)
  <2>1. GrowsAt(key, places, at)
    BY <1>1, FragmentsGrow
  <2> QED
    BY <2>1 DEF GrowsAt
<1>8. \A k : FragmentsOf(key, places, k) \in Seq(StreamChunks)
  BY ChosenIn DEF FragmentsOf
<1> HIDE DEF order, more, mine
<1>9. ASSUME NEW n \in DOMAIN calls
      PROVE  later[n] = CallFrom(FragmentsOf(key, places \cup {at}, key[order[n]]))
  <2>1. CASE n = mine
    <3>1. key[order[n]] = key[at]
      BY <1>5, <2>1 DEF mine
    <3>2. CallFrom(Append(FragmentsOf(key, places, key[at]), input[at])) =
             WithFragment(CallFrom(FragmentsOf(key, places, key[at])), input[at])
      BY <1>1, <1>8, CallFromAppend
    <3> QED
      BY <1>5, <1>6, <1>7, <2>1, <3>1, <3>2
  <2>2. CASE n # mine
    <3>1. key[order[n]] # key[at]
      BY <1>5, <2>2 DEF mine
    <3> QED
      BY <1>5, <1>6, <1>7, <2>2, <3>1
  <2> QED
    BY <2>1, <2>2
<1>10. {key[j] : j \in more} = DOMAIN table
  BY <1>5 DEF more
<1>11. /\ order \in Seq(Nat) /\ Len(order) = Len(later)
       /\ \A n \in DOMAIN later :
             /\ later[n] = CallFrom(FragmentsOf(key, more, key[order[n]]))
             /\ key[order[n]] \in DOMAIN after
             /\ after[key[order[n]]] = n
       /\ DOMAIN after = {key[j] : j \in more}
       /\ \A k \in DOMAIN after : after[k] \in DOMAIN later /\ key[order[after[k]]] = k
  <2>1. \A n \in DOMAIN later :
             later[n] = CallFrom(FragmentsOf(key, more, key[order[n]]))
    BY <1>6, <1>9 DEF more
  <2> QED
    BY <1>5, <1>6, <1>10, <2>1
<1> QED
  BY <1>4, <1>11, Zenon DEF CallsTo, more

\* One more fragment, which begins a call.
LEMMA CallBegins ==
    ASSUME input \in Seq(StreamChunks), NEW key, NEW at \in DOMAIN key,
           DOMAIN key \subseteq DOMAIN input,
           NEW places, places = DOMAIN key \cap 1..(at - 1),
           NEW calls \in Seq(RawCalls), NEW table, CallsTo(calls, table, key, places),
           key[at] \notin DOMAIN table,
           NEW call, call = WithFragment(NoCall, input[at]), NEW later \in Seq(RawCalls),
           later = Append(calls, call),
           NEW after, DOMAIN after = DOMAIN table \cup {key[at]},
           after[key[at]] = Len(calls) + 1,
           \A k \in DOMAIN table : after[k] = table[k]
    PROVE  CallsTo(later, after, key, places \cup {at})
<1> DEFINE more == places \cup {at}
           order == Order(key, places)
           longer == Order(key, more)
           last == Len(calls) + 1
<1>1. /\ at \in DOMAIN input /\ input[at] \in StreamChunks /\ at \in Nat
      /\ \A i \in DOMAIN key : i \in Nat
      /\ AreBefore(places, at)
  BY PlacesOf DEF AreBefore
<1>2. /\ order \in Seq(Nat) /\ Len(order) = Len(calls)
      /\ \A n \in DOMAIN calls : /\ calls[n] = CallFrom(FragmentsOf(key, places, key[order[n]]))
                                 /\ key[order[n]] \in DOMAIN table
                                 /\ table[key[order[n]]] = n
      /\ DOMAIN table = {key[j] : j \in places}
      /\ \A k \in DOMAIN table : table[k] \in DOMAIN calls /\ key[order[table[k]]] = k
  BY DEF CallsTo
<1>3. at \in Begins(key)
  <2>1. \A j \in DOMAIN key : j < at => j \in places
    <3>1. ASSUME NEW j \in DOMAIN key, j < at PROVE j \in 1..(at - 1)
      <4>1. j \in Nat /\ j # 0
        BY PlacesOf
      <4> QED
        BY <1>1, <3>1, <4>1
    <3> QED
      BY <3>1
  <2> QED
    BY <1>2, <2>1 DEF Begins
<1>4. longer = Append(order, at)
  BY <1>1, <1>3, OrderGrows
<1>5. /\ longer \in Seq(Nat) /\ Len(longer) = last /\ longer[last] = at
      /\ \A n \in DOMAIN calls : longer[n] = order[n]
  <2>1. DOMAIN calls = 1..Len(order)
    BY <1>2, LenProperties
  <2> HIDE DEF order, longer
  <2> QED
    BY <1>1, <1>2, <1>4, <2>1, AppendProperties
<1>6. /\ Len(later) = last /\ DOMAIN later = DOMAIN calls \cup {last}
      /\ later[last] = call
      /\ \A n \in DOMAIN calls : later[n] = calls[n]
  <2>1. Len(calls) \in Nat /\ DOMAIN calls = 1..Len(calls) /\ DOMAIN later = 1..Len(later)
    BY LenProperties
  <2>2. /\ Len(later) = Len(calls) + 1 /\ later[Len(calls) + 1] = call
        /\ \A n \in 1..Len(calls) : later[n] = calls[n]
    <3>1. Len(Append(calls, call)) = Len(calls) + 1
      OBVIOUS
    <3>2. \A n \in 1..Len(calls) : Append(calls, call)[n] = calls[n]
      OBVIOUS
    <3>3. Append(calls, call)[Len(calls) + 1] = call
      OBVIOUS
    <3> QED
      BY <3>1, <3>2, <3>3
  <2>3. 1..(Len(calls) + 1) = (1..Len(calls)) \cup {Len(calls) + 1}
    BY <2>1
  <2> QED
    BY <2>1, <2>2, <2>3
<1>7. \A k : FragmentsOf(key, places \cup {at}, k) =
                IF k = key[at] THEN Append(FragmentsOf(key, places, k), input[at])
                ELSE FragmentsOf(key, places, k)
  <2>1. GrowsAt(key, places, at)
    BY <1>1, FragmentsGrow
  <2> QED
    BY <2>1 DEF GrowsAt
<1>8. FragmentsOf(key, places, key[at]) = <<>>
  <2>1. {i \in places : key[i] = key[at]} = {}
    BY <1>2
  <2>2. Chosen(input, {}) = <<>>
    BY NoneChosen
  <2> QED
    BY <2>1, <2>2 DEF FragmentsOf
<1> HIDE DEF order, longer, more, last
<1>9. later[last] = CallFrom(FragmentsOf(key, places \cup {at}, key[longer[last]]))
  <2>1. <<>> \in Seq(StreamChunks)
    BY EmptySeq
  <2>2. CallFrom(Append(<<>>, input[at])) = WithFragment(NoCall, input[at])
    BY <1>1, <2>1, CallFromAppend, CallFromNone
  <2> QED
    BY <1>5, <1>6, <1>7, <1>8, <2>2
<1>10. ASSUME NEW n \in DOMAIN calls
       PROVE  /\ later[n] = CallFrom(FragmentsOf(key, places \cup {at}, key[longer[n]]))
              /\ key[longer[n]] \in DOMAIN table /\ after[key[longer[n]]] = n
  <2>1. key[order[n]] # key[at] /\ key[order[n]] \in DOMAIN table
    BY <1>2
  <2>2. longer[n] = order[n] /\ later[n] = calls[n]
    BY <1>5, <1>6
  <2>3. later[n] = CallFrom(FragmentsOf(key, places \cup {at}, key[order[n]]))
    BY <1>2, <1>7, <2>1, <2>2
  <2>4. after[key[order[n]]] = n
    BY <1>2, <2>1
  <2> QED
    BY <2>1, <2>2, <2>3, <2>4
<1>11. {key[j] : j \in more} = DOMAIN table \cup {key[at]}
  BY <1>2 DEF more
<1>12. after[key[longer[last]]] = last /\ key[longer[last]] = key[at]
  BY <1>5 DEF last
<1>13. \A k \in DOMAIN after : after[k] \in DOMAIN later /\ key[longer[after[k]]] = k
  <2>1. ASSUME NEW k \in DOMAIN table
        PROVE  after[k] \in DOMAIN later /\ key[longer[after[k]]] = k
    <3>1. after[k] = table[k] /\ table[k] \in DOMAIN calls /\ key[order[table[k]]] = k
      BY <1>2, <2>1
    <3> QED
      BY <1>5, <1>6, <3>1
  <2> QED
    BY <1>6, <1>12, <2>1
<1> QED
  BY <1>5, <1>6, <1>9, <1>10, <1>11, <1>12, <1>13 DEF CallsTo, longer, more

-----------------------------------------------------------------------------
\* Chunk by chunk.

Ended(k) == \E j \in 1..k : input[j].kind = "end"
HeardBy(kind, k) == HeardOf(kind) \cap 1..k

\* What one more chunk adds to what is heard.
LEMMA OneMoreHeard ==
    ASSUME input \in Seq(StreamChunks), NEW k \in 0..(Len(input) - 1)
    PROVE  /\ Ended(k + 1) <=> Ended(k) \/ input[k + 1].kind = "end"
           /\ \A kind \in {"text", "fragment"} :
                 IF ~Ended(k) /\ input[k + 1].kind = kind
                 THEN /\ k + 1 \in HeardOf(kind)
                      /\ HeardBy(kind, k + 1) = HeardBy(kind, k) \cup {k + 1}
                 ELSE HeardBy(kind, k + 1) = HeardBy(kind, k)
<1>1. /\ k \in Nat /\ 1..(k + 1) = (1..k) \cup {k + 1} /\ k + 1 \in DOMAIN input
      /\ k + 1 \in 1..(k + 1)
  <2>1. Len(input) \in Nat /\ DOMAIN input = 1..Len(input)
    BY PlacesOf
  <2> QED
    BY <2>1
<1>2. Ended(k + 1) <=> Ended(k) \/ input[k + 1].kind = "end"
  BY <1>1 DEF Ended
<1>3. k + 1 \in Heard <=> ~Ended(k + 1)
  BY <1>1 DEF Heard, Ended
<1>4. ASSUME NEW kind \in {"text", "fragment"}
      PROVE  IF ~Ended(k) /\ input[k + 1].kind = kind
             THEN /\ k + 1 \in HeardOf(kind)
                  /\ HeardBy(kind, k + 1) = HeardBy(kind, k) \cup {k + 1}
             ELSE HeardBy(kind, k + 1) = HeardBy(kind, k)
  <2>1. kind # "end"
    OBVIOUS
  <2>2. k + 1 \in HeardOf(kind) <=> ~Ended(k) /\ input[k + 1].kind = kind
    BY <1>2, <1>3, <2>1 DEF HeardOf
  <2>3. HeardBy(kind, k + 1) = HeardBy(kind, k) \cup (HeardOf(kind) \cap {k + 1})
    BY <1>1 DEF HeardBy
  <2> QED
    BY <2>2, <2>3
<1> QED
  BY <1>2, <1>4

\* key tells the calls apart by what every fragment that is heard carries.
IsKeyOf(key, mark) ==
    /\ DOMAIN key = HeardOf("fragment")
    /\ \A i \in DOMAIN key : key[i] = KeyOf(input[i], mark) /\ IsMarked(input[i], mark)

\* stream is what the first k chunks make.
AssembledTo(stream, key, mark, k) ==
    /\ stream.finished <=> Ended(k)
    /\ stream.queue = Chosen(input, HeardBy("text", k))
    /\ CallsTo(stream.calls, TableOf(stream, mark), key, HeardBy("fragment", k))

LEMMA AssemblyStarts ==
    ASSUME input \in Seq(StreamChunks), NEW key, NEW mark \in Marks
    PROVE  AssembledTo(newStream, key, mark, 0)
<1>1. 1..0 = {}
  OBVIOUS
<1>2. ~Ended(0) /\ HeardBy("text", 0) = {} /\ HeardBy("fragment", 0) = {}
  BY <1>1 DEF Ended, HeardBy
<1>3. Chosen(input, {}) = <<>>
  BY NoneChosen
<1>4. Order(key, {}) = <<>>
  <2> DEFINE positions == [i \in DOMAIN input |-> i]
  <2>1. positions \in Seq(Nat)
    <3>1. Len(input) \in Nat /\ DOMAIN input = 1..Len(input) /\ \A i \in DOMAIN input : i \in Nat
      BY PlacesOf
    <3>2. positions \in [1..Len(input) -> Nat]
      BY <3>1
    <3> HIDE DEF positions
    <3> QED
      BY <3>1, <3>2
  <2>2. Begins(key) \cap {} = {}
    OBVIOUS
  <2> HIDE DEF positions
  <2>3. Chosen(positions, {}) = <<>>
    BY <2>1, NoneChosen
  <2> QED
    BY <2>2, <2>3 DEF Order, positions
<1>5. /\ ~newStream.finished /\ newStream.queue = <<>> /\ newStream.calls = <<>>
      /\ TableOf(newStream, mark) = <<>>
  BY DEF newStream, TableOf
<1>6. CallsTo(<<>>, <<>>, key, {})
  <2>1. <<>> \in Seq(Nat) /\ DOMAIN <<>> = {} /\ {key[i] : i \in {}} = {}
    BY EmptySeq
  <2> QED
    BY <1>4, <2>1 DEF CallsTo
<1> QED
  BY <1>2, <1>3, <1>5, <1>6 DEF AssembledTo

LEMMA AssemblyStep ==
    ASSUME input \in Seq(StreamChunks), NEW key, NEW mark \in Marks, IsKeyOf(key, mark),
           NEW k \in 0..(Len(input) - 1), NEW stream \in Streams,
           AssembledTo(stream, key, mark, k)
    PROVE  AssembledTo(consume(stream, input[k + 1]), key, mark, k + 1)
<1> DEFINE at == k + 1
           chunk == input[at]
           next == consume(stream, chunk)
           places == HeardBy("fragment", k)
           table == TableOf(stream, mark)
<1>1. at \in DOMAIN input /\ at \in 1..Len(input) /\ chunk \in StreamChunks /\ k = at - 1
  <2>1. Len(input) \in Nat /\ DOMAIN input = 1..Len(input)
    BY PlacesOf
  <2>2. at \in 1..Len(input) /\ k = at - 1
    BY <2>1
  <2> QED
    BY <2>1, <2>2, PlacesOf
<1>2. chunk.kind \in {"fragment", "text", "garbled", "end"}
      /\ (chunk.kind = "fragment" => chunk \in StreamFragments)
  BY <1>1, KindsOf
<1>3. /\ Ended(at) <=> Ended(k) \/ chunk.kind = "end"
      /\ \A kind \in {"text", "fragment"} :
            IF ~Ended(k) /\ chunk.kind = kind
            THEN at \in HeardOf(kind) /\ HeardBy(kind, at) = HeardBy(kind, k) \cup {at}
            ELSE HeardBy(kind, at) = HeardBy(kind, k)
  BY OneMoreHeard
<1>4. /\ stream.finished <=> Ended(k)
      /\ stream.queue = Chosen(input, HeardBy("text", k))
      /\ CallsTo(stream.calls, table, key, places)
  BY DEF AssembledTo
<1>5. CASE stream.finished \/ chunk.kind = "garbled"
  <2>1. next = stream
    BY <1>5 DEF consume
  <2>2. /\ HeardBy("text", at) = HeardBy("text", k) /\ HeardBy("fragment", at) = places
        /\ Ended(at) <=> Ended(k)
    BY <1>3, <1>4, <1>5
  <2> HIDE DEF at, places, table, next
  <2> QED
    BY <1>4, <2>1, <2>2 DEF AssembledTo, next, table, at, places
<1>6. CASE ~stream.finished /\ chunk.kind = "end"
  <2>1. next = [stream EXCEPT !.finished = TRUE]
    BY <1>6 DEF consume
  <2>2. /\ next.finished /\ next.queue = stream.queue /\ next.calls = stream.calls
        /\ TableOf(next, mark) = table
    BY <2>1 DEF Streams, TableOf
  <2>3. /\ HeardBy("text", at) = HeardBy("text", k) /\ HeardBy("fragment", at) = places
        /\ Ended(at)
    BY <1>3, <1>6
  <2> HIDE DEF next, places, table
  <2>4. AssembledTo(next, key, mark, at)
    <3> HIDE DEF at
    <3> QED
      BY <1>4, <2>2, <2>3 DEF AssembledTo
  <2> QED
    BY <2>4 DEF next
<1>7. CASE ~stream.finished /\ chunk.kind = "text"
  <2>1. next = [stream EXCEPT !.queue = Append(stream.queue, chunk)]
    BY <1>7 DEF consume
  <2>2. /\ next.finished = stream.finished /\ next.queue = Append(stream.queue, chunk)
        /\ next.calls = stream.calls /\ TableOf(next, mark) = table
    BY <2>1 DEF Streams, TableOf
  <2>3. /\ HeardBy("text", at) = HeardBy("text", k) \cup {at}
        /\ HeardBy("fragment", at) = places
        /\ Ended(at) <=> Ended(k)
    BY <1>3, <1>4, <1>7
  <2>4. \A i \in HeardBy("text", k) : i \in 1..(at - 1)
    BY <1>1 DEF HeardBy
  <2> HIDE DEF next, places, table, at
  <2>5. Chosen(input, HeardBy("text", k) \cup {at}) =
           Append(Chosen(input, HeardBy("text", k)), input[at])
    BY <1>1, <2>4, ChosenGrows
  <2>6. AssembledTo(next, key, mark, at)
    BY <1>4, <2>2, <2>3, <2>5 DEF AssembledTo
  <2> QED
    BY <2>6 DEF next, at
<1>8. CASE ~stream.finished /\ chunk.kind = "fragment"
  <2>1. next = mergeToolCall(stream, chunk) /\ chunk \in StreamFragments
    BY <1>2, <1>8 DEF consume
  <2>2. /\ at \in DOMAIN key /\ HeardBy("fragment", at) = places \cup {at}
        /\ HeardBy("text", at) = HeardBy("text", k)
        /\ Ended(at) <=> Ended(k)
    BY <1>3, <1>4, <1>8 DEF IsKeyOf
  <2>3. key[at] = KeyOf(chunk, mark) /\ IsMarked(chunk, mark)
    BY <2>2 DEF IsKeyOf
  <2>4. /\ places = DOMAIN key \cap 1..(at - 1) /\ places \subseteq DOMAIN key
        /\ AreBefore(places, at) /\ DOMAIN key \subseteq DOMAIN input
    BY <1>1 DEF HeardBy, IsKeyOf, AreBefore, HeardOf, Heard
  <2>5. stream.calls \in Seq(RawCalls) /\ next.calls \in Seq(RawCalls)
    BY <1>1, ConsumeType DEF Streams
  <2> HIDE DEF next, places, at, chunk
  <2>6. /\ CallsTo(next.calls, TableOf(next, mark), key, places \cup {at})
        /\ next.queue = stream.queue
        /\ next.finished = stream.finished
    <3>1. CASE key[at] \in DOMAIN table
      <4> DEFINE n == table[key[at]]
      <4>1. n \in DOMAIN stream.calls
        BY <1>4, <3>1 DEF CallsTo
      <4> HIDE DEF n
      <4>2. GoesTo(next, stream, chunk, mark, n)
        BY <2>1, <2>3, <3>1, <4>1, MergedKnown DEF n
      <4> HIDE DEF table
      <4>3. /\ next.calls = [stream.calls EXCEPT ![n] = WithFragment(stream.calls[n], input[at])]
            /\ DOMAIN TableOf(next, mark) = DOMAIN table
            /\ \A x \in DOMAIN table : TableOf(next, mark)[x] = table[x]
            /\ next.queue = stream.queue
            /\ next.finished = stream.finished
        BY <4>2 DEF GoesTo, table, chunk
      <4> DEFINE later == next.calls
                 after == TableOf(next, mark)
                 calls == stream.calls
      <4> HIDE DEF later, after, calls
      <4>4. CallsTo(later, after, key, places \cup {at})
        <5>1. later = [calls EXCEPT ![table[key[at]]] =
                          WithFragment(calls[table[key[at]]], input[at])]
          BY <4>3 DEF n, later, calls
        <5>2. CallsTo(calls, table, key, places) /\ calls \in Seq(RawCalls)
              /\ later \in Seq(RawCalls)
          BY <1>4, <2>5 DEF calls, later
        <5>3. DOMAIN after = DOMAIN table /\ \A x \in DOMAIN table : after[x] = table[x]
          BY <4>3 DEF after
        <5> QED
          BY <2>2, <2>4, <3>1, <5>1, <5>2, <5>3, CallGoesOn
      <4> QED
        BY <4>3, <4>4 DEF later, after
    <3>2. CASE key[at] \notin DOMAIN table
      <4>2. OpensFor(next, stream, chunk, mark)
        BY <2>1, <2>3, <3>2, MergedNew
      <4> HIDE DEF table
      <4> DEFINE later == next.calls
                 after == TableOf(next, mark)
                 calls == stream.calls
                 call == WithFragment(NoCall, input[at])
      <4>3. /\ later = Append(calls, call)
            /\ DOMAIN after = DOMAIN table \cup {key[at]}
            /\ after[key[at]] = Len(calls) + 1
            /\ \A x \in DOMAIN table : after[x] = table[x]
            /\ next.queue = stream.queue
            /\ next.finished = stream.finished
        BY <2>3, <4>2 DEF OpensFor, table, chunk
      <4>4. CallsTo(calls, table, key, places) /\ calls \in Seq(RawCalls)
            /\ later \in Seq(RawCalls) /\ call = WithFragment(NoCall, input[at])
        BY <1>4, <2>5
      <4> HIDE DEF later, after, calls, call
      <4>5. CallsTo(later, after, key, places \cup {at})
        BY <2>2, <2>4, <3>2, <4>3, <4>4, CallBegins
      <4> QED
        BY <4>3, <4>5 DEF later, after
    <3> QED
      BY <3>1, <3>2
  <2>7. AssembledTo(next, key, mark, at)
    BY <1>4, <2>2, <2>6 DEF AssembledTo
  <2> QED
    BY <2>7 DEF next, at, chunk
<1> QED
  BY <1>2, <1>5, <1>6, <1>7, <1>8 DEF Streams

LEMMA AssembledAll ==
    ASSUME input \in Seq(StreamChunks), NEW key, NEW mark \in Marks, IsKeyOf(key, mark)
    PROVE  \E stream \in Streams : /\ AssembledTo(stream, key, mark, Len(input))
                                   /\ Events(input) = flush(stream)
<1> DEFINE m == Len(input)
<1>1. m \in Nat
  BY LenProperties
<1>2. PICK g : Reads(g, input)
  BY ReadSteps
<1>3. /\ \A k \in 0..m : g[k] \in Streams
      /\ g[0] = newStream
      /\ \A i \in 1..m : g[i] = consume(g[i - 1], input[i])
      /\ Events(input) = flush(g[m])
  BY <1>2 DEF Reads
<1> DEFINE T == {k \in 0..m : AssembledTo(g[k], key, mark, k)}
<1>4. 0 \in T
  BY <1>1, <1>3, AssemblyStarts
<1>5. ASSUME NEW k \in 0..(m - 1), k \in T PROVE k + 1 \in T
  <2>1. k + 1 \in 1..m /\ k + 1 \in 0..m /\ k \in 0..m /\ (k + 1) - 1 = k
    BY <1>1
  <2>2. g[k + 1] = consume(g[k], input[k + 1]) /\ g[k] \in Streams
    BY <1>3, <2>1
  <2>3. AssembledTo(g[k], key, mark, k)
    BY <1>5
  <2>4. AssembledTo(consume(g[k], input[k + 1]), key, mark, k + 1)
    BY <2>2, <2>3, AssemblyStep
  <2> QED
    BY <2>1, <2>2, <2>4
<1>6. m \in T
  <2> HIDE DEF T
  <2>1. 0..m \subseteq T
    <3> HIDE DEF m
    <3> QED
      BY <1>1, <1>4, <1>5, IntervalInduction
  <2> QED
    BY <1>1, <2>1
<1> QED
  BY <1>1, <1>3, <1>6

\* What comes out is the text and then each call with all that was sent of it.
LEMMA StreamAssembled ==
    ASSUME input \in Seq(StreamChunks), NEW key, NEW mark \in Marks, IsKeyOf(key, mark)
    PROVE  Events(input) = Texts \o CallsBy(key) \o <<EndMark>>
<1>1. PICK stream \in Streams : /\ AssembledTo(stream, key, mark, Len(input))
                                /\ Events(input) = flush(stream)
  BY AssembledAll
<1>2. /\ HeardBy("text", Len(input)) = HeardOf("text")
      /\ HeardBy("fragment", Len(input)) = DOMAIN key
  <2>1. DOMAIN input = 1..Len(input)
    BY LenProperties
  <2> QED
    BY <2>1 DEF HeardBy, HeardOf, Heard, IsKeyOf
<1>3. stream.queue = Texts
      /\ CallsTo(stream.calls, TableOf(stream, mark), key, DOMAIN key)
  BY <1>1, <1>2 DEF AssembledTo, Texts
<1> DEFINE calls == stream.calls
           order == Order(key, DOMAIN key)
           of(n) == FragmentsOf(key, DOMAIN key, key[order[n]])
           Finished(n) ==
              [calls[n] EXCEPT !.id = IF @ = "" THEN <<"call", n>> ELSE <<"sent", @>>]
           id(n) == FirstOf([i \in DOMAIN of(n) |-> of(n)[i].id])
           Call(n) ==
              [id |-> IF id(n) = "" THEN <<"call", n>> ELSE <<"sent", id(n)>>,
               name |-> FirstOf([i \in DOMAIN of(n) |-> of(n)[i].name]),
               args |-> [i \in DOMAIN of(n) |-> of(n)[i].piece]]
<1>4. order = Chosen([i \in DOMAIN input |-> i], Begins(key))
  <2>1. Begins(key) \cap DOMAIN key = Begins(key)
    BY DEF Begins
  <2> QED
    BY <2>1 DEF Order
<1>5. CallsBy(key) =
         Chosen([n \in DOMAIN order |-> Call(n)], {n \in DOMAIN order : Call(n).name # ""})
  BY <1>4, Zenon DEF CallsBy, Begins, FragmentsOf
<1>6. flush(stream) =
         stream.queue
            \o Chosen([n \in DOMAIN calls |-> Finished(n)],
                      {n \in DOMAIN calls : calls[n].name # ""})
            \o <<EndMark>>
  BY Zenon DEF flush
<1>7. DOMAIN order = DOMAIN calls
  <2>1. order \in Seq(Nat) /\ Len(order) = Len(calls) /\ calls \in Seq(RawCalls)
    BY <1>3 DEF CallsTo, Streams
  <2> QED
    BY <2>1, LenProperties
<1>8. ASSUME NEW n \in DOMAIN calls
      PROVE  Call(n) = Finished(n) /\ Call(n).name = calls[n].name
  <2>1. calls[n] = CallFrom(of(n))
    BY <1>3 DEF CallsTo
  <2> HIDE DEF of
  <2>2. calls[n] = [id |-> id(n), name |-> FirstOf([i \in DOMAIN of(n) |-> of(n)[i].name]),
                    args |-> [i \in DOMAIN of(n) |-> of(n)[i].piece]]
    BY <2>1 DEF CallFrom
  <2> DEFINE name == FirstOf([i \in DOMAIN of(n) |-> of(n)[i].name])
             args == [i \in DOMAIN of(n) |-> of(n)[i].piece]
             sent == id(n)
             call == calls[n]
             finished == IF sent = "" THEN <<"call", n>> ELSE <<"sent", sent>>
  <2>3. Call(n) = [id |-> finished, name |-> name, args |-> args]
    OBVIOUS
  <2>4. call = [id |-> sent, name |-> name, args |-> args]
    BY <2>2
  <2>5. Finished(n) =
           [call EXCEPT !.id = IF call.id = "" THEN <<"call", n>> ELSE <<"sent", call.id>>]
    BY Zenon
  <2> HIDE DEF sent, name, args, call
  <2>6. call.id = sent /\ call.name = name
    BY <2>4
  <2> HIDE DEF finished
  <2>7. [call EXCEPT !.id = finished] = [id |-> finished, name |-> name, args |-> args]
    BY <2>4
  <2> HIDE DEF Call, Finished
  <2>8. Call(n) = Finished(n)
    BY <2>3, <2>5, <2>6, <2>7 DEF finished
  <2>9. Call(n).name = call.name
    BY <2>3, <2>6
  <2> QED
    BY <2>8, <2>9 DEF call
<1> HIDE DEF Call, Finished, calls, order
<1>9. [n \in DOMAIN order |-> Call(n)] = [n \in DOMAIN calls |-> Finished(n)]
      /\ {n \in DOMAIN order : Call(n).name # ""} = {n \in DOMAIN calls : calls[n].name # ""}
  BY <1>7, <1>8
<1> QED
  BY <1>1, <1>3, <1>5, <1>6, <1>9

-----------------------------------------------------------------------------
\* The configuration: what is laid over what.

\* Two files are laid over the defaults one after the other.
LEMMA TwoMerged ==
    ASSUME NEW files, DOMAIN files = 1..2
    PROVE  Merged(files) = mergeFile(mergeFile(Default, files[1]), files[2])
<1> DEFINE first == mergeFile(Default, files[1])
           both == mergeFile(first, files[2])
           IsFold(f) == f = [s \in SUBSET DOMAIN files |->
              IF s = {} THEN Default ELSE mergeFile(f[s \ {Max(s)}], files[Max(s)])]
           fold == CHOOSE f : IsFold(f)
           ours == [s \in SUBSET (1..2) |->
              CASE s = {} -> Default [] s = {1} -> first
                [] s = {2} -> mergeFile(Default, files[2]) [] OTHER -> both]
<1>1. Merged(files) = fold[DOMAIN files]
  BY DEF Merged, FoldLeft, MapThenFoldSet
<1>2. Max({1}) = 1 /\ Max({2}) = 2 /\ Max({1, 2}) = 2
  BY DEF Max
<1>3. /\ 1..2 = {1, 2} /\ SUBSET (1..2) = {{}, {1}, {2}, {1, 2}}
      /\ {1} \ {1} = {} /\ {2} \ {2} = {} /\ {1, 2} \ {2} = {1}
      /\ {1} # {} /\ {2} # {} /\ {1, 2} # {} /\ {1} # {2} /\ {1, 2} # {1} /\ {1, 2} # {2}
  <2>1. 1..2 = {1, 2}
    OBVIOUS
  <2>2. SUBSET {1, 2} = {{}, {1}, {2}, {1, 2}}
    <3>1. ASSUME NEW s \in SUBSET {1, 2} PROVE s \in {{}, {1}, {2}, {1, 2}}
      <4>1. CASE 1 \in s /\ 2 \in s
        BY <4>1
      <4>2. CASE 1 \in s /\ 2 \notin s
        BY <4>2
      <4>3. CASE 1 \notin s /\ 2 \in s
        BY <4>3
      <4>4. CASE 1 \notin s /\ 2 \notin s
        BY <4>4
      <4> QED
        BY <4>1, <4>2, <4>3, <4>4
    <3> QED
      BY <3>1
  <2> QED
    BY <2>1, <2>2
<1>4. ours[{}] = Default /\ ours[{1}] = first
      /\ ours[{2}] = mergeFile(Default, files[2]) /\ ours[{1, 2}] = both
  BY <1>3
<1>5. \A s \in SUBSET (1..2) :
         ours[s] = IF s = {} THEN Default ELSE mergeFile(ours[s \ {Max(s)}], files[Max(s)])
  <2> HIDE DEF ours
  <2> QED
    BY <1>2, <1>3, <1>4
<1>6. IsFold(ours)
  BY <1>5
<1>7. IsFold(fold)
  <2> HIDE DEF IsFold
  <2> QED
    BY <1>6
<1> HIDE DEF fold, ours
<1>8. \A s \in SUBSET (1..2) :
         fold[s] = IF s = {} THEN Default ELSE mergeFile(fold[s \ {Max(s)}], files[Max(s)])
  BY <1>7
<1>9. fold[{1, 2}] = both
  <2>1. fold[{}] = Default
    BY <1>8
  <2>2. fold[{1}] = mergeFile(fold[{1} \ {Max({1})}], files[Max({1})])
    BY <1>3, <1>8
  <2>3. fold[{1}] = first
    BY <1>2, <1>3, <2>1, <2>2
  <2>4. fold[{1, 2}] = mergeFile(fold[{1, 2} \ {Max({1, 2})}], files[Max({1, 2})])
    BY <1>3, <1>8
  <2> QED
    BY <1>2, <1>3, <2>3, <2>4
<1> QED
  BY <1>1, <1>3, <1>9

\* The last of two that mentions a key is the second, or else the first.
LEMMA LastOfTwo ==
    ASSUME NEW said \in SUBSET (1..2)
    PROVE  /\ 2 \in said => said # {} /\ Max(said) = 2
           /\ 1 \in said /\ 2 \notin said => said # {} /\ Max(said) = 1
           /\ 1 \notin said /\ 2 \notin said => said = {}
<1>1. said # {} => Max(said) \in said /\ \A x \in said : x =< Max(said)
  BY MaxIs
<1>2. \A x \in said : x = 1 \/ x = 2
  OBVIOUS
<1>3. ASSUME 2 \in said PROVE Max(said) = 2
  <2>1. Max(said) = 1 \/ Max(said) = 2
    BY <1>1, <1>2, <1>3
  <2>2. 2 =< Max(said)
    BY <1>1, <1>3
  <2> QED
    BY <2>1, <2>2
<1>4. ASSUME 1 \in said, 2 \notin said PROVE Max(said) = 1
  BY <1>1, <1>2, <1>4
<1>5. ASSUME 1 \notin said, 2 \notin said PROVE said = {}
  BY <1>2, <1>5
<1> QED
  BY <1>3, <1>4, <1>5

LEMMA LastFileSays ==
    ASSUME DOMAIN input = 1..2
    PROVE  LET config == Merged(input)
               LastSaid(key, Of(_)) ==
                  LET said == {i \in 1..2 : key \in DOMAIN Of(input[i])}
                  IN  IF said = {} THEN Of(Default)[key] ELSE Of(input[Max(said)])[key]
           IN  /\ DOMAIN config.settings = DOMAIN Default.settings
                    \cup DOMAIN input[1].settings \cup DOMAIN input[2].settings
               /\ DOMAIN config.providers = DOMAIN Default.providers
                    \cup DOMAIN input[1].providers \cup DOMAIN input[2].providers
               /\ \A key \in DOMAIN config.settings :
                    config.settings[key] = LastSaid(key, LAMBDA file : file.settings)
               /\ \A key \in DOMAIN config.providers :
                    config.providers[key] = LastSaid(key, LAMBDA file : file.providers)
<1> DEFINE config == Merged(input)
           Settled(key) == {i \in 1..2 : key \in DOMAIN input[i].settings}
           Provided(key) == {i \in 1..2 : key \in DOMAIN input[i].providers}
<1>1. /\ config.settings =
            Laid(Laid(Default.settings, input[1].settings), input[2].settings)
      /\ config.providers =
            Laid(Laid(Default.providers, input[1].providers), input[2].providers)
  BY TwoMerged DEF mergeFile
<1> HIDE DEF config
<1>2. /\ DOMAIN config.settings = DOMAIN Default.settings
           \cup DOMAIN input[1].settings \cup DOMAIN input[2].settings
      /\ \A key \in DOMAIN config.settings : config.settings[key] =
           IF key \in DOMAIN input[2].settings THEN input[2].settings[key]
           ELSE IF key \in DOMAIN input[1].settings THEN input[1].settings[key]
           ELSE Default.settings[key]
  BY <1>1 DEF Laid
<1>3. /\ DOMAIN config.providers = DOMAIN Default.providers
           \cup DOMAIN input[1].providers \cup DOMAIN input[2].providers
      /\ \A key \in DOMAIN config.providers : config.providers[key] =
           IF key \in DOMAIN input[2].providers THEN input[2].providers[key]
           ELSE IF key \in DOMAIN input[1].providers THEN input[1].providers[key]
           ELSE Default.providers[key]
  BY <1>1 DEF Laid
<1>4. ASSUME NEW key \in DOMAIN config.settings
      PROVE  config.settings[key] =
                IF Settled(key) = {} THEN Default.settings[key]
                ELSE input[Max(Settled(key))].settings[key]
  <2>1. Settled(key) \in SUBSET (1..2)
        /\ (1 \in Settled(key) <=> key \in DOMAIN input[1].settings)
        /\ (2 \in Settled(key) <=> key \in DOMAIN input[2].settings)
    OBVIOUS
  <2> HIDE DEF Settled
  <2>2. /\ 2 \in Settled(key) => Settled(key) # {} /\ Max(Settled(key)) = 2
        /\ 1 \in Settled(key) /\ 2 \notin Settled(key)
              => Settled(key) # {} /\ Max(Settled(key)) = 1
        /\ 1 \notin Settled(key) /\ 2 \notin Settled(key) => Settled(key) = {}
    BY <2>1, LastOfTwo
  <2>3. config.settings[key] =
           IF key \in DOMAIN input[2].settings THEN input[2].settings[key]
           ELSE IF key \in DOMAIN input[1].settings THEN input[1].settings[key]
           ELSE Default.settings[key]
    BY <1>2
  <2> QED
    BY <2>1, <2>2, <2>3
<1>5. ASSUME NEW key \in DOMAIN config.providers
      PROVE  config.providers[key] =
                IF Provided(key) = {} THEN Default.providers[key]
                ELSE input[Max(Provided(key))].providers[key]
  <2>1. Provided(key) \in SUBSET (1..2)
        /\ (1 \in Provided(key) <=> key \in DOMAIN input[1].providers)
        /\ (2 \in Provided(key) <=> key \in DOMAIN input[2].providers)
    OBVIOUS
  <2> HIDE DEF Provided
  <2>2. /\ 2 \in Provided(key) => Provided(key) # {} /\ Max(Provided(key)) = 2
        /\ 1 \in Provided(key) /\ 2 \notin Provided(key)
              => Provided(key) # {} /\ Max(Provided(key)) = 1
        /\ 1 \notin Provided(key) /\ 2 \notin Provided(key) => Provided(key) = {}
    BY <2>1, LastOfTwo
  <2>3. config.providers[key] =
           IF key \in DOMAIN input[2].providers THEN input[2].providers[key]
           ELSE IF key \in DOMAIN input[1].providers THEN input[1].providers[key]
           ELSE Default.providers[key]
    BY <1>3
  <2> QED
    BY <2>1, <2>2, <2>3
<1> QED
  BY <1>4, <1>5, <1>2, <1>3 DEF config

\* A reference that the merged configuration resolves is one that the two files
\* serve between them.
LEMMA FilesDecide ==
    ASSUME DOMAIN input = 1..2, part = "config"
    PROVE  LaterFileWins
<1> DEFINE config == Merged(input)
           set == config.settings
           LastSaid(key, Of(_)) ==
              LET said == {i \in 1..2 : key \in DOMAIN Of(input[i])}
              IN  IF said = {} THEN Of(Default)[key] ELSE Of(input[Max(said)])[key]
           Provider(key) == LastSaid(key, LAMBDA file : file.providers)
           Named == {set.model}
               \cup (IF set.routing = "auto" THEN {set.small, set.large} ELSE {})
           Served(ref) ==
               \E i \in 1..2 :
                   /\ ref[1] \in DOMAIN input[i].providers \cup {"ollama"}
                   /\ LET models == Provider(ref[1]).models
                      IN  models = {} \/ ref[2] \in models
<1>1. /\ DOMAIN set = DOMAIN Default.settings
           \cup DOMAIN input[1].settings \cup DOMAIN input[2].settings
      /\ DOMAIN config.providers = DOMAIN Default.providers
           \cup DOMAIN input[1].providers \cup DOMAIN input[2].providers
      /\ \A key \in DOMAIN set : set[key] = LastSaid(key, LAMBDA file : file.settings)
      /\ \A key \in DOMAIN config.providers : config.providers[key] = Provider(key)
  BY LastFileSays
<1>2. DOMAIN Default.providers = {"ollama"}
  BY DEF Default
<1> HIDE DEF config, LastSaid, Provider
<1>3. \A i \in 1..2 : DOMAIN input[i].providers \subseteq DOMAIN config.providers
  BY <1>1
<1>4. \A ref \in ModelRefs(config) : Resolves(config, ref)
  BY DEF ModelRefs, Resolves
<1>5. \A ref : Resolves(config, ref) <=> Served(ref)
  <2> SUFFICES ASSUME NEW ref PROVE Resolves(config, ref) <=> Served(ref)
    OBVIOUS
  <2>1. ref[1] \in DOMAIN config.providers
           <=> \E i \in 1..2 : ref[1] \in DOMAIN input[i].providers \cup {"ollama"}
    BY <1>1, <1>2
  <2> QED
    BY <1>1, <2>1 DEF Resolves
<1>6. /\ DOMAIN config.providers # {}
      /\ {"ollama"} \cup UNION {DOMAIN input[i].providers : i \in 1..2} = DOMAIN config.providers
  BY <1>1, <1>2
<1>7. (\A id \in DOMAIN config.providers : config.providers[id].baseUrl # "")
         <=> \A id \in {"ollama"} \cup UNION {DOMAIN input[i].providers : i \in 1..2} :
                Provider(id).baseUrl # ""
  BY <1>1, <1>6
<1> HIDE DEF Served
<1>8. Validate(config) <=>
         /\ \A id \in {"ollama"} \cup UNION {DOMAIN input[i].providers : i \in 1..2} :
               Provider(id).baseUrl # ""
         /\ \A ref \in Named :
               IF ref = NoRef
               THEN set.routing # "auto" \/ ref \notin {set.small, set.large}
               ELSE Served(ref)
  BY <1>5, <1>6, <1>7 DEF Validate
<1> QED
  BY <1>1, <1>3, <1>4, <1>8, Zenon DEF LaterFileWins, config, LastSaid, Provider, Served

-----------------------------------------------------------------------------
\* The parts, each on the inputs it is driven with.

PartsInv ==
    /\ part = "rules" => input \in Seq(Rules)
    /\ part = "argv" => input \in Seq(Words)
    /\ part = "authority" => Authorized(input)
    /\ part = "config" => input \in Seq(Files)
    /\ part = "stream" => input \in Seq(StreamChunks)
    /\ part \in {"gates", "graph"} => APolicy(input)

\* The chunks put at the end of a stream are chunks, whatever the constants.
LEMMA ChunksAreChunks == \A n \in Nat : Chunks(n) \subseteq StreamChunks
<1> TAKE n \in Nat
<1>1. Fragments(Indices, Ids, Names, {n}) \subseteq StreamFragments
  BY DEF StreamFragments, Fragments
<1>2. Text(n) \in StreamTexts
  BY DEF Text, StreamTexts
<1> QED
  BY <1>1, <1>2 DEF Chunks, StreamChunks

LEMMA PartsStep == PartsInv /\ [PartsNext]_partsVars => PartsInv'
<1> SUFFICES ASSUME PartsInv, [PartsNext]_partsVars
             PROVE  PartsInv'
  OBVIOUS
<1>1. part' = part
  BY DEF PartsNext, partsVars
<1>2. CASE UNCHANGED input
  BY <1>1, <1>2 DEF PartsInv
<1>3. CASE AddRule
  BY <1>1, <1>3, AppendProperties DEF AddRule, Grow, PartsInv
<1>4. CASE AddWord
  BY <1>1, <1>4, AppendProperties DEF AddWord, Grow, PartsInv
<1>5. CASE AddChunk
  <2>1. /\ part = "stream"
        /\ \E chunk \in Chunks(Len(input) + 1) : input' = Append(input, chunk)
    BY <1>5 DEF AddChunk, Grow
  <2>2. input \in Seq(StreamChunks) /\ Len(input) + 1 \in Nat
    BY <2>1, LenProperties DEF PartsInv
  <2>3. \E chunk \in StreamChunks : input' = Append(input, chunk)
    BY <2>1, <2>2, ChunksAreChunks
  <2>4. input' \in Seq(StreamChunks)
    BY <2>2, <2>3, AppendProperties
  <2> QED
    BY <1>1, <2>1, <2>4 DEF PartsInv
<1>8. CASE AddFile
  <2> DEFINE files == Files
  <2>1. /\ part = "config"
        /\ \E file \in files : input' = Append(input, file)
    BY <1>8 DEF AddFile, Grow
  <2>2. input \in Seq(files)
    BY <2>1 DEF PartsInv
  <2> HIDE DEF files
  <2>3. input' \in Seq(files)
    BY <2>1, <2>2, AppendProperties
  <2> QED
    BY <1>1, <2>1, <2>3 DEF PartsInv, files
<1>7. CASE AddGate \/ AddTarget
  <2>1. part \in {"gates", "graph"}
    BY <1>7 DEF AddGate, AddTarget
  <2> QED
    BY <1>1, <1>7, <2>1, PolicyGrows DEF PartsInv
<1>6. CASE Authorize
  <2>1. part = "authority"
    BY <1>6 DEF Authorize
  <2> QED
    BY <1>1, <1>6, <2>1, AuthorityStep DEF PartsInv
<1> QED
  <2>1. Extended \/ UNCHANGED input
    BY DEF PartsNext, partsVars
  <2> QED
    BY <1>2, <1>3, <1>4, <1>5, <1>6, <1>7, <1>8, <2>1 DEF Extended

LEMMA PlainGates == PlainPolicy.gates \in Seq(GateChoices) /\ DOMAIN PlainPolicy.states = {}
<1>1. [id |-> "test", required |-> Omitted, runAt |-> {}] \in GateChoices
  BY DEF GateChoices
<1>2. DOMAIN <<>> = {}
  OBVIOUS
<1> QED
  BY <1>1, <1>2 DEF PlainPolicy

LEMMA PartsInvariant == PartsSpec => []PartsInv
<1>1. PartsInit => PartsInv
  <2> SUFFICES ASSUME PartsInit PROVE PartsInv
    OBVIOUS
  <2>1. part = "authority" => Authorized(input)
    <3> SUFFICES ASSUME part = "authority" PROVE Authorized(input)
      OBVIOUS
    <3>1. PICK agentFor \in [Roles -> Agents \cup {""}], defined \in SUBSET Agents,
               explicit \in BOOLEAN : \E selected \in defined \cup {""} :
             /\ explicit => selected # ""
             /\ input = NewSession(agentFor, defined, selected, explicit)
      BY DEF PartsInit
    <3>2. PICK selected \in defined \cup {""} :
             /\ explicit => selected # ""
             /\ input = NewSession(agentFor, defined, selected, explicit)
      BY <3>1
    <3>3. input \in Sessions /\ ~input.governed /\ input.prompt = ""
          /\ (input.explicit => input.selected # "")
      BY <3>2 DEF NewSession, Sessions
    <3> QED
      BY <3>3 DEF Authorized
  <2>2. /\ part = "rules" => input \in Seq(Rules)
        /\ part = "argv" => input \in Seq(Words)
        /\ part = "config" => input \in Seq(Files)
        /\ part = "stream" => input \in Seq(StreamChunks)
    <3>1. part \in {"rules", "argv", "config", "stream"} => input = <<>>
      BY DEF PartsInit
    <3>2. /\ <<>> \in Seq(Rules) /\ <<>> \in Seq(Words) /\ <<>> \in Seq(Files)
          /\ <<>> \in Seq(StreamChunks)
      BY EmptySeq
    <3> QED
      BY <3>1, <3>2
  <2>3. part \in {"gates", "graph"} => APolicy(input)
    <3>1. APolicy(PlainPolicy)
      BY FS_EmptySet, PlainGates DEF APolicy, PlainPolicy, Independences
    <3>2. CASE part = "graph"
      BY <3>1, <3>2 DEF PartsInit
    <3>3. CASE part = "gates"
      <4>1. PICK implementer \in {"", "a", "b"}, reviewer \in {"", "a", "b"},
               independent \in Independences :
               input = [PlainPolicy EXCEPT !.gates = <<>>, !.implementer = implementer,
                                   !.reviewer = reviewer, !.independent = independent]
        BY <3>3 DEF PartsInit, Independences
      <4>2. <<>> \in Seq(GateChoices)
        BY EmptySeq
      <4> QED
        BY <3>1, <4>1, <4>2 DEF APolicy
    <3> QED
      BY <3>2, <3>3
  <2> QED
    BY <2>1, <2>2, <2>3 DEF PartsInv
<1> QED
  BY <1>1, PartsStep, PTL DEF PartsSpec

\* However many rules there are, the last one for the action and the resource
\* decides (Evaluate).
THEOREM LaterRulesWin == PartsSpec => []RulesDecide
<1>1. PartsInv => RulesDecide
  <2> SUFFICES ASSUME PartsInv, part = "rules", NEW auto \in BOOLEAN,
                      NEW tool \in {"edit", "bash", "read"}, NEW resource \in Resources
               PROVE  Evaluate(input, auto, ActionOf(tool), resource) =
                          IF tool = "read" THEN "allow"
                          ELSE IF StatedBy(input, ActionOf(tool), resource) = "ask" /\ auto
                               THEN "allow"
                          ELSE StatedBy(input, ActionOf(tool), resource)
    BY DEF RulesDecide, StatedBy
  <2>1. input \in Seq(Rules)
    BY DEF PartsInv
  <2>2. ActionOf(tool) = "" <=> tool = "read"
    BY DEF ActionOf
  <2> QED
    BY <2>1, <2>2, LastRuleDecides
<1> QED
  BY <1>1, PartsInvariant, PTL

\* A command publishes exactly when git is told to push, behind whatever options
\* of whatever number, or gh to merge or to release (IsPublishCommand).
THEOREM PushesAreFound == PartsSpec => []PushesAreSeen
<1>1. PartsInv => PushesAreSeen
  <2> SUFFICES ASSUME PartsInv, part = "argv"
               PROVE  IsPublishCommand(input) <=>
                        \/ IsPrefix(<<"gh", "pr", "merge">>, input)
                        \/ IsPrefix(<<"gh", "release", "create">>, input)
                        \/ \E i \in 2..Len(input) :
                              input[1] = "git" /\ input[i] = "push" /\ BehindOptions(i)
    BY DEF PushesAreSeen
  <2>1. input \in Seq(Words)
    BY DEF PartsInv
  <2>2. CASE input = <<>>
    <3>1. /\ Len(input) = 0 /\ 2..0 = {}
          /\ Len(<<"gh", "pr", "merge">>) = 3 /\ Len(<<"gh", "release", "create">>) = 3
      BY <2>2
    <3> QED
      BY <2>2, <3>1 DEF IsPublishCommand, IsPrefix
  <2>3. CASE input # <<>>
    BY <2>1, <2>3, PushIsFound DEF IsPublishCommand
  <2> QED
    BY <2>2, <2>3
<1> QED
  BY <1>1, PartsInvariant, PTL

\* However long the stream, whatever indices, ids and names there are, and
\* wherever a garbled chunk or the end falls, each call comes out once, in order of
\* arrival, with all the pieces sent of it (mergeToolCall, consume, flush).
THEOREM CallsComeOut == PartsSpec => []CallsAssembled
<1>1. PartsInv => CallsAssembled
  <2> SUFFICES ASSUME PartsInv, part = "stream" PROVE CallsAssembled
    BY Zenon DEF CallsAssembled
  <2> DEFINE fragments == HeardOf("fragment")
             index == [i \in fragments |-> input[i].index]
             id == [i \in fragments |-> input[i].id]
  <2>1. input \in Seq(StreamChunks)
    BY DEF PartsInv
  <2>2. ASSUME \A i \in fragments : index[i] # NoIndex
        PROVE  Events(input) = Texts \o CallsBy(index) \o <<EndMark>>
    <3>1. IsKeyOf(index, "index")
      BY <2>2 DEF IsKeyOf, KeyOf, IsMarked
    <3> HIDE DEF index
    <3> QED
      BY <2>1, <3>1, StreamAssembled DEF Marks
  <2>3. ASSUME \A i \in fragments : index[i] = NoIndex /\ id[i] # ""
        PROVE  Events(input) = Texts \o CallsBy(id) \o <<EndMark>>
    <3>1. IsKeyOf(id, "id")
      BY <2>3 DEF IsKeyOf, KeyOf, IsMarked
    <3> HIDE DEF id
    <3> QED
      BY <2>1, <3>1, StreamAssembled DEF Marks
  <2> QED
    BY <2>2, <2>3, Zenon DEF CallsAssembled
<1> QED
  BY <1>1, PartsInvariant, PTL

\* Whatever two files say, a setting or a provider is as the later of them to
\* mention it says, and the configuration is accepted exactly when each provider is
\* left with a base URL and each model that is named or routed to is served
\* (mergeFile, Validate).
THEOREM LaterFileDecides == PartsSpec => []LaterFileWins
<1>1. PartsInv => LaterFileWins
  <2>1. CASE part = "config" /\ Len(input) = 2
    <3>1. DOMAIN input = 1..2
      BY <2>1, LenProperties DEF PartsInv
    <3> QED
      BY <2>1, <3>1, FilesDecide
  <2>2. CASE ~(part = "config" /\ Len(input) = 2)
    BY <2>2, Zenon DEF LaterFileWins
  <2> QED
    BY <2>1, <2>2
<1> QED
  BY <1>1, PartsInvariant, PTL

\* Whoever the agents are, however the roles are mapped to them and whichever of
\* them are defined, authority fits the mode and the stage (syncActor,
\* SetGoverned, build, loadSession).
THEOREM AuthorityFits == PartsSpec => []AuthorityFollows
<1>1. PartsInv => AuthorityFollows
  BY DEF PartsInv, AuthorityFollows, Authorized, Fits
<1> QED
  BY <1>1, PartsInvariant, PTL

\* However many gates it has and (AcceptedIsSound) whatever finite graph, a policy
\* that is accepted has a graph that leads nowhere undeclared, gates that their
\* ids tell apart, one of them required, and two agents where review is
\* independent; it decides as it does with its defaults spelled out; and the spine
\* of it is a walk from planning on that visits no stage twice and stops only where
\* nothing new lies ahead (validate, normalize, Pipeline).
THEOREM PolicySound == PartsSpec => []PolicyIsSound
<1>1. PartsInv => PolicyIsSound
  <2>1. CASE part \in {"gates", "graph"} /\ validate(input)
    BY <2>1, AcceptedIsSound DEF PartsInv
  <2>2. CASE ~(part \in {"gates", "graph"} /\ validate(input))
    BY <2>2, Zenon DEF PolicyIsSound
  <2> QED
    BY <2>1, <2>2
<1> QED
  BY <1>1, PartsInvariant, PTL

==============================================================================
