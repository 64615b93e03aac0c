------------------------------ MODULE Assembly ------------------------------
(***************************************************************************)
(* How the provider client reads a streamed reply: text is handed on as it *)
(* comes, tool calls are put together from fragments and handed on at the  *)
(* end (internal/provider/openaicompat/sse.go).                            *)
(*                                                                         *)
(* A reply is a sequence of chunks: a text, a fragment of a call, one that *)
(* does not parse, or the mark of the end.  A fragment may carry the       *)
(* call's index, its id, its name, and a piece of its arguments.  The      *)
(* reader keeps its calls in order of arrival, and for every index and id  *)
(* it has seen the number of the call it stands for.                       *)
(***************************************************************************)
EXTENDS Lists, SequencesExt

NoIndex == -1
Fragments(indices, ids, names, pieces) ==
    [kind : {"fragment"}, index : indices \cup {NoIndex}, id : ids \cup {""},
     name : names \cup {""}, piece : pieces]
Text(piece) == [kind |-> "text", piece |-> piece]
Garbled == [kind |-> "garbled"]
EndMark == [kind |-> "end"]

newStream ==
    [calls |-> <<>>, byIndex |-> <<>>, byID |-> <<>>, queue |-> <<>>, finished |-> FALSE]

\* Mutation: only an index leads to an earlier call.
RouteByIndex(stream, fragment) ==
    IF fragment.index # NoIndex
    THEN IF fragment.index \in DOMAIN stream.byIndex THEN stream.byIndex[fragment.index] ELSE 0
    ELSE Len(stream.calls)

\* The call a fragment belongs to, 0 for a new one.
Route(stream, fragment) ==
    CASE fragment.index # NoIndex ->
            IF fragment.index \in DOMAIN stream.byIndex
            THEN stream.byIndex[fragment.index] ELSE 0
      [] fragment.index = NoIndex /\ fragment.id # "" ->
            IF fragment.id \in DOMAIN stream.byID THEN stream.byID[fragment.id] ELSE 0
      [] OTHER -> Len(stream.calls)

Known(table, key, n) == [k \in DOMAIN table \cup {key} |-> IF k = key THEN n ELSE table[k]]

\* A call not seen before is entered under the index and the id that lead to it.
Open(stream, fragment) ==
    LET n == Len(stream.calls) + 1
    IN  [stream EXCEPT
            !.calls = Append(@, [id |-> fragment.id, name |-> fragment.name, args |-> <<>>]),
            !.byIndex = IF fragment.index = NoIndex THEN @ ELSE Known(@, fragment.index, n),
            !.byID = IF fragment.id = "" THEN @ ELSE Known(@, fragment.id, n)]

\* The first id and the first name of a call stay.
Extend(stream, n, fragment) ==
    LET call == stream.calls[n]
        named == call.id = "" /\ fragment.id # ""
    IN  [stream EXCEPT
            !.calls[n] = [id |-> IF named THEN fragment.id ELSE call.id,
                          name |-> IF call.name = "" THEN fragment.name ELSE call.name,
                          args |-> Append(call.args, fragment.piece)],
            !.byID = IF named THEN Known(@, fragment.id, n) ELSE @]

mergeToolCall(stream, fragment) ==
    LET n == Route(stream, fragment)
    IN  IF n # 0
        THEN Extend(stream, n, fragment)
        ELSE Extend(Open(stream, fragment), Len(stream.calls) + 1, fragment)

\* readMore and consume: nothing is read after the end mark, and a chunk that
\* does not parse is passed over.
consume(stream, chunk) ==
    CASE stream.finished \/ chunk.kind = "garbled" -> stream
      [] ~stream.finished /\ chunk.kind = "text" ->
            [stream EXCEPT !.queue = Append(@, chunk)]
      [] ~stream.finished /\ chunk.kind = "fragment" -> mergeToolCall(stream, chunk)
      [] ~stream.finished /\ chunk.kind = "end" -> [stream EXCEPT !.finished = TRUE]

\* flush: a call without a name is dropped; one without an id is numbered.
flush(stream) ==
    LET Finished(n) ==
            [stream.calls[n] EXCEPT !.id = IF @ = "" THEN <<"call", n>> ELSE <<"sent", @>>]
    IN  stream.queue
            \o Chosen([n \in DOMAIN stream.calls |-> Finished(n)],
                      {n \in DOMAIN stream.calls : stream.calls[n].name # ""})
            \o <<EndMark>>

\* What the caller of Recv gets.  A reply that stops without the mark ends there.
Events(chunks) == flush(FoldLeft(consume, newStream, chunks))

=============================================================================
