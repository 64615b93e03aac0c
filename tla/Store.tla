-------------------------------- MODULE Store --------------------------------
(***************************************************************************)
(* The task store on disk (internal/session/store.go): Update as the       *)
(* sequence of file operations it is, for one task.                        *)
(*                                                                         *)
(* The record is a file written under a temporary name and renamed into    *)
(* place; the audit log is a second file the events are appended to        *)
(* afterwards.  A process can die between any two of these.  The lock that *)
(* orders updates is in the memory of one process.                         *)
(*                                                                         *)
(* Files are inodes: a rename moves a name, and a writer that has a file   *)
(* open keeps writing to that file wherever its name has gone.             *)
(***************************************************************************)
EXTENDS Naturals, Sequences, SequencesExt

CONSTANTS
    Writers,    \* the callers of Update
    WriterProcess, \* WriterProcess[w]: the process of w
    Inodes,     \* files that can exist at once
    MaxEvents,  \* bound: a record with so many events gets no more
    NoFile      \* a name no file has

ASSUME StoreAssumption ==
    /\ DOMAIN WriterProcess = Writers
    /\ NoFile \notin Inodes
    /\ MaxEvents \in Nat

Processes == {WriterProcess[w] : w \in Writers}

\* An event is known by its place in the task's history and its author.
Events == [seq : 1..MaxEvents, by : Writers]

\* What a file holds: nothing yet, a record that parses, or a mix of two.  A
\* record is known by the events in it; the rest of it varies in length.
Empty == [kind |-> "empty", events |-> <<>>]
Mixed == [kind |-> "mixed", events |-> <<>>]
Record(events) == [kind |-> "record", events |-> events]
Contents == [kind : {"empty", "mixed", "record"}, events : Seq(Events)]

VARIABLES
    files, \* files[i]: what the inode holds
    path,  \* the inode named <task>.json
    tmp,   \* the inode named <task>.json.tmp
    log,   \* the events in the audit log
    at,    \* at[w]: how far w's update has come
    copy,  \* copy[w]: the events of the record w is saving, and how many of
           \* them it loaded
    fd,    \* fd[w]: the inode w has open for writing
    acked  \* history: events of updates that returned success

storeVars == <<files, path, tmp, log, at, copy, fd, acked>>

\* What w holds between updates.
NoCopy == [events |-> <<>>, before |-> 0]

Steps == {"idle", "changed", "opened", "written", "saved"}

TypeOK ==
    /\ files \in [Inodes -> Contents]
    /\ path \in Inodes
    /\ tmp \in Inodes \cup {NoFile}
    /\ log \in Seq(Events)
    /\ at \in [Writers -> Steps]
    /\ copy \in [Writers -> [events : Seq(Events), before : Nat]]
    /\ fd \in [Writers -> Inodes \cup {NoFile}]
    /\ acked \subseteq Events

\* After Create, whose task has no events yet.
Init ==
    /\ path \in Inodes
    /\ files = [i \in Inodes |-> IF i = path THEN Record(<<>>) ELSE Empty]
    /\ tmp = NoFile
    /\ log = <<>>
    /\ at = [w \in Writers |-> "idle"]
    /\ copy = [w \in Writers |-> NoCopy]
    /\ fd = [w \in Writers |-> NoFile]
    /\ acked = {}

-----------------------------------------------------------------------------

\* The update of w is over and its lock released.
Finish(w) ==
    /\ at' = [at EXCEPT ![w] = "idle"]
    /\ copy' = [copy EXCEPT ![w] = NoCopy]
    /\ fd' = [fd EXCEPT ![w] = NoFile]

Locked(p) == \E w \in Writers : WriterProcess[w] = p /\ at[w] # "idle"

\* Mutation: the count is taken after the event was added.
NextSequenceAfter(events) == Len(events) + 2

\* Transition numbers the event it appends.
NextSequence(events) == Len(events) + 1

\* Mutation: the lock is not taken.
LoadAndChangeUnlocked(w, changes) ==
    LET events == files[path].events
        event == [seq |-> NextSequence(events), by |-> w]
    IN  /\ at[w] = "idle"
        /\ files[path].kind = "record"
        /\ changes => Len(events) < MaxEvents
        /\ at' = [at EXCEPT ![w] = "changed"]
        /\ copy' = [copy EXCEPT ![w] =
               [events |-> IF changes THEN Append(events, event) ELSE events,
                before |-> Len(events)]]
        /\ UNCHANGED <<files, path, tmp, log, fd, acked>>

\* Update takes the lock, loads the record and runs the callback, which makes
\* one transition or, as SubmitQA's first does, none.  A record that does not
\* parse, and a callback that fails, end the update with nothing changed.
LoadAndChange(w, changes) ==
    LET events == files[path].events
        event == [seq |-> NextSequence(events), by |-> w]
    IN  /\ at[w] = "idle"
        /\ ~Locked(WriterProcess[w])
        /\ files[path].kind = "record"
        /\ changes => Len(events) < MaxEvents
        /\ at' = [at EXCEPT ![w] = "changed"]
        /\ copy' = [copy EXCEPT ![w] =
               [events |-> IF changes THEN Append(events, event) ELSE events,
                before |-> Len(events)]]
        /\ UNCHANGED <<files, path, tmp, log, fd, acked>>

InUse == {path, tmp} \cup {fd[w] : w \in Writers}

\* Mutation: the record is written in place.
OpenTmpInPlace(w) ==
    /\ at[w] = "changed"
    /\ files' = [files EXCEPT ![path] = Empty]
    /\ fd' = [fd EXCEPT ![w] = path]
    /\ at' = [at EXCEPT ![w] = "opened"]
    /\ UNCHANGED <<path, tmp, log, copy, acked>>

\* Save opens the temporary file, truncating one that is there.
OpenTmp(w) ==
    /\ at[w] = "changed"
    /\ \E i \in IF tmp # NoFile THEN {tmp} ELSE Inodes \ InUse :
          /\ files' = [files EXCEPT ![i] = Empty]
          /\ tmp' = i
          /\ fd' = [fd EXCEPT ![w] = i]
    /\ at' = [at EXCEPT ![w] = "opened"]
    /\ UNCHANGED <<path, log, copy, acked>>

\* Writing from the start of a file that another writer has written since:
\* the longer of the two leaves its tail.
Overwritten(old, new) ==
    IF old \in {Empty, new} THEN {new} ELSE {new, Mixed}

WriteTmp(w) ==
    /\ at[w] = "opened"
    /\ \E content \in Overwritten(files[fd[w]], Record(copy[w].events)) :
          files' = [files EXCEPT ![fd[w]] = content]
    /\ at' = [at EXCEPT ![w] = "written"]
    /\ UNCHANGED <<path, tmp, log, copy, fd, acked>>

\* The temporary name becomes the record's, whatever file it names by now, and
\* the file that had the name has none.
Rename(w) ==
    /\ at[w] = "written"
    /\ tmp # NoFile
    /\ path' = tmp
    /\ tmp' = NoFile
    /\ files' = [files EXCEPT ![path] = Empty]
    /\ at' = [at EXCEPT ![w] = "saved"]
    /\ fd' = [fd EXCEPT ![w] = NoFile]
    /\ UNCHANGED <<log, copy, acked>>

\* Mutation: the log gets the whole history each time.
AllEvents(w) == copy[w].events

\* The events of the copy beyond those loaded.
NewEvents(w) == SubSeq(copy[w].events, copy[w].before + 1, Len(copy[w].events))

\* Mutation: the log is written and success reported before the rename.
AppendEventsFirst(w) ==
    /\ at[w] = "written"
    /\ log' = log \o NewEvents(w)
    /\ acked' = acked \cup Range(NewEvents(w))
    /\ Finish(w)
    /\ UNCHANGED <<files, path, tmp>>

\* AppendEvents: the events the callback added go to the end of the log.
AppendEvents(w) ==
    /\ at[w] = "saved"
    /\ log' = log \o NewEvents(w)
    /\ acked' = acked \cup Range(NewEvents(w))
    /\ Finish(w)
    /\ UNCHANGED <<files, path, tmp>>

\* A file operation fails, or the temporary name is gone when it is renamed:
\* the caller gets an error, and what was done so far stays done.
Fail(w) ==
    /\ at[w] # "idle"
    /\ Finish(w)
    /\ UNCHANGED <<files, path, tmp, log, acked>>

\* A process dies, and another one takes its place.
Crash(p) ==
    LET dying(w) == WriterProcess[w] = p
    IN  /\ Locked(p)
        /\ at' = [w \in Writers |-> IF dying(w) THEN "idle" ELSE at[w]]
        /\ copy' = [w \in Writers |-> IF dying(w) THEN NoCopy ELSE copy[w]]
        /\ fd' = [w \in Writers |-> IF dying(w) THEN NoFile ELSE fd[w]]
        /\ UNCHANGED <<files, path, tmp, log, acked>>

Update(w) ==
    \/ \E changes \in BOOLEAN : LoadAndChange(w, changes)
    \/ OpenTmp(w) \/ WriteTmp(w) \/ Rename(w) \/ AppendEvents(w)

Next ==
    \/ \E w \in Writers : Update(w) \/ Fail(w)
    \/ \E p \in Processes : Crash(p)

Spec == Init /\ [][Next]_storeVars

-----------------------------------------------------------------------------

\* The record always parses, at every instant another process might read it:
\* an interrupted write leaves the old record or the new one (Save).
RecordReadable == files[path].kind = "record"

\* Each element of short has its place in long, in the same order.
IsSubSequence(short, long) ==
    \E place \in [DOMAIN short -> DOMAIN long] :
        /\ \A i \in DOMAIN short : short[i] = long[place[i]]
        /\ \A i, j \in DOMAIN short : i < j => place[i] < place[j]

\* The log tells nothing that did not happen and tells it in order: it is the
\* record's history with, at worst, events missing (Update, AppendEvents).
LogIsOfTheRecord == IsSubSequence(log, files[path].events)

\* What a caller was told succeeded is in the record and in the log for good,
\* whatever fails or crashes afterwards (Update).
AcknowledgedIsKept ==
    [][acked \subseteq Range(files'[path'].events) /\ acked \subseteq Range(log')]_storeVars

\* The log has no gap: it is the record's history up to some point, so what it
\* lacks is only the update under way (Update).
LogHasNoGap == IsPrefix(log, files[path].events)

\* The events of the record are the history a task has.
History == INSTANCE TaskHistory WITH
    Happenings <- Events,
    history <- files[path].events

\* Within one process the record keeps the history of its task: each update that
\* reaches the file extends the history it finds there by one event, and none
\* replaces it.
KeepsHistory == History!Promise

=============================================================================
