----------------------------- MODULE StoreProofs -----------------------------
(***************************************************************************)
(* Theorems about Store, for every number of writers and files.            *)
(*                                                                         *)
(* They are about the writers of one process, whose lock lets one of them  *)
(* at a time be in an update.  StoreInv says how far that update has come  *)
(* and what the files hold because of it.  Crashes and failures need no    *)
(* case of their own: every file they leave behind is one that StoreInv    *)
(* does not speak of.                                                      *)
(***************************************************************************)
EXTENDS Store, SequenceTheorems, TLAPS

\* The writers are goroutines of one process.
OneProcess == \A v, w \in Writers : WriterProcess[v] = WriterProcess[w]

\* The lock: one writer at a time, and nothing in hand between updates.
Serial ==
    /\ \A v, w \in Writers : at[v] # "idle" /\ at[w] # "idle" => v = w
    /\ \A w \in Writers : at[w] = "idle" => copy[w] = NoCopy /\ fd[w] = NoFile

\* The temporary file is not the record, and holds what its writer put there.
TmpIsOwn ==
    /\ tmp # path
    /\ \A w \in Writers : at[w] \in {"opened", "written"} => tmp # NoFile /\ fd[w] = tmp
    /\ \A w \in Writers : at[w] = "opened" => files[tmp] = Empty
    /\ \A w \in Writers : at[w] = "written" => files[tmp] = Record(copy[w].events)

\* The history h is g, or g and one event more.
Grown(g, h) == h = g \/ \E e \in Events : h = Append(g, e)

\* A copy extends the record until it is saved, and is the record from then on.
CopyExtends ==
    \A w \in Writers :
        /\ at[w] \in {"changed", "opened", "written"} =>
              /\ Grown(files[path].events, copy[w].events)
              /\ copy[w].before = Len(files[path].events)
        /\ at[w] = "saved" =>
              /\ copy[w].events = files[path].events

StoreInv == TypeOK /\ Serial /\ RecordReadable /\ TmpIsOwn /\ CopyExtends

-----------------------------------------------------------------------------

LEMMA RecordType ==
    ASSUME NEW events \in Seq(Events)
    PROVE  Record(events) \in Contents
  BY DEF Record, Contents

LEMMA EmptyType == Empty \in Contents /\ Mixed \in Contents
  BY DEF Empty, Mixed, Contents

LEMMA ContentsEvents ==
    ASSUME NEW c \in Contents
    PROVE  c.events \in Seq(Events)
  BY DEF Contents

LEMMA NewEventsType ==
    ASSUME TypeOK, NEW w \in Writers
    PROVE  NewEvents(w) \in Seq(Events)
<1>1. copy[w].events \in Seq(Events) /\ copy[w].before \in Nat
  BY DEF TypeOK
<1>2. \A i \in copy[w].before + 1 .. Len(copy[w].events) : copy[w].events[i] \in Events
  BY <1>1
<1> QED
  BY <1>1, <1>2, SubSeqProperties DEF NewEvents

\* What a writer has after its callback is the history it loaded, grown.
LEMMA LoadedType ==
    ASSUME TypeOK, NEW w \in Writers, NEW changes \in BOOLEAN, LoadAndChange(w, changes)
    PROVE  /\ copy'[w].events \in Seq(Events)
           /\ copy'[w].before = Len(files[path].events)
           /\ Grown(files[path].events, copy'[w].events)
           /\ copy' \in [Writers -> [events : Seq(Events), before : Nat]]
<1> DEFINE g == files[path].events
<1> DEFINE e == [seq |-> NextSequence(g), by |-> w]
<1>1. g \in Seq(Events)
  BY ContentsEvents DEF TypeOK
<1>2. CASE changes
  <2>1. Len(g) + 1 \in 1..MaxEvents
    BY <1>1, <1>2, StoreAssumption DEF LoadAndChange
  <2>2. e \in Events
    BY <2>1 DEF Events, NextSequence
  <2>3. Append(g, e) \in Seq(Events)
    BY <1>1, <2>2, AppendProperties
  <2>4. copy' = [copy EXCEPT ![w] = [events |-> Append(g, e), before |-> Len(g)]]
    BY <1>2 DEF LoadAndChange
  <2>5. Len(g) \in Nat
    BY <1>1
  <2>6. Grown(g, Append(g, e))
    BY <2>2 DEF Grown
  <2> HIDE DEF g, e
  <2>7. copy'[w] = [events |-> Append(g, e), before |-> Len(g)]
    BY <2>4 DEF TypeOK
  <2>8. copy' \in [Writers -> [events : Seq(Events), before : Nat]]
    BY <2>3, <2>4, <2>5 DEF TypeOK
  <2> QED
    BY <2>3, <2>6, <2>7, <2>8 DEF g
<1>3. CASE ~changes
  <2>1. copy' = [copy EXCEPT ![w] = [events |-> g, before |-> Len(g)]]
    BY <1>3 DEF LoadAndChange
  <2> QED
    BY <1>1, <2>1 DEF TypeOK, Grown
<1> QED
  BY <1>2, <1>3

-----------------------------------------------------------------------------

LEMMA StoreInvInit == Init => StoreInv
<1> SUFFICES ASSUME Init PROVE StoreInv
  OBVIOUS
<1>1. <<>> \in Seq(Events)
  OBVIOUS
<1>2. TypeOK
  BY <1>1, RecordType, EmptyType DEF Init, TypeOK, NoCopy, Steps
<1>3. Serial
  BY DEF Init, Serial
<1>4. RecordReadable
  BY DEF Init, RecordReadable, Record
<1>5. TmpIsOwn
  BY StoreAssumption DEF Init, TmpIsOwn
<1>6. CopyExtends
  BY DEF Init, CopyExtends
<1> QED
  BY <1>2, <1>3, <1>4, <1>5, <1>6 DEF StoreInv

LEMMA LoadKeepsStoreInv ==
    ASSUME OneProcess, StoreInv, NEW w \in Writers, NEW changes \in BOOLEAN,
           LoadAndChange(w, changes)
    PROVE  StoreInv'
<1> USE DEF StoreInv
<1>0. /\ at' = [at EXCEPT ![w] = "changed"]
      /\ \A v \in Writers : v # w => copy'[v] = copy[v]
      /\ UNCHANGED <<files, path, tmp, log, fd, acked>>
  BY DEF LoadAndChange, TypeOK
<1>1. \A v \in Writers : at[v] = "idle"
  BY DEF LoadAndChange, Locked, OneProcess
<1>2. TypeOK'
  BY <1>0, LoadedType DEF TypeOK, Steps
<1>3. Serial'
  BY <1>0, <1>1 DEF Serial, TypeOK
<1>4. RecordReadable'
  BY <1>0 DEF RecordReadable
<1>5. TmpIsOwn'
  BY <1>0, <1>1 DEF TmpIsOwn, TypeOK
<1>6. CopyExtends'
  BY <1>0, <1>1, LoadedType DEF CopyExtends, TypeOK
<1> QED
  BY <1>2, <1>3, <1>4, <1>5, <1>6

LEMMA OpenKeepsStoreInv ==
    ASSUME StoreInv, NEW w \in Writers, OpenTmp(w)
    PROVE  StoreInv'
<1> USE DEF StoreInv
<1>1. PICK i \in Inodes : /\ i # path
                          /\ files' = [files EXCEPT ![i] = Empty]
                          /\ tmp' = i
                          /\ fd' = [fd EXCEPT ![w] = i]
  BY DEF OpenTmp, InUse, TypeOK, TmpIsOwn
<1>2. at' = [at EXCEPT ![w] = "opened"] /\ UNCHANGED <<path, log, copy, acked>>
  BY DEF OpenTmp
<1>3. files'[path'] = files[path] /\ files'[i] = Empty /\ at[w] = "changed"
  BY <1>1, <1>2 DEF TypeOK, OpenTmp
<1>4. \A v \in Writers : v # w => at[v] = "idle" /\ at'[v] = "idle"
  BY <1>2, <1>3 DEF Serial, TypeOK
<1>5. TypeOK'
  BY <1>1, <1>2, EmptyType DEF TypeOK, Steps
<1>6. Serial'
  BY <1>1, <1>2, <1>4 DEF Serial, TypeOK
<1>7. RecordReadable'
  BY <1>3 DEF RecordReadable
<1>8. TmpIsOwn'
  BY <1>1, <1>2, <1>3, <1>4, StoreAssumption DEF TmpIsOwn, TypeOK
<1>9. CopyExtends'
  BY <1>2, <1>3, <1>4 DEF CopyExtends, TypeOK
<1> QED
  BY <1>5, <1>6, <1>7, <1>8, <1>9

LEMMA WriteKeepsStoreInv ==
    ASSUME StoreInv, NEW w \in Writers, WriteTmp(w)
    PROVE  StoreInv'
<1> USE DEF StoreInv
<1>1. at[w] = "opened" /\ fd[w] = tmp /\ tmp \in Inodes /\ files[tmp] = Empty
  BY DEF WriteTmp, TmpIsOwn, TypeOK
<1>2. files' = [files EXCEPT ![tmp] = Record(copy[w].events)]
  BY <1>1 DEF WriteTmp, Overwritten
<1>3. at' = [at EXCEPT ![w] = "written"] /\ UNCHANGED <<path, tmp, log, copy, fd, acked>>
  BY DEF WriteTmp
<1>4. files'[path'] = files[path] /\ files'[tmp] = Record(copy[w].events)
  BY <1>1, <1>2, <1>3 DEF TmpIsOwn, TypeOK
<1>5. \A v \in Writers : v # w => at[v] = "idle" /\ at'[v] = "idle"
  BY <1>1, <1>3 DEF Serial, TypeOK
<1>6. TypeOK'
  <2>1. Record(copy[w].events) \in Contents
    BY RecordType DEF TypeOK
  <2> QED
    BY <1>2, <1>3, <2>1 DEF TypeOK, Steps
<1>7. Serial'
  BY <1>3, <1>5 DEF Serial, TypeOK
<1>8. RecordReadable'
  BY <1>4 DEF RecordReadable
<1>9. TmpIsOwn'
  BY <1>1, <1>3, <1>4, <1>5 DEF TmpIsOwn, TypeOK
<1>10. CopyExtends'
  BY <1>1, <1>3, <1>4, <1>5 DEF CopyExtends, TypeOK
<1> QED
  BY <1>6, <1>7, <1>8, <1>9, <1>10

\* The one step that changes the record: the copy takes its place.
LEMMA RenameReplaces ==
    ASSUME StoreInv, NEW w \in Writers, Rename(w)
    PROVE  /\ files'[path'] = Record(copy[w].events)
           /\ Grown(files[path].events, copy[w].events)
<1>1. tmp # path /\ tmp \in Inodes /\ files[tmp] = Record(copy[w].events)
  BY DEF StoreInv, TmpIsOwn, Rename, TypeOK
<1>2. files'[path'] = files[tmp]
  BY <1>1 DEF Rename, StoreInv, TypeOK
<1>3. Grown(files[path].events, copy[w].events)
  BY DEF StoreInv, CopyExtends, Rename
<1> QED
  BY <1>1, <1>2, <1>3

LEMMA RenameKeepsStoreInv ==
    ASSUME StoreInv, NEW w \in Writers, Rename(w)
    PROVE  StoreInv'
<1> USE DEF StoreInv
<1>1. /\ tmp' = NoFile /\ path' = tmp
      /\ at' = [at EXCEPT ![w] = "saved"] /\ fd' = [fd EXCEPT ![w] = NoFile]
      /\ files' = [files EXCEPT ![path] = Empty]
      /\ UNCHANGED <<log, copy, acked>>
  BY DEF Rename
<1>2. files'[path'] = Record(copy[w].events) /\ at[w] = "written" /\ tmp \in Inodes
  BY RenameReplaces DEF Rename, TypeOK
<1>3. \A v \in Writers : v # w => at[v] = "idle" /\ at'[v] = "idle"
  BY <1>1, <1>2 DEF Serial, TypeOK
<1>4. TypeOK'
  BY <1>1, <1>2, EmptyType DEF TypeOK, Steps
<1>5. Serial'
  BY <1>1, <1>2, <1>3 DEF Serial, TypeOK
<1>6. RecordReadable'
  BY <1>2 DEF RecordReadable, Record
<1>7. TmpIsOwn'
  BY <1>1, <1>2, <1>3, StoreAssumption DEF TmpIsOwn, TypeOK
<1>8. CopyExtends'
  BY <1>1, <1>2, <1>3 DEF CopyExtends, TypeOK, Record
<1> QED
  BY <1>4, <1>5, <1>6, <1>7, <1>8

\* Ending an update, in whatever way, touches no file but the log.
LEMMA FinishKeepsStoreInv ==
    ASSUME StoreInv, NEW w \in Writers, Finish(w), UNCHANGED <<files, path, tmp>>,
           log' \in Seq(Events), acked' \subseteq Events
    PROVE  StoreInv'
<1> USE DEF StoreInv
<1>1. NoCopy \in [events : Seq(Events), before : Nat]
  BY DEF NoCopy
<1>2. TypeOK'
  BY <1>1 DEF TypeOK, Finish, Steps
<1>3. Serial'
  BY DEF Serial, Finish, TypeOK
<1>4. RecordReadable' /\ TmpIsOwn' /\ CopyExtends'
  BY DEF RecordReadable, TmpIsOwn, CopyExtends, Finish, TypeOK
<1> QED
  BY <1>2, <1>3, <1>4

LEMMA CrashKeepsStoreInv ==
    ASSUME StoreInv, NEW p \in Processes, Crash(p)
    PROVE  StoreInv'
<1> USE DEF StoreInv
<1>1. NoCopy \in [events : Seq(Events), before : Nat]
  BY DEF NoCopy
<1>2. TypeOK'
  BY <1>1 DEF TypeOK, Crash, Steps
<1>3. Serial'
  BY DEF Serial, Crash, TypeOK
<1>4. RecordReadable' /\ TmpIsOwn' /\ CopyExtends'
  BY DEF RecordReadable, TmpIsOwn, CopyExtends, Crash, TypeOK
<1> QED
  BY <1>2, <1>3, <1>4

LEMMA AppendType ==
    ASSUME TypeOK, NEW w \in Writers, AppendEvents(w)
    PROVE  log' \in Seq(Events) /\ acked' \subseteq Events
<1>1. NewEvents(w) \in Seq(Events)
  BY NewEventsType
<1>2. log' \in Seq(Events)
  BY <1>1 DEF AppendEvents, TypeOK
<1>3. Range(NewEvents(w)) \subseteq Events
  BY <1>1 DEF Range
<1> QED
  BY <1>2, <1>3 DEF AppendEvents, TypeOK

LEMMA StoreInvStep ==
    ASSUME OneProcess, StoreInv, [Next]_storeVars
    PROVE  StoreInv'
<1>1. CASE \E w \in Writers, changes \in BOOLEAN : LoadAndChange(w, changes)
  BY <1>1, LoadKeepsStoreInv
<1>2. CASE \E w \in Writers : OpenTmp(w)
  BY <1>2, OpenKeepsStoreInv
<1>3. CASE \E w \in Writers : WriteTmp(w)
  BY <1>3, WriteKeepsStoreInv
<1>4. CASE \E w \in Writers : Rename(w)
  BY <1>4, RenameKeepsStoreInv
<1>5. CASE \E w \in Writers : AppendEvents(w)
  BY <1>5, AppendType, FinishKeepsStoreInv DEF AppendEvents, StoreInv
<1>6. CASE \E w \in Writers : Fail(w)
  BY <1>6, FinishKeepsStoreInv DEF Fail, StoreInv, TypeOK
<1>7. CASE \E p \in Processes : Crash(p)
  BY <1>7, CrashKeepsStoreInv
<1>8. CASE UNCHANGED storeVars
  BY <1>8 DEF storeVars, StoreInv, TypeOK, Serial, RecordReadable, TmpIsOwn, CopyExtends
<1> QED
  BY <1>1, <1>2, <1>3, <1>4, <1>5, <1>6, <1>7, <1>8 DEF Next, Update

\* One process: the invariant holds of every execution.
LEMMA StoreInvariant ==
    ASSUME OneProcess
    PROVE  Spec => []StoreInv
<1>1. Init => StoreInv
  BY StoreInvInit
<1>2. StoreInv /\ [Next]_storeVars => StoreInv'
  BY StoreInvStep
<1> QED
  BY <1>1, <1>2, PTL DEF Spec

-----------------------------------------------------------------------------

\* Every reachable state of one process is well typed: the files, the copies
\* and the log hold events only (Update, AppendEvents).
THEOREM StoreTypeCorrect ==
    ASSUME OneProcess
    PROVE  Spec => []TypeOK
<1>1. StoreInv => TypeOK
  BY DEF StoreInv
<1> QED
  BY <1>1, StoreInvariant, PTL

\* However writers of one process interleave, fail and crash, the record that
\* Save leaves under the task's name always parses.
THEOREM RecordStaysReadable ==
    ASSUME OneProcess
    PROVE  Spec => []RecordReadable
<1>1. StoreInv => RecordReadable
  BY DEF StoreInv
<1> QED
  BY <1>1, StoreInvariant, PTL

\* A step of the store leaves the record's history or extends it by one event.
LEMMA HistoryStep ==
    ASSUME StoreInv, [Next]_storeVars
    PROVE  Grown(files[path].events, files'[path'].events)
<1>1. CASE \E w \in Writers : Rename(w)
  <2> PICK w \in Writers : Rename(w)
    BY <1>1
  <2>1. /\ files'[path'] = Record(copy[w].events)
        /\ Grown(files[path].events, copy[w].events)
    BY RenameReplaces
  <2>2. files'[path'].events = copy[w].events
    BY <2>1 DEF Record
  <2> QED
    BY <2>1, <2>2
<1>2. CASE \E w \in Writers : OpenTmp(w)
  <2> PICK w \in Writers : OpenTmp(w)
    BY <1>2
  <2>1. PICK i \in Inodes : i # path /\ files' = [files EXCEPT ![i] = Empty]
    BY DEF OpenTmp, InUse, StoreInv, TypeOK, TmpIsOwn
  <2> QED
    BY <2>1 DEF OpenTmp, StoreInv, TypeOK, Grown
<1>3. CASE \E w \in Writers : WriteTmp(w)
  <2> PICK w \in Writers : WriteTmp(w)
    BY <1>3
  <2>1. fd[w] # path /\ path \in Inodes /\ path' = path
    BY DEF WriteTmp, StoreInv, TmpIsOwn, TypeOK
  <2>2. PICK content : files' = [files EXCEPT ![fd[w]] = content]
    BY DEF WriteTmp
  <2> QED
    BY <2>1, <2>2 DEF StoreInv, TypeOK, Grown
<1>4. CASE UNCHANGED <<files, path>>
  BY <1>4 DEF Grown
<1> QED
  BY <1>1, <1>2, <1>3, <1>4
     DEF Next, Update, LoadAndChange, AppendEvents, Fail, Crash, storeVars

\* In one process the record implements TaskHistory: Update takes it from
\* one event to the next, loses none and never writes over another's.
THEOREM HistoryIsKept ==
    ASSUME OneProcess
    PROVE  Spec => KeepsHistory
<1>1. Init => History!Created
  BY DEF Init, History!Created, Record
<1>2. StoreInv /\ [Next]_storeVars => [History!Updated]_(files[path].events)
  BY HistoryStep DEF Grown, History!Updated, History!Recorded
<1> QED
  BY <1>1, <1>2, StoreInvariant, PTL DEF Spec, KeepsHistory, History!Promise

-----------------------------------------------------------------------------

LEMMA GrownKeeps ==
    ASSUME NEW g \in Seq(Events), NEW h, Grown(g, h)
    PROVE  Range(g) \subseteq Range(h)
<1>1. CASE h = g
  BY <1>1
<1>2. CASE \E e \in Events : h = Append(g, e)
  <2> PICK e \in Events : h = Append(g, e)
    BY <1>2
  <2>1. \A i \in 1..Len(g) : i \in DOMAIN h /\ h[i] = g[i]
    BY AppendProperties
  <2> QED
    BY <2>1 DEF Range
<1> QED
  BY <1>1, <1>2 DEF Grown

\* The events an update logs are events of the record it saved.
LEMMA NewEventsAreOfCopy ==
    ASSUME StoreInv, NEW w \in Writers
    PROVE  Range(NewEvents(w)) \subseteq Range(copy[w].events)
<1> DEFINE h == copy[w].events
<1> DEFINE m == copy[w].before + 1
<1>1. h \in Seq(Events) /\ m \in Nat \ {0}
  BY DEF StoreInv, TypeOK
<1> HIDE DEF h, m
<1>2. \A i \in m..Len(h) : h[i] \in Events
  BY <1>1
<1>3. /\ SubSeq(h, m, Len(h)) \in Seq(Events)
      /\ Len(SubSeq(h, m, Len(h))) = IF m <= Len(h) THEN Len(h) - m + 1 ELSE 0
      /\ \A i \in 1..Len(h) - m + 1 : SubSeq(h, m, Len(h))[i] = h[m + i - 1]
  BY <1>1, <1>2, SubSeqProperties
<1>4. \A i \in 1..Len(SubSeq(h, m, Len(h))) :
          m + i - 1 \in 1..Len(h) /\ SubSeq(h, m, Len(h))[i] = h[m + i - 1]
  BY <1>1, <1>3
<1>5. Range(SubSeq(h, m, Len(h))) \subseteq Range(h)
  BY <1>1, <1>3, <1>4 DEF Range
<1> QED
  BY <1>5 DEF NewEvents, h, m

\* What was acknowledged is in both files.
Durable == acked \subseteq Range(files[path].events) /\ acked \subseteq Range(log)

LEMMA DurableStep ==
    ASSUME StoreInv, Durable, [Next]_storeVars
    PROVE  /\ acked \subseteq Range(files'[path'].events)
           /\ acked \subseteq Range(log')
           /\ Durable'
<1>1. Range(files[path].events) \subseteq Range(files'[path'].events)
  <2>1. files[path].events \in Seq(Events)
    BY ContentsEvents DEF StoreInv, TypeOK
  <2> QED
    BY <2>1, HistoryStep, GrownKeeps
<1>2. CASE \E w \in Writers : AppendEvents(w)
  <2> PICK w \in Writers : AppendEvents(w)
    BY <1>2
  <2>1. /\ log' = log \o NewEvents(w)
        /\ acked' = acked \cup Range(NewEvents(w))
        /\ UNCHANGED <<files, path>>
        /\ copy[w].events = files[path].events
    BY DEF AppendEvents, StoreInv, CopyExtends
  <2>2. NewEvents(w) \in Seq(Events) /\ log \in Seq(Events)
    BY NewEventsType DEF StoreInv, TypeOK
  <2>3. Range(log) \subseteq Range(log') /\ Range(NewEvents(w)) \subseteq Range(log')
    BY <2>1, <2>2, RangeConcatenation
  <2>4. Range(NewEvents(w)) \subseteq Range(files[path].events)
    BY <2>1, NewEventsAreOfCopy
  <2> QED
    BY <2>1, <2>3, <2>4 DEF Durable
<1>3. CASE UNCHANGED <<log, acked>>
  BY <1>1, <1>3 DEF Durable
<1> QED
  BY <1>2, <1>3
     DEF Next, Update, LoadAndChange, OpenTmp, WriteTmp, Rename, Fail, Crash, storeVars

\* In one process, an update that returned success is never lost from the
\* record or from the log, whatever fails or crashes later.
THEOREM AcknowledgedStays ==
    ASSUME OneProcess
    PROVE  Spec => AcknowledgedIsKept
<1>1. Init => Durable
  BY DEF Init, Durable
<1>2. StoreInv /\ Durable /\ [Next]_storeVars => Durable'
  BY DurableStep
<1>3. StoreInv /\ Durable /\ [Next]_storeVars =>
          [acked \subseteq Range(files'[path'].events) /\ acked \subseteq Range(log')]_storeVars
  BY DurableStep
<1> QED
  BY <1>1, <1>2, <1>3, StoreInvariant, PTL DEF Spec, AcknowledgedIsKept

-----------------------------------------------------------------------------
(***************************************************************************)
(* The log.  It is placed in the record's history; while an update is      *)
(* between its rename and its append, in the history before its event.     *)
(***************************************************************************)

\* The elements of short have their places among the first so many of long.
Placed(short, long, many) ==
    \E place \in [1..Len(short) -> 1..many] :
        /\ \A i \in 1..Len(short) : short[i] = long[place[i]]
        /\ \A i, j \in 1..Len(short) : i < j => place[i] < place[j]

LogInv ==
    LET history == files[path].events
    IN  /\ Placed(log, history, Len(history))
        /\ \A w \in Writers : at[w] = "saved" =>
              /\ Placed(log, history, copy[w].before)
              /\ Len(history) \in {copy[w].before, copy[w].before + 1}

LEMMA PlacedIsSubSequence ==
    ASSUME NEW short \in Seq(Events), NEW long \in Seq(Events), Placed(short, long, Len(long))
    PROVE  IsSubSequence(short, long)
<1>1. DOMAIN short = 1..Len(short) /\ DOMAIN long = 1..Len(long)
  OBVIOUS
<1> QED
  BY <1>1 DEF Placed, IsSubSequence

\* A history that grows keeps the places.
LEMMA PlacedInGrown ==
    ASSUME NEW short \in Seq(Events), NEW g \in Seq(Events), NEW h, Grown(g, h),
           Placed(short, g, Len(g))
    PROVE  /\ Placed(short, h, Len(g))
           /\ Placed(short, h, Len(h))
           /\ Len(h) \in {Len(g), Len(g) + 1}
<1>1. h \in Seq(Events) /\ Len(h) \in {Len(g), Len(g) + 1} /\ \A i \in 1..Len(g) : h[i] = g[i]
  BY AppendProperties DEF Grown
<1>2. PICK place \in [1..Len(short) -> 1..Len(g)] :
          /\ \A i \in 1..Len(short) : short[i] = g[place[i]]
          /\ \A i, j \in 1..Len(short) : i < j => place[i] < place[j]
  BY DEF Placed
<1>3. \A i \in 1..Len(short) : short[i] = h[place[i]]
  BY <1>1, <1>2
<1>4. Len(g) \in Nat
  OBVIOUS
<1>5. place \in [1..Len(short) -> 1..Len(h)]
  BY <1>1, <1>2, <1>4
<1> QED
  BY <1>1, <1>2, <1>3, <1>5 DEF Placed

\* The event after the places used takes the next one.
LEMMA PlacedNext ==
    ASSUME NEW short \in Seq(Events), NEW long \in Seq(Events), NEW many \in Nat,
           Len(long) = many + 1, Placed(short, long, many)
    PROVE  Placed(Append(short, long[many + 1]), long, Len(long))
<1> DEFINE m == Len(short)
           more == Append(short, long[many + 1])
<1>1. PICK place \in [1..m -> 1..many] :
          /\ \A i \in 1..m : short[i] = long[place[i]]
          /\ \A i, j \in 1..m : i < j => place[i] < place[j]
  BY DEF Placed
<1>2. m \in Nat /\ long[many + 1] \in Events
  OBVIOUS
<1>3. /\ more \in Seq(Events) /\ Len(more) = m + 1 /\ more[m + 1] = long[many + 1]
      /\ \A i \in 1..m : more[i] = short[i]
  BY <1>2, AppendProperties
<1> DEFINE wider == [i \in 1..(m + 1) |-> IF i = m + 1 THEN many + 1 ELSE place[i]]
<1> HIDE DEF m, more
<1>4. wider \in [1..(m + 1) -> 1..(many + 1)]
  BY <1>1, <1>2
<1>5. \A i \in 1..(m + 1) : more[i] = long[wider[i]]
  BY <1>1, <1>2, <1>3
<1>6. ASSUME NEW i \in 1..(m + 1), NEW j \in 1..(m + 1), i < j
      PROVE  wider[i] < wider[j]
  <2>1. i \in 1..m /\ wider[i] = place[i] /\ place[i] \in 1..many
    BY <1>1, <1>2, <1>6
  <2>2. CASE j = m + 1
    BY <2>1, <2>2
  <2>3. CASE j # m + 1
    BY <1>1, <1>2, <1>6, <2>1, <2>3
  <2> QED
    BY <2>2, <2>3
<1> HIDE DEF wider
<1> QED
  BY <1>3, <1>4, <1>5, <1>6 DEF Placed, more

\* An update appends what it added: nothing, or the last event of the record.
LEMMA AppendPlaced ==
    ASSUME StoreInv, LogInv, NEW w \in Writers, AppendEvents(w)
    PROVE  Placed(log', files'[path'].events, Len(files'[path'].events))
<1> DEFINE h == files[path].events
           b == copy[w].before
<1>1. h \in Seq(Events) /\ log \in Seq(Events) /\ b \in Nat
  BY ContentsEvents DEF StoreInv, TypeOK
<1>2. at[w] = "saved" /\ copy[w].events = h /\ files'[path'].events = h
  BY DEF AppendEvents, StoreInv, CopyExtends
<1>3. Placed(log, h, b) /\ Placed(log, h, Len(h)) /\ Len(h) \in {b, b + 1}
  BY <1>2 DEF LogInv
<1>4. log' = log \o SubSeq(h, b + 1, Len(h))
  BY <1>2 DEF AppendEvents, NewEvents
<1> HIDE DEF h, b
<1>5. CASE Len(h) = b
  <2>1. SubSeq(h, b + 1, Len(h)) = <<>>
    BY <1>1, <1>5
  <2>2. log' = log
    BY <1>1, <1>4, <2>1, ConcatEmptySeq
  <2> QED
    BY <1>2, <1>3, <2>2
<1>6. CASE Len(h) = b + 1
  <2>1. h[b + 1] \in Events
    BY <1>1, <1>6, ElementOfSeq
  <2>2. /\ SubSeq(h, b + 1, b + 1) \in Seq(Events)
        /\ Len(SubSeq(h, b + 1, b + 1)) = 1
        /\ SubSeq(h, b + 1, b + 1)[1] = h[b + 1]
    <3>1. /\ b + 1 \in Int
          /\ \A i \in (b + 1)..(b + 1) : h[i] \in Events
      BY <1>1, <2>1
    <3> QED
      BY <1>1, <3>1, SubSeqProperties
  <2>3. <<h[b + 1]>> \in Seq(Events) /\ Len(<<h[b + 1]>>) = 1 /\ <<h[b + 1]>>[1] = h[b + 1]
    BY <2>1
  <2>4. SubSeq(h, b + 1, b + 1) = <<h[b + 1]>>
    <3> DEFINE one == SubSeq(h, b + 1, b + 1)
               two == <<h[b + 1]>>
    <3>1. one \in Seq(Events) /\ two \in Seq(Events) /\ Len(one) = Len(two)
      BY <2>2, <2>3
    <3>2. \A i \in 1..Len(one) : one[i] = two[i]
      BY <2>2, <2>3
    <3> HIDE DEF one, two
    <3>3. one = two
      BY <3>1, <3>2, SeqEqual, ZenonT(30)
    <3> QED
      BY <3>3 DEF one, two
  <2>5. log' = Append(log, h[b + 1])
    BY <1>1, <1>4, <1>6, <2>1, <2>4, AppendIsConcat
  <2> QED
    BY <1>1, <1>2, <1>3, <1>6, <2>5, PlacedNext
<1> QED
  BY <1>3, <1>5, <1>6

LEMMA LogStep ==
    ASSUME StoreInv, StoreInv', LogInv, [Next]_storeVars
    PROVE  LogInv'
<1> DEFINE h == files[path].events
<1>1. h \in Seq(Events) /\ log \in Seq(Events)
  BY ContentsEvents DEF StoreInv, TypeOK
<1>2. Placed(log, h, Len(h))
  BY DEF LogInv
<1>3. ASSUME NEW w \in Writers, Rename(w)
      PROVE  LogInv'
  <2> HIDE DEF h
  <2>1. files'[path'] = Record(copy[w].events) /\ Grown(h, copy[w].events)
    BY <1>3, RenameReplaces DEF h
  <2>2. files'[path'].events = copy[w].events /\ log' = log
    BY <1>3, <2>1 DEF Record, Rename
  <2>3. copy[w].before = Len(h) /\ copy' = copy
    BY <1>3 DEF StoreInv, CopyExtends, Rename, h
  <2>4. \A v \in Writers : at'[v] = "saved" => v = w
    BY <1>3 DEF StoreInv, Serial, Rename, TypeOK
  <2> QED
    BY <1>1, <1>2, <2>2, <2>3, <2>4, <2>1, PlacedInGrown DEF LogInv
<1>4. ASSUME NEW w \in Writers, AppendEvents(w)
      PROVE  LogInv'
  <2>1. \A v \in Writers : at'[v] # "saved"
    BY <1>4 DEF StoreInv, Serial, AppendEvents, Finish, TypeOK
  <2> QED
    BY <1>4, <2>1, AppendPlaced DEF LogInv
<1>5. ASSUME files'[path'].events = h, log' = log,
             \A v \in Writers : at'[v] = "saved" => at[v] = "saved" /\ copy'[v] = copy[v]
      PROVE  LogInv'
  BY <1>5 DEF LogInv
<1>6. ASSUME NEW w \in Writers, NEW changes \in BOOLEAN, LoadAndChange(w, changes)
      PROVE  LogInv'
  BY <1>5, <1>6 DEF LoadAndChange, StoreInv, TypeOK
<1>7. ASSUME NEW w \in Writers, OpenTmp(w)
      PROVE  LogInv'
  <2>1. PICK i \in Inodes : i # path /\ files' = [files EXCEPT ![i] = Empty]
    BY <1>7 DEF OpenTmp, InUse, StoreInv, TypeOK, TmpIsOwn
  <2> QED
    BY <1>5, <1>7, <2>1 DEF OpenTmp, StoreInv, TypeOK
<1>8. ASSUME NEW w \in Writers, WriteTmp(w)
      PROVE  LogInv'
  <2>1. fd[w] # path /\ path \in Inodes /\ path' = path
    BY <1>8 DEF WriteTmp, StoreInv, TmpIsOwn, TypeOK
  <2>2. PICK content : files' = [files EXCEPT ![fd[w]] = content]
    BY <1>8 DEF WriteTmp
  <2> QED
    BY <1>5, <1>8, <2>1, <2>2 DEF WriteTmp, StoreInv, TypeOK
<1>9. ASSUME NEW w \in Writers, Fail(w)
      PROVE  LogInv'
  BY <1>5, <1>9 DEF Fail, Finish, StoreInv, TypeOK
<1>10. ASSUME NEW p \in Processes, Crash(p)
       PROVE  LogInv'
  BY <1>5, <1>10 DEF Crash, StoreInv, TypeOK
<1>11. CASE UNCHANGED storeVars
  BY <1>5, <1>11 DEF storeVars
<1> QED
  BY <1>3, <1>4, <1>6, <1>7, <1>8, <1>9, <1>10, <1>11 DEF Next, Update

\* In one process the log is, whatever fails or crashes, the record's history
\* with at worst events missing: none out of order, none twice, none that the
\* record does not have (Update, AppendEvents).
THEOREM LogIsOfRecord ==
    ASSUME OneProcess
    PROVE  Spec => []LogIsOfTheRecord
<1>1. ASSUME Init PROVE LogInv
  <2>1. log = <<>> /\ files[path].events = <<>> /\ \A w \in Writers : at[w] = "idle"
    BY <1>1 DEF Init, Record
  <2>2. Placed(<<>>, <<>>, Len(<<>>))
    <3>1. 1..Len(<<>>) = {}
      BY EmptySeq
    <3>2. [i \in {} |-> 0] \in [{} -> {}]
      OBVIOUS
    <3> QED
      BY <3>1, <3>2 DEF Placed
  <2> QED
    BY <2>1, <2>2 DEF LogInv
<1>2. StoreInv /\ LogInv => LogIsOfTheRecord
  BY PlacedIsSubSequence, ContentsEvents DEF StoreInv, TypeOK, LogInv, LogIsOfTheRecord
<1>3. StoreInv /\ StoreInv' /\ LogInv /\ [Next]_storeVars => LogInv'
  BY LogStep
<1> QED
  BY <1>1, <1>2, <1>3, StoreInvariant, PTL DEF Spec

=============================================================================
