---- MODULE TaskHistory ----
(***************************************************************************)
(* What Store.Update promises of a task, with no word of files: the task   *)
(* has a history of events, an update that goes through adds its own event *)
(* behind those it found, and no event is lost, replaced or moved.         *)
(***************************************************************************)
EXTENDS Sequences

CONSTANT Happenings  \* the events that updates record

VARIABLE history     \* those recorded so far, the oldest first

\* A created task has seen none.
Created == history = <<>>

Recorded(event) == history' = Append(history, event)

Updated == \E event \in Happenings : Recorded(event)

Promise == Created /\ [][Updated]_history

====
