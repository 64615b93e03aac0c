------------------------------- MODULE MCStore -------------------------------
(* Finite instances of Store for TLC. *)
EXTENDS Store, TLC

CONSTANTS w1, w2

\* Two goroutines of one process.
SameProcess == [w \in Writers |-> "agentwarden"]

=============================================================================
