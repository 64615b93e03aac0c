----------------------------- MODULE MCTerminal -----------------------------
(***************************************************************************)
(* Instances of Terminal for TLC.                                          *)
(***************************************************************************)
EXTENDS Terminal

=============================================================================
