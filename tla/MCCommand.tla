----------------------------- MODULE MCCommand -----------------------------
(* Instances of Command: a gate, and a shell command. *)
EXTENDS Command

GateStreams == {"stdout", "stderr"}
ShellStreams == {"combined"}

=============================================================================
