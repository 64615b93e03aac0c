------------------------------- MODULE Lists -------------------------------
(***************************************************************************)
(* What the code's loops pick out of a list.                               *)
(***************************************************************************)
EXTENDS Integers, Sequences

\* What a sequence has at some places, in order.
Chosen(seq, places) ==
    LET chosen[n \in 0..Len(seq)] ==
            IF n = 0 THEN <<>>
            ELSE IF n \in places THEN Append(chosen[n - 1], seq[n])
            ELSE chosen[n - 1]
    IN  chosen[Len(seq)]

=============================================================================
