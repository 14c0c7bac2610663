------------------------------ MODULE Messages -------------------------------
(***************************************************************************)
(* What the properties say of sequences of messages.                       *)
(***************************************************************************)
EXTENDS Naturals, Sequences

\* The messages of q that are in S, in their order: SelectSeq as a recursive
\* function, which proofs can be about.
Only(q, S) ==
  LET only[n \in 0 .. Len(q)] ==
        IF n = 0 THEN <<>>
        ELSE IF q[n] \in S THEN Append(only[n - 1], q[n]) ELSE only[n - 1]
  IN  only[Len(q)]
=============================================================================
