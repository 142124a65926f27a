----------------------------- MODULE Selection -----------------------------
(***************************************************************************)
(* What a loop collects that goes through a sequence and keeps some of it. *)
(* SelectSeq() does the same with a condition; here it is a set of         *)
(* positions, which the proofs can reason about.                           *)
(***************************************************************************)
EXTENDS Integers, Sequences

\* The elements at these positions, in order.
Chosen(s, positions) ==
    LET chosen[k \in 0..Len(s)] ==
          IF k = 0 THEN <<>>
          ELSE IF k \in positions THEN Append(chosen[k - 1], s[k]) ELSE chosen[k - 1]
    IN chosen[Len(s)]

\* 1, ..., n
Numbers(n) == [i \in 1..n |-> i]
=============================================================================
