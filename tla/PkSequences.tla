---------------------------- MODULE PkSequences ----------------------------
(***************************************************************************)
(* Filtering a sequence, as a recursive function: SelectSeq is a RECURSIVE *)
(* operator, and proofs about it need induction that they cannot cite.     *)
(***************************************************************************)
EXTENDS Integers, Sequences

\* The members of s that are in S, in their order.
Those(s, S) ==
    LET upTo[i \in 0 .. Len(s)] ==
          IF i = 0 THEN <<>>
          ELSE IF s[i] \in S THEN Append(upTo[i - 1], s[i]) ELSE upTo[i - 1]
    IN  upTo[Len(s)]
=============================================================================
