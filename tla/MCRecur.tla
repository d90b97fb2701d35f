------------------------------ MODULE MCRecur ------------------------------
(* A small instance of QlessRecur for TLC. *)
EXTENDS QlessRecur, TLC

CONSTANTS r1, r2, q1, q2

Symmetry == Permutations(Recs) \cup Permutations(Queues)
=============================================================================
