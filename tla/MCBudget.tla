------------------------------ MODULE MCBudget ------------------------------
(* A small instance of QlessBudget for TLC. *)
EXTENDS QlessBudget, TLC

CONSTANTS j1, j2, j3, w1, q1, q2, g1

NoDeps == [j \in Jids |-> {}]
Symmetry == Permutations(Workers) \cup Permutations(Queues) \cup Permutations(Jids)
=============================================================================
