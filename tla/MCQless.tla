------------------------------ MODULE MCQless ------------------------------
(* Small instances of Qless for TLC. *)
EXTENDS QlessLoose, QlessRefinement, TLC

CONSTANTS j1, j2, j3, w1, w2, q1, q2, g1

\* Dependencies clients may ask for: none, a chain, or any at all (cycles too).
NoDeps == [j \in Jids |-> {}]
Chain  == [j \in Jids |-> IF j = j2 THEN {j1} ELSE IF j = j3 THEN {j1, j2} ELSE {}]
AnyDeps == [j \in Jids |-> Jids]

\* Workers and queues are interchangeable; jobs are not, where MayWait tells them apart.
Symmetry == Permutations(Workers) \cup Permutations(Queues)
FullSymmetry == Symmetry \cup Permutations(Jids)
=============================================================================
