------------------------------- MODULE MCParts -------------------------------
(***************************************************************************)
(* Tags, order, recurring jobs and workers of qless, and the turns of the  *)
(* board of pk-engine, which share no state, on small instances: one of    *)
(* them is chosen in the initial state and moves, the others rest.         *)
(***************************************************************************)
EXTENDS QlessTags, QlessOrder, QlessRecur, QlessWorkers, PkBoard, TLC

CONSTANTS j1, j2, j3, t1, t2, r1, q1, q2, w1, w2, k1

VARIABLE part

\* Jobs, tags and queues are interchangeable.
Symmetry == Permutations(Jids) \cup Permutations(Tags) \cup Permutations(Queues)

\* The types of all parts.
PartsTypeOK == TagsTypeOK /\ OrderTypeOK /\ RecTypeOK /\ WorkersTypeOK /\ BoardTypeOK

PartsInit ==
    /\ part \in {"tags", "order", "recurring", "workers", "board"}
    /\ TagsInit /\ OrderInit /\ RecurInit /\ WorkersInit /\ BoardInit
    /\ part # "board" => \A c \in Cells : chips_[c] = EmptyChip

PartsNext ==
    \/ /\ part = "tags" /\ TagsNext
       /\ UNCHANGED <<part, orderVars, recurVars, workersVars, boardVars>>
    \/ /\ part = "order" /\ OrderNext
       /\ UNCHANGED <<part, tagVars, recurVars, workersVars, boardVars>>
    \/ /\ part = "recurring" /\ NoReuseNext
       /\ UNCHANGED <<part, tagVars, orderVars, workersVars, boardVars>>
    \/ /\ part = "workers" /\ WorkersNext
       /\ UNCHANGED <<part, tagVars, orderVars, recurVars, boardVars>>
    \/ /\ part = "board" /\ TurnNext
       /\ UNCHANGED <<part, tagVars, orderVars, recurVars, workersVars>>

PartsSpec ==
    PartsInit /\ [][PartsNext]_<<part, tagVars, orderVars, recurVars, workersVars, boardVars>>
=============================================================================
