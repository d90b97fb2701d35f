----------------------------- MODULE MCProgress -----------------------------
(***************************************************************************)
(* Two systems that share no state, on small instances: Qless once clients *)
(* have stopped, and the board of pk-engine under all calls of a game.     *)
(* One of them is chosen in the initial state and moves, the other rests:  *)
(* an empty queue, or an empty board.                                      *)
(***************************************************************************)
EXTENDS QlessLive, PkBoard

CONSTANTS j1, j2, j3

VARIABLE moving

Chain == [j \in Jids |-> IF j = j2 THEN {j1} ELSE IF j = j3 THEN {j1, j2} ELSE {}]

ProgressInit ==
    /\ moving \in {"jobs", "board"}
    /\ IF moving = "jobs" THEN LiveInit ELSE Init
    /\ BoardInit
    /\ moving # "board" => \A c \in Cells : chips_[c] = EmptyChip

ProgressNext ==
    \/ moving = "jobs" /\ LiveNext /\ UNCHANGED <<moving, boardVars>>
    \/ moving = "board" /\ BoardNext /\ UNCHANGED <<moving, vars>>

ProgressSpec ==
    ProgressInit /\ [][ProgressNext]_<<moving, vars, boardVars>> /\ LiveFairness
=============================================================================
