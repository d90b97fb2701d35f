----------------------------- MODULE PkTimeline -----------------------------
(***************************************************************************)
(* What a user expects of undo and redo: the document's recent states in   *)
(* the order they were made, and where among them the document is now.     *)
(***************************************************************************)
EXTENDS Integers, Sequences

CONSTANTS Docs, MaxDepth

VARIABLES states, at, locked

\* The states up to i, without the oldest when there are more than MaxDepth.
Oldest(i) == IF i > MaxDepth THEN i - MaxDepth + 1 ELSE 1
Past(i) == SubSeq(states, Oldest(i), i)

Start ==
    /\ states \in [1 .. 1 -> Docs]
    /\ at = 1
    /\ locked \in BOOLEAN

\* A change drops what was undone, and the oldest state when there are too many.
Change(d) ==
    /\ ~locked
    /\ states' = Append(Past(at), d)
    /\ at' = Len(Past(at)) + 1
    /\ UNCHANGED locked

Back ==
    /\ ~locked /\ at > 1
    /\ at' = at - 1
    /\ UNCHANGED <<states, locked>>

Forth ==
    /\ ~locked /\ at < Len(states)
    /\ at' = at + 1
    /\ UNCHANGED <<states, locked>>

Forget ==
    /\ ~locked
    /\ states' = <<states[at]>>
    /\ at' = 1
    /\ UNCHANGED locked

Lock(b) == locked' = b /\ UNCHANGED <<states, at>>

Move ==
    \/ \E d \in Docs : Change(d)
    \/ Back
    \/ Forth
    \/ Forget
    \/ \E b \in BOOLEAN : Lock(b)

Timeline == Start /\ [][Move]_<<states, at, locked>>
=============================================================================
