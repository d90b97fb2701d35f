------------------------------- MODULE PkUndo -------------------------------
(***************************************************************************)
(* PK.make_undo_redo, with an editor that uses it as it is meant to: it    *)
(* passes its document to Before_do ahead of each change and to Undo, and  *)
(* takes what Undo and Redo return.  Mementos are copied, so that they are *)
(* values here.                                                            *)
(***************************************************************************)
EXTENDS Integers, Sequences, SequencesExt

CONSTANTS
    Docs,           \* the states of a document
    MaxDepth,
    NoDoc           \* undefined

ASSUME UndoAssumption == MaxDepth \in Nat \ {0} /\ NoDoc \notin Docs

VARIABLES
    doc,            \* external: the editor's document
    read_only_,
    undo_stack_, redo_stack_,
    current_memento_

undoVars == <<doc, read_only_, undo_stack_, redo_stack_, current_memento_>>

UndoTypeOK ==
    /\ doc \in Docs
    /\ read_only_ \in BOOLEAN
    /\ undo_stack_ \in Seq(Docs) /\ redo_stack_ \in Seq(Docs)
    /\ current_memento_ \in Docs \cup {NoDoc}

UndoInit ==
    /\ doc \in Docs
    /\ read_only_ = FALSE
    /\ undo_stack_ = <<>> /\ redo_stack_ = <<>>
    /\ current_memento_ = NoDoc

\* The undo stack with room for one more memento.
Deepened(s) == IF Len(s) + 1 > MaxDepth THEN Tail(s) ELSE s

\* Mutant of Do: what was undone can be redone still.
DoKeeping(d) ==
    /\ ~read_only_
    /\ undo_stack_' = Append(Deepened(undo_stack_), doc)
    /\ UNCHANGED redo_stack_
    /\ current_memento_' = NoDoc
    /\ doc' = d
    /\ UNCHANGED read_only_

\* Before_do, and the change.
Do(d) ==
    /\ ~read_only_
    /\ undo_stack_' = Append(Deepened(undo_stack_), doc)
    /\ redo_stack_' = <<>>
    /\ current_memento_' = NoDoc
    /\ doc' = d
    /\ UNCHANGED read_only_

\* Undo, when Can_undo.
Undo ==
    /\ ~read_only_ /\ undo_stack_ # <<>>
    /\ redo_stack_' = Append(redo_stack_, doc)
    /\ current_memento_' = Last(undo_stack_)
    /\ undo_stack_' = Front(undo_stack_)
    /\ doc' = current_memento_'
    /\ UNCHANGED read_only_

\* Redo, when Can_redo: the memento that is pushed is the store's own, not the document.
Redo ==
    /\ ~read_only_ /\ redo_stack_ # <<>>
    /\ undo_stack_' = Append(undo_stack_, current_memento_)
    /\ current_memento_' = Last(redo_stack_)
    /\ redo_stack_' = Front(redo_stack_)
    /\ doc' = current_memento_'
    /\ UNCHANGED read_only_

Clear ==
    /\ ~read_only_
    /\ undo_stack_' = <<>> /\ redo_stack_' = <<>>
    /\ current_memento_' = NoDoc
    /\ UNCHANGED <<doc, read_only_>>

Make_read_only(f) ==
    /\ read_only_' = f
    /\ UNCHANGED <<doc, undo_stack_, redo_stack_, current_memento_>>

UndoNext ==
    \/ \E d \in Docs : Do(d)
    \/ Undo
    \/ Redo
    \/ Clear
    \/ \E f \in BOOLEAN : Make_read_only(f)

UndoSpec == UndoInit /\ [][UndoNext]_undoVars
-----------------------------------------------------------------------------
\* The assertion of Redo holds, and what Redo pushes is the document the user sees: whatever
\* was done, undone, redone and cleared before, the memento is current when it is needed.
MementoCurrent == redo_stack_ # <<>> => current_memento_ = doc

\* Neither stack outgrows the depth, the redo stack included, which nothing trims.
DepthBounded == Len(undo_stack_) + Len(redo_stack_) <= MaxDepth

History == INSTANCE PkTimeline WITH
              states <- undo_stack_ \o <<doc>> \o Reverse(redo_stack_),
              at     <- Len(undo_stack_) + 1,
              locked <- read_only_

\* The two stacks are a time line: undo and redo walk along the states that were made, in
\* their order, and only a change or a clear forgets any.
KeepsTimeline == History!Timeline
=============================================================================
