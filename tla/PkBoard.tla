------------------------------ MODULE PkBoard ------------------------------
(***************************************************************************)
(* The match-3 board of pk-engine and the topology it walks on, with a     *)
(* listener that redraws the cells it is told have changed.  Boards are    *)
(* square and have a second column: init takes width_ from the length of   *)
(* chips[1], a column, and height_ from the number of columns, which is    *)
(* right only then.                                                        *)
(***************************************************************************)
EXTENDS PkSequences, SequencesExt, FiniteSetsExt, FiniteSets

CONSTANTS
    Size,           \* width_ and height_
    Chips,          \* the kinds of chips
    EmptyChip,      \* EMPTY_CHIP
    MinLengths,     \* what the game passes to burn_chips
    CellSize        \* cell_w and cell_h of a topology

ASSUME BoardAssumption ==
    /\ Size \in Nat \ {0, 1} /\ CellSize \in Nat \ {0}
    /\ MinLengths \subseteq Nat \ {0}
    /\ EmptyChip \notin Chips

VARIABLES
    chips_,
    drawn,          \* external: the chips that a listener has drawn
    unreported      \* for the properties: what fills changed that failed, and no call since

boardVars == <<chips_, drawn, unreported>>

Coords == 0 .. Size - 1
Cells == Coords \X Coords
-----------------------------------------------------------------------------
(* Topology *)

Directions == {"UP", "LEFT", "DOWN", "RIGHT"}

\* Mutant of Delta: up and down are exchanged.
DeltaFlipped(dir) ==
    CASE dir = "UP" -> <<0, 1>> [] dir = "LEFT" -> <<-1, 0>>
      [] dir = "DOWN" -> <<0, -1>> [] dir = "RIGHT" -> <<1, 0>>

Delta(dir) ==
    CASE dir = "UP" -> <<0, -1>> [] dir = "LEFT" -> <<-1, 0>>
      [] dir = "DOWN" -> <<0, 1>> [] dir = "RIGHT" -> <<1, 0>>

\* The cell n steps away, and get_adjacent_cell: none outside the board.
Away(c, dir, n) == <<c[1] + n * Delta(dir)[1], c[2] + n * Delta(dir)[2]>>
Adjacent(c, dir) == {Away(c, dir, 1)} \cap Cells

\* get_adjacency_direction_to, for valid cells: the first direction that leads there.
DirectionTo(c, d) ==
    IF \E dir \in Directions : d \in Adjacent(c, dir)
    THEN CHOOSE dir \in Directions : d \in Adjacent(c, dir)
    ELSE "NONE"

\* cells_are_adjacent
AreAdjacent(c, d) == d \in UNION {Adjacent(c, dir) : dir \in Directions}

Abs(n) == IF n < 0 THEN -n ELSE n

\* get_closest_direction
ClosestDirection(c, d) ==
    LET x == d[1] - c[1]
        y == d[2] - c[2]
    IN  IF x > 0 /\ x > Abs(y) THEN "RIGHT"
        ELSE IF x < 0 /\ -x > Abs(y) THEN "LEFT"
        ELSE IF y > 0 THEN "DOWN" ELSE "UP"

\* get_cell_center and get_cell_from_point, at position 0.
Center(c) == <<c[1] * CellSize + CellSize \div 2, c[2] * CellSize + CellSize \div 2>>
CellFromPoint(p) == {<<p[1] \div CellSize, p[2] \div CellSize>>} \cap Cells
-----------------------------------------------------------------------------
(* The board *)

BoardTypeOK ==
    /\ chips_ \in [Cells -> Chips \cup {EmptyChip}]
    /\ drawn \in [Cells -> Chips \cup {EmptyChip}]
    /\ unreported \in SUBSET Cells

\* init, with whatever chips the game passes.
BoardInit ==
    /\ chips_ \in [Cells -> Chips \cup {EmptyChip}]
    /\ drawn = chips_
    /\ unreported = {}

IsEmpty(c) == chips_[c] = EmptyChip

\* Mutant of OnChange: only one of the cells is reported.
OnChangeFirst(cells) ==
    LET c == CHOOSE x \in cells : TRUE
    IN  /\ drawn' = [drawn EXCEPT ![c] = chips_'[c]]
        /\ unreported' = unreported \ cells

\* on_change_: the listener draws the cells it is told of, all of them for a full board.
OnChange(cells) ==
    /\ drawn' = [c \in Cells |-> IF c \in cells THEN chips_'[c] ELSE drawn[c]]
    /\ unreported' = unreported \ cells

\* remove_chip, place_chip
PlaceChip(c, chip) ==
    /\ chips_' = [chips_ EXCEPT ![c] = chip]
    /\ OnChange({c})

\* swap_chips
SwapChips(from, to) ==
    /\ chips_' = [chips_ EXCEPT ![from] = chips_[to], ![to] = chips_[from]]
    /\ OnChange({from, to})

\* fill_chips, unless CRITICAL_ERROR throws: it returns where errors are handled.
FillChips(chips) ==
    /\ chips_' = [c \in Cells |-> IF IsEmpty(c) THEN chips[c] ELSE chips_[c]]
    /\ OnChange(Cells)

\* The order in which fill_chips goes through the cells.
Before(c, d) == c[1] < d[1] \/ (c[1] = d[1] /\ c[2] < d[2])

\* fill_chips with fail_on_difference, throwing at c, the first chip that differs: the empty
\* cells before c are filled, and nobody is told.
FillFails(chips, c) ==
    LET differ == {d \in Cells : ~IsEmpty(d) /\ chips_[d] # chips[d]}
        filled == {d \in Cells : IsEmpty(d) /\ Before(d, c)}
    IN  /\ c \in differ /\ \A d \in differ : ~Before(d, c)
        /\ chips_' = [d \in Cells |-> IF d \in filled THEN chips[d] ELSE chips_[d]]
        /\ unreported' = unreported \cup filled
        /\ UNCHANGED drawn

\* Mutant of Ray: it does not stop at the first other chip.
RayThrough(c, dir) ==
    {d \in {Away(c, dir, n) : n \in Coords} \cap Cells : chips_[d] = chips_[c]}

\* run_ray from c, which it includes, to the first cell with another chip.
Ray(c, dir) ==
    {Away(c, dir, n) : n \in {m \in Coords : \A i \in 0 .. m :
        Away(c, dir, i) \in Cells /\ chips_[Away(c, dir, i)] = chips_[c]}}

\* The cell is not the continuation of a run.
StartsRun(c, behind) == \A d \in Adjacent(c, behind) : chips_[d] # chips_[c]

\* What burn_chips finds: runs to the right and runs down, each from where it starts.
Burned(min_length) ==
    UNION {Ray(r[1], r[2]) : r \in
             {r \in Cells \X {"RIGHT", "DOWN"} :
                /\ ~IsEmpty(r[1])
                /\ StartsRun(r[1], IF r[2] = "RIGHT" THEN "LEFT" ELSE "UP")
                /\ Cardinality(Ray(r[1], r[2])) >= min_length}}

\* burn_chips
BurnChips(min_length) ==
    /\ chips_' = [c \in Cells |-> IF c \in Burned(min_length) THEN EmptyChip ELSE chips_[c]]
    /\ OnChange(Cells)

\* Mutant of Fall: the empty cells are counted from the last chip only.
FallFromChip(s, y) ==
    LET chip == s.column[y]
    IN  IF chip = EmptyChip THEN [s EXCEPT !.dy = @ + 1]
        ELSE [column |-> [s.column EXCEPT ![y] = EmptyChip, ![y + s.dy] = chip], dy |-> 0]

\* The body of shift_chips_down's loop: the chip at y of the column, if there is one, is moved
\* down by dy, over the cells that were found empty or have been emptied.
Fall(s, y) ==
    LET chip == s.column[y]
    IN  IF chip = EmptyChip THEN [s EXCEPT !.dy = @ + 1]
        ELSE [s EXCEPT !.column = [@ EXCEPT ![y] = EmptyChip, ![y + s.dy] = chip]]

\* Its loop over the column x, in place, from the bottom up.
ShiftedColumn(x) ==
    LET scan[n \in 0 .. Size] ==
          IF n = 0 THEN [column |-> [y \in Coords |-> chips_[<<x, y>>]], dy |-> 0]
          ELSE Fall(scan[n - 1], Size - n)
    IN  scan[Size].column

Shifted ==
    LET columns == [x \in Coords |-> ShiftedColumn(x)]
    IN  [c \in Cells |-> columns[c[1]][c[2]]]

\* shift_chips_down
ShiftChipsDown == chips_' = Shifted /\ OnChange(Cells)

BoardNext ==
    \/ \E c \in Cells, chip \in Chips \cup {EmptyChip} : PlaceChip(c, chip)
    \/ \E from \in Cells, dir \in {"DOWN", "RIGHT"} : \E to \in Adjacent(from, dir) : SwapChips(from, to)
    \/ \E chip \in Chips : FillChips([c \in Cells |-> chip])
    \/ \E chip \in Chips, c \in Cells : FillFails([d \in Cells |-> chip], c)
    \/ \E n \in MinLengths : BurnChips(n)
    \/ ShiftChipsDown

BoardSpec == BoardInit /\ [][BoardNext]_boardVars

\* The turns of a game, which burn runs and let the rest fall, from any board.
TurnNext == (\E n \in MinLengths : BurnChips(n)) \/ ShiftChipsDown
-----------------------------------------------------------------------------
\* A listener that draws just what it is told of (board.js, line 41: of any change) shows the
\* board, but for cells that a failing fill changed, and those only until a call reports them.
ListenersCurrent == \A c \in Cells : drawn[c] = chips_[c] \/ c \in unreported

\* n cells in a line or in a column.
Segments(n) ==
    {{Away(c, dir, i) : i \in 0 .. n - 1} : c \in Cells, dir \in {"RIGHT", "DOWN"}} \cap SUBSET Cells

\* What burn_chips finds is what lies in a segment of enough equal chips, in a line or in a
\* column, crossings and runs longer than asked for included.
BurnsRuns ==
    \A n \in MinLengths :
      Burned(n) = UNION {s \in Segments(n) : \E chip \in Chips : \A c \in s : chips_[c] = chip}

Column(chips, x) == [i \in 1 .. Size |-> chips[<<x, i - 1>>]]
Solid(column) == Those(column, Chips)

\* Chips fall to the bottom of their column, in the order they had, and none is lost.
ShiftSettles ==
    \A x \in Coords :
      LET column == Column(Shifted, x)
      IN  /\ Solid(column) = Solid(Column(chips_, x))
          /\ IsSuffix(Solid(column), column)

\* The topology agrees with itself wherever there is a chip: the neighbour in a direction has
\* the cell for a neighbour and is found in that direction, a gesture to it or along a run of
\* equal chips is read as that direction, and the centre of a cell is a point of it.
TopologyAgrees ==
    \A c \in {d \in Cells : ~IsEmpty(d)} :
      /\ CellFromPoint(Center(c)) = {c}
      /\ \A dir \in Directions :
           /\ \A d \in Adjacent(c, dir) : AreAdjacent(d, c) /\ DirectionTo(c, d) = dir
           /\ \A d \in Adjacent(c, dir) \cup (Ray(c, dir) \ {c}) : ClosestDirection(c, d) = dir
=============================================================================
