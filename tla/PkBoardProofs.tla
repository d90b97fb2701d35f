--------------------------- MODULE PkBoardProofs ----------------------------
(***************************************************************************)
(* The board and its topology, for boards of any size: listeners draw what *)
(* is there, runs of equal chips are burned and chips fall.                *)
(***************************************************************************)
EXTENDS PkBoard, PkSequenceLemmas

(* The board and its listener                                              *)

BoardInv == ListenersCurrent /\ chips_ = [c \in Cells |-> chips_[c]]

\* What a failing fill changes is unreported.
LEMMA FailedUnreported ==
    ASSUME BoardInv, NEW chips, NEW c, FillFails(chips, c)
    PROVE  BoardInv'
<1>1. \A d \in Cells : chips_'[d] = chips_[d] \/ d \in unreported'
  BY DEF FillFails
<1>2. chips_' = [d \in Cells |-> chips_'[d]]
  BY DEF FillFails
<1>3. drawn' = drawn /\ unreported \subseteq unreported'
  BY DEF FillFails
<1> QED BY <1>1, <1>2, <1>3 DEF BoardInv, ListenersCurrent

\* What is reported is drawn: it is enough that all that changes is reported.
LEMMA ChangeDrawn ==
    ASSUME BoardInv, NEW S, OnChange(S), chips_' = [c \in Cells |-> chips_'[c]],
           \A c \in Cells \ S : chips_'[c] = chips_[c]
    PROVE  BoardInv'
BY DEF BoardInv, ListenersCurrent, OnChange

LEMMA BoardStep == BoardInv /\ [BoardNext]_boardVars => BoardInv'
<1> SUFFICES ASSUME BoardInv, [BoardNext]_boardVars PROVE BoardInv'
  OBVIOUS
<1>1. ASSUME NEW c \in Cells, NEW chip \in Chips \cup {EmptyChip}, PlaceChip(c, chip) PROVE BoardInv'
  <2>1. /\ chips_' = [d \in Cells |-> chips_'[d]]
        /\ \A d \in Cells \ {c} : chips_'[d] = chips_[d]
    BY <1>1 DEF PlaceChip, BoardInv
  <2> QED BY <1>1, <2>1, ChangeDrawn DEF PlaceChip
<1>2. ASSUME NEW from \in Cells, NEW to, SwapChips(from, to) PROVE BoardInv'
  <2>1. /\ chips_' = [d \in Cells |-> chips_'[d]]
        /\ \A d \in Cells \ {from, to} : chips_'[d] = chips_[d]
    BY <1>2 DEF SwapChips, BoardInv
  <2> QED BY <1>2, <2>1, ChangeDrawn DEF SwapChips
<1>3. ASSUME OnChange(Cells), chips_' = [c \in Cells |-> chips_'[c]] PROVE BoardInv'
  BY <1>3, ChangeDrawn
<1>4. ASSUME NEW chip \in Chips, FillChips([c \in Cells |-> chip]) PROVE BoardInv'
  BY <1>3, <1>4 DEF FillChips
<1>5. ASSUME NEW n \in MinLengths, BurnChips(n) PROVE BoardInv'
  BY <1>3, <1>5 DEF BurnChips
<1>6. CASE ShiftChipsDown
  BY <1>3, <1>6 DEF ShiftChipsDown, Shifted
<1>7. CASE UNCHANGED boardVars
  BY <1>7 DEF boardVars, BoardInv, ListenersCurrent
<1> QED BY <1>1, <1>2, <1>4, <1>5, <1>6, <1>7, FailedUnreported DEF BoardNext

\* Every call names all the cells it changes, but one that fails, and the next call that names
\* those cells makes good for it.
THEOREM ListenersKeptCurrent == BoardSpec => []ListenersCurrent
<1>1. BoardInit => BoardInv
  BY DEF BoardInit, BoardInv, ListenersCurrent
<1>2. BoardInv => ListenersCurrent
  BY DEF BoardInv
<1> QED BY <1>1, <1>2, BoardStep, PTL DEF BoardSpec
-----------------------------------------------------------------------------
(* The topology *)

LEMMA DeltaIs ==
    /\ Delta("UP") = <<0, -1>> /\ Delta("LEFT") = <<-1, 0>>
    /\ Delta("DOWN") = <<0, 1>> /\ Delta("RIGHT") = <<1, 0>>
BY DEF Delta

\* The steps in each direction.
Stepped(x, y, dir, n) ==
    IF dir = "UP" THEN <<x, y - n>> ELSE IF dir = "LEFT" THEN <<x - n, y>>
    ELSE IF dir = "DOWN" THEN <<x, y + n>> ELSE <<x + n, y>>

LEMMA AwayIs ==
    ASSUME NEW x \in Int, NEW y \in Int, NEW dir \in Directions, NEW n \in Int
    PROVE  Away(<<x, y>>, dir, n) = Stepped(x, y, dir, n)
<1>1. CASE dir = "UP"
  BY <1>1, DeltaIs DEF Away, Stepped
<1>2. CASE dir = "LEFT"
  BY <1>2, DeltaIs DEF Away, Stepped
<1>3. CASE dir = "DOWN"
  BY <1>3, DeltaIs DEF Away, Stepped
<1>4. CASE dir = "RIGHT"
  BY <1>4, DeltaIs DEF Away, Stepped
<1> QED BY <1>1, <1>2, <1>3, <1>4 DEF Directions

LEMMA CellIs ==
    ASSUME NEW c \in Cells
    PROVE  \E x \in Coords, y \in Coords : c = <<x, y>> /\ x \in Int /\ y \in Int
BY BoardAssumption DEF BoardAssumption, Cells, Coords

\* Each cell is next to the other on the opposite side, and nowhere else.
LEMMA AdjacentBack ==
    ASSUME NEW c \in Cells, NEW dir \in Directions, NEW d \in Adjacent(c, dir)
    PROVE  /\ d \in Cells /\ d = Away(c, dir, 1)
           /\ AreAdjacent(d, c)
           /\ DirectionTo(c, d) = dir
<1>1. d \in Cells /\ d = Away(c, dir, 1)
  BY DEF Adjacent
<1>2. PICK x \in Int, y \in Int : c = <<x, y>>
  BY CellIs
<1>3. \E back \in Directions : c = Away(d, back, 1)
  <2>0. PICK u \in Int, v \in Int : d = <<u, v>>
    BY <1>1, CellIs
  <2>1. <<u, v>> = Stepped(x, y, dir, 1)
    BY <1>1, <1>2, <2>0, AwayIs
  <2>2. \E back \in Directions : <<x, y>> = Stepped(u, v, back, 1)
    <3>1. CASE dir = "UP"
      <4>1. <<x, y>> = Stepped(u, v, "DOWN", 1)
        BY <2>1, <3>1 DEF Stepped
      <4> QED BY <4>1 DEF Directions
    <3>2. CASE dir = "LEFT"
      <4>1. <<x, y>> = Stepped(u, v, "RIGHT", 1)
        BY <2>1, <3>2 DEF Stepped
      <4> QED BY <4>1 DEF Directions
    <3>3. CASE dir = "DOWN"
      <4>1. <<x, y>> = Stepped(u, v, "UP", 1)
        BY <2>1, <3>3 DEF Stepped
      <4> QED BY <4>1 DEF Directions
    <3>4. CASE dir = "RIGHT"
      <4>1. <<x, y>> = Stepped(u, v, "LEFT", 1)
        BY <2>1, <3>4 DEF Stepped
      <4> QED BY <4>1 DEF Directions
    <3> QED BY <3>1, <3>2, <3>3, <3>4 DEF Directions
  <2>3. \A back \in Directions : Away(d, back, 1) = Stepped(u, v, back, 1)
    BY <2>0, AwayIs
  <2> QED BY <1>2, <2>2, <2>3
<1>4. AreAdjacent(d, c)
  BY <1>3 DEF AreAdjacent, Adjacent
<1>5. ASSUME NEW other \in Directions, d \in Adjacent(c, other)
      PROVE  other = dir
  <2>1. Away(c, other, 1) = Away(c, dir, 1)
    BY <1>1, <1>5 DEF Adjacent
  <2>2. Stepped(x, y, other, 1) = Stepped(x, y, dir, 1)
    BY <1>2, <2>1, AwayIs
  <2> QED BY <1>2, <2>2 DEF Stepped, Directions
<1>6. DirectionTo(c, d) = dir
  <2> DEFINE P(e) == d \in Adjacent(c, e)
  <2>1. P(dir)
    OBVIOUS
  <2>2. (CHOOSE e \in Directions : P(e)) = dir
    <3> HIDE DEF P
    <3>1. \A e \in Directions : P(e) => e = dir
      BY <1>5 DEF P
    <3> QED BY <2>1, <3>1
  <2> QED BY <2>1, <2>2 DEF DirectionTo
<1> QED BY <1>1, <1>4, <1>6

\* A gesture along a line or a column points in its direction.
LEMMA StraightAhead ==
    ASSUME NEW c \in Cells, NEW dir \in Directions, NEW n \in Nat \ {0}
    PROVE  ClosestDirection(c, Away(c, dir, n)) = dir
<1>1. PICK x \in Int, y \in Int : c = <<x, y>>
  BY CellIs
<1>2. Away(c, dir, n) = Stepped(x, y, dir, n)
  BY <1>1, AwayIs
<1>3. ClosestDirection(<<x, y>>, Stepped(x, y, dir, n)) = dir
  BY DEF ClosestDirection, Abs, Stepped, Directions
<1> QED BY <1>1, <1>2, <1>3

LEMMA Half == ASSUME NEW n \in Nat \ {0} PROVE n \div 2 \in 0 .. n - 1
OBVIOUS

LEMMA Quotient ==
    ASSUME NEW n \in Nat \ {0}, NEW q \in Int, NEW r \in 0 .. n - 1
    PROVE  (q * n + r) \div n = q
OBVIOUS

LEMMA CentersInside ==
    ASSUME NEW c \in Cells
    PROVE  CellFromPoint(Center(c)) = {c}
<1>1. PICK x \in Int, y \in Int : c = <<x, y>>
  BY CellIs
<1>2. CellSize \in Nat \ {0} /\ CellSize \div 2 \in 0 .. CellSize - 1
  BY BoardAssumption, Half DEF BoardAssumption
<1>3. \A q \in Int : (q * CellSize + CellSize \div 2) \div CellSize = q
  BY <1>2, Quotient
<1>4. CellFromPoint(Center(c)) =
        {<<(x * CellSize + CellSize \div 2) \div CellSize,
           (y * CellSize + CellSize \div 2) \div CellSize>>} \cap Cells
  BY <1>1 DEF CellFromPoint, Center
<1> QED BY <1>1, <1>3, <1>4

LEMMA RayAhead ==
    ASSUME NEW c \in Cells, NEW dir \in Directions, NEW d \in Ray(c, dir) \ {c}
    PROVE  \E n \in Nat \ {0} : d = Away(c, dir, n)
<1>1. PICK n \in Coords : d = Away(c, dir, n)
  BY DEF Ray
<1>2. PICK x \in Int, y \in Int : c = <<x, y>>
  BY CellIs
<1>3. Away(c, dir, 0) = c /\ n \in Nat
  <2>1. Stepped(x, y, dir, 0) = <<x, y>>
    BY DEF Stepped
  <2> QED BY <1>2, <2>1, AwayIs, BoardAssumption DEF BoardAssumption, Coords
<1>4. n # 0
  BY <1>1, <1>3
<1> QED BY <1>1, <1>3, <1>4

\* Whatever lies on the board, its topology agrees with itself.
LEMMA Agrees == TopologyAgrees
<1> SUFFICES ASSUME NEW c \in Cells
             PROVE  /\ CellFromPoint(Center(c)) = {c}
                    /\ \A dir \in Directions :
                         /\ \A d \in Adjacent(c, dir) : AreAdjacent(d, c) /\ DirectionTo(c, d) = dir
                         /\ \A d \in Adjacent(c, dir) \cup (Ray(c, dir) \ {c}) :
                              ClosestDirection(c, d) = dir
  BY DEF TopologyAgrees
<1>1. ASSUME NEW dir \in Directions, NEW d \in Adjacent(c, dir) \cup (Ray(c, dir) \ {c})
      PROVE  ClosestDirection(c, d) = dir
  <2>1. \E n \in Nat \ {0} : d = Away(c, dir, n)
    <3>1. CASE d \in Adjacent(c, dir)
      BY <3>1, AdjacentBack
    <3>2. CASE d \in Ray(c, dir) \ {c}
      BY <3>2, RayAhead
    <3> QED BY <3>1, <3>2
  <2> QED BY <2>1, StraightAhead
<1> QED BY <1>1, CentersInside, AdjacentBack

\* Adjacency, directions, gestures and the centres of cells agree on every board.
THEOREM TopologyRight == BoardSpec => []TopologyAgrees
BY Agrees, PTL DEF BoardSpec
-----------------------------------------------------------------------------
(* Runs of equal chips *)

LEMMA GreatestMember ==
    ASSUME NEW n \in Nat, NEW S \in SUBSET (0 .. n), S # {}
    PROVE  \E m \in S : \A k \in S : k <= m
<1> DEFINE T == {n - k : k \in S}
<1>1. T \in SUBSET Nat /\ T # {}
  <2>1. \A k \in S : n - k \in Nat
    OBVIOUS
  <2>2. PICK k \in S : TRUE
    OBVIOUS
  <2>3. n - k \in T
    OBVIOUS
  <2> QED BY <2>1, <2>3
<1>2. PICK t \in T : \A u \in T : t <= u
  <2> HIDE DEF T
  <2> QED BY <1>1, LeastMember
<1>3. PICK m \in S : t = n - m
  OBVIOUS
<1>4. ASSUME NEW k \in S PROVE k <= m
  <2>1. n - k \in T
    OBVIOUS
  <2>2. n - m <= n - k
    BY <1>2, <1>3, <2>1
  <2> QED BY <2>2
<1> QED BY <1>4

(* Lines and columns, in both directions from a cell. *)

Lines == {"RIGHT", "DOWN"}
Back(dir) == IF dir = "RIGHT" THEN "LEFT" ELSE "UP"

LEMMA AwayAgain ==
    ASSUME NEW c \in Cells, NEW dir \in Lines, NEW i \in Int, NEW j \in Int,
           Away(c, dir, i) \in Cells
    PROVE  /\ Away(Away(c, dir, i), dir, j) = Away(c, dir, i + j)
           /\ Away(c, dir, 0) = c
           /\ Away(Away(c, dir, i), Back(dir), 1) = Away(c, dir, i - 1)
<1>1. PICK x \in Int, y \in Int : c = <<x, y>>
  BY CellIs
<1>2. PICK u \in Int, v \in Int : Away(c, dir, i) = <<u, v>>
  BY CellIs
<1>3. dir \in Directions /\ Back(dir) \in Directions
  BY DEF Lines, Directions, Back
<1>4. <<u, v>> = Stepped(x, y, dir, i)
  BY <1>1, <1>2, <1>3, AwayIs
<1>5. Stepped(u, v, dir, j) = Stepped(x, y, dir, i + j)
  BY <1>4 DEF Stepped, Lines
<1>6. Stepped(x, y, dir, 0) = <<x, y>>
  BY DEF Stepped, Lines
<1>7. Stepped(u, v, Back(dir), 1) = Stepped(x, y, dir, i - 1)
  BY <1>4 DEF Stepped, Lines, Back
<1>8. i + j \in Int /\ i - 1 \in Int
  OBVIOUS
<1> QED BY <1>1, <1>2, <1>3, <1>5, <1>6, <1>7, <1>8, AwayIs

LEMMA AwayDiffers ==
    ASSUME NEW c \in Cells, NEW dir \in Lines, NEW i \in Int, NEW j \in Int, i # j
    PROVE  Away(c, dir, i) # Away(c, dir, j)
<1>1. PICK x \in Int, y \in Int : c = <<x, y>>
  BY CellIs
<1>2. dir \in Directions
  BY DEF Lines, Directions
<1>3. Stepped(x, y, dir, i) # Stepped(x, y, dir, j)
  BY DEF Stepped, Lines
<1> QED BY <1>1, <1>2, <1>3, AwayIs

\* A line ends where the board does.
LEMMA AwayBounded ==
    ASSUME NEW c \in Cells, NEW dir \in Lines, NEW i \in Int, Away(c, dir, i) \in Cells
    PROVE  i \in -(Size - 1) .. Size - 1
<1>1. PICK x \in Coords, y \in Coords : c = <<x, y>> /\ x \in Int /\ y \in Int
  BY CellIs
<1>2. PICK u \in Coords, v \in Coords : Away(c, dir, i) = <<u, v>> /\ u \in Int /\ v \in Int
  BY CellIs
<1>3. dir \in Directions
  BY DEF Lines, Directions
<1>4. <<u, v>> = Stepped(x, y, dir, i)
  BY <1>1, <1>2, <1>3, AwayIs
<1>5. i = u - x \/ i = v - y
  BY <1>1, <1>2, <1>4 DEF Stepped, Lines
<1> QED BY <1>1, <1>2, <1>5, BoardAssumption DEF BoardAssumption, Coords

\* The first m + 1 cells from c on have its chip.
Alike(c, dir, m) ==
    \A i \in 0 .. m : Away(c, dir, i) \in Cells /\ chips_[Away(c, dir, i)] = chips_[c]

From(c, dir, m) == {Away(c, dir, i) : i \in 0 .. m}

LEMMA FromCounts ==
    ASSUME NEW c \in Cells, NEW dir \in Lines, NEW m \in Nat
    PROVE  IsFiniteSet(From(c, dir, m)) /\ Cardinality(From(c, dir, m)) = m + 1
<1> DEFINE f == [i \in 0 .. m |-> Away(c, dir, i)]
<1>1. \A i, j \in 0 .. m : f[i] = f[j] => i = j
  <2>1. ASSUME NEW i \in 0 .. m, NEW j \in 0 .. m, i # j
        PROVE  Away(c, dir, i) # Away(c, dir, j)
    BY <2>1, AwayDiffers
  <2> QED BY <2>1
<1>2. f \in Bijection(0 .. m, From(c, dir, m))
  <2>1. f \in [0 .. m -> From(c, dir, m)]
    BY DEF From
  <2>2. \A d \in From(c, dir, m) : \E i \in 0 .. m : f[i] = d
    BY DEF From
  <2> HIDE DEF f
  <2> QED BY <1>1, <2>1, <2>2 DEF Bijection, Injection, Surjection, IsInjective
<1>3. IsFiniteSet(0 .. m) /\ Cardinality(0 .. m) = m + 1
  BY FS_Interval
<1>4. ExistsBijection(0 .. m, From(c, dir, m))
  BY <1>2 DEF ExistsBijection
<1> QED BY <1>3, <1>4, FS_Bijection

\* A ray reaches as far as cells are alike.
LEMMA RayReaches ==
    ASSUME NEW c \in Cells, NEW dir \in Lines
    PROVE  \E m \in Coords :
             /\ m \in Nat /\ Ray(c, dir) = From(c, dir, m)
             /\ Alike(c, dir, m)
             /\ \A k \in Nat : Alike(c, dir, k) => k <= m
<1> DEFINE S == {m \in Coords : Alike(c, dir, m)}
<1>1. Size - 1 \in Nat /\ Coords = 0 .. Size - 1
  BY BoardAssumption DEF BoardAssumption, Coords
<1>2. 0 \in S
  <2>1. Away(c, dir, 0) = c
    <3>1. PICK x \in Int, y \in Int : c = <<x, y>>
      BY CellIs
    <3>2. Stepped(x, y, dir, 0) = <<x, y>> /\ dir \in Directions
      BY DEF Stepped, Lines, Directions
    <3> QED BY <3>1, <3>2, AwayIs
  <2> QED BY <1>1, <2>1 DEF Alike
<1>3. PICK m \in S : \A k \in S : k <= m
  <2>1. S \in SUBSET (0 .. Size - 1) /\ S # {}
    BY <1>1, <1>2
  <2> HIDE DEF S
  <2> QED BY <1>1, <2>1, GreatestMember
<1>4. ASSUME NEW k \in Nat, Alike(c, dir, k) PROVE k <= m
  <2>1. Away(c, dir, k) \in Cells
    BY <1>4 DEF Alike
  <2>2. k \in Coords
    BY <1>1, <2>1, AwayBounded
  <2> QED BY <1>3, <1>4, <2>2
<1>5. Ray(c, dir) = From(c, dir, m)
  <2>1. Ray(c, dir) = {Away(c, dir, i) : i \in S}
    BY DEF Ray, Alike
  <2>2. S = 0 .. m
    <3>1. S \subseteq 0 .. m
      BY <1>1, <1>3
    <3>2. \A k \in 0 .. m : k \in S
      BY <1>1, <1>3 DEF Alike
    <3> QED BY <3>1, <3>2
  <2> HIDE DEF S
  <2> QED BY <2>1, <2>2 DEF From
<1> QED BY <1>1, <1>3, <1>4, <1>5

\* n alike cells in a line or a column.
LEMMA Found ==
    ASSUME BoardTypeOK, NEW n \in Nat \ {0}, NEW d,
           NEW c \in Cells, NEW dir \in Lines, ~IsEmpty(c), d \in Ray(c, dir),
           Cardinality(Ray(c, dir)) >= n
    PROVE  \E s \in Segments(n) : d \in s /\ \E chip \in Chips : \A e \in s : chips_[e] = chip
<1>1. PICK m \in Nat : Ray(c, dir) = From(c, dir, m) /\ Alike(c, dir, m)
  BY RayReaches
<1>2. n <= m + 1
  BY <1>1, FromCounts
<1>3. PICK j \in 0 .. m : d = Away(c, dir, j)
  BY <1>1 DEF From
<1>4. PICK k \in Nat : k <= j /\ j <= k + n - 1 /\ k + n - 1 <= m
  <2>1. CASE j - n + 1 > 0
    <3>1. PICK k \in Int : k = j - n + 1
      OBVIOUS
    <3>2. k \in Nat /\ k <= j /\ j = k + n - 1 /\ j <= m
      BY <2>1, <3>1
    <3> QED BY <3>2
  <2>2. CASE ~(j - n + 1 > 0)
    <3>1. 0 \in Nat /\ j <= 0 + n - 1 /\ 0 + n - 1 <= m
      BY <1>2, <2>2
    <3> QED BY <3>1
  <2> QED BY <2>1, <2>2
<1>5. PICK e \in Cells : e = Away(c, dir, k)
  <2>1. k \in 0 .. m
    BY <1>4
  <2> QED BY <1>1, <2>1 DEF Alike
<1> DEFINE s == {Away(e, dir, i) : i \in 0 .. n - 1}
<1>6. \A i \in 0 .. n - 1 : Away(e, dir, i) = Away(c, dir, k + i) /\ k + i \in 0 .. m
  BY <1>4, <1>5, AwayAgain
<1>7. s \in Segments(n)
  <2>1. s \in SUBSET Cells
    BY <1>1, <1>6 DEF Alike
  <2>2. s \in {{Away(x, r, i) : i \in 0 .. n - 1} : x \in Cells, r \in {"RIGHT", "DOWN"}}
    <3>1. dir \in {"RIGHT", "DOWN"}
      BY DEF Lines
    <3> QED BY <3>1
  <2> HIDE DEF s
  <2> QED BY <2>1, <2>2 DEF Segments
<1>8. d \in s
  <2>1. j - k \in 0 .. n - 1 /\ k + (j - k) = j
    BY <1>4
  <2>2. Away(e, dir, j - k) = d
    BY <1>3, <1>6, <2>1
  <2> QED BY <2>1, <2>2
<1>9. chips_[c] \in Chips
  BY DEF BoardTypeOK, IsEmpty
<1>10. \A f \in s : chips_[f] = chips_[c]
  BY <1>1, <1>6 DEF Alike
<1> HIDE DEF s
<1> QED BY <1>7, <1>8, <1>9, <1>10

\* From a cell of alike ones in a row, the first that is alike.
LEMMA StartFound ==
    ASSUME NEW e \in Cells, NEW dir \in Lines, NEW chip, chips_[e] = chip
    PROVE  \E k \in Nat :
             /\ \A i \in 0 .. k : Away(e, dir, -i) \in Cells /\ chips_[Away(e, dir, -i)] = chip
             /\ \A d \in {Away(e, dir, -(k + 1))} \cap Cells : chips_[d] # chip
<1> DEFINE Good(i) == Away(e, dir, -i) \in Cells /\ chips_[Away(e, dir, -i)] = chip
           S == {k \in 0 .. Size - 1 : \A i \in 0 .. k : Good(i)}
<1>1. Size - 1 \in Nat
  BY BoardAssumption DEF BoardAssumption
<1>2. 0 \in S
  <2>1. Away(e, dir, 0) = e
    <3>1. PICK x \in Int, y \in Int : e = <<x, y>>
      BY CellIs
    <3>2. Stepped(x, y, dir, 0) = <<x, y>> /\ dir \in Directions
      BY DEF Stepped, Lines, Directions
    <3> QED BY <3>1, <3>2, AwayIs
  <2> QED BY <1>1, <2>1
<1>3. PICK k \in S : \A l \in S : l <= k
  <2>1. S \in SUBSET (0 .. Size - 1) /\ S # {}
    BY <1>2
  <2> HIDE DEF S
  <2> QED BY <1>1, <2>1, GreatestMember
<1>4. ~Good(k + 1)
  <2> SUFFICES ASSUME Good(k + 1) PROVE FALSE
    OBVIOUS
  <2>1. -(k + 1) \in -(Size - 1) .. Size - 1
    <3>1. -(k + 1) \in Int
      BY <1>1, <1>3
    <3> QED BY <3>1, AwayBounded
  <2>2. k + 1 \in 0 .. Size - 1
    BY <1>1, <1>3, <2>1
  <2>3. \A i \in 0 .. k + 1 : Good(i)
    <3>1. \A i \in 0 .. k : Good(i)
      BY <1>3
    <3> HIDE DEF Good
    <3>2. k \in Nat
      BY <1>1, <1>3
    <3> QED BY <3>1, <3>2
  <2>4. k + 1 \in S
    BY <2>2, <2>3
  <2> QED BY <1>1, <1>3, <2>4
<1>5. k \in Nat /\ \A i \in 0 .. k : Good(i)
  BY <1>1, <1>3
<1> QED BY <1>4, <1>5

LEMMA Burnt ==
    ASSUME BoardTypeOK, NEW n \in Nat \ {0}, NEW s \in Segments(n), NEW d \in s,
           NEW chip \in Chips, \A f \in s : chips_[f] = chip
    PROVE  d \in Burned(n)
<1>1. PICK e \in Cells, dir \in Lines : s = {Away(e, dir, i) : i \in 0 .. n - 1} /\ s \subseteq Cells
  BY DEF Segments, Lines
<1>2. Away(e, dir, 0) = e /\ e \in s
  <2>1. Away(e, dir, 0) = e
    <3>1. PICK x \in Int, y \in Int : e = <<x, y>>
      BY CellIs
    <3>2. Stepped(x, y, dir, 0) = <<x, y>> /\ dir \in Directions
      BY DEF Stepped, Lines, Directions
    <3> QED BY <3>1, <3>2, AwayIs
  <2>2. 0 \in 0 .. n - 1
    OBVIOUS
  <2> QED BY <1>1, <2>1, <2>2
<1>3. PICK k \in Nat :
        /\ \A i \in 0 .. k : Away(e, dir, -i) \in Cells /\ chips_[Away(e, dir, -i)] = chip
        /\ \A f \in {Away(e, dir, -(k + 1))} \cap Cells : chips_[f] # chip
  BY <1>2, StartFound
<1>4. PICK c \in Cells : c = Away(e, dir, -k) /\ chips_[c] = chip
  BY <1>3
<1>5. -k \in Int
  OBVIOUS
<1>6. \A i \in Int : Away(c, dir, i) = Away(e, dir, -k + i)
  BY <1>4, <1>5, AwayAgain
<1>7. ~IsEmpty(c)
  BY <1>4, BoardAssumption DEF IsEmpty, BoardAssumption
<1>8. StartsRun(c, Back(dir))
  <2>1. Away(c, Back(dir), 1) = Away(e, dir, -k - 1) /\ -k - 1 = -(k + 1)
    BY <1>4, <1>5, AwayAgain
  <2> QED BY <1>3, <1>4, <2>1 DEF StartsRun, Adjacent
<1>9. Alike(c, dir, k + n - 1)
  <2> SUFFICES ASSUME NEW i \in 0 .. k + n - 1
               PROVE  Away(c, dir, i) \in Cells /\ chips_[Away(c, dir, i)] = chip
    BY <1>4 DEF Alike
  <2>1. Away(c, dir, i) = Away(e, dir, -k + i)
    BY <1>6
  <2>2. CASE i <= k
    <3>1. k - i \in 0 .. k /\ -(k - i) = -k + i
      BY <2>2
    <3> QED BY <1>3, <2>1, <3>1
  <2>3. CASE ~(i <= k)
    <3>1. -k + i \in 0 .. n - 1
      BY <2>3
    <3>2. Away(e, dir, -k + i) \in s
      BY <1>1, <3>1
    <3> QED BY <1>1, <2>1, <3>2
  <2> QED BY <2>2, <2>3
<1>10. PICK m \in Nat :
         /\ Ray(c, dir) = From(c, dir, m)
         /\ \A l \in Nat : Alike(c, dir, l) => l <= m
  BY RayReaches
<1>11. k + n - 1 \in Nat /\ k + n - 1 <= m
  BY <1>9, <1>10
<1>12. Cardinality(Ray(c, dir)) >= n
  <2>1. Cardinality(Ray(c, dir)) = m + 1
    BY <1>10, FromCounts
  <2> QED BY <1>11, <2>1
<1>13. d \in Ray(c, dir)
  <2>1. PICK j \in 0 .. n - 1 : d = Away(e, dir, j)
    BY <1>1
  <2>2. k + j \in 0 .. m /\ -k + (k + j) = j
    BY <1>11, <2>1
  <2>3. d = Away(c, dir, k + j)
    BY <1>6, <2>1, <2>2
  <2> QED BY <1>10, <2>2, <2>3 DEF From
<1>14. <<c, dir>> \in {r \in Cells \X {"RIGHT", "DOWN"} :
                /\ ~IsEmpty(r[1])
                /\ StartsRun(r[1], IF r[2] = "RIGHT" THEN "LEFT" ELSE "UP")
                /\ Cardinality(Ray(r[1], r[2])) >= n}
  BY <1>7, <1>8, <1>12 DEF Lines, Back
<1> QED BY <1>13, <1>14 DEF Burned

LEMMA Burns == BoardTypeOK => BurnsRuns
<1> SUFFICES ASSUME BoardTypeOK, NEW n \in MinLengths
             PROVE  Burned(n) = UNION {s \in Segments(n) : \E chip \in Chips :
                                         \A c \in s : chips_[c] = chip}
  BY DEF BurnsRuns
<1>1. n \in Nat \ {0}
  BY BoardAssumption DEF BoardAssumption
<1>2. ASSUME NEW d \in Burned(n)
      PROVE  \E s \in Segments(n) : d \in s /\ \E chip \in Chips : \A e \in s : chips_[e] = chip
  <2>1. PICK r \in Cells \X {"RIGHT", "DOWN"} :
          /\ ~IsEmpty(r[1]) /\ Cardinality(Ray(r[1], r[2])) >= n /\ d \in Ray(r[1], r[2])
    BY DEF Burned
  <2>2. r[1] \in Cells /\ r[2] \in Lines
    BY DEF Lines
  <2> QED BY <1>1, <2>1, <2>2, Found
<1>3. ASSUME NEW s \in Segments(n), NEW d \in s, NEW chip \in Chips, \A c \in s : chips_[c] = chip
      PROVE  d \in Burned(n)
  BY <1>1, <1>3, Burnt
<1> QED BY <1>2, <1>3
-----------------------------------------------------------------------------
(* Falling chips *)

\* The empty cells of a column from y down, and where the chips above y end up.
GapsBelow(x, y) == Cardinality({z \in y .. Size - 1 : IsEmpty(<<x, z>>)})
Landing(x, y) == y + GapsBelow(x, y)

LEMMA BelowNext ==
    ASSUME NEW x \in Coords, NEW y \in 0 .. Size
    PROVE  /\ GapsBelow(x, y) \in Nat
           /\ y = Size => GapsBelow(x, y) = 0
           /\ y < Size => GapsBelow(x, y) = IF IsEmpty(<<x, y>>) THEN GapsBelow(x, y + 1) + 1
                                        ELSE GapsBelow(x, y + 1)
<1> DEFINE S(k) == {z \in k .. Size - 1 : IsEmpty(<<x, z>>)}
<1>0. Size \in Nat /\ y \in Nat
  BY BoardAssumption DEF BoardAssumption
<1>1. \A k \in Nat : IsFiniteSet(S(k))
  <2> SUFFICES ASSUME NEW k \in Nat PROVE IsFiniteSet(S(k))
    OBVIOUS
  <2>1. IsFiniteSet(k .. Size - 1)
    BY <1>0, FS_Interval
  <2> QED BY <2>1, FS_Subset
<1>2. \A k \in Nat : Cardinality(S(k)) \in Nat
  BY <1>1, FS_CardinalityType
<1>3. ASSUME y = Size PROVE Cardinality(S(y)) = 0
  <2>1. S(y) = {}
    BY <1>0, <1>3
  <2> QED BY <2>1, FS_EmptySet
<1>4. ASSUME y < Size, IsEmpty(<<x, y>>) PROVE Cardinality(S(y)) = Cardinality(S(y + 1)) + 1
  <2>1. S(y) = S(y + 1) \cup {y} /\ y \notin S(y + 1)
    BY <1>0, <1>4
  <2> HIDE DEF S
  <2>2. y + 1 \in Nat
    BY <1>0
  <2> QED BY <1>1, <2>1, <2>2, FS_AddElement
<1>5. ASSUME y < Size, ~IsEmpty(<<x, y>>) PROVE Cardinality(S(y)) = Cardinality(S(y + 1))
  <2>1. S(y) = S(y + 1)
    BY <1>0, <1>5
  <2> QED BY <2>1
<1>6. GapsBelow(x, y) = Cardinality(S(y)) /\ GapsBelow(x, y + 1) = Cardinality(S(y + 1))
  BY DEF GapsBelow
<1> HIDE DEF S
<1> QED BY <1>0, <1>2, <1>3, <1>4, <1>5, <1>6

LEMMA LandingNext ==
    ASSUME NEW x \in Coords, NEW y \in 0 .. Size
    PROVE  /\ Landing(x, y) \in Nat /\ y <= Landing(x, y)
           /\ y = Size => Landing(x, y) = Size
           /\ y < Size => Landing(x, y + 1) = IF IsEmpty(<<x, y>>) THEN Landing(x, y)
                                              ELSE Landing(x, y) + 1
<1>0. Size \in Nat /\ y \in Nat
  BY BoardAssumption DEF BoardAssumption
<1>1. GapsBelow(x, y) \in Nat /\ (y = Size => GapsBelow(x, y) = 0)
  BY BelowNext
<1>2. ASSUME y < Size
      PROVE  GapsBelow(x, y + 1) \in Nat
  <2>1. y + 1 \in 0 .. Size
    BY <1>0, <1>2
  <2> QED BY <2>1, BelowNext
<1>3. ASSUME y < Size
      PROVE  GapsBelow(x, y) = IF IsEmpty(<<x, y>>) THEN GapsBelow(x, y + 1) + 1 ELSE GapsBelow(x, y + 1)
  BY <1>3, BelowNext
<1> QED BY <1>0, <1>1, <1>2, <1>3 DEF Landing

\* The lower a cell, the lower it lands.
LEMMA LandingGrows ==
    ASSUME NEW x \in Coords, NEW y \in 0 .. Size, NEW z \in y .. Size
    PROVE  Landing(x, y) <= Landing(x, z)
<1>0. Size \in Nat /\ y \in Nat /\ z \in Nat
  BY BoardAssumption DEF BoardAssumption
<1>4. Landing(x, y) \in Nat
  BY LandingNext
<1>5. y + 0 = y
  BY <1>0
<1> DEFINE P == {d \in Nat : y + d <= Size => Landing(x, y) <= Landing(x, y + d)}
<1>1. 0 \in P
  BY <1>4, <1>5
<1>2. ASSUME NEW d \in Nat, d \in P PROVE d + 1 \in P
  <2> SUFFICES ASSUME y + (d + 1) <= Size PROVE Landing(x, y) <= Landing(x, y + (d + 1))
    OBVIOUS
  <2>1. y + d \in 0 .. Size /\ y + d < Size /\ y + (d + 1) = (y + d) + 1
    BY <1>0
  <2>2. Landing(x, y + d) \in Nat /\ Landing(x, y) \in Nat
    BY <2>1, LandingNext
  <2>3. Landing(x, (y + d) + 1) \in {Landing(x, y + d), Landing(x, y + d) + 1}
    BY <2>1, LandingNext
  <2>4. Landing(x, y) <= Landing(x, y + d)
    BY <1>0, <1>2, <2>1
  <2> QED BY <2>1, <2>2, <2>3, <2>4
<1>3. z - y \in P
  <2>1. z - y \in Nat
    BY <1>0
  <2> HIDE DEF P
  <2> QED BY <1>1, <1>2, <2>1, Induction
<1> QED BY <1>0, <1>3

\* A chip lands where the empty cells below it are filled.
LEMMA LandsAt ==
    ASSUME NEW x \in Coords, NEW y \in Coords, ~IsEmpty(<<x, y>>)
    PROVE  /\ y \in 0 .. Size /\ Landing(x, y) \in Coords
           /\ Landing(x, y + 1) = Landing(x, y) + 1
<1>0. Size \in Nat /\ y \in 0 .. Size /\ y + 1 \in 0 .. Size /\ y < Size /\ Coords = 0 .. Size - 1
  BY BoardAssumption DEF BoardAssumption, Coords
<1>1. Landing(x, y + 1) = Landing(x, y) + 1 /\ Landing(x, y) \in Nat
  BY <1>0, LandingNext
<1>2. Landing(x, y + 1) <= Size
  <2>1. Size \in y + 1 .. Size /\ Size \in 0 .. Size
    BY <1>0
  <2>2. Landing(x, y + 1) <= Landing(x, Size)
    BY <1>0, <2>1, LandingGrows
  <2>3. Landing(x, Size) = Size
    BY <2>1, LandingNext
  <2> QED BY <2>2, <2>3
<1> QED BY <1>0, <1>1, <1>2

(* The scan of shift_chips_down. *)

\* f[n] is what the loop over the column x has come to after n cells.
Start(x) == [column |-> [y \in Coords |-> chips_[<<x, y>>]], dy |-> 0]
Scans(f, x, k) ==
    f = [n \in 0 .. k |-> IF n = 0 THEN Start(x) ELSE Fall(f[n - 1], Size - n)]

\* Its entry for n, from the one before.
ScansStep(f, x, n) == f[n] = IF n = 0 THEN Start(x) ELSE Fall(f[n - 1], Size - n)

LEMMA ScansAt ==
    ASSUME NEW x, NEW k \in Nat, NEW f, Scans(f, x, k), NEW n \in 0 .. k
    PROVE  ScansStep(f, x, n)
<1>1. PICK g : g = [m \in 0 .. k |-> IF m = 0 THEN Start(x) ELSE Fall(f[m - 1], Size - m)]
  OBVIOUS
<1>2. f = g
  BY <1>1 DEF Scans
<1>3. g[n] = IF n = 0 THEN Start(x) ELSE Fall(f[n - 1], Size - n)
  BY <1>1
<1> QED BY <1>2, <1>3 DEF ScansStep

LEMMA ScansExist ==
    ASSUME NEW x, NEW k \in Nat
    PROVE  \E f : Scans(f, x, k)
<1> DEFINE P == {n \in Nat : \E f : Scans(f, x, n)}
<1>1. 0 \in P
  <2> DEFINE f == [i \in 0 .. 0 |-> Start(x)]
  <2>1. Scans(f, x, 0)
    BY DEF Scans
  <2> QED BY <2>1
<1>2. ASSUME NEW n \in Nat, n \in P
      PROVE  n + 1 \in P
  <2>1. PICK f : Scans(f, x, n)
    BY <1>2
  <2> DEFINE h == [i \in 0 .. n + 1 |-> IF i <= n THEN f[i] ELSE Fall(f[n], Size - i)]
  <2>2. ASSUME NEW i \in 0 .. n + 1
        PROVE  h[i] = IF i = 0 THEN Start(x) ELSE Fall(h[i - 1], Size - i)
    <3>1. CASE i = n + 1
      <4>1. i - 1 = n /\ h[n] = f[n] /\ i # 0 /\ h[i] = Fall(f[n], Size - i)
        BY <3>1
      <4> QED BY <4>1
    <3>2. CASE i \in 0 .. n
      <4>1. ScansStep(f, x, i)
        BY <2>1, <3>2, ScansAt
      <4>2. h[i] = f[i] /\ (i # 0 => h[i - 1] = f[i - 1])
        BY <3>2
      <4> HIDE DEF h
      <4> QED BY <4>1, <4>2 DEF ScansStep
    <3> QED BY <3>1, <3>2
  <2>3. h = [i \in 0 .. n + 1 |-> IF i = 0 THEN Start(x) ELSE Fall(h[i - 1], Size - i)]
    BY <2>2
  <2>4. Scans(h, x, n + 1)
    <3> HIDE DEF h
    <3> QED BY <2>3 DEF Scans
  <2> QED BY <2>4
<1>3. Nat \subseteq P
  <2> HIDE DEF P
  <2> QED BY <1>1, <1>2, Induction
<1> QED BY <1>3

LEMMA ColumnScanned ==
    ASSUME NEW x
    PROVE  \E f : Scans(f, x, Size) /\ ShiftedColumn(x) = f[Size].column
<1> DEFINE P(g) == Scans(g, x, Size)
           f == CHOOSE g : P(g)
<1>1. ShiftedColumn(x) = f[Size].column
  BY DEF ShiftedColumn, Scans, Start
<1>2. P(f)
  <2>1. Size \in Nat
    BY BoardAssumption DEF BoardAssumption
  <2>2. \E g : P(g)
    BY <2>1, ScansExist
  <2> HIDE DEF P
  <2> QED BY <2>2, Zenon
<1> QED BY <1>1, <1>2

\* What one round of the loop does, where there is no chip and where there is one.
LEMMA NoneFalls ==
    ASSUME NEW col, NEW dy \in Nat, NEW y, col[y] = EmptyChip,
           NEW s, s = [column |-> col, dy |-> dy]
    PROVE  Fall(s, y) = [column |-> col, dy |-> dy + 1]
BY DEF Fall

LEMMA ChipFalls ==
    ASSUME NEW col \in [Coords -> Chips \cup {EmptyChip}], NEW dy \in Nat, NEW y \in Coords,
           y + dy \in Coords, col[y] # EmptyChip, NEW s, s = [column |-> col, dy |-> dy]
    PROVE  \E new \in [Coords -> Chips \cup {EmptyChip}] :
             /\ Fall(s, y) = [column |-> new, dy |-> dy]
             /\ new[y + dy] = col[y]
             /\ dy # 0 => new[y] = EmptyChip
             /\ \A z \in Coords : z # y /\ z # y + dy => new[z] = col[z]
<1> DEFINE new == [col EXCEPT ![y] = EmptyChip, ![y + dy] = col[y]]
<1>1. Fall(s, y) = [column |-> new, dy |-> dy]
  BY DEF Fall
<1>2. y \in Int
  BY BoardAssumption DEF BoardAssumption, Coords
<1>3. dy # 0 => y # y + dy
  BY <1>2
<1>4. /\ new \in [Coords -> Chips \cup {EmptyChip}]
      /\ new[y + dy] = col[y]
      /\ dy # 0 => new[y] = EmptyChip
      /\ \A z \in Coords : z # y /\ z # y + dy => new[z] = col[z]
  BY <1>3
<1> HIDE DEF new
<1> QED BY <1>1, <1>4

\* The loop has gone up the column x to the cell low: what is above is as it was, chips from
\* there on are where they land, and where none lands there is nothing.
Scanned(s, x, low) ==
    \E col \in [Coords -> Chips \cup {EmptyChip}], dy \in Nat :
      /\ s = [column |-> col, dy |-> dy]
      /\ low + dy = Landing(x, low)
      /\ \A y \in Coords : y < low => col[y] = chips_[<<x, y>>]
      /\ \A y \in Coords : low <= y /\ ~IsEmpty(<<x, y>>) => col[Landing(x, y)] = chips_[<<x, y>>]
      /\ \A z \in Coords : low <= z /\ z < Landing(x, low) => col[z] = EmptyChip

LEMMA ScanStarts ==
    ASSUME BoardTypeOK, NEW x \in Coords
    PROVE  Scanned(Start(x), x, Size)
<1> DEFINE col == [y \in Coords |-> chips_[<<x, y>>]]
<1>1. Size \in Nat /\ Coords = 0 .. Size - 1 /\ Size \in 0 .. Size
  BY BoardAssumption DEF BoardAssumption, Coords
<1>2. col \in [Coords -> Chips \cup {EmptyChip}] /\ Start(x) = [column |-> col, dy |-> 0]
  BY DEF Start, BoardTypeOK, Cells
<1>3. Landing(x, Size) = Size
  BY <1>1, LandingNext
<1>4. \A y \in Coords : col[y] = chips_[<<x, y>>] /\ ~(Size <= y)
  BY <1>1
<1>5. 0 \in Nat /\ Size + 0 = Landing(x, Size)
  BY <1>1, <1>3
<1> HIDE DEF col
<1> QED BY <1>2, <1>4, <1>5 DEF Scanned

LEMMA ScanGoesOn ==
    ASSUME BoardTypeOK, NEW x \in Coords, NEW k \in Coords, NEW s, Scanned(s, x, k + 1)
    PROVE  Scanned(Fall(s, k), x, k)
<1>0. /\ Size \in Nat /\ Coords = 0 .. Size - 1 /\ k \in Nat
      /\ k \in 0 .. Size /\ k + 1 \in 0 .. Size /\ k < Size
  BY BoardAssumption DEF BoardAssumption, Coords
<1>1. PICK col \in [Coords -> Chips \cup {EmptyChip}], dy \in Nat :
        /\ s = [column |-> col, dy |-> dy]
        /\ (k + 1) + dy = Landing(x, k + 1)
        /\ \A y \in Coords : y < k + 1 => col[y] = chips_[<<x, y>>]
        /\ \A y \in Coords :
             k + 1 <= y /\ ~IsEmpty(<<x, y>>) => col[Landing(x, y)] = chips_[<<x, y>>]
        /\ \A z \in Coords : k + 1 <= z /\ z < Landing(x, k + 1) => col[z] = EmptyChip
  BY DEF Scanned
<1>2. col[k] = chips_[<<x, k>>] /\ \A y \in Coords : y < k => col[y] = chips_[<<x, y>>]
  BY <1>0, <1>1
<1>3. /\ Landing(x, k) \in Nat
      /\ Landing(x, k + 1) = IF IsEmpty(<<x, k>>) THEN Landing(x, k) ELSE Landing(x, k) + 1
  BY <1>0, LandingNext
<1>4. k + dy \in Coords
  <2>1. Size \in k + 1 .. Size /\ Size \in 0 .. Size
    BY <1>0
  <2>2. Landing(x, k + 1) <= Landing(x, Size) /\ Landing(x, Size) = Size
    BY <1>0, <2>1, LandingGrows, LandingNext
  <2> QED BY <1>0, <1>1, <2>2
<1>5. CASE IsEmpty(<<x, k>>)
  <2>1. Fall(s, k) = [column |-> col, dy |-> dy + 1]
    <3>1. col[k] = EmptyChip /\ s = [column |-> col, dy |-> dy]
      BY <1>1, <1>2, <1>5 DEF IsEmpty
    <3> QED BY <3>1, NoneFalls
  <2>2. k + (dy + 1) = Landing(x, k) /\ dy + 1 \in Nat /\ Landing(x, k) = Landing(x, k + 1)
    BY <1>0, <1>1, <1>3, <1>5
  <2>3. ASSUME NEW y \in Coords, k <= y, ~IsEmpty(<<x, y>>)
        PROVE  col[Landing(x, y)] = chips_[<<x, y>>]
    <3>1. k + 1 <= y
      BY <1>0, <1>5, <2>3
    <3> QED BY <1>1, <2>3, <3>1
  <2>4. ASSUME NEW z \in Coords, k <= z, z < Landing(x, k)
        PROVE  col[z] = EmptyChip
    <3>1. CASE z = k
      BY <1>2, <1>5, <3>1 DEF IsEmpty
    <3>2. CASE z # k
      <4>1. k + 1 <= z
        BY <1>0, <2>4, <3>2
      <4> QED BY <1>1, <2>2, <2>4, <4>1
    <3> QED BY <3>1, <3>2
  <2> QED BY <1>2, <2>1, <2>2, <2>3, <2>4 DEF Scanned
<1>6. CASE ~IsEmpty(<<x, k>>)
  <2>1. PICK new \in [Coords -> Chips \cup {EmptyChip}] :
          /\ Fall(s, k) = [column |-> new, dy |-> dy]
          /\ new[k + dy] = col[k]
          /\ dy # 0 => new[k] = EmptyChip
          /\ \A z \in Coords : z # k /\ z # k + dy => new[z] = col[z]
    <3>1. col[k] # EmptyChip /\ s = [column |-> col, dy |-> dy]
      BY <1>1, <1>2, <1>6 DEF IsEmpty
    <3> QED BY <1>4, <3>1, ChipFalls
  <2>2. k + dy = Landing(x, k)
    <3>1. Landing(x, k + 1) = Landing(x, k) + 1 /\ (k + 1) + dy = Landing(x, k + 1)
      BY <1>1, <1>3, <1>6
    <3> QED BY <1>0, <1>3, <3>1
  <2>3. ASSUME NEW y \in Coords, y < k
        PROVE  new[y] = chips_[<<x, y>>]
    <3>1. y # k /\ y # k + dy
      BY <1>0, <2>3
    <3> QED BY <1>2, <2>1, <2>3, <3>1
  <2>4. ASSUME NEW y \in Coords, k <= y, ~IsEmpty(<<x, y>>)
        PROVE  new[Landing(x, y)] = chips_[<<x, y>>]
    <3>1. CASE y = k
      BY <1>2, <2>1, <2>2, <3>1
    <3>2. CASE y # k
      <4>1. k + 1 <= y /\ y \in k + 1 .. Size
        BY <1>0, <2>4, <3>2
      <4>2. Landing(x, k + 1) <= Landing(x, y) /\ Landing(x, y) \in Coords
        BY <1>0, <2>4, <4>1, LandingGrows, LandsAt
      <4>3. Landing(x, y) # k /\ Landing(x, y) # k + dy
        BY <1>0, <1>1, <4>2
      <4> QED BY <1>1, <2>1, <2>4, <4>1, <4>2, <4>3
    <3> QED BY <3>1, <3>2
  <2>5. ASSUME NEW z \in Coords, k <= z, z < Landing(x, k)
        PROVE  new[z] = EmptyChip
    <3>1. CASE z = k
      <4>1. dy # 0
        BY <1>0, <2>2, <2>5, <3>1
      <4> QED BY <2>1, <3>1, <4>1
    <3>2. CASE z # k
      <4>1. k + 1 <= z /\ z < Landing(x, k + 1) /\ z # k + dy
        BY <1>0, <1>1, <2>2, <2>5, <3>2
      <4> QED BY <1>1, <2>1, <3>2, <4>1
    <3> QED BY <3>1, <3>2
  <2> QED BY <2>1, <2>2, <2>3, <2>4, <2>5 DEF Scanned
<1> QED BY <1>5, <1>6

\* So the loop ends with the chips of the column where they land.
LEMMA ScanEnds ==
    ASSUME BoardTypeOK, NEW x \in Coords
    PROVE  \E col \in [Coords -> Chips \cup {EmptyChip}] :
             /\ ShiftedColumn(x) = col
             /\ \A y \in Coords : ~IsEmpty(<<x, y>>) => col[Landing(x, y)] = chips_[<<x, y>>]
             /\ \A z \in Coords : z < Landing(x, 0) => col[z] = EmptyChip
<1>0. Size \in Nat /\ Coords = 0 .. Size - 1
  BY BoardAssumption DEF BoardAssumption, Coords
<1>1. PICK f : Scans(f, x, Size) /\ ShiftedColumn(x) = f[Size].column
  BY ColumnScanned
<1> DEFINE P == {n \in Nat : n <= Size => Scanned(f[n], x, Size - n)}
<1>2. 0 \in P
  <2>1. ScansStep(f, x, 0)
    BY <1>0, <1>1, ScansAt
  <2>2. f[0] = Start(x) /\ Size - 0 = Size
    BY <1>0, <2>1 DEF ScansStep
  <2>3. Scanned(Start(x), x, Size)
    BY ScanStarts
  <2> QED BY <2>2, <2>3
<1>3. ASSUME NEW n \in Nat, n \in P PROVE n + 1 \in P
  <2> SUFFICES ASSUME n + 1 <= Size PROVE Scanned(f[n + 1], x, Size - (n + 1))
    OBVIOUS
  <2>1. PICK k \in Coords : k = Size - (n + 1)
    BY <1>0
  <2>2. k + 1 = Size - n /\ n + 1 \in 0 .. Size /\ n + 1 # 0 /\ (n + 1) - 1 = n
    BY <1>0, <2>1
  <2>3. Scanned(f[n], x, k + 1)
    BY <1>0, <1>3, <2>2
  <2>4. ScansStep(f, x, n + 1)
    BY <1>0, <1>1, <2>2, ScansAt
  <2>5. f[n + 1] = Fall(f[n], k)
    BY <2>1, <2>2, <2>4 DEF ScansStep
  <2> QED BY <2>1, <2>3, <2>5, ScanGoesOn
<1>4. Scanned(f[Size], x, 0)
  <2>1. Size \in P
    <3> HIDE DEF P
    <3> QED BY <1>0, <1>2, <1>3, Induction
  <2> QED BY <1>0, <2>1
<1>5. PICK col \in [Coords -> Chips \cup {EmptyChip}], dy \in Nat :
        /\ f[Size] = [column |-> col, dy |-> dy]
        /\ \A y \in Coords : 0 <= y /\ ~IsEmpty(<<x, y>>) => col[Landing(x, y)] = chips_[<<x, y>>]
        /\ \A z \in Coords : 0 <= z /\ z < Landing(x, 0) => col[z] = EmptyChip
  BY <1>4 DEF Scanned
<1>6. ShiftedColumn(x) = col /\ \A y \in Coords : 0 <= y
  BY <1>0, <1>1, <1>5
<1> QED BY <1>5, <1>6

LEMMA ShiftedIs ==
    ASSUME NEW x \in Coords, NEW y \in Coords
    PROVE  Shifted[<<x, y>>] = ShiftedColumn(x)[y]
BY DEF Shifted, Cells

LEMMA ShiftedTyped ==
    ASSUME BoardTypeOK
    PROVE  Shifted \in [Cells -> Chips \cup {EmptyChip}]
<1>1. ASSUME NEW c \in Cells PROVE Shifted[c] \in Chips \cup {EmptyChip}
  <2>1. PICK x \in Coords, y \in Coords : c = <<x, y>>
    BY CellIs
  <2>2. PICK col \in [Coords -> Chips \cup {EmptyChip}] : ShiftedColumn(x) = col
    BY ScanEnds
  <2> QED BY <2>1, <2>2, ShiftedIs
<1>2. Shifted = [c \in Cells |-> Shifted[c]]
  BY DEF Shifted
<1> QED BY <1>1, <1>2

LEMMA LandsThere ==
    ASSUME BoardTypeOK, NEW x \in Coords, NEW y \in Coords, ~IsEmpty(<<x, y>>)
    PROVE  Shifted[<<x, Landing(x, y)>>] = chips_[<<x, y>>]
BY ScanEnds, LandsAt, ShiftedIs

\* Above where the highest chip lands there is nothing.
LEMMA NothingAbove ==
    ASSUME BoardTypeOK, NEW x \in Coords, NEW z \in Coords, z < Landing(x, 0)
    PROVE  Shifted[<<x, z>>] = EmptyChip
BY ScanEnds, ShiftedIs
-----------------------------------------------------------------------------
(* Types *)

ChipsTyped == chips_ \in [Cells -> Chips \cup {EmptyChip}]

LEMMA ChipsStayTyped == BoardTypeOK /\ [BoardNext]_boardVars => ChipsTyped'
<1> SUFFICES ASSUME BoardTypeOK, [BoardNext]_boardVars PROVE ChipsTyped'
  OBVIOUS
<1>0. chips_ \in [Cells -> Chips \cup {EmptyChip}]
  BY DEF BoardTypeOK
<1>1. ASSUME NEW c \in Cells, NEW chip \in Chips \cup {EmptyChip}, PlaceChip(c, chip)
      PROVE  ChipsTyped'
  BY <1>0, <1>1 DEF PlaceChip, ChipsTyped
<1>2. ASSUME NEW from \in Cells, NEW to \in Cells, SwapChips(from, to) PROVE ChipsTyped'
  <2>1. chips_[from] \in Chips \cup {EmptyChip} /\ chips_[to] \in Chips \cup {EmptyChip}
    BY <1>0
  <2> QED BY <1>0, <1>2, <2>1 DEF SwapChips, ChipsTyped
<1>3. ASSUME NEW chip \in Chips, FillChips([c \in Cells |-> chip]) PROVE ChipsTyped'
  BY <1>0, <1>3 DEF FillChips, ChipsTyped
<1>4. ASSUME NEW n \in MinLengths, BurnChips(n) PROVE ChipsTyped'
  BY <1>0, <1>4 DEF BurnChips, ChipsTyped
<1>5. CASE ShiftChipsDown
  BY <1>5, ShiftedTyped DEF ShiftChipsDown, ChipsTyped
<1>6. CASE UNCHANGED boardVars
  BY <1>0, <1>6 DEF boardVars, ChipsTyped
<1>7. \A from, dir, to : to \in Adjacent(from, dir) => to \in Cells
  BY DEF Adjacent
<1>8. ASSUME NEW chip \in Chips, NEW c \in Cells, FillFails([d \in Cells |-> chip], c)
      PROVE  ChipsTyped'
  BY <1>0, <1>8 DEF FillFails, ChipsTyped
<1> QED BY <1>1, <1>2, <1>3, <1>4, <1>5, <1>6, <1>7, <1>8 DEF BoardNext

\* Only what is on the board is drawn, and is or is not reported.
DrawnTyped ==
    /\ drawn \in [Cells -> Chips \cup {EmptyChip}]
    /\ unreported \in SUBSET Cells

LEMMA DrawnStaysTyped == BoardTypeOK /\ ChipsTyped' /\ [BoardNext]_boardVars => DrawnTyped'
<1> SUFFICES ASSUME BoardTypeOK, ChipsTyped', [BoardNext]_boardVars PROVE DrawnTyped'
  OBVIOUS
<1>0. DrawnTyped
  BY DEF BoardTypeOK, DrawnTyped
<1>1. ASSUME NEW S, OnChange(S) PROVE DrawnTyped'
  BY <1>0, <1>1 DEF OnChange, ChipsTyped, DrawnTyped
<1>2. ASSUME NEW chips, NEW c, FillFails(chips, c) PROVE DrawnTyped'
  BY <1>0, <1>2 DEF FillFails, DrawnTyped
<1>3. CASE UNCHANGED boardVars
  BY <1>0, <1>3 DEF boardVars, DrawnTyped
<1> QED BY <1>1, <1>2, <1>3
        DEF BoardNext, PlaceChip, SwapChips, FillChips, BurnChips, ShiftChipsDown

LEMMA BoardStarts == BoardInit => BoardTypeOK /\ ListenersCurrent
BY DEF BoardInit, BoardTypeOK, ListenersCurrent

LEMMA BoardTypesStep ==
    BoardTypeOK /\ ListenersCurrent /\ [BoardNext]_boardVars => BoardTypeOK' /\ ListenersCurrent'
<1> SUFFICES ASSUME BoardTypeOK, ListenersCurrent, [BoardNext]_boardVars
             PROVE  BoardTypeOK' /\ ListenersCurrent'
  OBVIOUS
<1>1. BoardInv
  BY DEF BoardInv, BoardTypeOK
<1>2. ListenersCurrent'
  BY <1>1, BoardStep DEF BoardInv
<1>3. ChipsTyped'
  BY ChipsStayTyped
<1>4. DrawnTyped'
  BY <1>3, DrawnStaysTyped
<1> QED BY <1>2, <1>3, <1>4 DEF ChipsTyped, DrawnTyped, BoardTypeOK

\* Every call leaves a chip or the empty chip in each cell of the board.
THEOREM BoardTyped == BoardSpec => []BoardTypeOK
BY BoardStarts, BoardTypesStep, PTL DEF BoardSpec

\* A run is burned whole, and nothing else.
THEOREM RunsBurned == BoardSpec => []BurnsRuns
BY Burns, BoardTyped, PTL
-----------------------------------------------------------------------------
(* The columns of a board that has settled *)

\* From where the highest chip lands there is no gap.
LEMMA NoGap ==
    ASSUME NEW x \in Coords, NEW z \in Coords, Landing(x, 0) <= z
    PROVE  \E y \in Coords : ~IsEmpty(<<x, y>>) /\ Landing(x, y) = z
<1>0. Size \in Nat /\ Coords = 0 .. Size - 1
  BY BoardAssumption DEF BoardAssumption, Coords
<1> DEFINE Reached == \E y \in Coords : ~IsEmpty(<<x, y>>) /\ Landing(x, y) = z
           P == {k \in Nat : k <= Size => Landing(x, k) <= z \/ Reached}
<1>1. 0 \in P
  OBVIOUS
<1>2. ASSUME NEW k \in Nat, k \in P PROVE k + 1 \in P
  <2> SUFFICES ASSUME k + 1 <= Size, ~Reached PROVE Landing(x, k + 1) <= z
    OBVIOUS
  <2>1. k \in Coords /\ k \in 0 .. Size /\ k < Size
    BY <1>0
  <2>2. Landing(x, k) <= z
    BY <1>0, <1>2, <2>1
  <2>3. Landing(x, k) \in Nat /\ (IsEmpty(<<x, k>>) => Landing(x, k + 1) = Landing(x, k))
        /\ (~IsEmpty(<<x, k>>) => Landing(x, k + 1) = Landing(x, k) + 1)
    BY <2>1, LandingNext
  <2>4. ~IsEmpty(<<x, k>>) => Landing(x, k) # z
    BY <2>1
  <2> QED BY <1>0, <2>2, <2>3, <2>4
<1>3. Size \in P
  <2> HIDE DEF P
  <2> QED BY <1>0, <1>1, <1>2, Induction
<1>4. Landing(x, Size) = Size
  <2>1. Size \in 0 .. Size
    BY <1>0
  <2> QED BY <2>1, LandingNext
<1>5. ~(Size <= z)
  BY <1>0
<1> HIDE DEF Reached
<1>6. Reached
  BY <1>0, <1>3, <1>4, <1>5
<1> QED BY <1>6 DEF Reached

LEMMA ColumnIs ==
    ASSUME NEW chips \in [Cells -> Chips \cup {EmptyChip}], NEW x \in Coords
    PROVE  /\ Column(chips, x) \in Seq(Chips \cup {EmptyChip})
           /\ Len(Column(chips, x)) = Size
           /\ \A y \in Coords : Column(chips, x)[y + 1] = chips[<<x, y>>]
<1>1. Size \in Nat /\ Coords = 0 .. Size - 1
  BY BoardAssumption DEF BoardAssumption, Coords
<1>2. PICK s : s = [i \in 1 .. Size |-> chips[<<x, i - 1>>]]
  OBVIOUS
<1>3. \A i \in 1 .. Size : s[i] = chips[<<x, i - 1>>] /\ i - 1 \in Coords
  BY <1>1, <1>2
<1>4. \A i \in 1 .. Size : s[i] \in Chips \cup {EmptyChip}
  BY <1>3 DEF Cells
<1>5. s \in Seq(Chips \cup {EmptyChip}) /\ Len(s) = Size
  BY <1>1, <1>2, <1>4
<1>6. ASSUME NEW y \in Coords PROVE s[y + 1] = chips[<<x, y>>]
  <2>1. y + 1 \in 1 .. Size /\ (y + 1) - 1 = y
    BY <1>1
  <2> QED BY <1>3, <2>1
<1> QED BY <1>2, <1>5, <1>6 DEF Column

\* Of a column that chips have fallen in, the top is empty and the rest is not.
LEMMA Fell ==
    ASSUME BoardTypeOK, NEW x \in Coords
    PROVE  /\ Landing(x, 0) \in 0 .. Size
           /\ \A i \in 1 .. Landing(x, 0) : Column(Shifted, x)[i] \notin Chips
           /\ \A i \in Landing(x, 0) + 1 .. Size : Column(Shifted, x)[i] \in Chips
<1>1. Size \in Nat /\ Coords = 0 .. Size - 1
  BY BoardAssumption DEF BoardAssumption, Coords
<1>2. Landing(x, 0) \in 0 .. Size
  <2>1. 0 \in 0 .. Size /\ Size \in 0 .. Size
    BY <1>1
  <2>2. Landing(x, 0) <= Landing(x, Size)
    BY <2>1, LandingGrows
  <2>3. Landing(x, Size) = Size /\ Landing(x, 0) \in Nat
    BY <2>1, LandingNext
  <2> QED BY <1>1, <2>2, <2>3
<1>3. \A y \in Coords : Column(Shifted, x)[y + 1] = Shifted[<<x, y>>]
  BY ShiftedTyped, ColumnIs
<1>4. ASSUME NEW i \in 1 .. Landing(x, 0)
      PROVE  Column(Shifted, x)[i] \notin Chips
  <2>1. i - 1 \in Coords /\ (i - 1) + 1 = i /\ i - 1 < Landing(x, 0)
    BY <1>1, <1>2
  <2>2. Shifted[<<x, i - 1>>] = EmptyChip
    BY <2>1, NothingAbove
  <2> QED BY <1>3, <2>1, <2>2, BoardAssumption DEF BoardAssumption
<1>5. ASSUME NEW i \in Landing(x, 0) + 1 .. Size
      PROVE  Column(Shifted, x)[i] \in Chips
  <2>1. i - 1 \in Coords /\ (i - 1) + 1 = i /\ Landing(x, 0) <= i - 1
    BY <1>1, <1>2
  <2>2. PICK y \in Coords : ~IsEmpty(<<x, y>>) /\ Landing(x, y) = i - 1
    BY <2>1, NoGap
  <2>3. Shifted[<<x, i - 1>>] = chips_[<<x, y>>]
    BY <2>2, LandsThere
  <2>4. chips_[<<x, y>>] \in Chips
    BY <2>2 DEF BoardTypeOK, IsEmpty, Cells
  <2> QED BY <1>3, <2>1, <2>3, <2>4
<1> QED BY <1>2, <1>4, <1>5

\* And the chips that were in it are that rest.
LEMMA FellInOrder ==
    ASSUME BoardTypeOK, NEW x \in Coords
    PROVE  Those(Column(chips_, x), Chips) =
             SubSeq(Column(Shifted, x), Landing(x, 0) + 1, Size)
<1>1. Size \in Nat /\ Coords = 0 .. Size - 1
  BY BoardAssumption DEF BoardAssumption, Coords
<1>2. PICK old \in Seq(Chips \cup {EmptyChip}) : /\ old = Column(chips_, x) /\ Len(old) = Size
        /\ \A y \in Coords : old[y + 1] = chips_[<<x, y>>]
  BY ColumnIs DEF BoardTypeOK
<1>3. PICK new \in Seq(Chips \cup {EmptyChip}) : /\ new = Column(Shifted, x) /\ Len(new) = Size
        /\ \A y \in Coords : new[y + 1] = Shifted[<<x, y>>]
  BY ShiftedTyped, ColumnIs
<1>4. PICK g : Finds(g, old, Chips, Size) /\ Those(old, Chips) = g[Size]
  BY <1>2, ThoseFound
<1>5. PICK n \in 0 .. Size : n = Landing(x, 0)
  BY Fell
<1> DEFINE P == {k \in Nat : k <= Size => g[k] = SubSeq(new, n + 1, Landing(x, k))}
<1>6. 0 \in P
  <2>1. g[0] = <<>>
    BY <1>1, <1>4, FindsStart
  <2>2. SubSeq(new, n + 1, n) = <<>>
    BY <1>1, <1>3
  <2> QED BY <1>5, <2>1, <2>2
<1>7. ASSUME NEW k \in Nat, k \in P PROVE k + 1 \in P
  <2> SUFFICES ASSUME k + 1 <= Size
               PROVE  g[k + 1] = SubSeq(new, n + 1, Landing(x, k + 1))
    OBVIOUS
  <2>1. k \in Coords /\ k < Size /\ k \in 0 .. Size
    BY <1>1
  <2>2. g[k + 1] = IF old[k + 1] \in Chips THEN Append(g[k], old[k + 1]) ELSE g[k]
    BY <1>1, <1>4, <2>1, FindsNext
  <2>3. g[k] = SubSeq(new, n + 1, Landing(x, k))
    BY <1>1, <1>7, <2>1
  <2>4. old[k + 1] = chips_[<<x, k>>]
    BY <1>2, <2>1
  <2>5. CASE IsEmpty(<<x, k>>)
    <3>1. old[k + 1] \notin Chips
      BY <2>4, <2>5, BoardAssumption DEF IsEmpty, BoardAssumption
    <3>2. Landing(x, k + 1) = Landing(x, k)
      BY <2>1, <2>5, LandingNext
    <3> QED BY <2>2, <2>3, <3>1, <3>2
  <2>6. CASE ~IsEmpty(<<x, k>>)
    <3>1. old[k + 1] \in Chips
      BY <2>1, <2>4, <2>6 DEF BoardTypeOK, IsEmpty, Cells
    <3>2. PICK l \in Coords : l = Landing(x, k)
      BY <2>1, <2>6, LandsAt
    <3>3. Landing(x, k + 1) = l + 1
      BY <2>1, <2>6, <3>2, LandsAt
    <3>4. new[l + 1] = old[k + 1]
      <4>1. Shifted[<<x, Landing(x, k)>>] = chips_[<<x, k>>]
        BY <2>1, <2>6, LandsThere
      <4> QED BY <1>3, <2>4, <3>2, <4>1
    <3>5. l \in n .. Size - 1
      <4>1. 0 \in 0 .. Size /\ k \in 0 .. Size
        BY <1>1, <2>1
      <4>2. n <= l
        BY <1>5, <3>2, <4>1, LandingGrows
      <4> QED BY <1>1, <3>2, <4>2
    <3>6. SubSeq(new, n + 1, l + 1) = Append(SubSeq(new, n + 1, l), new[l + 1])
      <4>1. n \in Nat /\ l \in n .. Len(new) - 1
        BY <1>3, <3>5
      <4> QED BY <4>1, SubSeqNext
    <3> QED BY <2>2, <2>3, <3>1, <3>2, <3>3, <3>4, <3>6
  <2> QED BY <2>5, <2>6
<1>8. Size \in P
  <2> HIDE DEF P
  <2> QED BY <1>1, <1>6, <1>7, Induction
<1>9. g[Size] = SubSeq(new, n + 1, Size)
  <2>1. Landing(x, Size) = Size
    <3>1. Size \in 0 .. Size
      BY <1>1
    <3> QED BY <3>1, LandingNext
  <2> QED BY <1>1, <1>8, <2>1
<1> QED BY <1>2, <1>3, <1>4, <1>5, <1>9

LEMMA Settles == BoardTypeOK => ShiftSettles
<1> SUFFICES ASSUME BoardTypeOK, NEW x \in Coords
             PROVE  /\ Solid(Column(Shifted, x)) = Solid(Column(chips_, x))
                    /\ IsSuffix(Solid(Column(Shifted, x)), Column(Shifted, x))
  BY DEF ShiftSettles
<1>1. PICK new \in Seq(Chips \cup {EmptyChip}) : new = Column(Shifted, x) /\ Len(new) = Size
  BY ShiftedTyped, ColumnIs
<1>2. PICK n \in 0 .. Len(new) :
        /\ n = Landing(x, 0)
        /\ \A i \in 1 .. n : new[i] \notin Chips
        /\ \A i \in n + 1 .. Len(new) : new[i] \in Chips
  BY <1>1, Fell
<1>3. Those(new, Chips) = SubSeq(new, n + 1, Len(new))
  BY <1>2, ThoseRest
<1>4. IsSuffix(SubSeq(new, n + 1, Len(new)), new)
  BY EndIsSuffix
<1>5. Those(Column(chips_, x), Chips) = SubSeq(new, n + 1, Len(new))
  BY <1>1, <1>2, FellInOrder
<1> QED BY <1>1, <1>3, <1>4, <1>5 DEF Solid

\* Chips fall as far as they can, and none overtakes another or is lost.
THEOREM ChipsSettle == BoardSpec => []ShiftSettles
BY Settles, BoardTyped, PTL
=============================================================================
