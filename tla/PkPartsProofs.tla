--------------------------- MODULE PkPartsProofs ----------------------------
(***************************************************************************)
(* Undo and redo keep a time line, for any documents and any depth; the    *)
(* pages of pk-admin are in order, for any elements; and with the engine   *)
(* and loading, types and invariants hold of the parts together.           *)
(***************************************************************************)
EXTENDS MCBrowser, PkProofs

UndoInv == UndoTypeOK /\ MementoCurrent /\ DepthBounded

LEMMA FrontAndLast ==
    ASSUME NEW S, NEW s \in Seq(S), s # <<>>
    PROVE  /\ Len(s) \in Nat \ {0}
           /\ Front(s) \in Seq(S) /\ Len(Front(s)) = Len(s) - 1
           /\ Last(s) \in S
           /\ \A i \in 1 .. Len(s) - 1 : Front(s)[i] = s[i]
<1>1. Len(s) \in Nat \ {0}
  OBVIOUS
<1>2. Last(s) \in S
  BY <1>1 DEF Last
<1>3. /\ Front(s) \in Seq(S) /\ Len(Front(s)) = Len(s) - 1
      /\ \A i \in 1 .. Len(s) - 1 : Front(s)[i] = s[i]
  <2> DEFINE f == SubSeq(s, 1, Len(s) - 1)
  <2>1. /\ f \in Seq(S)
        /\ Len(f) = IF 1 <= Len(s) - 1 THEN Len(s) - 1 - 1 + 1 ELSE 0
        /\ \A i \in 1 .. Len(s) - 1 - 1 + 1 : f[i] = s[1 + i - 1]
    BY <1>1, SubSeqProperties
  <2>2. Front(s) = f
    BY DEF Front
  <2> HIDE DEF f
  <2>3. Len(f) = Len(s) - 1
    <3> DEFINE n == Len(s)
    <3>1. n \in Nat \ {0} /\ Len(f) = IF 1 <= n - 1 THEN n - 1 - 1 + 1 ELSE 0
      BY <1>1, <2>1
    <3> HIDE DEF n
    <3>2. Len(f) = n - 1
      BY <3>1
    <3> QED BY <3>2 DEF n
  <2>4. ASSUME NEW i \in 1 .. Len(s) - 1 PROVE f[i] = s[i]
    BY <1>1, <2>1
  <2> QED BY <2>1, <2>2, <2>3, <2>4
<1> QED BY <1>1, <1>2, <1>3

LEMMA DeepenedKeeps ==
    ASSUME NEW s \in Seq(Docs), Len(s) <= MaxDepth
    PROVE  /\ Deepened(s) \in Seq(Docs)
           /\ Len(Deepened(s)) = IF Len(s) = MaxDepth THEN MaxDepth - 1 ELSE Len(s)
           /\ \A i \in 1 .. Len(Deepened(s)) :
                Deepened(s)[i] = s[i + (IF Len(s) = MaxDepth THEN 1 ELSE 0)]
<1>1. CASE Len(s) = MaxDepth
  <2>1. s # <<>> /\ Deepened(s) = Tail(s)
    BY <1>1, UndoAssumption DEF UndoAssumption, Deepened
  <2> QED BY <1>1, <2>1
<1>2. CASE Len(s) # MaxDepth
  BY <1>2, UndoAssumption DEF UndoAssumption, Deepened
<1> QED BY <1>1, <1>2

LEMMA InitEstablishes == UndoInit => UndoInv
<1>1. <<>> \in Seq(Docs) /\ Len(<<>>) = 0
  OBVIOUS
<1>2. UndoInit => UndoTypeOK /\ MementoCurrent
  BY <1>1 DEF UndoInit, UndoTypeOK, MementoCurrent
<1>3. UndoInit => DepthBounded
  BY <1>1, UndoAssumption DEF UndoAssumption, UndoInit, DepthBounded
<1> QED BY <1>2, <1>3 DEF UndoInv

LEMMA StepKeeps == UndoInv /\ [UndoNext]_undoVars => UndoInv'
<1> SUFFICES ASSUME UndoInv, [UndoNext]_undoVars PROVE UndoInv'
  OBVIOUS
<1> USE DEF UndoInv, UndoTypeOK
<1>1. ASSUME NEW d \in Docs, Do(d) PROVE UndoInv'
  <2>1. Len(undo_stack_) <= MaxDepth
    BY UndoAssumption DEF UndoAssumption, DepthBounded
  <2>2. /\ Deepened(undo_stack_) \in Seq(Docs)
        /\ Len(Deepened(undo_stack_)) + 1 <= MaxDepth
    BY <2>1, DeepenedKeeps, UndoAssumption DEF UndoAssumption
  <2>3. UndoTypeOK'
    BY <1>1, <2>2 DEF Do
  <2>4. MementoCurrent' /\ DepthBounded'
    BY <1>1, <2>2 DEF Do, MementoCurrent, DepthBounded
  <2> QED BY <2>3, <2>4
<1>2. CASE Undo
  <2>1. undo_stack_ # <<>> /\ undo_stack_ \in Seq(Docs)
    BY <1>2 DEF Undo
  <2> HIDE DEF UndoInv
  <2>2. /\ Len(undo_stack_) \in Nat \ {0}
        /\ Front(undo_stack_) \in Seq(Docs) /\ Len(Front(undo_stack_)) = Len(undo_stack_) - 1
        /\ Last(undo_stack_) \in Docs
    BY <2>1, FrontAndLast
  <2>3. UndoTypeOK'
    BY <1>2, <2>2 DEF Undo, UndoInv
  <2>4. MementoCurrent'
    BY <1>2 DEF Undo, MementoCurrent
  <2>5. DepthBounded'
    BY <1>2, <2>2 DEF Undo, UndoInv, DepthBounded
  <2> QED BY <2>3, <2>4, <2>5 DEF UndoInv
<1>3. CASE Redo
  <2>1. redo_stack_ # <<>> /\ redo_stack_ \in Seq(Docs) /\ current_memento_ = doc
    BY <1>3 DEF Redo, MementoCurrent
  <2> HIDE DEF UndoInv
  <2>2. /\ Len(redo_stack_) \in Nat \ {0}
        /\ Front(redo_stack_) \in Seq(Docs) /\ Len(Front(redo_stack_)) = Len(redo_stack_) - 1
        /\ Last(redo_stack_) \in Docs
    BY <2>1, FrontAndLast
  <2>3. UndoTypeOK'
    BY <1>3, <2>1, <2>2 DEF Redo, UndoInv
  <2>4. MementoCurrent'
    BY <1>3 DEF Redo, MementoCurrent
  <2>5. DepthBounded'
    BY <1>3, <2>1, <2>2 DEF Redo, UndoInv, DepthBounded
  <2> QED BY <2>3, <2>4, <2>5 DEF UndoInv
<1>4. CASE Clear
  BY <1>4, UndoAssumption DEF UndoAssumption, Clear, MementoCurrent, DepthBounded
<1>5. ASSUME NEW f \in BOOLEAN, Make_read_only(f) PROVE UndoInv'
  BY <1>5 DEF Make_read_only, MementoCurrent, DepthBounded
<1>6. CASE UNCHANGED undoVars
  BY <1>6 DEF undoVars, MementoCurrent, DepthBounded
<1> QED BY <1>1, <1>2, <1>3, <1>4, <1>5, <1>6 DEF UndoNext

\* No sequence of changes, undos, redos and clears makes the two stacks deeper than asked
\* for, or makes Redo fail its assertion or push something else than the user's document.
THEOREM UndoSound == UndoSpec => [](UndoTypeOK /\ MementoCurrent /\ DepthBounded)
<1>1. UndoInv => UndoTypeOK /\ MementoCurrent /\ DepthBounded
  BY DEF UndoInv
<1> QED BY InitEstablishes, StepKeeps, <1>1, PTL DEF UndoSpec
-----------------------------------------------------------------------------
(* The time line *)

Line(u, d, r) == u \o <<d>> \o Reverse(r)

\* x is s followed by t.
IsJoin(x, s, t) ==
    /\ x \in Seq(Docs) /\ Len(x) = Len(s) + Len(t)
    /\ \A i \in 1 .. Len(s) : x[i] = s[i]
    /\ \A i \in 1 .. Len(t) : x[Len(s) + i] = t[i]

\* x is u, then d, then r backwards.
IsLine(x, u, d, r) ==
    /\ x \in Seq(Docs)
    /\ Len(x) = Len(u) + 1 + Len(r)
    /\ \A i \in 1 .. Len(u) : x[i] = u[i]
    /\ x[Len(u) + 1] = d
    /\ \A i \in 1 .. Len(r) : x[Len(u) + 1 + i] = r[Len(r) - i + 1]

LEMMA Joined ==
    ASSUME NEW s \in Seq(Docs), NEW t \in Seq(Docs)
    PROVE  IsJoin(s \o t, s, t)
<1>1. s \o t \in Seq(Docs) /\ Len(s \o t) = Len(s) + Len(t)
  OBVIOUS
<1>2. \A i \in 1 .. Len(s) : (s \o t)[i] = s[i]
  OBVIOUS
<1>3. \A i \in 1 .. Len(t) : (s \o t)[Len(s) + i] = t[i]
  OBVIOUS
<1> QED BY <1>1, <1>2, <1>3 DEF IsJoin

LEMMA LineIs ==
    ASSUME NEW u \in Seq(Docs), NEW d \in Docs, NEW r \in Seq(Docs)
    PROVE  IsLine(Line(u, d, r), u, d, r)
<1>1. /\ Reverse(r) \in Seq(Docs) /\ Len(Reverse(r)) = Len(r)
      /\ \A i \in 1 .. Len(r) : Reverse(r)[i] = r[Len(r) - i + 1]
  BY DEF Reverse
<1>2. /\ u \o <<d>> \in Seq(Docs) /\ Len(u \o <<d>>) = Len(u) + 1
      /\ \A i \in 1 .. Len(u) : (u \o <<d>>)[i] = u[i]
      /\ (u \o <<d>>)[Len(u) + 1] = d
  OBVIOUS
<1> DEFINE v == u \o <<d>>
<1> HIDE DEF v
<1>3. v \in Seq(Docs) /\ Len(v) = Len(u) + 1
  BY <1>2 DEF v
<1>4. /\ v \o Reverse(r) \in Seq(Docs) /\ Len(v \o Reverse(r)) = Len(v) + Len(r)
      /\ \A i \in 1 .. Len(v) : (v \o Reverse(r))[i] = v[i]
      /\ \A i \in 1 .. Len(r) : (v \o Reverse(r))[Len(v) + i] = Reverse(r)[i]
  <2>1. Reverse(r) \in Seq(Docs) /\ Len(Reverse(r)) = Len(r)
    BY <1>1
  <2>2. v \in Seq(Docs)
    BY <1>3
  <2>3. IsJoin(v \o Reverse(r), v, Reverse(r))
    BY ONLY <2>1, <2>2, Joined
  <2> QED BY <2>1, <2>3 DEF IsJoin
<1>5. Line(u, d, r) = v \o Reverse(r)
  BY DEF Line, v
<1> QED BY <1>1, <1>2, <1>3, <1>4, <1>5 DEF v, IsLine

LEMMA SameSequence ==
    ASSUME NEW s \in Seq(Docs), NEW t \in Seq(Docs), Len(s) = Len(t),
           \A i \in 1 .. Len(s) : s[i] = t[i]
    PROVE  s = t
OBVIOUS

\* One memento moves from the undo stack to the redo stack.
LEMMA LineMoves ==
    ASSUME NEW u \in Seq(Docs), NEW d \in Docs, NEW r \in Seq(Docs), u # <<>>
    PROVE  Line(Front(u), Last(u), Append(r, d)) = Line(u, d, r)
<1> DEFINE s == Line(Front(u), Last(u), Append(r, d))
           t == Line(u, d, r)
<1>1. /\ Front(u) \in Seq(Docs) /\ Len(Front(u)) = Len(u) - 1 /\ Last(u) \in Docs
      /\ Last(u) = u[Len(u)] /\ Len(u) \in Nat \ {0}
      /\ \A i \in 1 .. Len(u) - 1 : Front(u)[i] = u[i]
  BY FrontAndLast DEF Last
<1>2. /\ Append(r, d) \in Seq(Docs) /\ Len(Append(r, d)) = Len(r) + 1
      /\ Append(r, d)[Len(r) + 1] = d
      /\ \A i \in 1 .. Len(r) : Append(r, d)[i] = r[i]
  OBVIOUS
<1>3. /\ s \in Seq(Docs)
      /\ Len(s) = Len(u) + Len(r) + 1
      /\ \A i \in 1 .. Len(u) - 1 : s[i] = u[i]
      /\ s[Len(u)] = u[Len(u)]
      /\ \A i \in 1 .. Len(r) + 1 : s[Len(u) + i] = Append(r, d)[Len(r) + 1 - i + 1]
  <2> HIDE DEF s
  <2>1. /\ s \in Seq(Docs)
        /\ Len(s) = Len(Front(u)) + 1 + Len(Append(r, d))
        /\ \A i \in 1 .. Len(Front(u)) : s[i] = Front(u)[i]
        /\ s[Len(Front(u)) + 1] = Last(u)
        /\ \A i \in 1 .. Len(Append(r, d)) :
             s[Len(Front(u)) + 1 + i] = Append(r, d)[Len(Append(r, d)) - i + 1]
    <3> DEFINE f == Front(u)
               l == Last(u)
               a == Append(r, d)
    <3>1. f \in Seq(Docs) /\ l \in Docs /\ a \in Seq(Docs) /\ s = Line(f, l, a)
      BY <1>1, <1>2 DEF s
    <3> HIDE DEF f, l, a
    <3>2. IsLine(Line(f, l, a), f, l, a)
      BY ONLY <3>1, LineIs
    <3>3. IsLine(s, f, l, a)
      BY ONLY <3>1, <3>2
    <3> QED BY <3>3 DEF f, l, a, IsLine
  <2>2. Len(r) \in Nat
    OBVIOUS
  <2>3. Len(Front(u)) = Len(u) - 1 /\ Len(Front(u)) + 1 = Len(u) /\ Len(u) \in Nat
    BY <1>1
  <2>4. Len(s) = Len(u) + Len(r) + 1 /\ s[Len(u)] = u[Len(u)]
    BY <1>1, <1>2, <2>1, <2>2, <2>3
  <2>5. \A i \in 1 .. Len(u) - 1 : s[i] = u[i]
    BY <1>1, <2>1, <2>3
  <2>6. ASSUME NEW i \in 1 .. Len(r) + 1 PROVE s[Len(u) + i] = Append(r, d)[Len(r) + 1 - i + 1]
    <3>1. i \in 1 .. Len(Append(r, d))
      BY <1>2, <2>2
    <3>2. s[Len(u) + i] = Append(r, d)[Len(Append(r, d)) - i + 1]
      BY <2>1, <2>3, <3>1
    <3> QED BY <1>2, <3>2
  <2> QED BY <2>1, <2>4, <2>5, <2>6
<1>4. /\ t \in Seq(Docs)
      /\ Len(t) = Len(u) + 1 + Len(r)
      /\ \A i \in 1 .. Len(u) : t[i] = u[i]
      /\ t[Len(u) + 1] = d
      /\ \A i \in 1 .. Len(r) : t[Len(u) + 1 + i] = r[Len(r) - i + 1]
  <2>1. IsLine(Line(u, d, r), u, d, r)
    BY LineIs
  <2> QED BY <2>1 DEF IsLine
<1> HIDE DEF s, t
<1>5. ASSUME NEW i \in 1 .. Len(s) PROVE s[i] = t[i]
  <2>1. CASE i <= Len(u)
    <3>1. i \in 1 .. Len(u) - 1 \/ i = Len(u)
      BY <1>1, <1>3, <2>1
    <3> QED BY <1>1, <1>3, <1>4, <3>1
  <2>2. CASE i = Len(u) + 1
    <3>1. s[Len(u) + 1] = Append(r, d)[Len(r) + 1]
      <4>1. 1 \in 1 .. Len(r) + 1 /\ Len(r) + 1 - 1 + 1 = Len(r) + 1
        OBVIOUS
      <4> QED BY <1>3, <4>1
    <3> QED BY <1>2, <1>4, <2>2, <3>1
  <2>3. CASE i > Len(u) + 1
    <3> DEFINE k == i - Len(u) - 1
    <3>1. k \in 1 .. Len(r) /\ i = Len(u) + 1 + k /\ k + 1 \in 1 .. Len(r) + 1
          /\ i = Len(u) + (k + 1)
      BY <1>1, <1>3, <2>3
    <3>2. s[i] = Append(r, d)[Len(r) + 1 - (k + 1) + 1]
      BY <1>3, <3>1
    <3>3. Len(r) + 1 - (k + 1) + 1 = Len(r) - k + 1 /\ Len(r) - k + 1 \in 1 .. Len(r)
      BY <3>1
    <3>4. t[i] = r[Len(r) - k + 1]
      BY <1>4, <3>1
    <3> QED BY <1>2, <3>2, <3>3, <3>4
  <2> QED BY <1>1, <1>3, <2>1, <2>2, <2>3
<1>6. Len(s) = Len(t)
  BY <1>1, <1>3, <1>4
<1>7. s = t
  BY <1>3, <1>4, <1>5, <1>6, SameSequence
<1> QED BY <1>7 DEF s, t

line == Line(undo_stack_, doc, redo_stack_)
timeline == <<line, Len(undo_stack_) + 1, read_only_>>

LEMMA LineOfUndo ==
    UndoTypeOK => /\ line \in Seq(Docs)
                  /\ Len(line) = Len(undo_stack_) + 1 + Len(redo_stack_)
                  /\ \A i \in 1 .. Len(undo_stack_) : line[i] = undo_stack_[i]
                  /\ line[Len(undo_stack_) + 1] = doc
<1> SUFFICES ASSUME UndoTypeOK
             PROVE  IsLine(line, undo_stack_, doc, redo_stack_)
  BY DEF IsLine
<1>1. undo_stack_ \in Seq(Docs) /\ doc \in Docs /\ redo_stack_ \in Seq(Docs)
  BY DEF UndoTypeOK
<1> QED BY <1>1, LineIs DEF line

LEMMA ChangeIsChange ==
    ASSUME UndoInv, NEW d \in Docs, Do(d)
    PROVE  History!Change(d)
<1> DEFINE u == undo_stack_
           n == Len(undo_stack_)
           past == SubSeq(line, History!Oldest(n + 1), n + 1)
           kept == Append(Deepened(u), doc)
<1>1. /\ u \in Seq(Docs) /\ doc \in Docs /\ n \in Nat /\ n <= MaxDepth
      /\ redo_stack_ \in Seq(Docs) /\ MaxDepth \in Nat \ {0}
  BY UndoAssumption DEF UndoAssumption, UndoInv, UndoTypeOK, DepthBounded
<1>2. /\ line \in Seq(Docs) /\ Len(line) >= n + 1 /\ Len(line) \in Nat
      /\ \A i \in 1 .. n : line[i] = u[i]
      /\ line[n + 1] = doc
  BY <1>1, LineOfUndo DEF UndoInv
<1> DEFINE m == IF n = MaxDepth THEN 1 ELSE 0
<1>3. History!Oldest(n + 1) = m + 1
  <2> HIDE DEF n
  <2> QED BY <1>1 DEF History!Oldest
<1>4. m \in {0, 1} /\ m <= n
  <2> HIDE DEF n
  <2> QED BY <1>1
<1>5. past = SubSeq(line, m + 1, n + 1)
  BY <1>3
<1>6. /\ past \in Seq(Docs) /\ Len(past) = n + 1 - m
      /\ \A i \in 1 .. n + 1 - m : past[i] = line[m + i]
  <2> DEFINE q == SubSeq(line, m + 1, n + 1)
  <2> HIDE DEF n, m, past
  <2>1. \A i \in m + 1 .. n + 1 : line[i] \in Docs
    BY <1>1, <1>2, <1>4
  <2>2. /\ q \in Seq(Docs)
        /\ Len(q) = IF m + 1 <= n + 1 THEN n + 1 - (m + 1) + 1 ELSE 0
        /\ \A i \in 1 .. n + 1 - (m + 1) + 1 : q[i] = line[m + 1 + i - 1]
    BY <1>1, <1>4, <2>1, SubSeqProperties
  <2> HIDE DEF q
  <2>3. n + 1 - (m + 1) + 1 = n + 1 - m /\ m + 1 <= n + 1
    BY <1>1, <1>4
  <2>4. \A i \in 1 .. n + 1 - m : m + 1 + i - 1 = m + i
    BY <1>1, <1>4
  <2> QED BY <1>5, <2>2, <2>3, <2>4 DEF q
<1>7. /\ Deepened(u) \in Seq(Docs) /\ Len(Deepened(u)) = n - m
      /\ \A i \in 1 .. n - m : Deepened(u)[i] = u[i + m]
  <2>1. /\ Deepened(u) \in Seq(Docs)
        /\ Len(Deepened(u)) = IF n = MaxDepth THEN MaxDepth - 1 ELSE n
        /\ \A i \in 1 .. Len(Deepened(u)) : Deepened(u)[i] = u[i + m]
    BY <1>1, DeepenedKeeps
  <2>2. (IF n = MaxDepth THEN MaxDepth - 1 ELSE n) = n - m
    <3> HIDE DEF n
    <3> QED BY <1>1
  <2> QED BY <2>1, <2>2
<1>8. /\ kept \in Seq(Docs) /\ Len(kept) = n - m + 1
      /\ \A i \in 1 .. n - m : kept[i] = u[i + m]
      /\ kept[n - m + 1] = doc
  <2> DEFINE w == Deepened(u)
  <2> HIDE DEF w
  <2>1. w \in Seq(Docs) /\ Len(w) = n - m /\ \A i \in 1 .. n - m : w[i] = u[i + m]
    BY <1>7 DEF w
  <2>2. /\ Append(w, doc) \in Seq(Docs) /\ Len(Append(w, doc)) = Len(w) + 1
        /\ \A i \in 1 .. Len(w) : Append(w, doc)[i] = w[i]
        /\ Append(w, doc)[Len(w) + 1] = doc
    BY <1>1, <2>1
  <2> QED BY <2>1, <2>2 DEF w
<1>9. past = kept
  <2> HIDE DEF n, m, past, kept
  <2>1. Len(past) = Len(kept)
    BY <1>1, <1>4, <1>6, <1>8
  <2>2. ASSUME NEW i \in 1 .. Len(past) PROVE past[i] = kept[i]
    <3>1. CASE i \in 1 .. n - m
      <4>1. i \in 1 .. n + 1 - m /\ m + i \in 1 .. n /\ m + i = i + m
        BY <1>1, <1>4, <3>1
      <4> QED BY <1>2, <1>6, <1>8, <3>1, <4>1
    <3>2. CASE i = n - m + 1
      <4>1. i \in 1 .. n + 1 - m /\ m + i = n + 1
        BY <1>1, <1>4, <3>2
      <4> QED BY <1>2, <1>6, <1>8, <3>2, <4>1
    <3> QED BY <1>1, <1>4, <1>6, <3>1, <3>2
  <2> QED BY <1>6, <1>8, <2>1, <2>2, SameSequence
<1>10. /\ undo_stack_' = kept /\ redo_stack_' = <<>> /\ doc' = d
       /\ ~read_only_ /\ read_only_' = read_only_
  BY DEF Do
<1>11. line' = Append(past, d)
  <2> HIDE DEF kept, past
  <2>1. line' = Line(kept, d, <<>>)
    BY <1>10 DEF line
  <2>2. Reverse(<<>>) = <<>>
    BY DEF Reverse
  <2>3. (kept \o <<d>>) \o <<>> = kept \o <<d>>
    BY <1>8
  <2>4. kept \o <<d>> = Append(kept, d)
    BY <1>8
  <2> QED BY <1>9, <2>1, <2>2, <2>3, <2>4 DEF Line
<1>12. Len(undo_stack_') + 1 = Len(past) + 1
  BY <1>9, <1>10
<1>13. History!Past(n + 1) = past
  <2>1. line = undo_stack_ \o <<doc>> \o Reverse(redo_stack_)
    BY DEF line, Line
  <2> HIDE DEF n
  <2>2. History!Past(n + 1)
          = SubSeq(undo_stack_ \o <<doc>> \o Reverse(redo_stack_), History!Oldest(n + 1), n + 1)
    BY DEF History!Past
  <2> QED BY <2>1, <2>2
<1>14. line' = Append(History!Past(n + 1), d) /\ Len(undo_stack_') + 1 = Len(History!Past(n + 1)) + 1
  <2> HIDE DEF past
  <2> QED BY <1>11, <1>12, <1>13
<1>15. (undo_stack_ \o <<doc>> \o Reverse(redo_stack_))' = line'
  BY DEF line, Line
<1> HIDE DEF past, kept, m
<1> QED BY <1>10, <1>14, <1>15 DEF History!Change

LEMMA StepIsStep == UndoInv /\ [UndoNext]_undoVars => [History!Move]_timeline
<1> SUFFICES ASSUME UndoInv, [UndoNext]_undoVars PROVE [History!Move]_timeline
  OBVIOUS
<1>0. /\ undo_stack_ \in Seq(Docs) /\ redo_stack_ \in Seq(Docs) /\ doc \in Docs
      /\ read_only_ \in BOOLEAN
  BY DEF UndoInv, UndoTypeOK
<1>1. ASSUME NEW d \in Docs, Do(d) PROVE [History!Move]_timeline
  BY <1>1, ChangeIsChange DEF History!Move
<1>2. CASE Undo
  <2>1. undo_stack_ # <<>> /\ ~read_only_ /\ read_only_' = read_only_
    BY <1>2 DEF Undo
  <2>2. line' = line
    BY <1>0, <1>2, <2>1, LineMoves DEF Undo, line
  <2>3. Len(undo_stack_) \in Nat \ {0} /\ Len(undo_stack_') = Len(undo_stack_) - 1
    BY <1>0, <1>2, <2>1, FrontAndLast DEF Undo
  <2>4. History!Back
    BY <2>1, <2>2, <2>3 DEF History!Back, line, Line
  <2> QED BY <2>4 DEF History!Move
<1>3. CASE Redo
  <2>1. /\ redo_stack_ # <<>> /\ ~read_only_ /\ read_only_' = read_only_
        /\ current_memento_ = doc
        /\ undo_stack_' = Append(undo_stack_, doc)
        /\ doc' = Last(redo_stack_) /\ redo_stack_' = Front(redo_stack_)
    BY <1>3 DEF Redo, UndoInv, MementoCurrent
  <2>2. /\ Front(redo_stack_) \in Seq(Docs) /\ Last(redo_stack_) \in Docs
        /\ Len(redo_stack_) \in Nat \ {0}
        /\ Append(Front(redo_stack_), Last(redo_stack_)) = redo_stack_
    <3>1. /\ Front(redo_stack_) \in Seq(Docs) /\ Last(redo_stack_) \in Docs
          /\ Len(redo_stack_) \in Nat \ {0} /\ Len(Front(redo_stack_)) = Len(redo_stack_) - 1
          /\ \A i \in 1 .. Len(redo_stack_) - 1 : Front(redo_stack_)[i] = redo_stack_[i]
      BY <1>0, <2>1, FrontAndLast
    <3> DEFINE f == Front(redo_stack_)
               r == redo_stack_
               l == Last(redo_stack_)
    <3>2. l = r[Len(r)]
      BY DEF Last
    <3> HIDE DEF f, l
    <3>3. Append(f, l) = r
      BY <1>0, <3>1, <3>2 DEF f, l
    <3> QED BY <3>1, <3>3 DEF f, l
  <2> DEFINE v == Append(undo_stack_, doc)
  <2>3. v \in Seq(Docs) /\ v # <<>> /\ Front(v) = undo_stack_ /\ Last(v) = doc
        /\ Len(v) = Len(undo_stack_) + 1
    <3>1. v \in Seq(Docs) /\ v # <<>> /\ Len(v) = Len(undo_stack_) + 1
      BY <1>0
    <3>2. Last(v) = doc
      BY <1>0, <3>1 DEF Last
    <3>3. /\ Front(v) \in Seq(Docs) /\ Len(Front(v)) = Len(v) - 1
          /\ \A i \in 1 .. Len(v) - 1 : Front(v)[i] = v[i]
      BY <3>1, FrontAndLast
    <3>4. \A i \in 1 .. Len(undo_stack_) : v[i] = undo_stack_[i]
      BY <1>0
    <3> HIDE DEF v
    <3>5. Len(Front(v)) = Len(undo_stack_) /\ Len(v) - 1 = Len(undo_stack_)
      BY <1>0, <3>1, <3>3
    <3>6. Front(v) = undo_stack_
      BY <1>0, <3>3, <3>4, <3>5, SameSequence
    <3> QED BY <3>1, <3>2, <3>6
  <2>4. Line(Front(v), Last(v), Append(redo_stack_', doc')) = Line(v, doc', redo_stack_')
    <3> HIDE DEF v
    <3> QED BY <2>1, <2>2, <2>3, LineMoves
  <2>5. line' = line
    BY <2>1, <2>2, <2>3, <2>4 DEF line
  <2>6. Len(line) = Len(undo_stack_) + 1 + Len(redo_stack_)
    BY LineOfUndo DEF UndoInv
  <2>7. History!Forth
    <3>1. Len(undo_stack_) \in Nat /\ Len(undo_stack_') = Len(undo_stack_) + 1
      BY <1>0, <2>1, <2>3
    <3>2. Len(undo_stack_) + 1 < Len(line)
      BY <2>2, <2>6, <3>1
    <3> QED BY <2>1, <2>5, <3>1, <3>2 DEF History!Forth, line, Line
  <2> QED BY <2>7 DEF History!Move
<1>4. CASE Clear
  <2>1. /\ undo_stack_' = <<>> /\ redo_stack_' = <<>> /\ doc' = doc
        /\ ~read_only_ /\ read_only_' = read_only_
    BY <1>4 DEF Clear
  <2>2. line[Len(undo_stack_) + 1] = doc
    BY LineOfUndo DEF UndoInv
  <2>3. line' = <<doc>>
    <3>1. Reverse(<<>>) = <<>>
      BY DEF Reverse
    <3>2. <<>> \o <<doc>> \o <<>> = <<doc>>
      BY <1>0
    <3> QED BY <2>1, <3>1, <3>2 DEF line, Line
  <2>4. Len(undo_stack_') + 1 = 1
    BY <2>1
  <2>5. History!Forget
    BY <2>1, <2>2, <2>3, <2>4 DEF History!Forget, line, Line
  <2> QED BY <2>5 DEF History!Move
<1>5. ASSUME NEW f \in BOOLEAN, Make_read_only(f) PROVE [History!Move]_timeline
  <2>1. History!Lock(f)
    BY <1>5 DEF Make_read_only, History!Lock
  <2> QED BY <2>1 DEF History!Move
<1>6. CASE UNCHANGED undoVars
  BY <1>6 DEF undoVars, timeline, line
<1> QED BY <1>1, <1>2, <1>3, <1>4, <1>5, <1>6 DEF UndoNext

\* The two stacks implement the time line: every call moves along the states that were
\* made, one at a time, or makes a new one in the place of those that were undone.
THEOREM UndoImplementsTimeline == UndoSpec => KeepsTimeline
<1>1. UndoInit => History!Start
  <2> SUFFICES ASSUME UndoInit PROVE History!Start
    OBVIOUS
  <2>1. Reverse(<<>>) = <<>>
    BY DEF Reverse
  <2>2. <<>> \o <<doc>> \o <<>> = <<doc>> /\ <<doc>> \in [1 .. 1 -> Docs] /\ Len(<<>>) + 1 = 1
    BY DEF UndoInit
  <2> QED BY <2>1, <2>2 DEF UndoInit, History!Start
<1>2. UndoInv /\ [UndoNext]_undoVars => [History!Move]_timeline
  BY StepIsStep
<1> QED BY InitEstablishes, StepKeeps, <1>1, <1>2, PTL
        DEF UndoSpec, KeepsTimeline, History!Timeline, timeline, line, Line
-----------------------------------------------------------------------------
(* Pages                                                                   *)

Waiting == [page : Pages \ {"missing"}, waits : {"callback", "record"}]

PanelsTyped ==
    /\ hash \in Pages /\ seen \in Pages /\ showing \in Pages
    /\ panel_ \in [Topics -> Pages \cup {NoPanel}]
    /\ last_topic_ \in Topics \cup {"none"}
    /\ inits \in Seq(Waiting)

\* One panel is being built, that of the page last asked for, whose topic has none.
Building ==
    /\ Len(inits) = 1
    /\ inits[1].page = showing
    /\ last_topic_ = TopicOf(showing)
    /\ panel_[last_topic_] = NoPanel

Overlapping == {w \in Waiting : w.page \in overlapped}

\* A panel that was built by itself is that of the page asked for, known to the topic that
\* is hidden next, and no other is being built; its values are the ones that are saved.
Orderly ==
    /\ overlapped \subseteq Pages /\ left \subseteq overlapped
    /\ \A t \in Topics :
         panel_[t] \notin overlapped \cup {NoPanel}
           => t = last_topic_ /\ panel_[t] = showing /\ inits = <<>>
    /\ panel_["editor"] \notin overlapped \cup {NoPanel}
         => general_properties_panel_ = panel_["editor"]
    /\ inits \in Seq(Overlapping) \/ Building
    /\ \A save \in saves : save.id # save.data => save.id \in overlapped

AdminInv == PanelsTyped /\ Orderly

LEMMA PagesTopics ==
    /\ \A page \in Pages : TopicOf(page) \in Topics \/ (TopicOf(page) = "none" /\ page = "missing")
    /\ TopicOf("missing") = "none" /\ "none" \notin Topics
    /\ \A page \in Elements : page \in Pages \ {"missing"} /\ TopicOf(page) = "editor"
    /\ TopicOf("table") = "table" /\ TopicOf("new") = "editor"
    /\ NoPanel \notin Pages
BY AdminAssumption DEF AdminAssumption, Pages, TopicOf, Topics

LEMMA AdminStarts == AdminInit => AdminInv
<1> SUFFICES ASSUME AdminInit PROVE AdminInv
  OBVIOUS
<1>1. <<>> \in Seq(Waiting) /\ <<>> \in Seq(Overlapping)
  OBVIOUS
<1> QED BY <1>1 DEF AdminInit, AdminInv, PanelsTyped, Orderly, Pages, Topics

LEMMA OneRemoved ==
    ASSUME NEW W, NEW s \in Seq(W), NEW i \in DOMAIN s
    PROVE  RemoveAt(s, i) \in Seq(W) /\ (Len(s) = 1 => i = 1 /\ RemoveAt(s, i) = <<>>)
<1>1. i \in 1 .. Len(s) /\ Len(s) \in Nat
  OBVIOUS
<1>2. SubSeq(s, 1, i - 1) \in Seq(W) /\ SubSeq(s, i + 1, Len(s)) \in Seq(W)
  BY <1>1
<1>3. RemoveAt(s, i) \in Seq(W)
  BY <1>2 DEF RemoveAt
<1>4. ASSUME Len(s) = 1 PROVE RemoveAt(s, i) = <<>>
  <2>1. i = 1
    BY <1>1, <1>4
  <2>2. SubSeq(s, 1, 0) = <<>> /\ SubSeq(s, 2, 1) = <<>>
    BY <1>4
  <2> QED BY <1>4, <2>1, <2>2 DEF RemoveAt
<1> QED BY <1>1, <1>3, <1>4

\* While a panel is being built, all others are of pages that overlapped.
LEMMA OthersOverlap ==
    ASSUME AdminInv, inits # <<>>
    PROVE  \A u \in Topics : panel_[u] \in overlapped \cup {NoPanel}
BY DEF AdminInv, Orderly

\* A panel that is made is of a page that overlapped, or it is alone.
LEMMA MadeKeeps ==
    ASSUME AdminInv, NEW page \in Pages \ {"missing"}, Made(page), inits # <<>>,
           \/ page \in overlapped /\ inits' \in Seq(Overlapping)
           \/ page = showing /\ Building /\ inits' = <<>>,
           inits' \in Seq(Waiting),
           UNCHANGED <<hash, seen, last_topic_, saves, showing, overlapped>>
    PROVE  AdminInv'
<1>1. TopicOf(page) \in Topics
  BY PagesTopics
<1>2. PanelsTyped'
  BY <1>1 DEF Made, AdminInv, PanelsTyped
<1>3. \A u \in Topics : panel_[u] \in overlapped \cup {NoPanel}
  BY OthersOverlap
<1>4. \A u \in Topics : panel_'[u] = IF u = TopicOf(page) THEN page ELSE panel_[u]
  BY <1>1 DEF Made, AdminInv, PanelsTyped
<1>5. inits' \in Seq(Overlapping)'
  <2>1. Overlapping' = Overlapping /\ <<>> \in Seq(Overlapping)
    BY DEF Overlapping
  <2> QED BY <2>1
<1>6. (overlapped \subseteq Pages /\ left \subseteq overlapped)'
  <2>1. Known(TopicOf(page)) \subseteq overlapped
    BY <1>1, <1>3 DEF Known
  <2> QED BY <2>1 DEF Made, AdminInv, Orderly
<1>7. ASSUME NEW u \in Topics, panel_'[u] \notin overlapped \cup {NoPanel}
      PROVE  u = last_topic_ /\ panel_'[u] = showing /\ inits' = <<>> /\ u = TopicOf(page)
  <2>1. u = TopicOf(page) /\ page \notin overlapped
    BY <1>3, <1>4, <1>7
  <2> QED BY <1>4, <2>1 DEF Building
<1>8. (panel_["editor"] \notin overlapped \cup {NoPanel}
         => general_properties_panel_ = panel_["editor"])'
  <2>1. SUFFICES ASSUME panel_'["editor"] \notin overlapped \cup {NoPanel}
                 PROVE  general_properties_panel_' = panel_'["editor"]
    OBVIOUS
  <2>2. "editor" \in Topics
    BY DEF Topics
  <2>3. TopicOf(page) = "editor"
    BY <1>7, <2>1, <2>2
  <2> QED BY <1>4, <2>2, <2>3 DEF Made
<1>9. \A save \in saves' : save.id # save.data => save.id \in overlapped'
  BY DEF AdminInv, Orderly
<1> QED BY <1>2, <1>5, <1>6, <1>7, <1>8, <1>9 DEF AdminInv, Orderly

LEMMA ArrivesKeeps == ASSUME AdminInv, NEW i \in DOMAIN inits, Arrives(i) PROVE AdminInv'
<1> DEFINE page == inits[i].page
           rest == RemoveAt(inits, i)
           record == [page |-> page, waits |-> "record"]
<1>1. inits \in Seq(Waiting) /\ page \in Pages \ {"missing"} /\ inits # <<>>
  <2>1. inits \in Seq(Waiting)
    BY DEF AdminInv, PanelsTyped
  <2>2. inits[i] \in Waiting
    BY <2>1
  <2> QED BY <2>1, <2>2 DEF Waiting
<1>2. rest \in Seq(Waiting) /\ (Len(inits) = 1 => i = 1 /\ rest = <<>>)
  BY <1>1, OneRemoved
<1>3. \/ page \in overlapped /\ rest \in Seq(Overlapping)
      \/ page = showing /\ Building /\ rest = <<>>
  <2>1. CASE inits \in Seq(Overlapping)
    <3>1. inits[i] \in Overlapping /\ rest \in Seq(Overlapping)
      BY <2>1, OneRemoved
    <3> QED BY <3>1 DEF Overlapping
  <2>2. CASE Building
    BY <1>2, <2>2 DEF Building
  <2> QED BY <2>1, <2>2 DEF AdminInv, Orderly
<1>4. UNCHANGED <<hash, seen, last_topic_, saves, showing, overlapped>>
  BY DEF Arrives
<1>5. \/ Made(page) /\ inits' = rest
      \/ /\ inits' = Append(rest, record)
         /\ UNCHANGED <<panel_, general_properties_panel_, left>>
  BY DEF Arrives, RawInit
<1>6. record \in Waiting /\ record.page = page
  BY <1>1 DEF Waiting
<1> HIDE DEF page, rest, record
<1>7. CASE Made(page) /\ inits' = rest
  BY <1>1, <1>2, <1>3, <1>4, <1>7, MadeKeeps
<1>8. CASE /\ inits' = Append(rest, record)
           /\ UNCHANGED <<panel_, general_properties_panel_, left>>
  <2>1. PanelsTyped'
    BY <1>2, <1>4, <1>6, <1>8 DEF AdminInv, PanelsTyped
  <2>2. Overlapping' = Overlapping
    BY <1>4 DEF Overlapping
  <2>3. inits' \in Seq(Overlapping) \/ Building'
    <3>1. CASE page \in overlapped /\ rest \in Seq(Overlapping)
      <4>1. record \in Overlapping
        BY <1>6, <3>1 DEF Overlapping
      <4> QED BY <1>8, <3>1, <4>1
    <3>2. CASE page = showing /\ Building /\ rest = <<>>
      <4>1. Len(inits') = 1 /\ inits'[1].page = showing
        BY <1>6, <1>8, <3>2
      <4> QED BY <1>4, <1>8, <3>2, <4>1 DEF Building
    <3> QED BY <1>3, <3>1, <3>2
  <2>4. \A u \in Topics : panel_'[u] \in overlapped' \cup {NoPanel}
    BY <1>1, <1>4, <1>8, OthersOverlap
  <2>5. "editor" \in Topics
    BY DEF Topics
  <2>6. Orderly'
    BY <1>4, <1>8, <2>2, <2>3, <2>4, <2>5 DEF AdminInv, Orderly
  <2> QED BY <2>1, <2>6 DEF AdminInv
<1> QED BY <1>5, <1>7, <1>8

LEMMA NeverArrivesKeeps ==
    ASSUME AdminInv, NEW i \in DOMAIN inits, NeverArrives(i) PROVE AdminInv'
<1>1. inits \in Seq(Waiting)
  BY DEF AdminInv, PanelsTyped
<1>2. inits' \in Seq(Waiting) /\ (Len(inits) = 1 => inits' = <<>>)
  BY <1>1, OneRemoved DEF NeverArrives
<1>3. PanelsTyped'
  BY <1>2 DEF NeverArrives, AdminInv, PanelsTyped
<1>4. Overlapping' = Overlapping /\ <<>> \in Seq(Overlapping)
  BY DEF NeverArrives, Overlapping
<1>5. inits' \in Seq(Overlapping)
  <2>1. CASE inits \in Seq(Overlapping)
    BY <2>1, OneRemoved DEF NeverArrives
  <2>2. CASE Building
    BY <1>2, <1>4, <2>2 DEF Building
  <2> QED BY <2>1, <2>2 DEF AdminInv, Orderly
<1>6. inits # <<>>
  BY <1>1
<1>7. \A u \in Topics : panel_'[u] \in overlapped' \cup {NoPanel}
  BY <1>6, OthersOverlap DEF NeverArrives
<1>8. "editor" \in Topics
  BY DEF Topics
<1>9. Orderly'
  BY <1>4, <1>5, <1>7, <1>8 DEF NeverArrives, AdminInv, Orderly
<1> QED BY <1>3, <1>9 DEF AdminInv

LEMMA AllOverlap ==
    ASSUME inits' \in Seq(Waiting), \A i \in DOMAIN inits' : inits'[i].page \in overlapped'
    PROVE  inits' \in Seq(Overlapping)'
<1>1. \A i \in 1 .. Len(inits') : inits'[i] \in Waiting /\ inits'[i].page \in overlapped'
  OBVIOUS
<1>2. Overlapping' = {w \in Waiting : w.page \in overlapped'}
  BY DEF Overlapping, Waiting
<1>3. \A i \in 1 .. Len(inits') : inits'[i] \in Overlapping'
  BY <1>1, <1>2
<1> HIDE DEF Overlapping
<1> QED BY <1>3

LEMMA ShowKeeps ==
    ASSUME AdminInv, NEW page \in Pages, Show(page), hash' \in Pages, seen' \in Pages,
           UNCHANGED saves
    PROVE  AdminInv'
<1> DEFINE t == TopicOf(page)
           waits == IF t \in Deferred THEN "callback" ELSE "record"
           init == [page |-> page, waits |-> waits]
           built == t \notin Deferred /\ page \notin Elements
<1>0. t \in Topics \/ (t = "none" /\ page = "missing")
  BY PagesTopics
<1>1. Hidden \in [Topics -> Pages \cup {NoPanel}] /\ panel_ \in [Topics -> Pages \cup {NoPanel}]
  BY DEF Hidden, AdminInv, PanelsTyped
<1>2. /\ showing' = page /\ left' = left /\ overlapped' = Overlapped(page)
      /\ last_topic_' = IF t = "none" THEN last_topic_ ELSE t
  BY DEF Show
<1>3. \/ panel_' = Hidden /\ UNCHANGED <<inits, general_properties_panel_>>
         /\ (t = "none" \/ Hidden[t] # NoPanel)
      \/ /\ t # "none" /\ Hidden[t] = NoPanel
         /\ panel_' = IF built THEN [Hidden EXCEPT ![t] = page] ELSE Hidden
         /\ general_properties_panel_' =
              IF built /\ t = "editor" THEN page ELSE general_properties_panel_
         /\ inits' = IF built THEN inits ELSE Append(inits, init)
  BY DEF Show
<1>4. inits \in Seq(Waiting) /\ (t # "none" => init \in Waiting)
  BY <1>0, PagesTopics DEF AdminInv, PanelsTyped, Waiting
<1> HIDE DEF t, init, built
<1>5. PanelsTyped'
  <2>1. panel_' \in [Topics -> Pages \cup {NoPanel}] /\ inits' \in Seq(Waiting)
    <3>1. \/ panel_' = Hidden
          \/ panel_' = [Hidden EXCEPT ![t] = page]
      BY <1>3
    <3>2. panel_' \in [Topics -> Pages \cup {NoPanel}]
      BY <1>1, <3>1
    <3>3. inits' = inits \/ (t # "none" /\ inits' = Append(inits, init))
      BY <1>3
    <3> QED BY <1>4, <3>2, <3>3
  <2>2. last_topic_' \in Topics \cup {"none"}
    BY <1>0, <1>2 DEF AdminInv, PanelsTyped
  <2> QED BY <1>2, <2>1, <2>2 DEF PanelsTyped
<1>6. /\ \A u \in Topics : Hidden[u] \in overlapped \cup {NoPanel}
      /\ inits # <<>> => \A u \in Topics : panel_[u] \in overlapped \cup {NoPanel}
  BY DEF Hidden, AdminInv, Orderly
<1>7. /\ overlapped \subseteq overlapped' /\ overlapped' \subseteq Pages
      /\ inits # <<>> => page \in overlapped' /\ \A i \in DOMAIN inits : inits[i].page \in overlapped'
  <2>1. \A i \in DOMAIN inits : inits[i].page \in Pages
    <3>1. \A i \in DOMAIN inits : inits[i] \in Waiting
      BY <1>4
    <3> QED BY <3>1 DEF Waiting
  <2>2. overlapped \subseteq Pages
    BY DEF AdminInv, Orderly
  <2> QED BY <1>2, <2>1, <2>2 DEF Overlapped
<1>8. left' \subseteq overlapped'
  BY <1>2, <1>7 DEF AdminInv, Orderly
<1>9. \A save \in saves' : save.id # save.data => save.id \in overlapped'
  BY <1>7 DEF AdminInv, Orderly
<1>10. "editor" \in Topics
  BY DEF Topics
<1>11. CASE panel_' = Hidden /\ UNCHANGED <<inits, general_properties_panel_>>
  <2>1. \A u \in Topics : panel_'[u] \in overlapped' \cup {NoPanel}
    BY <1>6, <1>7, <1>11
  <2>2. inits' \in Seq(Overlapping)'
    BY <1>4, <1>7, <1>11, AllOverlap
  <2>3. Orderly'
    BY <1>7, <1>8, <1>9, <1>10, <2>1, <2>2 DEF Orderly
  <2> QED BY <1>5, <2>3 DEF AdminInv
<1>12. CASE t # "none" /\ built /\ panel_' = [Hidden EXCEPT ![t] = page] /\ inits' = inits
            /\ (t = "editor" => general_properties_panel_' = page)
  <2>1. t \in Topics
    BY <1>0, <1>12
  <2>2. \A u \in Topics : panel_'[u] = IF u = t THEN page ELSE Hidden[u]
    BY <1>1, <1>12
  <2>3. ASSUME NEW u \in Topics, panel_'[u] \notin overlapped' \cup {NoPanel}
        PROVE  u = t /\ page \notin overlapped'
    BY <1>6, <1>7, <2>2, <2>3
  <2>4. inits' \in Seq(Overlapping)'
    BY <1>4, <1>7, <1>12, AllOverlap
  <2>5. \A u \in Topics : panel_'[u] \notin overlapped' \cup {NoPanel}
          => u = last_topic_' /\ panel_'[u] = showing' /\ inits' = <<>>
    BY <1>2, <1>7, <1>12, <2>1, <2>2, <2>3
  <2>6. panel_'["editor"] \notin overlapped' \cup {NoPanel}
          => general_properties_panel_' = panel_'["editor"]
    BY <1>10, <1>12, <2>2, <2>3
  <2>7. Orderly'
    BY <1>7, <1>8, <1>9, <2>4, <2>5, <2>6 DEF Orderly
  <2> QED BY <1>5, <2>7 DEF AdminInv
<1>13. CASE t # "none" /\ ~built /\ panel_' = Hidden /\ Hidden[t] = NoPanel
            /\ inits' = Append(inits, init)
  <2>1. \A u \in Topics : panel_'[u] \in overlapped' \cup {NoPanel}
    BY <1>6, <1>7, <1>13
  <2>2. init.page = page /\ init \in Waiting
    BY <1>4, <1>13 DEF init
  <2>3. inits' \in Seq(Overlapping)' \/ Building'
    <3>1. CASE inits = <<>>
      <4>1. Len(inits') = 1 /\ inits'[1] = init
        BY <1>13, <3>1
      <4>2. last_topic_' = t /\ showing' = page /\ panel_'[t] = NoPanel
        BY <1>2, <1>13
      <4> QED BY <2>2, <4>1, <4>2 DEF Building, t
    <3>2. CASE inits # <<>>
      <4>1. inits' \in Seq(Waiting) /\ \A i \in DOMAIN inits' : inits'[i].page \in overlapped'
        BY <1>4, <1>7, <1>13, <2>2, <3>2
      <4> QED BY <4>1, AllOverlap
    <3> QED BY <3>1, <3>2
  <2>4. Orderly'
    BY <1>7, <1>8, <1>9, <1>10, <2>1, <2>3 DEF Orderly
  <2> QED BY <1>5, <2>4 DEF AdminInv
<1> QED BY <1>3, <1>11, <1>12, <1>13

\* Another panel's data are saved only for a page that overlapped.
LEMMA SaveKeeps == ASSUME AdminInv, NEW page \in Pages, Save(page) PROVE AdminInv'
<1>1. PanelsTyped'
  BY DEF Save, page_vars, AdminInv, PanelsTyped
<1>2. page # general_properties_panel_ => page \in overlapped
  BY PagesTopics DEF Save, AdminInv, Orderly, Known
<1>3. UNCHANGED <<overlapped, showing, panel_, left, inits, last_topic_, general_properties_panel_>>
  BY DEF Save, page_vars
<1>4. (inits \in Seq(Overlapping) \/ Building)'
  BY <1>3 DEF AdminInv, Orderly, Building, Overlapping
<1>5. \A save \in saves' : save.id # save.data => save.id \in overlapped
  BY <1>2 DEF Save, AdminInv, Orderly
<1>6. Orderly'
  BY <1>3, <1>4, <1>5 DEF AdminInv, Orderly
<1> QED BY <1>1, <1>6 DEF AdminInv

LEMMA RestKeeps ==
    ASSUME AdminInv, UNCHANGED <<page_vars, showing, overlapped>>, hash' \in Pages, seen' \in Pages,
           saves' \subseteq saves
    PROVE  AdminInv'
<1>1. (inits \in Seq(Overlapping) \/ Building)'
  BY DEF AdminInv, Orderly, Building, Overlapping, page_vars
<1> QED BY <1>1 DEF AdminInv, PanelsTyped, Orderly, page_vars

LEMMA AdminStep == AdminInv /\ [AdminNext]_adminVars => AdminInv'
<1> SUFFICES ASSUME AdminInv, [AdminNext]_adminVars PROVE AdminInv'
  OBVIOUS
<1>0. "new" \in Pages /\ "table" \in Pages /\ hash \in Pages /\ seen \in Pages
  BY DEF Pages, AdminInv, PanelsTyped
<1>1. ASSUME NEW page \in Pages, GoTo(page) PROVE AdminInv'
  BY <1>0, <1>1, RestKeeps DEF GoTo
<1>2. ASSUME NEW page \in Pages, Save(page) PROVE AdminInv'
  BY <1>2, SaveKeeps
<1>3. CASE Changed
  BY <1>0, <1>3, ShowKeeps DEF Changed
<1>4. ASSUME NEW i \in DOMAIN inits, Arrives(i) \/ NeverArrives(i) PROVE AdminInv'
  BY <1>4, ArrivesKeeps, NeverArrivesKeeps
<1>5. ASSUME NEW save \in saves, NEW ok \in BOOLEAN, Saved(save, ok) PROVE AdminInv'
  BY <1>0, <1>5, RestKeeps DEF Saved
<1>6. CASE Another
  BY <1>0, <1>6, ShowKeeps DEF Another
<1>7. CASE BackToTable \/ CloseError
  BY <1>0, <1>7, RestKeeps DEF BackToTable, CloseError
<1>8. CASE UNCHANGED adminVars
  BY <1>0, <1>8, RestKeeps DEF adminVars
<1> QED BY <1>1, <1>2, <1>3, <1>4, <1>5, <1>6, <1>7, <1>8 DEF AdminNext

LEMMA InViewIsAsked == AdminInv => PageInView
BY DEF AdminInv, Orderly, PageInView, InView, Known

LEMMA OwnSaved == AdminInv => SavesOwn
BY DEF AdminInv, Orderly, SavesOwn

\* Whatever is asked for while panels are being built, a page stays in view after another
\* was asked for, or drops out of its topic's knowledge, only if it was itself being built
\* when another was asked for or asked for while another was being built.
THEOREM PagesInOrder == AdminSpec => []PageInView
BY InViewIsAsked, AdminStarts, AdminStep, PTL DEF AdminSpec

\* And only for such a page data are sent that are not its own: however many panels are in
\* view and being built, each page that was built by itself is saved with its own data.
THEOREM SavedUnderOwnId == AdminSpec => []SavesOwn
BY OwnSaved, AdminStarts, AdminStep, PTL DEF AdminSpec
-----------------------------------------------------------------------------
(* Types of the engine, loading and the pages, beside what their invariants say of them.   *)

LEMMA Bounded ==
    ASSUME NEW S, NEW n \in Nat, NEW s \in Seq(S), Len(s) <= n
    PROVE  s \in BoundedSeq(S, n)
<1>1. s \in [1 .. Len(s) -> S] /\ Len(s) \in 0 .. n
  OBVIOUS
<1> QED BY <1>1 DEF BoundedSeq, SeqOf

LEMMA LowerOfTwo ==
    ASSUME NEW a \in Nat, NEW b \in Nat
    PROVE  Min({a, b}) \in Nat /\ Min({a, b}) <= a /\ Min({a, b}) <= b
<1> DEFINE S == {a, b}
<1>1. PICK m \in S : \A n \in S : m <= n
  <2>1. a <= b \/ b <= a
    OBVIOUS
  <2> QED BY <2>1
<1>2. Min(S) \in S /\ \A n \in S : Min(S) <= n
  BY <1>1 DEF Min
<1> QED BY <1>2

LEMMA HighestOf ==
    ASSUME NEW n \in Nat, NEW S \in SUBSET (0 .. n), 0 \in S
    PROVE  Max(S) \in 0 .. n
<1> DEFINE T == {x \in Nat : n - x \in S}
<1>1. T \in SUBSET Nat /\ n \in T
  OBVIOUS
<1> HIDE DEF T
<1>2. PICK m \in T : \A x \in T : m <= x
  BY <1>1, LeastMember
<1>3. n - m \in S /\ \A y \in S : n - m >= y
  <2>1. \A y \in S : n - y \in T
    BY DEF T
  <2> QED BY <1>2, <2>1 DEF T
<1>4. Max(S) \in S
  BY <1>3 DEF Max
<1> QED BY <1>4

LoadingFlags ==
    {disabled, errors_off, on_error_, loading_complete, resources_loaded_, check_pending}
      \subseteq BOOLEAN

\* What LoadingInv does not say.
LoadingTypes ==
    /\ preloader <= PreloaderImages + 1
    /\ image \in [Images -> {"none", "loading", "loaded", "failed"}]
    /\ images_ \in [Names -> 0 .. MaxImages]
    /\ total_sounds_ \in {0, Cardinality(Sounds)}
    /\ errors_ \subseteq Sounds /\ reported \subseteq Sounds
    /\ timeout \in {"none", "set", "done"}
    /\ ready <= 1 /\ complete <= 1
    /\ LoadingFlags

LEMMA LoadingTyped == LoadingInv /\ LoadingTypes => LoadingTypeOK
<1> SUFFICES ASSUME LoadingInv, LoadingTypes PROVE LoadingTypeOK
  OBVIOUS
<1>1. PreloaderImages \in Nat
  BY LoadingAssumption DEF LoadingAssumption
<1>2. preloader \in -1 .. PreloaderImages + 1 /\ preloader_resource_count_ \in 0 .. PreloaderImages + 1
  <2>1. preloader \in Int /\ preloader >= -1 /\ preloader <= PreloaderImages + 1
    BY DEF LoadingInv, PreloaderCounted, LoadingTypes
  <2>2. \/ preloader = -1 /\ preloader_resource_count_ = 0
        \/ preloader >= 0 /\ preloader_resource_count_ = PreloaderImages + 1 - preloader
    BY <2>1 DEF LoadingInv, PreloaderCounted
  <2> QED BY <1>1, <2>1, <2>2
<1>3. loaded_sounds_ \in 0 .. Cardinality(Sounds)
  <2>1. Settled \in SUBSET Sounds
    BY DEF Settled
  <2>2. Cardinality(Settled) \in 0 .. Cardinality(Sounds)
    BY <2>1, SettledFinite
  <2> QED BY <2>2 DEF LoadingInv, SoundsCounted
<1>4. ready \in 0 .. 2 /\ complete \in 0 .. 2
  BY DEF LoadingInv, PreloaderCounted, LoadingTypes
<1>5. sounds_ \in [Sounds -> Sound] /\ erred \subseteq Sounds
  BY DEF LoadingInv, SoundsStart, ErrorsCollected
<1> QED BY <1>2, <1>3, <1>4, <1>5 DEF LoadingTypes, LoadingFlags, LoadingTypeOK

LEMMA LoadingTypesStart == LoadingInit => LoadingTypes
<1> SUFFICES ASSUME LoadingInit PROVE LoadingTypes
  OBVIOUS
<1>1. PreloaderImages \in Nat /\ MaxImages \in Nat
  BY LoadingAssumption DEF LoadingAssumption
<1>2. LoadingFlags
  BY DEF LoadingInit, LoadingFlags
<1> QED BY <1>1, <1>2 DEF LoadingInit, LoadingTypes

\* The game is told for the first time, if at all.
LEMMA CheckTypes ==
    ASSUME LoadingInv, LoadingTypes, NEW img, CheckLoaded(img)
    PROVE  /\ complete' <= 1
           /\ {resources_loaded_, check_pending}' \subseteq BOOLEAN
<1>1. CASE UNCHANGED loader
  BY <1>1 DEF loader, LoadingTypes, LoadingFlags
<1>2. CASE ~resources_loaded_ /\ resources_loaded_' = TRUE /\ complete' = Told(complete) /\ UNCHANGED check_pending
  <2>1. complete' = 1
    BY <1>2, ToldOne DEF LoadingInv
  <2> QED BY <1>2, <2>1 DEF LoadingTypes, LoadingFlags
<1>3. CASE check_pending' = TRUE /\ UNCHANGED <<resources_loaded_, complete>>
  BY <1>3 DEF LoadingTypes, LoadingFlags
<1> QED BY <1>1, <1>2, <1>3 DEF CheckLoaded

LEMMA ReportTypes ==
    ASSUME LoadingTypes, NEW told \in SUBSET Sounds, Report(told)
    PROVE  loading_complete' \in BOOLEAN /\ reported' \subseteq Sounds
BY DEF Report, LoadingTypes

LEMMA LoadingTypesStep ==
    ASSUME LoadingInv, LoadingTypes, [LoadingNext]_loadingVars
    PROVE  LoadingTypes'
<1>0. ASSUME UNCHANGED <<pre, audio>>, UNCHANGED graphics, UNCHANGED loader
      PROVE  LoadingTypes'
  BY <1>0 DEF pre, audio, graphics, loader, LoadingTypes, LoadingFlags
<1>1. PreloaderImages \in Nat /\ MaxImages \in Nat
  BY LoadingAssumption DEF LoadingAssumption
<1>2. CASE InitLoader
  <2>1. LoadingFlags'
    BY <1>2 DEF InitLoader, audio, loader, LoadingTypes, LoadingFlags
  <2> QED BY <1>1, <1>2, <2>1 DEF InitLoader, audio, graphics, loader, LoadingTypes
<1>3. CASE PreloaderLoad
  <2>1. LoadingFlags'
    BY <1>3 DEF PreloaderLoad, audio, loader, LoadingTypes, LoadingFlags
  <2>2. ready = 0 /\ ready' \in {0, 1}
    BY <1>3, ToldOne DEF PreloaderLoad, LoadingInv, PreloaderCounted
  <2>3. preloader' <= PreloaderImages + 1
    BY <1>1, <1>3 DEF PreloaderLoad, LoadingTypes, LoadingInv, PreloaderCounted
  <2> QED BY <1>3, <2>1, <2>2, <2>3 DEF PreloaderLoad, audio, graphics, loader, LoadingTypes
<1>4. CASE LoadGraphics
  <2>1. LoadingFlags'
    BY <1>4 DEF LoadGraphics, audio, loader, LoadingTypes, LoadingFlags
  <2>2. \A n \in Names : Max({i \in Images : NameOf[i] = n} \cup {0}) \in 0 .. MaxImages
    <3>1. TAKE n \in Names
    <3> DEFINE S == {i \in Images : NameOf[i] = n} \cup {0}
    <3>2. S \in SUBSET (0 .. MaxImages) /\ 0 \in S
      BY <1>1 DEF Images
    <3> HIDE DEF S
    <3>3. Max(S) \in 0 .. MaxImages
      BY <1>1, <3>2, HighestOf
    <3> QED BY <3>3 DEF S
  <2>3. images_' \in [Names -> 0 .. MaxImages]
    BY <1>4, <2>2 DEF LoadGraphics
  <2>4. image' \in [Images -> {"none", "loading", "loaded", "failed"}]
    BY <1>4 DEF LoadGraphics
  <2> QED BY <1>4, <2>1, <2>3, <2>4 DEF LoadGraphics, pre, audio, loader, LoadingTypes
<1>5. ASSUME NEW i \in Images, ImageLoad(i) \/ ImageFails(i) PROVE LoadingTypes'
  <2>1. UNCHANGED <<pre, images_, audio>>
        /\ image' \in [Images -> {"none", "loading", "loaded", "failed"}]
    BY <1>5 DEF ImageLoad, ImageFails, LoadingTypes
  <2>2. complete' <= 1 /\ {resources_loaded_, check_pending}' \subseteq BOOLEAN
    <3>1. CASE ImageLoad(i)
      BY <3>1, CheckTypes DEF ImageLoad
    <3>2. CASE ImageFails(i)
      BY <3>2 DEF ImageFails, loader, LoadingTypes, LoadingFlags
    <3> QED BY <1>5, <3>1, <3>2
  <2>3. LoadingFlags'
    BY <2>1, <2>2 DEF audio, LoadingTypes, LoadingFlags
  <2> QED BY <2>1, <2>2, <2>3 DEF pre, audio, LoadingTypes
<1>6. CASE SetSoundErrorHandler
  <2>1. LoadingFlags'
    BY <1>6 DEF SetSoundErrorHandler, loader, LoadingTypes, LoadingFlags
  <2> QED BY <1>6, <2>1 DEF SetSoundErrorHandler, pre, graphics, loader, LoadingTypes
<1>7. ASSUME NEW format \in Formats, NEW listeners \in BOOLEAN, LoadSounds(format, listeners)
      PROVE  LoadingTypes'
  <2>0. disabled' \in BOOLEAN
    <3>1. disabled' = (format \in {"no audio", "none returned"})
      BY <1>7 DEF LoadSounds
    <3>2. (format \in {"no audio", "none returned"}) \in BOOLEAN
      OBVIOUS
    <3> QED BY <3>1, <3>2
  <2>1. UNCHANGED <<errors_off, on_error_, loading_complete, loader>>
    BY <1>7 DEF LoadSounds
  <2>2. LoadingFlags'
    BY <2>0, <2>1 DEF loader, LoadingTypes, LoadingFlags
  <2>3. total_sounds_' \in {0, Cardinality(Sounds)} /\ timeout' \in {"none", "set", "done"}
    BY <1>7 DEF LoadSounds
  <2>4. UNCHANGED <<pre, graphics, complete, errors_, reported>>
    BY <1>7 DEF LoadSounds, loader
  <2> QED BY <2>2, <2>3, <2>4 DEF pre, graphics, LoadingTypes
<1>8. ASSUME NEW s \in Sounds, CanPlay(s) \/ SoundFails(s) PROVE LoadingTypes'
  <2>1. errors_' \in SUBSET Sounds /\ Report(errors_')
        /\ UNCHANGED <<pre, graphics, loader, disabled, total_sounds_, errors_off, on_error_, timeout>>
    BY <1>8 DEF CanPlay, SoundFails, LoadingTypes
  <2>2. loading_complete' \in BOOLEAN /\ reported' \subseteq Sounds
    BY <2>1, ReportTypes
  <2>3. LoadingFlags'
    BY <2>1, <2>2 DEF loader, LoadingTypes, LoadingFlags
  <2> QED BY <2>1, <2>2, <2>3 DEF pre, graphics, loader, LoadingTypes
<1>9. CASE Timeout
  <2>1. errors_off' \in BOOLEAN /\ loading_complete' \in BOOLEAN
        /\ UNCHANGED <<pre, graphics, loader, disabled, total_sounds_, on_error_>>
    BY <1>9 DEF Timeout, LoadingTypes, LoadingFlags
  <2>2. LoadingFlags'
    BY <2>1 DEF loader, LoadingTypes, LoadingFlags
  <2>3. errors_' \subseteq Sounds /\ reported' \subseteq Sounds /\ timeout' = "done"
    BY <1>9 DEF Timeout, Unloaded, LoadingTypes
  <2> QED BY <2>1, <2>2, <2>3 DEF pre, graphics, loader, LoadingTypes
<1>10. CASE Check
  <2>1. complete' <= 1 /\ {resources_loaded_, check_pending}' \subseteq BOOLEAN
    <3>1. CASE CheckLoaded(image)
      BY <3>1, CheckTypes
    <3>2. CASE check_pending' = FALSE /\ UNCHANGED <<resources_loaded_, complete>>
      BY <3>2 DEF LoadingTypes, LoadingFlags
    <3> QED BY <1>10, <3>1, <3>2 DEF Check
  <2>2. LoadingFlags'
    BY <1>10, <2>1 DEF Check, audio, LoadingTypes, LoadingFlags
  <2> QED BY <1>10, <2>1, <2>2 DEF Check, pre, graphics, audio, LoadingTypes
<1>11. CASE UNCHANGED loadingVars
  BY <1>0, <1>11 DEF loadingVars
<1> QED BY <1>2, <1>3, <1>4, <1>5, <1>6, <1>7, <1>8, <1>9, <1>10, <1>11 DEF LoadingNext

EngineFlags ==
    {frame_requested_, can_process_events_, critical_error_raised_, custom_error_handler_,
     is_drawing_, must_redraw_, must_check_integrity_, check_integrity_timer_, installed}
      \subseteq BOOLEAN

\* What EngineInv does not say.
EngineTypes ==
    /\ EngineFlags
    /\ handle_error_calls_ \in 0 .. MaxLeaks
    /\ screens_list_ \in Seq(Screens) /\ Len(screens_list_) <= MaxScreens
    /\ kind \in [Requests -> Kinds \cup {"none"}]
    /\ failures \subseteq {"event", "integrity", "draw"}

LEMMA EngineTyped == EngineInv /\ EngineTypes => EngineTypeOK
<1> SUFFICES ASSUME EngineInv, EngineTypes PROVE EngineTypeOK
  OBVIOUS
<1>1. MaxScreens \in Nat
  BY KindsAssumption DEF KindsAssumption
<1>2. screens_list_ \in BoundedSeq(Screens, MaxScreens)
  BY <1>1, Bounded DEF EngineTypes
<1>3. /\ queue_ \in Seq(Ids) /\ IsInjective(queue_)
      /\ request \in [Requests -> {"unsent", "sent", "answered"}]
      /\ ran \in [Ids -> 0 .. 2]
  BY DEF EngineInv, QueueInv
<1> QED BY <1>2, <1>3, Zenon DEF EngineTypes, EngineFlags, EngineTypeOK

LEMMA EngineTypesStart == EngineInit => EngineTypes
<1> SUFFICES ASSUME EngineInit PROVE EngineTypes
  OBVIOUS
<1>1. MaxScreens \in Nat /\ MaxLeaks \in Nat
  BY KindsAssumption DEF KindsAssumption
<1>2. EngineFlags
  BY DEF EngineInit, EngineFlags
<1>3. screens_list_ \in Seq(Screens) /\ Len(screens_list_) = 0
  BY DEF EngineInit
<1> QED BY <1>1, <1>2, <1>3 DEF EngineInit, EngineTypes

ErrorsTyped == critical_error_raised_ \in BOOLEAN /\ handle_error_calls_ \in 0 .. MaxLeaks

LEMMA ErrorTypes ==
    ASSUME EngineTypes, UNCHANGED errors \/ Failed \/ Dangling
    PROVE  ErrorsTyped'
<1>1. MaxLeaks \in Nat
  BY KindsAssumption DEF KindsAssumption
<1>2. CASE UNCHANGED errors
  BY <1>2 DEF errors, EngineTypes, EngineFlags, ErrorsTyped
<1>3. CASE Failed
  <2>1. handle_error_calls_ \in 0 .. MaxLeaks
    BY DEF EngineTypes
  <2>2. Leak(handle_error_calls_) \in 0 .. MaxLeaks
    BY <1>1, <2>1 DEF Leak
  <2>3. handle_error_calls_' \in 0 .. MaxLeaks
    BY <1>3, <2>1, <2>2, Zenon DEF Failed
  <2>4. critical_error_raised_' = FALSE
    BY <1>3 DEF Failed
  <2> QED BY <2>3, <2>4 DEF ErrorsTyped
<1>4. CASE critical_error_raised_' = TRUE /\ UNCHANGED handle_error_calls_
  BY <1>4 DEF EngineTypes, ErrorsTyped
<1> QED BY <1>2, <1>3, <1>4 DEF Dangling

ScreensTyped == screens_list_ \in Seq(Screens) /\ Len(screens_list_) <= MaxScreens

\* A list of screens that is extended at its front is cut at its end.
LEMMA ShownTyped ==
    ASSUME ScreensTyped, NEW s \in Screens,
           screens_list_' = SubSeq(<<s>> \o screens_list_, 1,
                                   Min({MaxScreens, Len(screens_list_) + 1}))
    PROVE  ScreensTyped'
<1> DEFINE all == <<s>> \o screens_list_
           n == Min({MaxScreens, Len(screens_list_) + 1})
<1>1. MaxScreens \in Nat /\ screens_list_ \in Seq(Screens) /\ Len(screens_list_) \in Nat
  BY KindsAssumption DEF KindsAssumption, ScreensTyped
<1>2. all \in Seq(Screens) /\ Len(all) = Len(screens_list_) + 1
  BY <1>1
<1>3. n \in Nat /\ n <= MaxScreens /\ n <= Len(screens_list_) + 1
  BY <1>1, LowerOfTwo
<1> HIDE DEF all, n
<1>4. SubSeq(all, 1, n) \in Seq(Screens) /\ Len(SubSeq(all, 1, n)) = n
  BY <1>1, <1>2, <1>3
<1>5. screens_list_' = SubSeq(all, 1, n)
  BY DEF all, n
<1> QED BY <1>3, <1>4, <1>5 DEF ScreensTyped

LEMMA ShiftedTyped ==
    ASSUME ScreensTyped, IsReady, screens_list_' = Tail(screens_list_)
    PROVE  ScreensTyped'
<1>1. MaxScreens \in Nat
  BY KindsAssumption DEF KindsAssumption
<1>2. Tail(screens_list_) \in Seq(Screens) /\ Len(Tail(screens_list_)) = Len(screens_list_) - 1
  BY DEF ScreensTyped, IsReady
<1> QED BY <1>1, <1>2 DEF ScreensTyped

\* What the frame leaves of flags and failures, however far it comes.
LEMMA FrameTypes ==
    ASSUME EngineTypes, Frame
    PROVE  /\ EngineFlags'
           /\ ErrorsTyped'
           /\ failures' \subseteq {"event", "integrity", "draw"}
           /\ UNCHANGED <<screens_list_, kind>>
<1>1. RunEvents /\ UNCHANGED <<custom_error_handler_, installed, screens_list_>>
      /\ frame_requested_' = TRUE
  BY DEF Frame, FrameEventFails, FrameIntegrityFails, FrameDrawAsserts, FrameDrawFails,
     FrameDone, FrameRenders, FrameFails
<1>2. can_process_events_' \in BOOLEAN /\ UNCHANGED kind
  BY <1>1 DEF RunEvents
<1>3. Failed \/ UNCHANGED errors
  BY DEF Frame, FrameEventFails, FrameIntegrityFails, FrameDrawAsserts, FrameDrawFails,
     FrameDone, FrameFails
<1>4. ErrorsTyped'
  BY <1>3, ErrorTypes
<1>5. failures' \subseteq {"event", "integrity", "draw"}
  BY DEF Frame, FrameEventFails, FrameIntegrityFails, FrameDrawAsserts, FrameDrawFails,
     FrameDone, FrameFails, EngineTypes
<1>6. must_redraw_' \in BOOLEAN
  BY DEF Frame, FrameEventFails, FrameIntegrityFails, FrameDrawAsserts, FrameDrawFails,
     FrameDone, Redraw, EngineTypes, EngineFlags
<1>7. is_drawing_' \in BOOLEAN
  BY DEF Frame, FrameEventFails, FrameIntegrityFails, FrameDrawAsserts, FrameDrawFails,
     FrameDone, EngineTypes, EngineFlags
<1>8. must_check_integrity_' \in BOOLEAN /\ check_integrity_timer_' \in BOOLEAN
  BY DEF Frame, FrameEventFails, FrameIntegrityFails, FrameDrawAsserts, FrameDrawFails,
     FrameDone, FrameRenders, EngineTypes, EngineFlags
<1>9. custom_error_handler_' \in BOOLEAN /\ installed' \in BOOLEAN
  BY <1>1 DEF EngineTypes, EngineFlags
<1>10. critical_error_raised_' \in BOOLEAN
  BY <1>4 DEF ErrorsTyped
<1>11. EngineFlags'
  BY <1>1, <1>2, <1>6, <1>7, <1>8, <1>9, <1>10, Zenon DEF EngineFlags
<1> QED BY <1>1, <1>2, <1>4, <1>5, <1>11

\* Callbacks other than frames, and what of the state each may change.
LEMMA CallbackTypes ==
    ASSUME EngineTypes, ErrorsTyped', ScreensTyped',
           {frame_requested_, can_process_events_, custom_error_handler_, must_redraw_,
            check_integrity_timer_, installed}' \subseteq BOOLEAN,
           UNCHANGED <<is_drawing_, must_check_integrity_, failures>>,
           kind' \in [Requests -> Kinds \cup {"none"}]
    PROVE  EngineTypes'
<1>1. EngineFlags'
  BY DEF EngineTypes, EngineFlags, ErrorsTyped
<1> QED BY <1>1 DEF EngineTypes, ErrorsTyped, ScreensTyped

LEMMA EngineTypesStep ==
    ASSUME EngineTypes, [EngineNext]_engineVars
    PROVE  EngineTypes'
<1> DEFINE OthersTyped ==
             {frame_requested_, can_process_events_, custom_error_handler_, must_redraw_,
              check_integrity_timer_, installed} \subseteq BOOLEAN
           Untouched == UNCHANGED <<is_drawing_, must_check_integrity_, failures>>
           KindTyped == kind \in [Requests -> Kinds \cup {"none"}]
<1>1. OthersTyped /\ KindTyped /\ ErrorsTyped /\ ScreensTyped
  BY DEF EngineTypes, EngineFlags, ErrorsTyped, ScreensTyped
<1>2. ASSUME ErrorsTyped', ScreensTyped', OthersTyped', Untouched, KindTyped' PROVE EngineTypes'
  BY <1>2, CallbackTypes
<1>3. ASSUME UNCHANGED errors PROVE ErrorsTyped'
  BY <1>3, ErrorTypes
<1>4. ASSUME UNCHANGED screens_list_ PROVE ScreensTyped'
  BY <1>1, <1>4 DEF ScreensTyped
<1>5. ASSUME UNCHANGED events PROVE KindTyped'
  BY <1>1, <1>5 DEF events
<1>6. ASSUME NEW r \in Requests, Send(r) PROVE EngineTypes'
  <2>1. OthersTyped' /\ Untouched
    BY <1>1, <1>6 DEF Send, loop, viewport, integrity
  <2>2. UNCHANGED <<errors, screens_list_, events>>
    BY <1>6 DEF Send, viewport
  <2> HIDE DEF OthersTyped, Untouched, KindTyped
  <2> QED BY <1>2, <1>3, <1>4, <1>5, <2>1, <2>2
<1>7. ASSUME NEW r \in Requests, NEW k \in Kinds, AnswerData(r, k) PROVE EngineTypes'
  <2>1. OthersTyped' /\ Untouched
    BY <1>1, <1>7 DEF AnswerData, Answered, loop, viewport, integrity
  <2>2. UNCHANGED <<errors, screens_list_>>
    BY <1>7 DEF AnswerData, Answered, viewport
  <2>3. KindTyped'
    BY <1>1, <1>7 DEF AnswerData
  <2> HIDE DEF OthersTyped, Untouched, KindTyped
  <2> QED BY <1>2, <1>3, <1>4, <2>1, <2>2, <2>3
<1>8. ASSUME NEW r \in Requests, AnswerBad(r) \/ AnswerLost(r) PROVE EngineTypes'
  <2>1. OthersTyped' /\ Untouched
    BY <1>1, <1>8 DEF AnswerBad, AnswerLost, Answered, loop, viewport, integrity
  <2>2. UNCHANGED <<screens_list_, events>> /\ (Dangling \/ UNCHANGED errors)
    BY <1>8 DEF AnswerBad, AnswerLost, Answered, viewport
  <2>3. ErrorsTyped'
    BY <2>2, ErrorTypes
  <2> HIDE DEF OthersTyped, Untouched, KindTyped
  <2> QED BY <1>2, <1>4, <1>5, <2>1, <2>2, <2>3
<1>9. CASE SetErrorHandler
  <2>1. OthersTyped' /\ Untouched
    BY <1>1, <1>9 DEF SetErrorHandler, loop, viewport, integrity
  <2>2. UNCHANGED <<errors, screens_list_, events>>
    BY <1>9 DEF SetErrorHandler, viewport
  <2> HIDE DEF OthersTyped, Untouched, KindTyped
  <2> QED BY <1>2, <1>3, <1>4, <1>5, <2>1, <2>2
<1>10. ASSUME NEW s \in Screens, ShowScreen(s) PROVE EngineTypes'
  <2>1. OthersTyped' /\ Untouched
    BY <1>1, <1>10 DEF ShowScreen, Shown, loop, integrity
  <2>2. UNCHANGED <<errors, events>>
    BY <1>10 DEF ShowScreen
  <2>3. ScreensTyped'
    BY <1>1, <1>10, ShownTyped DEF ShowScreen, Shown
  <2> HIDE DEF OthersTyped, Untouched, KindTyped
  <2> QED BY <1>2, <1>3, <1>5, <2>1, <2>2, <2>3
<1>11. CASE ShiftScreens
  <2>1. OthersTyped' /\ Untouched
    BY <1>1, <1>11 DEF ShiftScreens, loop, integrity
  <2>2. UNCHANGED <<errors, events>>
    BY <1>11 DEF ShiftScreens
  <2>3. ScreensTyped'
    BY <1>1, <1>11, ShiftedTyped DEF ShiftScreens
  <2> HIDE DEF OthersTyped, Untouched, KindTyped
  <2> QED BY <1>2, <1>3, <1>5, <2>1, <2>2, <2>3
<1>12. CASE RequestRedraw
  <2>1. OthersTyped' /\ Untouched
    BY <1>1, <1>12 DEF RequestRedraw, loop, integrity
  <2>2. UNCHANGED <<errors, screens_list_, events>>
    BY <1>12 DEF RequestRedraw
  <2> HIDE DEF OthersTyped, Untouched, KindTyped
  <2> QED BY <1>2, <1>3, <1>4, <1>5, <2>1, <2>2
<1>13. CASE ReturnToPrevious
  <2>1. OthersTyped' /\ Untouched
    BY <1>1, <1>13 DEF ReturnToPrevious, Input, Shown, loop, integrity
  <2>2. UNCHANGED events /\ (Failed \/ UNCHANGED errors)
    BY <1>13 DEF ReturnToPrevious, Input
  <2>3. ErrorsTyped'
    BY <2>2, ErrorTypes
  <2>4. IsReady /\ (screens_list_' = Tail(screens_list_) \/ screens_list_' = <<>>)
    BY <1>13 DEF ReturnToPrevious, Input, Shown
  <2>5. ScreensTyped'
    <3>1. MaxScreens \in Nat
      BY KindsAssumption DEF KindsAssumption
    <3>2. CASE screens_list_' = <<>>
      BY <3>1, <3>2 DEF ScreensTyped
    <3> QED BY <1>1, <2>4, <3>2, ShiftedTyped
  <2> HIDE DEF OthersTyped, Untouched, KindTyped
  <2> QED BY <1>2, <1>5, <2>1, <2>2, <2>3, <2>5
<1>14. ASSUME NEW critical \in BOOLEAN, InputFails(critical) PROVE EngineTypes'
  <2>1. OthersTyped' /\ Untouched
    BY <1>1, <1>14 DEF InputFails, Input, loop, viewport, integrity
  <2>2. UNCHANGED <<screens_list_, events>> /\ Failed
    BY <1>14 DEF InputFails, Input, viewport
  <2>3. ErrorsTyped'
    BY <2>2, ErrorTypes
  <2> HIDE DEF OthersTyped, Untouched, KindTyped
  <2> QED BY <1>2, <1>4, <1>5, <2>1, <2>2, <2>3
<1>15. CASE LoseHandlers \/ TimeUp
  <2>1. Untouched /\ UNCHANGED <<frame_requested_, can_process_events_, custom_error_handler_, must_redraw_>>
    BY <1>15 DEF LoseHandlers, TimeUp, loop, viewport
  <2>2. check_integrity_timer_' \in BOOLEAN /\ installed' \in BOOLEAN
    BY <1>1, <1>15 DEF LoseHandlers, TimeUp
  <2>3. OthersTyped'
    BY <1>1, <2>1, <2>2
  <2>4. UNCHANGED <<errors, screens_list_, events>>
    BY <1>15 DEF LoseHandlers, TimeUp, viewport
  <2> HIDE DEF OthersTyped, Untouched, KindTyped
  <2> QED BY <1>2, <1>3, <1>4, <1>5, <2>1, <2>3, <2>4
<1>16. ASSUME Start \/ \E b \in BOOLEAN : Allow(b) PROVE EngineTypes'
  <2>1. Untouched /\ UNCHANGED <<custom_error_handler_, must_redraw_, check_integrity_timer_, installed>>
    BY <1>16 DEF Start, Allow, viewport, integrity
  <2>2. frame_requested_' \in BOOLEAN /\ can_process_events_' \in BOOLEAN
    BY <1>1, <1>16 DEF Start, Allow
  <2>3. OthersTyped'
    BY <1>1, <2>1, <2>2
  <2>4. UNCHANGED <<errors, screens_list_, events>>
    BY <1>16 DEF Start, Allow, viewport
  <2> HIDE DEF OthersTyped, Untouched, KindTyped
  <2> QED BY <1>2, <1>3, <1>4, <1>5, <2>1, <2>3, <2>4
<1>17. CASE Frame
  <2>1. /\ EngineFlags' /\ ErrorsTyped' /\ failures' \subseteq {"event", "integrity", "draw"}
        /\ UNCHANGED <<screens_list_, kind>>
    BY <1>17, FrameTypes
  <2> QED BY <1>1, <2>1 DEF EngineTypes, ErrorsTyped, ScreensTyped
<1>18. CASE UNCHANGED engineVars
  <2>1. OthersTyped' /\ Untouched
    BY <1>1, <1>18 DEF engineVars, loop, viewport, integrity
  <2>2. UNCHANGED <<errors, screens_list_, events>>
    BY <1>18 DEF engineVars, viewport
  <2> HIDE DEF OthersTyped, Untouched, KindTyped
  <2> QED BY <1>2, <1>3, <1>4, <1>5, <2>1, <2>2
<1> HIDE DEF OthersTyped, Untouched, KindTyped
<1> QED BY <1>6, <1>7, <1>8, <1>9, <1>10, <1>11, <1>12, <1>13, <1>14, <1>15, <1>16, <1>17, <1>18
       DEF EngineNext

PanelsOfTopics == \A t \in Topics : panel_[t] # NoPanel => TopicOf(panel_[t]) = t
LeftTyped == left \subseteq Pages \ {"missing"}
FewInits == Len(inits) <= MaxInits
DialogTyped == dialog \in {"none", "inserted", "updated", "error"}

\* What AdminInv does not say.
AdminTypes == PanelsOfTopics /\ LeftTyped /\ FewInits /\ DialogTyped

LEMMA AdminTyped == AdminInv /\ AdminTypes => AdminTypeOK
<1> SUFFICES ASSUME AdminInv, AdminTypes PROVE AdminTypeOK
  OBVIOUS
<1>1. MaxInits \in Nat
  BY AdminAssumption DEF AdminAssumption
<1>2. inits \in Seq(Waiting) /\ Len(inits) <= MaxInits
  BY DEF AdminInv, PanelsTyped, AdminTypes, FewInits
<1>3. inits \in BoundedSeq(Waiting, MaxInits)
  BY <1>1, <1>2, Bounded
<1>4. \A t \in Topics : panel_[t] # NoPanel => panel_[t] \in Pages /\ TopicOf(panel_[t]) = t
  BY DEF AdminInv, PanelsTyped, AdminTypes, PanelsOfTopics
<1>5. /\ {hash, seen, showing} \subseteq Pages /\ overlapped \subseteq Pages
      /\ last_topic_ \in Topics \cup {"none"}
  BY DEF AdminInv, PanelsTyped, Orderly
<1>6. left \subseteq Pages \ {"missing"} /\ dialog \in {"none", "inserted", "updated", "error"}
  BY DEF AdminTypes, LeftTyped, DialogTyped
<1> QED BY <1>3, <1>4, <1>5, <1>6 DEF Waiting, AdminTypeOK

LEMMA AdminTypesStart == AdminInit => AdminTypes
BY AdminAssumption DEF AdminAssumption, AdminInit, AdminTypes, PanelsOfTopics, LeftTyped, FewInits,
   DialogTyped

\* A panel that is made is of its topic, and so is what it leaves behind.
LEMMA MadeTypes ==
    ASSUME AdminInv, AdminTypes, NEW page \in Pages \ {"missing"}, Made(page)
    PROVE  PanelsOfTopics' /\ LeftTyped'
<1>1. TopicOf(page) \in Topics /\ TopicOf("missing") \notin Topics
  BY PagesTopics
<1>2. panel_ \in [Topics -> Pages \cup {NoPanel}]
  BY DEF AdminInv, PanelsTyped
<1>3. Known(TopicOf(page)) \subseteq Pages \ {"missing"}
  BY <1>1, <1>2 DEF Known, AdminTypes, PanelsOfTopics
<1>4. LeftTyped'
  BY <1>3 DEF Made, AdminTypes, LeftTyped
<1>5. PanelsOfTopics'
  BY <1>1, <1>2 DEF Made, AdminTypes, PanelsOfTopics
<1> QED BY <1>4, <1>5

LEMMA OneFewer ==
    ASSUME NEW s \in Seq(Waiting), NEW i \in DOMAIN s
    PROVE  RemoveAt(s, i) \in Seq(Waiting) /\ Len(RemoveAt(s, i)) = Len(s) - 1
<1>1. i \in 1 .. Len(s) /\ Len(s) \in Nat
  OBVIOUS
<1> DEFINE a == SubSeq(s, 1, i - 1)
           b == SubSeq(s, i + 1, Len(s))
<1>2. a \in Seq(Waiting) /\ b \in Seq(Waiting) /\ Len(a) = i - 1 /\ Len(b) = Len(s) - i
  BY <1>1
<1>3. RemoveAt(s, i) = a \o b
  BY DEF RemoveAt
<1> HIDE DEF a, b
<1> QED BY <1>1, <1>2, <1>3

\* A panel that is being built is one of the few, until it is made or given up.
LEMMA ArrivesTypes ==
    ASSUME AdminInv, AdminTypes, NEW i \in DOMAIN inits, Arrives(i) \/ NeverArrives(i)
    PROVE  AdminTypes'
<1> DEFINE page == inits[i].page
           rest == RemoveAt(inits, i)
           more == [page |-> page, waits |-> "record"]
<1>1. inits \in Seq(Waiting) /\ MaxInits \in Nat /\ Len(inits) <= MaxInits
  BY AdminAssumption DEF AdminAssumption, AdminInv, PanelsTyped, AdminTypes, FewInits
<1>2. page \in Pages \ {"missing"}
  <2>1. inits[i] \in Waiting
    BY <1>1
  <2> QED BY <2>1 DEF Waiting
<1>3. more \in Waiting
  BY <1>2 DEF Waiting
<1>4. rest \in Seq(Waiting) /\ Len(rest) = Len(inits) - 1 /\ Len(inits) \in Nat
  BY <1>1, OneFewer
<1>5. /\ dialog' = dialog
      /\ inits' = rest \/ inits' = Append(rest, more)
      /\ Made(page) \/ UNCHANGED <<panel_, left>>
  BY DEF Arrives, NeverArrives, RawInit
<1> HIDE DEF page, rest, more
<1>6. FewInits'
  <2>1. Len(Append(rest, more)) = Len(inits)
    BY <1>3, <1>4
  <2> QED BY <1>1, <1>4, <1>5, <2>1 DEF FewInits
<1>7. PanelsOfTopics' /\ LeftTyped'
  BY <1>2, <1>5, MadeTypes DEF AdminTypes, PanelsOfTopics, LeftTyped
<1> QED BY <1>5, <1>6, <1>7 DEF AdminTypes, DialogTyped

LEMMA ShowTypes ==
    ASSUME AdminInv, AdminTypes, NEW page \in Pages, Show(page), Len(inits) < MaxInits
    PROVE  PanelsOfTopics' /\ LeftTyped' /\ FewInits'
<1> DEFINE t == TopicOf(page)
           init == [page |-> page, waits |-> IF t \in Deferred THEN "callback" ELSE "record"]
<1>1. t \in Topics \/ t = "none"
  BY PagesTopics
<1>2. Hidden \in [Topics -> Pages \cup {NoPanel}]
  BY DEF Hidden, AdminInv, PanelsTyped
<1>3. \A u \in Topics : Hidden[u] # NoPanel => TopicOf(Hidden[u]) = u
  BY DEF Hidden, AdminTypes, PanelsOfTopics
<1>4. left' = left /\ (inits' = inits \/ inits' = Append(inits, init))
      /\ (panel_' = Hidden \/ (t # "none" /\ panel_' = [Hidden EXCEPT ![t] = page]))
  BY DEF Show
<1>5. inits \in Seq(Waiting) /\ MaxInits \in Nat
  BY AdminAssumption DEF AdminAssumption, AdminInv, PanelsTyped
<1> HIDE DEF init
<1>6. FewInits'
  <2>1. Len(inits) \in Nat /\ Len(Append(inits, init)) = Len(inits) + 1
    BY <1>5
  <2> QED BY <1>4, <1>5, <2>1 DEF FewInits
<1>7. PanelsOfTopics'
  BY <1>1, <1>2, <1>3, <1>4 DEF PanelsOfTopics
<1> QED BY <1>4, <1>6, <1>7 DEF AdminTypes, LeftTyped

LEMMA AdminTypesStep ==
    ASSUME AdminInv, AdminTypes, [AdminNext]_adminVars
    PROVE  AdminTypes'
<1>0. ASSUME UNCHANGED page_vars, dialog' \in {dialog, "none", "inserted", "updated", "error"}
      PROVE  AdminTypes'
  BY <1>0 DEF page_vars, AdminTypes, PanelsOfTopics, LeftTyped, FewInits, DialogTyped
<1>1. ASSUME NEW page \in Pages, GoTo(page) \/ Save(page) PROVE AdminTypes'
  BY <1>0, <1>1 DEF GoTo, Save
<1>2. CASE Changed
  <2>1. hash \in Pages
    BY DEF AdminInv, PanelsTyped
  <2> QED BY <1>2, <2>1, ShowTypes DEF Changed, AdminTypes, DialogTyped
<1>3. ASSUME NEW i \in DOMAIN inits, Arrives(i) \/ NeverArrives(i) PROVE AdminTypes'
  BY <1>3, ArrivesTypes
<1>4. ASSUME NEW save \in saves, NEW ok \in BOOLEAN, Saved(save, ok) PROVE AdminTypes'
  BY <1>0, <1>4 DEF Saved
<1>5. CASE Another
  <2>1. "new" \in Pages
    BY DEF Pages
  <2> QED BY <1>5, <2>1, ShowTypes DEF Another, AdminTypes, DialogTyped
<1>6. CASE BackToTable \/ CloseError
  BY <1>0, <1>6 DEF BackToTable, CloseError
<1>7. CASE UNCHANGED adminVars
  BY <1>0, <1>7 DEF adminVars
<1> QED BY <1>1, <1>2, <1>3, <1>4, <1>5, <1>6, <1>7 DEF AdminNext
-----------------------------------------------------------------------------
(* The parts together, of which one moves while the others rest.           *)

BrowserInv ==
    /\ EngineInv /\ EngineTypes
    /\ LoadingInv /\ LoadingTypes
    /\ UndoInv
    /\ AdminInv /\ AdminTypes

\* A step of one part is a step of each, that of a resting part a stutter.
LEMMA EachPartMoves ==
    ASSUME [BrowserNext]_<<part, engineVars, loadingVars, undoVars, adminVars>>
    PROVE  /\ [EngineNext]_engineVars /\ [LoadingNext]_loadingVars
           /\ [UndoNext]_undoVars /\ [AdminNext]_adminVars
BY DEF BrowserNext

LEMMA BrowserTypes == BrowserInv => BrowserTypeOK
<1> SUFFICES ASSUME BrowserInv PROVE BrowserTypeOK
  OBVIOUS
<1>1. EngineTypeOK /\ LoadingTypeOK /\ AdminTypeOK
  BY EngineTyped, LoadingTyped, AdminTyped DEF BrowserInv
<1>2. UndoTypeOK
  BY DEF BrowserInv, UndoInv
<1> QED BY <1>1, <1>2 DEF BrowserTypeOK

\* Events run in their order, failures leave only their own traces, pages that were built
\* alone are left in order and saved with their own data, all with the right types,
\* whichever part moves.
THEOREM BrowserSound ==
    BrowserSpec => [](BrowserTypeOK /\ FirstRunsInOrder /\ DamageHasCause /\ PageInView /\ SavesOwn)
<1>1. BrowserInit => BrowserInv
  BY EngineStarts, EngineTypesStart, LoadingStarts, LoadingTypesStart, InitEstablishes,
     AdminStarts, AdminTypesStart DEF BrowserInit, BrowserInv
<1>2. BrowserInv /\ [BrowserNext]_<<part, engineVars, loadingVars, undoVars, adminVars>>
        => BrowserInv'
  <2> SUFFICES ASSUME BrowserInv,
                      [BrowserNext]_<<part, engineVars, loadingVars, undoVars, adminVars>>
               PROVE  BrowserInv'
    OBVIOUS
  <2>1. EngineInv' /\ EngineTypes'
    BY EachPartMoves, EngineStep, EngineTypesStep DEF BrowserInv
  <2>2. LoadingInv' /\ LoadingTypes'
    BY EachPartMoves, LoadingStep, LoadingTypesStep DEF BrowserInv
  <2>3. UndoInv'
    BY EachPartMoves, StepKeeps DEF BrowserInv
  <2>4. AdminInv' /\ AdminTypes'
    BY EachPartMoves, AdminStep, AdminTypesStep DEF BrowserInv
  <2> QED BY <2>1, <2>2, <2>3, <2>4 DEF BrowserInv
<1>3. BrowserInv => BrowserTypeOK /\ FirstRunsInOrder /\ DamageHasCause /\ PageInView /\ SavesOwn
  BY BrowserTypes, RunInOrder, CausesKnown, InViewIsAsked, OwnSaved DEF BrowserInv
<1> QED BY <1>1, <1>2, <1>3, PTL DEF BrowserSpec

=============================================================================
