-------------------------- MODULE PkSequenceLemmas --------------------------
(***************************************************************************)
(* Least elements and induction over sets of numbers, and facts about      *)
(* sequences and the parts of them that Those selects.                     *)
(***************************************************************************)
EXTENDS PkSequences, SequencesExt, FiniteSetTheorems, SequenceTheorems,
        WellFoundedInduction, TLAPS

\* Sets of natural numbers have least elements, and so there is induction over sets.
Smaller == {p \in Nat \X Nat : p[1] < p[2]}

LEMMA LeastMember ==
    ASSUME NEW S \in SUBSET Nat, S # {}
    PROVE  \E n \in S : \A m \in S : n <= m
<1>1. IsWellFoundedOn(Smaller, Nat)
  BY NatLessThanWellFounded DEF OpToRel, Smaller
<1>2. PICK n \in S : \A m \in S : <<m, n>> \notin Smaller
  BY <1>1, WFMin
<1>3. ASSUME NEW m \in S
      PROVE  n <= m
  <2>1. <<m, n>> \in Nat \X Nat /\ <<m, n>> \notin Smaller
    BY <1>2
  <2>2. ~(m < n)
    BY <2>1 DEF Smaller
  <2> QED BY <2>2
<1> QED BY <1>3

LEMMA Induction ==
    ASSUME NEW S, 0 \in S, \A n \in Nat : n \in S => n + 1 \in S
    PROVE  Nat \subseteq S
<1> SUFFICES ASSUME NEW k \in Nat \ S
             PROVE  FALSE
  OBVIOUS
<1>1. PICK n \in Nat \ S : \A m \in Nat \ S : n <= m
  BY LeastMember
<1>2. n - 1 \in Nat /\ n - 1 \in S
  BY <1>1
<1> QED BY <1>1, <1>2

\* g[i] is what Those has found among the first i members of s, up to n.
Finds(g, s, S, n) ==
    g = [i \in 0 .. n |-> IF i = 0 THEN <<>>
                          ELSE IF s[i] \in S THEN Append(g[i - 1], s[i]) ELSE g[i - 1]]

\* Its entry for i, from the one before.
FindsStep(g, s, S, i) ==
    g[i] = IF i = 0 THEN <<>> ELSE IF s[i] \in S THEN Append(g[i - 1], s[i]) ELSE g[i - 1]

LEMMA FindsAt ==
    ASSUME NEW s, NEW S, NEW n \in Nat, NEW g, Finds(g, s, S, n), NEW i \in 0 .. n
    PROVE  FindsStep(g, s, S, i)
<1>1. PICK f : f = [m \in 0 .. n |-> IF m = 0 THEN <<>>
                         ELSE IF s[m] \in S THEN Append(g[m - 1], s[m]) ELSE g[m - 1]]
  OBVIOUS
<1>2. g = f
  BY <1>1 DEF Finds
<1>3. f[i] = IF i = 0 THEN <<>> ELSE IF s[i] \in S THEN Append(g[i - 1], s[i]) ELSE g[i - 1]
  BY <1>1
<1> QED BY <1>2, <1>3 DEF FindsStep

LEMMA FindsStart ==
    ASSUME NEW s, NEW S, NEW n \in Nat, NEW g, Finds(g, s, S, n)
    PROVE  g[0] = <<>>
<1>1. FindsStep(g, s, S, 0)
  BY FindsAt
<1> QED BY <1>1 DEF FindsStep

LEMMA FindsNext ==
    ASSUME NEW s, NEW S, NEW n \in Nat, NEW g, Finds(g, s, S, n), NEW i \in Nat, i < n
    PROVE  g[i + 1] = IF s[i + 1] \in S THEN Append(g[i], s[i + 1]) ELSE g[i]
<1>1. FindsStep(g, s, S, i + 1)
  BY FindsAt
<1>2. i + 1 # 0 /\ (i + 1) - 1 = i
  OBVIOUS
<1> QED BY <1>1, <1>2 DEF FindsStep

LEMMA FindsExists ==
    ASSUME NEW s, NEW S, NEW k \in Nat
    PROVE  \E g : Finds(g, s, S, k)
<1> DEFINE P == {n \in Nat : \E g : Finds(g, s, S, n)}
<1>1. 0 \in P
  <2> DEFINE g == [i \in 0 .. 0 |-> <<>>]
  <2>1. Finds(g, s, S, 0)
    BY DEF Finds
  <2> QED BY <2>1
<1>2. ASSUME NEW n \in Nat, n \in P
      PROVE  n + 1 \in P
  <2>1. PICK g : Finds(g, s, S, n)
    BY <1>2
  <2> DEFINE h == [i \in 0 .. n + 1 |->
                     IF i <= n THEN g[i]
                     ELSE IF s[n + 1] \in S THEN Append(g[n], s[n + 1]) ELSE g[n]]
  <2>2. ASSUME NEW i \in 0 .. n + 1
        PROVE  h[i] = IF i = 0 THEN <<>>
                      ELSE IF s[i] \in S THEN Append(h[i - 1], s[i]) ELSE h[i - 1]
    <3>1. CASE i = 0
      <4>1. h[0] = g[0]
        OBVIOUS
      <4>2. g[0] = <<>>
        BY <2>1, FindsStart
      <4> QED BY <3>1, <4>1, <4>2
    <3>2. CASE i \in 1 .. n
      <4>1. i - 1 \in 0 .. n /\ h[i - 1] = g[i - 1] /\ h[i] = g[i]
        BY <3>2
      <4>2. g[i] = IF s[i] \in S THEN Append(g[i - 1], s[i]) ELSE g[i - 1]
        <5>1. i \in 0 .. n /\ i # 0
          BY <3>2
        <5>2. FindsStep(g, s, S, i)
          BY <2>1, <5>1, FindsAt
        <5> QED BY <5>1, <5>2 DEF FindsStep
      <4> QED BY <3>2, <4>1, <4>2
    <3>3. CASE i = n + 1
      <4>1. i - 1 = n /\ h[n] = g[n]
        BY <3>3
      <4> QED BY <3>3, <4>1
    <3> QED BY <3>1, <3>2, <3>3
  <2>3. Finds(h, s, S, n + 1)
    BY <2>2 DEF Finds
  <2> QED BY <2>3
<1>3. Nat \subseteq P
  <2> HIDE DEF P
  <2> QED BY <1>1, <1>2, Induction
<1> QED BY <1>3

LEMMA ThoseFound ==
    ASSUME NEW X, NEW s \in Seq(X), NEW S
    PROVE  \E g : Finds(g, s, S, Len(s)) /\ Those(s, S) = g[Len(s)]
<1> DEFINE P(g) == Finds(g, s, S, Len(s))
           f == CHOOSE g : P(g)
<1>1. Those(s, S) = f[Len(s)]
  BY DEF Those, Finds
<1>2. P(f)
  <2>1. Len(s) \in Nat
    OBVIOUS
  <2>2. \E g : P(g)
    BY <2>1, FindsExists
  <2> HIDE DEF P
  <2> QED BY <2>2, Zenon
<1> QED BY <1>1, <1>2

LEMMA SubSeqNext ==
    ASSUME NEW X, NEW s \in Seq(X), NEW n \in Nat, NEW i \in n .. Len(s) - 1
    PROVE  SubSeq(s, n + 1, i + 1) = Append(SubSeq(s, n + 1, i), s[i + 1])
<1>1. n + 1 \in 1 .. Len(s) /\ i + 1 \in n + 1 .. Len(s) /\ (i + 1) - 1 = i
  OBVIOUS
<1>2. SubSeq(s, n + 1, i + 1) = SubSeq(s, n + 1, (i + 1) - 1) \o <<s[i + 1]>>
  BY <1>1, SubSeqRecursiveSecond
<1>3. SubSeq(s, n + 1, i) \in Seq(X)
  <2>1. \A k \in n + 1 .. i : s[k] \in X
    BY <1>1
  <2>2. n + 1 \in Int /\ i \in Int
    BY <1>1
  <2> QED BY <2>1, <2>2, SubSeqProperties
<1>4. s[i + 1] \in X
  BY <1>1, ElementOfSeq
<1> QED BY <1>1, <1>2, <1>3, <1>4, AppendIsConcat

\* What Those finds when the members outside S come first.
LEMMA ThoseRest ==
    ASSUME NEW X, NEW s \in Seq(X), NEW S, NEW n \in 0 .. Len(s),
           \A i \in 1 .. n : s[i] \notin S,
           \A i \in n + 1 .. Len(s) : s[i] \in S
    PROVE  Those(s, S) = SubSeq(s, n + 1, Len(s))
<1>1. PICK g : Finds(g, s, S, Len(s)) /\ Those(s, S) = g[Len(s)]
  BY ThoseFound
<1> DEFINE P == {i \in Nat : i <= Len(s) => g[i] = SubSeq(s, n + 1, i)}
<1>2. Len(s) \in Nat /\ n \in Nat
  OBVIOUS
<1>3. 0 \in P
  <2>1. g[0] = <<>>
    BY <1>1, <1>2, FindsStart
  <2>2. SubSeq(s, n + 1, 0) = <<>>
    BY <1>2, SubSeqEmpty
  <2> QED BY <2>1, <2>2
<1>4. ASSUME NEW i \in Nat, i \in P
      PROVE  i + 1 \in P
  <2> SUFFICES ASSUME i + 1 <= Len(s)
               PROVE  g[i + 1] = SubSeq(s, n + 1, i + 1)
    OBVIOUS
  <2>1. g[i + 1] = IF s[i + 1] \in S THEN Append(g[i], s[i + 1]) ELSE g[i]
    BY <1>1, <1>2, FindsNext
  <2>2. g[i] = SubSeq(s, n + 1, i)
    BY <1>4
  <2> HIDE DEF P
  <2>3. CASE i + 1 <= n
    <3>1. s[i + 1] \notin S
      BY <2>3
    <3>2. SubSeq(s, n + 1, i) = <<>> /\ SubSeq(s, n + 1, i + 1) = <<>>
      BY <1>2, <2>3, SubSeqEmpty
    <3> QED BY <2>1, <2>2, <3>1, <3>2
  <2>4. CASE n <= i
    <3>1. s[i + 1] \in S
      BY <2>4
    <3>2. i \in n .. Len(s) - 1
      BY <2>4
    <3> QED BY <1>2, <2>1, <2>2, <3>1, <3>2, SubSeqNext
  <2> QED BY <1>2, <2>3, <2>4
<1>5. Nat \subseteq P
  <2> HIDE DEF P
  <2> QED BY <1>3, <1>4, Induction
<1> QED BY <1>1, <1>2, <1>5

\* What Those finds is in s and in S, and nothing twice if s has nothing twice.
LEMMA ThoseAmong ==
    ASSUME NEW X, NEW s \in Seq(X), NEW S,
           \A i, j \in 1 .. Len(s) : s[i] = s[j] => i = j
    PROVE  /\ Those(s, S) \in Seq(X)
           /\ \A m \in 1 .. Len(Those(s, S)) :
                Those(s, S)[m] \in S /\ \E i \in 1 .. Len(s) : Those(s, S)[m] = s[i]
           /\ \A l, m \in 1 .. Len(Those(s, S)) : Those(s, S)[l] = Those(s, S)[m] => l = m
<1>1. PICK g : Finds(g, s, S, Len(s)) /\ Those(s, S) = g[Len(s)]
  BY ThoseFound
<1> DEFINE Among(t, k) ==
             /\ t \in Seq(X)
             /\ \A m \in 1 .. Len(t) : t[m] \in S /\ \E i \in 1 .. k : t[m] = s[i]
             /\ \A l, m \in 1 .. Len(t) : t[l] = t[m] => l = m
           P == {k \in Nat : k <= Len(s) => Among(g[k], k)}
<1>2. 0 \in P
  <2>1. g[0] = <<>>
    BY <1>1, FindsStart
  <2>2. Among(<<>>, 0)
    BY EmptySeq
  <2> HIDE DEF Among
  <2> QED BY <2>1, <2>2
<1>3. ASSUME NEW k \in Nat, k \in P
      PROVE  k + 1 \in P
  <2> SUFFICES ASSUME k + 1 <= Len(s)
               PROVE  Among(g[k + 1], k + 1)
    OBVIOUS
  <2>1. g[k + 1] = IF s[k + 1] \in S THEN Append(g[k], s[k + 1]) ELSE g[k]
    BY <1>1, FindsNext
  <2>2. PICK t : t = g[k]
    OBVIOUS
  <2>3. Among(t, k)
    BY <1>3, <2>2
  <2>4. CASE s[k + 1] \notin S
    BY <2>1, <2>2, <2>3, <2>4
  <2>5. CASE s[k + 1] \in S
    <3> DEFINE u == Append(t, s[k + 1])
    <3>1. u \in Seq(X) /\ Len(u) = Len(t) + 1 /\ u[Len(t) + 1] = s[k + 1]
          /\ \A m \in 1 .. Len(t) : u[m] = t[m]
      BY <2>3
    <3>2. ASSUME NEW m \in 1 .. Len(t), t[m] = s[k + 1]
          PROVE  FALSE
      <4>1. PICK i \in 1 .. k : t[m] = s[i]
        BY <2>3
      <4>2. i \in 1 .. Len(s) /\ k + 1 \in 1 .. Len(s) /\ i # k + 1
        OBVIOUS
      <4>3. s[i] = s[k + 1]
        BY <3>2, <4>1
      <4> QED BY <4>2, <4>3
    <3> HIDE DEF u
    <3>3. ASSUME NEW m \in 1 .. Len(u)
          PROVE  u[m] \in S /\ \E i \in 1 .. k + 1 : u[m] = s[i]
      <4>1. CASE m = Len(t) + 1
        BY <2>5, <3>1, <4>1
      <4>2. CASE m \in 1 .. Len(t)
        <5>1. u[m] = t[m] /\ t[m] \in S
          BY <2>3, <3>1, <4>2
        <5>2. PICK i \in 1 .. k : t[m] = s[i]
          BY <2>3, <4>2
        <5> QED BY <5>1, <5>2
      <4>3. Len(t) \in Nat
        BY <2>3
      <4> QED BY <3>1, <4>1, <4>2, <4>3
    <3>4. ASSUME NEW l \in 1 .. Len(u), NEW m \in 1 .. Len(u), u[l] = u[m]
          PROVE  l = m
      <4>1. t \in Seq(X) /\ \A i, j \in 1 .. Len(t) : t[i] = t[j] => i = j
        BY <2>3
      <4>2. (l \in 1 .. Len(t) \/ l = Len(t) + 1) /\ (m \in 1 .. Len(t) \/ m = Len(t) + 1)
        BY <3>1, <4>1
      <4>3. CASE l \in 1 .. Len(t) /\ m \in 1 .. Len(t)
        <5>1. t[l] = t[m]
          BY <3>1, <3>4, <4>3
        <5> QED BY <4>1, <4>3, <5>1
      <4>4. CASE l \in 1 .. Len(t) /\ m = Len(t) + 1
        <5>1. t[l] = s[k + 1]
          BY <3>1, <3>4, <4>4
        <5> QED BY <3>2, <4>4, <5>1
      <4>5. CASE l = Len(t) + 1 /\ m \in 1 .. Len(t)
        <5>1. t[m] = s[k + 1]
          BY <3>1, <3>4, <4>5
        <5> QED BY <3>2, <4>5, <5>1
      <4>6. CASE l = Len(t) + 1 /\ m = Len(t) + 1
        BY <4>6
      <4> QED BY <4>2, <4>3, <4>4, <4>5, <4>6
    <3>5. Among(u, k + 1)
      <4>1. \A m \in 1 .. Len(u) : u[m] \in S /\ \E i \in 1 .. k + 1 : u[m] = s[i]
        BY <3>3
      <4>2. \A l, m \in 1 .. Len(u) : u[l] = u[m] => l = m
        BY <3>4
      <4> QED BY <3>1, <4>1, <4>2
    <3>6. g[k + 1] = u
      BY <2>1, <2>2, <2>5 DEF u
    <3> HIDE DEF Among
    <3> QED BY <3>5, <3>6
  <2> QED BY <2>4, <2>5
<1>4. Nat \subseteq P
  <2> HIDE DEF P
  <2> QED BY <1>2, <1>3, Induction
<1> QED BY <1>1, <1>4

\* The part of a sequence between two places.
LEMMA Rest ==
    ASSUME NEW X, NEW q \in Seq(X), NEW n \in 0 .. Len(q), NEW m \in n .. Len(q)
    PROVE  /\ SubSeq(q, n + 1, m) \in Seq(X)
           /\ Len(SubSeq(q, n + 1, m)) = m - n
           /\ \A i \in 1 .. m - n : SubSeq(q, n + 1, m)[i] = q[n + i]
<1>1. \A i \in n + 1 .. m : q[i] \in X
  OBVIOUS
<1>2. n + 1 \in Int /\ m \in Int
  OBVIOUS
<1>3. /\ SubSeq(q, n + 1, m) \in Seq(X)
      /\ Len(SubSeq(q, n + 1, m)) = IF n + 1 <= m THEN m - (n + 1) + 1 ELSE 0
      /\ \A i \in 1 .. m - (n + 1) + 1 : SubSeq(q, n + 1, m)[i] = q[n + 1 + i - 1]
  BY <1>1, <1>2, SubSeqProperties
<1> QED BY <1>2, <1>3

\* The rest of a queue, split at m, or continued by what is pushed.
LEMMA RestSplit ==
    ASSUME NEW X, NEW q \in Seq(X), NEW n \in 0 .. Len(q), NEW m \in n .. Len(q)
    PROVE  SubSeq(q, n + 1, Len(q)) = SubSeq(q, n + 1, m) \o SubSeq(q, m + 1, Len(q))
<1> DEFINE a == SubSeq(q, n + 1, m)
           b == SubSeq(q, m + 1, Len(q))
           c == SubSeq(q, n + 1, Len(q))
<1>1. /\ a \in Seq(X) /\ Len(a) = m - n /\ \A i \in 1 .. m - n : a[i] = q[n + i]
      /\ b \in Seq(X) /\ Len(b) = Len(q) - m /\ \A i \in 1 .. Len(q) - m : b[i] = q[m + i]
      /\ c \in Seq(X) /\ Len(c) = Len(q) - n /\ \A i \in 1 .. Len(q) - n : c[i] = q[n + i]
  BY Rest
<1> HIDE DEF a, b, c
<1>2. /\ a \o b \in Seq(X) /\ Len(a \o b) = Len(a) + Len(b)
      /\ \A i \in 1 .. Len(a) + Len(b) : (a \o b)[i] = IF i <= Len(a) THEN a[i] ELSE b[i - Len(a)]
  BY <1>1, ConcatProperties
<1>3. ASSUME NEW i \in 1 .. Len(c) PROVE c[i] = (a \o b)[i]
  <2>1. CASE i <= m - n
    BY <1>1, <1>2, <2>1
  <2>2. CASE ~(i <= m - n)
    <3>1. i - (m - n) \in 1 .. Len(q) - m /\ m + (i - (m - n)) = n + i
      BY <1>1, <2>2
    <3>2. c[i] = q[n + i] /\ b[i - (m - n)] = q[n + i]
      BY <1>1, <3>1
    <3>3. (a \o b)[i] = b[i - (m - n)]
      <4>1. i \in 1 .. Len(a) + Len(b) /\ ~(i <= Len(a))
        BY <1>1, <2>2
      <4>2. (a \o b)[i] = b[i - Len(a)]
        BY <1>2, <4>1
      <4> QED BY <1>1, <4>2
    <3> QED BY <3>2, <3>3
  <2> QED BY <2>1, <2>2
<1>4. Len(c) = Len(a \o b)
  BY <1>1, <1>2
<1>5. c = a \o b
  <2>1. c \in Seq(X) /\ a \o b \in Seq(X)
    BY <1>1, <1>2
  <2> QED BY <1>3, <1>4, <2>1, SeqEqual
<1> QED BY <1>5 DEF a, b, c

LEMMA RestPushed ==
    ASSUME NEW X, NEW q \in Seq(X), NEW p \in Seq(X), NEW n \in 0 .. Len(q)
    PROVE  SubSeq(q \o p, n + 1, Len(q \o p)) = SubSeq(q, n + 1, Len(q)) \o p
<1> DEFINE a == SubSeq(q, n + 1, Len(q))
           u == q \o p
           b == SubSeq(u, n + 1, Len(u))
<1>1. /\ u \in Seq(X) /\ Len(u) = Len(q) + Len(p)
      /\ \A i \in 1 .. Len(q) + Len(p) : u[i] = IF i <= Len(q) THEN q[i] ELSE p[i - Len(q)]
  BY ConcatProperties
<1>2. a \in Seq(X) /\ Len(a) = Len(q) - n /\ \A i \in 1 .. Len(q) - n : a[i] = q[n + i]
  BY Rest
<1> HIDE DEF u, a
<1>3. b \in Seq(X) /\ Len(b) = Len(u) - n /\ \A i \in 1 .. Len(u) - n : b[i] = u[n + i]
  BY <1>1, Rest
<1> HIDE DEF b
<1>4. /\ a \o p \in Seq(X) /\ Len(a \o p) = Len(a) + Len(p)
      /\ \A i \in 1 .. Len(a) + Len(p) : (a \o p)[i] = IF i <= Len(a) THEN a[i] ELSE p[i - Len(a)]
  BY <1>2, ConcatProperties
<1>5. ASSUME NEW i \in 1 .. Len(b) PROVE b[i] = (a \o p)[i]
  <2>1. b[i] = IF n + i <= Len(q) THEN q[n + i] ELSE p[n + i - Len(q)]
    BY <1>1, <1>3
  <2>2. CASE n + i <= Len(q)
    BY <1>1, <1>2, <1>3, <1>4, <2>1, <2>2
  <2>3. CASE ~(n + i <= Len(q))
    <3>1. n + i - Len(q) = i - Len(a)
      BY <1>2
    <3> QED BY <1>1, <1>2, <1>3, <1>4, <2>1, <2>3, <3>1
  <2> QED BY <2>2, <2>3
<1>6. Len(b) = Len(a \o p)
  BY <1>1, <1>2, <1>3, <1>4
<1>7. b = a \o p
  <2>1. b \in Seq(X) /\ a \o p \in Seq(X)
    BY <1>3, <1>4
  <2> QED BY <1>5, <1>6, <2>1, SeqEqual
<1> QED BY <1>7 DEF a, b, u


\* Joining three sequences, and four, in either order.
ThreeJoin(a, b, c) == (a \o b) \o c = a \o (b \o c)
FourJoin(a, b, c, d) == (a \o (b \o c)) \o d = (a \o b) \o (c \o d)

LEMMA ThreeParts ==
    ASSUME NEW X, NEW a \in Seq(X), NEW b \in Seq(X), NEW c \in Seq(X)
    PROVE  ThreeJoin(a, b, c)
<1>1. (a \o b) \o c = a \o (b \o c)
  OBVIOUS
<1> QED BY <1>1, Zenon DEF ThreeJoin

LEMMA FourParts ==
    ASSUME NEW X, NEW a \in Seq(X), NEW b \in Seq(X), NEW c \in Seq(X), NEW d \in Seq(X)
    PROVE  FourJoin(a, b, c, d)
<1>0. PICK u \in Seq(X) : u = a \o b
  BY ConcatProperties
<1>1. ThreeJoin(a, b, c) /\ ThreeJoin(u, c, d)
  BY ThreeParts
<1>2. (u \o c) \o d = u \o (c \o d)
  BY <1>1, Zenon DEF ThreeJoin
<1>3. (a \o b) \o c = a \o (b \o c)
  BY <1>1, Zenon DEF ThreeJoin
<1> QED BY <1>0, <1>2, <1>3, Zenon DEF FourJoin

LEMMA HeadIs ==
    ASSUME NEW X, NEW s \in Seq(X), NEW n \in 0 .. Len(s)
    PROVE  /\ SubSeq(s, 1, n) \in Seq(X) /\ Len(SubSeq(s, 1, n)) = n
           /\ \A i \in 1 .. n : SubSeq(s, 1, n)[i] = s[i]
OBVIOUS

LEMMA SameHead ==
    ASSUME NEW X, NEW s \in Seq(X), NEW t \in Seq(X), NEW n \in 0 .. Len(s), n \in 0 .. Len(t),
           \A i \in 1 .. n : s[i] = t[i]
    PROVE  SubSeq(s, 1, n) = SubSeq(t, 1, n)
<1>1. /\ SubSeq(s, 1, n) \in Seq(X) /\ Len(SubSeq(s, 1, n)) = n
      /\ \A i \in 1 .. n : SubSeq(s, 1, n)[i] = s[i]
  BY HeadIs
<1>2. /\ SubSeq(t, 1, n) \in Seq(X) /\ Len(SubSeq(t, 1, n)) = n
      /\ \A i \in 1 .. n : SubSeq(t, 1, n)[i] = t[i]
  BY HeadIs
<1> QED BY <1>1, <1>2, SeqEqual

LEMMA ReverseIs ==
    ASSUME NEW X, NEW s \in Seq(X)
    PROVE  /\ Reverse(s) \in Seq(X) /\ Len(Reverse(s)) = Len(s)
           /\ \A i \in 1 .. Len(s) : Reverse(s)[i] = s[Len(s) - i + 1]
BY DEF Reverse

\* The end of a sequence is a suffix of it.
LEMMA EndIsSuffix ==
    ASSUME NEW X, NEW s \in Seq(X), NEW n \in 0 .. Len(s)
    PROVE  IsSuffix(SubSeq(s, n + 1, Len(s)), s)
<1>1. PICK e : e = SubSeq(s, n + 1, Len(s))
  OBVIOUS
<1>2. PICK m : m = Len(s) - n
  OBVIOUS
<1>3. /\ e \in Seq(X) /\ Len(e) = m /\ m \in Nat /\ m <= Len(s)
      /\ \A i \in 1 .. m : e[i] = s[n + i]
  BY <1>1, <1>2
<1>4. e \in Seq(X)
  BY <1>3
<1>5. PICK u \in Seq(X) :
        /\ u = Reverse(e) /\ Len(u) = Len(e)
        /\ \A i \in 1 .. Len(e) : u[i] = e[Len(e) - i + 1]
  BY <1>4, ReverseIs
<1>6. PICK v \in Seq(X) :
        /\ v = Reverse(s) /\ Len(v) = Len(s)
        /\ \A i \in 1 .. Len(s) : v[i] = s[Len(s) - i + 1]
  BY ReverseIs
<1>7. \A i \in 1 .. m : u[i] = v[i]
  <2> SUFFICES ASSUME NEW i \in 1 .. m PROVE u[i] = v[i]
    OBVIOUS
  <2>1. m - i + 1 \in 1 .. m /\ i \in 1 .. Len(s) /\ n + (m - i + 1) = Len(s) - i + 1
    BY <1>2, <1>3
  <2>2. u[i] = e[m - i + 1] /\ v[i] = s[Len(s) - i + 1]
    BY <1>3, <1>5, <1>6, <2>1
  <2>3. e[m - i + 1] = s[n + (m - i + 1)]
    BY <1>3, <2>1
  <2> QED BY <2>1, <2>2, <2>3
<1>8. SubSeq(u, 1, m) = SubSeq(v, 1, m)
  <2>1. m \in 0 .. Len(u) /\ m \in 0 .. Len(v)
    BY <1>3, <1>5, <1>6
  <2> QED BY <1>7, <2>1, SameHead
<1> QED BY <1>1, <1>3, <1>5, <1>6, <1>8 DEF IsSuffix, IsPrefix
=============================================================================
