-------------------------- MODULE QlessPartsProofs --------------------------
(***************************************************************************)
(* Pop takes the highest priority first, and of one priority the earliest, *)
(* for any jobs, priorities, delays and counts; the workers script answers *)
(* right, for any workers, leases and ages; every job is found under its   *)
(* tags, and careful clients keep the index exact; recurring jobs come on  *)
(* schedule, overwrite nothing, and are no more than a pop asks for; and   *)
(* all of that, with the types, holds of the parts together.               *)
(***************************************************************************)
EXTENDS MCParts, PkBoardProofs

-----------------------------------------------------------------------------
(* Order and workers.                                                      *)

Shapes ==
    /\ priority \in [Jids -> Int \cup {NoJob}]
    /\ place \in [Jids -> Places]
    /\ \A j \in Jids : place[j] # "elsewhere" => priority[j] # NoJob
    /\ DOMAIN score = Jids

\* Scores in the queue can go stale only if their jobs' priorities do.
OrderInv == Shapes /\ ScoreCurrent

LEMMA EnterKeeps ==
    ASSUME OrderInv, NEW j \in Jids, NEW p \in Int, NEW d, NEW waits, Enter(j, p, d, waits),
           priority' = [priority EXCEPT ![j] = p]
    PROVE  OrderInv'
<1>1. Shapes'
  <2>1. priority' \in [Jids -> Int \cup {NoJob}]
    BY DEF OrderInv, Shapes
  <2>2. place' \in [Jids -> Places]
    BY DEF OrderInv, Shapes, Enter, Places
  <2>3. \A i \in Jids : place'[i] # "elsewhere" => priority'[i] # NoJob
    BY OrderAssumption DEF OrderAssumption, OrderInv, Shapes, Enter
  <2>4. DOMAIN score' = Jids
    BY DEF OrderInv, Shapes, Enter
  <2> QED BY <2>1, <2>2, <2>3, <2>4 DEF Shapes
<1>2. ScoreCurrent'
  <2>1. ASSUME NEW i \in Jids, place'[i] = "work", i # j
        PROVE  score'[i].level = priority'[i]
    BY <2>1 DEF OrderInv, Shapes, ScoreCurrent, In, Enter
  <2>2. ASSUME place'[j] = "work"
        PROVE  score'[j].level = priority'[j]
    <3>1. score' = [score EXCEPT ![j] = Stamped(p)]
      BY <2>2 DEF Enter, OrderInv, Shapes
    <3>2. score'[j].level = p
      BY <3>1 DEF OrderInv, Shapes, Stamped
    <3> QED BY <3>2 DEF OrderInv, Shapes
  <2> QED BY <2>1, <2>2 DEF ScoreCurrent, In
<1> QED BY <1>1, <1>2 DEF OrderInv

LEMMA FreeKeeps ==
    ASSUME OrderInv, NEW j \in Jids, Free(j)
    PROVE  OrderInv'
<1>1. Shapes'
  BY DEF OrderInv, Shapes, Free, Places
<1>2. \A i \in Jids : score'[i] = IF i = j THEN Bare(priority[j]) ELSE score[i]
  BY DEF OrderInv, Shapes, Free
<1>3. ScoreCurrent'
  BY <1>2 DEF OrderInv, Shapes, ScoreCurrent, In, Free, Bare
<1> QED BY <1>1, <1>3 DEF OrderInv

LEMMA SetPriorityKeeps ==
    ASSUME OrderInv, NEW j \in Jids, NEW p \in Int, SetPriority(j, p)
    PROVE  OrderInv'
<1>1. Shapes'
  BY OrderAssumption DEF OrderAssumption, OrderInv, Shapes, SetPriority
<1>2. \A i \in Jids : score'[i] = IF i = j /\ place[j] = "work" THEN Bare(p) ELSE score[i]
  BY DEF OrderInv, Shapes, SetPriority
<1>3. ScoreCurrent'
  BY <1>2 DEF OrderInv, Shapes, ScoreCurrent, In, SetPriority, Bare
<1> QED BY <1>1, <1>3 DEF OrderInv

LEMMA HandKeeps ==
    ASSUME OrderInv, NEW P \in SUBSET In("scheduled"), NEW T \in SUBSET (In("work") \cup P),
           Hand(P, T)
    PROVE  OrderInv'
<1>1. Shapes'
  BY DEF OrderInv, Shapes, Hand, Places, In
<1>2. \A i \in Jids : place'[i] = "work" =>
         score'[i] = IF i \in P THEN Bare(priority[i]) ELSE score[i]
  BY DEF Hand, Scores
<1>3. ScoreCurrent'
  <2>1. SUFFICES ASSUME NEW i \in Jids, place'[i] = "work"
                 PROVE  score'[i].level = priority'[i]
    BY DEF ScoreCurrent, In
  <2>2. priority' = priority
    BY DEF Hand
  <2>3. CASE i \in P
    <3>1. score'[i] = Bare(priority[i])
      BY <1>2, <2>1, <2>3
    <3>2. Bare(priority[i]).level = priority[i]
      BY DEF Bare
    <3> QED BY <2>2, <3>1, <3>2
  <2>4. CASE i \notin P
    <3>1. place[i] = "work"
      BY <2>1, <2>4 DEF Hand
    <3> QED BY <1>2, <2>1, <2>2, <2>4, <3>1 DEF OrderInv, ScoreCurrent, In
  <2> QED BY <2>3, <2>4
<1> QED BY <1>1, <1>3 DEF OrderInv

LEMMA LeaveKeeps ==
    ASSUME OrderInv, NEW j \in Jids, NEW deleted, Leave(j, deleted)
    PROVE  OrderInv'
<1>1. Shapes'
  BY DEF OrderInv, Shapes, Leave, Places
<1>2. \A i \in Jids : i # j => score'[i] = score[i] /\ priority'[i] = priority[i]
  BY DEF OrderInv, Shapes, Leave
<1>3. ScoreCurrent'
  BY <1>2 DEF OrderInv, Shapes, ScoreCurrent, In, Leave
<1> QED BY <1>1, <1>3 DEF OrderInv

LEMMA PopHands ==
    ASSUME NEW n, Pop(n)
    PROVE  \E P \in SUBSET In("scheduled") : \E T \in SUBSET (In("work") \cup P) :
             /\ Hand(P, T)
             /\ \A x \in T, y \in (In("work") \cup P) \ T : ~Ahead(Scores(P)[y], Scores(P)[x])
BY DEF Pop, Firsts, Promotable

LEMMA PeekHands ==
    ASSUME NEW n, Peek(n)
    PROVE  \E P \in SUBSET In("scheduled") : Hand(P, {})
BY DEF Peek, Firsts, Promotable

LEMMA OrderStep == OrderInv /\ [OrderNext]_orderVars => OrderInv'
<1> SUFFICES ASSUME OrderInv, [OrderNext]_orderVars
             PROVE  OrderInv'
  OBVIOUS
<1>1. ASSUME NEW j \in Jids, NEW p \in Priorities, NEW d, NEW waits, Put(j, p, d, waits)
      PROVE  OrderInv'
  BY <1>1, EnterKeeps, OrderAssumption DEF OrderAssumption, Put
<1>2. ASSUME NEW j \in Jids, NEW d, NEW waits, Return(j, d, waits)
      PROVE  OrderInv'
  <2>1. priority[j] \in Int /\ priority' = [priority EXCEPT ![j] = priority[j]]
    BY <1>2 DEF Return, OrderInv, Shapes
  <2> QED BY <1>2, <2>1, EnterKeeps DEF Return
<1>3. ASSUME NEW j \in Jids, NEW p \in Priorities, SetPriority(j, p)
      PROVE  OrderInv'
  BY <1>3, SetPriorityKeeps, OrderAssumption DEF OrderAssumption
<1>4. ASSUME NEW n, Pop(n) \/ Peek(n)
      PROVE  OrderInv'
  BY <1>4, PopHands, PeekHands, HandKeeps
<1>5. CASE Tick
  BY <1>5 DEF Tick, OrderInv, Shapes, ScoreCurrent, In
<1>6. CASE UNCHANGED orderVars
  BY <1>6 DEF orderVars, OrderInv, Shapes, ScoreCurrent, In
<1> QED BY <1>1, <1>2, <1>3, <1>4, <1>5, <1>6, FreeKeeps, LeaveKeeps DEF OrderNext

\* Every job waits in the queue with the priority its hash has.
THEOREM ScoresCurrent == OrderSpec => []ScoreCurrent
<1>1. OrderInit => OrderInv
  BY DEF OrderInit, OrderInv, Shapes, ScoreCurrent, In, Places
<1>2. OrderInv => ScoreCurrent
  BY DEF OrderInv
<1> QED BY <1>1, <1>2, OrderStep, PTL DEF OrderSpec

LEMMA OnlyPopsOvertake ==
    ASSUME OrderInv, OrderNext, NEW j \in Jids, NEW k \in Jids, Overtakes(j, k)
    PROVE  \E n \in Wanted : Pop(n)
<1> SUFFICES ASSUME ~(\E n \in Wanted : Pop(n))
             PROVE  ~Overtakes(j, k)
  OBVIOUS
<1>1. ASSUME NEW n, Peek(n)
      PROVE  ~Overtakes(j, k)
  <2>1. PICK P : Hand(P, {})
    BY <1>1, PeekHands
  <2> QED BY <2>1 DEF Hand, Overtakes, Taken
<1>2. ASSUME NEW i, NEW p, NEW d, NEW waits, Enter(i, p, d, waits)
      PROVE  ~Overtakes(j, k)
  BY <1>2 DEF Enter, Overtakes, Taken, OrderInv, Shapes
<1>3. ASSUME NEW i, NEW b, Free(i) \/ Leave(i, b) \/ SetPriority(i, b) \/ Tick
      PROVE  ~Overtakes(j, k)
  BY <1>3 DEF Free, Leave, SetPriority, Tick, Overtakes, Taken, OrderInv, Shapes
<1> QED BY <1>1, <1>2, <1>3 DEF OrderNext, Put, Return

\* What a job waits with tells when it came: with the time it was put, or with none.
Dated(j) ==
    /\ score[j] \in Score
    /\ came[j] = "put" => score[j].at = inserted[j] /\ inserted[j] > 0
    /\ came[j] # "put" => score[j].at = 0

DatesInv ==
    /\ now \in 1 .. MaxNow
    /\ priority \in [Jids -> Priorities \cup {NoJob}]
    /\ inserted \in [Jids -> 0 .. MaxNow]
    /\ DOMAIN came = Jids
    /\ \A j \in Jids : place[j] = "work" => Dated(j)

LEMMA ScoresAre ==
    ASSUME now \in 1 .. MaxNow, NEW p \in Priorities
    PROVE  /\ Stamped(p) \in Score /\ Stamped(p).at = now
           /\ Bare(p) \in Score /\ Bare(p).at = 0
BY OrderAssumption DEF OrderAssumption, Stamped, Bare, Score

LEMMA EnterDates ==
    ASSUME OrderInv, DatesInv, NEW j \in Jids, NEW p \in Priorities, NEW d, NEW waits,
           Enter(j, p, d, waits), now' = now, priority' = [priority EXCEPT ![j] = p]
    PROVE  DatesInv'
<1>1. ASSUME NEW i \in Jids, place'[i] = "work", i # j
      PROVE  Dated(i)'
  <2>1. /\ place[i] = "work" /\ score'[i] = score[i] /\ inserted'[i] = inserted[i]
        /\ came'[i] = came[i]
    BY <1>1 DEF Enter, OrderInv, Shapes, DatesInv
  <2> QED BY <2>1 DEF DatesInv, Dated
<1>2. ASSUME place'[j] = "work"
      PROVE  Dated(j)'
  <2>1. score'[j] = Stamped(p) /\ inserted'[j] = now /\ came'[j] = "put"
    BY <1>2 DEF Enter, OrderInv, Shapes, DatesInv
  <2>2. Stamped(p) \in Score /\ Stamped(p).at = now
    BY ScoresAre DEF DatesInv
  <2> QED BY <2>1, <2>2 DEF Dated, DatesInv
<1>3. /\ now' \in 1 .. MaxNow
      /\ priority' \in [Jids -> Priorities \cup {NoJob}]
      /\ inserted' \in [Jids -> 0 .. MaxNow]
      /\ DOMAIN came' = Jids
  BY DEF Enter, DatesInv
<1> QED BY <1>1, <1>2, <1>3 DEF DatesInv

\* A job that gets a bare score is not one that was put.
LEMMA BareDates ==
    ASSUME OrderInv, DatesInv, now' = now, inserted' = inserted,
           priority' \in [Jids -> Priorities \cup {NoJob}], DOMAIN came' = Jids,
           \A i \in Jids : place'[i] = "work" =>
             \/ \E p \in Priorities : score'[i] = Bare(p) /\ came'[i] # "put"
             \/ score'[i] = score[i] /\ came'[i] = came[i] /\ place[i] = "work"
    PROVE  DatesInv'
<1>1. ASSUME NEW i \in Jids, place'[i] = "work"
      PROVE  Dated(i)'
  <2>1. CASE \E p \in Priorities : score'[i] = Bare(p) /\ came'[i] # "put"
    <3>1. now \in 1 .. MaxNow
      BY DEF DatesInv
    <3> QED BY <2>1, <3>1, ScoresAre DEF Dated
  <2>2. CASE score'[i] = score[i] /\ came'[i] = came[i] /\ place[i] = "work"
    BY <2>2 DEF DatesInv, Dated
  <2> QED BY <1>1, <2>1, <2>2
<1> QED BY <1>1 DEF DatesInv

LEMMA FreeDates == ASSUME OrderInv, DatesInv, NEW j \in Jids, Free(j) PROVE DatesInv'
<1>1. priority[j] \in Priorities
  BY DEF Free, OrderInv, Shapes, DatesInv
<1>2. \A i \in Jids : place'[i] = "work" =>
        \/ \E p \in Priorities : score'[i] = Bare(p) /\ came'[i] # "put"
        \/ score'[i] = score[i] /\ came'[i] = came[i] /\ place[i] = "work"
  BY <1>1 DEF Free, OrderInv, Shapes, DatesInv
<1>3. /\ now' = now /\ inserted' = inserted /\ DOMAIN came' = Jids
      /\ priority' \in [Jids -> Priorities \cup {NoJob}]
  BY DEF Free, DatesInv
<1> QED BY <1>2, <1>3, BareDates

LEMMA SetPriorityDates ==
    ASSUME OrderInv, DatesInv, NEW j \in Jids, NEW p \in Priorities, SetPriority(j, p)
    PROVE  DatesInv'
<1>1. \A i \in Jids : place'[i] = "work" =>
        \/ \E o \in Priorities : score'[i] = Bare(o) /\ came'[i] # "put"
        \/ score'[i] = score[i] /\ came'[i] = came[i] /\ place[i] = "work"
  BY DEF SetPriority, OrderInv, Shapes, DatesInv
<1>2. /\ now' = now /\ inserted' = inserted /\ DOMAIN came' = Jids
      /\ priority' \in [Jids -> Priorities \cup {NoJob}]
  BY DEF SetPriority, DatesInv
<1> QED BY <1>1, <1>2, BareDates

LEMMA HandDates ==
    ASSUME OrderInv, DatesInv, NEW P \in SUBSET In("scheduled"),
           NEW T \in SUBSET (In("work") \cup P), Hand(P, T)
    PROVE  DatesInv'
<1>1. ASSUME NEW i \in Jids, place'[i] = "work"
      PROVE  Dated(i)'
  <2>1. i \notin T /\ inserted'[i] = inserted[i]
    BY <1>1 DEF Hand
  <2>2. CASE i \in P
    <3>1. priority[i] \in Priorities
      BY <2>2 DEF In, OrderInv, Shapes, DatesInv
    <3>2. score'[i] = Bare(priority[i]) /\ came'[i] = "freed"
      BY <2>1, <2>2 DEF Hand, Scores
    <3>3. Bare(priority[i]) \in Score /\ Bare(priority[i]).at = 0
      BY <3>1, ScoresAre DEF DatesInv
    <3> QED BY <3>2, <3>3 DEF Dated
  <2>3. CASE i \notin P
    <3>1. place[i] = "work" /\ score'[i] = score[i] /\ came'[i] = came[i]
      BY <1>1, <2>1, <2>3 DEF Hand, Scores
    <3> QED BY <2>1, <3>1 DEF DatesInv, Dated
  <2> QED BY <2>2, <2>3
<1>2. 0 \in 0 .. MaxNow
  BY OrderAssumption DEF OrderAssumption
<1>3. /\ now' \in 1 .. MaxNow /\ priority' \in [Jids -> Priorities \cup {NoJob}]
      /\ inserted' \in [Jids -> 0 .. MaxNow] /\ DOMAIN came' = Jids
  BY <1>2 DEF Hand, DatesInv
<1> QED BY <1>1, <1>3 DEF DatesInv

LEMMA LeaveDates ==
    ASSUME OrderInv, DatesInv, NEW j \in Jids, NEW deleted, Leave(j, deleted)
    PROVE  DatesInv'
<1>1. ASSUME NEW i \in Jids, place'[i] = "work"
      PROVE  Dated(i)'
  <2>1. /\ place[i] = "work" /\ score'[i] = score[i] /\ inserted'[i] = inserted[i]
        /\ came'[i] = came[i]
    BY <1>1 DEF Leave, OrderInv, Shapes, DatesInv
  <2> QED BY <2>1 DEF DatesInv, Dated
<1>2. 0 \in 0 .. MaxNow
  BY OrderAssumption DEF OrderAssumption
<1>3. /\ now' \in 1 .. MaxNow /\ priority' \in [Jids -> Priorities \cup {NoJob}]
      /\ inserted' \in [Jids -> 0 .. MaxNow] /\ DOMAIN came' = Jids
  BY <1>2 DEF Leave, DatesInv
<1> QED BY <1>1, <1>3 DEF DatesInv

LEMMA DatesStep == OrderInv /\ DatesInv /\ [OrderNext]_orderVars => DatesInv'
<1> SUFFICES ASSUME OrderInv, DatesInv, [OrderNext]_orderVars
             PROVE  DatesInv'
  OBVIOUS
<1>1. ASSUME NEW j \in Jids, NEW p \in Priorities, NEW d, NEW waits, Put(j, p, d, waits)
      PROVE  DatesInv'
  BY <1>1, EnterDates DEF Put
<1>2. ASSUME NEW j \in Jids, NEW d, NEW waits, Return(j, d, waits)
      PROVE  DatesInv'
  <2>1. priority[j] \in Priorities /\ priority' = [priority EXCEPT ![j] = priority[j]]
    BY <1>2 DEF Return, DatesInv
  <2> QED BY <1>2, <2>1, EnterDates DEF Return
<1>3. ASSUME NEW n, Pop(n) \/ Peek(n)
      PROVE  DatesInv'
  BY <1>3, PopHands, PeekHands, HandDates
<1>4. CASE Tick
  <2>1. now' \in 1 .. MaxNow
    BY <1>4, OrderAssumption DEF OrderAssumption, Tick, DatesInv
  <2> QED BY <1>4, <2>1 DEF Tick, DatesInv, Dated
<1>5. CASE UNCHANGED orderVars
  BY <1>5 DEF orderVars, DatesInv, Dated
<1> QED BY <1>1, <1>2, <1>3, <1>4, <1>5, FreeDates, SetPriorityDates, LeaveDates DEF OrderNext

LEMMA OrderStarts == OrderInit => OrderInv /\ DatesInv
BY OrderAssumption
   DEF OrderAssumption, OrderInit, OrderInv, Shapes, ScoreCurrent, In, Places, DatesInv

\* Priorities are those that clients use, and what waits has a score of one of them.
LEMMA DatesTyped == OrderInv /\ DatesInv => OrderTypeOK
BY DEF OrderInv, Shapes, DatesInv, Dated, OrderTypeOK

\* Schedules are in time.
DueInv == due \in [Jids -> Nat]

LEMMA DueStep == DatesInv /\ DueInv /\ [OrderNext]_orderVars => DueInv'
<1> SUFFICES ASSUME DatesInv, DueInv, [OrderNext]_orderVars
             PROVE  DueInv'
  OBVIOUS
<1>1. ASSUME NEW j \in Jids, NEW p, NEW d \in 0 .. 1, NEW waits, Enter(j, p, d, waits)
      PROVE  DueInv'
  <2>1. now + d \in Nat
    BY DEF DatesInv
  <2> QED BY <1>1, <2>1 DEF Enter, DueInv
<1>2. ASSUME NEW P, NEW T, Hand(P, T)
      PROVE  DueInv'
  BY <1>2 DEF Hand, DueInv
<1>3. ASSUME NEW n, Pop(n) \/ Peek(n)
      PROVE  DueInv'
  BY <1>2, <1>3, PopHands, PeekHands
<1>4. ASSUME NEW j \in Jids, NEW p \in Priorities, NEW d \in 0 .. 1, NEW waits \in BOOLEAN,
             Put(j, p, d, waits)
      PROVE  DueInv'
  BY <1>1, <1>4 DEF Put
<1>5. ASSUME NEW j \in Jids, NEW p, Free(j) \/ SetPriority(j, p) \/ Leave(j, p) \/ Tick
      PROVE  DueInv'
  BY <1>5 DEF Free, SetPriority, Leave, Tick, DueInv
<1>6. CASE UNCHANGED orderVars
  BY <1>6 DEF orderVars, DueInv
<1>7. ASSUME OrderNext
      PROVE  DueInv'
  <2>1. CASE \E j \in Jids, p \in Priorities, d \in 0 .. 1, waits \in BOOLEAN : Put(j, p, d, waits)
    BY <1>4, <2>1
  <2>2. CASE \E j \in Jids, d \in 0 .. 1, waits \in BOOLEAN : Return(j, d, waits)
    <3>1. PICK j \in Jids, d \in 0 .. 1, waits \in BOOLEAN : Return(j, d, waits)
      BY <2>2
    <3> QED BY <1>1, <3>1 DEF Return
  <2>3. CASE \E n \in Wanted : Pop(n) \/ Peek(n)
    BY <1>3, <2>3
  <2>4. CASE \/ \E j \in Jids, p \in Priorities : SetPriority(j, p)
             \/ \E j \in Jids : Free(j)
             \/ \E j \in Jids, deleted \in BOOLEAN : Leave(j, deleted)
             \/ Tick
    BY <1>5, <2>4 DEF Tick, DueInv
  <2> QED BY <1>7, <2>1, <2>2, <2>3, <2>4 DEF OrderNext
<1> QED BY <1>6, <1>7

\* A pop of n takes no more than n, the highest first; and if it leaves a due job in -scheduled,
\* it moves n others that came due no later.
LEMMA PopChoice ==
    ASSUME DueInv, NEW n \in Nat, Pop(n)
    PROVE  \E P \in SUBSET In("scheduled"), T \in SUBSET Jids :
             /\ T \subseteq In("work") \cup P
             /\ Hand(P, T)
             /\ \A x \in T, y \in (In("work") \cup P) \ T : ~Ahead(Scores(P)[y], Scores(P)[x])
             /\ Cardinality(T) \in Nat /\ Cardinality(T) <= n
             /\ \A k \in In("scheduled") \ P :
                  due[k] <= now => Cardinality(P) = n /\ \A i \in P : due[i] <= due[k]
<1> DEFINE S == {j \in In("scheduled") : due[j] <= now}
<1>1. PICK P \in SUBSET S :
        /\ Cardinality(P) = IF n < Cardinality(S) THEN n ELSE Cardinality(S)
        /\ \A x \in P, y \in S \ P : ~Sooner(y, x)
        /\ \E T \in SUBSET (In("work") \cup P) :
             /\ Cardinality(T) = IF n < Cardinality(In("work") \cup P)
                                 THEN n ELSE Cardinality(In("work") \cup P)
             /\ \A x \in T, y \in (In("work") \cup P) \ T : ~Ahead(Scores(P)[y], Scores(P)[x])
             /\ Hand(P, T)
  BY DEF Pop, Firsts, Promotable
<1>2. PICK T \in SUBSET (In("work") \cup P) :
        /\ Cardinality(T) = IF n < Cardinality(In("work") \cup P)
                            THEN n ELSE Cardinality(In("work") \cup P)
        /\ \A x \in T, y \in (In("work") \cup P) \ T : ~Ahead(Scores(P)[y], Scores(P)[x])
        /\ Hand(P, T)
  BY <1>1
<1>3. S \in SUBSET Jids /\ In("work") \cup P \in SUBSET Jids /\ IsFiniteSet(Jids)
  BY OrderAssumption DEF OrderAssumption, In
<1>4. /\ IsFiniteSet(S) /\ Cardinality(S) \in Nat
      /\ Cardinality(In("work") \cup P) \in Nat
  BY <1>3, FS_Subset, FS_CardinalityType
<1>5. Cardinality(T) \in Nat /\ Cardinality(T) <= n
  BY <1>2, <1>4
<1>6. ASSUME NEW k \in In("scheduled") \ P, due[k] <= now
      PROVE  Cardinality(P) = n /\ \A i \in P : due[i] <= due[k]
  <2>1. k \in S \ P
    BY <1>6
  <2>2. Cardinality(P) # Cardinality(S)
    BY <1>4, <2>1, FS_Subset
  <2>3. ASSUME NEW i \in P
        PROVE  due[i] <= due[k]
    <3>1. ~(due[k] < due[i])
      BY <1>1, <2>1 DEF Sooner
    <3>2. due[i] \in Nat /\ due[k] \in Nat
      BY DEF In, DueInv
    <3> QED BY <3>1, <3>2
  <2> QED BY <1>1, <2>2, <2>3
<1>7. P \in SUBSET In("scheduled") /\ T \in SUBSET Jids
  BY <1>3
<1> QED BY <1>2, <1>5, <1>6, <1>7

LEMMA PopOvertakes ==
    ASSUME OrderInv, DueInv, NEW n \in Nat, Pop(n), NEW j \in Jids, NEW k \in Jids,
           Overtakes(j, k), priority[k] > priority[j]
    PROVE  /\ place'[k] = "scheduled"
           /\ \A i \in Moved : due[i] <= due[k]
           /\ Cardinality(Taken) <= Cardinality(Moved)
<1>1. PICK P \in SUBSET In("scheduled"), T \in SUBSET Jids :
        /\ T \subseteq In("work") \cup P
        /\ Hand(P, T)
        /\ \A x \in T, y \in (In("work") \cup P) \ T : ~Ahead(Scores(P)[y], Scores(P)[x])
        /\ Cardinality(T) \in Nat /\ Cardinality(T) <= n
        /\ \A i \in In("scheduled") \ P :
             due[i] <= now => Cardinality(P) = n /\ \A m \in P : due[m] <= due[i]
  BY PopChoice
<1>2. Taken = T
  <2>1. ASSUME NEW i \in Jids
        PROVE  i \in Taken <=> i \in T
    BY <1>1 DEF Taken, Hand, In
  <2> QED BY <2>1 DEF Taken
<1>3. Moved = P
  <2>1. ASSUME NEW i \in In("scheduled")
        PROVE  i \in Moved <=> i \in P
    BY <1>1 DEF Moved, Hand, In
  <2> QED BY <2>1 DEF Moved
<1>4. \A i \in In("work") \cup P : Scores(P)[i].level = priority[i] /\ priority[i] \in Int
  BY DEF Scores, Bare, OrderInv, Shapes, ScoreCurrent, In
<1>5. j \in T
  BY <1>2 DEF Overtakes
<1>6. place'[k] # "work"
  <2> SUFFICES ASSUME place'[k] = "work" PROVE FALSE
    OBVIOUS
  <2>1. k \in (In("work") \cup P) \ T
    BY <1>1 DEF Hand, In
  <2>2. ~(Scores(P)[k].level > Scores(P)[j].level)
    BY <1>1, <1>5, <2>1 DEF Ahead
  <2>3. ~(priority[k] > priority[j])
    BY <1>1, <1>4, <1>5, <2>1, <2>2
  <2> QED BY <2>3
<1>7. k \in In("scheduled") /\ place'[k] = "scheduled" /\ due[k] <= now
  BY <1>6 DEF Overtakes, LeftBehind, In
<1>8. k \notin P
  BY <1>3, <1>7 DEF Moved
<1> QED BY <1>1, <1>2, <1>3, <1>7, <1>8

\* The highest numbers are taken first, for any jobs, priorities, delays and counts: a higher
\* one is left only in -scheduled, for want of room behind jobs that came due no later.
THEOREM HighestFirst == OrderSpec => PriorityFirst
<1>1. OrderInv /\ DueInv /\ [OrderNext]_orderVars
        => [\A j, k \in Jids :
              Overtakes(j, k) /\ priority[k] > priority[j]
              => /\ place'[k] = "scheduled"
                 /\ \A i \in Moved : due[i] <= due[k]
                 /\ Cardinality(Taken) <= Cardinality(Moved)]_orderVars
  <2> SUFFICES ASSUME OrderInv, DueInv, OrderNext, NEW j \in Jids, NEW k \in Jids,
                      Overtakes(j, k), priority[k] > priority[j]
               PROVE  /\ place'[k] = "scheduled"
                      /\ \A i \in Moved : due[i] <= due[k]
                      /\ Cardinality(Taken) <= Cardinality(Moved)
    OBVIOUS
  <2>1. PICK n \in Wanted : Pop(n)
    BY OnlyPopsOvertake
  <2>2. n \in Nat
    BY OrderAssumption DEF OrderAssumption
  <2> QED BY <2>1, <2>2, PopOvertakes
<1>2. OrderInit => DueInv
  BY DEF OrderInit, DueInv
<1> QED BY <1>1, <1>2, OrderStarts, OrderStep, DatesStep, DueStep, PTL
        DEF OrderSpec, PriorityFirst

LEMMA PopInOrder ==
    ASSUME OrderInv, DatesInv, NEW n, Pop(n), NEW j \in Jids, NEW k \in Jids, Overtakes(j, k),
           place'[k] = "work", ~HeldUp(j), priority[k] = priority[j]
    PROVE  came'[k] = "put" /\ inserted[j] <= inserted[k]
<1>1. PICK P \in SUBSET In("scheduled") : \E T \in SUBSET (In("work") \cup P) :
        /\ Hand(P, T)
        /\ \A x \in T, y \in (In("work") \cup P) \ T : ~Ahead(Scores(P)[y], Scores(P)[x])
  BY PopHands
<1>2. PICK T \in SUBSET (In("work") \cup P) :
        /\ Hand(P, T)
        /\ \A x \in T, y \in (In("work") \cup P) \ T : ~Ahead(Scores(P)[y], Scores(P)[x])
  BY <1>1
<1>3. j \in T /\ k \in (In("work") \cup P) \ T
  BY <1>2 DEF Overtakes, Taken, Hand, In
<1>4. place[j] = "work" /\ came[j] = "put"
  BY <1>3 DEF HeldUp, In
<1>5. j \notin P /\ Scores(P)[j] = score[j]
  BY <1>4 DEF In, Scores
<1>6. /\ score[j].level = priority[j] /\ score[j].at = inserted[j] /\ inserted[j] > 0
      /\ inserted[j] \in Int /\ priority[j] \in Int
  BY <1>4, OrderAssumption
     DEF OrderAssumption, OrderInv, Shapes, ScoreCurrent, In, DatesInv, Dated
<1>7. ~Ahead(Scores(P)[k], Scores(P)[j])
  BY <1>2, <1>3
<1>8. k \notin P
  <2> SUFFICES ASSUME k \in P PROVE FALSE
    OBVIOUS
  <2>1. Scores(P)[k] = Bare(priority[k])
    BY DEF Scores
  <2> QED BY <1>5, <1>6, <1>7, <2>1 DEF Ahead, Bare
<1>9. place[k] = "work" /\ Scores(P)[k] = score[k] /\ came'[k] = came[k]
  BY <1>2, <1>3, <1>8 DEF In, Scores, Hand
<1>10. score[k].level = priority[k] /\ Dated(k) /\ inserted[k] \in Int
  BY <1>9 DEF OrderInv, ScoreCurrent, In, DatesInv
<1>11. ~(score[k].at < inserted[j])
  BY <1>5, <1>6, <1>7, <1>9, <1>10 DEF Ahead
<1> QED BY <1>6, <1>9, <1>10, <1>11 DEF Dated

\* Of one priority in -work, for any jobs, delays, dependencies and changes of priority, only
\* jobs that were held up are taken out of the order in which jobs were put, and before others.
THEOREM TakenInOrder == OrderSpec => PutsInOrder
<1>1. OrderInv /\ DatesInv /\ [OrderNext]_orderVars
        => [\A j, k \in Jids :
              Overtakes(j, k) /\ place'[k] = "work" /\ priority[k] = priority[j]
              => \/ HeldUp(j)
                 \/ came'[k] = "put" /\ inserted[j] <= inserted[k]]_orderVars
  <2> SUFFICES ASSUME OrderInv, DatesInv, OrderNext, NEW j \in Jids, NEW k \in Jids,
                      Overtakes(j, k), place'[k] = "work", priority[k] = priority[j], ~HeldUp(j)
               PROVE  came'[k] = "put" /\ inserted[j] <= inserted[k]
    OBVIOUS
  <2>1. \E n \in Wanted : Pop(n)
    BY OnlyPopsOvertake
  <2> QED BY <2>1, PopInOrder
<1> QED BY <1>1, OrderStarts, OrderStep, DatesStep, PTL DEF OrderSpec, PutsInOrder
-----------------------------------------------------------------------------
\* Whoever runs a job is a worker; ql:workers has the last pop of a worker, or has dropped it;
\* and a running job of a worker that is silent is noted as quiet.
Owned == \A j \in Tasks : IsRunning(j) => worker[j] \in Workers
SeenCurrent == \A w \in Workers : seen[w] \in {0, popped[w]}
QuietNoted ==
    \A j \in Tasks, w \in Workers : IsRunning(j) /\ worker[j] = w /\ Silent(w, clock) => j \in quiet

WorkersInv == WorkersTypeOK /\ Owned /\ SeenCurrent /\ QuietNoted /\ WorkersAnswer

LEMMA EndInStamps ==
    ASSUME WorkersTypeOK
    PROVE  clock + LeaseTime \in Stamps /\ clock + LeaseTime # 0
BY WorkersAssumption DEF WorkersAssumption, WorkersTypeOK, Stamps

LEMMA StruckTyped ==
    ASSUME WorkersTypeOK, NEW v, NEW S
    PROVE  /\ Struck(v, S) \in [Workers -> [Tasks -> Stamps]]
           /\ \A w \in Workers, j \in Tasks :
                 Struck(v, S)[w][j] = IF w = v /\ j \in S THEN 0 ELSE listed[w][j]
<1>1. 0 \in Stamps
  BY WorkersAssumption DEF WorkersAssumption, Stamps
<1> QED BY <1>1 DEF Struck, WorkersTypeOK

LEMMA PopsKeep ==
    ASSUME WorkersInv, NEW w \in Workers, NEW lost \in SUBSET Tasks, NEW fresh \in SUBSET Tasks,
           NEW out \in SUBSET lost, WorkerPops(w, lost, out, fresh)
    PROVE  WorkersInv'
<1> DEFINE keys == (lost \ out) \cup fresh
<1>0. clock + LeaseTime \in Stamps /\ clock + LeaseTime # 0 /\ 0 \in Stamps
  BY EndInStamps, WorkersAssumption DEF WorkersAssumption, WorkersInv, Stamps
<1>1. \A j \in Tasks :
        /\ worker'[j] = IF j \in keys THEN w ELSE IF j \in out THEN NoWorker ELSE worker[j]
        /\ expires'[j] = IF j \in keys THEN clock + LeaseTime
                         ELSE IF j \in out THEN 0 ELSE expires[j]
  BY DEF WorkerPops
<1>2. \A v \in Workers, j \in Tasks :
        listed'[v][j] = IF v = w /\ j \in keys THEN clock + LeaseTime
                        ELSE IF j \in lost /\ worker[j] = v THEN 0 ELSE listed[v][j]
  BY DEF WorkerPops
<1>3. /\ seen' = [seen EXCEPT ![w] = clock] /\ popped' = [popped EXCEPT ![w] = clock]
      /\ quiet' = quiet \ (keys \cup out) /\ disowned' = disowned \ ({w} \X keys)
      /\ holds' = [holds EXCEPT ![w] = @ \cup keys] /\ clock' = clock
  BY DEF WorkerPops
<1>4. \A j \in lost : expires[j] # 0
  BY DEF WorkerPops, IsRunning
<1>5. \A j \in fresh : expires[j] = 0
  BY DEF WorkerPops, IsRunning
<1>6. WorkersTypeOK'
  <2>1. worker' \in [Tasks -> Workers \cup {NoWorker}] /\ expires' \in [Tasks -> Stamps]
    BY <1>0 DEF WorkerPops, WorkersInv, WorkersTypeOK
  <2>2. listed' \in [Workers -> [Tasks -> Stamps]]
    BY <1>0 DEF WorkerPops, WorkersInv, WorkersTypeOK
  <2>3. seen' \in [Workers -> 0 .. Latest] /\ popped' \in [Workers -> 0 .. Latest]
    BY <1>3, WorkersAssumption DEF WorkersAssumption, WorkersInv, WorkersTypeOK
  <2>4. holds' \in [Workers -> SUBSET Tasks]
    BY <1>3 DEF WorkersInv, WorkersTypeOK
  <2> QED BY <1>3, <2>1, <2>2, <2>3, <2>4 DEF WorkersInv, WorkersTypeOK
<1>7. Owned'
  BY <1>1 DEF Owned, IsRunning, WorkersInv
<1>8. SeenCurrent'
  BY <1>3 DEF SeenCurrent, WorkersInv, WorkersTypeOK
<1>9. QuietNoted'
  <2> SUFFICES ASSUME NEW j \in Tasks, NEW v \in Workers, expires'[j] # 0, worker'[j] = v,
                      clock - popped'[v] >= MaxAge
               PROVE  j \in quiet'
    BY <1>3 DEF QuietNoted, IsRunning, Silent
  <2>1. v # w
    BY <1>3, WorkersAssumption DEF WorkersAssumption, WorkersInv, WorkersTypeOK
  <2>2. j \notin keys /\ j \notin out
    BY <1>1, <2>1
  <2>3. expires[j] # 0 /\ worker[j] = v /\ clock - popped[v] >= MaxAge
    BY <1>1, <1>3, <2>1, <2>2 DEF WorkersInv, WorkersTypeOK
  <2> QED BY <1>3, <2>2, <2>3 DEF WorkersInv, QuietNoted, IsRunning, Silent
<1>10. WorkersAnswer'
  <2> SUFFICES ASSUME NEW v \in Workers, NEW j \in Tasks
               PROVE  /\ expires'[j] # 0 /\ worker'[j] = v /\ j \notin quiet'
                           => listed'[v][j] = expires'[j]
                      /\ listed'[v][j] # 0
                           => (expires'[j] # 0 /\ worker'[j] = v) \/ <<v, j>> \in disowned'
    BY DEF WorkersAnswer, IsRunning
  <2>1. CASE j \in keys
    <3>1. worker'[j] = w /\ expires'[j] = clock + LeaseTime
      BY <1>1, <2>1
    <3>2. CASE v = w
      BY <1>0, <1>2, <2>1, <3>1, <3>2
    <3>3. CASE v # w
      <4>1. j \notin {} /\ (listed'[v][j] # 0 => <<v, j>> \in disowned)
        BY <1>2, <1>4, <1>5, <2>1, <3>3 DEF WorkersInv, WorkersAnswer, IsRunning
      <4> QED BY <1>3, <3>1, <3>3, <4>1
    <3> QED BY <3>2, <3>3
  <2>2. CASE j \notin keys
    <3>1. listed'[v][j] = IF j \in lost /\ worker[j] = v THEN 0 ELSE listed[v][j]
      BY <1>2, <2>2
    <3>2. <<v, j>> \in disowned => <<v, j>> \in disowned'
      BY <1>3, <2>2
    <3>3. CASE j \in out
      BY <1>0, <1>1, <1>4, <2>2, <3>1, <3>2, <3>3 DEF WorkersInv, WorkersAnswer, IsRunning
    <3>4. CASE j \notin out
      <4>1. j \notin lost /\ expires'[j] = expires[j] /\ worker'[j] = worker[j]
        BY <1>1, <2>2, <3>4
      <4>2. j \in quiet' <=> j \in quiet
        BY <1>3, <2>2, <3>4
      <4> QED BY <3>1, <3>2, <4>1, <4>2 DEF WorkersInv, WorkersAnswer, IsRunning
    <3> QED BY <3>3, <3>4
  <2> QED BY <2>1, <2>2
<1> QED BY <1>6, <1>7, <1>8, <1>9, <1>10 DEF WorkersInv

LEMMA RenewsKeeps ==
    ASSUME WorkersInv, NEW w \in Workers, NEW j \in Tasks, Renews(w, j)
    PROVE  WorkersInv'
<1>1. clock + LeaseTime \in Stamps /\ clock + LeaseTime # 0
  BY EndInStamps DEF WorkersInv
<1>2. \A i \in Tasks : expires'[i] = IF i = j THEN clock + LeaseTime ELSE expires[i]
  BY DEF Renews, WorkersInv, WorkersTypeOK
<1>3. \A v \in Workers, i \in Tasks :
        listed'[v][i] = IF v = w /\ i = j THEN clock + LeaseTime ELSE listed[v][i]
  BY DEF Renews, WorkersInv, WorkersTypeOK
<1>4. WorkersTypeOK'
  <2>1. listed' \in [Workers -> [Tasks -> Stamps]]
    BY <1>1 DEF Renews, WorkersInv, WorkersTypeOK
  <2>2. expires' \in [Tasks -> Stamps]
    BY <1>1 DEF Renews, WorkersInv, WorkersTypeOK
  <2> QED BY <2>1, <2>2 DEF Renews, WorkersInv, WorkersTypeOK
<1>5. Owned' /\ SeenCurrent'
  BY <1>2 DEF Renews, WorkersInv, Owned, SeenCurrent, IsRunning
<1>6. QuietNoted'
  BY <1>2 DEF Renews, WorkersInv, QuietNoted, IsRunning, Silent
<1>7. WorkersAnswer'
  <2> SUFFICES ASSUME NEW v \in Workers, NEW i \in Tasks
               PROVE  /\ expires'[i] # 0 /\ worker'[i] = v /\ i \notin quiet'
                           => listed'[v][i] = expires'[i]
                      /\ listed'[v][i] # 0
                           => (expires'[i] # 0 /\ worker'[i] = v) \/ <<v, i>> \in disowned'
    BY DEF WorkersAnswer, IsRunning
  <2>0. worker' = worker /\ disowned' = disowned /\ worker[j] = w
    BY DEF Renews
  <2>1. CASE i = j
    <3>1. CASE v = w
      BY <1>1, <1>2, <1>3, <2>0, <2>1, <3>1
    <3>2. CASE v # w
      BY <1>3, <2>0, <2>1, <3>2 DEF WorkersInv, WorkersAnswer, IsRunning
    <3> QED BY <3>1, <3>2
  <2>2. CASE i # j
    <3>1. i \in quiet' <=> i \in quiet
      BY <2>2 DEF Renews
    <3> QED BY <1>2, <1>3, <2>0, <2>2, <3>1 DEF WorkersInv, WorkersAnswer, IsRunning
  <2> QED BY <2>1, <2>2
<1> QED BY <1>4, <1>5, <1>6, <1>7 DEF WorkersInv

\* A job leaves the set of v and its lease; what other sets say of it is disowned, or becomes so.
LEMMA ReleaseKeeps ==
    ASSUME WorkersInv, NEW v, NEW j \in Tasks,
           expires' = [expires EXCEPT ![j] = 0],
           listed' = Struck(v, {j}),
           \A i \in Tasks : i # j => worker'[i] = worker[i],
           worker' \in [Tasks -> Workers \cup {NoWorker}],
           holds' \in [Workers -> SUBSET Tasks],
           quiet' = quiet \ {j}, UNCHANGED <<clock, seen, popped>>,
           disowned \subseteq disowned', disowned' \subseteq Workers \X Tasks,
           IsRunning(j) /\ worker[j] # v => <<worker[j], j>> \in disowned'
    PROVE  WorkersInv'
<1>1. \A i \in Tasks : expires'[i] = IF i = j THEN 0 ELSE expires[i]
  BY DEF WorkersInv, WorkersTypeOK
<1>2. \A w \in Workers, i \in Tasks : listed'[w][i] = IF w = v /\ i = j THEN 0 ELSE listed[w][i]
  BY StruckTyped DEF WorkersInv
<1>3. WorkersTypeOK'
  <2>1. listed' \in [Workers -> [Tasks -> Stamps]]
    BY StruckTyped DEF WorkersInv
  <2>2. expires' \in [Tasks -> Stamps]
    BY WorkersAssumption DEF WorkersAssumption, Stamps, WorkersInv, WorkersTypeOK
  <2> QED BY <2>1, <2>2 DEF WorkersInv, WorkersTypeOK
<1>4. Owned' /\ SeenCurrent'
  BY <1>1 DEF WorkersInv, Owned, SeenCurrent, IsRunning
<1>5. QuietNoted'
  BY <1>1 DEF WorkersInv, QuietNoted, IsRunning, Silent
<1>6. WorkersAnswer'
  <2> SUFFICES ASSUME NEW w \in Workers, NEW i \in Tasks
               PROVE  /\ expires'[i] # 0 /\ worker'[i] = w /\ i \notin quiet'
                           => listed'[w][i] = expires'[i]
                      /\ listed'[w][i] # 0
                           => (expires'[i] # 0 /\ worker'[i] = w) \/ <<w, i>> \in disowned'
    BY DEF WorkersAnswer, IsRunning
  <2>1. CASE i = j
    BY <1>1, <1>2, <2>1 DEF WorkersInv, WorkersAnswer, IsRunning
  <2>2. CASE i # j
    <3>1. expires'[i] = expires[i] /\ listed'[w][i] = listed[w][i] /\ worker'[i] = worker[i]
      BY <1>1, <1>2, <2>2
    <3>2. (i \in quiet' <=> i \in quiet) /\ (<<w, i>> \in disowned => <<w, i>> \in disowned')
      BY <2>2
    <3> QED BY <3>1, <3>2 DEF WorkersInv, WorkersAnswer, IsRunning
  <2> QED BY <2>1, <2>2
<1> QED BY <1>3, <1>4, <1>5, <1>6 DEF WorkersInv

LEMMA EndsKeeps ==
    ASSUME WorkersInv, NEW w \in Workers, NEW j \in Tasks, NEW stays, Ends(w, j, stays)
    PROVE  WorkersInv'
<1>1. /\ \A i \in Tasks : i # j => worker'[i] = worker[i]
      /\ worker' \in [Tasks -> Workers \cup {NoWorker}]
      /\ holds' \in [Workers -> SUBSET Tasks]
      /\ disowned' \subseteq Workers \X Tasks
  BY DEF Ends, WorkersInv, WorkersTypeOK
<1> QED BY <1>1, ReleaseKeeps DEF Ends

LEMMA FailsKeeps ==
    ASSUME WorkersInv, NEW w \in Workers, NEW j \in Tasks, Fails(w, j)
    PROVE  WorkersInv'
<1>1. /\ \A i \in Tasks : i # j => worker'[i] = worker[i]
      /\ worker' \in [Tasks -> Workers \cup {NoWorker}]
      /\ holds' \in [Workers -> SUBSET Tasks]
  BY DEF Fails, WorkersInv, WorkersTypeOK
<1>2. worker[j] \in Workers
  BY DEF Fails, WorkersInv, Owned
<1>3. disowned \subseteq disowned' /\ disowned' \subseteq Workers \X Tasks
  BY <1>2 DEF Fails, WorkersInv, WorkersTypeOK
<1> QED BY <1>1, <1>3, ReleaseKeeps DEF Fails

LEMMA WithdrawsKeeps ==
    ASSUME WorkersInv, NEW j \in Tasks, Withdraws(j)
    PROVE  WorkersInv'
<1>1. /\ \A i \in Tasks : i # j => worker'[i] = worker[i]
      /\ worker' \in [Tasks -> Workers \cup {NoWorker}]
      /\ holds' \in [Workers -> SUBSET Tasks]
      /\ disowned' \subseteq Workers \X Tasks
  BY DEF Withdraws, WorkersInv, WorkersTypeOK
<1> QED BY <1>1, ReleaseKeeps DEF Withdraws

\* Workers deletes the sets of silent workers only, whose running jobs are noted as quiet.
LEMMA ListWorkersKeeps ==
    ASSUME WorkersInv, ListWorkers
    PROVE  WorkersInv'
<1>1. \A w \in Gone : Silent(w, clock)
  <2> SUFFICES ASSUME NEW w \in Workers, seen[w] > 0, seen[w] <= clock - MaxAge
               PROVE  clock - popped[w] >= MaxAge
    BY DEF Gone, Silent
  <2>1. seen[w] = 0 \/ seen[w] = popped[w]
    BY DEF WorkersInv, SeenCurrent
  <2>2. popped[w] \in Int /\ seen[w] \in Int /\ clock \in Int /\ MaxAge \in Int
    BY WorkersAssumption DEF WorkersAssumption, WorkersInv, WorkersTypeOK
  <2> QED BY <2>1, <2>2
<1>2. WorkersTypeOK'
  BY WorkersAssumption DEF WorkersAssumption, Stamps, ListWorkers, WorkersInv, WorkersTypeOK
<1>3. Owned' /\ QuietNoted'
  BY DEF ListWorkers, WorkersInv, Owned, QuietNoted, IsRunning, Silent
<1>4. SeenCurrent'
  BY DEF ListWorkers, WorkersInv, SeenCurrent
<1>5. WorkersAnswer'
  <2>1. \A w \in Workers, j \in Tasks : listed'[w][j] = IF w \in Gone THEN 0 ELSE listed[w][j]
    BY DEF ListWorkers
  <2> QED BY <1>1, <2>1
          DEF ListWorkers, WorkersInv, WorkersAnswer, QuietNoted, IsRunning
<1> QED BY <1>2, <1>3, <1>4, <1>5 DEF WorkersInv

LEMMA ClockTicksKeeps ==
    ASSUME WorkersInv, ClockTicks
    PROVE  WorkersInv'
<1>1. WorkersTypeOK'
  <2>1. clock' \in 1 .. Latest
    BY WorkersAssumption DEF WorkersAssumption, ClockTicks, WorkersInv, WorkersTypeOK
  <2>2. quiet' \in SUBSET Tasks
    BY DEF ClockTicks, WorkersInv, WorkersTypeOK
  <2> QED BY <2>1, <2>2 DEF ClockTicks, WorkersInv, WorkersTypeOK, Stamps
<1>2. Owned' /\ SeenCurrent'
  BY DEF ClockTicks, WorkersInv, Owned, SeenCurrent, IsRunning
<1>3. QuietNoted'
  BY DEF ClockTicks, QuietNoted, IsRunning, Silent
<1>4. WorkersAnswer'
  BY DEF ClockTicks, WorkersInv, WorkersAnswer, IsRunning
<1> QED BY <1>1, <1>2, <1>3, <1>4 DEF WorkersInv

LEMMA WorkersStep == WorkersInv /\ [WorkersNext]_workersVars => WorkersInv'
<1> SUFFICES ASSUME WorkersInv, [WorkersNext]_workersVars
             PROVE  WorkersInv'
  OBVIOUS
<1>1. ASSUME NEW w \in Workers, NEW S \in SUBSET Tasks, GivesUp(w, S)
      PROVE  WorkersInv'
  BY <1>1 DEF GivesUp, WorkersInv, WorkersTypeOK, Owned, SeenCurrent, QuietNoted, WorkersAnswer,
              IsRunning, Silent
<1>2. ASSUME NEW w \in Workers, Deregister(w)
      PROVE  WorkersInv'
  <2>1. WorkersTypeOK' /\ SeenCurrent'
    BY <1>2, WorkersAssumption
       DEF WorkersAssumption, Deregister, WorkersInv, WorkersTypeOK, SeenCurrent
  <2> QED BY <1>2, <2>1 DEF Deregister, WorkersInv, Owned, QuietNoted, WorkersAnswer, IsRunning,
                            Silent
<1>3. CASE UNCHANGED workersVars
  BY <1>3 DEF workersVars, WorkersInv, WorkersTypeOK, Owned, SeenCurrent, QuietNoted,
              WorkersAnswer, IsRunning, Silent
<1> QED BY <1>1, <1>2, <1>3, PopsKeep, RenewsKeeps, EndsKeeps, FailsKeeps, WithdrawsKeeps,
           ListWorkersKeeps, ClockTicksKeeps DEF WorkersNext

LEMMA WorkersStart == WorkersInit => WorkersInv
BY WorkersAssumption
   DEF WorkersAssumption, WorkersInit, WorkersInv, WorkersTypeOK, Stamps, Owned, SeenCurrent,
       QuietNoted, WorkersAnswer, IsRunning

\* For any number of workers and jobs, any leases and ages: workers answers right, but of jobs
\* whose worker let max-worker-age pass without a pop, or that a former worker failed.
THEOREM WorkersAnswerRight == WorkersSpec => [](WorkersTypeOK /\ WorkersAnswer)
<1>1. WorkersInv => WorkersTypeOK /\ WorkersAnswer
  BY DEF WorkersInv
<1> QED BY <1>1, WorkersStart, WorkersStep, PTL DEF WorkersSpec
-----------------------------------------------------------------------------
(* Tags.                                                                   *)
LEMMA InitTags ==
    ASSUME TagsInit
    PROVE  TagsTypeOK /\ TaggedFound /\ CountsExact
<1>1. TagsTypeOK /\ TaggedFound
  BY DEF TagsInit, TagsTypeOK, TaggedFound, Has, Exists
<1>2. \A t \in Tags : {j \in Jobs : Has(j, t)} = {}
  BY DEF TagsInit, Has, Exists
<1>3. CountsExact
  BY <1>2, FS_EmptySet DEF TagsInit, CountsExact
<1> QED BY <1>1, <1>3

LEMMA ListsCount == Lists \subseteq [Tags -> Nat]
BY TagsAssumption DEF TagsAssumption, Lists

\* The invariant of TaggedFound is itself, with the types.
TagsInv == TagsTypeOK /\ TaggedFound

LEMMA PutTaggedKeeps ==
    ASSUME TagsInv, NEW j \in Jobs, NEW A \in [Tags -> Nat], PutTagged(j, A)
    PROVE  TagsInv'
<1>1. TagsTypeOK'
  BY DEF TagsInv, TagsTypeOK, PutTagged, Index
<1>2. TaggedFound'
  <2>1. \A i \in Jobs, t \in Tags : tags'[i] = IF i = j THEN A ELSE tags[i]
    BY DEF TagsInv, TagsTypeOK, PutTagged
  <2> QED BY <2>1 DEF TagsInv, TagsTypeOK, TaggedFound, PutTagged, Index, Has, Exists
<1> QED BY <1>1, <1>2 DEF TagsInv

LEMMA PutAgainKeeps ==
    ASSUME TagsInv, NEW j \in Jobs, PutAgain(j)
    PROVE  TagsInv'
<1>1. tags[j] \in [Tags -> Nat]
  BY DEF TagsInv, TagsTypeOK, PutAgain, Exists
<1>2. TagsTypeOK'
  BY <1>1 DEF TagsInv, TagsTypeOK, PutAgain, Index
<1>3. TaggedFound'
  BY DEF TagsInv, TaggedFound, PutAgain, Index, Has, Exists
<1> QED BY <1>2, <1>3 DEF TagsInv

LEMMA TagAddKeeps ==
    ASSUME TagsInv, NEW j \in Jobs, NEW A \in [Tags -> Nat], TagAdd(j, A)
    PROVE  TagsInv'
<1> DEFINE B == [t \in Tags |-> IF tags[j][t] = 0 THEN A[t] ELSE tags[j][t]]
<1>1. tags[j] \in [Tags -> Nat]
  BY DEF TagsInv, TagsTypeOK, TagAdd, Exists
<1>2. \A i \in Jobs : tags'[i] = IF i = j THEN B ELSE tags[i]
  BY DEF TagsInv, TagsTypeOK, TagAdd
<1>3. B \in [Tags -> Nat] /\ \A t \in Tags : B[t] > 0 => A[t] > 0 \/ tags[j][t] > 0
  BY <1>1
<1>4. TagsTypeOK'
  <2>1. tags' \in [Jobs -> [Tags -> Nat] \cup {NoHash}]
    BY <1>3 DEF TagsInv, TagsTypeOK, TagAdd
  <2> QED BY <2>1 DEF TagsInv, TagsTypeOK, TagAdd, Index
<1>5. TaggedFound'
  <2> HIDE DEF B
  <2>1. ASSUME NEW i \in Jobs, NEW t \in Tags, Has(i, t)'
        PROVE  Has(i, t) \/ (i = j /\ A[t] > 0)
    BY <1>2, <1>3, <2>1 DEF Has, Exists, TagAdd
  <2> QED BY <2>1 DEF TagsInv, TaggedFound, TagAdd, Index
<1> QED BY <1>4, <1>5 DEF TagsInv

LEMMA TagRemoveKeeps ==
    ASSUME TagsInv, NEW j \in Jobs, NEW A \in [Tags -> Nat], TagRemove(j, A)
    PROVE  TagsInv'
<1> DEFINE B == [t \in Tags |-> IF A[t] > 0 THEN 0 ELSE tags[j][t]]
<1>1. tags[j] \in [Tags -> Nat]
  BY DEF TagsInv, TagsTypeOK, TagRemove, Exists
<1>2. \A i \in Jobs : tags'[i] = IF i = j THEN B ELSE tags[i]
  BY DEF TagsInv, TagsTypeOK, TagRemove
<1>3. B \in [Tags -> Nat] /\ \A t \in Tags : B[t] > 0 => ~(A[t] > 0) /\ tags[j][t] > 0
  BY <1>1
<1>4. TagsTypeOK'
  <2>1. tags' \in [Jobs -> [Tags -> Nat] \cup {NoHash}]
    BY <1>3 DEF TagsInv, TagsTypeOK, TagRemove
  <2> QED BY <2>1 DEF TagsInv, TagsTypeOK, TagRemove, Unindex
<1>5. TaggedFound'
  <2> HIDE DEF B
  <2>1. ASSUME NEW i \in Jobs, NEW t \in Tags, Has(i, t)'
        PROVE  Has(i, t) /\ ~(i = j /\ A[t] > 0)
    BY <1>2, <1>3, <2>1 DEF Has, Exists, TagRemove
  <2> QED BY <2>1 DEF TagsInv, TaggedFound, TagRemove, Unindex
<1> QED BY <1>4, <1>5 DEF TagsInv

LEMMA DeleteKeeps ==
    ASSUME TagsInv, NEW j \in Jobs, Delete(j)
    PROVE  TagsInv'
<1>1. tags[j] \in [Tags -> Nat]
  BY DEF TagsInv, TagsTypeOK, Delete, Exists
<1>2. \A i \in Jobs : tags'[i] = IF i = j THEN NoHash ELSE tags[i]
  BY DEF TagsInv, TagsTypeOK, Delete
<1>3. TagsTypeOK'
  BY <1>1 DEF TagsInv, TagsTypeOK, Delete, Unindex
<1>4. TaggedFound'
  BY <1>2 DEF TagsInv, TaggedFound, Delete, Unindex, Has, Exists
<1> QED BY <1>3, <1>4 DEF TagsInv

LEMMA TagsStart == TagsInit => TagsInv
BY InitTags DEF TagsInv

LEMMA TagsStep == TagsInv /\ [TagsNext]_tagVars => TagsInv'
<1> SUFFICES ASSUME TagsInv, [TagsNext]_tagVars
             PROVE  TagsInv'
  OBVIOUS
<1>1. CASE UNCHANGED tagVars
  BY <1>1 DEF tagVars, TagsInv, TagsTypeOK, TaggedFound, Has, Exists
<1>2. CASE TagsNext
  BY <1>2, ListsCount, PutTaggedKeeps, PutAgainKeeps, TagAddKeeps, TagRemoveKeeps, DeleteKeeps
     DEF TagsNext
<1> QED BY <1>1, <1>2

\* Whatever clients do, every job is found under each of the tags its hash names.
THEOREM TagsFound == TagsSpec => []TaggedFound
<1>1. TagsInv => TaggedFound
  BY DEF TagsInv
<1> QED BY <1>1, TagsStart, TagsStep, PTL DEF TagsSpec
-----------------------------------------------------------------------------
(* Careful clients.                                                        *)

CarefulInv == TagsTypeOK /\ Single /\ CountsExact

\* One more job in the index of t, and one more in its count.
LEMMA OneMore ==
    ASSUME NEW S \in SUBSET Jobs, NEW j \in Jobs, j \notin S
    PROVE  Cardinality(S \cup {j}) = Cardinality(S) + 1 /\ Cardinality(S) \in Nat
BY FS_Subset, FS_AddElement, FS_CardinalityType, TagsAssumption DEF TagsAssumption

LEMMA OneLess ==
    ASSUME NEW S \in SUBSET Jobs, NEW j \in S
    PROVE  Cardinality(S \ {j}) = Cardinality(S) - 1 /\ Cardinality(S) \in Nat
BY FS_Subset, FS_RemoveElement, FS_CardinalityType, TagsAssumption DEF TagsAssumption

LEMMA IndexExact ==
    ASSUME CarefulInv, NEW j \in Jobs, NEW A \in [Tags -> {0, 1}], Index(j, A),
           \A t \in Tags : A[t] > 0 => ~Has(j, t),
           \A t \in Tags, i \in Jobs : Has(i, t)' <=> Has(i, t) \/ (i = j /\ A[t] > 0)
    PROVE  CountsExact'
<1> SUFFICES ASSUME NEW t \in Tags
             PROVE  /\ tagged'[t] = {i \in Jobs : Has(i, t)'}
                    /\ count'[t] = Cardinality(tagged'[t])
  BY DEF CountsExact
<1>1. /\ tagged[t] = {i \in Jobs : Has(i, t)} /\ count[t] = Cardinality(tagged[t])
      /\ tagged[t] \in SUBSET Jobs
  BY DEF CarefulInv, CountsExact, TagsTypeOK
<1>2. tagged'[t] = {i \in Jobs : Has(i, t)'}
  BY <1>1 DEF Index
<1>3. CASE A[t] = 0
  <2>1. tagged'[t] = tagged[t] /\ count[t] \in Int
    BY <1>3 DEF Index, CarefulInv, TagsTypeOK
  <2>2. count'[t] = count[t]
    BY <1>3, <2>1 DEF Index
  <2> QED BY <1>1, <1>2, <2>1, <2>2
<1>4. CASE A[t] = 1
  <2>1. j \notin tagged[t] /\ tagged'[t] = tagged[t] \cup {j} /\ count'[t] = count[t] + 1
    BY <1>1, <1>4 DEF Index
  <2> QED BY <1>1, <1>2, <2>1, OneMore
<1> QED BY <1>2, <1>3, <1>4

LEMMA UnindexExact ==
    ASSUME CarefulInv, NEW j \in Jobs, NEW A \in [Tags -> {0, 1}], Unindex(j, A),
           \A t \in Tags : A[t] > 0 => Has(j, t),
           \A t \in Tags, i \in Jobs : Has(i, t)' <=> Has(i, t) /\ ~(i = j /\ A[t] > 0)
    PROVE  CountsExact'
<1> SUFFICES ASSUME NEW t \in Tags
             PROVE  /\ tagged'[t] = {i \in Jobs : Has(i, t)'}
                    /\ count'[t] = Cardinality(tagged'[t])
  BY DEF CountsExact
<1>1. /\ tagged[t] = {i \in Jobs : Has(i, t)} /\ count[t] = Cardinality(tagged[t])
      /\ tagged[t] \in SUBSET Jobs
  BY DEF CarefulInv, CountsExact, TagsTypeOK
<1>2. tagged'[t] = {i \in Jobs : Has(i, t)'}
  BY <1>1 DEF Unindex
<1>3. CASE A[t] = 0
  <2>1. tagged'[t] = tagged[t] /\ count[t] \in Int
    BY <1>3 DEF Unindex, CarefulInv, TagsTypeOK
  <2>2. count'[t] = count[t]
    BY <1>3, <2>1 DEF Unindex
  <2> QED BY <1>1, <1>2, <2>1, <2>2
<1>4. CASE A[t] = 1
  <2>1. j \in tagged[t] /\ tagged'[t] = tagged[t] \ {j} /\ count'[t] = count[t] - 1
    BY <1>1, <1>4 DEF Unindex
  <2> QED BY <1>1, <1>2, <2>1, OneLess
<1> QED BY <1>2, <1>3, <1>4

LEMMA CarefulPut ==
    ASSUME CarefulInv, NEW j \in Jobs, NEW A \in [Tags -> {0, 1}], ~Exists(j), PutTagged(j, A)
    PROVE  CarefulInv'
<1>1. \A i \in Jobs : tags'[i] = IF i = j THEN A ELSE tags[i]
  BY DEF CarefulInv, TagsTypeOK, PutTagged
<1>2. A \in [Tags -> Nat] /\ A # NoHash
  BY TagsAssumption DEF TagsAssumption
<1>3. \A i \in Jobs, t \in Tags : Has(i, t)' <=> Has(i, t) \/ (i = j /\ A[t] > 0)
  BY <1>1, <1>2 DEF Has, Exists
<1>4. TagsTypeOK'
  BY <1>2 DEF CarefulInv, TagsTypeOK, PutTagged, Index
<1>5. Single'
  BY <1>1 DEF CarefulInv, Single, Exists
<1>6. CountsExact'
  BY <1>3, IndexExact DEF PutTagged, Has
<1> QED BY <1>4, <1>5, <1>6 DEF CarefulInv

LEMMA CarefulAdd ==
    ASSUME CarefulInv, NEW j \in Jobs, NEW A \in [Tags -> {0, 1}],
           \A t \in Tags : A[t] > 0 => ~Has(j, t), TagAdd(j, A)
    PROVE  CarefulInv'
<1> DEFINE B == [t \in Tags |-> IF tags[j][t] = 0 THEN A[t] ELSE tags[j][t]]
<1>1. tags[j] \in [Tags -> Nat] /\ Exists(j) /\ \A t \in Tags : tags[j][t] \in {0, 1}
  BY DEF CarefulInv, TagsTypeOK, TagAdd, Exists, Single
<1>2. \A i \in Jobs : tags'[i] = IF i = j THEN B ELSE tags[i]
  BY DEF CarefulInv, TagsTypeOK, TagAdd
<1>3. B \in [Tags -> Nat] /\ \A t \in Tags : B[t] \in {0, 1}
  BY <1>1
<1>4. \A t \in Tags : B[t] > 0 <=> tags[j][t] > 0 \/ A[t] > 0
  BY <1>1
<1>5. B # NoHash
  BY <1>3, TagsAssumption DEF TagsAssumption
<1>6. tags' \in [Jobs -> [Tags -> Nat] \cup {NoHash}]
  BY <1>3 DEF CarefulInv, TagsTypeOK, TagAdd
<1>7. TagsTypeOK'
  BY <1>6 DEF CarefulInv, TagsTypeOK, TagAdd, Index
<1> HIDE DEF B
<1>8. Single'
  BY <1>2, <1>3 DEF CarefulInv, Single, Exists
<1>9. \A i \in Jobs, t \in Tags : Has(i, t)' <=> Has(i, t) \/ (i = j /\ A[t] > 0)
  BY <1>1, <1>2, <1>4, <1>5 DEF Has, Exists
<1>10. CountsExact'
  BY <1>9, IndexExact DEF TagAdd
<1> QED BY <1>7, <1>8, <1>10 DEF CarefulInv

LEMMA CarefulRemove ==
    ASSUME CarefulInv, NEW j \in Jobs, NEW A \in [Tags -> {0, 1}],
           \A t \in Tags : A[t] > 0 => Has(j, t), TagRemove(j, A)
    PROVE  CarefulInv'
<1> DEFINE B == [t \in Tags |-> IF A[t] > 0 THEN 0 ELSE tags[j][t]]
<1>1. tags[j] \in [Tags -> Nat] /\ Exists(j) /\ \A t \in Tags : tags[j][t] \in {0, 1}
  BY DEF CarefulInv, TagsTypeOK, TagRemove, Exists, Single
<1>2. \A i \in Jobs : tags'[i] = IF i = j THEN B ELSE tags[i]
  BY DEF CarefulInv, TagsTypeOK, TagRemove
<1>3. B \in [Tags -> Nat] /\ \A t \in Tags : B[t] \in {0, 1}
  BY <1>1
<1>4. \A t \in Tags : B[t] > 0 <=> tags[j][t] > 0 /\ ~(A[t] > 0)
  BY <1>1
<1>5. B # NoHash
  BY <1>3, TagsAssumption DEF TagsAssumption
<1>6. tags' \in [Jobs -> [Tags -> Nat] \cup {NoHash}]
  BY <1>3 DEF CarefulInv, TagsTypeOK, TagRemove
<1>7. TagsTypeOK'
  BY <1>6 DEF CarefulInv, TagsTypeOK, TagRemove, Unindex
<1> HIDE DEF B
<1>8. Single'
  BY <1>2, <1>3 DEF CarefulInv, Single, Exists
<1>9. \A i \in Jobs, t \in Tags : Has(i, t)' <=> Has(i, t) /\ ~(i = j /\ A[t] > 0)
  BY <1>1, <1>2, <1>4, <1>5 DEF Has, Exists
<1>10. CountsExact'
  BY <1>9, UnindexExact DEF TagRemove
<1> QED BY <1>7, <1>8, <1>10 DEF CarefulInv

LEMMA CarefulDelete ==
    ASSUME CarefulInv, NEW j \in Jobs, Delete(j)
    PROVE  CarefulInv'
<1>1. Exists(j) /\ tags[j] \in [Tags -> Nat] /\ tags[j] \in [Tags -> {0, 1}]
  BY DEF CarefulInv, TagsTypeOK, Delete, Exists, Single
<1>2. \A i \in Jobs : tags'[i] = IF i = j THEN NoHash ELSE tags[i]
  BY DEF CarefulInv, TagsTypeOK, Delete
<1>3. TagsTypeOK'
  BY <1>1 DEF CarefulInv, TagsTypeOK, Delete, Unindex
<1>4. Single'
  BY <1>2 DEF CarefulInv, Single, Exists
<1>5. \A i \in Jobs, t \in Tags : Has(i, t)' <=> Has(i, t) /\ ~(i = j /\ tags[j][t] > 0)
  BY <1>2 DEF Has, Exists
<1>6. \A t \in Tags : tags[j][t] > 0 => Has(j, t)
  BY <1>1 DEF Has
<1>7. CountsExact'
  BY <1>1, <1>5, <1>6, UnindexExact DEF Delete
<1> QED BY <1>3, <1>4, <1>7 DEF CarefulInv

LEMMA CarefulStep ==
    ASSUME CarefulInv, CarefulNext
    PROVE  CarefulInv'
<1>1. ASSUME NEW A \in Lists, \A t \in Tags : A[t] <= 1
      PROVE  A \in [Tags -> {0, 1}]
  <2>1. \A t \in Tags : A[t] \in {0, 1}
    BY <1>1, ListsCount
  <2> QED BY <2>1 DEF Lists
<1> QED BY <1>1, CarefulPut, CarefulAdd, CarefulRemove, CarefulDelete DEF CarefulNext

\* If clients put a job once, tag it with what it lacks and untag what it has, the index and
\* the counts of tags are exact.
THEOREM CarefulCounts == CarefulSpec => []CountsExact
<1>1. TagsInit => CarefulInv
  BY InitTags DEF CarefulInv, Single, TagsInit, Exists
<1>2. CarefulInv /\ [CarefulNext]_tagVars => CarefulInv'
  <2> SUFFICES ASSUME CarefulInv, [CarefulNext]_tagVars
               PROVE  CarefulInv'
    OBVIOUS
  <2>1. CASE UNCHANGED tagVars
    BY <2>1 DEF tagVars, CarefulInv, TagsTypeOK, Single, CountsExact, Has, Exists
  <2> QED BY <2>1, CarefulStep
<1>3. CarefulInv => CountsExact
  BY DEF CarefulInv
<1> QED BY <1>1, <1>2, <1>3, PTL DEF CarefulSpec

\* Among other clients too, a careful call never makes exact counts wrong: put, tag, untag,
\* cancel and the trimming of history add and subtract the same.
THEOREM ExactnessKept == TagsSpec => CarefulKeepsExact
<1>1. TagsTypeOK /\ CountsExact /\ Single /\ CarefulNext => CountsExact'
  BY CarefulStep DEF CarefulInv
<1>2. TagsInv => TagsTypeOK
  BY DEF TagsInv
<1> QED BY <1>1, <1>2, TagsStart, TagsStep, PTL DEF TagsSpec, CarefulKeepsExact
-----------------------------------------------------------------------------
(* Recurring jobs.  The next job of a template comes one interval after the last.         *)

\* The next job is later than the interval is long, so its time never reaches 0, which
\* stands for no entry, however the interval changes.
Positive ==
    \A r \in Recs :
      /\ rec[r] # NoRec => nextDue[rec[r].queue][r] > rec[r].interval
      /\ last[r] > 0 => rec[r] # NoRec

RecShapes ==
    /\ time \in Nat /\ time >= StartTime
    /\ rec \in [Recs -> Templates \cup {NoRec}]
    /\ nextDue \in [Queues -> [Recs -> Nat]]
    /\ last \in [Recs -> Nat]

RecurInv == RecShapes /\ Positive /\ RecurPlaced /\ OnSchedule

LEMMA Template ==
    ASSUME RecurInv, NEW r \in Recs, rec[r] # NoRec
    PROVE  rec[r] \in Templates /\ rec[r].queue \in Queues
             /\ rec[r].interval \in Nat \ {0} /\ rec[r].interval \in Intervals
             /\ rec[r].count \in Nat
BY RecurAssumption DEF RecurAssumption, RecurInv, RecShapes, Templates

LEMMA IntervalsNat == Intervals \subseteq Nat
BY RecurAssumption DEF RecurAssumption

LEMMA NotNoRec ==
    ASSUME NEW t \in Templates
    PROVE  t # NoRec
<1>1. t \in [queue : Queues, interval : Int, count : Int]
  <2>1. t = [queue |-> t.queue, interval |-> t.interval, count |-> t.count]
    BY DEF Templates
  <2>2. t.queue \in Queues /\ t.interval \in Intervals /\ t.count \in Nat
    BY DEF Templates
  <2>3. t.interval \in Int /\ t.count \in Int
    <3>1. t.interval \in Nat
      BY <2>2, IntervalsNat, Zenon
    <3> QED BY <2>2, <3>1
  <2> QED BY <2>1, <2>2, <2>3
<1> QED BY <1>1, RecurAssumption DEF RecurAssumption

\* Of m whole intervals that fit into a, m are no longer than a.
LEMMA Fits ==
    ASSUME NEW a \in Nat, NEW i \in Nat \ {0}, NEW m \in Nat, m <= a \div i
    PROVE  m * i <= a
<1>1. i * (a \div i) <= a /\ a \div i \in Nat
  BY Z3
<1>2. m * i <= (a \div i) * i
  BY <1>1, Z3
<1> QED BY <1>1, <1>2, Z3

LEMMA OnKeeps ==
    ASSUME RecurInv, NEW r \in Recs, NEW q \in Queues, NEW i \in Intervals, NEW o \in Offsets,
           On(r, q, i, o)
    PROVE  RecurInv'
<1>1. PICK c \in Nat : rec' = [rec EXCEPT ![r] = [queue |-> q, interval |-> i, count |-> c]]
  BY Template DEF On, RecurInv, RecShapes
<1>2. [queue |-> q, interval |-> i, count |-> c] \in Templates
  BY DEF Templates
<1>3. time' = time /\ time + o \in Nat /\ time + o > i /\ i \in Nat /\ time + o > 0
  BY RecurAssumption DEF RecurAssumption, On, RecurInv, RecShapes
<1>4. \A p \in Queues, s \in Recs :
        nextDue'[p][s] = IF s # r THEN nextDue[p][s] ELSE IF p = q THEN time + o
                     ELSE IF rec[r] # NoRec /\ rec[r].queue = p THEN 0 ELSE nextDue[p][s]
  BY DEF On, Scheduled, RecurInv, RecShapes
<1>5. RecShapes'
  <2>1. nextDue' \in [Queues -> [Recs -> Nat]]
    BY <1>3 DEF On, Scheduled, RecurInv, RecShapes
  <2>2. rec' \in [Recs -> Templates \cup {NoRec}]
    BY <1>1, <1>2 DEF RecurInv, RecShapes
  <2>3. last' \in [Recs -> Nat]
    BY DEF On, RecurInv, RecShapes
  <2> QED BY <1>3, <2>1, <2>2, <2>3 DEF RecurInv, RecShapes
<1>6. \A s \in Recs : rec'[s] = IF s = r THEN [queue |-> q, interval |-> i, count |-> c] ELSE rec[s]
  BY <1>1 DEF RecurInv, RecShapes
<1>7. rec'[r] # NoRec /\ rec'[r].queue = q /\ rec'[r].interval = i
  BY <1>2, <1>6, NotNoRec
<1>8. Positive'
  <2> SUFFICES ASSUME NEW s \in Recs
               PROVE  /\ rec'[s] # NoRec => nextDue'[rec'[s].queue][s] > rec'[s].interval
                      /\ last'[s] > 0 => rec'[s] # NoRec
    BY DEF Positive
  <2>1. CASE s = r
    BY <1>3, <1>4, <1>7, <2>1
  <2>2. CASE s # r
    <3>1. last'[s] = last[s]
      BY <2>2 DEF On, RecurInv, RecShapes
    <3> QED BY <1>4, <1>6, <2>2, <3>1, Template DEF RecurInv, Positive
  <2> QED BY <2>1, <2>2
<1>9. RecurPlaced'
  <2> SUFFICES ASSUME NEW s \in Recs, NEW p \in Queues
               PROVE  nextDue'[p][s] > 0 <=> rec'[s] # NoRec /\ rec'[s].queue = p
    BY DEF RecurPlaced
  <2>1. CASE s = r
    BY <1>3, <1>4, <1>7, <2>1 DEF RecurInv, RecurPlaced, RecShapes
  <2>2. CASE s # r
    BY <1>4, <1>6, <2>2 DEF RecurInv, RecurPlaced
  <2> QED BY <2>1, <2>2
<1>10. OnSchedule'
  <2> SUFFICES ASSUME NEW s \in Recs, last'[s] > 0
               PROVE  last'[s] <= time' /\ nextDue'[rec'[s].queue][s] = last'[s] + rec'[s].interval
    BY DEF OnSchedule
  <2>1. s # r
    BY DEF On, RecurInv, RecShapes
  <2>2. last'[s] = last[s] /\ rec'[s] = rec[s]
    BY <1>6, <2>1 DEF On, RecurInv, RecShapes
  <2>3. rec[s] # NoRec
    BY <2>2 DEF RecurInv, Positive
  <2> QED BY <1>3, <1>4, <2>1, <2>2, <2>3, Template DEF RecurInv, OnSchedule
<1> QED BY <1>5, <1>8, <1>9, <1>10 DEF RecurInv
LEMMA OffKeeps ==
    ASSUME RecurInv, NEW r \in Recs, Off(r)
    PROVE  RecurInv'
<1>1. rec[r] # NoRec /\ rec[r].queue \in Queues
  BY Template DEF Off
<1>2. \A s \in Recs : /\ rec'[s] = IF s = r THEN NoRec ELSE rec[s]
                      /\ last'[s] = IF s = r THEN 0 ELSE last[s]
  BY DEF Off, RecurInv, RecShapes
<1>3. \A p \in Queues, s \in Recs :
        nextDue'[p][s] = IF s = r /\ p = rec[r].queue THEN 0 ELSE nextDue[p][s]
  BY <1>1 DEF Off, RecurInv, RecShapes
<1>4. RecShapes'
  BY DEF Off, RecurInv, RecShapes
<1>5. Positive'
  BY <1>2, <1>3, Template DEF RecurInv, Positive
<1>6. RecurPlaced'
  BY <1>1, <1>2, <1>3 DEF RecurInv, RecurPlaced, RecShapes
<1>7. OnSchedule'
  <2> SUFFICES ASSUME NEW s \in Recs, last'[s] > 0
               PROVE  last'[s] <= time' /\ nextDue'[rec'[s].queue][s] = last'[s] + rec'[s].interval
    BY DEF OnSchedule
  <2>1. s # r /\ last'[s] = last[s] /\ rec'[s] = rec[s]
    BY <1>2
  <2>2. rec[s] # NoRec
    BY <2>1 DEF RecurInv, Positive
  <2> QED BY <1>3, <2>1, <2>2, Template DEF RecurInv, OnSchedule, Off
<1> QED BY <1>4, <1>5, <1>6, <1>7 DEF RecurInv

LEMMA SetIntervalKeeps ==
    ASSUME RecurInv, NEW r \in Recs, NEW i \in Intervals, SetInterval(r, i)
    PROVE  RecurInv'
<1>1. rec[r] # NoRec /\ rec[r].queue \in Queues /\ rec[r].interval \in Nat /\ i \in Nat
  BY Template, RecurAssumption DEF SetInterval, RecurAssumption
<1>2. \A s \in Recs : /\ s # r => rec'[s] = rec[s]
                      /\ rec'[r].queue = rec[r].queue /\ rec'[r].interval = i
  BY DEF SetInterval, RecurInv, RecShapes, Templates
<1>3. rec'[r] \in Templates
  BY <1>1 DEF SetInterval, RecurInv, RecShapes, Templates
<1>4. \A p \in Queues, s \in Recs :
        nextDue'[p][s] = IF s = r /\ p = rec[r].queue THEN nextDue[p][s] + (i - rec[r].interval)
                     ELSE nextDue[p][s]
  BY <1>1 DEF SetInterval, RecurInv, RecShapes
<1>5. nextDue[rec[r].queue][r] > rec[r].interval /\ nextDue[rec[r].queue][r] \in Nat
  BY <1>1 DEF RecurInv, Positive, RecShapes
<1>6. nextDue[rec[r].queue][r] + (i - rec[r].interval) \in Nat
        /\ nextDue[rec[r].queue][r] + (i - rec[r].interval) > i
  BY <1>1, <1>5
<1>7. rec' \in [Recs -> Templates \cup {NoRec}]
  BY <1>3 DEF SetInterval, RecurInv, RecShapes
<1>8. RecShapes'
  <2>1. nextDue' \in [Queues -> [Recs -> Nat]]
    BY <1>6 DEF SetInterval, RecurInv, RecShapes
  <2> QED BY <1>7, <2>1 DEF SetInterval, RecurInv, RecShapes
<1>9. Positive'
  <2> SUFFICES ASSUME NEW s \in Recs
               PROVE  /\ rec'[s] # NoRec => nextDue'[rec'[s].queue][s] > rec'[s].interval
                      /\ last'[s] > 0 => rec'[s] # NoRec
    BY DEF Positive
  <2>1. CASE s = r
    BY <1>1, <1>2, <1>3, <1>4, <1>6, <2>1, NotNoRec
  <2>2. CASE s # r
    BY <1>2, <1>4, <2>2, Template DEF RecurInv, Positive, SetInterval
  <2> QED BY <2>1, <2>2
<1>10. RecurPlaced'
  <2> SUFFICES ASSUME NEW s \in Recs, NEW p \in Queues
               PROVE  nextDue'[p][s] > 0 <=> rec'[s] # NoRec /\ rec'[s].queue = p
    BY DEF RecurPlaced
  <2>1. CASE s = r
    <3>1. rec'[r] # NoRec
      BY <1>3, NotNoRec
    <3> QED BY <1>1, <1>2, <1>4, <1>6, <2>1, <3>1 DEF RecurInv, RecurPlaced
  <2>2. CASE s # r
    BY <1>2, <1>4, <2>2 DEF RecurInv, RecurPlaced
  <2> QED BY <2>1, <2>2
<1>11. OnSchedule'
  <2> SUFFICES ASSUME NEW s \in Recs, last'[s] > 0
               PROVE  last'[s] <= time' /\ nextDue'[rec'[s].queue][s] = last'[s] + rec'[s].interval
    BY DEF OnSchedule
  <2>1. last'[s] = last[s] /\ time' = time /\ rec[s] # NoRec /\ last[s] \in Nat
    BY DEF SetInterval, RecurInv, Positive, RecShapes
  <2>2. last[s] <= time /\ nextDue[rec[s].queue][s] = last[s] + rec[s].interval
    BY <2>1 DEF RecurInv, OnSchedule
  <2>3. CASE s = r
    BY <1>1, <1>2, <1>4, <2>1, <2>2, <2>3
  <2>4. CASE s # r
    BY <1>2, <1>4, <2>1, <2>2, <2>4, Template
  <2> QED BY <2>3, <2>4
<1> QED BY <1>8, <1>9, <1>10, <1>11 DEF RecurInv

LEMMA SetQueueKeeps ==
    ASSUME RecurInv, NEW r \in Recs, NEW q \in Queues, SetQueue(r, q)
    PROVE  RecurInv'
<1>1. rec[r] # NoRec /\ rec[r].queue \in Queues /\ rec[r].interval \in Nat
        /\ nextDue[rec[r].queue][r] \in Nat
  BY Template DEF SetQueue, RecurInv, RecShapes
<1>2. \A s \in Recs : /\ s # r => rec'[s] = rec[s]
                      /\ rec'[r].queue = q /\ rec'[r].interval = rec[r].interval
  BY DEF SetQueue, RecurInv, RecShapes, Templates
<1>3. rec'[r] \in Templates
  BY <1>1 DEF SetQueue, RecurInv, RecShapes, Templates
<1>4. \A p \in Queues, s \in Recs :
        nextDue'[p][s] = IF s # r THEN nextDue[p][s] ELSE IF p = q THEN nextDue[rec[r].queue][r]
                     ELSE IF rec[r].queue = p THEN 0 ELSE nextDue[p][s]
  BY <1>1 DEF SetQueue, Scheduled, RecurInv, RecShapes
<1>5. RecShapes'
  <2>1. nextDue' \in [Queues -> [Recs -> Nat]]
    BY <1>1 DEF SetQueue, Scheduled, RecurInv, RecShapes
  <2>2. rec' \in [Recs -> Templates \cup {NoRec}]
    BY <1>3 DEF SetQueue, RecurInv, RecShapes
  <2> QED BY <2>1, <2>2 DEF SetQueue, RecurInv, RecShapes
<1>6. nextDue[rec[r].queue][r] > rec[r].interval
  BY <1>1 DEF RecurInv, Positive
<1>7. rec'[r] # NoRec
  BY <1>3, NotNoRec
<1>8. Positive'
  <2> SUFFICES ASSUME NEW s \in Recs
               PROVE  /\ rec'[s] # NoRec => nextDue'[rec'[s].queue][s] > rec'[s].interval
                      /\ last'[s] > 0 => rec'[s] # NoRec
    BY DEF Positive
  <2>1. CASE s = r
    BY <1>2, <1>4, <1>6, <1>7, <2>1
  <2>2. CASE s # r
    BY <1>2, <1>4, <2>2, Template DEF RecurInv, Positive, SetQueue
  <2> QED BY <2>1, <2>2
<1>9. RecurPlaced'
  <2> SUFFICES ASSUME NEW s \in Recs, NEW p \in Queues
               PROVE  nextDue'[p][s] > 0 <=> rec'[s] # NoRec /\ rec'[s].queue = p
    BY DEF RecurPlaced
  <2>1. CASE s = r
    <3>1. nextDue[rec[r].queue][r] > 0
      BY <1>1, <1>6
    <3> QED BY <1>1, <1>2, <1>4, <1>7, <2>1, <3>1 DEF RecurInv, RecurPlaced
  <2>2. CASE s # r
    BY <1>2, <1>4, <2>2 DEF RecurInv, RecurPlaced
  <2> QED BY <2>1, <2>2
<1>10. OnSchedule'
  <2> SUFFICES ASSUME NEW s \in Recs, last'[s] > 0
               PROVE  last'[s] <= time' /\ nextDue'[rec'[s].queue][s] = last'[s] + rec'[s].interval
    BY DEF OnSchedule
  <2>1. last'[s] = last[s] /\ time' = time /\ rec[s] # NoRec
    BY DEF SetQueue, RecurInv, Positive
  <2>2. last[s] <= time /\ nextDue[rec[s].queue][s] = last[s] + rec[s].interval
    BY <2>1 DEF RecurInv, OnSchedule
  <2>3. CASE s = r
    BY <1>2, <1>4, <2>1, <2>2, <2>3
  <2>4. CASE s # r
    BY <1>2, <1>4, <2>1, <2>2, <2>4, Template
  <2> QED BY <2>3, <2>4
<1> QED BY <1>5, <1>8, <1>9, <1>10 DEF RecurInv
\* The arithmetic of the loop: k jobs of interval i from time t on, with at most as many
\* as are due.
LEMMA Loop ==
    ASSUME NEW t \in Nat \ {0}, NEW n \in Nat, NEW i \in Nat \ {0}, NEW k \in Nat \ {0},
           t <= n, k <= 1 + ((n - t) \div i)
    PROVE  /\ t + k * i \in Nat /\ t + k * i > t
           /\ t + (k - 1) * i \in Nat /\ t + (k - 1) * i <= n
           /\ t + k * i = (t + (k - 1) * i) + i
<1>1. n - t \in Nat /\ k - 1 \in Nat /\ (n - t) \div i \in Int
  OBVIOUS
<1>2. k - 1 <= (n - t) \div i
  BY <1>1
<1>3. (k - 1) * i <= n - t
  BY <1>1, <1>2, Fits
<1>4. (k - 1) * i \in Nat /\ k * i \in Nat
  BY <1>1, Z3
<1>5. k * i = (k - 1) * i + i
  BY <1>1, Z3
<1> QED BY <1>1, <1>3, <1>4, <1>5

LEMMA SpawnKeeps ==
    ASSUME RecurInv, NEW q \in Queues, NEW n \in Nat, NEW k \in Spawns(q, n), NEW T, HandOut(q, k, T)
    PROVE  RecurInv'
<1> DEFINE Spawned(r) == k[r] > 0
<1>1. ASSUME NEW r \in Recs
      PROVE  k[r] \in Nat /\ k[r] <= Backlog(q, r)
  BY DEF Spawns
<1>2. ASSUME NEW r \in Recs, Spawned(r)
      PROVE  /\ rec[r] # NoRec /\ rec[r].queue = q
             /\ rec[r] \in Templates /\ rec[r].interval \in Nat \ {0}
             /\ nextDue[q][r] \in Nat \ {0} /\ nextDue[q][r] <= time
             /\ k[r] \in Nat \ {0} /\ k[r] <= 1 + ((time - nextDue[q][r]) \div rec[r].interval)
  <2>1. k[r] \in Nat \ {0} /\ k[r] <= Backlog(q, r)
    BY <1>1, <1>2
  <2>2. nextDue[q][r] \in 1 .. time
    <3>1. ASSUME nextDue[q][r] \notin 1 .. time
          PROVE  FALSE
      <4>1. Backlog(q, r) = 0
        BY <3>1 DEF Backlog
      <4> QED BY <2>1, <4>1
    <3> QED BY <3>1
  <2>3. nextDue[q][r] \in Nat \ {0} /\ nextDue[q][r] <= time
    BY <2>2 DEF RecurInv, RecShapes
  <2>4. rec[r] # NoRec /\ rec[r].queue = q
    BY <2>3 DEF RecurInv, RecurPlaced
  <2>5. k[r] <= 1 + ((time - nextDue[q][r]) \div rec[r].interval)
    BY <1>1, <2>2 DEF Backlog
  <2> QED BY <2>1, <2>3, <2>4, <2>5, Template
<1>3. ASSUME NEW r \in Recs, Spawned(r)
      PROVE  /\ nextDue[q][r] + k[r] * rec[r].interval \in Nat
             /\ nextDue[q][r] + k[r] * rec[r].interval > nextDue[q][r]
             /\ nextDue[q][r] + (k[r] - 1) * rec[r].interval \in Nat
             /\ nextDue[q][r] + (k[r] - 1) * rec[r].interval <= time
             /\ nextDue[q][r] + k[r] * rec[r].interval
                  = (nextDue[q][r] + (k[r] - 1) * rec[r].interval) + rec[r].interval
  <2>1. time \in Nat
    BY DEF RecurInv, RecShapes
  <2> QED BY <1>2, <1>3, <2>1, Loop
<1>4. ASSUME NEW r \in Recs
      PROVE  /\ rec'[r] = IF Spawned(r) THEN [rec[r] EXCEPT !.count = @ + k[r]] ELSE rec[r]
             /\ last'[r] = IF Spawned(r) THEN nextDue[q][r] + (k[r] - 1) * rec[r].interval ELSE last[r]
             /\ \A p \in Queues :
                  nextDue'[p][r] = IF p = q /\ Spawned(r) THEN nextDue[p][r] + k[r] * rec[r].interval
                               ELSE nextDue[p][r]
  BY DEF HandOut, RecurInv, RecShapes
<1>5. ASSUME NEW r \in Recs, Spawned(r)
      PROVE  rec'[r] \in Templates /\ rec'[r].queue = q /\ rec'[r].interval = rec[r].interval
               /\ rec'[r] # NoRec
  <2>1. rec'[r] = [rec[r] EXCEPT !.count = @ + k[r]]
    BY <1>4, <1>5
  <2>2. rec'[r] \in Templates /\ rec'[r].queue = q /\ rec'[r].interval = rec[r].interval
    BY <1>2, <1>5, <2>1 DEF Templates
  <2> QED BY <2>2, NotNoRec
<1>6. ASSUME NEW r \in Recs, Spawned(r)
      PROVE  /\ last'[r] = nextDue[q][r] + (k[r] - 1) * rec[r].interval
              /\ nextDue'[q][r] = nextDue[q][r] + k[r] * rec[r].interval
              /\ \A p \in Queues : p # q => nextDue'[p][r] = nextDue[p][r]
  BY <1>4, <1>6
<1>7. ASSUME NEW r \in Recs, ~Spawned(r)
       PROVE  /\ rec'[r] = rec[r] /\ last'[r] = last[r]
              /\ \A p \in Queues : nextDue'[p][r] = nextDue[p][r]
  BY <1>4, <1>7
<1>8. RecShapes'
  <2>1. rec' \in [Recs -> Templates \cup {NoRec}]
    <3>1. rec' = [r \in Recs |-> rec'[r]]
      BY DEF HandOut
    <3>2. \A r \in Recs : rec'[r] \in Templates \cup {NoRec}
      BY <1>4, <1>5 DEF RecurInv, RecShapes
    <3> QED BY <3>1, <3>2
  <2>2. nextDue' \in [Queues -> [Recs -> Nat]]
    BY <1>3 DEF HandOut, RecurInv, RecShapes
  <2>3. last' \in [Recs -> Nat]
    BY <1>3 DEF HandOut, RecurInv, RecShapes
  <2> QED BY <2>1, <2>2, <2>3 DEF HandOut, RecurInv, RecShapes
<1>9. ASSUME NEW r \in Recs
      PROVE  /\ rec'[r] # NoRec => nextDue'[rec'[r].queue][r] > rec'[r].interval
             /\ last'[r] > 0 => rec'[r] # NoRec
  <2>1. CASE Spawned(r)
    <3>1. nextDue[q][r] > rec[r].interval
      BY <1>2, <2>1 DEF RecurInv, Positive
    <3> QED BY <1>2, <1>3, <1>6, <1>5, <2>1, <3>1
  <2>2. CASE ~Spawned(r)
    BY <1>7, <2>2, Template DEF RecurInv, Positive
  <2> QED BY <2>1, <2>2
<1>10. ASSUME NEW r \in Recs, NEW p \in Queues
      PROVE  nextDue'[p][r] > 0 <=> rec'[r] # NoRec /\ rec'[r].queue = p
  <2>1. CASE Spawned(r)
    BY <1>2, <1>3, <1>6, <1>5, <2>1 DEF RecurInv, RecurPlaced
  <2>2. CASE ~Spawned(r)
    BY <1>7, <2>2 DEF RecurInv, RecurPlaced
  <2> QED BY <2>1, <2>2
<1>11. ASSUME NEW r \in Recs, last'[r] > 0
      PROVE  last'[r] <= time' /\ nextDue'[rec'[r].queue][r] = last'[r] + rec'[r].interval
  <2>0. time' = time
    BY DEF HandOut
  <2>1. CASE Spawned(r)
    BY <1>2, <1>3, <1>6, <1>5, <2>0, <2>1
  <2>2. CASE ~Spawned(r)
    <3>1. rec'[r] = rec[r] /\ last'[r] = last[r] /\ rec[r] # NoRec
      BY <1>7, <1>11, <2>2 DEF RecurInv, Positive
    <3>2. last[r] <= time /\ nextDue[rec[r].queue][r] = last[r] + rec[r].interval
      BY <1>11, <3>1 DEF RecurInv, OnSchedule
    <3> QED BY <1>7, <2>0, <2>2, <3>1, <3>2, Template
  <2> QED BY <2>1, <2>2
<1> QED BY <1>8, <1>9, <1>10, <1>11 DEF RecurInv, Positive, RecurPlaced, OnSchedule
LEMMA OthersKeep ==
    ASSUME RecurInv, UNCHANGED <<rec, nextDue, last>>, time' = time \/ time' = time + 1
    PROVE  RecurInv'
<1>1. time \in Nat /\ StartTime \in Nat
  BY RecurAssumption DEF RecurAssumption, RecurInv, RecShapes
<1>2. RecShapes' /\ Positive' /\ RecurPlaced'
  BY <1>1 DEF RecurInv, RecShapes, Positive, RecurPlaced
<1>3. OnSchedule'
  BY <1>1 DEF RecurInv, RecShapes, OnSchedule
<1> QED BY <1>2, <1>3 DEF RecurInv

LEMMA RecurStep == RecurInv /\ [RecurNext]_recurVars => RecurInv'
<1> SUFFICES ASSUME RecurInv, [RecurNext]_recurVars
             PROVE  RecurInv'
  OBVIOUS
<1>1. ASSUME NEW q \in Queues, NEW n \in PopSizes, PopSpawning(q, n) \/ PeekSpawning(q, n)
      PROVE  RecurInv'
  <2>1. n \in Nat
    BY RecurAssumption DEF RecurAssumption
  <2>2. PICK k \in Spawns(q, n) : \E T : HandOut(q, k, T)
    BY <1>1 DEF PopSpawning, PeekSpawning
  <2> QED BY <2>1, <2>2, SpawnKeeps
<1>2. ASSUME NEW i \in DOMAIN job, NEW q, Keep(i) \/ DeleteJob(i) \/ Move(i, q)
      PROVE  RecurInv'
  BY <1>2, OthersKeep DEF Keep, DeleteJob, Move
<1>3. CASE TimePasses
  BY <1>3, OthersKeep DEF TimePasses
<1>4. CASE UNCHANGED recurVars
  BY <1>4, OthersKeep DEF recurVars
<1> QED BY <1>1, <1>2, <1>3, <1>4, OnKeeps, OffKeeps, SetIntervalKeeps, SetQueueKeeps DEF RecurNext

LEMMA RecurStarts == RecurInit => RecurInv
<1> SUFFICES ASSUME RecurInit
             PROVE  RecurInv
  OBVIOUS
<1>1. time = StartTime /\ StartTime \in Nat
  BY RecurAssumption DEF RecurInit, RecurAssumption
<1>2. \A r \in Recs : rec[r] = NoRec /\ last[r] = 0 /\ \A q \in Queues : nextDue[q][r] = 0
  BY DEF RecurInit
<1>3. RecShapes
  BY <1>1 DEF RecurInit, RecShapes
<1> QED BY <1>2, <1>3 DEF RecurInv, Positive, RecurPlaced, OnSchedule

\* A template is in the -recur set of the queue it names, and of no other.
THEOREM TemplatesPlaced == RecurSpec => []RecurPlaced
<1>1. RecurInv => RecurPlaced
  BY DEF RecurInv
<1> QED BY <1>1, RecurStarts, RecurStep, PTL DEF RecurSpec

\* Jobs come one interval apart, and none before its time.
THEOREM ScheduleKept == RecurSpec => []OnSchedule
<1>1. RecurInv => OnSchedule
  BY DEF RecurInv
<1> QED BY <1>1, RecurStarts, RecurStep, PTL DEF RecurSpec
-----------------------------------------------------------------------------
(* Names.                                                                  *)

\* No job of a template has a number beyond its count, and a template that never was on
\* has no jobs.
NamesCounted ==
    /\ \A i \in DOMAIN job :
         /\ i \in Names
         /\ rec[i[1]] # NoRec => i[2] <= rec[i[1]].count
         /\ ons[i[1]] > 0
    /\ \A r \in Recs : rec[r] # NoRec => ons[r] > 0

\* Every member of a set has a hash.
JobShapes ==
    /\ work \in [Queues -> SUBSET DOMAIN job]
    /\ locks \in [Queues -> SUBSET DOMAIN job]
    /\ \A i \in DOMAIN job : job[i] \in [state : {"waiting", "running", "kept"}, queue : Queues]
    /\ job = [i \in DOMAIN job |-> job[i]]
    /\ ons \in [Recs -> Nat]

JobInv == RecurInv /\ NamesCounted /\ JobShapes /\ JobPlaced

LEMMA Careful ==
    ASSUME JobInv, NEW r \in Recs, NEW q \in Queues, NEW i \in Intervals, NEW o \in Offsets,
           On(r, q, i, o), rec[r] = NoRec => ons[r] = 0
    PROVE  NamesCounted' /\ JobShapes' /\ JobPlaced'
<1>1. JobShapes' /\ JobPlaced'
  BY DEF On, JobInv, JobShapes, JobPlaced
<1>2. rec' = [rec EXCEPT ![r] = [queue |-> q, interval |-> i,
                                  count |-> IF rec[r] = NoRec THEN 0 ELSE rec[r].count]]
        /\ ons' = [ons EXCEPT ![r] = @ + 1] /\ job' = job
  BY DEF On, JobInv, RecurInv, RecShapes
<1>3. \A s \in Recs : ons'[s] = IF s = r THEN ons[s] + 1 ELSE ons[s]
  BY <1>2 DEF JobInv, JobShapes
<1>4. \A s \in Recs : ons[s] \in Nat
  BY DEF JobInv, JobShapes
<1>5. \A s \in Recs : s # r => rec'[s] = rec[s]
  BY <1>2 DEF JobInv, RecurInv, RecShapes
<1>6. rec[r] # NoRec => rec'[r].count = rec[r].count
  BY <1>2 DEF JobInv, RecurInv, RecShapes
<1>7. ASSUME NEW j \in DOMAIN job
      PROVE  /\ j \in Names
             /\ rec'[j[1]] # NoRec => j[2] <= rec'[j[1]].count
             /\ ons'[j[1]] > 0
  <2>1. j \in Names /\ j[1] \in Recs /\ ons[j[1]] > 0
    BY DEF JobInv, NamesCounted, Names
  <2>2. ons'[j[1]] > 0
    BY <1>3, <1>4, <2>1
  <2>3. CASE j[1] = r
    <3>1. rec[r] # NoRec
      BY <1>4, <2>1, <2>3
    <3> QED BY <1>6, <2>1, <2>2, <2>3, <3>1 DEF JobInv, NamesCounted
  <2>4. CASE j[1] # r
    BY <1>5, <2>1, <2>2, <2>4 DEF JobInv, NamesCounted
  <2> QED BY <2>3, <2>4
<1>8. \A s \in Recs : rec'[s] # NoRec => ons'[s] > 0
  BY <1>3, <1>4, <1>5 DEF JobInv, NamesCounted
<1> QED BY <1>1, <1>2, <1>7, <1>8 DEF NamesCounted

\* Updates of templates keep the counts.
LEMMA CountsStay ==
    ASSUME JobInv, UNCHANGED <<job, work, locks, ons>>,
           \A r \in Recs : rec'[r] # NoRec => rec[r] # NoRec /\ rec'[r].count = rec[r].count
    PROVE  NamesCounted' /\ JobShapes' /\ JobPlaced'
<1>1. JobShapes' /\ JobPlaced'
  BY DEF JobInv, JobShapes, JobPlaced
<1>2. \A j \in DOMAIN job : j[1] \in Recs
  BY DEF JobInv, NamesCounted, Names
<1>3. NamesCounted'
  BY <1>2 DEF JobInv, NamesCounted
<1> QED BY <1>1, <1>3

LEMMA SameHash ==
    ASSUME NEW s, NEW t, NEW p, NEW q
    PROVE  [state |-> s, queue |-> p] = [state |-> t, queue |-> q] <=> s = t /\ p = q
OBVIOUS

LEMMA LifeKeeps ==
    ASSUME JobInv, NEW i \in DOMAIN job, NEW q \in Queues, Keep(i) \/ DeleteJob(i) \/ Move(i, q)
    PROVE  NamesCounted' /\ JobShapes' /\ JobPlaced'
<1>1. job[i].queue \in Queues /\ DOMAIN job' \subseteq DOMAIN job
  BY DEF JobInv, JobShapes, Keep, DeleteJob, Move
<1>2. NamesCounted'
  BY <1>1 DEF JobInv, NamesCounted, Keep, DeleteJob, Move
<1>3. \A p \in Queues : /\ Out(work, i)[p] = work[p] \ {i}
                        /\ Out(locks, i)[p] = locks[p] \ {i}
  BY <1>1 DEF Out, JobInv, JobShapes, JobPlaced
<1>4. \A p \in Queues : locks'[p] = locks[p] \ {i}
  BY <1>3 DEF Keep, DeleteJob, Move
<1>5. locks' \in [Queues -> SUBSET (DOMAIN job \ {i})]
  <2>1. Out(locks, i) = [p \in Queues |-> Out(locks, i)[p]]
    BY DEF Out, JobInv, JobShapes
  <2>2. locks' = Out(locks, i)
    BY DEF Keep, DeleteJob, Move
  <2> QED BY <1>3, <2>1, <2>2 DEF JobInv, JobShapes
<1>6. CASE Keep(i)
  <2>1. /\ \A j \in DOMAIN job : j # i => job'[j] = job[j]
        /\ job'[i].state = "kept" /\ job'[i].queue = job[i].queue
        /\ DOMAIN job' = DOMAIN job
    BY <1>6 DEF Keep, JobInv, JobShapes
  <2>2. \A p \in Queues : work'[p] = work[p] \ {i}
    BY <1>3, <1>6 DEF Keep
  <2>3. JobShapes'
    <3>1. job'[i] \in [state : {"waiting", "running", "kept"}, queue : Queues]
      BY <1>6 DEF Keep, JobInv, JobShapes
    <3>2. \A j \in DOMAIN job' :
            job'[j] \in [state : {"waiting", "running", "kept"}, queue : Queues]
      BY <2>1, <3>1 DEF JobInv, JobShapes
    <3>3. job' = [j \in DOMAIN job' |-> job'[j]]
      BY <1>6 DEF Keep, JobInv, JobShapes
    <3>4. work' \in [Queues -> SUBSET DOMAIN job'] /\ locks' \in [Queues -> SUBSET DOMAIN job']
      BY <1>5, <1>6, <2>1, <2>2 DEF Keep, Out, JobInv, JobShapes
    <3> QED BY <1>6, <3>2, <3>3, <3>4 DEF Keep, JobInv, JobShapes
  <2>4. JobPlaced'
    BY <1>4, <2>1, <2>2 DEF JobInv, JobPlaced
  <2> QED BY <1>2, <2>3, <2>4
<1>7. CASE DeleteJob(i)
  <2>1. DOMAIN job' = DOMAIN job \ {i} /\ \A j \in DOMAIN job' : job'[j] = job[j]
    BY <1>7 DEF DeleteJob
  <2>2. \A p \in Queues : work'[p] = work[p] \ {i}
    BY <1>3, <1>7 DEF DeleteJob
  <2>3. JobShapes'
    BY <1>1, <1>5, <1>7, <2>1, <2>2 DEF DeleteJob, Out, JobInv, JobShapes
  <2>4. JobPlaced'
    BY <1>4, <2>1, <2>2 DEF JobInv, JobPlaced
  <2> QED BY <1>2, <2>3, <2>4
<1>8. CASE Move(i, q)
  <2>1. /\ \A j \in DOMAIN job : j # i => job'[j] = job[j]
        /\ job'[i] = [state |-> "waiting", queue |-> q]
        /\ DOMAIN job' = DOMAIN job
    BY <1>8 DEF Move, JobInv, JobShapes
  <2>2. \A p \in Queues : work'[p] = IF p = q THEN work[p] \cup {i} ELSE work[p] \ {i}
    <3>1. Out(work, i) = [p \in Queues |-> Out(work, i)[p]]
      BY DEF Out, JobInv, JobShapes
    <3>2. \A p \in Queues : work'[p] = IF p = q THEN Out(work, i)[p] \cup {i} ELSE Out(work, i)[p]
      BY <1>8, <3>1 DEF Move
    <3> QED BY <1>3, <3>2
  <2>3. JobShapes'
    <3>1. work' = [p \in Queues |-> work'[p]]
      BY <1>8 DEF Move, Out, JobInv, JobShapes
    <3>2. work' \in [Queues -> SUBSET DOMAIN job']
      BY <2>1, <2>2, <3>1 DEF JobInv, JobShapes
    <3>3. locks' \in [Queues -> SUBSET DOMAIN job']
      BY <1>5, <2>1
    <3>4. \A j \in DOMAIN job' :
            job'[j] \in [state : {"waiting", "running", "kept"}, queue : Queues]
      BY <2>1 DEF JobInv, JobShapes
    <3>5. job' = [j \in DOMAIN job' |-> job'[j]]
      BY <1>8 DEF Move, JobInv, JobShapes
    <3>6. ons' \in [Recs -> Nat]
      BY <1>8 DEF Move, JobInv, JobShapes
    <3> QED BY <3>2, <3>3, <3>4, <3>5, <3>6 DEF JobShapes
  <2>4. ASSUME NEW j \in DOMAIN job', NEW p \in Queues
        PROVE  /\ j \in work'[p] <=> job'[j] = [state |-> "waiting", queue |-> p]
               /\ j \in locks'[p] <=> job'[j] = [state |-> "running", queue |-> p]
    <3>1. CASE j = i
      <4>1. job'[i] = [state |-> "waiting", queue |-> p] <=> p = q
        BY <2>1, SameHash
      <4>2. job'[i] # [state |-> "running", queue |-> p]
        BY <2>1, SameHash
      <4>3. i \in work'[p] <=> p = q
        BY <2>2
      <4>4. i \notin locks'[p]
        BY <1>4
      <4> QED BY <3>1, <4>1, <4>2, <4>3, <4>4
    <3>2. CASE j # i
      <4>1. j \in DOMAIN job /\ job'[j] = job[j]
        BY <2>1, <3>2
      <4>2. (j \in work'[p] <=> j \in work[p]) /\ (j \in locks'[p] <=> j \in locks[p])
        BY <1>4, <2>2, <3>2
      <4> QED BY <4>1, <4>2 DEF JobInv, JobPlaced
    <3> QED BY <3>1, <3>2
  <2> QED BY <1>2, <2>3, <2>4 DEF JobPlaced
<1> QED BY <1>6, <1>7, <1>8
LEMMA NewAreNew ==
    ASSUME JobInv, NEW q \in Queues, NEW n \in Nat, NEW k \in Spawns(q, n), NEW j \in NewNames(k)
    PROVE  /\ j \in Names /\ j \notin DOMAIN job
           /\ k[j[1]] \in Nat /\ k[j[1]] > 0 /\ rec[j[1]] # NoRec
           /\ j[2] <= rec[j[1]].count + k[j[1]]
<1>1. PICK r \in Recs : k[r] > 0 /\ \E i \in 1 .. k[r] : j = <<r, rec[r].count + i>>
  BY DEF NewNames
<1>2. PICK i \in 1 .. k[r] : j = <<r, rec[r].count + i>>
  BY <1>1
<1>3. k[r] \in Nat /\ k[r] <= Backlog(q, r)
  BY DEF Spawns
<1>4. rec[r] # NoRec
  <2>1. ASSUME nextDue[q][r] \notin 1 .. time
        PROVE  FALSE
    <3>1. Backlog(q, r) = 0
      BY <2>1 DEF Backlog
    <3> QED BY <1>1, <1>3, <3>1
  <2>2. nextDue[q][r] > 0
    BY <2>1 DEF JobInv, RecurInv, RecShapes
  <2> QED BY <2>2 DEF JobInv, RecurInv, RecurPlaced
<1>5. rec[r].count \in Nat
  BY <1>4, Template DEF JobInv
<1>6. i \in Nat /\ i > 0 /\ i <= k[r]
  BY <1>2, <1>3
<1>7. j[1] = r /\ j[2] = rec[r].count + i
  BY <1>2
<1>8. j \in Names
  BY <1>2, <1>5, <1>6 DEF Names
<1>9. j \notin DOMAIN job
  <2> SUFFICES ASSUME j \in DOMAIN job
               PROVE  FALSE
    OBVIOUS
  <2>1. j[2] <= rec[r].count
    BY <1>4, <1>7 DEF JobInv, NamesCounted
  <2> QED BY <1>5, <1>6, <1>7, <2>1
<1> QED BY <1>1, <1>3, <1>4, <1>5, <1>6, <1>7, <1>8, <1>9

LEMMA HandPlaces ==
    ASSUME JobInv, NEW q \in Queues, NEW n \in Nat, NEW k \in Spawns(q, n),
           NEW T \in SUBSET (work[q] \cup NewNames(k)), HandOut(q, k, T)
    PROVE  NamesCounted' /\ JobShapes' /\ JobPlaced'
<1> DEFINE new == NewNames(k)
<1>1. DOMAIN job' = DOMAIN job \cup new /\ ons' = ons
  BY DEF HandOut
<1>2. \A j \in DOMAIN job' : job'[j] =
        [state |-> IF j \in T THEN "running" ELSE IF j \in new THEN "waiting" ELSE job[j].state,
         queue |-> IF j \in new THEN q ELSE job[j].queue]
  BY <1>1 DEF HandOut
<1>3. T \subseteq DOMAIN job'
  BY <1>1 DEF JobInv, JobShapes
<1>4. \A p \in Queues : /\ work'[p] = IF p = q THEN (work[p] \cup new) \ T ELSE work[p]
                        /\ locks'[p] = IF p = q THEN locks[p] \cup T ELSE locks[p]
  BY DEF HandOut, JobInv, JobShapes
<1>5. \A j \in DOMAIN job : job[j] \in [state : {"waiting", "running", "kept"}, queue : Queues]
  BY DEF JobInv, JobShapes
<1>6. NamesCounted'
  <2>1. ASSUME NEW r \in Recs
        PROVE  k[r] \in Nat /\ (k[r] = 0 \/ k[r] > 0)
    BY DEF Spawns
  <2>2. ASSUME NEW r \in Recs, k[r] > 0
        PROVE  rec[r] # NoRec /\ rec'[r].count = rec[r].count + k[r]
    <3>1. <<r, rec[r].count + 1>> \in NewNames(k)
      BY <2>1, <2>2 DEF NewNames
    <3>2. <<r, rec[r].count + 1>>[1] = r
      OBVIOUS
    <3>3. rec[r] # NoRec
      BY <3>1, <3>2, NewAreNew
    <3>4. rec[r] \in Templates
      BY <3>3, Template DEF JobInv
    <3>5. rec'[r] = [rec[r] EXCEPT !.count = @ + k[r]]
      BY <2>2 DEF HandOut
    <3> QED BY <3>3, <3>4, <3>5 DEF Templates
  <2>3. ASSUME NEW r \in Recs, k[r] = 0
        PROVE  rec'[r] = rec[r]
    <3>1. ~(k[r] > 0)
      BY <2>3
    <3> QED BY <3>1 DEF HandOut
  <2>4. ASSUME NEW r \in Recs, rec'[r] # NoRec
        PROVE  rec[r] # NoRec /\ rec'[r].count = rec[r].count + k[r]
    <3>1. CASE k[r] > 0
      BY <2>2, <3>1
    <3>2. CASE k[r] = 0
      <4>1. rec'[r] = rec[r] /\ rec[r] # NoRec
        BY <2>4, <2>3, <3>2
      <4>2. rec[r].count \in Nat
        BY <4>1, Template DEF JobInv
      <4> QED BY <3>2, <4>1, <4>2
    <3> QED BY <2>1, <3>1, <3>2
  <2>5. ASSUME NEW j \in DOMAIN job'
        PROVE  /\ j \in Names
               /\ rec'[j[1]] # NoRec => j[2] <= rec'[j[1]].count
               /\ ons'[j[1]] > 0
    <3>1. CASE j \in new
      <4>1. /\ j \in Names /\ rec[j[1]] # NoRec /\ j[2] <= rec[j[1]].count + k[j[1]]
        BY <3>1, NewAreNew
      <4>2. j[1] \in Recs
        BY <4>1 DEF Names
      <4>3. ons[j[1]] > 0
        BY <4>1, <4>2 DEF JobInv, NamesCounted
      <4> QED BY <1>1, <2>4, <4>1, <4>2, <4>3
    <3>2. CASE j \in DOMAIN job
      <4>1. j \in Names /\ j[1] \in Recs /\ j[2] \in Nat /\ ons[j[1]] > 0
        BY <3>2 DEF JobInv, NamesCounted, Names
      <4>2. ASSUME rec'[j[1]] # NoRec
            PROVE  j[2] <= rec'[j[1]].count
        <5>1. /\ rec[j[1]] # NoRec /\ rec'[j[1]].count = rec[j[1]].count + k[j[1]]
              /\ k[j[1]] \in Nat
          BY <2>1, <2>4, <4>1, <4>2
        <5>2. rec[j[1]].count \in Nat
          BY <4>1, <5>1, Template DEF JobInv
        <5>3. j[2] <= rec[j[1]].count
          BY <3>2, <5>1 DEF JobInv, NamesCounted
        <5> QED BY <4>1, <5>1, <5>2, <5>3
      <4> QED BY <1>1, <4>1, <4>2
    <3> QED BY <1>1, <3>1, <3>2
  <2>6. \A r \in Recs : rec'[r] # NoRec => ons'[r] > 0
    BY <1>1, <2>4 DEF JobInv, NamesCounted
  <2> QED BY <2>5, <2>6 DEF NamesCounted
<1>7. JobShapes'
  <2>1. work' \in [Queues -> SUBSET DOMAIN job'] /\ locks' \in [Queues -> SUBSET DOMAIN job']
    BY <1>1, <1>3 DEF HandOut, JobInv, JobShapes
  <2>2. \A j \in DOMAIN job' :
          job'[j] \in [state : {"waiting", "running", "kept"}, queue : Queues]
    <3>1. ASSUME NEW j \in DOMAIN job'
          PROVE  /\ (IF j \in new THEN q ELSE job[j].queue) \in Queues
                 /\ (IF j \in T THEN "running" ELSE IF j \in new THEN "waiting"
                     ELSE job[j].state) \in {"waiting", "running", "kept"}
      BY <1>1, <1>5
    <3> QED BY <1>2, <3>1
  <2>3. job' = [j \in DOMAIN job' |-> job'[j]]
    BY DEF HandOut
  <2> QED BY <1>1, <2>1, <2>2, <2>3 DEF JobInv, JobShapes
<1>8. ASSUME NEW j \in DOMAIN job', NEW p \in Queues
      PROVE  /\ j \in work'[p] <=> job'[j] = [state |-> "waiting", queue |-> p]
             /\ j \in locks'[p] <=> job'[j] = [state |-> "running", queue |-> p]
  <2>1. CASE j \in new
    <3>1. j \notin DOMAIN job
      BY <2>1, NewAreNew
    <3>2. j \notin work[p] /\ j \notin locks[p]
      BY <3>1 DEF JobInv, JobShapes
    <3>3. job'[j] = [state |-> IF j \in T THEN "running" ELSE "waiting", queue |-> q]
      BY <1>2, <2>1
    <3>4. /\ j \in work'[p] <=> p = q /\ j \notin T
          /\ j \in locks'[p] <=> p = q /\ j \in T
      BY <1>4, <2>1, <3>2
    <3>5. /\ job'[j] = [state |-> "waiting", queue |-> p] <=> p = q /\ j \notin T
          /\ job'[j] = [state |-> "running", queue |-> p] <=> p = q /\ j \in T
      <4>1. CASE j \in T
        BY <3>3, <4>1, SameHash
      <4>2. CASE j \notin T
        BY <3>3, <4>2, SameHash
      <4> QED BY <4>1, <4>2
    <3> QED BY <3>4, <3>5
  <2>2. CASE j \notin new /\ j \in T
    <3>1. j \in work[q] /\ j \in DOMAIN job
      BY <2>2 DEF JobInv, JobShapes
    <3>2. job[j] = [state |-> "waiting", queue |-> q]
      BY <3>1 DEF JobInv, JobPlaced
    <3>3. job'[j] = [state |-> "running", queue |-> q]
      BY <1>2, <2>2, <3>2
    <3>4. j \notin locks[p] /\ (p # q => j \notin work[p])
      BY <3>1, <3>2 DEF JobInv, JobPlaced
    <3>5. j \notin work'[p] /\ (j \in locks'[p] <=> p = q)
      BY <1>4, <2>2, <3>4
    <3>6. /\ job'[j] # [state |-> "waiting", queue |-> p]
          /\ job'[j] = [state |-> "running", queue |-> p] <=> p = q
      BY <3>3, SameHash
    <3> QED BY <3>5, <3>6
  <2>3. CASE j \notin new /\ j \notin T
    <3>1. j \in DOMAIN job
      BY <1>1, <2>3
    <3>2. job'[j] = job[j]
      BY <1>2, <1>5, <2>3, <3>1
    <3>3. (j \in work'[p] <=> j \in work[p]) /\ (j \in locks'[p] <=> j \in locks[p])
      BY <1>4, <2>3
    <3> QED BY <3>1, <3>2, <3>3 DEF JobInv, JobPlaced
  <2> QED BY <2>1, <2>2, <2>3
<1> QED BY <1>6, <1>7, <1>8 DEF JobPlaced
LEMMA JobStep == JobInv /\ [NoReuseNext]_recurVars => JobInv'
<1> SUFFICES ASSUME JobInv, [NoReuseNext]_recurVars
             PROVE  JobInv'
  OBVIOUS
<1>1. ASSUME NEW r \in Recs, NEW q \in Queues, NEW i \in Intervals, NEW o \in Offsets,
             On(r, q, i, o), NoReuseNext
      PROVE  NamesCounted' /\ JobShapes' /\ JobPlaced'
  <2>1. rec'[r] # NoRec
    <3>1. rec'[r] \in {[queue |-> q, interval |-> i, count |-> c] : c \in Nat}
      BY <1>1, Template DEF On, JobInv, RecurInv, RecShapes
    <3>2. rec'[r] \in Templates
      BY <3>1 DEF Templates
    <3> QED BY <3>2, NotNoRec
  <2>2. rec[r] = NoRec => ons[r] = 0
    BY <1>1, <2>1 DEF NoReuseNext
  <2> QED BY <1>1, <2>2, Careful
<1>2. ASSUME NEW r \in Recs, NEW i, NEW q, Off(r) \/ SetInterval(r, i) \/ SetQueue(r, q)
      PROVE  NamesCounted' /\ JobShapes' /\ JobPlaced'
  <2>1. rec[r] # NoRec /\ UNCHANGED <<job, work, locks, ons>>
    BY <1>2 DEF Off, SetInterval, SetQueue
  <2>2. rec[r] \in Templates
    BY <2>1, Template DEF JobInv
  <2>3. \A s \in Recs : s # r => rec'[s] = rec[s]
    BY <1>2 DEF Off, SetInterval, SetQueue, JobInv, RecurInv, RecShapes
  <2>4. rec'[r] # NoRec => rec'[r].count = rec[r].count
    BY <1>2, <2>2 DEF Off, SetInterval, SetQueue, JobInv, RecurInv, RecShapes, Templates
  <2> QED BY <2>1, <2>3, <2>4, CountsStay
<1>3. ASSUME NEW q \in Queues, NEW n \in PopSizes, PopSpawning(q, n)
      PROVE  NamesCounted' /\ JobShapes' /\ JobPlaced'
  <2>1. n \in Nat
    BY RecurAssumption DEF RecurAssumption
  <2>2. PICK k \in Spawns(q, n) : \E T \in SUBSET (work[q] \cup NewNames(k)) : HandOut(q, k, T)
    BY <1>3 DEF PopSpawning
  <2> QED BY <2>1, <2>2, HandPlaces
<1>4. ASSUME NEW q \in Queues, NEW n \in PopSizes, PeekSpawning(q, n)
      PROVE  NamesCounted' /\ JobShapes' /\ JobPlaced'
  <2>1. n \in Nat
    BY RecurAssumption DEF RecurAssumption
  <2>2. PICK k \in Spawns(q, n) : HandOut(q, k, {})
    BY <1>4 DEF PeekSpawning
  <2> QED BY <2>1, <2>2, HandPlaces
<1>5. TimePasses => NamesCounted' /\ JobShapes' /\ JobPlaced'
  BY CountsStay DEF TimePasses
<1>6. UNCHANGED recurVars => NamesCounted' /\ JobShapes' /\ JobPlaced'
  BY CountsStay DEF recurVars
<1>7. ASSUME NEW i \in DOMAIN job, Keep(i) \/ DeleteJob(i)
      PROVE  NamesCounted' /\ JobShapes' /\ JobPlaced'
  <2>1. job[i].queue \in Queues
    BY DEF JobInv, JobShapes
  <2> QED BY <1>7, <2>1, LifeKeeps
<1>8. ASSUME NEW i \in DOMAIN job, NEW q \in Queues, Move(i, q)
      PROVE  NamesCounted' /\ JobShapes' /\ JobPlaced'
  BY <1>8, LifeKeeps
<1>9. NamesCounted' /\ JobShapes' /\ JobPlaced'
  BY <1>1, <1>2, <1>3, <1>4, <1>5, <1>6, <1>7, <1>8 DEF NoReuseNext, RecurNext
<1>10. RecurInv'
  <2>1. NoReuseNext => RecurNext
    BY DEF NoReuseNext
  <2> QED BY <2>1, RecurStep DEF JobInv
<1> QED BY <1>9, <1>10 DEF JobInv

LEMMA JobsStart == RecurInit => JobInv
<1>1. RecurInit => NamesCounted /\ JobShapes /\ JobPlaced
  BY DEF RecurInit, NamesCounted, JobShapes, JobPlaced
<1> QED BY <1>1, RecurStarts DEF JobInv

LEMMA JobsTyped == JobInv => RecTypeOK
<1> SUFFICES ASSUME JobInv PROVE RecTypeOK
  OBVIOUS
<1>1. DOMAIN job \subseteq Names
  BY DEF JobInv, NamesCounted
<1>2. time \in Nat /\ rec \in [Recs -> Templates \cup {NoRec}]
        /\ nextDue \in [Queues -> [Recs -> Nat]] /\ last \in [Recs -> Nat]
  BY DEF JobInv, RecurInv, RecShapes
<1> QED BY <1>1, <1>2 DEF JobInv, JobShapes, RecTypeOK

\* With clients that never reuse the jid of a template they turned off, spawning writes
\* over no job.
THEOREM JobsPlaced == NoReuseSpec => []JobPlaced
<1>1. JobInv => JobPlaced
  BY DEF JobInv
<1> QED BY <1>1, JobsStart, JobStep, PTL DEF NoReuseSpec
-----------------------------------------------------------------------------
(* Spawning on demand.                                                     *)

\* Finitely many templates are on and finitely many jobs wait, since each call adds a few.
TurnedOn == {r \in Recs : rec[r] # NoRec}

FewInv ==
    /\ RecurInv
    /\ IsFiniteSet(TurnedOn)
    /\ DOMAIN work = Queues /\ DOMAIN locks = Queues
    /\ \A q \in Queues : IsFiniteSet(work[q])

\* A template that spawns is on.
LEMMA OnlyOnSpawn ==
    ASSUME RecurInv, NEW q \in Queues, NEW n \in Nat, NEW k \in Spawns(q, n), NEW r \in Recs,
           k[r] > 0
    PROVE  r \in TurnedOn /\ rec[r].count \in Nat /\ k[r] \in 1 .. n
<1>1. k[r] \in 0 .. n /\ k[r] <= Backlog(q, r)
  BY DEF Spawns
<1>2. nextDue[q][r] \in 1 .. time
  <2>1. ASSUME nextDue[q][r] \notin 1 .. time
        PROVE  FALSE
    <3>1. Backlog(q, r) = 0
      BY <2>1 DEF Backlog
    <3> QED BY <1>1, <3>1
  <2> QED BY <2>1
<1>3. nextDue[q][r] > 0
  BY <1>2 DEF RecurInv, RecShapes
<1>4. rec[r] # NoRec
  BY <1>3 DEF RecurInv, RecurPlaced
<1> QED BY <1>1, <1>4, Template DEF TurnedOn

\* A pop spawns finitely many jobs, no more than are wanted.
LEMMA FewSpawned ==
    ASSUME FewInv, NEW q \in Queues, NEW n \in Nat, NEW k \in Spawns(q, n)
    PROVE  IsFiniteSet(NewNames(k)) /\ Cardinality(NewNames(k)) <= n
<1> DEFINE number(j) == j[2] - rec[j[1]].count
           f == [j \in NewNames(k) |-> <<j[1], number(j)>>]
<1>1. ASSUME NEW j \in NewNames(k)
      PROVE  /\ j = <<j[1], j[2]>> /\ j[1] \in TurnedOn /\ number(j) \in 1 .. n
             /\ j[2] = rec[j[1]].count + number(j)
  <2>1. PICK r \in Recs : k[r] > 0 /\ \E i \in 1 .. k[r] : j = <<r, rec[r].count + i>>
    BY DEF NewNames
  <2>2. PICK i \in 1 .. k[r] : j = <<r, rec[r].count + i>>
    BY <2>1
  <2>3. r \in TurnedOn /\ rec[r].count \in Nat /\ k[r] \in 1 .. n
    BY <2>1, OnlyOnSpawn DEF FewInv
  <2>4. i \in 1 .. n
    BY <2>2, <2>3
  <2> QED BY <2>2, <2>3, <2>4
<1> HIDE DEF number
<1>2. f \in [NewNames(k) -> TurnedOn \X (1 .. n)]
  BY <1>1
<1>3. ASSUME NEW i \in NewNames(k), NEW j \in NewNames(k), f[i] = f[j]
      PROVE  i = j
  <2>1. i[1] = j[1] /\ number(i) = number(j)
    BY <1>3
  <2>2. i[2] = j[2]
    BY <1>1, <2>1
  <2> QED BY <1>1, <2>1, <2>2
<1>4. f \in Injection(NewNames(k), TurnedOn \X (1 .. n))
  BY <1>2, <1>3 DEF Injection, IsInjective
<1>5. IsFiniteSet(TurnedOn \X (1 .. n))
  <2>1. IsFiniteSet(1 .. n)
    BY FS_Interval
  <2>2. IsFiniteSet(TurnedOn)
    BY DEF FewInv
  <2> QED BY <2>1, <2>2, FS_Product
<1>6. IsFiniteSet(NewNames(k))
  <2> HIDE DEF f
  <2> QED BY <1>4, <1>5, FS_Injection
<1> QED BY <1>6 DEF Spawns

LEMMA HandFew ==
    ASSUME FewInv, NEW q \in Queues, NEW n \in Nat, NEW k \in Spawns(q, n), NEW T,
           HandOut(q, k, T)
    PROVE  FewInv'
<1>1. RecurInv'
  BY SpawnKeeps DEF FewInv
<1>2. TurnedOn' \subseteq TurnedOn
  <2> SUFFICES ASSUME NEW r \in Recs, rec'[r] # NoRec
               PROVE  r \in TurnedOn
    BY DEF TurnedOn
  <2>1. CASE k[r] > 0
    BY <2>1, OnlyOnSpawn DEF FewInv
  <2>2. CASE ~(k[r] > 0)
    BY <2>2 DEF HandOut, TurnedOn
  <2> QED BY <2>1, <2>2
<1>3. IsFiniteSet(TurnedOn')
  BY <1>2, FS_Subset DEF FewInv
<1>4. /\ DOMAIN work' = Queues /\ DOMAIN locks' = Queues
      /\ \A p \in Queues : work'[p] = IF p = q THEN (work[p] \cup NewNames(k)) \ T ELSE work[p]
  BY DEF HandOut, FewInv
<1>5. IsFiniteSet((work[q] \cup NewNames(k)) \ T)
  <2>1. IsFiniteSet(work[q] \cup NewNames(k))
    BY FewSpawned, FS_Union DEF FewInv
  <2> QED BY <2>1, FS_Subset
<1> QED BY <1>1, <1>3, <1>4, <1>5 DEF FewInv

LEMMA LifeFew ==
    ASSUME FewInv, NEW i \in DOMAIN job, NEW q, Keep(i) \/ DeleteJob(i) \/ Move(i, q)
    PROVE  /\ DOMAIN work' = Queues /\ DOMAIN locks' = Queues
           /\ \A p \in Queues : IsFiniteSet(work'[p]) /\ locks'[p] \subseteq locks[p]
<1>1. \A p \in Queues : Out(work, i)[p] \subseteq work[p] /\ Out(locks, i)[p] \subseteq locks[p]
  BY DEF Out, FewInv
<1>2. DOMAIN Out(work, i) = Queues /\ DOMAIN Out(locks, i) = Queues
  BY DEF Out, FewInv
<1>3. locks' = Out(locks, i)
  BY DEF Keep, DeleteJob, Move
<1>4. work' = Out(work, i) \/ work' = [Out(work, i) EXCEPT ![q] = @ \cup {i}]
  BY DEF Keep, DeleteJob, Move
<1>5. ASSUME NEW p \in Queues
      PROVE  IsFiniteSet(work'[p])
  <2>1. work'[p] \subseteq work[p] \cup {i}
    BY <1>1, <1>2, <1>4
  <2>2. IsFiniteSet(work[p] \cup {i})
    BY FS_AddElement DEF FewInv
  <2> QED BY <2>1, <2>2, FS_Subset
<1> QED BY <1>1, <1>2, <1>3, <1>4, <1>5

\* The steps that neither spawn nor hand out a job.
LEMMA OthersFew ==
    ASSUME FewInv, UNCHANGED <<work, locks>>, RecurInv', NEW r, TurnedOn' \subseteq TurnedOn \cup {r}
    PROVE  FewInv'
<1>1. IsFiniteSet(TurnedOn')
  BY FS_AddElement, FS_Subset DEF FewInv
<1> QED BY <1>1 DEF FewInv

\* A pop takes as many jobs as it adds, or all there are.
LEMMA PopTakes ==
    ASSUME NEW W, IsFiniteSet(W), NEW N, IsFiniteSet(N), NEW n \in Nat, Cardinality(N) <= n,
           NEW T \in SUBSET (W \cup N),
           Cardinality(T) = IF n < Cardinality(W \cup N) THEN n ELSE Cardinality(W \cup N)
    PROVE  Cardinality((W \cup N) \ T) <= Cardinality(W)
<1>1. IsFiniteSet(W \cup N) /\ Cardinality(W \cup N) <= Cardinality(W) + Cardinality(N)
  <2>1. Cardinality(W \cap N) \in Nat
    BY FS_CardinalityType, FS_Subset
  <2>2. Cardinality(W) \in Nat /\ Cardinality(N) \in Nat
    BY FS_CardinalityType
  <2>3. Cardinality(W \cup N) = Cardinality(W) + Cardinality(N) - Cardinality(W \cap N)
    BY FS_Union
  <2>4. IsFiniteSet(W \cup N)
    BY FS_Union
  <2> QED BY <2>1, <2>2, <2>3, <2>4
<1>2. Cardinality((W \cup N) \ T) = Cardinality(W \cup N) - Cardinality(T)
  <2>1. (W \cup N) \cap T = T
    OBVIOUS
  <2> QED BY <1>1, <2>1, FS_Difference
<1>3. /\ Cardinality(W) \in Nat /\ Cardinality(N) \in Nat /\ Cardinality(W \cup N) \in Nat
  BY <1>1, FS_CardinalityType
<1> QED BY <1>1, <1>2, <1>3

LEMMA PopOnDemand ==
    ASSUME FewInv, NEW p \in Queues, NEW n \in Nat, PopSpawning(p, n), NEW q \in Queues,
           ~(locks'[q] \subseteq locks[q])
    PROVE  Cardinality(work'[q]) <= Cardinality(work[q])
<1>1. PICK k \in Spawns(p, n) : \E T \in SUBSET (work[p] \cup NewNames(k)) :
        /\ Cardinality(T) = IF n < Cardinality(work[p] \cup NewNames(k)) THEN n
                            ELSE Cardinality(work[p] \cup NewNames(k))
        /\ HandOut(p, k, T)
  BY DEF PopSpawning
<1>2. PICK T \in SUBSET (work[p] \cup NewNames(k)) :
        /\ Cardinality(T) = IF n < Cardinality(work[p] \cup NewNames(k)) THEN n
                            ELSE Cardinality(work[p] \cup NewNames(k))
        /\ HandOut(p, k, T)
  BY <1>1
<1>3. q = p
  BY <1>2 DEF HandOut, FewInv
<1>4. work'[p] = (work[p] \cup NewNames(k)) \ T
  BY <1>2 DEF HandOut, FewInv
<1>5. IsFiniteSet(work[p]) /\ IsFiniteSet(NewNames(k)) /\ Cardinality(NewNames(k)) <= n
  BY FewSpawned DEF FewInv
<1>6. Cardinality((work[p] \cup NewNames(k)) \ T) <= Cardinality(work[p])
  BY <1>2, <1>5, PopTakes
<1> QED BY <1>3, <1>4, <1>6

LEMMA PeekLocksNothing ==
    ASSUME FewInv, NEW p \in Queues, NEW n, PeekSpawning(p, n), NEW q \in Queues
    PROVE  locks'[q] \subseteq locks[q]
<1>1. PICK k : HandOut(p, k, {})
  BY DEF PeekSpawning
<1> QED BY <1>1 DEF HandOut, FewInv

LEMMA FewStep == FewInv /\ [RecurNext]_recurVars => FewInv'
<1> SUFFICES ASSUME FewInv, [RecurNext]_recurVars
             PROVE  FewInv'
  OBVIOUS
<1>1. RecurInv'
  BY RecurStep DEF FewInv
<1>2. ASSUME NEW r \in Recs, NEW q, NEW i, NEW o,
             On(r, q, i, o) \/ Off(r) \/ SetInterval(r, i) \/ SetQueue(r, q)
      PROVE  FewInv'
  <2>1. \A s \in Recs : s # r => rec'[s] = rec[s]
    BY <1>2 DEF On, Off, SetInterval, SetQueue, FewInv, RecurInv, RecShapes
  <2>2. TurnedOn' \subseteq TurnedOn \cup {r}
    BY <2>1 DEF TurnedOn
  <2>3. UNCHANGED <<work, locks>>
    BY <1>2 DEF On, Off, SetInterval, SetQueue
  <2> QED BY <1>1, <2>2, <2>3, OthersFew
<1>3. ASSUME NEW q \in Queues, NEW n \in PopSizes, PopSpawning(q, n) \/ PeekSpawning(q, n)
      PROVE  FewInv'
  <2>1. n \in Nat
    BY RecurAssumption DEF RecurAssumption
  <2>2. PICK k \in Spawns(q, n) : \E T : HandOut(q, k, T)
    BY <1>3 DEF PopSpawning, PeekSpawning
  <2> QED BY <2>1, <2>2, HandFew
<1>4. ASSUME NEW i \in DOMAIN job, NEW q, Keep(i) \/ DeleteJob(i) \/ Move(i, q)
      PROVE  FewInv'
  <2>1. TurnedOn' = TurnedOn
    BY <1>4 DEF Keep, DeleteJob, Move, TurnedOn
  <2> QED BY <1>1, <1>4, <2>1, LifeFew DEF FewInv
<1>5. ASSUME TimePasses \/ UNCHANGED recurVars
      PROVE  FewInv'
  <2>1. TurnedOn' = TurnedOn /\ UNCHANGED <<work, locks>>
    BY <1>5 DEF TimePasses, recurVars, TurnedOn
  <2> QED BY <1>1, <2>1, OthersFew
<1> QED BY <1>2, <1>3, <1>4, <1>5 DEF RecurNext

\* A pop spawns no more than it hands out.
THEOREM SpawnedOnDemand == RecurSpec => SpawnOnDemand
<1>1. RecurInit => FewInv
  <2> SUFFICES ASSUME RecurInit
               PROVE  FewInv
    OBVIOUS
  <2>1. TurnedOn = {}
    BY DEF RecurInit, TurnedOn
  <2> QED BY <2>1, RecurStarts, FS_EmptySet DEF RecurInit, FewInv
<1>2. FewInv /\ [RecurNext]_recurVars =>
        [\A q \in Queues :
           ~(locks'[q] \subseteq locks[q]) => Cardinality(work'[q]) <= Cardinality(work[q])]_recurVars
  <2> SUFFICES ASSUME FewInv, RecurNext, NEW q \in Queues, ~(locks'[q] \subseteq locks[q])
               PROVE  Cardinality(work'[q]) <= Cardinality(work[q])
    OBVIOUS
  <2>1. ASSUME UNCHANGED locks
        PROVE  FALSE
    BY <2>1
  <2>2. ASSUME NEW i \in DOMAIN job, NEW p, Keep(i) \/ DeleteJob(i) \/ Move(i, p)
        PROVE  FALSE
    BY <2>2, LifeFew
  <2>3. PICK p \in Queues, n \in PopSizes : PopSpawning(p, n)
    <3>1. ASSUME NEW p \in Queues, NEW n, PeekSpawning(p, n)
          PROVE  FALSE
      BY <3>1, PeekLocksNothing
    <3> QED BY <2>1, <2>2, <3>1 DEF RecurNext, On, Off, SetInterval, SetQueue, TimePasses
  <2>4. n \in Nat
    BY RecurAssumption DEF RecurAssumption
  <2> QED BY <2>3, <2>4, PopOnDemand
<1> QED BY <1>1, <1>2, FewStep, PTL DEF RecurSpec, SpawnOnDemand
-----------------------------------------------------------------------------
(* The parts together, of which one moves while the others rest.           *)

PartsInv ==
    /\ TagsInv
    /\ OrderInv /\ DatesInv
    /\ JobInv
    /\ WorkersInv
    /\ BoardTypeOK /\ ListenersCurrent

\* A step of one part is a step of each, that of a resting part a stutter.
LEMMA EachMoves ==
    ASSUME [PartsNext]_<<part, tagVars, orderVars, recurVars, workersVars, boardVars>>
    PROVE  /\ [TagsNext]_tagVars /\ [OrderNext]_orderVars /\ [NoReuseNext]_recurVars
           /\ [WorkersNext]_workersVars /\ [BoardNext]_boardVars
BY DEF PartsNext, TurnNext, BoardNext

LEMMA PartsTypes == PartsInv => PartsTypeOK
<1> SUFFICES ASSUME PartsInv PROVE PartsTypeOK
  OBVIOUS
<1>1. TagsTypeOK /\ WorkersTypeOK /\ BoardTypeOK
  BY DEF PartsInv, TagsInv, WorkersInv
<1>2. OrderTypeOK
  BY DatesTyped DEF PartsInv
<1>3. RecTypeOK
  BY JobsTyped DEF PartsInv
<1> QED BY <1>1, <1>2, <1>3 DEF PartsTypeOK

\* Tags are found, recurring jobs are on schedule and overwrite nothing, workers answers right,
\* and the board is drawn, burned, and settled as it should be, all with the right types,
\* whichever part moves.
THEOREM PartsSound ==
    PartsSpec => [](PartsTypeOK /\ TaggedFound /\ OnSchedule /\ JobPlaced /\ WorkersAnswer
                      /\ ListenersCurrent /\ BurnsRuns /\ ShiftSettles /\ TopologyAgrees)
<1>1. PartsInit => PartsInv
  BY TagsStart, OrderStarts, JobsStart, WorkersStart, BoardStarts DEF PartsInit, PartsInv
<1>2. PartsInv /\ [PartsNext]_<<part, tagVars, orderVars, recurVars, workersVars, boardVars>>
        => PartsInv'
  <2> SUFFICES ASSUME PartsInv,
                      [PartsNext]_<<part, tagVars, orderVars, recurVars, workersVars, boardVars>>
               PROVE  PartsInv'
    OBVIOUS
  <2>1. TagsInv'
    BY EachMoves, TagsStep DEF PartsInv
  <2>2. OrderInv' /\ DatesInv'
    BY EachMoves, OrderStep, DatesStep DEF PartsInv
  <2>3. JobInv'
    BY EachMoves, JobStep DEF PartsInv
  <2>4. WorkersInv'
    BY EachMoves, WorkersStep DEF PartsInv
  <2>5. BoardTypeOK' /\ ListenersCurrent'
    BY EachMoves, BoardTypesStep DEF PartsInv
  <2> QED BY <2>1, <2>2, <2>3, <2>4, <2>5 DEF PartsInv
<1>3. PartsInv => PartsTypeOK /\ TaggedFound /\ OnSchedule /\ JobPlaced /\ WorkersAnswer
                    /\ ListenersCurrent
  BY PartsTypes DEF PartsInv, TagsInv, JobInv, RecurInv, WorkersInv
<1>4. PartsInv => BurnsRuns /\ ShiftSettles /\ TopologyAgrees
  BY Burns, Settles, Agrees DEF PartsInv
<1> QED BY <1>1, <1>2, <1>3, <1>4, PTL DEF PartsSpec
=============================================================================
