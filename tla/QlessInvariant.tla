--------------------------- MODULE QlessInvariant ---------------------------
(***************************************************************************)
(* The safety invariants of Qless, proved together: none of them is        *)
(* inductive alone.  Pop, complete and retry rely on Placement for the     *)
(* state of the jobs they find in a sorted set, on HolderCurrent for the   *)
(* queue they are told, and the release of dependents on NothingStranded   *)
(* and DependencyInverse.                                                  *)
(***************************************************************************)
EXTENDS Qless, FiniteSetTheorems, TLAPS

\* TypeOK without the bound on remaining, which rests on the rest of the invariant.
LooseJob == Hash(Int)

Typed ==
    /\ job \in [Jids -> LooseJob \cup {NoJob}]
    /\ work \in [Queues -> SUBSET Jids]
    /\ locks \in [Queues -> [Jids -> Lease]]
    /\ scheduled \in [Queues -> [Jids -> Due]]
    /\ depends \in [Queues -> SUBSET Jids]
    /\ workerJobs \in [Workers -> SUBSET Jids]
    /\ dependents \in [Jids -> SUBSET Jids]
    /\ dependencies \in [Jids -> SUBSET Jids]
    /\ completed \in SUBSET Jids
    /\ failed \in [AllGroups -> SUBSET Jids]
    /\ failures \in SUBSET AllGroups
    /\ paused \in SUBSET Queues
    /\ limit \in [Queues -> Nat]
    /\ held \in [Workers -> [Jids -> Queues \cup {NoQueue}]]
-----------------------------------------------------------------------------
(* What the operators on families of sets preserve.                        *)

LEMMA WithoutType ==
    ASSUME NEW K, NEW V, NEW f \in [K -> SUBSET V], NEW k, NEW S
    PROVE  Without(f, k, S) \in [K -> SUBSET V]
BY DEF Without

LEMMA WithType ==
    ASSUME NEW K, NEW V, NEW f \in [K -> SUBSET V], NEW k, NEW S \in SUBSET V
    PROVE  With(f, k, S) \in [K -> SUBSET V]
BY DEF With

LEMMA MarkType ==
    ASSUME NEW V, NEW f \in [Queues -> [Jids -> V]], NEW q, NEW S, NEW v \in V
    PROVE  Mark(f, q, S, v) \in [Queues -> [Jids -> V]]
BY DEF Mark

\* A job's hash with some fields written anew.
LEMMA RecordType ==
    ASSUME NEW r \in LooseJob, NEW s \in States, NEW q \in Queues \cup {NoQueue},
           NEW w \in Workers \cup {NoWorker}, NEW n \in Int, NEW g \in AllGroups \cup {NoGroup}
    PROVE  /\ [r EXCEPT !.state = s] \in LooseJob
           /\ [r EXCEPT !.state = s, !.worker = w, !.remaining = n] \in LooseJob
           /\ [r EXCEPT !.state = s, !.worker = w, !.group = g] \in LooseJob
           /\ [r EXCEPT !.state = s, !.worker = w, !.remaining = n, !.group = g] \in LooseJob
           /\ [r EXCEPT !.state = s, !.queue = q, !.worker = w, !.remaining = n] \in LooseJob
           /\ [r EXCEPT !.state = s, !.worker = w, !.queue = q, !.remaining = n, !.group = g]
                \in LooseJob
BY DEF LooseJob, Hash

LEMMA HashType ==
    ASSUME Typed, NEW j \in Jids, Exists(j)
    PROVE  /\ job[j] \in LooseJob
           /\ job[j].retries \in Nat /\ job[j].remaining \in Int
           /\ job[j].queue \in Queues \cup {NoQueue}
           /\ job[j].worker \in Workers \cup {NoWorker}
           /\ job[j].group \in AllGroups \cup {NoGroup}
BY DEF Typed, Exists, LooseJob, Hash

LEMMA RetryGroupType == \A q \in Queues : RetryGroup(q) \in AllGroups
BY DEF AllGroups

LEMMA UnlistType ==
    ASSUME Typed, NEW g, NEW S, Unlist(g, S)
    PROVE  failed' \in [AllGroups -> SUBSET Jids] /\ failures' \in SUBSET AllGroups
BY WithoutType DEF Unlist, Typed

LEMMA ListType ==
    ASSUME Typed, NEW g \in AllGroups, NEW S \in SUBSET Jids, List(g, S)
    PROVE  failed' \in [AllGroups -> SUBSET Jids] /\ failures' \in SUBSET AllGroups
BY WithType DEF List, Typed

LEMMA WaitOnType ==
    ASSUME Typed, NEW j \in Jids, NEW D \in SUBSET Jids, WaitOn(j, D)
    PROVE  dependents' \in [Jids -> SUBSET Jids] /\ dependencies' \in [Jids -> SUBSET Jids]
<1>1. dependencies' \in [Jids -> SUBSET Jids]
  BY WithType DEF WaitOn, Typed
<1>2. dependents' \in [Jids -> SUBSET Jids]
  BY DEF WaitOn, Typed
<1> QED BY <1>1, <1>2
-----------------------------------------------------------------------------
LEMMA InitTyped ==
    ASSUME Init
    PROVE  Typed
<1>1. job \in [Jids -> LooseJob \cup {NoJob}]
  BY DEF Init
<1>2. /\ locks \in [Queues -> [Jids -> Lease]]
      /\ scheduled \in [Queues -> [Jids -> Due]]
  BY DEF Init, Lease, Due
<1>3. limit \in [Queues -> Nat]
  BY NumbersAssumption DEF NumbersAssumption, Init
<1>4. held \in [Workers -> [Jids -> Queues \cup {NoQueue}]]
  BY DEF Init
<1>5. /\ work \in [Queues -> SUBSET Jids]
      /\ depends \in [Queues -> SUBSET Jids]
      /\ workerJobs \in [Workers -> SUBSET Jids]
      /\ dependents \in [Jids -> SUBSET Jids]
      /\ dependencies \in [Jids -> SUBSET Jids]
      /\ completed \in SUBSET Jids
      /\ failed \in [AllGroups -> SUBSET Jids]
      /\ failures \in SUBSET AllGroups
      /\ paused \in SUBSET Queues
  BY DEF Init
<1> QED BY <1>1, <1>2, <1>3, <1>4, <1>5 DEF Typed

LEMMA PutTyped ==
    ASSUME Typed, NEW q \in Queues, NEW j \in Jids, NEW delayed \in BOOLEAN, NEW r \in RetryCounts,
           NEW D \in SUBSET Jids, Put(q, j, delayed, r, D)
    PROVE  Typed'
<1> DEFINE waits == IF delayed THEN {} ELSE {d \in D : d = j \/ d \in Legit(D)}
           state == IF delayed THEN "scheduled"
                    ELSE IF dependencies[j] \cup waits # {} THEN "depends" ELSE "waiting"
           old   == QueueOf(j)
           into(s) == IF state = s THEN {j} ELSE {}
<1>1. job' \in [Jids -> LooseJob \cup {NoJob}]
  <2>1. job' = [job EXCEPT ![j] = NewHash(j, state, q, r)]
    BY DEF Put
  <2>2. state \in States /\ r \in Nat
    BY NumbersAssumption DEF NumbersAssumption, States
  <2> HIDE DEF state
  <2> QED BY <2>1, <2>2 DEF Typed, LooseJob, Hash, NewHash
<1>2. dependents' \in [Jids -> SUBSET Jids] /\ dependencies' \in [Jids -> SUBSET Jids]
  <2>1. WaitOn(j, waits)
    BY DEF Put
  <2> QED BY <2>1, WaitOnType
<1>3. /\ work' \in [Queues -> SUBSET Jids]
      /\ depends' \in [Queues -> SUBSET Jids]
  <2>1. /\ work' = With(Without(work, old, {j}), q, into("waiting"))
        /\ depends' = With(Without(depends, old, {j}), q, into("depends"))
    BY DEF Put
  <2>2. \A s : into(s) \in SUBSET Jids
    OBVIOUS
  <2> HIDE DEF into, old
  <2> QED BY <2>1, <2>2, WithType, WithoutType DEF Typed
<1>4. /\ locks' \in [Queues -> [Jids -> Lease]]
      /\ scheduled' \in [Queues -> [Jids -> Due]]
  <2>1. /\ locks' = Mark(locks, old, {j}, "none")
        /\ scheduled' = Mark(Mark(scheduled, old, {j}, "none"), q, into("scheduled"), "wait")
    BY DEF Put
  <2>2. "none" \in Lease /\ "none" \in Due /\ "wait" \in Due
    BY DEF Lease, Due
  <2> HIDE DEF into, old
  <2> QED BY <2>1, <2>2, MarkType DEF Typed
<1>5. workerJobs' \in [Workers -> SUBSET Jids] /\ completed' \in SUBSET Jids
  BY WithoutType DEF Put, Typed
<1>6. failed' \in [AllGroups -> SUBSET Jids] /\ failures' \in SUBSET AllGroups
  BY UnlistType DEF Put, Typed, failVars
<1>7. UNCHANGED <<paused, limit, held>>
  BY DEF Put, confVars
<1> QED BY <1>1, <1>2, <1>3, <1>4, <1>5, <1>6, <1>7 DEF Typed

LEMMA CancelTyped ==
    ASSUME Typed, NEW S \in SUBSET Jids, Cancel(S)
    PROVE  Typed'
<1>1. PICK D \in SUBSET {j \in S : ~InState(j, "complete")} :
          /\ job' = [j \in Jids |-> IF j \in D THEN NoJob ELSE job[j]]
          /\ work' = [q \in Queues |-> work[q] \ {j \in D : QueueOf(j) = q}]
          /\ locks' = [q \in Queues |-> [j \in Jids |->
                         IF j \in D /\ QueueOf(j) = q THEN "none" ELSE locks[q][j]]]
          /\ scheduled' = [q \in Queues |-> [j \in Jids |->
                         IF j \in D /\ QueueOf(j) = q THEN "none" ELSE scheduled[q][j]]]
          /\ depends' = [q \in Queues |-> depends[q] \ {j \in D : QueueOf(j) = q}]
          /\ workerJobs' = [w \in Workers |-> workerJobs[w] \ {j \in D : WorkerOf(j) = w}]
          /\ dependents' = [d \in Jids |-> dependents[d] \ {j \in D : d \in dependencies[j]}]
          /\ dependencies' = [j \in Jids |-> IF j \in D THEN {} ELSE dependencies[j]]
          /\ failed' = [g \in AllGroups |-> failed[g] \
                           {j \in D : InState(j, "failed") /\ job[j].group = g}]
          /\ failures' \subseteq failures
          /\ UNCHANGED <<completed, paused, limit, held>>
  BY DEF Cancel, confVars
<1>2. job' \in [Jids -> LooseJob \cup {NoJob}]
  BY <1>1 DEF Typed
<1>3. /\ work' \in [Queues -> SUBSET Jids]
      /\ depends' \in [Queues -> SUBSET Jids]
      /\ workerJobs' \in [Workers -> SUBSET Jids]
      /\ failed' \in [AllGroups -> SUBSET Jids]
  BY <1>1 DEF Typed
<1>4. /\ locks' \in [Queues -> [Jids -> Lease]]
      /\ scheduled' \in [Queues -> [Jids -> Due]]
  BY <1>1 DEF Typed, Lease, Due
<1>5. /\ dependents' \in [Jids -> SUBSET Jids]
      /\ dependencies' \in [Jids -> SUBSET Jids]
  BY <1>1 DEF Typed
<1> QED BY <1>1, <1>2, <1>3, <1>4, <1>5 DEF Typed

LEMMA DependsOnTyped ==
    ASSUME Typed, NEW j \in Jids, NEW D \in SUBSET Jids, DependsOn(j, D)
    PROVE  Typed'
<1>1. Legit(D) \in SUBSET Jids
  BY DEF Legit
<1>2. dependents' \in [Jids -> SUBSET Jids] /\ dependencies' \in [Jids -> SUBSET Jids]
  BY <1>1, WaitOnType DEF DependsOn
<1> QED BY <1>2 DEF Typed, DependsOn, queueVars, failVars, confVars

LEMMA DependsOffTyped ==
    ASSUME Typed, NEW j \in Jids, NEW D \in SUBSET Jids, DependsOff(j, D)
    PROVE  Typed'
<1>1. job' \in [Jids -> LooseJob \cup {NoJob}]
  <2>1. [job[j] EXCEPT !.state = "waiting"] \in LooseJob
    BY HashType, RecordType DEF DependsOff, InState, States
  <2>2. job' \in {job, [job EXCEPT ![j] = [job[j] EXCEPT !.state = "waiting"]]}
    BY DEF DependsOff
  <2> QED BY <2>1, <2>2 DEF Typed
<1>2. dependents' \in [Jids -> SUBSET Jids] /\ dependencies' \in [Jids -> SUBSET Jids]
  BY WithoutType DEF DependsOff, Typed
<1>3. work' \in [Queues -> SUBSET Jids] /\ depends' \in [Queues -> SUBSET Jids]
  <2>1. With(work, QueueOf(j), {j}) \in [Queues -> SUBSET Jids]
    BY WithType, {j} \in SUBSET Jids DEF Typed
  <2>2. Without(depends, QueueOf(j), {j}) \in [Queues -> SUBSET Jids]
    BY WithoutType DEF Typed
  <2> QED BY <2>1, <2>2 DEF DependsOff, Typed
<1> QED BY <1>1, <1>2, <1>3 DEF DependsOff, Typed, failVars, confVars

LEMMA SomeSubset ==
    ASSUME NEW n, NEW S, NEW T \in Some(n, S)
    PROVE  T \subseteq S
BY DEF Some

LEMMA UnfailTyped ==
    ASSUME Typed, NEW g \in AllGroups, NEW q \in Queues, NEW n \in PopCounts, Unfail(g, q, n)
    PROVE  Typed'
<1>1. PICK S \in SUBSET Jids :
         /\ \A j \in S : Exists(j)
         /\ job' = [j \in Jids |->
               IF j \in S THEN [job[j] EXCEPT !.state = "waiting", !.worker = NoWorker,
                                   !.queue = q, !.remaining = job[j].retries, !.group = NoGroup]
               ELSE job[j]]
         /\ work' = With(work, q, S)
         /\ Unlist(g, S)
         /\ UNCHANGED <<locks, scheduled, depends, workerJobs, depVars, completed, confVars, held>>
  BY SomeSubset DEF Unfail, Typed
<1>2. job' \in [Jids -> LooseJob \cup {NoJob}]
  <2>1. \A j \in S : [job[j] EXCEPT !.state = "waiting", !.worker = NoWorker, !.queue = q,
                        !.remaining = job[j].retries, !.group = NoGroup] \in LooseJob
    <3> TAKE j \in S
    <3>1. j \in Jids /\ Exists(j)
      BY <1>1
    <3> DEFINE r == job[j]
    <3>2. r \in LooseJob /\ r.retries \in Int
      BY <3>1, HashType
    <3>3. "waiting" \in States
      BY DEF States
    <3> HIDE DEF r
    <3>4. [r EXCEPT !.state = "waiting", !.worker = NoWorker, !.queue = q,
                    !.remaining = r.retries, !.group = NoGroup] \in LooseJob
      BY <3>2, <3>3 DEF LooseJob, Hash
    <3> QED BY <3>4 DEF r
  <2> QED BY <1>1, <2>1 DEF Typed
<1>3. work' \in [Queues -> SUBSET Jids]
  BY <1>1, WithType DEF Typed
<1>4. failed' \in [AllGroups -> SUBSET Jids] /\ failures' \in SUBSET AllGroups
  BY <1>1, UnlistType
<1> QED BY <1>1, <1>2, <1>3, <1>4 DEF Typed, depVars, confVars

LEMMA PeekTyped ==
    ASSUME Typed, NEW q \in Queues, NEW n \in PopCounts, Peek(q, n)
    PROVE  Typed'
<1>1. PICK ready \in SUBSET DueIn(q) :
         /\ \A j \in ready : Exists(j)
         /\ job' = [j \in Jids |-> IF j \in ready THEN [job[j] EXCEPT !.state = "waiting"] ELSE job[j]]
         /\ work' = With(work, q, ready)
         /\ scheduled' = Mark(scheduled, q, ready, "none")
         /\ UNCHANGED <<locks, depends, workerJobs, depVars, completed, failVars, confVars, held>>
  BY SomeSubset DEF Peek
<1>2. ready \in SUBSET Jids
  BY DEF DueIn
<1>3. job' \in [Jids -> LooseJob \cup {NoJob}]
  <2>1. \A j \in ready : [job[j] EXCEPT !.state = "waiting"] \in LooseJob
    BY <1>1, <1>2, HashType, RecordType DEF States
  <2> QED BY <1>1, <1>2, <2>1 DEF Typed
<1>4. work' \in [Queues -> SUBSET Jids]
  BY <1>1, <1>2, WithType DEF Typed
<1>5. scheduled' \in [Queues -> [Jids -> Due]]
  BY <1>1, MarkType DEF Typed, Due
<1> QED BY <1>1, <1>3, <1>4, <1>5 DEF Typed, depVars, failVars, confVars

LEMMA ConfigTyped ==
    ASSUME Typed, NEW q \in Queues,
           Pause(q) \/ Unpause(q) \/ \E n \in NewLimits : SetLimit(q, n)
    PROVE  Typed'
BY NumbersAssumption
   DEF NumbersAssumption, Typed, Pause, Unpause, SetLimit, queueVars, depVars, failVars

LEMMA PopAssigns ==
    ASSUME Typed, NEW q \in Queues, NEW w, NEW n, Pop(q, w, n)
    PROVE  \E reclaimed, promoted, taken \in SUBSET Jids :
             /\ reclaimed \subseteq Expired(q)
             /\ promoted \subseteq DueIn(q) \ Exhausted(reclaimed)
             /\ taken \subseteq (work[q] \ Exhausted(reclaimed)) \cup promoted
             /\ Assign(q, w, reclaimed, promoted, taken)
<1> DEFINE count == Allowance(q, n)
           upTo(k, S) == IF k < count THEN Some(count - k, S) ELSE {{}}
<1>1. ASSUME NEW k, NEW S, NEW T \in upTo(k, S)
      PROVE  T \in SUBSET S
  BY <1>1, SomeSubset
<1>2. PICK reclaimed \in Some(count, Expired(q)) :
        \E promoted \in upTo(Cardinality(reclaimed \ Exhausted(reclaimed)),
                             DueIn(q) \ Exhausted(reclaimed)) :
        \E taken \in upTo(Cardinality(reclaimed \ Exhausted(reclaimed)),
                          (work[q] \ Exhausted(reclaimed)) \cup promoted) :
           Assign(q, w, reclaimed, promoted, taken)
  BY DEF Pop
<1> HIDE DEF upTo, count
<1>3. PICK promoted \in SUBSET (DueIn(q) \ Exhausted(reclaimed)) :
        \E taken \in SUBSET ((work[q] \ Exhausted(reclaimed)) \cup promoted) :
           Assign(q, w, reclaimed, promoted, taken)
  BY <1>1, <1>2
<1>4. PICK taken \in SUBSET ((work[q] \ Exhausted(reclaimed)) \cup promoted) :
           Assign(q, w, reclaimed, promoted, taken)
  BY <1>3
<1>5. reclaimed \subseteq Expired(q)
  BY <1>2, SomeSubset
<1>6. Expired(q) \subseteq Jids /\ DueIn(q) \subseteq Jids /\ work[q] \subseteq Jids
  BY DEF Expired, DueIn, Typed
<1>7. /\ reclaimed \in SUBSET Jids /\ promoted \in SUBSET Jids /\ taken \in SUBSET Jids
  BY <1>3, <1>4, <1>5, <1>6
<1> QED BY <1>3, <1>4, <1>5, <1>7

LEMMA AssignTyped ==
    ASSUME Typed, NEW q \in Queues, NEW w \in Workers, NEW reclaimed \in SUBSET Jids,
           NEW promoted \in SUBSET Jids, NEW taken \in SUBSET Jids,
           Assign(q, w, reclaimed, promoted, taken)
    PROVE  Typed'
<1> DEFINE out  == Exhausted(reclaimed)
           keys == (reclaimed \ out) \cup taken
           left(j) == IF j \in reclaimed THEN job[j].remaining - 1 ELSE job[j].remaining
<1>2. out \in SUBSET reclaimed /\ keys \in SUBSET Jids
  BY DEF Exhausted
<1>3. \A j \in keys \cup out : j \in Jids /\ Exists(j)
  BY <1>2 DEF Assign
<1> HIDE DEF out
<1>4. job' \in [Jids -> LooseJob \cup {NoJob}]
  <2>1. ASSUME NEW j \in keys \cup out
        PROVE  job[j] \in LooseJob /\ left(j) \in Int
    BY <1>3, HashType
  <2>2. ASSUME NEW j \in keys
        PROVE  [job[j] EXCEPT !.state = "running", !.worker = w, !.remaining = left(j)] \in LooseJob
    <3>1. job[j] \in LooseJob /\ left(j) \in Int
      BY <2>1
    <3> HIDE DEF keys, left
    <3> QED BY <3>1, RecordType DEF States
  <2>3. ASSUME NEW j \in out
        PROVE  [job[j] EXCEPT !.state = "failed", !.worker = NoWorker, !.remaining = left(j),
                              !.group = RetryGroup(q)] \in LooseJob
    <3>1. job[j] \in LooseJob /\ left(j) \in Int
      BY <2>1
    <3> HIDE DEF keys, left
    <3> QED BY <3>1, RecordType, RetryGroupType DEF States
  <2>4. job' = [j \in Jids |->
             IF j \in keys THEN [job[j] EXCEPT !.state = "running", !.worker = w,
                                               !.remaining = left(j)]
             ELSE IF j \in out
             THEN [job[j] EXCEPT !.state = "failed", !.worker = NoWorker,
                                 !.remaining = left(j), !.group = RetryGroup(q)]
             ELSE job[j]]
    BY DEF Assign, out
  <2> HIDE DEF keys, left
  <2> QED BY <2>2, <2>3, <2>4 DEF Typed
<1>5. work' \in [Queues -> SUBSET Jids]
  <2>1. With(work, q, promoted) \in [Queues -> SUBSET Jids]
    BY WithType DEF Typed
  <2>2. work' = Without(With(work, q, promoted), q, keys \cup out)
    BY DEF Assign, out
  <2> QED BY <2>1, <2>2, WithoutType
<1>6. locks' \in [Queues -> [Jids -> Lease]] /\ scheduled' \in [Queues -> [Jids -> Due]]
  <2>1. "none" \in Lease /\ "live" \in Lease /\ "none" \in Due
    BY DEF Lease, Due
  <2>2. /\ locks' = Mark(Mark(locks, q, out, "none"), q, keys, "live")
        /\ scheduled' = Mark(scheduled, q, promoted \cup out, "none")
    BY DEF Assign, out
  <2> HIDE DEF keys
  <2> QED BY <2>1, <2>2, MarkType DEF Typed
<1>7. workerJobs' \in [Workers -> SUBSET Jids]
  <2>1. HandOver(w, keys, reclaimed)
    BY DEF Assign, out
  <2> QED BY <1>2, <2>1 DEF HandOver, Typed
<1>8. failed' \in [AllGroups -> SUBSET Jids] /\ failures' \in SUBSET AllGroups
  <2>1. List(RetryGroup(q), out)
    BY DEF Assign, out
  <2> QED BY <1>2, <2>1, ListType, RetryGroupType
<1>9. held' \in [Workers -> [Jids -> Queues \cup {NoQueue}]]
  <2>1. held' = [held EXCEPT ![w] = [j \in Jids |-> IF j \in keys THEN q ELSE @[j]]]
    BY DEF Assign, out
  <2> QED BY <2>1 DEF Typed
<1>10. UNCHANGED <<depends, dependents, dependencies, completed, paused, limit>>
  BY DEF Assign, depVars, confVars
<1> QED
  BY <1>4, <1>5, <1>6, <1>7, <1>8, <1>9, <1>10 DEF Typed

LEMMA PopTyped ==
    ASSUME Typed, NEW q \in Queues, NEW w \in Workers, NEW n \in PopCounts, Pop(q, w, n)
    PROVE  Typed'
BY PopAssigns, AssignTyped

LEMMA HeartbeatTyped ==
    ASSUME Typed, NEW j \in Jids, NEW w \in Workers, Heartbeat(j, w)
    PROVE  Typed'
<1>1. locks' \in [Queues -> [Jids -> Lease]]
  BY MarkType, "live" \in Lease DEF Heartbeat, Typed, Lease
<1>2. workerJobs' \in [Workers -> SUBSET Jids]
  BY WithType, {j} \in SUBSET Jids DEF Heartbeat, Typed
<1> QED BY <1>1, <1>2 DEF Heartbeat, Typed, depVars, failVars, confVars

LEMMA ForgetType ==
    ASSUME Typed, NEW j \in Jids, NEW w \in Workers, Forget(w, j)
    PROVE  held' \in [Workers -> [Jids -> Queues \cup {NoQueue}]]
<1>1. [held[w] EXCEPT ![j] = NoQueue] \in [Jids -> Queues \cup {NoQueue}]
  BY DEF Typed
<1>2. held' = [held EXCEPT ![w] = [held[w] EXCEPT ![j] = NoQueue]]
  BY DEF Forget
<1> QED BY <1>1, <1>2 DEF Typed

LEMMA FinishTyped ==
    ASSUME Typed, NEW j \in Jids, NEW w \in Workers, NEW q, Finish(j, w, q)
    PROVE  /\ locks' \in [Queues -> [Jids -> Lease]]
           /\ workerJobs' \in [Workers -> SUBSET Jids]
           /\ held' \in [Workers -> [Jids -> Queues \cup {NoQueue}]]
           /\ Exists(j)
<1>1. locks' \in [Queues -> [Jids -> Lease]]
  BY MarkType, "none" \in Lease DEF Finish, Typed, Lease
<1>2. workerJobs' \in [Workers -> SUBSET Jids]
  BY WithoutType DEF Finish, Typed
<1> QED BY <1>1, <1>2, ForgetType DEF Finish, Running, InState

LEMMA AdvanceTyped ==
    ASSUME Typed, NEW j \in Jids, NEW w \in Workers, NEW next \in Queues,
           NEW delayed \in BOOLEAN, NEW D \in SUBSET Jids, Advance(j, w, next, delayed, D)
    PROVE  Typed'
<1> DEFINE q == held[w][j]
           waits == IF delayed THEN {} ELSE {d \in D : d = j \/ d \in Legit(D)}
           into(now) == IF now THEN {j} ELSE {}
<1>1. Finish(j, w, q)
  BY DEF Advance
<1>2. /\ locks' \in [Queues -> [Jids -> Lease]]
      /\ workerJobs' \in [Workers -> SUBSET Jids]
      /\ held' \in [Workers -> [Jids -> Queues \cup {NoQueue}]]
      /\ Exists(j)
  BY <1>1, FinishTyped
<1>3. job' \in [Jids -> LooseJob \cup {NoJob}]
  <2> DEFINE s == IF waits # {} THEN "depends" ELSE "waiting"
             r == job[j]
  <2>1. job' = [job EXCEPT ![j] = [r EXCEPT !.state = s, !.queue = next, !.worker = NoWorker,
                                            !.remaining = r.retries]]
    BY DEF Advance
  <2>2. s \in States
    BY DEF States
  <2>3. r \in LooseJob /\ r.retries \in Int
    BY <1>2, HashType
  <2> HIDE DEF s, r
  <2>4. [r EXCEPT !.state = s, !.queue = next, !.worker = NoWorker, !.remaining = r.retries] \in LooseJob
    BY <2>2, <2>3, RecordType
  <2> QED BY <2>1, <2>4 DEF Typed
<1>4. dependents' \in [Jids -> SUBSET Jids] /\ dependencies' \in [Jids -> SUBSET Jids]
  <2>1. WaitOn(j, waits)
    BY DEF Advance
  <2> QED BY <2>1, WaitOnType
<1>5. \A b : into(b) \in SUBSET Jids
  OBVIOUS
<1>6. work' \in [Queues -> SUBSET Jids]
  <2>1. work' = With(Without(work, q, {j}), next, into(~delayed /\ waits = {}))
    BY DEF Advance
  <2>2. Without(work, q, {j}) \in [Queues -> SUBSET Jids]
    BY WithoutType DEF Typed
  <2> HIDE DEF into, waits, q
  <2> QED BY <1>5, <2>1, <2>2, WithType
<1>7. scheduled' \in [Queues -> [Jids -> Due]]
  <2>1. scheduled' = Mark(Mark(scheduled, q, {j}, "none"), next, into(delayed), "wait")
    BY DEF Advance
  <2>2. "none" \in Due /\ "wait" \in Due
    BY DEF Due
  <2> HIDE DEF into, q
  <2> QED BY <2>1, <2>2, MarkType DEF Typed
<1>8. depends' \in [Queues -> SUBSET Jids]
  <2>1. depends' = With(depends, next, into(waits # {}))
    BY DEF Advance
  <2> HIDE DEF into, waits
  <2> QED BY <1>5, <2>1, WithType DEF Typed
<1>9. UNCHANGED <<completed, failed, failures, paused, limit>>
  BY DEF Advance, failVars, confVars
<1> QED BY <1>2, <1>3, <1>4, <1>6, <1>7, <1>8, <1>9 DEF Typed

LEMMA CompleteTyped ==
    ASSUME Typed, NEW j \in Jids, NEW w \in Workers, Complete(j, w)
    PROVE  Typed'
<1> DEFINE q == held[w][j]
<1>1. Finish(j, w, q)
  BY DEF Complete
<1>2. /\ locks' \in [Queues -> [Jids -> Lease]]
      /\ workerJobs' \in [Workers -> SUBSET Jids]
      /\ held' \in [Workers -> [Jids -> Queues \cup {NoQueue}]]
      /\ Exists(j)
  BY <1>1, FinishTyped
<1>3. PICK kept \in Histories(j) :
        LET trimmed == completed \ kept
            freed == FreedBy(j) \ trimmed
        IN
        /\ completed' = kept
        /\ job' = [d \in Jids |->
             IF d = j THEN [job[j] EXCEPT !.state = "complete", !.queue = NoQueue,
                                !.worker = NoWorker, !.remaining = job[j].retries]
             ELSE IF d \in trimmed THEN NoJob
             ELSE IF d \in freed THEN [job[d] EXCEPT !.state = "waiting"]
             ELSE job[d]]
        /\ work' = [p \in Queues |-> (IF p = q THEN work[p] \ {j} ELSE work[p])
                                        \cup {d \in freed : QueueOf(d) = p}]
        /\ depends' = [p \in Queues |-> depends[p] \ {d \in freed : QueueOf(d) = p}]
  BY DEF Complete
<1>4. completed' \in SUBSET Jids
  BY <1>3 DEF Histories, Typed
<1> DEFINE trimmed == completed \ kept
           freed == FreedBy(j) \ trimmed
<1>5. \A d \in freed : d \in Jids /\ Exists(d)
  BY DEF FreedBy, Typed
<1>6. job' \in [Jids -> LooseJob \cup {NoJob}]
  <2> DEFINE r == job[j]
  <2>1. r \in LooseJob /\ r.retries \in Int
    BY <1>2, HashType
  <2>2. [r EXCEPT !.state = "complete", !.queue = NoQueue, !.worker = NoWorker,
                  !.remaining = r.retries] \in LooseJob
    <3> HIDE DEF r
    <3> QED BY <2>1, RecordType DEF States
  <2>3. ASSUME NEW d \in freed
        PROVE  [job[d] EXCEPT !.state = "waiting"] \in LooseJob
    <3>1. job[d] \in LooseJob
      BY <1>5, HashType
    <3> QED BY <3>1, "waiting" \in States DEF LooseJob, Hash, States
  <2>4. job' = [d \in Jids |->
             IF d = j THEN [r EXCEPT !.state = "complete", !.queue = NoQueue,
                                !.worker = NoWorker, !.remaining = r.retries]
             ELSE IF d \in trimmed THEN NoJob
             ELSE IF d \in freed THEN [job[d] EXCEPT !.state = "waiting"]
             ELSE job[d]]
    BY <1>3
  <2> HIDE DEF r, trimmed, freed
  <2> QED BY <2>2, <2>3, <2>4 DEF Typed
<1>7. work' \in [Queues -> SUBSET Jids] /\ depends' \in [Queues -> SUBSET Jids]
  BY <1>3, <1>5 DEF Typed
<1>8. scheduled' \in [Queues -> [Jids -> Due]]
  BY MarkType, "none" \in Due DEF Complete, Typed, Due
<1>9. dependents' \in [Jids -> SUBSET Jids] /\ dependencies' \in [Jids -> SUBSET Jids]
  BY DEF Complete, Typed
<1>10. UNCHANGED <<failed, failures, paused, limit>>
  BY DEF Complete, failVars, confVars
<1> QED BY <1>2, <1>4, <1>6, <1>7, <1>8, <1>9, <1>10 DEF Typed

LEMMA FailTyped ==
    ASSUME Typed, NEW j \in Jids, NEW w \in Workers, NEW g \in Groups, Fail(j, w, g)
    PROVE  Typed'
<1> DEFINE r == job[j]
<1>1. r \in LooseJob /\ g \in AllGroups
  BY HashType DEF Fail, InState, AllGroups
<1>2. job' = [job EXCEPT ![j] = [r EXCEPT !.state = "failed", !.worker = NoWorker, !.group = g]]
  BY DEF Fail
<1> HIDE DEF r
<1>3. [r EXCEPT !.state = "failed", !.worker = NoWorker, !.group = g] \in LooseJob
  BY <1>1 DEF LooseJob, Hash, States
<1>4. job' \in [Jids -> LooseJob \cup {NoJob}]
  BY <1>2, <1>3 DEF Typed
<1>5. work' \in [Queues -> SUBSET Jids] /\ workerJobs' \in [Workers -> SUBSET Jids]
  <2>1. Without(work, QueueOf(j), {j}) \in [Queues -> SUBSET Jids]
    BY WithoutType DEF Typed
  <2>2. Without(workerJobs, w, {j}) \in [Workers -> SUBSET Jids]
    BY WithoutType DEF Typed
  <2> QED BY <2>1, <2>2 DEF Fail
<1>6. locks' \in [Queues -> [Jids -> Lease]] /\ scheduled' \in [Queues -> [Jids -> Due]]
  <2>1. Mark(locks, QueueOf(j), {j}, "none") \in [Queues -> [Jids -> Lease]]
    BY MarkType, "none" \in Lease DEF Typed, Lease
  <2>2. Mark(scheduled, QueueOf(j), {j}, "none") \in [Queues -> [Jids -> Due]]
    BY MarkType, "none" \in Due DEF Typed, Due
  <2> QED BY <2>1, <2>2 DEF Fail
<1>7. failed' \in [AllGroups -> SUBSET Jids] /\ failures' \in SUBSET AllGroups
  BY <1>1, {j} \in SUBSET Jids, ListType DEF Fail
<1>8. held' \in [Workers -> [Jids -> Queues \cup {NoQueue}]]
  BY ForgetType DEF Fail
<1> QED BY <1>4, <1>5, <1>6, <1>7, <1>8 DEF Fail, Typed, depVars, confVars

LEMMA RetryTyped ==
    ASSUME Typed, NEW j \in Jids, NEW w \in Workers, NEW delayed \in BOOLEAN, Retry(j, w, delayed)
    PROVE  Typed'
<1> DEFINE q == held[w][j]
           out == j \in Exhausted({j})
           into(now) == IF now /\ ~out THEN {j} ELSE {}
           r == job[j]
           s == IF out THEN "failed" ELSE IF delayed THEN "scheduled" ELSE "waiting"
           v == IF out THEN NoWorker ELSE r.worker
           g == IF out THEN RetryGroup(q) ELSE r.group
<1>1. q \in Queues /\ RetryGroup(q) \in AllGroups
  BY RetryGroupType DEF Retry, Typed
<1>2. job' \in [Jids -> LooseJob \cup {NoJob}]
  <2>1. r \in LooseJob
    BY HashType DEF Retry, Running, InState
  <2>2. s \in States /\ v \in Workers \cup {NoWorker} /\ g \in AllGroups \cup {NoGroup}
        /\ r.remaining - 1 \in Int
    BY <1>1, <2>1 DEF LooseJob, Hash, States
  <2>3. job' = [job EXCEPT ![j] = [r EXCEPT !.state = s, !.worker = v,
                                            !.remaining = r.remaining - 1, !.group = g]]
    BY DEF Retry
  <2> HIDE DEF s, v, g, r, out
  <2>4. [r EXCEPT !.state = s, !.worker = v, !.remaining = r.remaining - 1, !.group = g] \in LooseJob
    BY <2>1, <2>2, RecordType
  <2> QED BY <2>3, <2>4 DEF Typed
<1>3. \A b : into(b) \in SUBSET Jids
  OBVIOUS
<1>4. locks' \in [Queues -> [Jids -> Lease]] /\ scheduled' \in [Queues -> [Jids -> Due]]
  <2>1. /\ locks' = Mark(locks, job[j].queue, {j}, "none")
        /\ scheduled' = Mark(scheduled, q, into(delayed), "wait")
    BY DEF Retry
  <2>2. "none" \in Lease /\ "wait" \in Due
    BY DEF Lease, Due
  <2> HIDE DEF into, q
  <2> QED BY <2>1, <2>2, MarkType DEF Typed
<1>5. work' \in [Queues -> SUBSET Jids] /\ workerJobs' \in [Workers -> SUBSET Jids]
  <2>1. work' = With(work, q, into(~delayed)) /\ workerJobs' = Without(workerJobs, w, {j})
    BY DEF Retry
  <2> HIDE DEF into, q
  <2> QED BY <1>3, <2>1, WithType, WithoutType DEF Typed
<1>6. failed' \in [AllGroups -> SUBSET Jids] /\ failures' \in SUBSET AllGroups
  <2>1. List(RetryGroup(q), IF out THEN {j} ELSE {})
    BY DEF Retry
  <2> QED BY <1>1, <2>1, ListType
<1>7. held' \in [Workers -> [Jids -> Queues \cup {NoQueue}]]
  BY ForgetType DEF Retry
<1> QED BY <1>2, <1>4, <1>5, <1>6, <1>7 DEF Retry, Typed, depVars, confVars

LEMMA EnvironmentTyped ==
    ASSUME Typed, EnvironmentStep
    PROVE  Typed'
<1>1. ASSUME NEW w \in Workers, Crash(w)
      PROVE  Typed'
  <2>1. held' \in [Workers -> [Jids -> Queues \cup {NoQueue}]]
    BY <1>1 DEF Crash, Typed
  <2> QED BY <1>1, <2>1 DEF Crash, Typed, queueVars, depVars, failVars, confVars
<1>2. ASSUME NEW q \in Queues, NEW j \in Jids, Lapse(q, j)
      PROVE  Typed'
  <2>1. locks' \in [Queues -> [Jids -> Lease]]
    <3> DEFINE v == IF locks[q][j] = "live" THEN "edge" ELSE "over"
    <3>1. locks' = Mark(locks, q, {j}, v) /\ v \in Lease
      BY <1>2 DEF Lapse, Lease
    <3> HIDE DEF v
    <3> QED BY <3>1, MarkType DEF Typed
  <2> QED BY <1>2, <2>1 DEF Lapse, Typed, depVars, failVars, confVars
<1>3. ASSUME NEW q \in Queues, NEW j \in Jids, ComeDue(q, j)
      PROVE  Typed'
  <2>1. scheduled' \in [Queues -> [Jids -> Due]]
    BY <1>3, MarkType, "due" \in Due DEF ComeDue, Typed, Due
  <2> QED BY <1>3, <2>1 DEF ComeDue, Typed, depVars, failVars, confVars
<1> QED BY <1>1, <1>2, <1>3 DEF EnvironmentStep

LEMMA RefusedTyped ==
    ASSUME Typed, NEW j \in Jids, NEW w \in Workers, Refused(j, w)
    PROVE  Typed'
BY ForgetType DEF Refused, Typed, queueVars, depVars, failVars, confVars

LEMMA ClientTyped ==
    ASSUME Typed, ClientStep
    PROVE  Typed'
BY PutTyped, CancelTyped, DependsOnTyped, DependsOffTyped, UnfailTyped, PeekTyped, ConfigTyped,
   ClientsAssumption DEF ClientsAssumption, ClientStep

LEMMA WorkerTyped ==
    ASSUME Typed, WorkerStep
    PROVE  Typed'
BY PopTyped, HeartbeatTyped, AdvanceTyped, CompleteTyped, FailTyped, RetryTyped, RefusedTyped,
   ClientsAssumption DEF ClientsAssumption, WorkerStep

LEMMA StepTyped == Typed /\ [Next]_vars => Typed'
<1> SUFFICES ASSUME Typed, [Next]_vars
             PROVE  Typed'
  OBVIOUS
<1>1. CASE Next
  BY <1>1, ClientTyped, WorkerTyped, EnvironmentTyped DEF Next
<1>2. CASE UNCHANGED vars
  BY <1>2 DEF Typed, vars, queueVars, depVars, failVars, confVars
<1> QED BY <1>1, <1>2

\* Every reachable state is of the types that TypeOK gives, the count of remaining retries
\* aside: no script ever writes a field, a set or a sorted set that holds something else.
THEOREM TypesKept == Spec => []Typed
<1>1. Init => Typed
  BY InitTyped
<1> QED BY <1>1, StepTyped, PTL DEF Spec
-----------------------------------------------------------------------------
(* The two sides of the dependency relation.                               *)

LEMMA WaitOnInverse ==
    ASSUME Typed, DependencyInverse, NEW j \in Jids, NEW D \in SUBSET Jids, WaitOn(j, D)
    PROVE  DependencyInverse'
<1>1. \A d \in Jids : dependents'[d] = IF d \in D THEN dependents[d] \cup {j} ELSE dependents[d]
  BY DEF WaitOn
<1>2. \A i \in Jids : dependencies'[i] = IF i = j THEN dependencies[i] \cup D ELSE dependencies[i]
  BY DEF WaitOn, With, Typed
<1>3. ASSUME NEW i \in Jids, NEW d \in Jids
      PROVE  d \in dependencies'[i] <=> i \in dependents'[d]
  <2>1. d \in dependencies[i] <=> i \in dependents[d]
    BY DEF DependencyInverse
  <2> QED BY <1>1, <1>2, <2>1
<1> QED BY <1>3 DEF DependencyInverse

LEMMA CancelInverse ==
    ASSUME Typed, DependencyInverse, NEW S \in SUBSET Jids, Cancel(S)
    PROVE  DependencyInverse'
<1>1. PICK D \in SUBSET Jids :
          /\ dependents' = [d \in Jids |-> dependents[d] \ {j \in D : d \in dependencies[j]}]
          /\ dependencies' = [j \in Jids |-> IF j \in D THEN {} ELSE dependencies[j]]
  BY DEF Cancel
<1> QED BY <1>1 DEF DependencyInverse

LEMMA DependsOffInverse ==
    ASSUME Typed, DependencyInverse, NEW j \in Jids, NEW D \in SUBSET Jids, DependsOff(j, D)
    PROVE  DependencyInverse'
<1>1. \A d \in Jids : dependents'[d] = IF d \in D THEN dependents[d] \ {j} ELSE dependents[d]
  BY DEF DependsOff
<1>2. \A i \in Jids : dependencies'[i] = IF i = j THEN dependencies[i] \ D ELSE dependencies[i]
  BY DEF DependsOff, Without, Typed
<1>3. ASSUME NEW i \in Jids, NEW d \in Jids
      PROVE  d \in dependencies'[i] <=> i \in dependents'[d]
  <2>1. d \in dependencies[i] <=> i \in dependents[d]
    BY DEF DependencyInverse
  <2> QED BY <1>1, <1>2, <2>1
<1> QED BY <1>3 DEF DependencyInverse

LEMMA CompleteInverse ==
    ASSUME Typed, DependencyInverse, NEW j \in Jids, NEW w \in Workers, Complete(j, w)
    PROVE  DependencyInverse'
<1>1. \A d \in Jids : dependencies'[d] =
         IF d \in dependents[j] THEN dependencies[d] \ {j} ELSE dependencies[d]
  BY DEF Complete
<1>2. \A d \in Jids : dependents'[d] = IF d = j THEN {} ELSE dependents[d]
  BY DEF Complete, Typed
<1>3. ASSUME NEW i \in Jids, NEW d \in Jids
      PROVE  d \in dependencies'[i] <=> i \in dependents'[d]
  <2>1. d \in dependencies[i] <=> i \in dependents[d]
    BY DEF DependencyInverse
  <2>2. j \in dependencies[i] <=> i \in dependents[j]
    BY DEF DependencyInverse
  <2> QED BY <1>1, <1>2, <2>1, <2>2
<1> QED BY <1>3 DEF DependencyInverse

LEMMA ClientInverse ==
    ASSUME Typed, DependencyInverse, ClientStep
    PROVE  DependencyInverse'
<1>1. ASSUME NEW q \in Queues, NEW j \in Jids, NEW delayed \in BOOLEAN, NEW r,
             NEW D \in SUBSET Jids, Put(q, j, delayed, r, D)
      PROVE  DependencyInverse'
  BY <1>1, WaitOnInverse DEF Put
<1>2. ASSUME NEW j \in Jids, NEW D \in SUBSET Jids, DependsOn(j, D)
      PROVE  DependencyInverse'
  <2>1. Legit(D) \in SUBSET Jids
    BY DEF Legit
  <2> QED BY <1>2, <2>1, WaitOnInverse DEF DependsOn
<1>3. ASSUME NEW q \in Queues, NEW n,
             Pause(q) \/ Unpause(q) \/ SetLimit(q, n) \/ Peek(q, n)
      PROVE  UNCHANGED depVars
  BY <1>3 DEF Pause, Unpause, SetLimit, Peek
<1>4. ASSUME NEW g, NEW q, NEW n, Unfail(g, q, n)
      PROVE  UNCHANGED depVars
  BY <1>4 DEF Unfail
<1>5. UNCHANGED depVars => DependencyInverse'
  BY DEF depVars, DependencyInverse
<1> QED
  BY <1>1, <1>2, <1>3, <1>4, <1>5, CancelInverse, DependsOffInverse, ClientsAssumption
     DEF ClientsAssumption, ClientStep

LEMMA WorkerInverse ==
    ASSUME Typed, DependencyInverse, WorkerStep
    PROVE  DependencyInverse'
<1>1. ASSUME NEW q \in Queues, NEW w \in Workers, NEW n, Pop(q, w, n)
      PROVE  UNCHANGED depVars
  BY <1>1, PopAssigns DEF Assign
<1>2. ASSUME NEW j \in Jids, NEW w \in Workers, NEW b, Heartbeat(j, w) \/ Refused(j, w) \/ Retry(j, w, b)
      PROVE  UNCHANGED depVars
  BY <1>2 DEF Heartbeat, Refused, Retry
<1>3. ASSUME NEW j \in Jids, NEW w \in Workers, NEW g, Fail(j, w, g)
      PROVE  UNCHANGED depVars
  BY <1>3 DEF Fail
<1>4. ASSUME NEW j \in Jids, NEW w \in Workers, NEW q \in Queues, NEW delayed,
             NEW D \in SUBSET Jids, Advance(j, w, q, delayed, D)
      PROVE  DependencyInverse'
  BY <1>4, WaitOnInverse DEF Advance
<1>5. UNCHANGED depVars => DependencyInverse'
  BY DEF depVars, DependencyInverse
<1> QED BY <1>1, <1>2, <1>3, <1>4, <1>5, CompleteInverse DEF WorkerStep

\* The dependents and the dependencies of jobs, written under separate keys by put,
\* complete, cancel and depends, agree in every reachable state.
THEOREM InverseKept == Spec => []DependencyInverse
<1>1. Init => DependencyInverse
  BY DEF Init, DependencyInverse
<1>2. Typed /\ DependencyInverse /\ [Next]_vars => DependencyInverse'
  <2> SUFFICES ASSUME Typed, DependencyInverse, [Next]_vars
               PROVE  DependencyInverse'
    OBVIOUS
  <2>1. CASE EnvironmentStep
    BY <2>1 DEF EnvironmentStep, Crash, Lapse, ComeDue, depVars, DependencyInverse
  <2>2. CASE UNCHANGED vars
    BY <2>2 DEF vars, depVars, DependencyInverse
  <2> QED BY <2>1, <2>2, ClientInverse, WorkerInverse DEF Next
<1> QED BY <1>1, <1>2, TypesKept, PTL DEF Spec
-----------------------------------------------------------------------------
IInv ==
    /\ Typed
    /\ Placement
    /\ DependencyInverse
    /\ NothingStranded
    /\ OwnerListed
    /\ HolderCurrent
    /\ RetriesLeft
    /\ FailedIndexed
    /\ CompletedIndexed
-----------------------------------------------------------------------------
(* What the operators on families of sets do to one member.                *)

LEMMA WithAt ==
    ASSUME NEW K, NEW V, NEW f \in [K -> V], NEW k, NEW S, NEW x \in K
    PROVE  With(f, k, S)[x] = IF x = k THEN f[x] \cup S ELSE f[x]
BY DEF With

LEMMA WithoutAt ==
    ASSUME NEW K, NEW V, NEW f \in [K -> V], NEW k, NEW S, NEW x \in K
    PROVE  Without(f, k, S)[x] = IF x = k THEN f[x] \ S ELSE f[x]
BY DEF Without

LEMMA MarkAt ==
    ASSUME NEW f, NEW k, NEW S, NEW v, NEW x \in Queues, NEW j \in Jids
    PROVE  Mark(f, k, S, v)[x][j] = IF x = k /\ j \in S THEN v ELSE f[x][j]
BY DEF Mark

\* A job is where it was.
Still(j) ==
    /\ job'[j] = job[j]
    /\ \A q \in Queues :
         /\ j \in work'[q] <=> j \in work[q]
         /\ j \in depends'[q] <=> j \in depends[q]
         /\ locks'[q][j] = locks[q][j]
         /\ scheduled'[q][j] = scheduled[q][j]

LEMMA StillPlaced ==
    ASSUME NEW j \in Jids, Placed(j), Still(j)
    PROVE  Placed(j)'
BY DEF Placed, Still, Exists, QueueOf

LEMMA StrandedKept ==
    ASSUME NothingStranded, UNCHANGED depVars,
           \A j \in Jids : InState(j, "depends")' <=> InState(j, "depends"),
           \A j \in Jids : Exists(j) /\ ~InState(j, "complete")
                             => Exists(j)' /\ ~InState(j, "complete")',
           Typed
    PROVE  NothingStranded'
<1>1. dependencies' = dependencies
  BY DEF depVars
<1>2. \A j \in Jids : dependencies[j] \subseteq Jids
  BY DEF Typed
<1> QED BY <1>1, <1>2 DEF NothingStranded

LEMMA CompletedKept ==
    ASSUME CompletedIndexed, UNCHANGED completed,
           \A j \in Jids : InState(j, "complete")' <=> InState(j, "complete")
    PROVE  CompletedIndexed'
BY DEF CompletedIndexed

\* Whether j is on the list of group g.
Failed(j, g) == InState(j, "failed") /\ job[j].group = g

LEMMA FailedKept ==
    ASSUME FailedIndexed, UNCHANGED failVars,
           \A j \in Jids, g \in AllGroups : Failed(j, g)' <=> Failed(j, g)
    PROVE  FailedIndexed'
BY DEF FailedIndexed, Failed, failVars

LEMMA FailedListed ==
    ASSUME FailedIndexed, Typed, NEW g \in AllGroups, NEW S \in SUBSET Jids, List(g, S),
           \A j \in Jids, f \in AllGroups : Failed(j, f)' <=> Failed(j, f) \/ (j \in S /\ f = g)
    PROVE  FailedIndexed'
<1>1. \A f \in AllGroups : failed'[f] = IF f = g THEN failed[f] \cup S ELSE failed[f]
  BY DEF List, With, Typed
<1>2. ASSUME NEW j \in Jids, NEW f \in AllGroups
      PROVE  j \in failed'[f] <=> Failed(j, f)'
  <2>1. j \in failed[f] <=> Failed(j, f)
    BY DEF FailedIndexed, Failed
  <2>2. Failed(j, f)' <=> Failed(j, f) \/ (j \in S /\ f = g)
    OBVIOUS
  <2> QED BY <1>1, <2>1, <2>2
<1>3. failures' = {f \in AllGroups : failed'[f] # {}}
  <2>1. failures = {f \in AllGroups : failed[f] # {}}
    BY DEF FailedIndexed
  <2>2. CASE S = {}
    BY <1>1, <2>1, <2>2 DEF List
  <2>3. CASE S # {}
    <3>1. failures' = failures \cup {g}
      BY <2>3 DEF List
    <3> QED BY <1>1, <2>1, <2>3, <3>1
  <2> QED BY <2>2, <2>3
<1> QED BY <1>2, <1>3 DEF FailedIndexed, Failed

LEMMA FailedUnlisted ==
    ASSUME FailedIndexed, Typed, NEW g, NEW S \in SUBSET Jids, Unlist(g, S),
           \A j \in Jids, f \in AllGroups : Failed(j, f)' <=> Failed(j, f) /\ ~(j \in S /\ f = g)
    PROVE  FailedIndexed'
<1>1. \A f \in AllGroups : failed'[f] = IF f = g THEN failed[f] \ S ELSE failed[f]
  BY DEF Unlist, Without, Typed
<1>2. ASSUME NEW j \in Jids, NEW f \in AllGroups
      PROVE  j \in failed'[f] <=> Failed(j, f)'
  <2>1. j \in failed[f] <=> Failed(j, f)
    BY DEF FailedIndexed, Failed
  <2>2. Failed(j, f)' <=> Failed(j, f) /\ ~(j \in S /\ f = g)
    OBVIOUS
  <2> QED BY <1>1, <2>1, <2>2
<1>3. failures' = {f \in AllGroups : failed'[f] # {}}
  <2>1. failures = {f \in AllGroups : failed[f] # {}}
    BY DEF FailedIndexed
  <2>2. CASE g \in AllGroups /\ failed[g] \ S = {}
    <3>1. failures' = failures \ {g}
      BY <2>2 DEF Unlist
    <3> QED BY <1>1, <2>1, <2>2, <3>1
  <2>3. CASE ~(g \in AllGroups /\ failed[g] \ S = {})
    <3>1. failures' = failures
      BY <2>3 DEF Unlist
    <3>2. \A f \in AllGroups : failed'[f] # {} <=> failed[f] # {}
      BY <1>1, <2>3
    <3> QED BY <2>1, <3>1, <3>2
  <2> QED BY <2>2, <2>3
<1> QED BY <1>2, <1>3 DEF FailedIndexed, Failed

\* A hash is never mistaken for a missing one.
LEMMA HashExists == \A r \in LooseJob : r # NoJob
BY NullsAssumption DEF NullsAssumption, LooseJob

LEMMA InitInvariant ==
    ASSUME Init
    PROVE  IInv
<1>1. Typed
  BY InitTyped
<1>2. \A j \in Jids : ~Exists(j)
  BY DEF Init, Exists
<1>3. Placement
  BY <1>2 DEF Init, Placement, Placed, Exists, QueueOf
<1>4. DependencyInverse /\ NothingStranded
  BY <1>2 DEF Init, DependencyInverse, NothingStranded, InState
<1>5. OwnerListed /\ HolderCurrent /\ RetriesLeft
  BY <1>2 DEF Init, OwnerListed, HolderCurrent, RetriesLeft, InState
<1>6. FailedIndexed
  BY <1>2 DEF Init, FailedIndexed, InState
<1>7. CompletedIndexed
  <2>1. completed = {} /\ completed = {j \in Jids : InState(j, "complete")}
    BY <1>2 DEF Init, InState
  <2>2. Cardinality({}) = 0
    BY FS_EmptySet
  <2> QED BY <2>1, <2>2, NumbersAssumption DEF NumbersAssumption, CompletedIndexed
<1> QED BY <1>1, <1>3, <1>4, <1>5, <1>6, <1>7 DEF IInv
-----------------------------------------------------------------------------
LEMMA PutKeeps ==
    ASSUME IInv, NEW q \in Queues, NEW j \in Jids, NEW delayed \in BOOLEAN, NEW r \in RetryCounts,
           NEW D \in SUBSET Jids, delayed => dependencies[j] = {}, Put(q, j, delayed, r, D)
    PROVE  IInv'
<1> DEFINE waits == IF delayed THEN {} ELSE {d \in D : d = j \/ d \in Legit(D)}
           state == IF delayed THEN "scheduled"
                    ELSE IF dependencies[j] \cup waits # {} THEN "depends" ELSE "waiting"
           old   == QueueOf(j)
           into(s) == IF state = s THEN {j} ELSE {}
<1>0. /\ Typed /\ Placement /\ DependencyInverse /\ NothingStranded /\ OwnerListed
      /\ HolderCurrent /\ RetriesLeft /\ FailedIndexed /\ CompletedIndexed
  BY DEF IInv
<1>1. Typed'
  BY <1>0, PutTyped
<1>2. WaitOn(j, waits) /\ waits \in SUBSET Jids
  BY DEF Put
<1>3. DependencyInverse'
  BY <1>0, <1>2, WaitOnInverse
<1>4. /\ job'[j] = NewHash(j, state, q, r) /\ job'[j] # NoJob
      /\ \A i \in Jids : i # j => job'[i] = job[i]
  <2>1. job' = [job EXCEPT ![j] = NewHash(j, state, q, r)]
    BY DEF Put
  <2>2. NewHash(j, state, q, r) \in LooseJob
    <3>1. state \in States /\ r \in Nat
      BY NumbersAssumption DEF NumbersAssumption, States
    <3> HIDE DEF state
    <3> QED BY <3>1 DEF NewHash, LooseJob, Hash
  <2> HIDE DEF state
  <2> QED BY <1>0, <2>1, <2>2, HashExists DEF Typed
<1>5. /\ job'[j].state = state /\ job'[j].queue = q /\ job'[j].worker = NoWorker
      /\ job'[j].remaining = r
  <2> HIDE DEF state
  <2> QED BY <1>4 DEF NewHash
<1>6. state \in {"scheduled", "depends", "waiting"}
  OBVIOUS
<1>7. state = "depends" <=> dependencies[j] \cup waits # {}
  OBVIOUS
<1>8. NothingStranded'
  <2>1. \A i \in Jids : dependencies'[i] = IF i = j THEN dependencies[i] \cup waits ELSE dependencies[i]
    BY <1>0, <1>2 DEF WaitOn, With, Typed
  <2>2. \A d \in waits : d \in Jids /\ (d = j \/ (Exists(d) /\ ~InState(d, "complete")))
    BY DEF Legit
  <2> HIDE DEF state, waits
  <2>3. ASSUME NEW i \in Jids
        PROVE  dependencies'[i] # {} <=> InState(i, "depends")'
    BY <1>0, <1>4, <1>5, <1>7, <2>1 DEF NothingStranded, InState, Exists
  <2>4. ASSUME NEW i \in Jids, NEW d \in dependencies'[i]
        PROVE  Exists(d)' /\ ~InState(d, "complete")'
    <3>1. d \in Jids
      BY <1>1, <2>4 DEF Typed
    <3>2. d = j \/ (Exists(d) /\ ~InState(d, "complete"))
      BY <1>0, <2>1, <2>2, <2>4 DEF NothingStranded
    <3> QED BY <1>4, <1>5, <1>6, <3>1, <3>2 DEF InState, Exists
  <2> QED BY <2>3, <2>4 DEF NothingStranded
<1>9. Placement'
  <2>1. /\ work' = With(Without(work, old, {j}), q, into("waiting"))
        /\ depends' = With(Without(depends, old, {j}), q, into("depends"))
        /\ locks' = Mark(locks, old, {j}, "none")
        /\ scheduled' = Mark(Mark(scheduled, old, {j}, "none"), q, into("scheduled"), "wait")
    BY DEF Put
  <2>2. \A p \in Queues : work'[p] = (IF p = old THEN work[p] \ {j} ELSE work[p])
                                       \cup (IF p = q THEN into("waiting") ELSE {})
    <3> HIDE DEF into, old
    <3> QED BY <1>0, <2>1 DEF Typed, With, Without
  <2>3. \A p \in Queues : depends'[p] = (IF p = old THEN depends[p] \ {j} ELSE depends[p])
                                          \cup (IF p = q THEN into("depends") ELSE {})
    <3> HIDE DEF into, old
    <3> QED BY <1>0, <2>1 DEF Typed, With, Without
  <2>4. \A p \in Queues, i \in Jids :
          /\ locks'[p][i] = IF p = old /\ i = j THEN "none" ELSE locks[p][i]
          /\ scheduled'[p][i] = IF p = q /\ i \in into("scheduled") THEN "wait"
                                ELSE IF p = old /\ i = j THEN "none" ELSE scheduled[p][i]
    <3> HIDE DEF into, old
    <3> QED BY <2>1 DEF Mark
  <2>5. \A s : into(s) = IF state = s THEN {j} ELSE {}
    OBVIOUS
  <2> HIDE DEF into, state
  <2>6. ASSUME NEW i \in Jids, i # j
        PROVE  Placed(i)'
    <3>1. Still(i)
      BY <1>4, <2>2, <2>3, <2>4, <2>5, <2>6 DEF Still
    <3> QED BY <1>0, <3>1, StillPlaced DEF Placement
  <2>7. ASSUME NEW p \in Queues
        PROVE  /\ locks'[p][j] = "none"
               /\ j \in depends'[p] <=> p = q /\ state = "depends"
               /\ j \in work'[p] <=> p = q /\ state = "waiting"
               /\ scheduled'[p][j] # "none" <=> p = q /\ state = "scheduled"
    <3>1. p # old => /\ locks[p][j] = "none" /\ j \notin depends[p] /\ j \notin work[p]
                     /\ scheduled[p][j] = "none"
      BY <1>0 DEF Placement, Placed
    <3> HIDE DEF old
    <3> QED BY <2>2, <2>3, <2>4, <2>5, <3>1
  <2>8. Placed(j)'
    <3>1. q # NoQueue
      BY NullsAssumption DEF NullsAssumption
    <3> QED BY <1>4, <1>5, <1>6, <2>7, <3>1 DEF Placed, Exists, QueueOf
  <2> QED BY <2>6, <2>8 DEF Placement
<1> HIDE DEF state, waits
<1>10. OwnerListed'
  <2>1. \A v \in Workers, i \in Jids : i # j /\ i \in workerJobs[v] => i \in workerJobs'[v]
    BY <1>0 DEF Put, Without, Typed
  <2> QED BY <1>0, <1>4, <1>5, <1>6, <2>1 DEF OwnerListed, InState, Exists
<1>11. HolderCurrent'
  <2>1. held' = held
    BY DEF Put
  <2>2. NoWorker \notin Workers
    BY NullsAssumption DEF NullsAssumption
  <2> QED BY <1>0, <1>4, <1>5, <2>1, <2>2
          DEF HolderCurrent, WorkerOf, Running, InState, Exists
<1>12. RetriesLeft'
  BY <1>0, <1>4, <1>5, <1>6, NumbersAssumption DEF NumbersAssumption, RetriesLeft, Exists
<1>13. FailedIndexed'
  <2>1. \A i \in Jids, g \in AllGroups : Failed(i, g)' <=> Failed(i, g) /\ i # j
    BY <1>4, <1>5, <1>6 DEF Failed, InState, Exists
  <2>2. CASE InState(j, "failed")
    <3> DEFINE f == job[j].group
    <3>1. Unlist(f, {j})
      BY <2>2 DEF Put
    <3>2. \A i \in Jids, g \in AllGroups : Failed(i, g)' <=> Failed(i, g) /\ ~(i \in {j} /\ g = f)
      BY <2>1, <2>2 DEF Failed
    <3> HIDE DEF f
    <3> QED BY <1>0, <3>1, <3>2, FailedUnlisted
  <2>3. CASE ~InState(j, "failed")
    <3>1. UNCHANGED failVars
      BY <2>3 DEF Put
    <3>2. \A i \in Jids, g \in AllGroups : Failed(i, g)' <=> Failed(i, g)
      BY <2>1, <2>3 DEF Failed
    <3> QED BY <1>0, <3>1, <3>2, FailedKept
  <2> QED BY <2>2, <2>3
<1>14. CompletedIndexed'
  <2>1. completed' = completed \ {j}
    <3>1. completed' = IF InState(j, "complete") THEN completed \ {j} ELSE completed
      BY DEF Put
    <3> QED BY <1>0, <3>1 DEF CompletedIndexed
  <2>2. completed' = {i \in Jids : InState(i, "complete")'}
    BY <1>0, <1>4, <1>5, <1>6, <2>1 DEF CompletedIndexed, InState, Exists
  <2>3. Cardinality(completed') <= HistoryCount
    <3>1. IsFiniteSet(completed)
      BY <1>0, ClientsAssumption, FS_Subset DEF ClientsAssumption, Typed
    <3>2. /\ Cardinality(completed') <= Cardinality(completed)
          /\ Cardinality(completed') \in Nat /\ Cardinality(completed) \in Nat
      BY <2>1, <3>1, FS_Subset, FS_CardinalityType
    <3> QED BY <1>0, <3>2, NumbersAssumption DEF NumbersAssumption, CompletedIndexed
  <2> QED BY <2>2, <2>3 DEF CompletedIndexed
<1> QED
  BY <1>1, <1>3, <1>8, <1>9, <1>10, <1>11, <1>12, <1>13, <1>14 DEF IInv
LEMMA CancelKeeps ==
    ASSUME IInv, NEW S \in SUBSET Jids, Cancel(S)
    PROVE  IInv'
<1>0. /\ Typed /\ Placement /\ DependencyInverse /\ NothingStranded /\ OwnerListed
      /\ HolderCurrent /\ RetriesLeft /\ FailedIndexed /\ CompletedIndexed
  BY DEF IInv
<1>1. PICK D \in SUBSET {j \in S : ~InState(j, "complete")} :
          /\ Cancellable(D, S)
          /\ job' = [j \in Jids |-> IF j \in D THEN NoJob ELSE job[j]]
          /\ work' = [q \in Queues |-> work[q] \ {j \in D : QueueOf(j) = q}]
          /\ locks' = [q \in Queues |-> [j \in Jids |->
                         IF j \in D /\ QueueOf(j) = q THEN "none" ELSE locks[q][j]]]
          /\ scheduled' = [q \in Queues |-> [j \in Jids |->
                         IF j \in D /\ QueueOf(j) = q THEN "none" ELSE scheduled[q][j]]]
          /\ depends' = [q \in Queues |-> depends[q] \ {j \in D : QueueOf(j) = q}]
          /\ workerJobs' = [w \in Workers |-> workerJobs[w] \ {j \in D : WorkerOf(j) = w}]
          /\ dependencies' = [j \in Jids |-> IF j \in D THEN {} ELSE dependencies[j]]
          /\ LET unlisted(g) == {j \in D : InState(j, "failed") /\ job[j].group = g}
             IN  /\ failed' = [g \in AllGroups |-> failed[g] \ unlisted(g)]
                 /\ failures' = {g \in failures : unlisted(g) # {} => failed'[g] # {}}
          /\ UNCHANGED <<completed, held>>
  BY DEF Cancel
<1>2. Typed' /\ DependencyInverse'
  BY <1>0, CancelTyped, CancelInverse
<1>3. \A i \in Jids : job'[i] = IF i \in D THEN NoJob ELSE job[i]
  BY <1>1
<1>4. NothingStranded'
  <2>1. ASSUME NEW i \in Jids, NEW d \in dependencies'[i]
        PROVE  Exists(d)' /\ ~InState(d, "complete")'
    <3>1. i \notin D /\ d \in dependencies[i] /\ d \in Jids
      BY <1>0, <1>1, <2>1 DEF Typed
    <3>2. Exists(d) /\ ~InState(d, "complete") /\ InState(i, "depends") /\ i \in dependents[d]
      BY <1>0, <3>1 DEF NothingStranded, DependencyInverse
    <3>3. d \notin D
      BY <1>1, <3>1, <3>2 DEF Cancellable, InState
    <3> QED BY <1>3, <3>1, <3>2, <3>3 DEF InState, Exists
  <2>2. ASSUME NEW i \in Jids
        PROVE  dependencies'[i] # {} <=> InState(i, "depends")'
    BY <1>0, <1>1, <1>3 DEF NothingStranded, InState, Exists
  <2> QED BY <2>1, <2>2 DEF NothingStranded
<1>5. Placement'
  <2>1. ASSUME NEW i \in Jids, i \notin D
        PROVE  Placed(i)'
    <3>1. Still(i)
      BY <1>1, <2>1 DEF Still
    <3> QED BY <1>0, <3>1, StillPlaced DEF Placement
  <2>2. ASSUME NEW i \in D
        PROVE  Placed(i)'
    <3>1. i \in Jids /\ Placed(i)
      BY <1>0, <1>1 DEF Placement
    <3>2. ~Exists(i)'
      BY <1>3, <3>1 DEF Exists
    <3>3. ASSUME NEW q \in Queues
          PROVE  /\ locks'[q][i] = "none" /\ scheduled'[q][i] = "none"
                 /\ i \notin work'[q] /\ i \notin depends'[q]
      <4>1. CASE QueueOf(i) = q
        BY <1>1, <3>1, <4>1
      <4>2. CASE QueueOf(i) # q
        BY <1>1, <3>1, <4>2 DEF Placed
      <4> QED BY <4>1, <4>2
    <3> QED BY <3>2, <3>3 DEF Placed
  <2> QED BY <2>1, <2>2 DEF Placement
<1>6. OwnerListed'
  BY <1>0, <1>1, <1>3 DEF OwnerListed, InState, Exists
<1>7. HolderCurrent'
  BY <1>0, <1>1, <1>3, NullsAssumption
     DEF NullsAssumption, HolderCurrent, WorkerOf, Running, InState, Exists
<1>8. RetriesLeft'
  BY <1>0, <1>3 DEF RetriesLeft, Exists
<1>9. FailedIndexed'
  <2>1. \A i \in Jids, g \in AllGroups : Failed(i, g)' <=> Failed(i, g) /\ i \notin D
    BY <1>3 DEF Failed, InState, Exists
  <2>2. ASSUME NEW i \in Jids, NEW g \in AllGroups
        PROVE  i \in failed'[g] <=> Failed(i, g)'
    <3>1. i \in failed[g] <=> Failed(i, g)
      BY <1>0 DEF FailedIndexed, Failed
    <3>2. failed'[g] = failed[g] \ {j \in D : Failed(j, g)}
      BY <1>1 DEF Failed
    <3> QED BY <2>1, <3>1, <3>2
  <2>3. failures' = {g \in AllGroups : failed'[g] # {}}
    <3>1. failures = {g \in AllGroups : failed[g] # {}}
      BY <1>0 DEF FailedIndexed
    <3>2. \A g \in AllGroups : /\ failed'[g] = failed[g] \ {j \in D : Failed(j, g)}
                               /\ g \in failures' <=> /\ g \in failures
                                                      /\ {j \in D : Failed(j, g)} # {} => failed'[g] # {}
      BY <1>1 DEF Failed
    <3>3. failures' \subseteq AllGroups
      BY <1>2 DEF Typed
    <3>4. ASSUME NEW g \in AllGroups
          PROVE  g \in failures' <=> failed'[g] # {}
      BY <3>1, <3>2
    <3> QED BY <3>3, <3>4
  <2> QED BY <2>2, <2>3 DEF FailedIndexed, Failed
<1>10. CompletedIndexed'
  <2>1. \A i \in Jids : InState(i, "complete")' <=> InState(i, "complete")
    BY <1>1, <1>3 DEF InState, Exists
  <2> QED BY <1>0, <1>1, <2>1, CompletedKept
<1> QED BY <1>2, <1>4, <1>5, <1>6, <1>7, <1>8, <1>9, <1>10 DEF IInv

LEMMA DependsOnKeeps ==
    ASSUME IInv, NEW j \in Jids, NEW D \in SUBSET Jids, DependsOn(j, D)
    PROVE  IInv'
<1>0. /\ Typed /\ Placement /\ DependencyInverse /\ NothingStranded /\ OwnerListed
      /\ HolderCurrent /\ RetriesLeft /\ FailedIndexed /\ CompletedIndexed
  BY DEF IInv
<1>1. /\ InState(j, "depends") /\ WaitOn(j, Legit(D))
      /\ UNCHANGED <<job, work, locks, scheduled, depends, workerJobs, completed, failed, failures,
                     held>>
  BY DEF DependsOn, queueVars, failVars
<1>2. Legit(D) \in SUBSET Jids
  BY DEF Legit
<1>3. Typed' /\ DependencyInverse'
  BY <1>0, <1>1, <1>2, DependsOnTyped, WaitOnInverse
<1>4. NothingStranded'
  <2>1. \A i \in Jids : dependencies'[i] = IF i = j THEN dependencies[i] \cup Legit(D) ELSE dependencies[i]
    BY <1>0, <1>1 DEF WaitOn, With, Typed
  <2>2. \A d \in Legit(D) : Exists(d) /\ ~InState(d, "complete")
    BY DEF Legit
  <2>3. \A i \in Jids : InState(i, "depends")' <=> InState(i, "depends")
    BY <1>1 DEF InState, Exists
  <2>4. ASSUME NEW i \in Jids, NEW d \in dependencies'[i]
        PROVE  Exists(d)' /\ ~InState(d, "complete")'
    <3>1. Exists(d) /\ ~InState(d, "complete")
      BY <1>0, <2>1, <2>2, <2>4 DEF NothingStranded
    <3> QED BY <1>1, <3>1 DEF Exists, InState
  <2>5. ASSUME NEW i \in Jids
        PROVE  dependencies'[i] # {} <=> InState(i, "depends")'
    BY <1>0, <1>1, <2>1, <2>3 DEF NothingStranded
  <2> QED BY <2>4, <2>5 DEF NothingStranded
<1>5. Placement'
  BY <1>0, <1>1 DEF Placement, Placed, Exists, QueueOf
<1>6. OwnerListed' /\ HolderCurrent' /\ RetriesLeft'
  BY <1>0, <1>1 DEF OwnerListed, HolderCurrent, RetriesLeft, WorkerOf, Running, InState, Exists
<1>7. FailedIndexed' /\ CompletedIndexed'
  BY <1>0, <1>1 DEF FailedIndexed, CompletedIndexed, InState, Exists
<1> QED BY <1>3, <1>4, <1>5, <1>6, <1>7 DEF IInv
LEMMA DependsOffKeeps ==
    ASSUME IInv, NEW j \in Jids, NEW D \in SUBSET Jids, DependsOff(j, D)
    PROVE  IInv'
<1> DEFINE q == QueueOf(j)
           free == dependencies[j] \subseteq D
<1>0. /\ Typed /\ Placement /\ DependencyInverse /\ NothingStranded /\ OwnerListed
      /\ HolderCurrent /\ RetriesLeft /\ FailedIndexed /\ CompletedIndexed
  BY DEF IInv
<1>1. /\ InState(j, "depends")
      /\ dependencies' = Without(dependencies, j, D)
      /\ job' = IF free THEN [job EXCEPT ![j].state = "waiting"] ELSE job
      /\ work' = IF free THEN With(work, q, {j}) ELSE work
      /\ depends' = IF free THEN Without(depends, q, {j}) ELSE depends
      /\ UNCHANGED <<locks, scheduled, workerJobs, completed, failed, failures, held>>
  BY DEF DependsOff, failVars
<1>2. Typed' /\ DependencyInverse'
  BY <1>0, DependsOffTyped, DependsOffInverse
<1>3. /\ \A i \in Jids : i # j => job'[i] = job[i]
      /\ job[j] \in LooseJob /\ job'[j] \in LooseJob
      /\ job'[j] # NoJob
      /\ job'[j].state = IF free THEN "waiting" ELSE "depends"
      /\ job'[j].queue = job[j].queue /\ job'[j].worker = job[j].worker
      /\ job'[j].remaining = job[j].remaining /\ job'[j].group = job[j].group
  <2> DEFINE r == job[j]
  <2>1. r \in LooseJob /\ r.state = "depends"
    BY <1>0, <1>1, HashType DEF InState
  <2>2. [r EXCEPT !.state = "waiting"] \in LooseJob
    <3> HIDE DEF r
    <3> QED BY <2>1 DEF LooseJob, Hash, States
  <2>3. job' = IF free THEN [job EXCEPT ![j] = [r EXCEPT !.state = "waiting"]] ELSE job
    BY <1>1
  <2>4. job \in [Jids -> LooseJob \cup {NoJob}]
    BY <1>0 DEF Typed
  <2> HIDE DEF free
  <2>5. \A i \in Jids : job'[i] = IF i = j /\ free THEN [r EXCEPT !.state = "waiting"] ELSE job[i]
    BY <2>3, <2>4
  <2>6. r # NoJob /\ [r EXCEPT !.state = "waiting"] # NoJob
    BY <2>1, <2>2, HashExists
  <2> HIDE DEF r
  <2>7. LET s == [r EXCEPT !.state = "waiting"]
        IN  s.state = "waiting" /\ s.queue = r.queue /\ s.worker = r.worker
            /\ s.remaining = r.remaining /\ s.group = r.group
    BY <2>1 DEF LooseJob, Hash
  <2> QED BY <2>1, <2>2, <2>5, <2>6, <2>7 DEF r
<1> HIDE DEF free
<1>4. \A i \in Jids : dependencies'[i] = IF i = j THEN dependencies[i] \ D ELSE dependencies[i]
  BY <1>0, <1>1 DEF Without, Typed
<1>5. NothingStranded'
  <2>1. ASSUME NEW i \in Jids, NEW d \in dependencies'[i]
        PROVE  Exists(d)' /\ ~InState(d, "complete")'
    <3>1. Exists(d) /\ ~InState(d, "complete") /\ d \in Jids
      BY <1>0, <1>4, <2>1 DEF NothingStranded, Typed
    <3> QED BY <1>3, <3>1 DEF Exists, InState
  <2>2. free <=> dependencies'[j] = {}
    BY <1>0, <1>4 DEF free
  <2>3. ASSUME NEW i \in Jids
        PROVE  dependencies'[i] # {} <=> InState(i, "depends")'
    <3>1. CASE i = j
      BY <1>3, <2>2, <3>1 DEF InState, Exists
    <3>2. CASE i # j
      BY <1>0, <1>3, <1>4, <3>2 DEF NothingStranded, InState, Exists
    <3> QED BY <3>1, <3>2
  <2> QED BY <2>1, <2>3 DEF NothingStranded
<1>6. Placement'
  <2>1. \A p \in Queues : work'[p] = IF p = q /\ free THEN work[p] \cup {j} ELSE work[p]
    BY <1>0, <1>1 DEF With, Typed
  <2>2. \A p \in Queues : depends'[p] = IF p = q /\ free THEN depends[p] \ {j} ELSE depends[p]
    BY <1>0, <1>1 DEF Without, Typed
  <2>3. ASSUME NEW i \in Jids, i # j
        PROVE  Placed(i)'
    <3>1. ASSUME NEW p \in Queues
          PROVE  i \in work'[p] <=> i \in work[p]
      BY <2>1, <2>3
    <3>2. ASSUME NEW p \in Queues
          PROVE  i \in depends'[p] <=> i \in depends[p]
      BY <2>2, <2>3
    <3>3. job'[i] = job[i] /\ locks' = locks /\ scheduled' = scheduled
      BY <1>1, <1>3, <2>3
    <3>4. Still(i)
      BY <3>1, <3>2, <3>3 DEF Still
    <3> QED BY <1>0, <3>4, StillPlaced DEF Placement
  <2>4. Placed(j)'
    <3>1. Placed(j) /\ Exists(j) /\ job[j].state = "depends" /\ q = job[j].queue
      BY <1>0, <1>1 DEF Placement, InState, QueueOf
    <3> HIDE DEF q
    <3>2. ASSUME NEW p \in Queues
          PROVE  /\ locks[p][j] = "none" /\ scheduled[p][j] = "none"
                 /\ j \notin work[p]
                 /\ j \in depends[p] <=> p = q
      BY <3>1 DEF Placed, QueueOf
    <3>3. ASSUME NEW p \in Queues
          PROVE  /\ locks'[p][j] = "none" /\ scheduled'[p][j] = "none"
                 /\ j \in work'[p] <=> (p = q /\ free)
                 /\ j \in depends'[p] <=> (p = q /\ ~free)
      <4>1. /\ locks'[p][j] = "none" /\ scheduled'[p][j] = "none"
        BY <1>1, <3>2
      <4>2. j \in work'[p] <=> (p = q /\ free)
        BY <2>1, <3>2
      <4>3. j \in depends'[p] <=> (p = q /\ ~free)
        BY <2>2, <3>2
      <4> QED BY <4>1, <4>2, <4>3
    <3>4. q # NoQueue
      BY <3>1 DEF Placed
    <3>5. Exists(j)' /\ QueueOf(j)' = q /\ job'[j].queue = q
      BY <1>3, <3>1 DEF Exists, QueueOf
    <3>6. CASE free
      BY <1>3, <3>3, <3>4, <3>5, <3>6 DEF Placed
    <3>7. CASE ~free
      BY <1>3, <3>3, <3>4, <3>5, <3>7 DEF Placed
    <3> QED BY <3>6, <3>7
  <2> QED BY <2>3, <2>4 DEF Placement
<1>7. OwnerListed'
  BY <1>0, <1>1, <1>3 DEF OwnerListed, InState, Exists
<1>8. HolderCurrent'
  BY <1>0, <1>1, <1>3 DEF HolderCurrent, WorkerOf, Running, InState, Exists
<1>9. RetriesLeft'
  BY <1>0, <1>1, <1>3 DEF RetriesLeft, InState, Exists
<1>10. FailedIndexed'
  <2>1. \A i \in Jids, g \in AllGroups : Failed(i, g)' <=> Failed(i, g)
    BY <1>1, <1>3 DEF Failed, InState, Exists
  <2> QED BY <1>0, <1>1, <2>1, FailedKept DEF failVars
<1>11. CompletedIndexed'
  <2>1. \A i \in Jids : InState(i, "complete")' <=> InState(i, "complete")
    BY <1>1, <1>3 DEF InState, Exists
  <2> QED BY <1>0, <1>1, <2>1, CompletedKept
<1> QED BY <1>2, <1>5, <1>6, <1>7, <1>8, <1>9, <1>10, <1>11 DEF IInv

LEMMA UnfailKeeps ==
    ASSUME IInv, NEW g \in AllGroups, NEW q \in Queues, NEW n \in PopCounts, Unfail(g, q, n)
    PROVE  IInv'
<1>0. /\ Typed /\ Placement /\ DependencyInverse /\ NothingStranded /\ OwnerListed
      /\ HolderCurrent /\ RetriesLeft /\ FailedIndexed /\ CompletedIndexed
  BY DEF IInv
<1>1. PICK S \in SUBSET failed[g] :
         /\ job' = [j \in Jids |->
               IF j \in S THEN [job[j] EXCEPT !.state = "waiting", !.worker = NoWorker,
                                   !.queue = q, !.remaining = job[j].retries, !.group = NoGroup]
               ELSE job[j]]
         /\ work' = With(work, q, S)
         /\ Unlist(g, S)
         /\ UNCHANGED <<locks, scheduled, depends, workerJobs, dependents, dependencies, completed,
                        held>>
  BY SomeSubset DEF Unfail, depVars
<1>2. Typed'
  BY <1>0, UnfailTyped
<1>3. S \in SUBSET Jids /\ \A j \in S : Exists(j) /\ Failed(j, g)
  BY <1>0, <1>1 DEF Typed, FailedIndexed, Failed, InState
<1>4. \A i \in Jids : i \notin S => job'[i] = job[i]
  BY <1>1
<1>5. ASSUME NEW j \in S
      PROVE  /\ job'[j] # NoJob
             /\ job'[j].state = "waiting" /\ job'[j].queue = q /\ job'[j].worker = NoWorker
             /\ job'[j].remaining >= 0
  <2> DEFINE r == job[j]
             s == [r EXCEPT !.state = "waiting", !.worker = NoWorker, !.queue = q,
                            !.remaining = r.retries, !.group = NoGroup]
  <2>1. r \in LooseJob /\ r.retries \in Nat /\ r.retries \in Int
    BY <1>0, <1>3, HashType
  <2>2. job'[j] = s
    BY <1>1, <1>3
  <2> HIDE DEF r
  <2>3. s \in LooseJob
    <3>1. "waiting" \in States
      BY DEF States
    <3> QED BY <2>1, <3>1 DEF LooseJob, Hash
  <2>4. s.state = "waiting" /\ s.queue = q /\ s.worker = NoWorker /\ s.remaining = r.retries
    BY <2>1 DEF LooseJob, Hash
  <2> HIDE DEF s
  <2> QED BY <2>1, <2>2, <2>3, <2>4, HashExists
<1>6. NothingStranded' /\ DependencyInverse'
  <2>1. \A j \in Jids : InState(j, "depends")' <=> InState(j, "depends")
    BY <1>3, <1>4, <1>5 DEF Failed, InState, Exists
  <2>2. \A j \in Jids : Exists(j) /\ ~InState(j, "complete") => Exists(j)' /\ ~InState(j, "complete")'
    BY <1>3, <1>4, <1>5 DEF Failed, InState, Exists
  <2> QED BY <1>0, <1>1, <2>1, <2>2, StrandedKept DEF depVars, DependencyInverse
<1>7. Placement'
  <2>1. \A p \in Queues : work'[p] = IF p = q THEN work[p] \cup S ELSE work[p]
    BY <1>0, <1>1 DEF With, Typed
  <2>2. ASSUME NEW i \in Jids, i \notin S
        PROVE  Placed(i)'
    <3>1. Still(i)
      BY <1>1, <1>4, <2>1, <2>2 DEF Still
    <3> QED BY <1>0, <3>1, StillPlaced DEF Placement
  <2>3. ASSUME NEW i \in S
        PROVE  Placed(i)'
    <3>1. Placed(i) /\ Exists(i) /\ job[i].state = "failed" /\ i \in Jids
      BY <1>0, <1>3 DEF Placement, Failed, InState
    <3>2. q # NoQueue
      BY NullsAssumption DEF NullsAssumption
    <3>3. ASSUME NEW p \in Queues
          PROVE  /\ locks[p][i] = "none" /\ scheduled[p][i] = "none"
                 /\ i \notin depends[p] /\ i \notin work[p]
      BY <3>1 DEF Placed, QueueOf
    <3>4. ASSUME NEW p \in Queues
          PROVE  /\ locks'[p][i] = "none" /\ scheduled'[p][i] = "none"
                 /\ i \notin depends'[p]
      BY <1>1, <3>3
    <3>5. ASSUME NEW p \in Queues
          PROVE  i \in work'[p] <=> p = q
      BY <2>1, <2>3, <3>3
    <3>6. Exists(i)' /\ QueueOf(i)' = q
      BY <1>5, <2>3 DEF Exists, QueueOf
    <3> QED BY <1>5, <2>3, <3>2, <3>4, <3>5, <3>6 DEF Placed
  <2> QED BY <2>2, <2>3 DEF Placement
<1>8. OwnerListed'
  BY <1>0, <1>1, <1>4, <1>5 DEF OwnerListed, InState, Exists
<1>9. HolderCurrent'
  <2>1. ASSUME NEW w \in Workers, NEW i \in Jids, held'[w][i] # NoQueue, WorkerOf(i)' = w
        PROVE  Running(i, w)' /\ held'[w][i] = job'[i].queue
    <3>1. i \notin S
      BY <1>5, <2>1, NullsAssumption DEF NullsAssumption, WorkerOf, Exists
    <3>2. job'[i] = job[i] /\ held' = held
      BY <1>1, <1>4, <3>1
    <3> QED BY <1>0, <2>1, <3>2 DEF HolderCurrent, WorkerOf, Running, InState, Exists
  <2> QED BY <2>1 DEF HolderCurrent
<1>10. RetriesLeft'
  BY <1>0, <1>4, <1>5 DEF RetriesLeft, Exists
<1>11. FailedIndexed'
  <2>1. ASSUME NEW i \in Jids, NEW f \in AllGroups
        PROVE  Failed(i, f)' <=> Failed(i, f) /\ ~(i \in S /\ f = g)
    <3>1. CASE i \in S
      BY <1>3, <1>5, <3>1 DEF Failed, InState, Exists
    <3>2. CASE i \notin S
      BY <1>4, <3>2 DEF Failed, InState, Exists
    <3> QED BY <3>1, <3>2
  <2> QED BY <1>0, <1>1, <1>3, <2>1, FailedUnlisted
<1>12. CompletedIndexed'
  <2>1. \A i \in Jids : InState(i, "complete")' <=> InState(i, "complete")
    BY <1>3, <1>4, <1>5 DEF Failed, InState, Exists
  <2> QED BY <1>0, <1>1, <2>1, CompletedKept
<1> QED BY <1>2, <1>6, <1>7, <1>8, <1>9, <1>10, <1>11, <1>12 DEF IInv
LEMMA PeekKeeps ==
    ASSUME IInv, NEW q \in Queues, NEW n \in PopCounts, Peek(q, n)
    PROVE  IInv'
<1>0. /\ Typed /\ Placement /\ DependencyInverse /\ NothingStranded /\ OwnerListed
      /\ HolderCurrent /\ RetriesLeft /\ FailedIndexed /\ CompletedIndexed
  BY DEF IInv
<1>1. PICK S \in SUBSET DueIn(q) :
         /\ job' = [j \in Jids |-> IF j \in S THEN [job[j] EXCEPT !.state = "waiting"] ELSE job[j]]
         /\ work' = With(work, q, S)
         /\ scheduled' = Mark(scheduled, q, S, "none")
         /\ UNCHANGED <<locks, depends, workerJobs, dependents, dependencies, completed, failed,
                        failures, held>>
  BY SomeSubset DEF Peek, depVars, failVars
<1>2. Typed'
  BY <1>0, PeekTyped
<1>3. ASSUME NEW j \in S
      PROVE  /\ j \in Jids /\ Exists(j) /\ job[j].state \in {"waiting", "scheduled"}
             /\ job[j].queue = q /\ scheduled[q][j] # "none" /\ Placed(j)
  <2>1. j \in Jids /\ scheduled[q][j] # "none" /\ Placed(j)
    BY <1>0, <1>1 DEF DueIn, Placement
  <2> QED BY <2>1 DEF Placed, QueueOf
<1>4. \A i \in Jids : i \notin S => job'[i] = job[i]
  BY <1>1
<1>5. ASSUME NEW j \in S
      PROVE  /\ job'[j] # NoJob
             /\ job'[j].state = "waiting" /\ job'[j].queue = q /\ job'[j].worker = job[j].worker
             /\ job'[j].remaining = job[j].remaining
  <2> DEFINE r == job[j]
             s == [r EXCEPT !.state = "waiting"]
  <2>1. r \in LooseJob /\ "waiting" \in States /\ r.queue = q
    BY <1>0, <1>3, HashType DEF States
  <2>2. job'[j] = s
    BY <1>1, <1>3
  <2> HIDE DEF r
  <2>3. s \in LooseJob
    BY <2>1 DEF LooseJob, Hash
  <2>4. s.state = "waiting" /\ s.queue = r.queue /\ s.worker = r.worker /\ s.remaining = r.remaining
    BY <2>1 DEF LooseJob, Hash
  <2> HIDE DEF s
  <2> QED BY <2>1, <2>2, <2>3, <2>4, HashExists DEF r
<1>6. NothingStranded' /\ DependencyInverse'
  <2>1. \A j \in Jids : InState(j, "depends")' <=> InState(j, "depends")
    BY <1>3, <1>4, <1>5 DEF InState, Exists
  <2>2. \A j \in Jids : Exists(j) /\ ~InState(j, "complete") => Exists(j)' /\ ~InState(j, "complete")'
    BY <1>3, <1>4, <1>5 DEF InState, Exists
  <2> QED BY <1>0, <1>1, <2>1, <2>2, StrandedKept DEF depVars, DependencyInverse
<1>7. Placement'
  <2>1. \A p \in Queues : work'[p] = IF p = q THEN work[p] \cup S ELSE work[p]
    BY <1>0, <1>1 DEF With, Typed
  <2>2. \A p \in Queues, i \in Jids :
          scheduled'[p][i] = IF p = q /\ i \in S THEN "none" ELSE scheduled[p][i]
    BY <1>1 DEF Mark
  <2>3. ASSUME NEW i \in Jids, i \notin S
        PROVE  Placed(i)'
    <3>1. Still(i)
      BY <1>1, <1>4, <2>1, <2>2, <2>3 DEF Still
    <3> QED BY <1>0, <3>1, StillPlaced DEF Placement
  <2>4. ASSUME NEW i \in S
        PROVE  Placed(i)'
    <3>1. ASSUME NEW p \in Queues
          PROVE  /\ locks[p][i] = "none"
                 /\ i \notin depends[p]
                 /\ p # q => i \notin work[p] /\ scheduled[p][i] = "none"
      BY <1>3 DEF Placed, QueueOf
    <3>2. ASSUME NEW p \in Queues
          PROVE  /\ locks'[p][i] = "none"
                 /\ i \notin depends'[p]
                 /\ i \in work'[p] <=> p = q
                 /\ scheduled'[p][i] = "none"
      <4>1. locks'[p][i] = "none" /\ i \notin depends'[p]
        BY <1>1, <3>1
      <4>2. i \in work'[p] <=> p = q
        BY <2>1, <2>4, <3>1
      <4>3. scheduled'[p][i] = "none"
        BY <1>3, <2>2, <2>4, <3>1
      <4> QED BY <4>1, <4>2, <4>3
    <3>3. Exists(i)' /\ QueueOf(i)' = q
      BY <1>5 DEF Exists, QueueOf
    <3>4. q # NoQueue
      BY NullsAssumption DEF NullsAssumption
    <3> QED BY <1>5, <3>2, <3>3, <3>4 DEF Placed
  <2> QED BY <2>3, <2>4 DEF Placement
<1>8. OwnerListed'
  BY <1>0, <1>1, <1>4, <1>5 DEF OwnerListed, InState, Exists
<1>9. HolderCurrent'
  <2>1. ASSUME NEW w \in Workers, NEW i \in Jids, held'[w][i] # NoQueue, WorkerOf(i)' = w
        PROVE  Running(i, w)' /\ held'[w][i] = job'[i].queue
    <3>1. held' = held /\ WorkerOf(i) = w
      BY <1>1, <1>3, <1>4, <1>5, <2>1 DEF WorkerOf, Exists
    <3>2. Running(i, w) /\ held[w][i] = job[i].queue
      BY <1>0, <2>1, <3>1 DEF HolderCurrent
    <3>3. i \notin S
      BY <1>3, <3>2 DEF Running, InState
    <3> QED BY <1>4, <3>1, <3>2, <3>3 DEF Running, InState, Exists
  <2> QED BY <2>1 DEF HolderCurrent
<1>10. RetriesLeft'
  BY <1>0, <1>3, <1>4, <1>5 DEF RetriesLeft, Exists
<1>11. FailedIndexed'
  <2>1. \A i \in Jids, g \in AllGroups : Failed(i, g)' <=> Failed(i, g)
    BY <1>3, <1>4, <1>5 DEF Failed, InState, Exists
  <2> QED BY <1>0, <1>1, <2>1, FailedKept DEF failVars
<1>12. CompletedIndexed'
  <2>1. \A i \in Jids : InState(i, "complete")' <=> InState(i, "complete")
    BY <1>3, <1>4, <1>5 DEF InState, Exists
  <2> QED BY <1>0, <1>1, <2>1, CompletedKept
<1> QED BY <1>2, <1>6, <1>7, <1>8, <1>9, <1>10, <1>11, <1>12 DEF IInv

\* What no conjunct but Typed speaks of: the paused queues and the limits.
dataVars == <<job, work, locks, scheduled, depends, workerJobs, dependents, dependencies,
              completed, failed, failures, held>>

LEMMA DataKeeps ==
    ASSUME IInv, Typed', UNCHANGED dataVars
    PROVE  IInv'
<1>1. DependencyInverse' /\ NothingStranded'
  BY DEF IInv, dataVars, DependencyInverse, NothingStranded, InState, Exists
<1>2. Placement'
  BY DEF IInv, dataVars, Placement, Placed, QueueOf, Exists
<1>3. OwnerListed' /\ HolderCurrent' /\ RetriesLeft'
  BY DEF IInv, dataVars, OwnerListed, HolderCurrent, RetriesLeft, WorkerOf, Running, InState, Exists
<1>4. FailedIndexed' /\ CompletedIndexed'
  BY DEF IInv, dataVars, FailedIndexed, CompletedIndexed, InState, Exists
<1> QED BY <1>1, <1>2, <1>3, <1>4 DEF IInv

LEMMA ConfigKeeps ==
    ASSUME IInv, NEW q \in Queues,
           Pause(q) \/ Unpause(q) \/ \E n \in NewLimits : SetLimit(q, n)
    PROVE  IInv'
<1>1. Typed'
  BY ConfigTyped DEF IInv
<1>2. UNCHANGED dataVars
  BY DEF Pause, Unpause, SetLimit, dataVars, queueVars, depVars, failVars
<1> QED BY <1>1, <1>2, DataKeeps
LEMMA AssignKeeps ==
    ASSUME IInv, NEW q \in Queues, NEW w \in Workers, NEW reclaimed \in SUBSET Expired(q),
           NEW promoted \in SUBSET (DueIn(q) \ Exhausted(reclaimed)),
           NEW taken \in SUBSET ((work[q] \ Exhausted(reclaimed)) \cup promoted),
           Assign(q, w, reclaimed, promoted, taken)
    PROVE  IInv'
<1> DEFINE out == Exhausted(reclaimed)
           keys == (reclaimed \ out) \cup taken
           left(j) == IF j \in reclaimed THEN job[j].remaining - 1 ELSE job[j].remaining
<1>0. /\ Typed /\ Placement /\ DependencyInverse /\ NothingStranded /\ OwnerListed
      /\ HolderCurrent /\ RetriesLeft /\ FailedIndexed /\ CompletedIndexed
  BY DEF IInv
<1>1. /\ job' = [j \in Jids |->
             IF j \in keys THEN [job[j] EXCEPT !.state = "running", !.worker = w,
                                               !.remaining = left(j)]
             ELSE IF j \in out
             THEN [job[j] EXCEPT !.state = "failed", !.worker = NoWorker,
                                 !.remaining = left(j), !.group = RetryGroup(q)]
             ELSE job[j]]
      /\ work' = Without(With(work, q, promoted), q, keys \cup out)
      /\ locks' = Mark(Mark(locks, q, out, "none"), q, keys, "live")
      /\ scheduled' = Mark(scheduled, q, promoted \cup out, "none")
      /\ HandOver(w, keys, reclaimed)
      /\ List(RetryGroup(q), out)
      /\ held' = [held EXCEPT ![w] = [j \in Jids |-> IF j \in keys THEN q ELSE @[j]]]
      /\ UNCHANGED <<depends, dependents, dependencies, completed>>
  BY DEF Assign, out, depVars
<1>2. /\ reclaimed \in SUBSET Jids /\ promoted \in SUBSET Jids /\ taken \in SUBSET Jids
      /\ out \subseteq reclaimed
  BY <1>0 DEF Expired, DueIn, Typed, Exhausted
<1>3. Typed'
  BY <1>0, <1>2, AssignTyped
<1>4. ASSUME NEW j \in reclaimed
      PROVE  /\ j \in Jids /\ Exists(j) /\ job[j].state = "running" /\ job[j].queue = q
             /\ job[j].worker \in Workers /\ job[j].remaining \in Int /\ job[j].remaining >= 0
             /\ j \in out <=> job[j].remaining - 1 < 0
  <2>1. j \in Jids /\ locks[q][j] # "none" /\ Placed(j)
    BY <1>0 DEF Expired, Placement
  <2>2. Exists(j) /\ job[j].state = "running" /\ job[j].queue = q
    BY <2>1 DEF Placed, QueueOf
  <2>3. job[j].worker \in Workers /\ job[j].remaining \in Int /\ job[j].remaining >= 0
    BY <1>0, <2>1, <2>2, HashType DEF OwnerListed, RetriesLeft, InState
  <2> QED BY <2>1, <2>2, <2>3 DEF Exhausted
<1>5. ASSUME NEW j \in taken \cup promoted
      PROVE  /\ j \in Jids /\ Exists(j) /\ job[j].state \in {"waiting", "scheduled"}
             /\ job[j].queue = q /\ job[j].remaining >= 0
             /\ j \notin reclaimed
  <2>1. j \in Jids /\ (j \in work[q] \/ scheduled[q][j] # "none") /\ Placed(j)
    BY <1>0, <1>2 DEF DueIn, Placement
  <2>2. Exists(j) /\ job[j].state \in {"waiting", "scheduled"} /\ job[j].queue = q
    BY <2>1 DEF Placed, QueueOf
  <2> QED BY <1>0, <1>4, <2>1, <2>2 DEF RetriesLeft
<1>6. keys \cap out = {} /\ keys \in SUBSET Jids /\ promoted \cap out = {}
  BY <1>2, <1>5
<1>7. \A i \in Jids : i \notin keys \cup out => job'[i] = job[i]
  BY <1>1
<1>8. ASSUME NEW j \in keys
      PROVE  /\ job'[j] # NoJob
             /\ job'[j].state = "running" /\ job'[j].queue = q /\ job'[j].worker = w
             /\ job'[j].remaining >= 0
             /\ Exists(j) /\ job[j].state \in {"running", "waiting", "scheduled"} /\ job[j].queue = q
  <2> DEFINE r == job[j]
             s == [r EXCEPT !.state = "running", !.worker = w, !.remaining = left(j)]
  <2>1. /\ r \in LooseJob /\ r.queue = q /\ j \in Jids /\ Exists(j) /\ left(j) \in Int /\ left(j) >= 0
        /\ r.state \in {"running", "waiting", "scheduled"} /\ "running" \in States
    <3>1. CASE j \in reclaimed
      BY <1>0, <1>4, <1>6, <3>1, HashType DEF States
    <3>2. CASE j \notin reclaimed
      BY <1>0, <1>5, <3>2, HashType DEF States
    <3> QED BY <3>1, <3>2
  <2>2. job'[j] = s
    BY <1>1, <2>1
  <2> HIDE DEF r, left
  <2>3. s \in LooseJob
    BY <2>1 DEF LooseJob, Hash
  <2>4. s.state = "running" /\ s.queue = r.queue /\ s.worker = w /\ s.remaining = left(j)
    BY <2>1 DEF LooseJob, Hash
  <2> HIDE DEF s
  <2> QED BY <2>1, <2>2, <2>3, <2>4, HashExists DEF r
<1>9. ASSUME NEW j \in out
      PROVE  /\ job'[j] # NoJob
             /\ job'[j].state = "failed" /\ job'[j].queue = q /\ job'[j].worker = NoWorker
             /\ job'[j].remaining = -1 /\ job'[j].group = RetryGroup(q)
             /\ Exists(j) /\ job[j].state = "running" /\ job[j].queue = q
  <2> DEFINE r == job[j]
             s == [r EXCEPT !.state = "failed", !.worker = NoWorker, !.remaining = left(j),
                            !.group = RetryGroup(q)]
  <2>1. /\ r \in LooseJob /\ r.queue = q /\ j \in Jids /\ Exists(j) /\ left(j) = -1
        /\ r.state = "running"
    <3>1. j \in reclaimed
      BY <1>2
    <3>2. /\ job[j].remaining \in Int /\ job[j].remaining >= 0 /\ job[j].remaining - 1 < 0
          /\ j \in Jids /\ Exists(j) /\ job[j].state = "running" /\ job[j].queue = q
      BY <1>4, <3>1
    <3> QED BY <1>0, <3>1, <3>2, HashType
  <2>2. j \notin keys /\ "failed" \in States /\ RetryGroup(q) \in AllGroups
    BY <1>6, RetryGroupType DEF States
  <2>3. job'[j] = s
    <3> HIDE DEF keys, out, left
    <3> QED BY <1>1, <2>1, <2>2
  <2> HIDE DEF r, left
  <2>4. s \in LooseJob
    <3>1. left(j) \in Int
      BY <2>1
    <3>2. RetryGroup(q) \in AllGroups \cup {NoGroup}
      BY <2>2
    <3> HIDE DEF out
    <3> QED BY <2>1, <2>2, <3>1, <3>2 DEF LooseJob, Hash
  <2>5. s.state = "failed" /\ s.queue = r.queue /\ s.worker = NoWorker /\ s.remaining = -1
        /\ s.group = RetryGroup(q)
    BY <2>1 DEF LooseJob, Hash
  <2> HIDE DEF s
  <2> QED BY <2>1, <2>3, <2>4, <2>5, HashExists DEF r
<1> HIDE DEF left
<1>10. NothingStranded' /\ DependencyInverse'
  <2>1. \A j \in Jids : InState(j, "depends")' <=> InState(j, "depends")
    BY <1>7, <1>8, <1>9 DEF InState, Exists
  <2>2. \A j \in Jids : Exists(j) /\ ~InState(j, "complete") => Exists(j)' /\ ~InState(j, "complete")'
    BY <1>7, <1>8, <1>9 DEF InState, Exists
  <2> QED BY <1>0, <1>1, <2>1, <2>2, StrandedKept DEF depVars, DependencyInverse
<1>11. Placement'
  <2> HIDE DEF keys, out
  <2>1. \A p \in Queues : work'[p] = IF p = q THEN (work[p] \cup promoted) \ (keys \cup out)
                                              ELSE work[p]
    BY <1>0, <1>1 DEF With, Without, Typed
  <2>2. \A p \in Queues, i \in Jids :
          /\ scheduled'[p][i] = IF p = q /\ i \in promoted \cup out THEN "none" ELSE scheduled[p][i]
          /\ locks'[p][i] = IF p = q /\ i \in keys THEN "live"
                            ELSE IF p = q /\ i \in out THEN "none" ELSE locks[p][i]
    BY <1>1 DEF Mark
  <2> USE DEF keys, out
  <2>3. ASSUME NEW i \in Jids, i \notin keys \cup out \cup promoted
        PROVE  Placed(i)'
    <3>1. Still(i)
      <4> HIDE DEF keys, out
      <4>1. job'[i] = job[i]
        BY <1>7, <2>3
      <4>2. ASSUME NEW p \in Queues
            PROVE  /\ i \in work'[p] <=> i \in work[p]
                   /\ i \in depends'[p] <=> i \in depends[p]
        BY <1>1, <2>1, <2>3
      <4>3. ASSUME NEW p \in Queues
            PROVE  locks'[p][i] = locks[p][i] /\ scheduled'[p][i] = scheduled[p][i]
        BY <2>2, <2>3
      <4> QED BY <4>1, <4>2, <4>3 DEF Still
    <3> QED BY <1>0, <3>1, StillPlaced DEF Placement
  <2>4. ASSUME NEW i \in keys
        PROVE  Placed(i)'
    <3>1. i \in Jids /\ Placed(i)
      BY <1>0, <1>6 DEF Placement
    <3>2. ASSUME NEW p \in Queues
          PROVE  /\ p # q => /\ locks[p][i] = "none"
                             /\ i \notin work[p] /\ scheduled[p][i] = "none"
                 /\ i \notin depends[p]
                 /\ scheduled[q][i] # "none" => i \notin work[q] /\ i \notin reclaimed
      BY <1>4, <1>8, <3>1 DEF Placed, QueueOf
    <3>3. scheduled'[q][i] = "none"
      <4>1. i \in reclaimed => scheduled[q][i] = "none"
        BY <3>2
      <4>2. i \in work[q] => scheduled[q][i] = "none"
        BY <3>2
      <4>3. i \in reclaimed \/ i \in work[q] \/ i \in promoted
        OBVIOUS
      <4> HIDE DEF keys, out
      <4> QED BY <2>2, <3>1, <4>1, <4>2, <4>3
    <3> HIDE DEF keys, out
    <3>4. ASSUME NEW p \in Queues
          PROVE  /\ locks'[p][i] # "none" <=> p = q
                 /\ i \notin depends'[p] /\ i \notin work'[p] /\ scheduled'[p][i] = "none"
      <4>1. locks'[p][i] # "none" <=> p = q
        BY <2>2, <2>4, <3>1, <3>2
      <4>2. i \notin depends'[p]
        BY <1>1, <3>2
      <4>3. i \notin work'[p]
        BY <2>1, <2>4, <3>2
      <4>4. scheduled'[p][i] = "none"
        BY <2>2, <3>1, <3>2, <3>3
      <4> QED BY <4>1, <4>2, <4>3, <4>4
    <3>5. Exists(i)' /\ QueueOf(i)' = q /\ q # NoQueue
      BY <1>8, NullsAssumption DEF NullsAssumption, Exists, QueueOf
    <3> QED BY <1>8, <3>4, <3>5 DEF Placed
  <2>5. ASSUME NEW i \in out
        PROVE  Placed(i)'
    <3>1. i \in Jids /\ Placed(i) /\ i \notin keys
      BY <1>0, <1>2, <1>6 DEF Placement
    <3> HIDE DEF keys, out
    <3>2. ASSUME NEW p \in Queues
          PROVE  /\ p # q => locks[p][i] = "none"
                 /\ i \notin depends[p] /\ i \notin work[p] /\ scheduled[p][i] = "none"
      BY <1>9, <3>1 DEF Placed, QueueOf
    <3>3. ASSUME NEW p \in Queues
          PROVE  /\ locks'[p][i] = "none"
                 /\ i \notin depends'[p] /\ i \notin work'[p] /\ scheduled'[p][i] = "none"
      <4>1. locks'[p][i] = "none" /\ scheduled'[p][i] = "none"
        BY <2>2, <2>5, <3>1, <3>2
      <4>2. i \notin depends'[p] /\ i \notin work'[p]
        BY <1>1, <2>1, <2>5, <3>2
      <4> QED BY <4>1, <4>2
    <3>4. Exists(i)' /\ QueueOf(i)' = q /\ q # NoQueue
      BY <1>9, NullsAssumption DEF NullsAssumption, Exists, QueueOf
    <3> QED BY <1>9, <3>3, <3>4 DEF Placed
  <2>6. ASSUME NEW i \in promoted, i \notin keys
        PROVE  Placed(i)'
    <3>1. i \in Jids /\ Placed(i) /\ i \notin out
      BY <1>0, <1>2, <1>6 DEF Placement
    <3>2. Exists(i) /\ job[i].state \in {"waiting", "scheduled"} /\ job[i].queue = q
      BY <1>5
    <3> HIDE DEF keys, out
    <3>3. ASSUME NEW p \in Queues
          PROVE  /\ p # q => i \notin work[p] /\ scheduled[p][i] = "none"
                 /\ i \notin depends[p] /\ locks[p][i] = "none"
      BY <3>1, <3>2 DEF Placed, QueueOf
    <3>4. ASSUME NEW p \in Queues
          PROVE  /\ locks'[p][i] = "none" /\ i \notin depends'[p]
                 /\ i \in work'[p] <=> p = q
                 /\ scheduled'[p][i] = "none"
      <4>1. i \in work'[p] <=> p = q
        BY <2>1, <2>6, <3>1, <3>3
      <4>2. locks'[p][i] = "none" /\ scheduled'[p][i] = "none"
        BY <2>2, <2>6, <3>1, <3>3
      <4>3. i \notin depends'[p]
        BY <1>1, <3>3
      <4> QED BY <4>1, <4>2, <4>3
    <3>5. job'[i] = job[i]
      BY <1>7, <2>6, <3>1
    <3>6. Exists(i)' /\ QueueOf(i)' = q /\ q # NoQueue
      BY <3>2, <3>5, NullsAssumption DEF NullsAssumption, Exists, QueueOf
    <3> QED BY <3>2, <3>4, <3>5, <3>6 DEF Placed
  <2> QED BY <2>3, <2>4, <2>5, <2>6 DEF Placement
<1>12. OwnerListed'
  <2>1. ASSUME NEW i \in Jids, InState(i, "running")'
        PROVE  job'[i].worker \in Workers /\ i \in workerJobs'[job'[i].worker]
    <3>1. CASE i \in keys
      <4>1. i \in workerJobs'[w]
        BY <1>1, <3>1 DEF HandOver
      <4> QED BY <1>8, <3>1, <4>1
    <3>2. CASE i \notin keys
      <4>1. i \notin out /\ job'[i] = job[i]
        BY <1>7, <1>9, <2>1, <3>2 DEF InState
      <4>2. i \notin reclaimed
        BY <3>2, <4>1
      <4>3. job[i].worker \in Workers /\ i \in workerJobs[job[i].worker]
        BY <1>0, <2>1, <4>1 DEF OwnerListed, InState, Exists
      <4> QED BY <1>1, <4>1, <4>2, <4>3 DEF HandOver
    <3> QED BY <3>1, <3>2
  <2> QED BY <2>1 DEF OwnerListed
<1>13. HolderCurrent'
  <2> HIDE DEF keys, out
  <2>1. \A v \in Workers, i \in Jids :
           held'[v][i] = IF v = w /\ i \in keys THEN q ELSE held[v][i]
    BY <1>0, <1>1 DEF Typed
  <2>2. ASSUME NEW v \in Workers, NEW i \in Jids, held'[v][i] # NoQueue, WorkerOf(i)' = v
        PROVE  Running(i, v)' /\ held'[v][i] = job'[i].queue
    <3>1. CASE i \in keys
      BY <1>8, <2>1, <2>2, <3>1 DEF WorkerOf, Running, InState, Exists
    <3>2. CASE i \notin keys
      <4>1. i \notin out
        BY <1>9, <2>2, NullsAssumption DEF NullsAssumption, WorkerOf, Exists
      <4>2. job'[i] = job[i] /\ held'[v][i] = held[v][i]
        BY <1>7, <2>1, <3>2, <4>1
      <4> QED BY <1>0, <2>2, <4>2 DEF HolderCurrent, WorkerOf, Running, InState, Exists
    <3> QED BY <3>1, <3>2
  <2> QED BY <2>2 DEF HolderCurrent
<1> HIDE DEF keys, out
<1>14. RetriesLeft'
  BY <1>0, <1>7, <1>8, <1>9 DEF RetriesLeft, Exists
<1>15. FailedIndexed'
  <2>1. ASSUME NEW i \in Jids, NEW g \in AllGroups
        PROVE  Failed(i, g)' <=> Failed(i, g) \/ (i \in out /\ g = RetryGroup(q))
    <3>1. CASE i \in out
      BY <1>9, <3>1 DEF Failed, InState, Exists
    <3>2. CASE i \in keys /\ i \notin out
      BY <1>8, <3>2 DEF Failed, InState, Exists
    <3>3. CASE i \notin keys \cup out
      BY <1>7, <3>3 DEF Failed, InState, Exists
    <3> QED BY <3>1, <3>2, <3>3
  <2>2. out \in SUBSET Jids
    BY <1>2
  <2> QED BY <1>0, <1>1, <2>1, <2>2, FailedListed, RetryGroupType
<1>16. CompletedIndexed'
  <2>1. \A i \in Jids : InState(i, "complete")' <=> InState(i, "complete")
    BY <1>7, <1>8, <1>9 DEF InState, Exists
  <2> QED BY <1>0, <1>1, <2>1, CompletedKept
<1> QED BY <1>3, <1>10, <1>11, <1>12, <1>13, <1>14, <1>15, <1>16 DEF IInv

LEMMA PopKeeps ==
    ASSUME IInv, NEW q \in Queues, NEW w \in Workers, NEW n \in PopCounts, Pop(q, w, n)
    PROVE  IInv'
<1>1. PICK reclaimed, promoted, taken \in SUBSET Jids :
        /\ reclaimed \subseteq Expired(q)
        /\ promoted \subseteq DueIn(q) \ Exhausted(reclaimed)
        /\ taken \subseteq (work[q] \ Exhausted(reclaimed)) \cup promoted
        /\ Assign(q, w, reclaimed, promoted, taken)
  BY PopAssigns DEF IInv
<1> QED BY <1>1, AssignKeeps
LEMMA HeartbeatKeeps ==
    ASSUME IInv, NEW j \in Jids, NEW w \in Workers, Heartbeat(j, w)
    PROVE  IInv'
<1>0. /\ Typed /\ Placement /\ DependencyInverse /\ NothingStranded /\ OwnerListed
      /\ HolderCurrent /\ RetriesLeft /\ FailedIndexed /\ CompletedIndexed
  BY DEF IInv
<1>1. /\ Running(j, w)
      /\ locks' = Mark(locks, job[j].queue, {j}, "live")
      /\ workerJobs' = With(workerJobs, w, {j})
      /\ UNCHANGED <<job, work, scheduled, depends, dependents, dependencies, completed, failed,
                     failures, held>>
  BY <1>0 DEF Heartbeat, HolderCurrent, Running, InState, QueueOf, depVars, failVars
<1>2. Typed'
  BY <1>0, HeartbeatTyped
<1>3. DependencyInverse' /\ NothingStranded'
  BY <1>0, <1>1 DEF DependencyInverse, NothingStranded, InState, Exists
<1>4. Placement'
  <2>1. \A p \in Queues, i \in Jids :
           locks'[p][i] = IF p = job[j].queue /\ i = j THEN "live" ELSE locks[p][i]
    BY <1>1 DEF Mark
  <2>2. ASSUME NEW i \in Jids, Placed(i), i # j
        PROVE  Placed(i)'
    <3>1. Still(i)
      BY <1>1, <2>1, <2>2 DEF Still
    <3> QED BY <2>2, <3>1, StillPlaced
  <2>3. Placed(j)'
    <3>1. Placed(j) /\ Exists(j) /\ job[j].state = "running"
      BY <1>0, <1>1 DEF Placement, Running, InState
    <3>2. ASSUME NEW p \in Queues
          PROVE  locks'[p][j] # "none" <=> locks[p][j] # "none"
      BY <2>1, <3>1 DEF Placed, QueueOf
    <3> QED BY <1>1, <3>1, <3>2 DEF Placed, QueueOf, Exists
  <2> QED BY <1>0, <2>2, <2>3 DEF Placement
<1>5. OwnerListed'
  <2>1. \A v \in Workers : workerJobs[v] \subseteq workerJobs'[v]
    BY <1>0, <1>1 DEF With, Typed
  <2> QED BY <1>0, <1>1, <2>1 DEF OwnerListed, InState, Exists
<1>6. HolderCurrent' /\ RetriesLeft'
  BY <1>0, <1>1 DEF HolderCurrent, RetriesLeft, WorkerOf, Running, InState, Exists
<1>7. FailedIndexed' /\ CompletedIndexed'
  BY <1>0, <1>1 DEF FailedIndexed, CompletedIndexed, InState, Exists
<1> QED BY <1>2, <1>3, <1>4, <1>5, <1>6, <1>7 DEF IInv

\* What a worker that finishes with j finds, and what Finish changes.
LEMMA FinishFacts ==
    ASSUME IInv, NEW j \in Jids, NEW w \in Workers, Finish(j, w, held[w][j])
    PROVE  /\ Exists(j) /\ job[j].state = "running" /\ job[j].worker = w
           /\ job[j].queue = held[w][j] /\ held[w][j] \in Queues
           /\ dependencies[j] = {}
           /\ \A v \in Workers, i \in Jids : i # j /\ i \in workerJobs[v] => i \in workerJobs'[v]
           /\ \A p \in Queues, i \in Jids :
                 locks'[p][i] = IF p = held[w][j] /\ i = j THEN "none" ELSE locks[p][i]
           /\ \A v \in Workers, i \in Jids :
                 held'[v][i] = IF v = w /\ i = j THEN NoQueue ELSE held[v][i]
           /\ \A p \in Queues : /\ p # held[w][j] => locks[p][j] = "none"
                                /\ scheduled[p][j] = "none"
                                /\ j \notin work[p] /\ j \notin depends[p]
<1>0. Typed /\ Placement /\ NothingStranded /\ HolderCurrent
  BY DEF IInv
<1>1. Exists(j) /\ job[j].state = "running" /\ job[j].worker = w /\ held[w][j] # NoQueue
  BY DEF Finish, Running, InState
<1>2. job[j].queue = held[w][j] /\ held[w][j] \in Queues
  <2>1. WorkerOf(j) = w
    BY <1>1 DEF WorkerOf
  <2> QED BY <1>0, <1>1, <2>1 DEF HolderCurrent, Typed
<1>3. dependencies[j] = {}
  BY <1>0, <1>1 DEF NothingStranded, InState
<1>4. \A v \in Workers, i \in Jids : i # j /\ i \in workerJobs[v] => i \in workerJobs'[v]
  BY <1>0 DEF Finish, Without, Typed
<1>5. \A p \in Queues, i \in Jids :
         locks'[p][i] = IF p = held[w][j] /\ i = j THEN "none" ELSE locks[p][i]
  BY DEF Finish, Mark
<1>6. \A v \in Workers, i \in Jids :
         held'[v][i] = IF v = w /\ i = j THEN NoQueue ELSE held[v][i]
  BY <1>0 DEF Finish, Forget, Typed
<1>7. Placed(j)
  BY <1>0 DEF Placement
<1>8. \A p \in Queues : /\ p # held[w][j] => locks[p][j] = "none"
                        /\ scheduled[p][j] = "none"
                        /\ j \notin work[p] /\ j \notin depends[p]
  BY <1>1, <1>2, <1>7 DEF Placed, QueueOf
<1> QED BY <1>1, <1>2, <1>3, <1>4, <1>5, <1>6, <1>8

LEMMA AdvanceKeeps ==
    ASSUME IInv, NEW j \in Jids, NEW w \in Workers, NEW next \in Queues, NEW delayed \in BOOLEAN,
           NEW D \in SUBSET Jids, Advance(j, w, next, delayed, D)
    PROVE  IInv'
<1> DEFINE q == held[w][j]
           waits == IF delayed THEN {} ELSE {d \in D : d = j \/ d \in Legit(D)}
           into(now) == IF now THEN {j} ELSE {}
           state == IF waits # {} THEN "depends" ELSE "waiting"
<1>0. /\ Typed /\ Placement /\ DependencyInverse /\ NothingStranded /\ OwnerListed
      /\ HolderCurrent /\ RetriesLeft /\ FailedIndexed /\ CompletedIndexed
  BY DEF IInv
<1>1. /\ Finish(j, w, q)
      /\ job' = [job EXCEPT ![j].state = state, ![j].queue = next, ![j].worker = NoWorker,
                            ![j].remaining = job[j].retries]
      /\ WaitOn(j, waits)
      /\ work' = With(Without(work, q, {j}), next, into(~delayed /\ waits = {}))
      /\ scheduled' = Mark(Mark(scheduled, q, {j}, "none"), next, into(delayed), "wait")
      /\ depends' = With(depends, next, into(waits # {}))
      /\ UNCHANGED <<completed, failed, failures>>
  BY DEF Advance, failVars
<1>2. /\ Exists(j) /\ job[j].state = "running" /\ job[j].worker = w
      /\ job[j].queue = q /\ q \in Queues
      /\ dependencies[j] = {}
      /\ \A v \in Workers, i \in Jids : i # j /\ i \in workerJobs[v] => i \in workerJobs'[v]
      /\ \A p \in Queues, i \in Jids : locks'[p][i] = IF p = q /\ i = j THEN "none" ELSE locks[p][i]
      /\ \A v \in Workers, i \in Jids : held'[v][i] = IF v = w /\ i = j THEN NoQueue ELSE held[v][i]
      /\ \A p \in Queues : /\ p # q => locks[p][j] = "none"
                           /\ scheduled[p][j] = "none"
                           /\ j \notin work[p] /\ j \notin depends[p]
  BY <1>1, FinishFacts
<1>3. Typed'
  BY <1>0, AdvanceTyped
<1>4. waits \in SUBSET Jids
  OBVIOUS
<1>5. DependencyInverse'
  BY <1>0, <1>1, <1>4, WaitOnInverse
<1>6. /\ \A i \in Jids : i # j => job'[i] = job[i]
      /\ job'[j] # NoJob /\ job'[j].state = state /\ job'[j].queue = next
      /\ job'[j].worker = NoWorker /\ job'[j].remaining \in Nat
  <2> DEFINE r == job[j]
             s == [r EXCEPT !.state = state, !.queue = next, !.worker = NoWorker,
                            !.remaining = r.retries]
  <2>1. /\ r \in LooseJob /\ r.retries \in Nat /\ r.retries \in Int /\ state \in States
    BY <1>0, <1>2, HashType DEF States
  <2>2. job' = [job EXCEPT ![j] = s]
    BY <1>1
  <2>3. \A i \in Jids : job'[i] = IF i = j THEN s ELSE job[i]
    <3> HIDE DEF s
    <3> QED BY <1>0, <2>2 DEF Typed
  <2> HIDE DEF r, state
  <2>4. s \in LooseJob
    BY <2>1 DEF LooseJob, Hash
  <2>5. s.state = state /\ s.queue = next /\ s.worker = NoWorker /\ s.remaining = r.retries
    BY <2>1 DEF LooseJob, Hash
  <2> HIDE DEF s
  <2> QED BY <2>1, <2>3, <2>4, <2>5, HashExists
<1>7. state \in {"depends", "waiting"} /\ (state = "depends" <=> waits # {})
  OBVIOUS
<1>8. delayed => waits = {}
  OBVIOUS
<1>9. \A d \in waits : d = j \/ (Exists(d) /\ ~InState(d, "complete"))
  BY DEF Legit
<1> HIDE DEF state, waits, q
<1>10. NothingStranded'
  <2>1. \A i \in Jids : dependencies'[i] = IF i = j THEN waits ELSE dependencies[i]
    BY <1>0, <1>1, <1>2 DEF WaitOn, With, Typed
  <2>2. ASSUME NEW i \in Jids
        PROVE  dependencies'[i] # {} <=> InState(i, "depends")'
    BY <1>0, <1>6, <1>7, <2>1 DEF NothingStranded, InState, Exists
  <2>3. ASSUME NEW i \in Jids, NEW d \in dependencies'[i]
        PROVE  Exists(d)' /\ ~InState(d, "complete")'
    <3>1. d \in Jids
      BY <1>3, <2>3 DEF Typed
    <3>2. d = j \/ (Exists(d) /\ ~InState(d, "complete"))
      BY <1>0, <1>9, <2>1, <2>3 DEF NothingStranded
    <3> QED BY <1>6, <1>7, <3>1, <3>2 DEF InState, Exists
  <2> QED BY <2>2, <2>3 DEF NothingStranded
<1>11. Placement'
  <2>1. \A b : into(b) = IF b THEN {j} ELSE {}
    OBVIOUS
  <2> HIDE DEF into
  <2>2. \A p \in Queues : work'[p] = (IF p = q THEN work[p] \ {j} ELSE work[p])
                                       \cup (IF p = next THEN into(~delayed /\ waits = {}) ELSE {})
    BY <1>0, <1>1 DEF With, Without, Typed
  <2>3. \A p \in Queues : depends'[p] = depends[p] \cup (IF p = next THEN into(waits # {}) ELSE {})
    BY <1>0, <1>1 DEF With, Typed
  <2>4. \A p \in Queues, i \in Jids :
           scheduled'[p][i] = IF p = next /\ i \in into(delayed) THEN "wait"
                              ELSE IF p = q /\ i = j THEN "none" ELSE scheduled[p][i]
    BY <1>1 DEF Mark
  <2>5. ASSUME NEW i \in Jids, i # j
        PROVE  Placed(i)'
    <3>1. ASSUME NEW p \in Queues
          PROVE  /\ i \in work'[p] <=> i \in work[p]
                 /\ i \in depends'[p] <=> i \in depends[p]
      BY <2>1, <2>2, <2>3, <2>5
    <3>2. ASSUME NEW p \in Queues
          PROVE  locks'[p][i] = locks[p][i] /\ scheduled'[p][i] = scheduled[p][i]
      BY <1>2, <2>1, <2>4, <2>5
    <3>3. Still(i)
      BY <1>6, <2>5, <3>1, <3>2 DEF Still
    <3> QED BY <1>0, <3>3, StillPlaced DEF Placement
  <2>6. ASSUME NEW p \in Queues
        PROVE  /\ locks'[p][j] = "none"
               /\ j \in depends'[p] <=> (p = next /\ waits # {})
               /\ j \in work'[p] <=> (p = next /\ ~delayed /\ waits = {})
               /\ scheduled'[p][j] # "none" <=> (p = next /\ delayed)
    <3>1. locks'[p][j] = "none"
      BY <1>2
    <3>2. j \in depends'[p] <=> (p = next /\ waits # {})
      <4> DEFINE some == waits # {}
      <4>1. j \notin depends[p]
        BY <1>2
      <4>2. depends'[p] = depends[p] \cup (IF p = next THEN into(some) ELSE {})
        BY <2>3
      <4>3. into(some) = IF some THEN {j} ELSE {}
        BY <2>1
      <4> HIDE DEF some
      <4>4. j \in depends'[p] <=> (p = next /\ some)
        BY <4>1, <4>2, <4>3
      <4> QED BY <4>4 DEF some
    <3>3. j \in work'[p] <=> (p = next /\ ~delayed /\ waits = {})
      <4> DEFINE now == ~delayed /\ waits = {}
      <4>1. j \notin work[p]
        BY <1>2
      <4>2. work'[p] = (IF p = q THEN work[p] \ {j} ELSE work[p])
                          \cup (IF p = next THEN into(now) ELSE {})
        BY <2>2
      <4>3. into(now) = IF now THEN {j} ELSE {}
        BY <2>1
      <4> HIDE DEF now
      <4>4. j \in work'[p] <=> (p = next /\ now)
        BY <4>1, <4>2, <4>3
      <4> QED BY <4>4 DEF now
    <3>4. scheduled'[p][j] # "none" <=> (p = next /\ delayed)
      <4>1. scheduled[p][j] = "none"
        BY <1>2
      <4>2. CASE delayed
        BY <2>1, <2>4, <4>1, <4>2
      <4>3. CASE ~delayed
        BY <2>1, <2>4, <4>1, <4>3
      <4> QED BY <4>2, <4>3
    <3> QED BY <3>1, <3>2, <3>3, <3>4
  <2>7. Placed(j)'
    <3>1. Exists(j)' /\ QueueOf(j)' = next /\ next # NoQueue
      BY <1>6, NullsAssumption DEF NullsAssumption, Exists, QueueOf
    <3>2. CASE waits # {}
      BY <1>6, <1>7, <1>8, <2>6, <3>1, <3>2 DEF Placed
    <3>3. CASE waits = {}
      BY <1>6, <1>7, <1>8, <2>6, <3>1, <3>3 DEF Placed
    <3> QED BY <3>2, <3>3
  <2> QED BY <2>5, <2>7 DEF Placement
<1>12. OwnerListed'
  BY <1>0, <1>2, <1>6, <1>7 DEF OwnerListed, InState, Exists
<1>13. HolderCurrent'
  <2>1. NoWorker \notin Workers
    BY NullsAssumption DEF NullsAssumption
  <2> QED BY <1>0, <1>2, <1>6, <2>1 DEF HolderCurrent, WorkerOf, Running, InState, Exists
<1>14. RetriesLeft'
  BY <1>0, <1>6, <1>7 DEF RetriesLeft, Exists
<1>15. FailedIndexed'
  <2>1. \A i \in Jids, g \in AllGroups : Failed(i, g)' <=> Failed(i, g)
    BY <1>2, <1>6, <1>7 DEF Failed, InState, Exists
  <2> QED BY <1>0, <1>1, <2>1, FailedKept DEF failVars
<1>16. CompletedIndexed'
  <2>1. \A i \in Jids : InState(i, "complete")' <=> InState(i, "complete")
    BY <1>2, <1>6, <1>7 DEF InState, Exists
  <2> QED BY <1>0, <1>1, <2>1, CompletedKept
<1> QED
  BY <1>3, <1>5, <1>10, <1>11, <1>12, <1>13, <1>14, <1>15, <1>16 DEF IInv
LEMMA CompleteKeeps ==
    ASSUME IInv, NEW j \in Jids, NEW w \in Workers, Complete(j, w)
    PROVE  IInv'
<1> DEFINE q == held[w][j]
<1>0. /\ Typed /\ Placement /\ DependencyInverse /\ NothingStranded /\ OwnerListed
      /\ HolderCurrent /\ RetriesLeft /\ FailedIndexed /\ CompletedIndexed
  BY DEF IInv
<1>1. Finish(j, w, q)
  BY DEF Complete
<1>2. /\ Exists(j) /\ job[j].state = "running" /\ job[j].worker = w
      /\ job[j].queue = q /\ q \in Queues
      /\ dependencies[j] = {}
      /\ \A v \in Workers, i \in Jids : i # j /\ i \in workerJobs[v] => i \in workerJobs'[v]
      /\ \A p \in Queues, i \in Jids : locks'[p][i] = IF p = q /\ i = j THEN "none" ELSE locks[p][i]
      /\ \A v \in Workers, i \in Jids : held'[v][i] = IF v = w /\ i = j THEN NoQueue ELSE held[v][i]
      /\ \A p \in Queues : /\ p # q => locks[p][j] = "none"
                           /\ scheduled[p][j] = "none"
                           /\ j \notin work[p] /\ j \notin depends[p]
  BY <1>1, FinishFacts
<1>3. Typed'
  BY <1>0, CompleteTyped
<1>4. DependencyInverse'
  BY <1>0, CompleteInverse
<1>5. PICK kept \in Histories(j) :
        LET trimmed == completed \ kept
            freed == FreedBy(j) \ trimmed
        IN
        /\ completed' = kept
        /\ job' = [d \in Jids |->
             IF d = j THEN [job[j] EXCEPT !.state = "complete", !.queue = NoQueue,
                                !.worker = NoWorker, !.remaining = job[j].retries]
             ELSE IF d \in trimmed THEN NoJob
             ELSE IF d \in freed THEN [job[d] EXCEPT !.state = "waiting"]
             ELSE job[d]]
        /\ work' = [p \in Queues |-> (IF p = q THEN work[p] \ {j} ELSE work[p])
                                        \cup {d \in freed : QueueOf(d) = p}]
        /\ depends' = [p \in Queues |-> depends[p] \ {d \in freed : QueueOf(d) = p}]
  BY DEF Complete
<1> DEFINE trimmed == completed \ kept
           freed == FreedBy(j) \ trimmed
<1>6. /\ job' = [d \in Jids |->
             IF d = j THEN [job[j] EXCEPT !.state = "complete", !.queue = NoQueue,
                                !.worker = NoWorker, !.remaining = job[j].retries]
             ELSE IF d \in trimmed THEN NoJob
             ELSE IF d \in freed THEN [job[d] EXCEPT !.state = "waiting"]
             ELSE job[d]]
      /\ \A p \in Queues : work'[p] = (IF p = q THEN work[p] \ {j} ELSE work[p])
                                         \cup {d \in freed : QueueOf(d) = p}
      /\ \A p \in Queues : depends'[p] = depends[p] \ {d \in freed : QueueOf(d) = p}
  BY <1>5
<1>7. \A d \in trimmed : d \in Jids /\ InState(d, "complete") /\ d # j
  BY <1>0, <1>2 DEF CompletedIndexed, InState
<1>8. \A d \in dependents[j] : /\ d \in Jids /\ d # j /\ j \in dependencies[d]
                               /\ InState(d, "depends") /\ d \notin trimmed
  BY <1>0, <1>2, <1>7 DEF DependencyInverse, NothingStranded, Typed, InState
<1>9. \A d \in freed : d \in dependents[j] /\ dependencies[d] \ {j} = {}
  BY DEF FreedBy
<1>10. \A d \in dependents[j] : d \in freed <=> dependencies[d] \ {j} = {}
  BY <1>8 DEF FreedBy, InState
<1> HIDE DEF trimmed, freed, q
<1>11. /\ job'[j] # NoJob /\ job'[j].state = "complete" /\ job'[j].queue = NoQueue
       /\ job'[j].worker = NoWorker /\ job'[j].remaining >= 0
  <2> DEFINE r == job[j]
             s == [r EXCEPT !.state = "complete", !.queue = NoQueue,
                            !.worker = NoWorker, !.remaining = r.retries]
  <2>1. /\ r \in LooseJob /\ r.retries \in Nat /\ r.retries \in Int /\ "complete" \in States
    BY <1>0, <1>2, HashType DEF States
  <2>2. job'[j] = s
    BY <1>6
  <2> HIDE DEF r
  <2>3. s \in LooseJob
    BY <2>1 DEF LooseJob, Hash
  <2>4. s.state = "complete" /\ s.queue = NoQueue /\ s.worker = NoWorker /\ s.remaining = r.retries
    BY <2>1 DEF LooseJob, Hash
  <2> HIDE DEF s
  <2> QED BY <2>1, <2>2, <2>3, <2>4, HashExists
<1>12. \A d \in trimmed : job'[d] = NoJob
  BY <1>6, <1>7
<1>13. ASSUME NEW d \in freed
       PROVE  /\ job'[d] # NoJob /\ job'[d].state = "waiting" /\ job'[d].queue = job[d].queue
              /\ job'[d].worker = job[d].worker /\ job'[d].remaining = job[d].remaining
              /\ d \in Jids /\ d # j /\ d \notin trimmed /\ InState(d, "depends")
  <2> DEFINE r == job[d]
             s == [r EXCEPT !.state = "waiting"]
  <2>1. d \in Jids /\ d # j /\ d \notin trimmed /\ InState(d, "depends") /\ Exists(d)
    BY <1>8, <1>9 DEF InState
  <2>2. job'[d] = s
    BY <1>6, <2>1
  <2>3. r \in LooseJob /\ "waiting" \in States
    BY <1>0, <2>1, HashType DEF States
  <2> HIDE DEF r
  <2>4. s \in LooseJob
    BY <2>3 DEF LooseJob, Hash
  <2>5. s.state = "waiting" /\ s.queue = r.queue /\ s.worker = r.worker /\ s.remaining = r.remaining
    BY <2>3 DEF LooseJob, Hash
  <2> HIDE DEF s
  <2> QED BY <2>1, <2>2, <2>4, <2>5, HashExists DEF r
<1>14. \A d \in Jids : d # j /\ d \notin trimmed \cup freed => job'[d] = job[d]
  BY <1>6
<1>15. NothingStranded'
  <2>1. \A d \in Jids : dependencies'[d] =
           IF d \in dependents[j] THEN dependencies[d] \ {j} ELSE dependencies[d]
    BY DEF Complete
  <2>2. ASSUME NEW i \in Jids
        PROVE  dependencies'[i] # {} <=> InState(i, "depends")'
    <3>1. CASE i \in dependents[j]
      <4>1. CASE i \in freed
        BY <1>9, <1>13, <2>1, <3>1, <4>1 DEF InState
      <4>2. CASE i \notin freed
        <5>1. job'[i] = job[i] /\ InState(i, "depends")
          BY <1>8, <1>14, <3>1, <4>2
        <5> QED BY <1>10, <2>1, <3>1, <4>2, <5>1 DEF InState, Exists
      <4> QED BY <4>1, <4>2
    <3>2. CASE i \notin dependents[j]
      <4>1. dependencies'[i] = dependencies[i] /\ i \notin freed
        BY <1>9, <2>1, <3>2
      <4>2. CASE i = j
        BY <1>2, <1>11, <4>1, <4>2 DEF InState
      <4>3. CASE i \in trimmed
        BY <1>0, <1>7, <1>12, <4>1, <4>3 DEF NothingStranded, InState, Exists
      <4>4. CASE i # j /\ i \notin trimmed
        BY <1>0, <1>14, <4>1, <4>4 DEF NothingStranded, InState, Exists
      <4> QED BY <4>2, <4>3, <4>4
    <3> QED BY <3>1, <3>2
  <2>3. ASSUME NEW i \in Jids, NEW d \in dependencies'[i]
        PROVE  Exists(d)' /\ ~InState(d, "complete")'
    <3>1. d \in dependencies[i] /\ d \in Jids
      BY <1>0, <2>1, <2>3 DEF Typed
    <3>2. Exists(d) /\ ~InState(d, "complete")
      BY <1>0, <3>1 DEF NothingStranded
    <3>3. d # j
      <4>1. d = j => i \in dependents[j]
        BY <1>0, <3>1 DEF DependencyInverse
      <4> QED BY <2>1, <2>3, <4>1
    <3>4. d \notin trimmed
      BY <1>7, <3>2
    <3>5. CASE d \in freed
      BY <1>13, <3>5 DEF InState, Exists
    <3>6. CASE d \notin freed
      BY <1>14, <3>1, <3>2, <3>3, <3>4, <3>6 DEF InState, Exists
    <3> QED BY <3>5, <3>6
  <2> QED BY <2>2, <2>3 DEF NothingStranded
<1>16. Placement'
  <2>1. \A p \in Queues, i \in Jids :
           scheduled'[p][i] = IF p = q /\ i = j THEN "none" ELSE scheduled[p][i]
    BY DEF Complete, Mark, q
  <2>2. Placed(j)'
    <3>1. j \notin freed
      BY <1>13
    <3>2. ASSUME NEW p \in Queues
          PROVE  /\ locks'[p][j] = "none" /\ scheduled'[p][j] = "none"
                 /\ j \notin work'[p] /\ j \notin depends'[p]
      <4>1. locks'[p][j] = "none" /\ scheduled'[p][j] = "none"
        BY <1>2, <2>1
      <4>2. j \notin work'[p] /\ j \notin depends'[p]
        BY <1>2, <1>6, <3>1
      <4> QED BY <4>1, <4>2
    <3>3. Exists(j)' /\ QueueOf(j)' = NoQueue
      BY <1>11 DEF Exists, QueueOf
    <3> QED BY <1>11, <3>2, <3>3 DEF Placed
  <2>3. ASSUME NEW i \in trimmed
        PROVE  Placed(i)'
    <3>1. i \in Jids /\ Placed(i) /\ Exists(i) /\ job[i].state = "complete" /\ i # j /\ i \notin freed
      BY <1>0, <1>7, <1>13 DEF Placement, InState
    <3>2. ASSUME NEW p \in Queues
          PROVE  /\ locks[p][i] = "none" /\ scheduled[p][i] = "none"
                 /\ i \notin work[p] /\ i \notin depends[p]
      BY <3>1 DEF Placed
    <3>3. ASSUME NEW p \in Queues
          PROVE  /\ locks'[p][i] = "none" /\ scheduled'[p][i] = "none"
                 /\ i \notin work'[p] /\ i \notin depends'[p]
      <4>1. locks'[p][i] = "none" /\ scheduled'[p][i] = "none"
        BY <1>2, <2>1, <3>1, <3>2
      <4>2. i \notin work'[p] /\ i \notin depends'[p]
        BY <1>6, <3>1, <3>2
      <4> QED BY <4>1, <4>2
    <3>4. ~Exists(i)'
      BY <1>12, <2>3 DEF Exists
    <3> QED BY <3>3, <3>4 DEF Placed
  <2>4. ASSUME NEW i \in freed
        PROVE  Placed(i)'
    <3>1. i \in Jids /\ Placed(i) /\ Exists(i) /\ job[i].state = "depends" /\ i # j
      BY <1>0, <1>13 DEF Placement, InState
    <3>2. QueueOf(i) = job[i].queue /\ job[i].queue # NoQueue
      BY <3>1 DEF Placed, QueueOf
    <3>3. ASSUME NEW p \in Queues
          PROVE  /\ locks[p][i] = "none" /\ scheduled[p][i] = "none"
                 /\ i \notin work[p]
                 /\ i \in depends[p] <=> p = job[i].queue
      BY <3>1, <3>2 DEF Placed
    <3>4. ASSUME NEW p \in Queues
          PROVE  /\ locks'[p][i] = "none" /\ scheduled'[p][i] = "none"
                 /\ i \in work'[p] <=> p = job[i].queue
                 /\ i \notin depends'[p]
      <4>1. locks'[p][i] = "none" /\ scheduled'[p][i] = "none"
        BY <1>2, <2>1, <3>1, <3>3
      <4>2. i \in work'[p] <=> p = job[i].queue
        BY <1>6, <2>4, <3>1, <3>2, <3>3
      <4>3. i \notin depends'[p]
        BY <1>6, <2>4, <3>2, <3>3
      <4> QED BY <4>1, <4>2, <4>3
    <3>5. Exists(i)' /\ QueueOf(i)' = job[i].queue
      BY <1>13, <2>4 DEF Exists, QueueOf
    <3> QED BY <1>13, <2>4, <3>2, <3>4, <3>5 DEF Placed
  <2>5. ASSUME NEW i \in Jids, i # j, i \notin trimmed \cup freed
        PROVE  Placed(i)'
    <3>1. ASSUME NEW p \in Queues
          PROVE  /\ i \in work'[p] <=> i \in work[p]
                 /\ i \in depends'[p] <=> i \in depends[p]
      BY <1>6, <2>5
    <3>2. ASSUME NEW p \in Queues
          PROVE  locks'[p][i] = locks[p][i] /\ scheduled'[p][i] = scheduled[p][i]
      BY <1>2, <2>1, <2>5
    <3>3. job'[i] = job[i]
      BY <1>14, <2>5
    <3>4. Still(i)
      BY <3>1, <3>2, <3>3 DEF Still
    <3> QED BY <1>0, <3>4, StillPlaced DEF Placement
  <2> QED BY <2>2, <2>3, <2>4, <2>5 DEF Placement
<1>17. OwnerListed'
  <2>1. ASSUME NEW i \in Jids, InState(i, "running")'
        PROVE  job'[i].worker \in Workers /\ i \in workerJobs'[job'[i].worker]
    <3>1. i # j /\ i \notin trimmed /\ i \notin freed
      BY <1>11, <1>12, <1>13, <2>1 DEF InState, Exists
    <3>2. job'[i] = job[i]
      BY <1>14, <3>1
    <3> QED BY <1>0, <1>2, <2>1, <3>1, <3>2 DEF OwnerListed, InState, Exists
  <2> QED BY <2>1 DEF OwnerListed
<1>18. HolderCurrent'
  <2>1. ASSUME NEW v \in Workers, NEW i \in Jids, held'[v][i] # NoQueue, WorkerOf(i)' = v
        PROVE  Running(i, v)' /\ held'[v][i] = job'[i].queue
    <3>1. i # j /\ i \notin trimmed
      BY <1>11, <1>12, <2>1, NullsAssumption DEF NullsAssumption, WorkerOf, Exists
    <3>2. held[v][i] # NoQueue /\ held'[v][i] = held[v][i]
      BY <1>2, <2>1, <3>1
    <3>3. i \notin freed
      <4>1. i \in freed => WorkerOf(i) = v /\ ~Running(i, v)
        BY <1>13, <2>1 DEF WorkerOf, Running, InState, Exists
      <4> QED BY <1>0, <3>2, <4>1 DEF HolderCurrent
    <3>4. job'[i] = job[i]
      BY <1>14, <3>1, <3>3
    <3> QED BY <1>0, <2>1, <3>2, <3>4 DEF HolderCurrent, WorkerOf, Running, InState, Exists
  <2> QED BY <2>1 DEF HolderCurrent
<1>19. RetriesLeft'
  <2>1. ASSUME NEW i \in Jids, Exists(i)'
        PROVE  job'[i].remaining >= IF job'[i].state = "failed" THEN -1 ELSE 0
    <3>1. CASE i = j
      BY <1>11, <3>1
    <3>2. CASE i \in trimmed
      BY <1>12, <2>1, <3>2 DEF Exists
    <3>3. CASE i \in freed
      BY <1>0, <1>13, <3>3 DEF RetriesLeft, InState
    <3>4. CASE i # j /\ i \notin trimmed \cup freed
      BY <1>0, <1>14, <2>1, <3>4 DEF RetriesLeft, Exists
    <3> QED BY <3>1, <3>2, <3>3, <3>4
  <2> QED BY <2>1 DEF RetriesLeft
<1>20. FailedIndexed'
  <2>1. ASSUME NEW i \in Jids, NEW g \in AllGroups
        PROVE  Failed(i, g)' <=> Failed(i, g)
    <3>1. CASE i = j
      BY <1>2, <1>11, <3>1 DEF Failed, InState
    <3>2. CASE i \in trimmed
      BY <1>7, <1>12, <3>2 DEF Failed, InState, Exists
    <3>3. CASE i \in freed
      BY <1>13, <3>3 DEF Failed, InState
    <3>4. CASE i # j /\ i \notin trimmed \cup freed
      BY <1>14, <3>4 DEF Failed, InState, Exists
    <3> QED BY <3>1, <3>2, <3>3, <3>4
  <2>2. UNCHANGED failVars
    BY DEF Complete
  <2> QED BY <1>0, <2>1, <2>2, FailedKept
<1>21. CompletedIndexed'
  <2>1. completed' = kept /\ kept \subseteq completed \cup {j} /\ j \in kept
        /\ Cardinality(kept) <= HistoryCount
    BY <1>5 DEF Histories
  <2>2. ASSUME NEW i \in Jids
        PROVE  i \in completed' <=> InState(i, "complete")'
    <3>0. i \in completed <=> InState(i, "complete")
      BY <1>0 DEF CompletedIndexed
    <3>1. CASE i = j
      BY <1>11, <2>1, <3>1 DEF InState, Exists
    <3>2. CASE i \in trimmed
      BY <1>12, <2>1, <3>2 DEF InState, Exists, trimmed
    <3>3. CASE i \in freed
      <4>1. ~InState(i, "complete") /\ ~InState(i, "complete")' /\ i # j
        BY <1>13, <3>3 DEF InState
      <4> QED BY <2>1, <3>0, <4>1
    <3>4. CASE i # j /\ i \notin trimmed \cup freed
      <4>1. InState(i, "complete")' <=> InState(i, "complete")
        BY <1>14, <3>4 DEF InState, Exists
      <4> QED BY <2>1, <3>0, <3>4, <4>1 DEF trimmed
    <3> QED BY <3>1, <3>2, <3>3, <3>4
  <2>3. completed' \subseteq Jids
    BY <1>3 DEF Typed
  <2>4. completed' = {i \in Jids : InState(i, "complete")'}
    BY <2>2, <2>3
  <2> QED BY <2>1, <2>4 DEF CompletedIndexed
<1> QED
  BY <1>3, <1>4, <1>15, <1>16, <1>17, <1>18, <1>19, <1>20, <1>21 DEF IInv
LEMMA FailKeeps ==
    ASSUME IInv, NEW j \in Jids, NEW w \in Workers, NEW g \in Groups, Fail(j, w, g)
    PROVE  IInv'
<1> DEFINE q == QueueOf(j)
<1>0. /\ Typed /\ Placement /\ DependencyInverse /\ NothingStranded /\ OwnerListed
      /\ HolderCurrent /\ RetriesLeft /\ FailedIndexed /\ CompletedIndexed
  BY DEF IInv
<1>1. /\ InState(j, "running")
      /\ job' = [job EXCEPT ![j].state = "failed", ![j].worker = NoWorker, ![j].group = g]
      /\ workerJobs' = Without(workerJobs, w, {j})
      /\ work' = Without(work, q, {j})
      /\ locks' = Mark(locks, q, {j}, "none")
      /\ scheduled' = Mark(scheduled, q, {j}, "none")
      /\ List(g, {j})
      /\ Forget(w, j)
      /\ UNCHANGED <<depends, dependents, dependencies, completed>>
  BY DEF Fail, depVars
<1>2. Typed'
  BY <1>0, FailTyped
<1>3. g \in AllGroups
  BY DEF AllGroups
<1>4. /\ \A i \in Jids : i # j => job'[i] = job[i]
      /\ job'[j] # NoJob /\ job'[j].state = "failed" /\ job'[j].queue = job[j].queue
      /\ job'[j].worker = NoWorker /\ job'[j].group = g /\ job'[j].remaining >= -1
  <2> DEFINE r == job[j]
             s == [r EXCEPT !.state = "failed", !.worker = NoWorker, !.group = g]
  <2>1. /\ r \in LooseJob /\ r.remaining \in Int /\ r.remaining >= 0 /\ "failed" \in States
    BY <1>0, <1>1, HashType DEF States, InState, RetriesLeft
  <2>2. job' = [job EXCEPT ![j] = s]
    BY <1>1
  <2>3. \A i \in Jids : job'[i] = IF i = j THEN s ELSE job[i]
    <3> HIDE DEF s
    <3> QED BY <1>0, <2>2 DEF Typed
  <2> HIDE DEF r
  <2>4. s \in LooseJob
    BY <1>3, <2>1 DEF LooseJob, Hash
  <2>5. s.state = "failed" /\ s.queue = r.queue /\ s.worker = NoWorker /\ s.group = g
        /\ s.remaining = r.remaining
    BY <2>1 DEF LooseJob, Hash
  <2> HIDE DEF s
  <2>6. s.remaining >= -1
    BY <2>1, <2>5
  <2> QED BY <2>3, <2>4, <2>5, <2>6, HashExists DEF r
<1>5. NothingStranded' /\ DependencyInverse'
  <2>1. \A i \in Jids : InState(i, "depends")' <=> InState(i, "depends")
    BY <1>1, <1>4 DEF InState, Exists
  <2>2. \A i \in Jids : Exists(i) /\ ~InState(i, "complete") => Exists(i)' /\ ~InState(i, "complete")'
    BY <1>1, <1>4 DEF InState, Exists
  <2> QED BY <1>0, <1>1, <2>1, <2>2, StrandedKept DEF depVars, DependencyInverse
<1>6. Placement'
  <2>1. \A p \in Queues : work'[p] = IF p = q THEN work[p] \ {j} ELSE work[p]
    BY <1>0, <1>1 DEF Without, Typed
  <2>2. \A p \in Queues, i \in Jids :
          /\ locks'[p][i] = IF p = q /\ i = j THEN "none" ELSE locks[p][i]
          /\ scheduled'[p][i] = IF p = q /\ i = j THEN "none" ELSE scheduled[p][i]
    BY <1>1 DEF Mark
  <2>3. ASSUME NEW i \in Jids, i # j
        PROVE  Placed(i)'
    <3>1. Still(i)
      BY <1>1, <1>4, <2>1, <2>2, <2>3 DEF Still
    <3> QED BY <1>0, <3>1, StillPlaced DEF Placement
  <2>4. Placed(j)'
    <3>1. Placed(j) /\ Exists(j) /\ job[j].state = "running" /\ q = job[j].queue
      BY <1>0, <1>1 DEF Placement, InState, QueueOf
    <3>2. ASSUME NEW p \in Queues
          PROVE  /\ p # q => locks[p][j] = "none"
                 /\ scheduled[p][j] = "none" /\ j \notin work[p] /\ j \notin depends[p]
      BY <3>1 DEF Placed
    <3> HIDE DEF q
    <3>3. ASSUME NEW p \in Queues
          PROVE  /\ locks'[p][j] = "none" /\ scheduled'[p][j] = "none"
                 /\ j \notin work'[p] /\ j \notin depends'[p]
      <4>1. locks'[p][j] = "none" /\ scheduled'[p][j] = "none"
        BY <2>2, <3>2
      <4>2. j \notin work'[p] /\ j \notin depends'[p]
        BY <1>1, <2>1, <3>2
      <4> QED BY <4>1, <4>2
    <3>4. Exists(j)' /\ job'[j].queue # NoQueue
      BY <1>4, <3>1 DEF Exists, Placed
    <3> QED BY <1>4, <3>3, <3>4 DEF Placed
  <2> QED BY <2>3, <2>4 DEF Placement
<1>7. OwnerListed'
  <2>1. \A v \in Workers, i \in Jids : i # j /\ i \in workerJobs[v] => i \in workerJobs'[v]
    BY <1>0, <1>1 DEF Without, Typed
  <2> QED BY <1>0, <1>4, <2>1 DEF OwnerListed, InState, Exists
<1>8. HolderCurrent'
  <2>1. \A v \in Workers, i \in Jids : i # j => held'[v][i] = held[v][i]
    BY <1>0, <1>1 DEF Forget, Typed
  <2>2. NoWorker \notin Workers
    BY NullsAssumption DEF NullsAssumption
  <2> QED BY <1>0, <1>4, <2>1, <2>2 DEF HolderCurrent, WorkerOf, Running, InState, Exists
<1>9. RetriesLeft'
  BY <1>0, <1>4 DEF RetriesLeft, Exists
<1>10. FailedIndexed'
  <2>1. ASSUME NEW i \in Jids, NEW f \in AllGroups
        PROVE  Failed(i, f)' <=> Failed(i, f) \/ (i \in {j} /\ f = g)
    BY <1>1, <1>4 DEF Failed, InState, Exists
  <2> QED BY <1>0, <1>1, <1>3, <2>1, FailedListed
<1>11. CompletedIndexed'
  <2>1. \A i \in Jids : InState(i, "complete")' <=> InState(i, "complete")
    BY <1>1, <1>4 DEF InState, Exists
  <2> QED BY <1>0, <1>1, <2>1, CompletedKept
<1> QED BY <1>2, <1>5, <1>6, <1>7, <1>8, <1>9, <1>10, <1>11 DEF IInv

LEMMA RetryKeeps ==
    ASSUME IInv, NEW j \in Jids, NEW w \in Workers, NEW delayed \in BOOLEAN, Retry(j, w, delayed)
    PROVE  IInv'
<1> DEFINE q == held[w][j]
           out == j \in Exhausted({j})
           into(now) == IF now /\ ~out THEN {j} ELSE {}
           state == IF out THEN "failed" ELSE IF delayed THEN "scheduled" ELSE "waiting"
<1>0. /\ Typed /\ Placement /\ DependencyInverse /\ NothingStranded /\ OwnerListed
      /\ HolderCurrent /\ RetriesLeft /\ FailedIndexed /\ CompletedIndexed
  BY DEF IInv
<1>1. /\ q # NoQueue /\ Running(j, w)
      /\ job' = [job EXCEPT
             ![j].state = state,
             ![j].worker = IF out THEN NoWorker ELSE job[j].worker,
             ![j].remaining = job[j].remaining - 1,
             ![j].group = IF out THEN RetryGroup(q) ELSE job[j].group]
      /\ locks' = Mark(locks, job[j].queue, {j}, "none")
      /\ workerJobs' = Without(workerJobs, w, {j})
      /\ work' = With(work, q, into(~delayed))
      /\ scheduled' = Mark(scheduled, q, into(delayed), "wait")
      /\ List(RetryGroup(q), IF out THEN {j} ELSE {})
      /\ Forget(w, j)
      /\ UNCHANGED <<depends, dependents, dependencies, completed>>
  BY DEF Retry, depVars
<1>2. Typed'
  BY <1>0, RetryTyped
<1>3. /\ Exists(j) /\ job[j].state = "running" /\ job[j].worker = w /\ job[j].queue = q
      /\ q \in Queues /\ RetryGroup(q) \in AllGroups
  <2>1. Exists(j) /\ job[j].state = "running" /\ job[j].worker = w
    BY <1>1 DEF Running, InState
  <2>2. job[j].queue = q /\ q \in Queues
    BY <1>0, <1>1, <2>1 DEF HolderCurrent, WorkerOf, Typed
  <2> QED BY <2>1, <2>2, RetryGroupType
<1>4. out <=> job[j].remaining - 1 < 0
  BY <1>3 DEF Exhausted
<1>5. /\ \A i \in Jids : i # j => job'[i] = job[i]
      /\ job'[j] # NoJob /\ job'[j].state = state /\ job'[j].queue = q
      /\ job'[j].worker = IF out THEN NoWorker ELSE w
      /\ out => job'[j].group = RetryGroup(q)
      /\ job'[j].remaining >= IF out THEN -1 ELSE 0
  <2> DEFINE r == job[j]
             v == IF out THEN NoWorker ELSE r.worker
             n == r.remaining - 1
             g == IF out THEN RetryGroup(q) ELSE r.group
             s == [r EXCEPT !.state = state, !.worker = v, !.remaining = n, !.group = g]
  <2>1. /\ r \in LooseJob /\ r.remaining \in Int /\ r.remaining >= 0 /\ state \in States
        /\ r.queue = q /\ r.worker = w
    BY <1>0, <1>3, HashType DEF States, RetriesLeft
  <2>2. job' = [job EXCEPT ![j] = s]
    BY <1>1
  <2>3. \A i \in Jids : job'[i] = IF i = j THEN s ELSE job[i]
    <3> HIDE DEF s
    <3> QED BY <1>0, <2>2 DEF Typed
  <2>4. n \in Int /\ n >= (IF out THEN -1 ELSE 0)
    BY <1>4, <2>1
  <2>5. v \in Workers \cup {NoWorker} /\ v = IF out THEN NoWorker ELSE w
    BY <2>1
  <2>6. g \in AllGroups \cup {NoGroup} /\ (out => g = RetryGroup(q))
    BY <1>0, <1>3, HashType
  <2> HIDE DEF r, state, v, n, g, out
  <2>7. s \in LooseJob
    BY <2>1, <2>4, <2>5, <2>6 DEF LooseJob, Hash
  <2>8. s.state = state /\ s.queue = r.queue /\ s.worker = v /\ s.group = g /\ s.remaining = n
    BY <2>1 DEF LooseJob, Hash
  <2> HIDE DEF s, q
  <2> QED BY <2>1, <2>3, <2>4, <2>5, <2>6, <2>7, <2>8, HashExists
<1>6. /\ out => state = "failed"
      /\ ~out /\ delayed => state = "scheduled"
      /\ ~out /\ ~delayed => state = "waiting"
  OBVIOUS
<1>7. \A b : into(b) = IF b /\ ~out THEN {j} ELSE {}
  OBVIOUS
<1> HIDE DEF q, out, into, state
<1>8. NothingStranded' /\ DependencyInverse'
  <2>1. \A i \in Jids : InState(i, "depends")' <=> InState(i, "depends")
    BY <1>3, <1>5, <1>6 DEF InState, Exists
  <2>2. \A i \in Jids : Exists(i) /\ ~InState(i, "complete") => Exists(i)' /\ ~InState(i, "complete")'
    BY <1>3, <1>5, <1>6 DEF InState, Exists
  <2> QED BY <1>0, <1>1, <2>1, <2>2, StrandedKept DEF depVars, DependencyInverse
<1>9. Placement'
  <2>1. \A p \in Queues : work'[p] = IF p = q THEN work[p] \cup into(~delayed) ELSE work[p]
    BY <1>0, <1>1 DEF With, Typed
  <2>2. \A p \in Queues, i \in Jids :
          /\ locks'[p][i] = IF p = q /\ i = j THEN "none" ELSE locks[p][i]
          /\ scheduled'[p][i] = IF p = q /\ i \in into(delayed) THEN "wait" ELSE scheduled[p][i]
    BY <1>1, <1>3 DEF Mark
  <2>3. ASSUME NEW i \in Jids, i # j
        PROVE  Placed(i)'
    <3>1. ASSUME NEW p \in Queues
          PROVE  /\ i \in work'[p] <=> i \in work[p]
                 /\ i \in depends'[p] <=> i \in depends[p]
      BY <1>1, <1>7, <2>1, <2>3
    <3>2. ASSUME NEW p \in Queues
          PROVE  locks'[p][i] = locks[p][i] /\ scheduled'[p][i] = scheduled[p][i]
      BY <1>7, <2>2, <2>3
    <3>3. Still(i)
      BY <1>5, <2>3, <3>1, <3>2 DEF Still
    <3> QED BY <1>0, <3>3, StillPlaced DEF Placement
  <2>4. ASSUME NEW p \in Queues
        PROVE  /\ p # q => locks[p][j] = "none"
               /\ scheduled[p][j] = "none" /\ j \notin work[p] /\ j \notin depends[p]
    <3>1. Placed(j)
      BY <1>0 DEF Placement
    <3> QED BY <1>3, <3>1 DEF Placed, QueueOf
  <2>5. ASSUME NEW p \in Queues
        PROVE  /\ locks'[p][j] = "none" /\ j \notin depends'[p]
               /\ j \in work'[p] <=> (p = q /\ ~delayed /\ ~out)
               /\ scheduled'[p][j] # "none" <=> (p = q /\ delayed /\ ~out)
    <3>1. locks'[p][j] = "none" /\ j \notin depends'[p]
      BY <1>1, <2>2, <2>4
    <3>2. j \in work'[p] <=> (p = q /\ ~delayed /\ ~out)
      <4>1. CASE delayed
        BY <1>7, <2>1, <2>4, <4>1
      <4>2. CASE ~delayed
        BY <1>7, <2>1, <2>4, <4>2
      <4> QED BY <4>1, <4>2
    <3>3. scheduled'[p][j] # "none" <=> (p = q /\ delayed /\ ~out)
      <4>1. CASE delayed
        BY <1>7, <2>2, <2>4, <4>1
      <4>2. CASE ~delayed
        BY <1>7, <2>2, <2>4, <4>2
      <4> QED BY <4>1, <4>2
    <3> QED BY <3>1, <3>2, <3>3
  <2>6. Placed(j)'
    <3>1. Exists(j)' /\ QueueOf(j)' = q /\ q # NoQueue
      BY <1>1, <1>5 DEF Exists, QueueOf
    <3>2. CASE out
      BY <1>5, <1>6, <2>5, <3>1, <3>2 DEF Placed
    <3>3. CASE ~out /\ delayed
      BY <1>5, <1>6, <2>5, <3>1, <3>3 DEF Placed
    <3>4. CASE ~out /\ ~delayed
      BY <1>5, <1>6, <2>5, <3>1, <3>4 DEF Placed
    <3> QED BY <3>2, <3>3, <3>4
  <2> QED BY <2>3, <2>6 DEF Placement
<1>10. OwnerListed'
  <2>1. \A v \in Workers, i \in Jids : i # j /\ i \in workerJobs[v] => i \in workerJobs'[v]
    BY <1>0, <1>1 DEF Without, Typed
  <2> QED BY <1>0, <1>5, <1>6, <2>1 DEF OwnerListed, InState, Exists
<1>11. HolderCurrent'
  <2>1. \A v \in Workers, i \in Jids :
           held'[v][i] = IF v = w /\ i = j THEN NoQueue ELSE held[v][i]
    BY <1>0, <1>1 DEF Forget, Typed
  <2>2. ASSUME NEW v \in Workers, NEW i \in Jids, held'[v][i] # NoQueue, WorkerOf(i)' = v
        PROVE  Running(i, v)' /\ held'[v][i] = job'[i].queue
    <3>1. i # j
      BY <1>5, <2>1, <2>2, NullsAssumption DEF NullsAssumption, WorkerOf, Exists
    <3>2. job'[i] = job[i] /\ held'[v][i] = held[v][i]
      BY <1>5, <2>1, <3>1
    <3> QED BY <1>0, <2>2, <3>2 DEF HolderCurrent, WorkerOf, Running, InState, Exists
  <2> QED BY <2>2 DEF HolderCurrent
<1>12. RetriesLeft'
  BY <1>0, <1>5, <1>6 DEF RetriesLeft, Exists
<1>13. FailedIndexed'
  <2> DEFINE S == IF out THEN {j} ELSE {}
  <2>1. ASSUME NEW i \in Jids, NEW g \in AllGroups
        PROVE  Failed(i, g)' <=> Failed(i, g) \/ (i \in S /\ g = RetryGroup(q))
    <3>1. CASE i # j
      BY <1>5, <3>1 DEF Failed, InState, Exists
    <3>2. CASE i = j /\ out
      BY <1>3, <1>5, <1>6, <3>2 DEF Failed, InState, Exists
    <3>3. CASE i = j /\ ~out
      <4>1. state # "failed"
        BY <1>6, <3>3
      <4> QED BY <1>3, <1>5, <3>3, <4>1 DEF Failed, InState, Exists
    <3> QED BY <3>1, <3>2, <3>3
  <2>2. S \in SUBSET Jids
    OBVIOUS
  <2>3. List(RetryGroup(q), S)
    BY <1>1
  <2> HIDE DEF S
  <2> QED BY <1>0, <1>3, <2>1, <2>2, <2>3, FailedListed
<1>14. CompletedIndexed'
  <2>1. \A i \in Jids : InState(i, "complete")' <=> InState(i, "complete")
    BY <1>3, <1>5, <1>6 DEF InState, Exists
  <2> QED BY <1>0, <1>1, <2>1, CompletedKept
<1> QED
  BY <1>2, <1>8, <1>9, <1>10, <1>11, <1>12, <1>13, <1>14 DEF IInv
LEMMA RefusedKeeps ==
    ASSUME IInv, NEW j \in Jids, NEW w \in Workers, Refused(j, w)
    PROVE  IInv'
<1>0. /\ Typed /\ Placement /\ DependencyInverse /\ NothingStranded /\ OwnerListed
      /\ HolderCurrent /\ RetriesLeft /\ FailedIndexed /\ CompletedIndexed
  BY DEF IInv
<1>1. UNCHANGED <<job, work, locks, scheduled, depends, workerJobs, dependents, dependencies,
                  completed, failed, failures>>
  BY DEF Refused, queueVars, depVars, failVars
<1>2. Typed'
  BY <1>0, RefusedTyped
<1>3. Placement' /\ OwnerListed' /\ RetriesLeft'
  BY <1>0, <1>1 DEF Placement, Placed, OwnerListed, RetriesLeft, QueueOf, InState, Exists
<1>4. DependencyInverse' /\ NothingStranded' /\ FailedIndexed' /\ CompletedIndexed'
  BY <1>0, <1>1
     DEF DependencyInverse, NothingStranded, FailedIndexed, CompletedIndexed, InState, Exists
<1>5. HolderCurrent'
  <2>1. \A v \in Workers, i \in Jids :
           held'[v][i] = IF v = w /\ i = j THEN NoQueue ELSE held[v][i]
    BY <1>0 DEF Refused, Forget, Typed
  <2> QED BY <1>0, <1>1, <2>1 DEF HolderCurrent, WorkerOf, Running, InState, Exists
<1> QED BY <1>2, <1>3, <1>4, <1>5 DEF IInv

LEMMA CrashKeeps ==
    ASSUME IInv, NEW w \in Workers, Crash(w)
    PROVE  IInv'
<1>0. /\ Typed /\ Placement /\ DependencyInverse /\ NothingStranded /\ OwnerListed
      /\ HolderCurrent /\ RetriesLeft /\ FailedIndexed /\ CompletedIndexed
  BY DEF IInv
<1>1. UNCHANGED <<job, work, locks, scheduled, depends, workerJobs, dependents, dependencies,
                  completed, failed, failures>>
  BY DEF Crash, queueVars, depVars, failVars
<1>2. Typed'
  BY <1>0, EnvironmentTyped DEF EnvironmentStep
<1>3. Placement' /\ OwnerListed' /\ RetriesLeft'
  BY <1>0, <1>1 DEF Placement, Placed, OwnerListed, RetriesLeft, QueueOf, InState, Exists
<1>4. DependencyInverse' /\ NothingStranded' /\ FailedIndexed' /\ CompletedIndexed'
  BY <1>0, <1>1
     DEF DependencyInverse, NothingStranded, FailedIndexed, CompletedIndexed, InState, Exists
<1>5. HolderCurrent'
  <2>1. \A v \in Workers, i \in Jids :
           held'[v][i] = IF v = w THEN NoQueue ELSE held[v][i]
    BY <1>0 DEF Crash, Typed
  <2> QED BY <1>0, <1>1, <2>1 DEF HolderCurrent, WorkerOf, Running, InState, Exists
<1> QED BY <1>2, <1>3, <1>4, <1>5 DEF IInv

\* Time changes how far leases and delays have run, and not who has them.
LEMMA TimeKeeps ==
    ASSUME IInv, NEW q \in Queues, NEW j \in Jids, Lapse(q, j) \/ ComeDue(q, j)
    PROVE  IInv'
<1>0. /\ Typed /\ Placement /\ DependencyInverse /\ NothingStranded /\ OwnerListed
      /\ HolderCurrent /\ RetriesLeft /\ FailedIndexed /\ CompletedIndexed
  BY DEF IInv
<1>1. UNCHANGED <<job, work, depends, workerJobs, dependents, dependencies, completed, failed,
                  failures, held>>
  BY DEF Lapse, ComeDue, depVars, failVars
<1>2. Typed'
  BY <1>0, EnvironmentTyped DEF EnvironmentStep
<1>3. Placement'
  <2>1. \A p \in Queues, i \in Jids :
           /\ locks'[p][i] # "none" <=> locks[p][i] # "none"
           /\ scheduled'[p][i] # "none" <=> scheduled[p][i] # "none"
    <3>1. CASE Lapse(q, j)
      BY <3>1 DEF Lapse, Mark
    <3>2. CASE ComeDue(q, j)
      BY <3>2 DEF ComeDue, Mark
    <3> QED BY <3>1, <3>2
  <2>2. ASSUME NEW i \in Jids
        PROVE  Placed(i)'
    <3>1. Placed(i)
      BY <1>0 DEF Placement
    <3> QED BY <1>1, <2>1, <3>1 DEF Placed, QueueOf, Exists
  <2> QED BY <2>2 DEF Placement
<1>4. OwnerListed' /\ HolderCurrent' /\ RetriesLeft'
  BY <1>0, <1>1 DEF OwnerListed, HolderCurrent, RetriesLeft, WorkerOf, Running, InState, Exists
<1>5. DependencyInverse' /\ NothingStranded' /\ FailedIndexed' /\ CompletedIndexed'
  BY <1>0, <1>1
     DEF DependencyInverse, NothingStranded, FailedIndexed, CompletedIndexed, InState, Exists
<1> QED BY <1>2, <1>3, <1>4, <1>5 DEF IInv
-----------------------------------------------------------------------------
(* The invariant holds of every reachable state.                           *)

LEMMA ClientKeeps ==
    ASSUME IInv, ClientStep
    PROVE  IInv'
BY PutKeeps, CancelKeeps, DependsOnKeeps, DependsOffKeeps, UnfailKeeps, PeekKeeps, ConfigKeeps,
   ClientsAssumption DEF ClientsAssumption, ClientStep

LEMMA WorkerKeeps ==
    ASSUME IInv, WorkerStep
    PROVE  IInv'
BY PopKeeps, HeartbeatKeeps, AdvanceKeeps, CompleteKeeps, FailKeeps, RetryKeeps, RefusedKeeps,
   ClientsAssumption DEF ClientsAssumption, WorkerStep

LEMMA StepInvariant == IInv /\ [Next]_vars => IInv'
<1> SUFFICES ASSUME IInv, [Next]_vars
             PROVE  IInv'
  OBVIOUS
<1>1. CASE EnvironmentStep
  BY <1>1, CrashKeeps, TimeKeeps DEF EnvironmentStep
<1>2. CASE UNCHANGED vars
  <2>1. UNCHANGED dataVars
    BY <1>2 DEF vars, dataVars, queueVars, depVars, failVars
  <2>2. Typed'
    BY <1>2, StepTyped DEF IInv
  <2> QED BY <2>1, <2>2, DataKeeps
<1> QED BY <1>1, <1>2, ClientKeeps, WorkerKeeps DEF Next

\* All the safety invariants hold together, whatever calls clients and workers make, in
\* whatever order, and however leases and processes end.
THEOREM InvariantKept == Spec => []IInv
<1>1. Init => IInv
  BY InitInvariant
<1> QED BY <1>1, StepInvariant, PTL DEF Spec
=============================================================================
