--------------------------- MODULE QlessTheorems ---------------------------
(***************************************************************************)
(* What the invariant of QlessInvariant means for the properties that the  *)
(* runs check, the exclusiveness and the number of leases and the count of *)
(* attempts, for any jobs, queues, workers, retries and limits, and for any*)
(* dependencies that clients ask for.                                      *)
(***************************************************************************)
EXTENDS QlessInvariant, QlessBudget

\* The types, exactly: no count of retries falls below -1.
THEOREM TypeCorrect == Spec => []TypeOK
<1>1. IInv => TypeOK
  <2> SUFFICES ASSUME IInv
               PROVE  TypeOK
    OBVIOUS
  <2>1. ASSUME NEW j \in Jids, job[j] # NoJob
        PROVE  job[j] \in Job
    <3>1. job[j] \in LooseJob
      BY <2>1 DEF IInv, Typed
    <3>2. job[j].remaining \in Int
      BY <3>1 DEF LooseJob, Hash
    <3>3. job[j].remaining >= -1
      <4>1. job[j].remaining >= IF job[j].state = "failed" THEN -1 ELSE 0
        BY <2>1 DEF IInv, RetriesLeft, Exists
      <4> QED BY <3>2, <4>1
    <3>4. job[j].remaining \in Nat \cup {-1}
      BY <3>2, <3>3
    <3> QED BY <3>1, <3>4 DEF LooseJob, Job, Hash
  <2> QED BY <2>1 DEF IInv, Typed, TypeOK
<1> QED BY <1>1, InvariantKept, PTL

\* Every job is in exactly the set its state calls for, of the queue its hash names.
THEOREM PlacementKept == Spec => []Placement
<1>1. IInv => Placement
  BY DEF IInv
<1> QED BY <1>1, InvariantKept, PTL

\* No job waits for one that is complete, cancelled or forgotten, and only jobs in the
\* depends state wait.
THEOREM NobodyStranded == Spec => []NothingStranded
<1>1. IInv => NothingStranded
  BY DEF IInv
<1> QED BY <1>1, InvariantKept, PTL

\* A running job is in the job set of its worker.
THEOREM OwnersListed == Spec => []OwnerListed
<1>1. IInv => OwnerListed
  BY DEF IInv
<1> QED BY <1>1, InvariantKept, PTL

\* The queue a worker names in complete or retry is the one its job is in, if the job is
\* still its own.
THEOREM HoldersCurrent == Spec => []HolderCurrent
<1>1. IInv => HolderCurrent
  BY DEF IInv
<1> QED BY <1>1, InvariantKept, PTL

\* No job is handed out on borrowed retries.
THEOREM RetriesKept == Spec => []RetriesLeft
<1>1. IInv => RetriesLeft
  BY DEF IInv
<1> QED BY <1>1, InvariantKept, PTL

\* The failed lists and their index agree with the hashes of the jobs; the completed set is
\* the completed jobs, and no larger than configured.
THEOREM EndsFound == Spec => []EndsIndexed
<1>1. IInv => EndsIndexed
  BY DEF IInv, EndsIndexed
<1> QED BY <1>1, InvariantKept, PTL
-----------------------------------------------------------------------------
(* Leases are exclusive.                                                   *)

\* j does not run after this step, or its hash is what it was.
Untouched(j) == InState(j, "running")' => job'[j] = job[j]

LEMMA ClientUntouched ==
    ASSUME IInv, ClientStep, NEW i \in Jids
    PROVE  Untouched(i)
<1>0. Typed
  BY DEF IInv
<1>1. ASSUME NEW q, NEW j \in Jids, NEW delayed, NEW r, NEW D, Put(q, j, delayed, r, D)
      PROVE  Untouched(i)
  BY <1>0, <1>1 DEF Put, NewHash, Typed, Untouched, InState
<1>2. ASSUME NEW S, Cancel(S)
      PROVE  Untouched(i)
  <2>1. PICK D : job' = [j \in Jids |-> IF j \in D THEN NoJob ELSE job[j]]
    BY <1>2 DEF Cancel
  <2> QED BY <2>1 DEF Untouched, InState, Exists
<1>3. ASSUME NEW j \in Jids, NEW D, DependsOff(j, D)
      PROVE  Untouched(i)
  <2>1. job[j] \in LooseJob
    BY <1>0, <1>3, HashType DEF DependsOff, InState
  <2>2. CASE job' = [job EXCEPT ![j].state = "waiting"]
    <3>1. i = j => job'[i].state = "waiting"
      BY <1>0, <2>1, <2>2 DEF Typed, LooseJob, Hash
    <3>2. i # j => job'[i] = job[i]
      BY <1>0, <2>2 DEF Typed
    <3> QED BY <3>1, <3>2 DEF Untouched, InState
  <2>3. CASE job' = job
    BY <2>3 DEF Untouched
  <2> QED BY <1>3, <2>2, <2>3 DEF DependsOff
<1>4. ASSUME NEW g \in AllGroups, NEW q, NEW n, Unfail(g, q, n)
      PROVE  Untouched(i)
  <2>1. PICK S : /\ \A j \in S : Exists(j)
                 /\ job' = [j \in Jids |->
                      IF j \in S THEN [job[j] EXCEPT !.state = "waiting", !.worker = NoWorker,
                                   !.queue = q, !.remaining = job[j].retries, !.group = NoGroup]
                      ELSE job[j]]
    BY <1>4 DEF Unfail
  <2>2. i \in S => job'[i].state = "waiting"
    <3> SUFFICES ASSUME i \in S
                 PROVE  job'[i].state = "waiting"
      OBVIOUS
    <3>1. job[i] \in LooseJob
      BY <1>0, <2>1, HashType
    <3> QED BY <2>1, <3>1 DEF LooseJob, Hash
  <2> QED BY <2>1, <2>2 DEF Untouched, InState
<1>5. ASSUME NEW q, NEW n, Peek(q, n)
      PROVE  Untouched(i)
  BY <1>0, <1>5 DEF Peek, Untouched, InState
<1>6. ASSUME NEW j, NEW D, DependsOn(j, D)
      PROVE  Untouched(i)
  BY <1>6 DEF DependsOn, Untouched
<1>7. ASSUME NEW q, NEW n, Pause(q) \/ Unpause(q) \/ SetLimit(q, n)
      PROVE  Untouched(i)
  BY <1>7 DEF Pause, Unpause, SetLimit, Untouched
<1> QED BY <1>1, <1>2, <1>3, <1>4, <1>5, <1>6, <1>7 DEF ClientStep
\* The lease of i in p stays with its worker, or ends.
Honoured(i, p) ==
    locks[p][i] = "live" /\ locks'[p][i] # "none" => WorkerOf(i)' = WorkerOf(i)

LEMMA LiveRuns ==
    ASSUME IInv, NEW i \in Jids, NEW p \in Queues, locks[p][i] # "none"
    PROVE  Exists(i) /\ job[i].state = "running" /\ job[i].queue = p
BY DEF IInv, Placement, Placed, QueueOf

\* A step that leaves i alone while it runs honours its lease.
LEMMA UntouchedHonours ==
    ASSUME IInv, IInv', NEW i \in Jids, NEW p \in Queues, Untouched(i)
    PROVE  Honoured(i, p)
<1> SUFFICES ASSUME locks[p][i] = "live", locks'[p][i] # "none"
             PROVE  WorkerOf(i)' = WorkerOf(i)
  BY DEF Honoured
<1>1. InState(i, "running")'
  BY DEF IInv, Placement, Placed, QueueOf, InState
<1> QED BY <1>1 DEF Untouched, WorkerOf, Exists

\* The worker that ends with a job gives its lease up.
LEMMA EndHonours ==
    ASSUME IInv, NEW j \in Jids, NEW w \in Workers, NEW i \in Jids, NEW p \in Queues,
           \/ \E next \in Queues, delayed \in BOOLEAN, D \in SUBSET Jids :
                 Advance(j, w, next, delayed, D)
           \/ \E g \in Groups : Fail(j, w, g)
           \/ \E delayed \in BOOLEAN : Retry(j, w, delayed)
    PROVE  Honoured(i, p)
<1> SUFFICES ASSUME locks[p][i] = "live", locks'[p][i] # "none"
             PROVE  WorkerOf(i)' = WorkerOf(i)
  BY DEF Honoured
<1>0. Typed /\ HolderCurrent
  BY DEF IInv
<1>1. Exists(i) /\ job[i].state = "running" /\ job[i].queue = p
  BY LiveRuns
<1>2. i # j
  <2>1. ASSUME NEW next, NEW delayed, NEW D, Advance(j, w, next, delayed, D), i = j
        PROVE  FALSE
    <3>1. Finish(j, w, held[w][j])
      BY <2>1 DEF Advance
    <3>2. locks'[p][j] = IF p = held[w][j] THEN "none" ELSE locks[p][j]
      BY <3>1, FinishFacts
    <3>3. job[j].queue = held[w][j]
      BY <3>1, FinishFacts
    <3> QED BY <1>1, <2>1, <3>2, <3>3
  <2>2. ASSUME NEW g, Fail(j, w, g), i = j
        PROVE  FALSE
    BY <1>1, <2>2 DEF Fail, QueueOf, Mark
  <2>3. ASSUME NEW delayed, Retry(j, w, delayed), i = j
        PROVE  FALSE
    BY <1>1, <2>3 DEF Retry, Mark
  <2> QED BY <2>1, <2>2, <2>3
<1>3. job'[i] = job[i]
  <2>1. ASSUME NEW next, NEW delayed, NEW D, Advance(j, w, next, delayed, D)
        PROVE  job'[i] = job[i]
    BY <1>0, <1>2, <2>1 DEF Advance, Typed
  <2>2. ASSUME NEW g, Fail(j, w, g)
        PROVE  job'[i] = job[i]
    BY <1>0, <1>2, <2>2 DEF Fail, Typed
  <2>3. ASSUME NEW delayed, Retry(j, w, delayed)
        PROVE  job'[i] = job[i]
    BY <1>0, <1>2, <2>3 DEF Retry, Typed
  <2> QED BY <2>1, <2>2, <2>3
<1> QED BY <1>3 DEF WorkerOf, Exists

LEMMA CompleteHonours ==
    ASSUME IInv, NEW j \in Jids, NEW w \in Workers, NEW i \in Jids, NEW p \in Queues,
           Complete(j, w)
    PROVE  Honoured(i, p)
<1> SUFFICES ASSUME locks[p][i] = "live", locks'[p][i] # "none"
             PROVE  WorkerOf(i)' = WorkerOf(i)
  BY DEF Honoured
<1>0. Typed /\ DependencyInverse /\ NothingStranded /\ CompletedIndexed
  BY DEF IInv
<1>1. Exists(i) /\ job[i].state = "running" /\ job[i].queue = p
  BY LiveRuns
<1>2. Finish(j, w, held[w][j])
  BY DEF Complete
<1>3. i # j
  BY <1>1, <1>2, FinishFacts
<1>4. i \notin completed /\ i \notin FreedBy(j)
  <2>1. i \notin dependents[j]
    BY <1>0, <1>1 DEF DependencyInverse, NothingStranded, InState
  <2> QED BY <1>0, <1>1, <2>1 DEF FreedBy, CompletedIndexed, InState
<1>5. job'[i] = job[i]
  <2> DEFINE New(kept) ==
               [d \in Jids |->
                  IF d = j THEN [job[j] EXCEPT !.state = "complete", !.queue = NoQueue,
                                     !.worker = NoWorker, !.remaining = job[j].retries]
                  ELSE IF d \in completed \ kept THEN NoJob
                  ELSE IF d \in FreedBy(j) \ (completed \ kept)
                       THEN [job[d] EXCEPT !.state = "waiting"]
                  ELSE job[d]]
  <2>1. \E kept \in Histories(j) : job' = New(kept)
    BY DEF Complete
  <2>2. \A kept : New(kept)[i] = job[i]
    BY <1>3, <1>4
  <2> HIDE DEF New
  <2> QED BY <2>1, <2>2
<1> QED BY <1>5 DEF WorkerOf, Exists

\* Pop hands out jobs that wait, and those whose leases have run out.
LEMMA PopHonours ==
    ASSUME IInv, NEW q \in Queues, NEW w \in Workers, NEW n \in PopCounts, Pop(q, w, n),
           NEW i \in Jids, NEW p \in Queues
    PROVE  Honoured(i, p)
<1> SUFFICES ASSUME locks[p][i] = "live", locks'[p][i] # "none"
             PROVE  WorkerOf(i)' = WorkerOf(i)
  BY DEF Honoured
<1>1. PICK reclaimed, promoted, taken \in SUBSET Jids :
        /\ reclaimed \subseteq Expired(q)
        /\ promoted \subseteq DueIn(q) \ Exhausted(reclaimed)
        /\ taken \subseteq (work[q] \ Exhausted(reclaimed)) \cup promoted
        /\ Assign(q, w, reclaimed, promoted, taken)
  BY PopAssigns DEF IInv
<1>2. Exists(i) /\ job[i].state = "running" /\ job[i].queue = p /\ Placed(i)
  BY LiveRuns DEF IInv, Placement
<1>3. i \notin Expired(q)
  BY <1>2 DEF Placed, QueueOf, Expired
<1>4. i \notin work[q] /\ i \notin DueIn(q)
  BY <1>2 DEF Placed, QueueOf, DueIn
<1>5. job'[i] = job[i]
  BY <1>1, <1>3, <1>4 DEF Assign, Exhausted
<1> QED BY <1>5 DEF WorkerOf, Exists

LEMMA StepHonours ==
    ASSUME IInv, IInv', [Next]_vars, NEW i \in Jids, NEW p \in Queues
    PROVE  Honoured(i, p)
<1>1. CASE ClientStep
  BY <1>1, ClientUntouched, UntouchedHonours
<1>2. CASE EnvironmentStep
  <2>1. Untouched(i)
    BY <1>2 DEF EnvironmentStep, Crash, Lapse, ComeDue, Untouched
  <2> QED BY <2>1, UntouchedHonours
<1>3. CASE UNCHANGED vars
  <2>1. Untouched(i)
    BY <1>3 DEF vars, Untouched
  <2> QED BY <2>1, UntouchedHonours
<1>4. ASSUME NEW j \in Jids, NEW w \in Workers, Heartbeat(j, w) \/ Refused(j, w)
      PROVE  Honoured(i, p)
  <2>1. Untouched(i)
    BY <1>4 DEF Heartbeat, Refused, Untouched
  <2> QED BY <2>1, UntouchedHonours
<1>5. CASE WorkerStep
  BY <1>4, <1>5, PopHonours, CompleteHonours, EndHonours, ClientsAssumption
     DEF WorkerStep, ClientsAssumption
<1> QED BY <1>1, <1>2, <1>3, <1>5 DEF Next

\* While a lease is live its job passes to no other worker, whatever clients and other
\* workers do.
THEOREM LeasesHonoured == Spec => LeaseHonoured
<1>1. IInv /\ IInv' /\ [Next]_vars
        => [\A j \in Jids, q \in Queues :
              locks[q][j] = "live" /\ locks'[q][j] # "none" => WorkerOf(j)' = WorkerOf(j)]_vars
  BY StepHonours DEF Honoured
<1> QED BY <1>1, InvariantKept, PTL DEF Spec, LeaseHonoured
-----------------------------------------------------------------------------
(* Attempts are counted.                                                   *)

Idle == {"waiting", "scheduled", "depends"}

\* What a step may do to the state of i and to the attempts it has left.
Fate(i) ==
    \/ Exists(i)' => /\ job'[i].state \notin {"running", "failed"}
                     /\ job'[i].remaining = job'[i].retries
    \/ job'[i] = job[i]
    \/ /\ Exists(i) /\ Exists(i)' /\ job'[i].retries = job[i].retries
       /\ \/ /\ job[i].state \in Idle /\ job'[i].state \in {"waiting", "running"}
             /\ job'[i].remaining = job[i].remaining
          \/ /\ job[i].state = "running" /\ job'[i].state \in {"waiting", "scheduled", "running"}
             /\ job'[i].remaining = job[i].remaining - 1
          \/ /\ job[i].state = "running" /\ job'[i].state = "failed"
             /\ \/ job'[i].group \in Groups
                \/ job[i].remaining = 0

\* The attempts of i so far, as its hash has them.
Counted(i) ==
    /\ given[i] \in Nat
    /\ Exists(i) =>
         /\ job[i].state \in Idle => given[i] = job[i].retries - job[i].remaining
         /\ job[i].state = "running" => given[i] = job[i].retries - job[i].remaining + 1
         /\ given[i] <= job[i].retries + 1
         /\ job[i].state = "failed" /\ job[i].group \notin Groups => given[i] = job[i].retries + 1

\* What changes with the state of one job alone.
LEMMA StateChange ==
    ASSUME Typed, NEW j \in Jids, Exists(j), NEW s \in States
    PROVE  LET r == [job[j] EXCEPT !.state = s]
           IN  /\ r # NoJob /\ r.state = s
               /\ r.retries = job[j].retries /\ r.remaining = job[j].remaining
<1>1. job[j] \in LooseJob
  BY HashType
<1>2. [job[j] EXCEPT !.state = s] \in LooseJob
  BY <1>1 DEF LooseJob, Hash
<1> QED BY <1>1, <1>2, HashExists DEF LooseJob, Hash

LEMMA ClientFate ==
    ASSUME IInv, ClientStep, NEW i \in Jids
    PROVE  Fate(i)
<1>0. Typed /\ Placement
  BY DEF IInv
<1>1. ASSUME NEW q, NEW j \in Jids, NEW delayed, NEW r, NEW D, Put(q, j, delayed, r, D)
      PROVE  Fate(i)
  BY <1>0, <1>1 DEF Put, NewHash, Typed, Fate
<1>2. ASSUME NEW S, Cancel(S)
      PROVE  Fate(i)
  <2>1. PICK D : job' = [j \in Jids |-> IF j \in D THEN NoJob ELSE job[j]]
    BY <1>2 DEF Cancel
  <2> QED BY <2>1 DEF Fate, Exists
<1>3. ASSUME NEW j \in Jids, NEW D, DependsOff(j, D)
      PROVE  Fate(i)
  <2>1. Exists(j) /\ job[j].state = "depends"
    BY <1>3 DEF DependsOff, InState
  <2>2. CASE job' = [job EXCEPT ![j].state = "waiting"]
    <3>1. CASE i = j
      <4>1. job'[i] = [job[i] EXCEPT !.state = "waiting"]
        BY <1>0, <2>2, <3>1 DEF Typed
      <4> QED BY <1>0, <2>1, <3>1, <4>1, StateChange DEF Fate, Idle, Exists, States
    <3>2. i # j => job'[i] = job[i]
      BY <1>0, <2>2 DEF Typed
    <3> QED BY <3>1, <3>2 DEF Fate
  <2> QED BY <1>3, <2>2 DEF DependsOff, Fate
<1>4. ASSUME NEW g \in AllGroups, NEW q, NEW n, Unfail(g, q, n)
      PROVE  Fate(i)
  <2>1. PICK S : /\ \A j \in S : Exists(j)
                 /\ job' = [j \in Jids |->
                      IF j \in S THEN [job[j] EXCEPT !.state = "waiting", !.worker = NoWorker,
                                   !.queue = q, !.remaining = job[j].retries, !.group = NoGroup]
                      ELSE job[j]]
    BY <1>4 DEF Unfail
  <2>2. CASE i \in S
    <3>1. job[i] \in LooseJob
      BY <1>0, <2>1, <2>2, HashType
    <3>2. job'[i].state = "waiting" /\ job'[i].remaining = job'[i].retries
      BY <2>1, <2>2, <3>1 DEF LooseJob, Hash
    <3> QED BY <3>2 DEF Fate
  <2> QED BY <2>1, <2>2 DEF Fate
<1>5. ASSUME NEW q \in Queues, NEW n, Peek(q, n)
      PROVE  Fate(i)
  <2>1. PICK ready \in SUBSET DueIn(q) :
          /\ \A j \in ready : Exists(j)
          /\ job' = [j \in Jids |-> IF j \in ready THEN [job[j] EXCEPT !.state = "waiting"]
                                    ELSE job[j]]
    BY <1>5, SomeSubset DEF Peek
  <2>2. CASE i \in ready
    <3>1. Exists(i) /\ job[i].state \in Idle
      BY <1>0, <2>1, <2>2 DEF Placement, Placed, DueIn, Idle, QueueOf
    <3> QED BY <1>0, <2>1, <2>2, <3>1, StateChange DEF Fate, Exists, States
  <2> QED BY <2>1, <2>2 DEF Fate
<1>6. ASSUME NEW j, NEW D, DependsOn(j, D)
      PROVE  Fate(i)
  BY <1>6 DEF DependsOn, Fate
<1>7. ASSUME NEW q, NEW n, Pause(q) \/ Unpause(q) \/ SetLimit(q, n)
      PROVE  Fate(i)
  BY <1>7 DEF Pause, Unpause, SetLimit, Fate
<1> QED BY <1>1, <1>2, <1>3, <1>4, <1>5, <1>6, <1>7 DEF ClientStep

LEMMA FailedType ==
    ASSUME NEW r \in LooseJob, NEW n \in Int, NEW g \in AllGroups \cup {NoGroup}
    PROVE  [r EXCEPT !.state = "failed", !.worker = NoWorker, !.remaining = n, !.group = g]
             \in LooseJob
<1>1. NoWorker \in Workers \cup {NoWorker} /\ "failed" \in States
  BY DEF States
<1> QED BY <1>1, RecordType

LEMMA PopFate ==
    ASSUME IInv, NEW q \in Queues, NEW w \in Workers, NEW n \in PopCounts, Pop(q, w, n),
           NEW i \in Jids
    PROVE  Fate(i)
<1>0. Typed /\ Placement /\ RetriesLeft
  BY DEF IInv
<1>1. PICK reclaimed, promoted, taken \in SUBSET Jids :
        /\ reclaimed \subseteq Expired(q)
        /\ promoted \subseteq DueIn(q) \ Exhausted(reclaimed)
        /\ taken \subseteq (work[q] \ Exhausted(reclaimed)) \cup promoted
        /\ Assign(q, w, reclaimed, promoted, taken)
  BY <1>0, PopAssigns
<1> DEFINE out == Exhausted(reclaimed)
           keys == (reclaimed \ out) \cup taken
           left == IF i \in reclaimed THEN job[i].remaining - 1 ELSE job[i].remaining
<1>2. /\ i \in keys => job'[i] = [job[i] EXCEPT !.state = "running", !.worker = w,
                                                !.remaining = left]
      /\ i \in out /\ i \notin keys
           => job'[i] = [job[i] EXCEPT !.state = "failed", !.worker = NoWorker,
                                       !.remaining = left, !.group = RetryGroup(q)]
      /\ i \notin keys \cup out => job'[i] = job[i]
  BY <1>1 DEF Assign
<1>3. ASSUME i \in reclaimed
      PROVE  Exists(i) /\ job[i].state = "running" /\ job[i].remaining \in Nat
  <2>1. Exists(i) /\ job[i].state = "running"
    BY <1>0, <1>1, <1>3 DEF Placement, Placed, Expired, QueueOf
  <2>2. job[i] \in LooseJob
    BY <1>0, <2>1, HashType
  <2>3. job[i].remaining \in Int /\ job[i].remaining >= 0
    BY <1>0, <2>1, <2>2 DEF RetriesLeft, LooseJob, Hash
  <2> QED BY <2>1, <2>3
<1>4. ASSUME i \in taken
      PROVE  Exists(i) /\ job[i].state \in Idle /\ i \notin reclaimed
  <2>1. i \in work[q] \/ scheduled[q][i] # "none"
    BY <1>1, <1>4 DEF DueIn
  <2>2. Exists(i) /\ job[i].state \in {"waiting", "scheduled"}
    BY <1>0, <2>1 DEF Placement, Placed, QueueOf
  <2> QED BY <1>3, <2>2 DEF Idle
<1>5. CASE i \in keys
  <2>1. job[i] \in LooseJob
    BY <1>0, <1>3, <1>4, <1>5, HashType
  <2>2. left \in Int
    BY <2>1 DEF LooseJob, Hash
  <2>3. job'[i] \in LooseJob
    BY <1>2, <1>5, <2>1, <2>2 DEF LooseJob, Hash, States
  <2>4. /\ Exists(i)' /\ job'[i].state = "running" /\ job'[i].remaining = left
        /\ job'[i].retries = job[i].retries
    BY <1>2, <1>5, <2>1, <2>3, HashExists DEF LooseJob, Hash, Exists
  <2> QED BY <1>3, <1>4, <1>5, <2>4 DEF Fate
<1>6. CASE i \in out /\ i \notin keys
  <2>1. i \in reclaimed /\ job[i].remaining = 0
    BY <1>3, <1>6 DEF Exhausted
  <2>2. job[i] \in LooseJob
    BY <1>0, <1>3, <2>1, HashType
  <2>3. job'[i] \in LooseJob
    <3>1. left \in Int
      BY <2>2 DEF LooseJob, Hash
    <3>2. job'[i] = [job[i] EXCEPT !.state = "failed", !.worker = NoWorker,
                                   !.remaining = left, !.group = RetryGroup(q)]
      BY <1>2, <1>6
    <3>3. RetryGroup(q) \in AllGroups \cup {NoGroup}
      BY RetryGroupType
    <3> HIDE DEF left, keys, out
    <3>4. [job[i] EXCEPT !.state = "failed", !.worker = NoWorker, !.remaining = left,
                         !.group = RetryGroup(q)] \in LooseJob
      BY <2>2, <3>1, <3>3, FailedType
    <3> QED BY <3>2, <3>4
  <2>4. Exists(i)' /\ job'[i].state = "failed" /\ job'[i].retries = job[i].retries
    BY <1>2, <1>6, <2>2, <2>3, HashExists DEF LooseJob, Hash, Exists
  <2> QED BY <1>3, <2>1, <2>4 DEF Fate
<1> QED BY <1>2, <1>5, <1>6 DEF Fate

\* The hash of a job that ends with the worker's call, and those of the others.
LEMMA EndFate ==
    ASSUME IInv, NEW j \in Jids, NEW w \in Workers, NEW i \in Jids,
           \/ \E next \in Queues, delayed \in BOOLEAN, D \in SUBSET Jids :
                 Advance(j, w, next, delayed, D)
           \/ \E g \in Groups : Fail(j, w, g)
           \/ \E delayed \in BOOLEAN : Retry(j, w, delayed)
    PROVE  Fate(i)
<1>0. Typed /\ RetriesLeft
  BY DEF IInv
<1>1. ASSUME NEW next \in Queues, NEW delayed \in BOOLEAN, NEW D, Advance(j, w, next, delayed, D)
      PROVE  Fate(i)
  <2> DEFINE waits == IF delayed THEN {} ELSE {d \in D : d = j \/ d \in Legit(D)}
  <2>1. /\ Exists(j)
        /\ job' = [job EXCEPT ![j].state = IF waits # {} THEN "depends" ELSE "waiting",
                              ![j].queue = next, ![j].worker = NoWorker,
                              ![j].remaining = job[j].retries]
    BY <1>1 DEF Advance, Finish, Running, InState
  <2>2. job[j] \in LooseJob
    BY <1>0, <2>1, HashType
  <2> HIDE DEF waits
  <2>3. i = j => job'[i].state \in {"depends", "waiting"} /\ job'[i].remaining = job'[i].retries
    BY <1>0, <2>1, <2>2 DEF Typed, LooseJob, Hash
  <2>4. i # j => job'[i] = job[i]
    BY <1>0, <2>1 DEF Typed
  <2> QED BY <2>3, <2>4 DEF Fate
<1>2. ASSUME NEW g \in Groups, Fail(j, w, g)
      PROVE  Fate(i)
  <2>1. /\ Exists(j) /\ job[j].state = "running"
        /\ job' = [job EXCEPT ![j].state = "failed", ![j].worker = NoWorker, ![j].group = g]
    BY <1>2 DEF Fail, InState
  <2>2. job[j] \in LooseJob
    BY <1>0, <2>1, HashType
  <2>3. i = j => /\ job'[i].state = "failed" /\ job'[i].group = g
                 /\ job'[i].retries = job[i].retries
    BY <1>0, <2>1, <2>2 DEF Typed, LooseJob, Hash
  <2>4. i = j => Exists(i)'
    <3>1. Typed'
      BY <1>0, <1>2, FailTyped
    <3>2. [job[j] EXCEPT !.state = "failed", !.worker = NoWorker, !.group = g] \in LooseJob
      BY <2>2 DEF LooseJob, Hash, States, AllGroups
    <3>3. job'[j] = [job[j] EXCEPT !.state = "failed", !.worker = NoWorker, !.group = g]
      BY <1>0, <2>1, <2>2 DEF Typed, LooseJob, Hash
    <3> QED BY <3>2, <3>3, HashExists DEF Exists
  <2>5. i # j => job'[i] = job[i]
    BY <1>0, <2>1 DEF Typed
  <2> QED BY <2>1, <2>3, <2>4, <2>5 DEF Fate
<1>3. ASSUME NEW delayed \in BOOLEAN, Retry(j, w, delayed)
      PROVE  Fate(i)
  <2> DEFINE out == j \in Exhausted({j})
             s == IF out THEN "failed" ELSE IF delayed THEN "scheduled" ELSE "waiting"
             v == IF out THEN NoWorker ELSE job[j].worker
             g == IF out THEN RetryGroup(held[w][j]) ELSE job[j].group
             r == [job[j] EXCEPT !.state = s, !.worker = v,
                                 !.remaining = job[j].remaining - 1, !.group = g]
  <2>1. Exists(j) /\ job[j].state = "running" /\ held[w][j] \in Queues
    <3>1. held[w][j] # NoQueue
      BY <1>3 DEF Retry
    <3>2. held \in [Workers -> [Jids -> Queues \cup {NoQueue}]]
      BY <1>0 DEF Typed
    <3>3. held[w][j] \in Queues
      BY <3>1, <3>2
    <3>4. Running(j, w)
      BY <1>3 DEF Retry
    <3> QED BY <3>3, <3>4 DEF Running, InState
  <2>2. job[j] \in LooseJob /\ job[j].remaining \in Nat
    <3>1. job[j] \in LooseJob
      BY <1>0, <2>1, HashType
    <3>2. job[j].remaining \in Int /\ job[j].remaining >= 0
      BY <1>0, <2>1, <3>1 DEF RetriesLeft, LooseJob, Hash
    <3> QED BY <3>1, <3>2
  <2>3. job' = [job EXCEPT ![j] = r]
    <3>1. job' = [job EXCEPT ![j].state = s, ![j].worker = v,
                             ![j].remaining = job[j].remaining - 1, ![j].group = g]
      BY <1>3 DEF Retry
    <3>2. DOMAIN job = Jids
      BY <1>0 DEF Typed
    <3> HIDE DEF s, v, g
    <3> QED BY <3>1, <3>2
  <2>4. out => job[j].remaining = 0
    BY <2>2 DEF Exhausted
  <2>5. s \in {"failed", "scheduled", "waiting"} /\ (s = "failed" => out)
    OBVIOUS
  <2>6. v \in Workers \cup {NoWorker} /\ g \in AllGroups \cup {NoGroup}
    BY <2>1, <2>2, RetryGroupType DEF LooseJob, Hash
  <2> HIDE DEF out, s, v, g
  <2>7. /\ r \in LooseJob /\ r.state = s /\ r.retries = job[j].retries
        /\ r.remaining = job[j].remaining - 1
    <3>1. job[j].remaining - 1 \in Int /\ s \in States
      BY <2>2, <2>5 DEF States
    <3>2. r \in LooseJob
      <4> DEFINE n == job[j].remaining - 1
      <4> HIDE DEF n
      <4>1. n \in Int /\ v \in Workers \cup {NoWorker} /\ g \in AllGroups \cup {NoGroup}
        BY <2>6, <3>1 DEF n
      <4>2. [job[j] EXCEPT !.state = s, !.worker = v, !.remaining = n, !.group = g] \in LooseJob
        BY <2>2, <3>1, <4>1 DEF LooseJob, Hash
      <4> QED BY <4>2 DEF n
    <3> QED BY <2>2, <3>2 DEF LooseJob, Hash
  <2> HIDE DEF r
  <2>8. i = j => job'[i] = r /\ Exists(i)'
    BY <1>0, <2>3, <2>7, HashExists DEF Typed, Exists
  <2>9. i # j => job'[i] = job[i]
    BY <1>0, <2>3 DEF Typed
  <2> QED BY <2>1, <2>4, <2>5, <2>7, <2>8, <2>9 DEF Fate
<1> QED BY <1>1, <1>2, <1>3

LEMMA CompleteFate ==
    ASSUME IInv, NEW j \in Jids, NEW w \in Workers, NEW i \in Jids, Complete(j, w)
    PROVE  Fate(i)
<1>0. Typed /\ DependencyInverse /\ NothingStranded
  BY DEF IInv
<1>1. Exists(j)
  BY DEF Complete, Finish, Running, InState
<1> DEFINE Done == [job[j] EXCEPT !.state = "complete", !.queue = NoQueue,
                                  !.worker = NoWorker, !.remaining = job[j].retries]
<1>2. \/ i = j /\ job'[i] = Done
      \/ job'[i] = NoJob
      \/ i \in FreedBy(j) /\ job'[i] = [job[i] EXCEPT !.state = "waiting"]
      \/ job'[i] = job[i]
  <2> DEFINE New(kept) ==
               [d \in Jids |->
                  IF d = j THEN Done
                  ELSE IF d \in completed \ kept THEN NoJob
                  ELSE IF d \in FreedBy(j) \ (completed \ kept)
                       THEN [job[d] EXCEPT !.state = "waiting"]
                  ELSE job[d]]
  <2>1. \E kept \in Histories(j) : job' = New(kept)
    BY DEF Complete
  <2> HIDE DEF Done
  <2> QED BY <2>1
<1>3. CASE i = j /\ job'[i] = Done
  <2>1. job[j] \in LooseJob
    BY <1>0, <1>1, HashType
  <2>2. Done.state = "complete" /\ Done.remaining = Done.retries
    BY <2>1 DEF LooseJob, Hash
  <2> QED BY <1>3, <2>2 DEF Fate
<1>4. CASE i \in FreedBy(j) /\ job'[i] = [job[i] EXCEPT !.state = "waiting"]
  <2>1. Exists(i) /\ job[i].state \in Idle
    BY <1>0, <1>4 DEF FreedBy, DependencyInverse, NothingStranded, InState, Idle
  <2> QED BY <1>0, <1>4, <2>1, StateChange DEF Fate, Exists, States
<1> QED BY <1>2, <1>3, <1>4 DEF Fate, Exists

LEMMA StepFate ==
    ASSUME IInv, [Next]_vars, NEW i \in Jids
    PROVE  Fate(i)
<1>1. CASE EnvironmentStep
  BY <1>1 DEF EnvironmentStep, Crash, Lapse, ComeDue, Fate
<1>2. CASE UNCHANGED vars
  BY <1>2 DEF vars, Fate
<1>3. ASSUME NEW j \in Jids, NEW w \in Workers, Heartbeat(j, w) \/ Refused(j, w)
      PROVE  Fate(i)
  BY <1>3 DEF Heartbeat, Refused, Fate
<1>4. CASE WorkerStep
  BY <1>3, <1>4, PopFate, CompleteFate, EndFate, ClientsAssumption
     DEF WorkerStep, ClientsAssumption
<1> QED BY <1>1, <1>2, <1>4, ClientFate DEF Next

\* What becomes of i is what its record of attempts says of it.
LEMMA FateCounted ==
    ASSUME IInv, IInv', NEW i \in Jids, Fate(i), Counted(i), (Exists(i) => job[i] \in LooseJob),
           (Exists(i)' => job'[i] \in LooseJob),
           given'[i] = IF i \in Restarted THEN 0 ELSE IF i \in Handed THEN given[i] + 1 ELSE given[i]
    PROVE  Counted(i)'
<1>1. Exists(i) => /\ job[i].retries \in Nat /\ job[i].remaining \in Int
                   /\ job[i].remaining >= IF job[i].state = "failed" THEN -1 ELSE 0
  BY DEF LooseJob, Hash, IInv, RetriesLeft
<1>2. Exists(i)' => /\ job'[i].retries \in Nat /\ job'[i].remaining \in Int
                    /\ job'[i].state \in States
                    /\ job'[i].remaining >= IF job'[i].state = "failed" THEN -1 ELSE 0
  BY DEF LooseJob, Hash, IInv, RetriesLeft, Exists
<1>3. i \in Restarted <=> (Exists(i)' => /\ job'[i].state \notin {"running", "failed"}
                                         /\ job'[i].remaining = job'[i].retries)
  BY DEF Restarted
<1>4. i \in Handed <=> Exists(i)' /\ job'[i].state = "running" /\ job'[i] # job[i]
  BY DEF Handed, InState
<1>5. CASE i \in Restarted
  BY <1>2, <1>3, <1>5 DEF Counted, Idle
<1>6. CASE i \notin Restarted /\ job'[i] = job[i]
  BY <1>4, <1>6 DEF Counted, Exists
<1> DEFINE moves == /\ i \notin Restarted /\ job'[i] # job[i] /\ Exists(i) /\ Exists(i)'
                    /\ job'[i].retries = job[i].retries
<1>7. CASE /\ moves /\ job[i].state \in Idle /\ job'[i].state \in {"waiting", "running"}
           /\ job'[i].remaining = job[i].remaining
  <2>1. given[i] = job[i].retries - job[i].remaining /\ job[i].remaining \in Nat
    BY <1>1, <1>7 DEF Counted, Idle
  <2>2. CASE job'[i].state = "waiting"
    BY <1>1, <1>4, <1>7, <2>1, <2>2 DEF Counted, Idle
  <2>3. CASE job'[i].state = "running"
    BY <1>1, <1>4, <1>7, <2>1, <2>3 DEF Counted, Idle
  <2> QED BY <1>7, <2>2, <2>3
<1>8. CASE /\ moves /\ job[i].state = "running" /\ job'[i].remaining = job[i].remaining - 1
           /\ job'[i].state \in {"waiting", "scheduled", "running"}
  <2>1. given[i] = job[i].retries - job[i].remaining + 1 /\ job[i].remaining \in Nat
    BY <1>1, <1>8 DEF Counted
  <2>2. CASE job'[i].state \in {"waiting", "scheduled"}
    BY <1>1, <1>4, <1>8, <2>1, <2>2 DEF Counted, Idle
  <2>3. CASE job'[i].state = "running"
    BY <1>1, <1>2, <1>4, <1>8, <2>1, <2>3 DEF Counted, Idle
  <2> QED BY <1>8, <2>2, <2>3
<1>9. CASE /\ moves /\ job[i].state = "running" /\ job'[i].state = "failed"
           /\ job'[i].group \in Groups \/ job[i].remaining = 0
  <2>1. given[i] = job[i].retries - job[i].remaining + 1 /\ job[i].remaining \in Nat
    BY <1>1, <1>9 DEF Counted
  <2> QED BY <1>1, <1>4, <1>9, <2>1 DEF Counted, Idle
<1> QED BY <1>3, <1>5, <1>6, <1>7, <1>8, <1>9 DEF Fate

\* A job is handed out once for its first attempt and once for each retry, and fails for
\* want of retries only when all of them were made.
THEOREM AttemptsCounted == BudgetSpec => []AttemptsBounded
<1> DEFINE Inv == IInv /\ \A j \in Jids : Counted(j)
<1>1. BudgetInit => Inv
  BY InitInvariant DEF BudgetInit, Counted, Init, Exists
<1>2. Inv /\ [BudgetNext]_<<vars, given>> => Inv'
  <2> SUFFICES ASSUME Inv, [BudgetNext]_<<vars, given>>
               PROVE  Inv'
    OBVIOUS
  <2>1. IInv'
    BY StepInvariant DEF BudgetNext
  <2>2. ASSUME NEW i \in Jids
        PROVE  Counted(i)'
    <3>1. CASE BudgetNext
      <4>1. (Exists(i) => job[i] \in LooseJob) /\ (Exists(i)' => job'[i] \in LooseJob)
        BY <2>1 DEF IInv, Typed, Exists
      <4>2. given'[i] = IF i \in Restarted THEN 0
                        ELSE IF i \in Handed THEN given[i] + 1 ELSE given[i]
        BY <3>1 DEF BudgetNext
      <4> QED BY <2>1, <3>1, <4>1, <4>2, StepFate, FateCounted DEF BudgetNext
    <3>2. CASE UNCHANGED <<vars, given>>
      BY <3>2 DEF vars, Counted, Exists
    <3> QED BY <3>1, <3>2
  <2> QED BY <2>1, <2>2
<1>3. Inv => AttemptsBounded
  BY DEF Counted, AttemptsBounded, InState
<1> QED BY <1>1, <1>2, <1>3, PTL DEF BudgetSpec
-----------------------------------------------------------------------------
(* Limits hold.                                                            *)

\* No job gains a lease in p.
NoNewLease(p) == \A i \in Jids : locks'[p][i] # "none" => locks[p][i] # "none"

LEMMA MarkIs ==
    ASSUME NEW f, NEW q, NEW S, NEW v, NEW p \in Queues, NEW i \in Jids
    PROVE  Mark(f, q, S, v)[p][i] = IF p = q /\ i \in S THEN v ELSE f[p][i]
BY DEF Mark

LEMMA ClientsLeaseNothing ==
    ASSUME IInv, ClientStep, NEW p \in Queues
    PROVE  NoNewLease(p)
<1>1. ASSUME NEW q, NEW j \in Jids, NEW delayed, NEW r, NEW D, Put(q, j, delayed, r, D)
      PROVE  NoNewLease(p)
  <2>1. locks' = Mark(locks, QueueOf(j), {j}, "none")
    BY <1>1 DEF Put
  <2> QED BY <2>1, MarkIs DEF NoNewLease
<1>2. ASSUME NEW S \in SUBSET Jids, Cancel(S)
      PROVE  NoNewLease(p)
  <2> DEFINE todo == {j \in S : ~InState(j, "complete")}
  <2>1. PICK D \in SUBSET todo :
          /\ job' = [j \in Jids |-> IF j \in D THEN NoJob ELSE job[j]]
          /\ locks' = [q \in Queues |-> [j \in Jids |->
                         IF j \in D /\ QueueOf(j) = q THEN "none" ELSE locks[q][j]]]
    BY <1>2 DEF Cancel
  <2>2. \A i \in Jids : locks'[p][i] = IF i \in D /\ QueueOf(i) = p THEN "none" ELSE locks[p][i]
    BY <2>1
  <2> QED BY <2>2 DEF NoNewLease
<1>3. ASSUME UNCHANGED locks
      PROVE  NoNewLease(p)
  BY <1>3 DEF NoNewLease
<1>4. ASSUME NEW j, NEW D, NEW g, NEW q, NEW n,
             \/ DependsOn(j, D) \/ DependsOff(j, D) \/ Unfail(g, q, n) \/ Peek(q, n)
             \/ Pause(q) \/ Unpause(q) \/ SetLimit(q, n)
      PROVE  UNCHANGED locks
  BY <1>4 DEF DependsOn, DependsOff, Unfail, Peek, Pause, Unpause, SetLimit, queueVars
<1> QED BY <1>1, <1>2, <1>3, <1>4 DEF ClientStep

\* A heartbeat renews a lease that is there: whoever holds a job runs it.
LEMMA EndsLeaseNothing ==
    ASSUME IInv, NEW j \in Jids, NEW w \in Workers, NEW p \in Queues,
           \/ Heartbeat(j, w) \/ Complete(j, w) \/ Refused(j, w)
           \/ \E next, delayed, D : Advance(j, w, next, delayed, D)
           \/ \E g : Fail(j, w, g)
           \/ \E delayed : Retry(j, w, delayed)
    PROVE  NoNewLease(p)
<1>1. ASSUME NEW q, locks' = Mark(locks, q, {j}, "none")
      PROVE  NoNewLease(p)
  BY <1>1, MarkIs DEF NoNewLease
<1>2. CASE Heartbeat(j, w)
  <2>1. Running(j, w) /\ held[w][j] = job[j].queue
    BY <1>2 DEF Heartbeat, IInv, HolderCurrent
  <2>2. locks[QueueOf(j)][j] # "none" \/ QueueOf(j) \notin Queues
    BY <2>1 DEF IInv, Placement, Placed, Running, InState
  <2>3. locks' = Mark(locks, QueueOf(j), {j}, "live")
    BY <1>2 DEF Heartbeat
  <2> QED BY <2>2, <2>3, MarkIs DEF NoNewLease
<1>3. CASE Complete(j, w)
  <2>1. locks' = Mark(locks, held[w][j], {j}, "none")
    BY <1>3 DEF Complete, Finish
  <2> QED BY <1>1, <2>1
<1>4. CASE Refused(j, w)
  BY <1>4 DEF Refused, queueVars, NoNewLease
<1>5. ASSUME NEW next, NEW delayed, NEW D, Advance(j, w, next, delayed, D)
      PROVE  NoNewLease(p)
  <2>1. locks' = Mark(locks, held[w][j], {j}, "none")
    BY <1>5 DEF Advance, Finish
  <2> QED BY <1>1, <2>1
<1>6. ASSUME NEW g, Fail(j, w, g)
      PROVE  NoNewLease(p)
  <2>1. locks' = Mark(locks, QueueOf(j), {j}, "none")
    BY <1>6 DEF Fail
  <2> QED BY <1>1, <2>1
<1>7. ASSUME NEW delayed, Retry(j, w, delayed)
      PROVE  NoNewLease(p)
  <2>1. locks' = Mark(locks, job[j].queue, {j}, "none")
    BY <1>7 DEF Retry
  <2> QED BY <1>1, <2>1
<1> QED BY <1>2, <1>3, <1>4, <1>5, <1>6, <1>7

LEMMA TimeLeasesNothing ==
    ASSUME EnvironmentStep, NEW p \in Queues
    PROVE  NoNewLease(p)
<1>1. ASSUME NEW w, Crash(w)
      PROVE  NoNewLease(p)
  BY <1>1 DEF Crash, queueVars, NoNewLease
<1>2. ASSUME NEW q, NEW j \in Jids, Lapse(q, j)
      PROVE  NoNewLease(p)
  <2>1. locks[q][j] # "none"
    BY <1>2 DEF Lapse
  <2>2. PICK v : locks' = Mark(locks, q, {j}, v)
    BY <1>2 DEF Lapse
  <2> QED BY <2>1, <2>2, MarkIs DEF NoNewLease
<1>3. ASSUME NEW q, NEW j, ComeDue(q, j)
      PROVE  NoNewLease(p)
  BY <1>3 DEF ComeDue, NoNewLease
<1> QED BY <1>1, <1>2, <1>3 DEF EnvironmentStep

\* Of the jobs that a pop takes, there are as many as it may still hand out.
LEMMA SomeCounts ==
    ASSUME NEW S, IsFiniteSet(S), NEW n \in Int, NEW T \in Some(n, S)
    PROVE  /\ T \in SUBSET S /\ IsFiniteSet(T)
           /\ n >= 0 => Cardinality(T) <= n
           /\ n < 0 \/ Cardinality(S) <= n => T = S
           /\ n >= 0 /\ Cardinality(S) > n => Cardinality(T) = n
<1>1. T \in SUBSET S
  BY DEF Some
<1>2. IsFiniteSet(T) /\ Cardinality(S) \in Nat /\ Cardinality(T) \in Nat
  BY <1>1, FS_Subset, FS_CardinalityType
<1>3. n < 0 \/ Cardinality(T) = IF n < Cardinality(S) THEN n ELSE Cardinality(S)
  BY DEF Some
<1>4. Cardinality(T) = Cardinality(S) => T = S
  BY <1>1, FS_Subset
<1>5. n < 0 => T = S
  BY DEF Some
<1> QED BY <1>1, <1>2, <1>3, <1>4, <1>5

LEMMA Removed ==
    ASSUME NEW S, IsFiniteSet(S), NEW T \in SUBSET S
    PROVE  Cardinality(S \ T) = Cardinality(S) - Cardinality(T)
<1>1. S \cap T = T
  OBVIOUS
<1>2. Cardinality(S \ T) = Cardinality(S) - Cardinality(S \cap T)
  BY FS_Difference
<1> QED BY <1>1, <1>2

\* What the arithmetic of a pop comes to: L are the leases of its queue, live those that count
\* against the limit and expired those it may reclaim, lost the ones it does and out those of
\* them it fails.  A lease that is over now is live and expired.
LEMMA PopAdds ==
    ASSUME NEW J, IsFiniteSet(J), NEW live \in SUBSET J, NEW expired \in SUBSET J, NEW L,
           L = live \cup expired,
           NEW lost \in SUBSET expired, NEW out \in SUBSET lost, NEW taken \in SUBSET J,
           NEW max \in Nat, NEW count \in Int, count <= max - Cardinality(live),
           count < 0 \/ Cardinality(expired) <= count => lost = expired,
           count >= 0 /\ Cardinality(expired) > count => Cardinality(lost) = count,
           \/ taken = {}
           \/ /\ Cardinality(lost \ out) < count
              /\ Cardinality(taken) <= count - Cardinality(lost \ out)
    PROVE  LET more == (L \ out) \cup taken
           IN  Cardinality(more) <= max \/ Cardinality(more) <= Cardinality(L)
<1>1. /\ IsFiniteSet(L) /\ IsFiniteSet(live) /\ IsFiniteSet(lost) /\ IsFiniteSet(out)
      /\ IsFiniteSet(taken) /\ IsFiniteSet(L \ out) /\ IsFiniteSet(lost \ out)
      /\ IsFiniteSet(expired)
  BY FS_Subset
<1>2. /\ Cardinality(L) \in Nat /\ Cardinality(live) \in Nat /\ Cardinality(lost) \in Nat
      /\ Cardinality(out) \in Nat /\ Cardinality(taken) \in Nat
      /\ Cardinality(L \ out) \in Nat /\ Cardinality(lost \ out) \in Nat
      /\ Cardinality(expired) \in Nat
  BY <1>1, FS_CardinalityType
<1>3. Cardinality(L \ out) = Cardinality(L) - Cardinality(out)
  <2>1. out \in SUBSET L
    OBVIOUS
  <2> QED BY <1>1, <2>1, Removed
<1>4. Cardinality(L) <= Cardinality(live) + Cardinality(expired)
  <2>1. Cardinality(L) = Cardinality(live) + Cardinality(expired) - Cardinality(live \cap expired)
    BY <1>1, FS_Union
  <2>2. Cardinality(live \cap expired) \in Nat
    BY <1>1, FS_Subset, FS_CardinalityType
  <2> QED BY <1>2, <2>1, <2>2
<1>5. Cardinality(lost \ out) = Cardinality(lost) - Cardinality(out)
  BY <1>1, Removed
<1>6. Cardinality((L \ out) \cup taken) \in Nat
      /\ Cardinality((L \ out) \cup taken) <= Cardinality(L \ out) + Cardinality(taken)
  <2>1. IsFiniteSet((L \ out) \cap taken)
    BY <1>1, FS_Subset
  <2>2. Cardinality((L \ out) \cap taken) \in Nat
    BY <2>1, FS_CardinalityType
  <2>3. /\ IsFiniteSet((L \ out) \cup taken)
        /\ Cardinality((L \ out) \cup taken) =
             Cardinality(L \ out) + Cardinality(taken) - Cardinality((L \ out) \cap taken)
    BY <1>1, FS_Union
  <2>4. Cardinality((L \ out) \cup taken) \in Nat
    BY <2>3, FS_CardinalityType
  <2> QED BY <1>2, <2>2, <2>3, <2>4
<1>7. CASE taken = {}
  <2>1. Cardinality(taken) = 0
    BY <1>7, FS_EmptySet
  <2> QED BY <1>2, <1>3, <1>6, <2>1
<1>8. CASE taken # {}
  <2>1. /\ Cardinality(lost \ out) < count
        /\ Cardinality(taken) <= count - Cardinality(lost \ out)
    BY <1>8
  <2>2. CASE Cardinality(expired) <= count
    <3>1. Cardinality(lost) = Cardinality(expired)
      BY <2>2
    <3> QED BY <1>2, <1>3, <1>4, <1>5, <1>6, <2>1, <3>1
  <2>3. CASE Cardinality(expired) > count
    <3>1. Cardinality(lost) = count
      BY <1>2, <2>1, <2>3
    <3> QED BY <1>2, <1>3, <1>4, <1>5, <1>6, <2>1, <3>1
  <2> QED BY <1>2, <2>2, <2>3
<1> QED BY <1>7, <1>8

\* A pop with no room under the limit adds no lease; one with room does not exceed it.
LEMMA PopWithin ==
    ASSUME IInv, NEW q \in Queues, NEW w \in Workers, NEW n \in PopCounts, Pop(q, w, n),
           NEW p \in Queues, limit[p] > 0
    PROVE  LET then == {i \in Jids : locks'[p][i] # "none"}
           IN  Cardinality(then) <= limit[p] \/ Cardinality(then) <= Cardinality(LeasesOf(p))
<1> DEFINE count == Allowance(q, n)
           upTo(k, S) == IF k < count THEN Some(count - k, S) ELSE {{}}
           then == {i \in Jids : locks'[p][i] # "none"}
<1>0. Typed /\ IsFiniteSet(Jids) /\ n \in Nat
  BY ClientsAssumption, NumbersAssumption DEF IInv, ClientsAssumption, NumbersAssumption
<1>1. PICK lost \in Some(count, Expired(q)) :
        \E promoted \in upTo(Cardinality(lost \ Exhausted(lost)), DueIn(q) \ Exhausted(lost)) :
        \E taken \in upTo(Cardinality(lost \ Exhausted(lost)),
                          (work[q] \ Exhausted(lost)) \cup promoted) :
           Assign(q, w, lost, promoted, taken)
  BY DEF Pop
<1>2. PICK out : out = Exhausted(lost)
  OBVIOUS
<1>3. PICK promoted, taken :
        /\ promoted \in upTo(Cardinality(lost \ out), DueIn(q) \ out)
        /\ taken \in upTo(Cardinality(lost \ out), (work[q] \ out) \cup promoted)
        /\ Assign(q, w, lost, promoted, taken)
  BY <1>1, <1>2
<1>4. IsFiniteSet(LeasesOf(p)) /\ IsFiniteSet(then) /\ IsFiniteSet(Expired(q))
      /\ IsFiniteSet(StillLocked(q))
  <2>1. /\ LeasesOf(p) \in SUBSET Jids /\ then \in SUBSET Jids /\ Expired(q) \in SUBSET Jids
        /\ StillLocked(q) \in SUBSET Jids
    BY DEF LeasesOf, Expired, StillLocked
  <2> QED BY <1>0, <2>1, FS_Subset
<1>5. \A i \in Jids : locks'[p][i] = IF p = q /\ i \in (lost \ out) \cup taken THEN "live"
                                     ELSE IF p = q /\ i \in out THEN "none" ELSE locks[p][i]
  <2>1. locks' = Mark(Mark(locks, q, out, "none"), q, (lost \ out) \cup taken, "live")
    BY <1>2, <1>3 DEF Assign
  <2> QED BY <2>1, MarkIs
<1>6. CASE p # q
  <2>1. then = LeasesOf(p)
    BY <1>5, <1>6 DEF LeasesOf
  <2>2. Cardinality(LeasesOf(p)) \in Nat
    BY <1>4, FS_CardinalityType
  <2> QED BY <2>1, <2>2
<1>7. CASE p = q
  <2>1. Cardinality(StillLocked(q)) \in Nat /\ limit[q] \in Nat
    BY <1>0, <1>4, FS_CardinalityType DEF Typed
  <2>2. count \in Int /\ count <= limit[q] - Cardinality(StillLocked(q))
    BY <1>0, <1>7, <2>1 DEF Allowance
  <2> HIDE DEF count
  <2>3. /\ lost \in SUBSET Expired(q)
        /\ count < 0 \/ Cardinality(Expired(q)) <= count => lost = Expired(q)
        /\ count >= 0 /\ Cardinality(Expired(q)) > count => Cardinality(lost) = count
    BY <1>1, <1>4, <2>2, SomeCounts
  <2>4. PICK L : L = LeasesOf(q)
    OBVIOUS
  <2>5. /\ L = StillLocked(q) \cup Expired(q)
        /\ StillLocked(q) \in SUBSET Jids /\ Expired(q) \in SUBSET Jids
    <3>1. \A i \in Jids : locks[q][i] \in {"none", "live", "edge", "over"}
      BY <1>0 DEF Typed, Lease
    <3> QED BY <2>4, <3>1 DEF LeasesOf, StillLocked, Expired
  <2>6. out \in SUBSET lost /\ taken \in SUBSET Jids
    <3>1. \A k, S : \A T \in upTo(k, S) : T \subseteq S
      BY SomeSubset
    <3>2. promoted \subseteq DueIn(q) /\ taken \subseteq work[q] \cup promoted
      BY <1>3, <3>1
    <3> QED BY <1>0, <1>2, <3>2 DEF DueIn, Typed, Exhausted
  <2>7. \/ taken = {}
        \/ /\ Cardinality(lost \ out) < count
           /\ Cardinality(taken) <= count - Cardinality(lost \ out)
    <3>1. CASE Cardinality(lost \ out) < count
      <4>1. PICK S : S = (work[q] \ out) \cup promoted
        OBVIOUS
      <4>2. taken \in Some(count - Cardinality(lost \ out), S)
        BY <1>3, <3>1, <4>1
      <4>3. IsFiniteSet(S)
        <5>1. \A k, R : \A T \in upTo(k, R) : T \subseteq R
          BY SomeSubset
        <5>2. promoted \subseteq DueIn(q)
          BY <1>3, <5>1
        <5>3. S \in SUBSET Jids
          BY <1>0, <4>1, <5>2 DEF DueIn, Typed
        <5> QED BY <1>0, <5>3, FS_Subset
      <4>4. PICK k : k = count - Cardinality(lost \ out)
        OBVIOUS
      <4>5. k \in Int /\ k >= 0
        <5>1. IsFiniteSet(lost \ out)
          <6>1. lost \ out \in SUBSET Expired(q)
            BY <2>3
          <6> QED BY <1>4, <6>1, FS_Subset
        <5>2. Cardinality(lost \ out) \in Nat
          BY <5>1, FS_CardinalityType
        <5> QED BY <2>2, <3>1, <4>4, <5>2
      <4>6. Cardinality(taken) <= k
        BY <4>2, <4>3, <4>4, <4>5, SomeCounts
      <4> QED BY <3>1, <4>4, <4>6
    <3>2. CASE ~(Cardinality(lost \ out) < count)
      BY <1>3, <3>2
    <3> QED BY <3>1, <3>2
  <2>8. then = (L \ out) \cup taken
    BY <1>5, <1>7, <2>3, <2>4, <2>5, <2>6 DEF LeasesOf
  <2>9. \/ Cardinality((L \ out) \cup taken) <= limit[q]
        \/ Cardinality((L \ out) \cup taken) <= Cardinality(L)
    <3>1. PICK live, expired : live = StillLocked(q) /\ expired = Expired(q)
      OBVIOUS
    <3>2. /\ live \in SUBSET Jids /\ expired \in SUBSET Jids /\ L = live \cup expired
          /\ lost \in SUBSET expired
      BY <2>3, <2>5, <3>1
    <3>3. /\ count <= limit[q] - Cardinality(live)
          /\ count < 0 \/ Cardinality(expired) <= count => lost = expired
          /\ count >= 0 /\ Cardinality(expired) > count => Cardinality(lost) = count
      BY <2>2, <2>3, <3>1
    <3> QED BY <1>0, <2>1, <2>2, <2>6, <2>7, <3>2, <3>3, PopAdds
  <2> QED BY <1>7, <2>4, <2>8, <2>9
<1> QED BY <1>6, <1>7

\* What WithinLimit says of one queue.
Within(p) ==
    limit'[p] > 0 /\ Cardinality({i \in Jids : locks'[p][i] # "none"}) > limit'[p]
      => Cardinality({i \in Jids : locks'[p][i] # "none"}) <= Cardinality(LeasesOf(p))

LEMMA StepWithin ==
    ASSUME IInv, IInv', [Next]_vars, NEW p \in Queues
    PROVE  Within(p)
<1>0. IsFiniteSet(Jids)
  BY ClientsAssumption DEF ClientsAssumption
<1>1. ASSUME NoNewLease(p)
      PROVE  Within(p)
  <2>1. {i \in Jids : locks'[p][i] # "none"} \in SUBSET LeasesOf(p)
    BY <1>1 DEF NoNewLease, LeasesOf
  <2>2. IsFiniteSet(LeasesOf(p))
    <3>1. LeasesOf(p) \in SUBSET Jids
      BY DEF LeasesOf
    <3> QED BY <1>0, <3>1, FS_Subset
  <2> QED BY <2>1, <2>2, FS_Subset DEF Within
<1>2. ASSUME NEW q \in Queues, NEW w \in Workers, NEW n \in PopCounts, Pop(q, w, n)
      PROVE  Within(p)
  <2>1. PICK S : S = {i \in Jids : locks'[p][i] # "none"}
    OBVIOUS
  <2>2. limit' = limit
    <3>1. \E reclaimed, promoted, taken : Assign(q, w, reclaimed, promoted, taken)
      BY <1>2, PopAssigns DEF IInv
    <3> QED BY <3>1 DEF Assign, confVars
  <2>3. ASSUME limit[p] > 0
        PROVE  Cardinality(S) <= limit[p] \/ Cardinality(S) <= Cardinality(LeasesOf(p))
    BY <1>2, <2>1, <2>3, PopWithin
  <2>4. Cardinality(S) \in Nat /\ limit[p] \in Nat
    <3>1. S \in SUBSET Jids
      BY <2>1
    <3>2. IsFiniteSet(S)
      BY <1>0, <3>1, FS_Subset
    <3>3. Typed
      BY DEF IInv
    <3> QED BY <3>2, <3>3, FS_CardinalityType DEF Typed
  <2> QED BY <2>1, <2>2, <2>3, <2>4 DEF Within
<1>3. CASE ClientStep
  BY <1>1, <1>3, ClientsLeaseNothing
<1>4. CASE WorkerStep
  BY <1>1, <1>2, <1>4, EndsLeaseNothing DEF WorkerStep
<1>5. CASE EnvironmentStep
  BY <1>1, <1>5, TimeLeasesNothing
<1>6. CASE UNCHANGED vars
  <2>1. NoNewLease(p)
    BY <1>6 DEF vars, queueVars, NoNewLease
  <2> QED BY <1>1, <2>1
<1> QED BY <1>3, <1>4, <1>5, <1>6 DEF Next

\* However pops, heartbeats, ends, expiries and changes of the limit interleave, no step
\* adds to the leases of a queue that has as many as its limit allows.
THEOREM LimitsHold == Spec => WithinLimit
<1>1. IInv /\ IInv' /\ [Next]_vars
        => [\A q \in Queues :
              limit'[q] > 0 /\ Cardinality(LeasesOf(q)') > limit'[q]
                => Cardinality(LeasesOf(q)') <= Cardinality(LeasesOf(q))]_vars
  <2> SUFFICES ASSUME IInv, IInv', [Next]_vars, NEW q \in Queues
               PROVE  limit'[q] > 0 /\ Cardinality(LeasesOf(q)') > limit'[q]
                        => Cardinality(LeasesOf(q)') <= Cardinality(LeasesOf(q))
    OBVIOUS
  <2>1. LeasesOf(q)' = {i \in Jids : locks'[q][i] # "none"}
    BY DEF LeasesOf
  <2> QED BY <2>1, StepWithin DEF Within
<1> QED BY <1>1, InvariantKept, PTL DEF Spec, WithinLimit
=============================================================================
