------------------------ MODULE QlessRefinementProofs ------------------------
(***************************************************************************)
(* Qless implements QlessJobs: under the mapping of QlessRefinement every  *)
(* script is one step of the abstract specification, or none.              *)
(***************************************************************************)
EXTENDS QlessInvariant, QlessRefinement

\* The owner that the mapping gives job j.
OwnerOf(j) == IF InState(j, "running") THEN job[j].worker ELSE NoWorker

\* Which jobs are in which phase.
Phased(j) ==
    /\ PhaseOf(j) = "absent" <=> ~Exists(j)
    /\ PhaseOf(j) = "ready" <=> InState(j, "waiting") \/ InState(j, "scheduled")
    /\ PhaseOf(j) = "blocked" <=> InState(j, "depends")
    /\ PhaseOf(j) = "done" <=> InState(j, "complete")
    /\ PhaseOf(j) = "dead" <=> InState(j, "failed")
    /\ PhaseOf(j) = "live" <=> InState(j, "running") /\ locks[job[j].queue][j] = "live"
    /\ PhaseOf(j) = "lapsed" <=> InState(j, "running") /\ locks[job[j].queue][j] # "live"

LEMMA PhasesBefore ==
    ASSUME Typed, NEW j \in Jids
    PROVE  Phased(j)
<1>1. Exists(j) => job[j].state \in States
  BY HashType DEF LooseJob, Hash
<1> QED BY <1>1 DEF Phased, PhaseOf, InState, States

LEMMA PhasesAfter ==
    ASSUME Typed', NEW j \in Jids
    PROVE  Phased(j)'
<1>1. Exists(j)' => job'[j].state \in States
  BY DEF Exists, Typed, LooseJob, Hash
<1> QED BY <1>1 DEF Phased, PhaseOf, InState, States

\* Job j changes neither phase nor owner.
Same(j) == PhaseOf(j)' = PhaseOf(j) /\ OwnerOf(j)' = OwnerOf(j)

LEMMA SameHash ==
    ASSUME Typed, NEW j \in Jids, job'[j] = job[j],
           \A q \in Queues : locks'[q][j] = "live" <=> locks[q][j] = "live",
           InState(j, "running") => job[j].queue \in Queues
    PROVE  Same(j)
<1>1. /\ Exists(j)' <=> Exists(j)
      /\ \A s \in States : InState(j, s)' <=> InState(j, s)
  BY DEF Exists, InState
<1>2. Exists(j) => job[j].state \in States
  BY HashType DEF LooseJob, Hash
<1>3. OwnerOf(j)' = OwnerOf(j)
  BY <1>1 DEF OwnerOf, States
<1>4. PhaseOf(j)' = PhaseOf(j)
  BY <1>1, <1>2 DEF PhaseOf, InState, States
<1> QED BY <1>3, <1>4 DEF Same

\* The mapped state before and after a step in which only the jobs of S change.
LEMMA Stutters ==
    ASSUME \A j \in Jids : Same(j), UNCHANGED dependencies
    PROVE  UNCHANGED Jobs!vars
BY DEF Jobs!vars, Same, OwnerOf

\* The jobs of S change to phase p and to no owner, the others do not.
LEMMA Moves ==
    ASSUME NEW S, NEW p,
           \A j \in Jids : IF j \in S THEN PhaseOf(j)' = p /\ OwnerOf(j)' = NoWorker ELSE Same(j)
    PROVE  Jobs!To(S, p)
BY DEF Jobs!To, Same, OwnerOf

LEMMA MovesOne ==
    ASSUME NEW j \in Jids, NEW p, PhaseOf(j)' = p, OwnerOf(j)' = NoWorker,
           \A i \in Jids : i # j => Same(i)
    PROVE  Jobs!To({j}, p)
BY Moves

\* A job that no step touches.
LEMMA Untouching ==
    ASSUME IInv, NEW j \in Jids, job'[j] = job[j],
           \A q \in Queues : locks'[q][j] = "live" <=> locks[q][j] = "live"
    PROVE  Same(j)
<1>1. InState(j, "running") => job[j].queue \in Queues
  <2>1. Placed(j) /\ Typed
    BY DEF IInv, Placement
  <2>2. Exists(j) => job[j].queue \in Queues \cup {NoQueue}
    BY <2>1, HashType
  <2> QED BY <2>1, <2>2 DEF Placed, InState
<1> QED BY <1>1, SameHash DEF IInv

\* What the mapped state knows of the jobs a script names.
LEMMA PendingJobs ==
    ASSUME IInv, NEW D \in SUBSET Jids
    PROVE  Legit(D) \subseteq Jobs!Pending
<1>1. ASSUME NEW d \in Legit(D)
      PROVE  d \in Jids /\ PhaseOf(d) \notin {"absent", "done"}
  <2>1. d \in Jids /\ Exists(d) /\ ~InState(d, "complete")
    BY DEF Legit
  <2>2. Phased(d)
    BY <2>1, PhasesBefore DEF IInv
  <2> QED BY <2>1, <2>2 DEF Phased
<1> QED BY <1>1 DEF Jobs!Pending, Jobs!In
-----------------------------------------------------------------------------
(* Calls by clients.                                                       *)

LEMMA PutEnqueues ==
    ASSUME IInv, IInv', NEW q \in Queues, NEW j \in Jids, NEW delayed \in BOOLEAN,
           NEW r \in RetryCounts, NEW D \in SUBSET Jids,
           delayed => dependencies[j] = {}, Put(q, j, delayed, r, D)
    PROVE  Jobs!Next
<1> DEFINE waits == IF delayed THEN {} ELSE {d \in D : d = j \/ d \in Legit(D)}
           state == IF delayed THEN "scheduled"
                    ELSE IF dependencies[j] \cup waits # {} THEN "depends" ELSE "waiting"
<1>0. Typed /\ Typed'
  BY DEF IInv
<1>1. /\ job' = [job EXCEPT ![j] = NewHash(j, state, q, r)]
      /\ locks' = Mark(locks, QueueOf(j), {j}, "none")
      /\ WaitOn(j, waits)
  BY DEF Put
<1>2. waits \subseteq Legit(D) \cup {j} /\ (delayed => dependencies[j] \cup waits = {})
  OBVIOUS
<1>3. waits \in SUBSET Jids
  OBVIOUS
<1>4. state \in {"scheduled", "depends", "waiting"}
      /\ (state = "depends" <=> dependencies[j] \cup waits # {})
  BY <1>2
<1> HIDE DEF waits, state
<1>5. dependencies' = [dependencies EXCEPT ![j] = dependencies[j] \cup waits]
  BY <1>0, <1>1 DEF WaitOn, With, Typed
<1>6. Exists(j)' /\ job'[j].state = state
  <2>1. NewHash(j, state, q, r) \in LooseJob
    BY <1>4, NumbersAssumption DEF NumbersAssumption, NewHash, LooseJob, Hash, States
  <2>2. job'[j] = NewHash(j, state, q, r)
    BY <1>0, <1>1 DEF Typed
  <2> QED BY <2>1, <2>2, HashExists DEF Exists, NewHash
<1>7. ASSUME NEW i \in Jids, i # j
      PROVE  Same(i)
  <2>1. job'[i] = job[i]
    BY <1>0, <1>1, <1>7 DEF Typed
  <2>2. \A p \in Queues : locks'[p][i] = locks[p][i]
    BY <1>1, <1>7, MarkAt
  <2> QED BY <2>1, <2>2, Untouching
<1>8. OwnerOf(j)' = NoWorker
  BY <1>4, <1>6 DEF OwnerOf, InState
<1>9. PhaseOf(j)' = IF dependencies[j] \cup waits = {} THEN "ready" ELSE "blocked"
  <2>1. Phased(j)'
    BY <1>0, PhasesAfter
  <2> QED BY <1>4, <1>6, <2>1 DEF Phased, InState
<1>10. waits \subseteq Jobs!Pending \cup {j}
  BY <1>2, PendingJobs
<1>11. PICK W : W = waits
  OBVIOUS
<1>12. PICK p : p = IF dependencies[j] \cup waits = {} THEN "ready" ELSE "blocked"
  OBVIOUS
<1>13. Jobs!To({j}, p)
  BY <1>7, <1>8, <1>9, <1>12, MovesOne
<1>14. Jobs!Enqueue(j, W)
  BY <1>5, <1>10, <1>11, <1>12, <1>13 DEF Jobs!Enqueue, Jobs!To
<1> QED BY <1>3, <1>11, <1>14 DEF Jobs!Next

LEMMA CancelRemoves ==
    ASSUME IInv, IInv', NEW S \in SUBSET Jids, Cancel(S)
    PROVE  Jobs!Next
<1>0. Typed /\ Typed' /\ DependencyInverse /\ NothingStranded
  BY DEF IInv
<1> DEFINE todo == {j \in S : ~InState(j, "complete")}
<1>1. PICK D \in SUBSET todo :
        /\ IF Cancellable(todo, S) THEN D = todo ELSE Cancellable(D, S)
        /\ job' = [j \in Jids |-> IF j \in D THEN NoJob ELSE job[j]]
        /\ locks' = [q \in Queues |-> [j \in Jids |->
                       IF j \in D /\ QueueOf(j) = q THEN "none" ELSE locks[q][j]]]
        /\ dependencies' = [j \in Jids |-> IF j \in D THEN {} ELSE dependencies[j]]
  BY DEF Cancel
<1>2. /\ D \in SUBSET Jids
      /\ \A j \in D : dependents[j] \subseteq D \cup {d \in S : InState(d, "complete")}
  BY <1>1 DEF Cancellable
<1>3. ASSUME NEW i \in Jids \ D
      PROVE  Same(i)
  BY <1>1, <1>3, Untouching
<1>4. ASSUME NEW i \in D
      PROVE  PhaseOf(i)' = "absent" /\ OwnerOf(i)' = NoWorker
  <2>1. ~Exists(i)'
    BY <1>1, <1>2, <1>4 DEF Exists
  <2> QED BY <2>1 DEF PhaseOf, OwnerOf, InState
<1>5. Jobs!To(D, "absent")
  BY <1>3, <1>4, Moves
<1>6. ASSUME NEW i \in D
      PROVE  PhaseOf(i) # "done"
  <2>1. Phased(i)
    BY <1>0, <1>2, PhasesBefore
  <2> QED BY <1>1, <2>1 DEF Phased
<1>7. ASSUME NEW i \in Jids \ D, NEW d \in D
      PROVE  d \notin dependencies[i]
  <2> SUFFICES ASSUME d \in dependencies[i]
               PROVE  FALSE
    OBVIOUS
  <2>1. i \in dependents[d]
    BY <1>0, <1>2 DEF DependencyInverse
  <2>2. InState(i, "complete")
    BY <1>2, <2>1
  <2>3. InState(i, "depends")
    BY <1>0 DEF NothingStranded
  <2> QED BY <2>2, <2>3 DEF InState
<1>8. Jobs!Remove(D)
  BY <1>1, <1>2, <1>5, <1>6, <1>7 DEF Jobs!Remove, Jobs!In
<1> QED BY <1>2, <1>8 DEF Jobs!Next

LEMMA DependsOnReblocks ==
    ASSUME IInv, IInv', NEW j \in Jids, NEW D \in SUBSET Jids, DependsOn(j, D)
    PROVE  Jobs!Next
<1>0. Typed /\ NothingStranded
  BY DEF IInv
<1>1. PICK W : W = dependencies[j] \cup Legit(D)
  OBVIOUS
<1>2. W \in SUBSET Jids
  BY <1>0, <1>1 DEF Typed, Legit
<1>3. dependencies' = [dependencies EXCEPT ![j] = W]
  BY <1>0, <1>1 DEF DependsOn, WaitOn, With, Typed
<1>4. W \subseteq dependencies[j] \cup Jobs!Pending
  BY <1>1, PendingJobs
<1>5. W # {}
  BY <1>0, <1>1 DEF DependsOn, NothingStranded
<1>6. \A i \in Jids : Same(i)
  BY Untouching DEF DependsOn, queueVars
<1>7. PhaseOf(j) = "blocked" /\ OwnerOf(j) = NoWorker
  <2>1. Phased(j) /\ InState(j, "depends")
    BY <1>0, PhasesBefore DEF DependsOn
  <2> QED BY <2>1 DEF Phased, OwnerOf, InState
<1>8. Jobs!To({j}, "blocked")
  BY <1>6, <1>7, MovesOne DEF Same
<1>9. Jobs!Reblock(j, W)
  BY <1>3, <1>4, <1>5, <1>7, <1>8 DEF Jobs!Reblock, Jobs!In, Jobs!To
<1> QED BY <1>2, <1>9 DEF Jobs!Next

LEMMA DependsOffReblocks ==
    ASSUME IInv, IInv', NEW j \in Jids, NEW D \in SUBSET Jids, DependsOff(j, D)
    PROVE  Jobs!Next
<1>0. Typed /\ Typed' /\ NothingStranded'
  BY DEF IInv
<1>1. PICK W : W = dependencies[j] \ D
  OBVIOUS
<1>2. W \in SUBSET Jids
  BY <1>0, <1>1 DEF Typed
<1>3. dependencies' = [dependencies EXCEPT ![j] = W]
  BY <1>0, <1>1 DEF DependsOff, Without, Typed
<1>4. PhaseOf(j) = "blocked"
  <2>1. Phased(j)
    BY <1>0, PhasesBefore
  <2> QED BY <2>1 DEF Phased, DependsOff
<1>5. ASSUME NEW i \in Jids, i # j
      PROVE  Same(i)
  <2>1. job'[i] = job[i] /\ locks' = locks
    BY <1>0, <1>5 DEF DependsOff, Typed
  <2> QED BY <2>1, Untouching
<1>6. InState(j, IF W = {} THEN "waiting" ELSE "depends")'
  <2>1. CASE W = {}
    <3>1. job' = [job EXCEPT ![j] = [job[j] EXCEPT !.state = "waiting"]]
      BY <1>1, <2>1 DEF DependsOff
    <3>2. job[j] \in LooseJob
      BY <1>0, HashType DEF DependsOff, InState
    <3>3. [job[j] EXCEPT !.state = "waiting"] \in LooseJob
      BY <3>2 DEF LooseJob, Hash, States
    <3>4. Exists(j)' /\ job'[j].state = "waiting"
      BY <1>0, <3>1, <3>2, <3>3, HashExists DEF Exists, Typed, LooseJob, Hash
    <3> QED BY <2>1, <3>4 DEF InState
  <2>2. CASE W # {}
    BY <1>1, <2>2 DEF DependsOff, InState, Exists
  <2> QED BY <2>1, <2>2
<1>7. /\ PhaseOf(j)' = IF W = {} THEN "ready" ELSE "blocked"
      /\ OwnerOf(j)' = NoWorker
  <2>1. Phased(j)'
    BY <1>0, PhasesAfter
  <2> QED BY <1>6, <2>1 DEF Phased, OwnerOf, InState
<1>8. Jobs!To({j}, IF W = {} THEN "ready" ELSE "blocked")
  BY <1>5, <1>7, MovesOne
<1>9. Jobs!Reblock(j, W)
  BY <1>1, <1>3, <1>4, <1>8 DEF Jobs!Reblock, Jobs!In
<1> QED BY <1>2, <1>9 DEF Jobs!Next

LEMMA UnfailRevives ==
    ASSUME IInv, IInv', NEW g \in AllGroups, NEW q \in Queues, NEW n, Unfail(g, q, n)
    PROVE  Jobs!Next
<1>0. Typed /\ Typed' /\ FailedIndexed
  BY DEF IInv
<1>1. PICK S \in SUBSET failed[g] :
        /\ \A j \in S : Exists(j)
        /\ job' = [j \in Jids |->
               IF j \in S THEN [job[j] EXCEPT !.state = "waiting", !.worker = NoWorker,
                                   !.queue = q, !.remaining = job[j].retries, !.group = NoGroup]
               ELSE job[j]]
        /\ UNCHANGED <<locks, dependencies>>
  BY SomeSubset DEF Unfail, depVars
<1>2. S \in SUBSET Jids
  BY <1>0 DEF Typed
<1>3. ASSUME NEW i \in Jids \ S
      PROVE  Same(i)
  BY <1>1, <1>3, Untouching
<1>4. ASSUME NEW i \in S
      PROVE  PhaseOf(i) = "dead" /\ PhaseOf(i)' = "ready" /\ OwnerOf(i)' = NoWorker
  <2>1. InState(i, "failed")
    BY <1>0, <1>2 DEF FailedIndexed
  <2>2. InState(i, "waiting")'
    <3>1. job[i] \in LooseJob
      BY <1>0, <1>1, <1>2, HashType
    <3>2. job'[i] = [job[i] EXCEPT !.state = "waiting", !.worker = NoWorker, !.queue = q,
                                   !.remaining = job[i].retries, !.group = NoGroup]
      BY <1>1, <1>2
    <3>3. job'[i].state = "waiting" /\ job'[i].worker = NoWorker
      BY <3>1, <3>2 DEF LooseJob, Hash
    <3>4. job[i].retries \in Int
      BY <3>1 DEF LooseJob, Hash
    <3>5. job'[i] \in LooseJob
      BY <3>1, <3>2, <3>4 DEF LooseJob, Hash, States
    <3> QED BY <3>3, <3>5, HashExists DEF InState, Exists
  <2>3. Phased(i) /\ Phased(i)'
    BY <1>0, <1>2, PhasesBefore, PhasesAfter
  <2> QED BY <2>1, <2>2, <2>3 DEF Phased, OwnerOf, InState
<1>5. Jobs!To(S, "ready")
  BY <1>3, <1>4, Moves
<1>6. Jobs!Revive(S)
  BY <1>1, <1>2, <1>4, <1>5 DEF Jobs!Revive, Jobs!In
<1> QED BY <1>2, <1>6 DEF Jobs!Next

LEMMA PeekStutters ==
    ASSUME IInv, IInv', NEW q \in Queues, NEW n, Peek(q, n)
    PROVE  UNCHANGED Jobs!vars
<1>0. Typed /\ Typed' /\ Placement
  BY DEF IInv
<1>1. PICK ready \in SUBSET DueIn(q) :
        /\ \A j \in ready : Exists(j)
        /\ job' = [j \in Jids |-> IF j \in ready THEN [job[j] EXCEPT !.state = "waiting"]
                                  ELSE job[j]]
        /\ UNCHANGED <<locks, dependencies>>
  BY SomeSubset DEF Peek, depVars
<1>2. ASSUME NEW i \in Jids
      PROVE  Same(i)
  <2>1. CASE i \notin ready
    BY <1>1, <2>1, Untouching
  <2>2. CASE i \in ready
    <3>1. Exists(i) /\ job[i].state \in {"waiting", "scheduled"}
      BY <1>0, <1>1, <2>2 DEF DueIn, Placement, Placed, QueueOf
    <3>2. job[i] \in LooseJob
      BY <1>0, <3>1, HashType
    <3>3. job'[i].state = "waiting" /\ job'[i] \in LooseJob
      BY <1>1, <2>2, <3>2 DEF LooseJob, Hash, States
    <3>4. Phased(i) /\ Phased(i)'
      BY <1>0, PhasesBefore, PhasesAfter
    <3> QED BY <3>1, <3>3, <3>4, HashExists DEF Phased, Same, OwnerOf, InState, Exists
  <2> QED BY <2>1, <2>2
<1> QED BY <1>1, <1>2, Stutters

\* What leaves the jobs, their leases and what they wait for alone is no step.
LEMMA OthersStutter ==
    ASSUME IInv, UNCHANGED <<job, locks, dependencies>>
    PROVE  UNCHANGED Jobs!vars
BY Untouching, Stutters

LEMMA ClientImplements ==
    ASSUME IInv, IInv', ClientStep
    PROVE  Jobs!Next \/ UNCHANGED Jobs!vars
<1>1. ASSUME NEW q \in Queues, NEW j \in Jids, NEW delayed \in Delays, NEW r \in RetryCounts,
             NEW D \in SUBSET Jids, delayed => dependencies[j] = {}, Put(q, j, delayed, r, D)
      PROVE  Jobs!Next
  <2>1. delayed \in BOOLEAN
    BY ClientsAssumption DEF ClientsAssumption
  <2> QED BY <1>1, <2>1, PutEnqueues
<1>2. ASSUME NEW q \in Queues, NEW n, Pause(q) \/ Unpause(q) \/ SetLimit(q, n)
      PROVE  UNCHANGED Jobs!vars
  BY <1>2, OthersStutter DEF Pause, Unpause, SetLimit, queueVars, depVars
<1> QED BY <1>1, <1>2, CancelRemoves, DependsOnReblocks, DependsOffReblocks, UnfailRevives,
           PeekStutters DEF ClientStep
-----------------------------------------------------------------------------
(* Calls by workers.                                                       *)

LEMMA PopHandsOut ==
    ASSUME IInv, IInv', NEW q \in Queues, NEW w \in Workers, NEW n, Pop(q, w, n)
    PROVE  Jobs!Next
<1>0. Typed /\ Typed' /\ Placement
  BY DEF IInv
<1>1. PICK reclaimed, promoted, taken \in SUBSET Jids :
        /\ reclaimed \subseteq Expired(q)
        /\ promoted \subseteq DueIn(q) \ Exhausted(reclaimed)
        /\ taken \subseteq (work[q] \ Exhausted(reclaimed)) \cup promoted
        /\ Assign(q, w, reclaimed, promoted, taken)
  BY <1>0, PopAssigns
<1>2. PICK out : out = Exhausted(reclaimed)
  OBVIOUS
<1>3. PICK keys : keys = (reclaimed \ out) \cup taken
  OBVIOUS
<1> DEFINE left(j) == IF j \in reclaimed THEN job[j].remaining - 1 ELSE job[j].remaining
<1>4. /\ \A j \in reclaimed \cup taken : Exists(j)
      /\ job' = [j \in Jids |->
             IF j \in keys THEN [job[j] EXCEPT !.state = "running", !.worker = w,
                                               !.remaining = left(j)]
             ELSE IF j \in out
             THEN [job[j] EXCEPT !.state = "failed", !.worker = NoWorker,
                                 !.remaining = left(j), !.group = RetryGroup(q)]
             ELSE job[j]]
      /\ locks' = Mark(Mark(locks, q, out, "none"), q, keys, "live")
      /\ UNCHANGED dependencies
  BY <1>1, <1>2, <1>3 DEF Assign, depVars
<1>5. /\ out \subseteq reclaimed /\ out \cap keys = {}
      /\ keys \in SUBSET Jids /\ out \in SUBSET Jids
  BY <1>1, <1>2, <1>3 DEF Exhausted
<1>6. \A p \in Queues, i \in Jids :
        locks'[p][i] = IF p = q /\ i \in keys THEN "live"
                       ELSE IF p = q /\ i \in out THEN "none" ELSE locks[p][i]
  <2>1. locks' = Mark(Mark(locks, q, out, "none"), q, keys, "live")
    BY <1>4
  <2> QED BY <2>1 DEF Mark
<1>7. ASSUME NEW i \in Jids, i \notin keys \cup out
      PROVE  Same(i)
  BY <1>4, <1>6, <1>7, Untouching
<1>8. ASSUME NEW i \in reclaimed
      PROVE  PhaseOf(i) = "lapsed"
  <2>1. Phased(i) /\ Placed(i) /\ locks[q][i] \in {"edge", "over"}
    BY <1>0, <1>1, PhasesBefore DEF Placement, Expired
  <2>2. Exists(i) /\ job[i].state = "running" /\ job[i].queue = q
    BY <2>1 DEF Placed, QueueOf
  <2> QED BY <2>1, <2>2 DEF Phased, InState
<1>9. ASSUME NEW i \in taken
      PROVE  PhaseOf(i) = "ready" /\ job[i].queue = q
  <2>1. Phased(i) /\ Placed(i) /\ (i \in work[q] \/ scheduled[q][i] = "due")
    BY <1>0, <1>1, PhasesBefore DEF Placement, DueIn
  <2>2. Exists(i) /\ job[i].state \in {"waiting", "scheduled"} /\ job[i].queue = q
    BY <2>1 DEF Placed, QueueOf
  <2> QED BY <2>1, <2>2 DEF Phased, InState
<1>10. ASSUME NEW i \in keys
       PROVE  PhaseOf(i)' = "live" /\ OwnerOf(i)' = w
  <2>1. Exists(i) /\ job[i] \in LooseJob /\ i \in Jids
    BY <1>0, <1>3, <1>4, <1>5, HashType
  <2>2. job[i].queue = q
    <3>1. i \in taken => job[i].queue = q
      BY <1>9
    <3>2. i \in reclaimed => job[i].queue = q
      BY <1>0, <1>1 DEF Placement, Placed, Expired, QueueOf, Exists
    <3> QED BY <1>3, <3>1, <3>2
  <2>3. job'[i] = [job[i] EXCEPT !.state = "running", !.worker = w, !.remaining = left(i)]
    BY <1>4, <2>1
  <2>4. left(i) \in Int
    BY <2>1 DEF LooseJob, Hash
  <2> HIDE DEF left
  <2>5. /\ job'[i].state = "running" /\ job'[i].worker = w /\ job'[i].queue = q
        /\ job'[i] \in LooseJob
    BY <2>1, <2>2, <2>3, <2>4 DEF LooseJob, Hash, States
  <2>6. InState(i, "running")' /\ locks'[q][i] = "live"
    BY <1>6, <2>1, <2>5, HashExists DEF InState, Exists
  <2>7. Phased(i)'
    BY <1>0, <2>1, PhasesAfter
  <2> QED BY <2>5, <2>6, <2>7 DEF Phased, OwnerOf
<1>11. ASSUME NEW i \in out
       PROVE  PhaseOf(i)' = "dead" /\ OwnerOf(i)' = NoWorker
  <2>1. Exists(i) /\ job[i] \in LooseJob /\ i \in Jids /\ i \notin keys
    BY <1>0, <1>4, <1>5, HashType
  <2>2. job'[i] = [job[i] EXCEPT !.state = "failed", !.worker = NoWorker,
                                 !.remaining = left(i), !.group = RetryGroup(q)]
    BY <1>4, <2>1
  <2>3. left(i) \in Int /\ RetryGroup(q) \in AllGroups
    BY <2>1, RetryGroupType DEF LooseJob, Hash
  <2> HIDE DEF left
  <2>4. job'[i].state = "failed" /\ job'[i] \in LooseJob
    BY <2>1, <2>2, <2>3 DEF LooseJob, Hash, States
  <2>5. InState(i, "failed")'
    BY <2>4, HashExists DEF InState, Exists
  <2>6. Phased(i)'
    BY <1>0, <2>1, PhasesAfter
  <2> QED BY <2>5, <2>6 DEF Phased, OwnerOf, InState
<1>12. /\ [j \in Jids |-> PhaseOf(j)]' = [j \in Jids |->
             IF j \in keys THEN "live" ELSE IF j \in out THEN "dead" ELSE PhaseOf(j)]
       /\ [j \in Jids |-> OwnerOf(j)]' = [j \in Jids |->
             IF j \in keys THEN w ELSE IF j \in out THEN NoWorker ELSE OwnerOf(j)]
  BY <1>7, <1>10, <1>11 DEF Same
<1>13. Jobs!HandOut(w, keys, out)
  BY <1>1, <1>3, <1>4, <1>5, <1>8, <1>9, <1>12 DEF Jobs!HandOut, Jobs!In, OwnerOf
<1> QED BY <1>5, <1>13 DEF Jobs!Next

LEMMA HeartbeatRenews ==
    ASSUME IInv, IInv', NEW j \in Jids, NEW w \in Workers, Heartbeat(j, w)
    PROVE  Jobs!Next
<1>0. Typed /\ Typed' /\ HolderCurrent
  BY DEF IInv
<1>1. /\ InState(j, "running") /\ job[j].queue \in Queues
      /\ QueueOf(j) = job[j].queue
  BY <1>0 DEF Heartbeat, HolderCurrent, Running, Typed, QueueOf, InState
<1>2. job' = job /\ dependencies' = dependencies /\ locks' = Mark(locks, job[j].queue, {j}, "live")
  BY <1>1 DEF Heartbeat, depVars
<1>3. ASSUME NEW i \in Jids, i # j
      PROVE  Same(i)
  BY <1>2, <1>3, MarkAt, Untouching
<1>4. PhaseOf(j) \in Jobs!Leased /\ PhaseOf(j)' = "live" /\ OwnerOf(j)' = OwnerOf(j)
  <2>1. Phased(j) /\ Phased(j)'
    BY <1>0, PhasesBefore, PhasesAfter
  <2>2. InState(j, "running")' /\ locks'[job[j].queue][j] = "live"
    BY <1>1, <1>2, MarkAt DEF InState, Exists
  <2> QED BY <1>1, <1>2, <2>1, <2>2 DEF Phased, Jobs!Leased, OwnerOf
<1>5. Jobs!Renew(j)
  BY <1>2, <1>3, <1>4 DEF Jobs!Renew, Jobs!In, Same, OwnerOf
<1> QED BY <1>5 DEF Jobs!Next

\* What both ends of complete do to the jobs that stay, and what they know of j.
LEMMA LeasedJob ==
    ASSUME IInv, NEW j \in Jids, InState(j, "running")
    PROVE  PhaseOf(j) \in Jobs!Leased /\ dependencies[j] = {} /\ job[j] \in LooseJob
<1>1. Phased(j) /\ job[j] \in LooseJob
  BY PhasesBefore, HashType DEF IInv, InState
<1>2. dependencies[j] = {}
  BY DEF IInv, NothingStranded, InState
<1> QED BY <1>1, <1>2 DEF Phased, Jobs!Leased

LEMMA FinishEndsLease ==
    ASSUME IInv, NEW j \in Jids, NEW w \in Workers, Finish(j, w, held[w][j])
    PROVE  /\ Exists(j) /\ InState(j, "running")
           /\ \A p \in Queues, i \in Jids : i # j => locks'[p][i] = locks[p][i]
BY FinishFacts DEF InState

LEMMA AdvanceEnqueues ==
    ASSUME IInv, IInv', NEW j \in Jids, NEW w \in Workers, NEW next \in Queues,
           NEW delayed \in BOOLEAN, NEW D \in SUBSET Jids, Advance(j, w, next, delayed, D)
    PROVE  Jobs!Next
<1> DEFINE waits == IF delayed THEN {} ELSE {d \in D : d = j \/ d \in Legit(D)}
<1>0. Typed /\ Typed'
  BY DEF IInv
<1>1. /\ Finish(j, w, held[w][j])
      /\ job' = [job EXCEPT ![j].state = IF waits # {} THEN "depends" ELSE "waiting",
                              ![j].queue = next, ![j].worker = NoWorker,
                              ![j].remaining = job[j].retries]
      /\ WaitOn(j, waits)
  BY DEF Advance
<1>2. waits \subseteq Legit(D) \cup {j}
  OBVIOUS
<1>3. PICK W \in SUBSET Jids : W = waits
  OBVIOUS
<1> HIDE DEF waits
<1>4. /\ Exists(j) /\ InState(j, "running")
      /\ \A p \in Queues, i \in Jids : i # j => locks'[p][i] = locks[p][i]
  BY <1>1, FinishEndsLease
<1>5. dependencies' = [dependencies EXCEPT ![j] = dependencies[j] \cup W]
  BY <1>0, <1>1, <1>3 DEF WaitOn, With, Typed
<1>6. dependencies[j] \cup W = W
  BY <1>4, LeasedJob
<1>7. InState(j, IF W = {} THEN "waiting" ELSE "depends")'
  <2>1. PICK s \in States : s = IF W = {} THEN "waiting" ELSE "depends"
    BY DEF States
  <2>2. job' = [job EXCEPT ![j].state = s, ![j].queue = next, ![j].worker = NoWorker,
                           ![j].remaining = job[j].retries]
    BY <1>1, <1>3, <2>1
  <2>3. job[j] \in LooseJob /\ job[j].retries \in Int
    BY <1>0, <1>4, HashType
  <2>4. job'[j].state = s /\ job'[j] \in LooseJob
    BY <1>0, <2>2, <2>3 DEF Typed, LooseJob, Hash
  <2> QED BY <2>1, <2>4, HashExists DEF InState, Exists
<1>8. /\ PhaseOf(j)' = IF W = {} THEN "ready" ELSE "blocked"
      /\ OwnerOf(j)' = NoWorker
  <2>1. Phased(j)'
    BY <1>0, PhasesAfter
  <2> QED BY <1>7, <2>1 DEF Phased, OwnerOf, InState
<1>9. ASSUME NEW i \in Jids, i # j
      PROVE  Same(i)
  <2>1. job'[i] = job[i]
    BY <1>0, <1>1, <1>9 DEF Typed
  <2>2. \A p \in Queues : locks'[p][i] = locks[p][i]
    BY <1>4, <1>9
  <2> QED BY <2>1, <2>2, Untouching
<1>10. Jobs!To({j}, IF W = {} THEN "ready" ELSE "blocked")
  BY <1>8, <1>9, MovesOne
<1>11. W \subseteq Jobs!Pending \cup {j}
  BY <1>2, <1>3, PendingJobs
<1>12. Jobs!Enqueue(j, W)
  BY <1>5, <1>6, <1>10, <1>11 DEF Jobs!Enqueue, Jobs!To
<1> QED BY <1>12 DEF Jobs!Next

LEMMA CompleteFinishes ==
    ASSUME IInv, IInv', NEW j \in Jids, NEW w \in Workers, Complete(j, w)
    PROVE  Jobs!Next
<1>0. /\ Typed /\ Typed' /\ DependencyInverse /\ NothingStranded /\ CompletedIndexed
  BY DEF IInv
<1> DEFINE Done == [job[j] EXCEPT !.state = "complete", !.queue = NoQueue,
                                  !.worker = NoWorker, !.remaining = job[j].retries]
<1>1. PICK old, freed \in SUBSET Jids :
        /\ old \subseteq completed /\ j \notin old
        /\ freed = FreedBy(j) \ old
        /\ job' = [d \in Jids |->
             IF d = j THEN Done
             ELSE IF d \in old THEN NoJob
             ELSE IF d \in freed THEN [job[d] EXCEPT !.state = "waiting"] ELSE job[d]]
  <2>1. PICK kept \in Histories(j) :
          job' = [d \in Jids |->
             IF d = j THEN Done
             ELSE IF d \in completed \ kept THEN NoJob
             ELSE IF d \in FreedBy(j) \ (completed \ kept) THEN [job[d] EXCEPT !.state = "waiting"]
             ELSE job[d]]
    BY DEF Complete
  <2>2. j \in kept
    BY DEF Histories
  <2>3. FreedBy(j) \in SUBSET Jids /\ completed \in SUBSET Jids
    BY <1>0 DEF FreedBy, Typed
  <2> HIDE DEF Done
  <2>4. PICK old, freed \in SUBSET Jids :
          old = completed \ kept /\ freed = FreedBy(j) \ (completed \ kept)
    BY <2>3
  <2> QED BY <2>1, <2>2, <2>4
<1>2. /\ Finish(j, w, held[w][j])
      /\ dependencies' = [d \in Jids |->
               IF d \in dependents[j] THEN dependencies[d] \ {j} ELSE dependencies[d]]
  BY DEF Complete
<1>3. /\ Exists(j) /\ InState(j, "running")
      /\ \A p \in Queues, i \in Jids : i # j => locks'[p][i] = locks[p][i]
  BY <1>2, FinishEndsLease
<1>4. /\ PhaseOf(j) \in Jobs!Leased /\ dependencies[j] = {}
      /\ job[j] \in LooseJob /\ job[j].retries \in Int
  BY <1>0, <1>3, LeasedJob, HashType
<1>5. PhaseOf(j)' = "done" /\ OwnerOf(j)' = NoWorker
  <2>1. job'[j] = Done
    BY <1>1
  <2>2. Done.state = "complete" /\ Done \in LooseJob
    BY <1>4 DEF LooseJob, Hash, States
  <2>3. InState(j, "complete")'
    BY <2>1, <2>2, HashExists DEF InState, Exists
  <2>4. Phased(j)'
    BY <1>0, PhasesAfter
  <2> QED BY <2>3, <2>4 DEF Phased, OwnerOf, InState
<1>6. ASSUME NEW d \in Jids, d # j
      PROVE  d \in freed <=> dependencies[d] = {j}
  <2>1. d \in dependents[j] <=> j \in dependencies[d]
    BY <1>0 DEF DependencyInverse
  <2>2. dependencies[d] # {} => Exists(d) /\ InState(d, "depends")
    BY <1>0 DEF NothingStranded, InState
  <2>3. dependencies[d] # {} => d \notin old
    BY <1>0, <1>1, <2>2 DEF CompletedIndexed, InState
  <2> QED BY <1>1, <2>1, <2>2, <2>3 DEF FreedBy
<1>7. ASSUME NEW d \in old
      PROVE  d \in Jids /\ d # j /\ PhaseOf(d) = "done" /\ PhaseOf(d)' = "absent"
             /\ OwnerOf(d) = NoWorker /\ OwnerOf(d)' = NoWorker
  <2>1. d \in Jids /\ d # j /\ InState(d, "complete")
    BY <1>0, <1>1 DEF CompletedIndexed
  <2>2. ~Exists(d)'
    BY <1>1, <2>1 DEF Exists
  <2>3. Phased(d)
    BY <1>0, <2>1, PhasesBefore
  <2> QED BY <2>1, <2>2, <2>3 DEF Phased, PhaseOf, OwnerOf, InState
<1>8. ASSUME NEW d \in Jids \ {j}, d \notin old, dependencies[d] = {j}
      PROVE  PhaseOf(d)' = "ready" /\ OwnerOf(d) = NoWorker /\ OwnerOf(d)' = NoWorker
  <2>1. InState(d, "depends") /\ job[d] \in LooseJob
    BY <1>0, <1>8, HashType DEF NothingStranded, InState
  <2>2. job'[d] = [job[d] EXCEPT !.state = "waiting"]
    BY <1>1, <1>6, <1>8
  <2>3. job'[d].state = "waiting" /\ job'[d] \in LooseJob
    BY <2>1, <2>2 DEF LooseJob, Hash, States
  <2>4. InState(d, "waiting")'
    BY <2>3, HashExists DEF InState, Exists
  <2>5. Phased(d)'
    BY <1>0, PhasesAfter
  <2> QED BY <2>1, <2>4, <2>5 DEF Phased, OwnerOf, InState
<1>9. ASSUME NEW d \in Jids \ {j}, d \notin old, dependencies[d] # {j}
      PROVE  Same(d)
  <2>1. job'[d] = job[d]
    BY <1>1, <1>6, <1>9
  <2> QED BY <1>3, <2>1, Untouching
<1> HIDE DEF Done
<1>10. [d \in Jids |-> PhaseOf(d)]' = [d \in Jids |->
            IF d = j THEN "done" ELSE IF d \in old THEN "absent"
            ELSE IF dependencies[d] = {j} THEN "ready" ELSE PhaseOf(d)]
  BY <1>5, <1>7, <1>8, <1>9 DEF Same
<1>11. \A d \in Jids : OwnerOf(d)' = IF d = j THEN NoWorker ELSE OwnerOf(d)
  BY <1>5, <1>7, <1>8, <1>9 DEF Same
<1>12. dependencies' = [d \in Jids |-> dependencies[d] \ {j}]
  <2>1. \A d \in Jids : d \in dependents[j] <=> j \in dependencies[d]
    BY <1>0 DEF DependencyInverse
  <2> QED BY <1>2, <2>1
<1>13. old \subseteq Jobs!In({"done"}) /\ j \in Jobs!In(Jobs!Leased)
  BY <1>4, <1>7 DEF Jobs!In
<1>14. Jobs!Finish(j, old)
  BY <1>10, <1>11, <1>12, <1>13 DEF Jobs!Finish, OwnerOf
<1> QED BY <1>1, <1>14 DEF Jobs!Next

LEMMA FailGivesBack ==
    ASSUME IInv, IInv', NEW j \in Jids, NEW w \in Workers, NEW g \in Groups, Fail(j, w, g)
    PROVE  Jobs!Next
<1>0. Typed /\ Typed'
  BY DEF IInv
<1>1. /\ InState(j, "running")
      /\ job' = [job EXCEPT ![j].state = "failed", ![j].worker = NoWorker, ![j].group = g]
      /\ locks' = Mark(locks, QueueOf(j), {j}, "none")
      /\ UNCHANGED dependencies
  BY DEF Fail, depVars
<1>2. PhaseOf(j) \in Jobs!Leased /\ job[j] \in LooseJob
  BY <1>1, LeasedJob
<1>3. PhaseOf(j)' = "dead" /\ OwnerOf(j)' = NoWorker
  <2>1. job'[j].state = "failed" /\ job'[j] \in LooseJob
    BY <1>0, <1>1, <1>2 DEF Typed, LooseJob, Hash, States, AllGroups
  <2>2. InState(j, "failed")'
    BY <2>1, HashExists DEF InState, Exists
  <2>3. Phased(j)'
    BY <1>0, PhasesAfter
  <2> QED BY <2>2, <2>3 DEF Phased, OwnerOf, InState
<1>4. ASSUME NEW i \in Jids, i # j
      PROVE  Same(i)
  <2>1. job'[i] = job[i]
    BY <1>0, <1>1, <1>4 DEF Typed
  <2>2. \A p \in Queues : locks'[p][i] = locks[p][i]
    BY <1>1, <1>4, MarkAt
  <2> QED BY <2>1, <2>2, Untouching
<1>5. Jobs!To({j}, "dead")
  BY <1>3, <1>4, MovesOne
<1>6. Jobs!GiveBack(j)
  BY <1>1, <1>2, <1>5 DEF Jobs!GiveBack, Jobs!In
<1> QED BY <1>6 DEF Jobs!Next

LEMMA RetryGivesBack ==
    ASSUME IInv, IInv', NEW j \in Jids, NEW w \in Workers, NEW delayed \in BOOLEAN,
           Retry(j, w, delayed)
    PROVE  Jobs!Next
<1> DEFINE out == j \in Exhausted({j})
<1>0. Typed /\ Typed'
  BY DEF IInv
<1>1. InState(j, "running") /\ dependencies' = dependencies
      /\ locks' = Mark(locks, job[j].queue, {j}, "none")
  BY DEF Retry, Running, depVars
<1>2. PICK s : s = IF out THEN "failed" ELSE IF delayed THEN "scheduled" ELSE "waiting"
  OBVIOUS
<1>3. PICK v : v = IF out THEN NoWorker ELSE job[j].worker
  OBVIOUS
<1>4. PICK n, g :
        /\ job' = [job EXCEPT ![j].state = s, ![j].worker = v, ![j].remaining = n, ![j].group = g]
        /\ n = job[j].remaining - 1
        /\ g = IF out THEN RetryGroup(held[w][j]) ELSE job[j].group
  <2>1. job' = [job EXCEPT ![j].state = s, ![j].worker = v,
                           ![j].remaining = job[j].remaining - 1,
                           ![j].group = IF out THEN RetryGroup(held[w][j]) ELSE job[j].group]
    BY <1>2, <1>3 DEF Retry
  <2> QED BY <2>1
<1> HIDE DEF out
<1>5. PhaseOf(j) \in Jobs!Leased /\ job[j] \in LooseJob
  BY <1>1, LeasedJob
<1>6. job'[j].state = s
  BY <1>0, <1>4, <1>5 DEF Typed, LooseJob, Hash
<1>7. ASSUME NEW i \in Jids, i # j
      PROVE  Same(i)
  <2>1. job'[i] = job[i]
    BY <1>0, <1>4, <1>7 DEF Typed
  <2>2. \A p \in Queues : locks'[p][i] = locks[p][i]
    BY <1>1, <1>7, MarkAt
  <2> QED BY <2>1, <2>2, Untouching
<1>8. Exists(j)'
  <2>1. held[w][j] \in Queues
    BY <1>0 DEF Retry, Typed
  <2>2. /\ s \in States /\ v \in Workers \cup {NoWorker}
        /\ n \in Int /\ g \in AllGroups \cup {NoGroup}
    BY <1>2, <1>3, <1>4, <1>5, <2>1, RetryGroupType DEF LooseJob, Hash, States
  <2>3. job'[j] = [job[j] EXCEPT !.state = s, !.worker = v, !.remaining = n, !.group = g]
    BY <1>0, <1>4, <1>5 DEF Typed, LooseJob, Hash
  <2>4. [job[j] EXCEPT !.state = s, !.worker = v, !.remaining = n, !.group = g] \in LooseJob
    BY <1>5, <2>2 DEF LooseJob, Hash
  <2> QED BY <2>3, <2>4, HashExists DEF Exists
<1>9. /\ PhaseOf(j)' = IF s = "failed" THEN "dead" ELSE "ready"
      /\ OwnerOf(j)' = NoWorker
  <2>1. Phased(j)'
    BY <1>0, PhasesAfter
  <2>2. s \in {"failed", "scheduled", "waiting"}
    BY <1>2
  <2> QED BY <1>6, <1>8, <2>1, <2>2 DEF Phased, OwnerOf, InState
<1>10. Jobs!To({j}, "ready") \/ Jobs!To({j}, "dead")
  <2>1. CASE s = "failed"
    BY <1>7, <1>9, <2>1, MovesOne
  <2>2. CASE s # "failed"
    BY <1>7, <1>9, <2>2, MovesOne
  <2> QED BY <2>1, <2>2
<1>11. Jobs!GiveBack(j)
  BY <1>1, <1>5, <1>10 DEF Jobs!GiveBack, Jobs!In
<1> QED BY <1>11 DEF Jobs!Next
-----------------------------------------------------------------------------
(* The environment.                                                        *)

LEMMA LapseLapses ==
    ASSUME IInv, IInv', NEW q \in Queues, NEW j \in Jids, Lapse(q, j)
    PROVE  Jobs!Next \/ UNCHANGED Jobs!vars
<1>0. Typed /\ Typed' /\ Placement
  BY DEF IInv
<1>1. /\ locks[q][j] \in {"live", "edge"}
      /\ locks' = Mark(locks, q, {j}, IF locks[q][j] = "live" THEN "edge" ELSE "over")
      /\ UNCHANGED <<job, dependencies>>
  BY DEF Lapse, depVars
<1>2. \A p \in Queues, i \in Jids :
        locks'[p][i] = IF p = q /\ i = j THEN IF locks[q][j] = "live" THEN "edge" ELSE "over"
                       ELSE locks[p][i]
  BY <1>1 DEF Mark
<1>3. ASSUME NEW i \in Jids, i # j
      PROVE  Same(i)
  BY <1>1, <1>2, <1>3, Untouching
<1>4. CASE locks[q][j] = "edge"
  <2>1. Same(j)
    BY <1>1, <1>2, <1>4, Untouching
  <2> QED BY <1>1, <1>3, <2>1, Stutters
<1>5. CASE locks[q][j] = "live"
  <2>1. InState(j, "running") /\ job[j].queue = q
    BY <1>0, <1>5 DEF Placement, Placed, InState, QueueOf
  <2>2. InState(j, "running")' /\ locks'[q][j] # "live" /\ OwnerOf(j)' = OwnerOf(j)
    BY <1>1, <1>2, <1>5, <2>1 DEF InState, Exists, OwnerOf
  <2>3. Phased(j) /\ Phased(j)'
    BY <1>0, PhasesBefore, PhasesAfter
  <2>4. PhaseOf(j) = "live" /\ PhaseOf(j)' = "lapsed"
    BY <1>1, <1>5, <2>1, <2>2, <2>3 DEF Phased
  <2>5. Jobs!Lapse(j)
    BY <1>1, <1>3, <2>2, <2>4 DEF Jobs!Lapse, Jobs!In, Same, OwnerOf
  <2> QED BY <2>5 DEF Jobs!Next
<1> QED BY <1>1, <1>4, <1>5

LEMMA WorkerImplements ==
    ASSUME IInv, IInv', WorkerStep
    PROVE  Jobs!Next \/ UNCHANGED Jobs!vars
<1>1. ASSUME NEW j \in Jids, NEW w \in Workers, Refused(j, w)
      PROVE  UNCHANGED Jobs!vars
  BY <1>1, OthersStutter DEF Refused, queueVars, depVars
<1>2. Delays \subseteq BOOLEAN
  BY ClientsAssumption DEF ClientsAssumption
<1> QED BY <1>1, <1>2, PopHandsOut, HeartbeatRenews, CompleteFinishes, AdvanceEnqueues,
           FailGivesBack, RetryGivesBack DEF WorkerStep

LEMMA EnvironmentImplements ==
    ASSUME IInv, IInv', EnvironmentStep
    PROVE  Jobs!Next \/ UNCHANGED Jobs!vars
<1>1. ASSUME NEW w \in Workers, Crash(w)
      PROVE  UNCHANGED Jobs!vars
  BY <1>1, OthersStutter DEF Crash, queueVars, depVars
<1>2. ASSUME NEW q \in Queues, NEW j \in Jids, ComeDue(q, j)
      PROVE  UNCHANGED Jobs!vars
  BY <1>2, OthersStutter DEF ComeDue, depVars
<1> QED BY <1>1, <1>2, LapseLapses DEF EnvironmentStep

LEMMA InitImplements ==
    ASSUME Init
    PROVE  Jobs!Init
<1>1. \A j \in Jids : ~Exists(j)
  BY DEF Init, Exists
<1>2. dependencies = [j \in Jids |-> {}]
  BY DEF Init
<1> QED BY <1>1, <1>2 DEF Jobs!Init, PhaseOf, InState

\* The scripts implement the abstract specification of a job queue: leases exclude each
\* other until they lapse, a job becomes ready exactly when what blocked it is done or was
\* taken off, jobs leave only together with what waits for them, and nothing else happens.
THEOREM PromisesKept == Spec => KeepsPromises
<1>1. Init => Jobs!Init
  BY InitImplements
<1>2. IInv /\ IInv' /\ [Next]_vars => [Jobs!Next]_(Jobs!vars)
  <2> SUFFICES ASSUME IInv, IInv', [Next]_vars
               PROVE  Jobs!Next \/ UNCHANGED Jobs!vars
    OBVIOUS
  <2>1. CASE UNCHANGED vars
    BY <2>1, OthersStutter DEF vars, queueVars, depVars
  <2> QED BY <2>1, ClientImplements, WorkerImplements, EnvironmentImplements DEF Next
<1> QED BY <1>1, <1>2, InvariantKept, PTL DEF Spec, KeepsPromises, Jobs!Spec
=============================================================================
