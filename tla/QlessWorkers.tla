----------------------------- MODULE QlessWorkers -----------------------------
(***************************************************************************)
(* What qless knows of its workers: ql:workers has the time of each one's  *)
(* last pop, ql:w:<worker>:jobs its jobs by the end of their leases.  The  *)
(* workers script answers from both, and deletes the job sets of workers   *)
(* that it takes for gone.  Of a job only its worker and lease matter.     *)
(***************************************************************************)
EXTENDS Integers

CONSTANTS
    Workers,
    Tasks,          \* jids
    LeaseTime,      \* config heartbeat
    MaxAge,         \* config max-worker-age
    Latest,         \* bound on the clock
    NoWorker

ASSUME WorkersAssumption ==
    /\ LeaseTime \in Nat \ {0} /\ MaxAge \in Nat \ {0} /\ Latest \in Nat \ {0}
    /\ NoWorker \notin Workers

VARIABLES
    clock,          \* external: the time that callers pass
    worker,         \* the worker in each ql:j:<jid>
    expires,        \* the end of each lease: the score of the job in -locks, or 0
    listed,         \* ql:w:<worker>:jobs: the score of each job, or 0
    seen,           \* ql:workers: the score of each worker, or 0
    holds,          \* external: the jobs that each process thinks it has
    popped,         \* for the properties: the time of each worker's last pop,
    quiet,          \* the jobs whose worker was without a pop for MaxAge since their renewal,
    disowned        \* and the jobs that somebody failed in place of their worker

workersVars == <<clock, worker, expires, listed, seen, holds, popped, quiet, disowned>>

Stamps == 0 .. Latest + LeaseTime

WorkersTypeOK ==
    /\ clock \in 1 .. Latest
    /\ worker \in [Tasks -> Workers \cup {NoWorker}]
    /\ expires \in [Tasks -> Stamps]
    /\ listed \in [Workers -> [Tasks -> Stamps]]
    /\ {seen, popped} \subseteq [Workers -> 0 .. Latest]
    /\ holds \in [Workers -> SUBSET Tasks]
    /\ quiet \in SUBSET Tasks
    /\ disowned \in SUBSET (Workers \X Tasks)

WorkersInit ==
    /\ clock = 1
    /\ worker = [j \in Tasks |-> NoWorker]
    /\ expires = [j \in Tasks |-> 0]
    /\ listed = [w \in Workers |-> [j \in Tasks |-> 0]]
    /\ seen = [w \in Workers |-> 0]
    /\ holds = [w \in Workers |-> {}]
    /\ popped = [w \in Workers |-> 0]
    /\ quiet = {} /\ disowned = {}

IsRunning(j) == expires[j] # 0
Silent(w, t) == t - popped[w] >= MaxAge

\* zrem of the jobs in S from the set of v.
Struck(v, S) == [w \in Workers |-> [j \in Tasks |-> IF w = v /\ j \in S THEN 0 ELSE listed[w][j]]]
-----------------------------------------------------------------------------
\* pop: the jobs in lost leave the sets of their workers, those in out for good; w gets the
\* rest of them and fresh jobs, or nothing, as when the queue is paused.
WorkerPops(w, lost, out, fresh) ==
    LET keys == (lost \ out) \cup fresh
        end == clock + LeaseTime
    IN  /\ \A j \in lost : IsRunning(j) /\ expires[j] <= clock
        /\ \A j \in fresh : ~IsRunning(j)
        /\ seen' = [seen EXCEPT ![w] = clock]
        /\ popped' = [popped EXCEPT ![w] = clock]
        /\ worker' = [j \in Tasks |-> IF j \in keys THEN w
                                      ELSE IF j \in out THEN NoWorker ELSE worker[j]]
        /\ expires' = [j \in Tasks |-> IF j \in keys THEN end
                                       ELSE IF j \in out THEN 0 ELSE expires[j]]
        /\ listed' = [v \in Workers |-> [j \in Tasks |->
                        IF v = w /\ j \in keys THEN end
                        ELSE IF j \in lost /\ worker[j] = v THEN 0 ELSE listed[v][j]]]
        /\ holds' = [holds EXCEPT ![w] = @ \cup keys]
        /\ quiet' = quiet \ (keys \cup out)
        /\ disowned' = disowned \ ({w} \X keys)
        /\ UNCHANGED clock

\* Mutant of Renews: the lease is renewed, and the worker's set is not told.
RenewsLease(w, j) ==
    /\ j \in holds[w] /\ worker[j] = w
    /\ expires' = [expires EXCEPT ![j] = clock + LeaseTime]
    /\ quiet' = IF Silent(w, clock) THEN quiet \cup {j} ELSE quiet \ {j}
    /\ UNCHANGED <<clock, worker, listed, seen, holds, popped, disowned>>

\* heartbeat: the set of the worker and the lease get one score; ql:workers gets none.
Renews(w, j) ==
    /\ j \in holds[w] /\ worker[j] = w
    /\ expires' = [expires EXCEPT ![j] = clock + LeaseTime]
    /\ listed' = [listed EXCEPT ![w][j] = clock + LeaseTime]
    /\ quiet' = IF Silent(w, clock) THEN quiet \cup {j} ELSE quiet \ {j}
    /\ UNCHANGED <<clock, worker, seen, holds, popped, disowned>>

\* complete, or retry, which leaves the worker in the hash if the job may run again.
Ends(w, j, stays) ==
    /\ j \in holds[w] /\ worker[j] = w
    /\ worker' = IF stays THEN worker ELSE [worker EXCEPT ![j] = NoWorker]
    /\ expires' = [expires EXCEPT ![j] = 0]
    /\ listed' = Struck(w, {j})
    /\ holds' = [holds EXCEPT ![w] = @ \ {j}]
    /\ quiet' = quiet \ {j}
    /\ UNCHANGED <<clock, seen, popped, disowned>>

\* fail, by a process that has the job or had it: the set it leaves is the caller's.
Fails(w, j) ==
    /\ j \in holds[w] /\ IsRunning(j)
    /\ worker' = [worker EXCEPT ![j] = NoWorker]
    /\ expires' = [expires EXCEPT ![j] = 0]
    /\ listed' = Struck(w, {j})
    /\ holds' = [holds EXCEPT ![w] = @ \ {j}]
    /\ quiet' = quiet \ {j}
    /\ disowned' = IF worker[j] = w THEN disowned ELSE disowned \cup {<<worker[j], j>>}
    /\ UNCHANGED <<clock, seen, popped>>

\* put and cancel: whoever had the job loses it.
Withdraws(j) ==
    /\ worker' = [worker EXCEPT ![j] = NoWorker]
    /\ expires' = [expires EXCEPT ![j] = 0]
    /\ listed' = Struck(worker[j], {j})
    /\ quiet' = quiet \ {j}
    /\ UNCHANGED <<clock, seen, holds, popped, disowned>>

\* A process that is refused gives the job up; one that dies forgets all.
GivesUp(w, S) ==
    /\ S # {} /\ (S = holds[w] \/ \E j \in holds[w] : worker[j] # w /\ S = {j})
    /\ holds' = [holds EXCEPT ![w] = @ \ S]
    /\ UNCHANGED <<clock, worker, expires, listed, seen, popped, quiet, disowned>>

\* zrangebyscore 0 now - interval
Gone == {w \in Workers : seen[w] > 0 /\ seen[w] <= clock - MaxAge}

\* workers: whoever it takes for gone loses the set and is not known any more.
ListWorkers ==
    /\ Gone # {}
    /\ listed' = [w \in Workers |-> IF w \in Gone THEN [j \in Tasks |-> 0] ELSE listed[w]]
    /\ seen' = [w \in Workers |-> IF w \in Gone THEN 0 ELSE seen[w]]
    /\ UNCHANGED <<clock, worker, expires, holds, popped, quiet, disowned>>

\* deregister_workers: the sets stay.
Deregister(w) ==
    /\ seen[w] > 0
    /\ seen' = [seen EXCEPT ![w] = 0]
    /\ UNCHANGED <<clock, worker, expires, listed, holds, popped, quiet, disowned>>

ClockTicks ==
    /\ clock < Latest
    /\ clock' = clock + 1
    /\ quiet' = quiet \cup {j \in Tasks : IsRunning(j) /\ Silent(worker[j], clock')}
    /\ UNCHANGED <<worker, expires, listed, seen, holds, popped, disowned>>

WorkersNext ==
    \/ \E w \in Workers, lost, fresh \in SUBSET Tasks : \E out \in SUBSET lost :
          WorkerPops(w, lost, out, fresh)
    \/ \E w \in Workers, j \in Tasks :
          \/ Renews(w, j) \/ Fails(w, j)
          \/ \E stays \in BOOLEAN : Ends(w, j, stays)
    \/ \E j \in Tasks : Withdraws(j)
    \/ \E w \in Workers, S \in SUBSET Tasks : GivesUp(w, S)
    \/ ListWorkers
    \/ \E w \in Workers : Deregister(w)
    \/ ClockTicks

WorkersSpec == WorkersInit /\ [][WorkersNext]_workersVars
-----------------------------------------------------------------------------
\* The workers script answers right: each running job is in the set of its worker under the
\* end of its lease, unless the worker, renewing it or not, let max-worker-age pass without a
\* pop; and no set has other jobs, but those that a former worker failed.
WorkersAnswer ==
    \A w \in Workers, j \in Tasks :
      /\ IsRunning(j) /\ worker[j] = w /\ j \notin quiet => listed[w][j] = expires[j]
      /\ listed[w][j] # 0 => (IsRunning(j) /\ worker[j] = w) \/ <<w, j>> \in disowned
=============================================================================
