------------------------------- MODULE Qless -------------------------------
(***************************************************************************)
(* The job queue of seomoz/qless-core.  Every Lua script of that project   *)
(* runs inside Redis as one atomic step, so each is one action here; what  *)
(* interleaves is the order in which clients and workers call them, the    *)
(* expiry of leases, and workers that die holding jobs.                    *)
(*                                                                         *)
(* Abstractions.  Time: a lease is live, on the edge (its score equals     *)
(* now) or over, a scheduled job waits or is due, and time passing is an   *)
(* action.  Order: pop takes any members of a sorted set, not the first    *)
(* ones.  User data, tags, history, statistics and notifications are left  *)
(* out.                                                                    *)
(***************************************************************************)
EXTENDS Integers, FiniteSets

CONSTANTS
    Jids, Queues, Workers,
    Groups,         \* the failure groups a worker may name in fail
    RetryCounts,    \* the values of put's "retries" option
    Delays,         \* subset of BOOLEAN: may put, complete and retry pass a delay?
    PopCounts,      \* how many jobs a pop, peek or unfail may ask for
    InitLimits,     \* the max-concurrency settings a queue may start with
    NewLimits,      \* the ones it may be given later; 0 is "no limit"
    HistoryCount,   \* config jobs-history-count
    MayWait,        \* MayWait[j]: the jids clients name as dependencies of j
    NoJob, NoQueue, NoWorker, NoGroup

\* The group pop.lua:79 and retry.lua:43 invent for a job out of retries.
RetryGroup(q) == <<"failed-retries", q>>
AllGroups == Groups \cup {RetryGroup(q) : q \in Queues}

States == {"waiting", "scheduled", "depends", "running", "complete", "failed"}
Lease == {"none", "live", "edge", "over"}
Due   == {"none", "wait", "due"}

\* The fields of a job's hash; group is that of its failure, while the job is failed.
Hash(Counts) ==
    [state : States, queue : Queues \cup {NoQueue}, worker : Workers \cup {NoWorker},
     retries : Nat, remaining : Counts, group : AllGroups \cup {NoGroup}]
Job == Hash(Nat \cup {-1})

ASSUME NullsAssumption ==
    /\ NoJob \notin Hash(Int)
    /\ NoQueue \notin Queues
    /\ NoWorker \notin Workers
    /\ NoGroup \notin AllGroups

ASSUME NumbersAssumption ==
    /\ RetryCounts \subseteq Nat
    /\ PopCounts \subseteq Nat \ {0}
    /\ InitLimits \subseteq Nat
    /\ NewLimits \subseteq Nat
    /\ HistoryCount \in Nat \ {0}

ASSUME ClientsAssumption ==
    /\ Delays \subseteq BOOLEAN
    /\ MayWait \in [Jids -> SUBSET Jids]
    /\ IsFiniteSet(Jids)

VARIABLES
    job,            \* ql:j:<jid>, or NoJob when the hash does not exist
    work,           \* ql:q:<q>-work
    locks,          \* ql:q:<q>-locks: how far each lease has run
    scheduled,      \* ql:q:<q>-scheduled: whether each delay has passed
    depends,        \* ql:q:<q>-depends
    workerJobs,     \* ql:w:<worker>:jobs
    dependents,     \* ql:j:<jid>-dependents
    dependencies,   \* ql:j:<jid>-dependencies
    completed,      \* ql:completed
    failed,         \* ql:f:<group>
    failures,       \* ql:failures
    paused,         \* ql:paused_queues
    limit,          \* ql:config <q>-max-concurrency
    held            \* external: held[w][j] is the queue process w popped j from

queueVars == <<work, locks, scheduled, depends>>
depVars   == <<dependents, dependencies>>
failVars  == <<failed, failures>>
confVars  == <<paused, limit>>
vars == <<job, queueVars, workerJobs, depVars, completed, failVars, confVars, held>>

TypeOK ==
    /\ job \in [Jids -> Job \cup {NoJob}]
    /\ work \in [Queues -> SUBSET Jids]
    /\ locks \in [Queues -> [Jids -> Lease]]
    /\ scheduled \in [Queues -> [Jids -> Due]]
    /\ depends \in [Queues -> SUBSET Jids]
    /\ workerJobs \in [Workers -> SUBSET Jids]
    /\ dependents \in [Jids -> SUBSET Jids]
    /\ dependencies \in [Jids -> SUBSET Jids]
    /\ completed \in SUBSET Jids
    /\ failed \in [AllGroups -> SUBSET Jids]
    /\ failures \in SUBSET AllGroups
    /\ paused \in SUBSET Queues
    /\ limit \in [Queues -> Nat]
    /\ held \in [Workers -> [Jids -> Queues \cup {NoQueue}]]

Init ==
    /\ job = [j \in Jids |-> NoJob]
    /\ work = [q \in Queues |-> {}]
    /\ locks = [q \in Queues |-> [j \in Jids |-> "none"]]
    /\ scheduled = [q \in Queues |-> [j \in Jids |-> "none"]]
    /\ depends = [q \in Queues |-> {}]
    /\ workerJobs = [w \in Workers |-> {}]
    /\ dependents = [j \in Jids |-> {}]
    /\ dependencies = [j \in Jids |-> {}]
    /\ completed = {}
    /\ failed = [g \in AllGroups |-> {}]
    /\ failures = {}
    /\ paused = {}
    /\ limit \in [Queues -> InitLimits]
    /\ held = [w \in Workers |-> [j \in Jids |-> NoQueue]]

-----------------------------------------------------------------------------
(* Redis commands on the families of sets above.                           *)

\* zrem, srem: S leaves f[k]; nothing happens when k names no set.
Without(f, k, S) == [x \in DOMAIN f |-> IF x = k THEN f[x] \ S ELSE f[x]]

\* zadd, sadd: S joins f[k].
With(f, k, S) == [x \in DOMAIN f |-> IF x = k THEN f[x] \cup S ELSE f[x]]

\* zadd and zrem ("none") on the sorted sets whose scores matter.
Mark(f, q, S, v) ==
    [x \in Queues |-> [j \in Jids |-> IF x = q /\ j \in S THEN v ELSE f[x][j]]]

\* What a LIMIT of n lets through of S: all of it when n is negative.
Some(n, S) ==
    IF n < 0 THEN {S}
    ELSE {T \in SUBSET S : Cardinality(T) = IF n < Cardinality(S) THEN n ELSE Cardinality(S)}

\* Mutant of Expired: every lease counts as expired.
ExpiredAll(q) == {j \in Jids : locks[q][j] # "none"}

\* zrangebyscore 0 now: the leases that ran out, and the jobs whose delay passed.
Expired(q) == {j \in Jids : locks[q][j] \in {"edge", "over"}}
DueIn(q) == {j \in Jids : scheduled[q][j] = "due"}

Exists(j) == job[j] # NoJob
InState(j, s) == Exists(j) /\ job[j].state = s
QueueOf(j) == IF Exists(j) THEN job[j].queue ELSE NoQueue
WorkerOf(j) == IF Exists(j) THEN job[j].worker ELSE NoWorker
Running(j, w) == InState(j, "running") /\ job[j].worker = w

\* Mutants of Exhausted: one attempt too many, one too few.
ExhaustedLate(S) == {j \in S : Exists(j) /\ job[j].remaining - 1 < -1}
ExhaustedEarly(S) == {j \in S : Exists(j) /\ job[j].remaining - 1 <= 0}

\* The jobs of S whose count of remaining retries falls below zero when it is lowered.
Exhausted(S) == {j \in S : Exists(j) /\ job[j].remaining - 1 < 0}

\* "These are the jids we legitimately have to wait on" (put.lua:134-142).
Legit(D) == {d \in D : Exists(d) /\ ~InState(d, "complete")}

\* Mutant of WaitOn: only one of the two sets is written.
WaitOnOneSided(j, D) ==
    /\ dependencies' = With(dependencies, j, D)
    /\ UNCHANGED dependents

\* sadd of j to the dependents of every member of D, and of D to its dependencies.
WaitOn(j, D) ==
    /\ dependents' = [d \in Jids |-> IF d \in D THEN dependents[d] \cup {j} ELSE dependents[d]]
    /\ dependencies' = With(dependencies, j, D)

\* Mutant of Unlist: the index of groups is not looked at.
UnlistOnly(g, S) ==
    /\ failed' = Without(failed, g, S)
    /\ UNCHANGED failures

\* The failed list loses S, and so does the index of groups when a list empties.
Unlist(g, S) ==
    /\ failed' = Without(failed, g, S)
    /\ failures' = IF g \in AllGroups /\ failed[g] \ S = {} THEN failures \ {g} ELSE failures

\* S joins the failed list of group g.
List(g, S) ==
    /\ failed' = With(failed, g, S)
    /\ failures' = IF S = {} THEN failures ELSE failures \cup {g}

\* The client process w no longer thinks it has j.
Forget(w, j) == held' = [held EXCEPT ![w][j] = NoQueue]
-----------------------------------------------------------------------------
(* Calls by any client.                                                    *)

\* Mutant of NewHash: the worker stays.
NewHashOwned(j, s, q, r) ==
    [state |-> s, queue |-> q, worker |-> WorkerOf(j), retries |-> r, remaining |-> r,
     group |-> NoGroup]

\* What put writes over j's hash.
NewHash(j, s, q, r) ==
    [state |-> s, queue |-> q, worker |-> NoWorker, retries |-> r, remaining |-> r,
     group |-> NoGroup]

\* put: create j in q, or move it there from wherever it is.  A delay and new
\* dependencies exclude each other (put.lua:53); with a delay, dependencies j
\* already has stay (put.lua:147).
Put(q, j, delayed, r, D) ==
    LET waits == IF delayed THEN {} ELSE {d \in D : d = j \/ d \in Legit(D)}
        state == IF delayed THEN "scheduled"
                 ELSE IF dependencies[j] \cup waits # {} THEN "depends" ELSE "waiting"
        old   == QueueOf(j)
        into(s) == IF state = s THEN {j} ELSE {}
    IN  /\ delayed => D = {}
        /\ job' = [job EXCEPT ![j] = NewHash(j, state, q, r)]
        /\ WaitOn(j, waits)
        /\ work' = With(Without(work, old, {j}), q, into("waiting"))
        /\ locks' = Mark(locks, old, {j}, "none")
        /\ scheduled' = Mark(Mark(scheduled, old, {j}, "none"), q, into("scheduled"), "wait")
        /\ depends' = With(Without(depends, old, {j}), q, into("depends"))
        /\ workerJobs' = Without(workerJobs, WorkerOf(j), {j})
        /\ completed' = IF InState(j, "complete") THEN completed \ {j} ELSE completed
        /\ IF InState(j, "failed") THEN Unlist(job[j].group, {j}) ELSE UNCHANGED failVars
        /\ UNCHANGED <<confVars, held>>

\* Jobs the recursion of cancel.lua:12 can be through with when it was given S: their
\* dependents are among them, or complete and in S, and no cycle joins them.
Cancellable(D, S) ==
    /\ \A j \in D : dependents[j] \subseteq D \cup {d \in S : InState(d, "complete")}
    /\ \A C \in SUBSET D : C # {} => \E j \in C : dependents[j] \cap C = {}

\* cancel: with all of S cancellable, delete it.  A dependent missing from S, or a
\* cycle, raises an error half-way: what the recursion finished before stays done.
Cancel(S) ==
    LET todo == {j \in S : ~InState(j, "complete")}
    IN  \E D \in SUBSET todo :
          /\ IF Cancellable(todo, S) THEN D = todo ELSE Cancellable(D, S)
          /\ job' = [j \in Jids |-> IF j \in D THEN NoJob ELSE job[j]]
          /\ work' = [q \in Queues |-> work[q] \ {j \in D : QueueOf(j) = q}]
          /\ locks' = [q \in Queues |-> [j \in Jids |->
                         IF j \in D /\ QueueOf(j) = q THEN "none" ELSE locks[q][j]]]
          /\ scheduled' = [q \in Queues |-> [j \in Jids |->
                         IF j \in D /\ QueueOf(j) = q THEN "none" ELSE scheduled[q][j]]]
          /\ depends' = [q \in Queues |-> depends[q] \ {j \in D : QueueOf(j) = q}]
          /\ workerJobs' = [w \in Workers |-> workerJobs[w] \ {j \in D : WorkerOf(j) = w}]
          /\ dependents' = [d \in Jids |-> dependents[d] \ {j \in D : d \in dependencies[j]}]
          /\ dependencies' = [j \in Jids |-> IF j \in D THEN {} ELSE dependencies[j]]
          /\ LET unlisted(g) == {j \in D : InState(j, "failed") /\ job[j].group = g}
             IN  /\ failed' = [g \in AllGroups |-> failed[g] \ unlisted(g)]
                 /\ failures' = {g \in failures : unlisted(g) # {} => failed'[g] # {}}
          /\ UNCHANGED <<completed, confVars, held>>

\* depends on: only a job in the depends state gains dependencies.
DependsOn(j, D) ==
    /\ InState(j, "depends")
    /\ WaitOn(j, Legit(D))
    /\ UNCHANGED <<job, queueVars, workerJobs, completed, failVars, confVars, held>>

\* depends off: forget D (for 'all', everything); with nothing left the job may run.
DependsOff(j, D) ==
    LET q == QueueOf(j)
        free == dependencies[j] \subseteq D
    IN  /\ InState(j, "depends")
        /\ dependents' = [d \in Jids |-> IF d \in D THEN dependents[d] \ {j} ELSE dependents[d]]
        /\ dependencies' = Without(dependencies, j, D)
        /\ job' = IF free THEN [job EXCEPT ![j].state = "waiting"] ELSE job
        /\ work' = IF free THEN With(work, q, {j}) ELSE work
        /\ depends' = IF free THEN Without(depends, q, {j}) ELSE depends
        /\ UNCHANGED <<locks, scheduled, workerJobs, completed, failVars, confVars, held>>

\* unfail: move up to n jobs of a group into q.  On an empty group the zadd
\* without members is an error, before anything has changed.
Unfail(g, q, n) ==
    \E S \in Some(n, failed[g]) :
        /\ S # {}
        /\ \A j \in S : Exists(j)
        /\ job' = [j \in Jids |->
               IF j \in S THEN [job[j] EXCEPT !.state = "waiting", !.worker = NoWorker,
                                   !.queue = q, !.remaining = job[j].retries, !.group = NoGroup]
               ELSE job[j]]
        /\ work' = With(work, q, S)
        /\ Unlist(g, S)
        /\ UNCHANGED <<locks, scheduled, depends, workerJobs, depVars, completed, confVars, held>>

\* peek: promotes due jobs like pop does, and is the only one to update their state.
Peek(q, n) ==
    \E expired \in Some(n, Expired(q)) :
    \E ready \in Some(n - Cardinality(expired), DueIn(q)) :
        /\ Cardinality(expired) < n
        /\ \A j \in ready : Exists(j)
        /\ job' = [j \in Jids |-> IF j \in ready THEN [job[j] EXCEPT !.state = "waiting"] ELSE job[j]]
        /\ work' = With(work, q, ready)
        /\ scheduled' = Mark(scheduled, q, ready, "none")
        /\ UNCHANGED <<locks, depends, workerJobs, depVars, completed, failVars, confVars, held>>

Pause(q) ==
    /\ paused' = paused \cup {q}
    /\ UNCHANGED <<job, queueVars, workerJobs, depVars, completed, failVars, limit, held>>

Unpause(q) ==
    /\ paused' = paused \ {q}
    /\ UNCHANGED <<job, queueVars, workerJobs, depVars, completed, failVars, limit, held>>

\* config set <q>-max-concurrency.
SetLimit(q, n) ==
    /\ limit' = [limit EXCEPT ![q] = n]
    /\ UNCHANGED <<job, queueVars, workerJobs, depVars, completed, failVars, paused, held>>
-----------------------------------------------------------------------------
(* Calls by worker processes.                                              *)

\* Mutant of StillLocked: zcard in place of zcount.
StillLockedAll(q) == {j \in Jids : locks[q][j] # "none"}

\* The leases zcount finds from now on: a score equal to now still counts.
StillLocked(q) == {j \in Jids : locks[q][j] \in {"live", "edge"}}

\* Mutant of Allowance: the leases in use are not subtracted.
AllowanceGross(q, n) == IF limit[q] > 0 /\ limit[q] < n THEN limit[q] ELSE n

\* How many jobs a pop of n may hand out under max-concurrency (pop.lua:33-38).
Allowance(q, n) ==
    LET free == limit[q] - Cardinality(StillLocked(q))
    IN  IF limit[q] > 0 /\ free < n THEN free ELSE n

\* Mutant of HandOver: the two updates in the other order.
HandOverSwapped(w, keys, lost) ==
    workerJobs' = [v \in Workers |-> (workerJobs[v] \cup (IF v = w THEN keys ELSE {}))
                                       \ {j \in lost : WorkerOf(j) = v}]

\* pop.lua:58-59, 269: the jobs in lost leave the sets of their last workers, then w gets keys.
HandOver(w, keys, lost) ==
    workerJobs' = [v \in Workers |-> (workerJobs[v] \ {j \in lost : WorkerOf(j) = v})
                                       \cup (IF v = w THEN keys ELSE {})]

\* What a pop does with the leases it reclaims, the due jobs it promotes and the jobs
\* it takes from work: those out of retries fail, the others and taken are w's.
Assign(q, w, reclaimed, promoted, taken) ==
    LET out  == Exhausted(reclaimed)
        keys == (reclaimed \ out) \cup taken
        left(j) == IF j \in reclaimed THEN job[j].remaining - 1 ELSE job[j].remaining
    IN  /\ \A j \in reclaimed \cup taken : Exists(j)
        /\ job' = [j \in Jids |->
             IF j \in keys THEN [job[j] EXCEPT !.state = "running", !.worker = w,
                                               !.remaining = left(j)]
             ELSE IF j \in out
             THEN [job[j] EXCEPT !.state = "failed", !.worker = NoWorker,
                                 !.remaining = left(j), !.group = RetryGroup(q)]
             ELSE job[j]]
        /\ work' = Without(With(work, q, promoted), q, keys \cup out)
        /\ locks' = Mark(Mark(locks, q, out, "none"), q, keys, "live")
        /\ scheduled' = Mark(scheduled, q, promoted \cup out, "none")
        /\ HandOver(w, keys, reclaimed)
        /\ List(RetryGroup(q), out)
        /\ held' = [held EXCEPT ![w] = [j \in Jids |-> IF j \in keys THEN q ELSE @[j]]]
        /\ UNCHANGED <<depends, depVars, completed, confVars>>

\* pop: expired leases first, each costing its job one retry and failing it when
\* none is left; then due jobs join work, and work fills what is still wanted.
Pop(q, w, n) ==
    LET count == Allowance(q, n)
        upTo(k, S) == IF k < count THEN Some(count - k, S) ELSE {{}}
    IN  /\ q \notin paused
        /\ \E reclaimed \in Some(count, Expired(q)) :
             LET out  == Exhausted(reclaimed)
                 kept == Cardinality(reclaimed \ out)
             IN  \E promoted \in upTo(kept, DueIn(q) \ out) :
                 \E taken \in upTo(kept, (work[q] \ out) \cup promoted) :
                    Assign(q, w, reclaimed, promoted, taken)

\* heartbeat: whoever the hash names gets a fresh lease, even on an expired one.
Heartbeat(j, w) ==
    /\ held[w][j] # NoQueue
    /\ WorkerOf(j) = w
    /\ locks' = Mark(locks, QueueOf(j), {j}, "live")
    /\ workerJobs' = With(workerJobs, w, {j})
    /\ UNCHANGED <<job, work, scheduled, depends, depVars, completed, failVars, confVars, held>>

\* Mutant of Finish: the lease is not removed.
FinishLocked(j, w, q) ==
    /\ q # NoQueue
    /\ Running(j, w)
    /\ workerJobs' = Without(workerJobs, w, {j})
    /\ UNCHANGED locks
    /\ Forget(w, j)

\* What both ends of complete do: the worker w owns j, popped from q.
Finish(j, w, q) ==
    /\ q # NoQueue
    /\ Running(j, w)
    /\ workerJobs' = Without(workerJobs, w, {j})
    /\ locks' = Mark(locks, q, {j}, "none")
    /\ Forget(w, j)

\* complete with a next queue: j moves on with its retries restored.  With a delay
\* the call answers 'scheduled' but the hash says waiting (complete.lua:141-146).
Advance(j, w, next, delayed, D) ==
    LET q == held[w][j]
        waits == IF delayed THEN {} ELSE {d \in D : d = j \/ d \in Legit(D)}
        into(now) == IF now THEN {j} ELSE {}
    IN  /\ delayed => D = {}
        /\ Finish(j, w, q)
        /\ job' = [job EXCEPT ![j].state = IF waits # {} THEN "depends" ELSE "waiting",
                              ![j].queue = next, ![j].worker = NoWorker,
                              ![j].remaining = job[j].retries]
        /\ WaitOn(j, waits)
        /\ work' = With(Without(work, q, {j}), next, into(~delayed /\ waits = {}))
        /\ scheduled' = Mark(Mark(scheduled, q, {j}, "none"), next, into(delayed), "wait")
        /\ depends' = With(depends, next, into(waits # {}))
        /\ UNCHANGED <<completed, failVars, confVars>>

\* What ql:completed may be once j is in it: jobs too old, or beyond the newest
\* HistoryCount, are trimmed (complete.lua:186-213).
Histories(j) ==
    {kept \in SUBSET (completed \cup {j}) : j \in kept /\ Cardinality(kept) <= HistoryCount}

\* Mutants of FreedBy: scard is not looked at, or is before the srem.
FreedAll(j) == {d \in dependents[j] : Exists(d)}
FreedEarly(j) == {d \in dependents[j] : dependencies[d] = {} /\ Exists(d)}

\* The dependents of j that wait for nothing else (complete.lua:217-221).
FreedBy(j) == {d \in dependents[j] : dependencies[d] \ {j} = {} /\ Exists(d)}

\* complete: j is done, the oldest completed jobs may be forgotten (by age, or
\* beyond HistoryCount), and jobs that waited only for j may run.
Complete(j, w) ==
    LET q == held[w][j]
    IN  /\ Finish(j, w, q)
        /\ \E kept \in Histories(j) :
             LET trimmed == completed \ kept
                 freed == FreedBy(j) \ trimmed
             IN
             /\ completed' = kept
             /\ job' = [d \in Jids |->
                  IF d = j THEN [job[j] EXCEPT !.state = "complete", !.queue = NoQueue,
                                     !.worker = NoWorker, !.remaining = job[j].retries]
                  ELSE IF d \in trimmed THEN NoJob
                  ELSE IF d \in freed THEN [job[d] EXCEPT !.state = "waiting"]
                  ELSE job[d]]
             /\ work' = [p \in Queues |-> (IF p = q THEN work[p] \ {j} ELSE work[p])
                                             \cup {d \in freed : QueueOf(d) = p}]
             /\ depends' = [p \in Queues |-> depends[p] \ {d \in freed : QueueOf(d) = p}]
        /\ scheduled' = Mark(scheduled, q, {j}, "none")
        /\ dependencies' = [d \in Jids |->
               IF d \in dependents[j] THEN dependencies[d] \ {j} ELSE dependencies[d]]
        /\ dependents' = [dependents EXCEPT ![j] = {}]
        /\ UNCHANGED <<failVars, confVars>>

\* fail: any process that was once given j may fail it while anyone runs it: the
\* script checks the state and not the owner (fail.lua:49).
Fail(j, w, g) ==
    /\ held[w][j] # NoQueue
    /\ InState(j, "running")
    /\ job' = [job EXCEPT ![j].state = "failed", ![j].worker = NoWorker, ![j].group = g]
    /\ workerJobs' = Without(workerJobs, w, {j})
    /\ work' = Without(work, QueueOf(j), {j})
    /\ locks' = Mark(locks, QueueOf(j), {j}, "none")
    /\ scheduled' = Mark(scheduled, QueueOf(j), {j}, "none")
    /\ List(g, {j})
    /\ Forget(w, j)
    /\ UNCHANGED <<depends, depVars, completed, confVars>>

\* retry: give j back to the queue it was popped from at the price of a retry.  The
\* hash keeps naming the worker (retry.lua:62-71).
Retry(j, w, delayed) ==
    LET q == held[w][j]
        out == j \in Exhausted({j})
        into(now) == IF now /\ ~out THEN {j} ELSE {}
    IN  /\ q # NoQueue
        /\ Running(j, w)
        /\ job' = [job EXCEPT
               ![j].state = IF out THEN "failed" ELSE IF delayed THEN "scheduled" ELSE "waiting",
               ![j].worker = IF out THEN NoWorker ELSE @,
               ![j].remaining = @ - 1,
               ![j].group = IF out THEN RetryGroup(q) ELSE @]
        /\ locks' = Mark(locks, job[j].queue, {j}, "none")
        /\ workerJobs' = Without(workerJobs, w, {j})
        /\ work' = With(work, q, into(~delayed))
        /\ scheduled' = Mark(scheduled, q, into(delayed), "wait")
        /\ List(RetryGroup(q), IF out THEN {j} ELSE {})
        /\ Forget(w, j)
        /\ UNCHANGED <<depends, depVars, completed, confVars>>

\* heartbeat, complete or retry answer false, so the process gives j up.
Refused(j, w) ==
    /\ held[w][j] # NoQueue
    /\ ~Running(j, w)
    /\ Forget(w, j)
    /\ UNCHANGED <<job, queueVars, workerJobs, depVars, completed, failVars, confVars>>
-----------------------------------------------------------------------------
(* The environment.                                                        *)

\* Process w dies; what it held stays locked until the leases run out.
Crash(w) ==
    /\ \E j \in Jids : held[w][j] # NoQueue
    /\ held' = [held EXCEPT ![w] = [j \in Jids |-> NoQueue]]
    /\ UNCHANGED <<job, queueVars, workerJobs, depVars, completed, failVars, confVars>>

\* Time passes for a lease: its score becomes now, then falls behind.
Lapse(q, j) ==
    /\ locks[q][j] \in {"live", "edge"}
    /\ locks' = Mark(locks, q, {j}, IF locks[q][j] = "live" THEN "edge" ELSE "over")
    /\ UNCHANGED <<job, work, scheduled, depends, workerJobs, depVars, completed, failVars,
                   confVars, held>>

\* The delay of a scheduled job runs out.
ComeDue(q, j) ==
    /\ scheduled[q][j] = "wait"
    /\ scheduled' = Mark(scheduled, q, {j}, "due")
    /\ UNCHANGED <<job, work, locks, depends, workerJobs, depVars, completed, failVars,
                   confVars, held>>
-----------------------------------------------------------------------------
\* Clients do not delay a job that still has dependencies: a delayed put would
\* schedule it all the same (see PutDelayed in QlessLoose).
ClientStep ==
    \/ \E q \in Queues, j \in Jids, delayed \in Delays, r \in RetryCounts, D \in SUBSET Jids :
          /\ D \subseteq MayWait[j]
          /\ delayed => dependencies[j] = {}
          /\ Put(q, j, delayed, r, D)
    \/ \E S \in SUBSET Jids : Cancel(S)
    \/ \E j \in Jids, D \in SUBSET Jids : D \subseteq MayWait[j] /\ DependsOn(j, D)
    \/ \E j \in Jids, D \in SUBSET Jids : DependsOff(j, D)
    \/ \E g \in AllGroups, q \in Queues, n \in PopCounts : Unfail(g, q, n)
    \/ \E q \in Queues, n \in PopCounts : Peek(q, n)
    \/ \E q \in Queues : Pause(q) \/ Unpause(q)
    \/ \E q \in Queues, n \in NewLimits : SetLimit(q, n)

WorkerStep ==
    \/ \E q \in Queues, w \in Workers, n \in PopCounts : Pop(q, w, n)
    \/ \E j \in Jids, w \in Workers : Heartbeat(j, w) \/ Complete(j, w) \/ Refused(j, w)
    \/ \E j \in Jids, w \in Workers, q \in Queues, delayed \in Delays, D \in SUBSET Jids :
          D \subseteq MayWait[j] /\ Advance(j, w, q, delayed, D)
    \/ \E j \in Jids, w \in Workers, g \in Groups : Fail(j, w, g)
    \/ \E j \in Jids, w \in Workers, delayed \in Delays : Retry(j, w, delayed)

EnvironmentStep ==
    \/ \E w \in Workers : Crash(w)
    \/ \E q \in Queues, j \in Jids : Lapse(q, j) \/ ComeDue(q, j)

Next == ClientStep \/ WorkerStep \/ EnvironmentStep

Spec == Init /\ [][Next]_vars
-----------------------------------------------------------------------------
(* Correctness.                                                            *)

\* A job is in exactly the one sorted set that its state calls for, of the queue its
\* hash names, and nowhere else: no script leaves a jid behind in a queue it moved from,
\* and so no pop meets a jid it must not hand out, or hands out a job twice.
Placed(j) ==
    LET s == IF Exists(j) THEN job[j].state ELSE "none"
    IN  /\ Exists(j) => (s = "complete" <=> job[j].queue = NoQueue)
        /\ \A q \in Queues :
             LET here(S) == QueueOf(j) = q /\ s \in S
             IN  /\ locks[q][j] # "none" <=> here({"running"})
                 /\ j \in depends[q] <=> here({"depends"})
                 /\ (j \in work[q] \/ scheduled[q][j] # "none") <=> here({"waiting", "scheduled"})
                 /\ ~(j \in work[q] /\ scheduled[q][j] # "none")
Placement == \A j \in Jids : Placed(j)

\* The two sides of the dependency relation, kept under separate keys by six scripts,
\* always agree.
DependencyInverse ==
    \A j, d \in Jids : d \in dependencies[j] <=> j \in dependents[d]

\* Nothing waits for a job that cannot release it any more, and only a job in the depends
\* state waits: completing, cancelling, moving or forgetting a job strands no dependent.
NothingStranded ==
    \A j \in Jids :
      /\ dependencies[j] # {} <=> InState(j, "depends")
      /\ \A d \in dependencies[j] : Exists(d) /\ ~InState(d, "complete")

\* A running job is in the job set of the worker its hash names, so that the worker's
\* death, a cancel or a put finds it there.
OwnerListed ==
    \A j \in Jids : InState(j, "running") =>
      job[j].worker \in Workers /\ j \in workerJobs[job[j].worker]

\* A process that still holds a job its hash says is its own holds it from the queue the
\* hash names, and the job runs: the queue that complete and retry get from the caller
\* (complete.lua:19, retry.lua:20), and never compare, is the right one.
HolderCurrent ==
    \A w \in Workers, j \in Jids :
      held[w][j] # NoQueue /\ WorkerOf(j) = w => Running(j, w) /\ held[w][j] = job[j].queue

\* No job is given to a worker on borrowed retries: the count is below zero only when the
\* job failed for it.
RetriesLeft ==
    \A j \in Jids : Exists(j) => job[j].remaining >= IF job[j].state = "failed" THEN -1 ELSE 0

\* The failed lists hold the failed jobs under their own group, and the index of groups
\* names the lists that are not empty.
FailedIndexed ==
    /\ \A j \in Jids, g \in AllGroups :
          j \in failed[g] <=> InState(j, "failed") /\ job[j].group = g
    /\ failures = {g \in AllGroups : failed[g] # {}}

\* The completed set is exactly the jobs kept as history, never more than configured.
CompletedIndexed ==
    /\ completed = {j \in Jids : InState(j, "complete")}
    /\ Cardinality(completed) <= HistoryCount

\* Jobs that ended are found where scripts look for them, and only those: seven scripts
\* move jobs in and out of the failed lists, their index and the history.
EndsIndexed == FailedIndexed /\ CompletedIndexed

LeasesOf(q) == {j \in Jids : locks[q][j] # "none"}

\* max-concurrency bounds the leases of a queue, expired ones included, whatever pops,
\* heartbeats and expiries interleave: only leases that were there when the limit was
\* lowered may exceed it, and no step adds to them.
WithinLimit ==
    [][\A q \in Queues :
         limit'[q] > 0 /\ Cardinality(LeasesOf(q)') > limit'[q]
         => Cardinality(LeasesOf(q)') <= Cardinality(LeasesOf(q))]_vars

\* "A worker is given an exclusive lock" (README.md:306): while a lease is live its job
\* passes to no other worker in one step.
LeaseHonoured ==
    [][\A j \in Jids, q \in Queues :
         locks[q][j] = "live" /\ locks'[q][j] # "none" => WorkerOf(j)' = WorkerOf(j)]_vars
=============================================================================
