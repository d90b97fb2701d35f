----------------------------- MODULE QlessRecur -----------------------------
(***************************************************************************)
(* Recurring jobs.  recur keeps a template under ql:r:<jid> and the time   *)
(* of its next job in ql:q:<q>-recur; pop and peek spawn the jobs that are *)
(* due, under the names jid-1, jid-2, ... that the template counts.  The   *)
(* spawned jobs then live as Qless describes; of that life this module has *)
(* what a second job of the same name would meet: the hash, and the sets   *)
(* of jobs that wait and that are locked.                                  *)
(***************************************************************************)
EXTENDS Integers, FiniteSets

CONSTANTS
    Recs,           \* the jids of recurring jobs
    Queues,
    Intervals, Offsets,
    PopSizes,       \* how many jobs a pop or a peek asks for, beyond expired leases
    StartTime, MaxTime, \* the first time, and the bound on the clock
    MaxOns,         \* bound on the calls of recur on, for each jid
    NoRec

ASSUME RecurAssumption ==
    /\ Intervals \subseteq Nat \ {0}
    /\ Offsets \subseteq Nat
    /\ PopSizes \subseteq Nat \ {0}
    /\ StartTime \in Nat /\ MaxTime \in Nat
    /\ \A i \in Intervals : i < StartTime
    /\ MaxOns \in Nat
    /\ NoRec \notin [queue : Queues, interval : Int, count : Int]

VARIABLES
    time,       \* external: the time that callers pass
    rec,        \* ql:r:<jid>: queue, interval and count, or NoRec
    nextDue,    \* ql:q:<q>-recur: the time of the next job, or 0
    job,        \* state and queue of each ql:j:<jid>-<n> that exists
    work,       \* ql:q:<q>-work
    locks,      \* ql:q:<q>-locks
    last,       \* for the properties: the time of the last job since recur on, or 0
    ons         \* how often recur on was called

recurVars == <<time, rec, nextDue, job, work, locks, last, ons>>

Names == Recs \X Nat
Templates == [queue : Queues, interval : Intervals, count : Nat]

RecTypeOK ==
    /\ time \in Nat
    /\ rec \in [Recs -> Templates \cup {NoRec}]
    /\ nextDue \in [Queues -> [Recs -> Nat]]
    /\ DOMAIN job \subseteq Names
    /\ \A i \in DOMAIN job : job[i] \in [state : {"waiting", "running", "kept"}, queue : Queues]
    /\ work \in [Queues -> SUBSET DOMAIN job]
    /\ locks \in [Queues -> SUBSET DOMAIN job]
    /\ last \in [Recs -> Nat]
    /\ ons \in [Recs -> Nat]

RecurInit ==
    /\ time = StartTime
    /\ rec = [r \in Recs |-> NoRec]
    /\ nextDue = [q \in Queues |-> [r \in Recs |-> 0]]
    /\ job = [i \in {} |-> NoRec]
    /\ work = [q \in Queues |-> {}]
    /\ locks = [q \in Queues |-> {}]
    /\ last = [r \in Recs |-> 0]
    /\ ons = [r \in Recs |-> 0]
-----------------------------------------------------------------------------
(* recur.                                                                  *)

\* zrem from the old queue, and zadd to q with time t.
Scheduled(r, q, t) ==
    nextDue' = [p \in Queues |-> [nextDue[p] EXCEPT ![r] = IF p = q THEN t
                                 ELSE IF rec[r] # NoRec /\ rec[r].queue = p THEN 0 ELSE @]]

\* Mutant of On: the count starts again.
OnAgain(r, q, interval, offset) ==
    /\ ons[r] < MaxOns
    /\ rec' = [rec EXCEPT ![r] = [queue |-> q, interval |-> interval, count |-> 0]]
    /\ Scheduled(r, q, time + offset)
    /\ last' = [last EXCEPT ![r] = 0]
    /\ ons' = [ons EXCEPT ![r] = @ + 1]
    /\ UNCHANGED <<time, job, work, locks>>

\* recur on: a new template, or a replacement that goes on counting.
On(r, q, interval, offset) ==
    /\ ons[r] < MaxOns
    /\ rec' = [rec EXCEPT ![r] = [queue |-> q, interval |-> interval,
                                   count |-> IF @ = NoRec THEN 0 ELSE @.count]]
    /\ Scheduled(r, q, time + offset)
    /\ last' = [last EXCEPT ![r] = 0]
    /\ ons' = [ons EXCEPT ![r] = @ + 1]
    /\ UNCHANGED <<time, job, work, locks>>

\* recur off: the template goes, and with it the count.  The jobs stay.
Off(r) ==
    /\ rec[r] # NoRec
    /\ rec' = [rec EXCEPT ![r] = NoRec]
    /\ nextDue' = [nextDue EXCEPT ![rec[r].queue][r] = 0]
    /\ last' = [last EXCEPT ![r] = 0]
    /\ UNCHANGED <<time, job, work, locks, ons>>

\* Mutant of SetInterval: only the hash is written.
SetIntervalHash(r, interval) ==
    /\ rec[r] # NoRec
    /\ rec' = [rec EXCEPT ![r].interval = interval]
    /\ UNCHANGED <<nextDue, time, job, work, locks, last, ons>>

\* recur update interval: the next job moves by the difference.
SetInterval(r, interval) ==
    /\ rec[r] # NoRec
    /\ rec' = [rec EXCEPT ![r].interval = interval]
    /\ nextDue' = [nextDue EXCEPT ![rec[r].queue][r] = @ + (interval - rec[r].interval)]
    /\ UNCHANGED <<time, job, work, locks, last, ons>>

\* recur update queue: the time of the next job moves along.
SetQueue(r, q) ==
    /\ rec[r] # NoRec
    /\ rec' = [rec EXCEPT ![r].queue = q]
    /\ Scheduled(r, q, nextDue[rec[r].queue][r])
    /\ UNCHANGED <<time, job, work, locks, last, ons>>
-----------------------------------------------------------------------------
(* pop and peek.                                                           *)

\* Mutant of Backlog: a time equal to now does not count.
BacklogStrict(q, r) ==
    IF nextDue[q][r] \in 1 .. (time - 1)
    THEN 1 + ((time - 1 - nextDue[q][r]) \div rec[r].interval) ELSE 0

\* How many jobs of r are due in q.
Backlog(q, r) ==
    IF nextDue[q][r] \in 1 .. time THEN 1 + ((time - nextDue[q][r]) \div rec[r].interval) ELSE 0

\* The names of the next k[r] jobs of each r.
NewNames(k) == UNION {{<<r, rec[r].count + i>> : i \in 1 .. k[r]} : r \in {r \in Recs : k[r] > 0}}

\* Mutant of Spawns: the budget is each template's own.
SpawnsEach(q, n) ==
    {[r \in Recs |-> IF Backlog(q, r) < n THEN Backlog(q, r) ELSE n]}

\* How many jobs of each template the loop spawns when n are wanted: the one whose time
\* is the earliest is served until it is through, then the next.
Spawns(q, n) ==
    LET Through(k, r) == k[r] = Backlog(q, r)
        Before(r, s) == nextDue[q][r] <= nextDue[q][s]
    IN  {k \in [Recs -> 0 .. n] :
           /\ \A r \in Recs : k[r] <= Backlog(q, r)
           /\ Cardinality(NewNames(k)) <= n
           /\ Cardinality(NewNames(k)) = n \/ \A r \in Recs : Through(k, r)
           /\ \A r, s \in Recs : r # s =>
                \/ Before(r, s) /\ (Through(k, r) \/ k[s] = 0)
                \/ Before(s, r) /\ (Through(k, s) \/ k[r] = 0)}

\* k[r] jobs of each r join q, with the times the template gives them; those in T go to
\* a worker.  A name that exists gets its hash written over.
HandOut(q, k, T) ==
    LET new == NewNames(k)
        state(i) == IF i \in T THEN "running" ELSE IF i \in new THEN "waiting" ELSE job[i].state
    IN  /\ T \subseteq DOMAIN job \cup new
        /\ rec' = [r \in Recs |-> IF k[r] > 0 THEN [rec[r] EXCEPT !.count = @ + k[r]] ELSE rec[r]]
        /\ nextDue' = [nextDue EXCEPT ![q] = [r \in Recs |->
                      IF k[r] > 0 THEN @[r] + k[r] * rec[r].interval ELSE @[r]]]
        /\ last' = [r \in Recs |->
                      IF k[r] > 0 THEN nextDue[q][r] + (k[r] - 1) * rec[r].interval ELSE last[r]]
        /\ job' = [i \in DOMAIN job \cup new |->
                      [state |-> state(i), queue |-> IF i \in new THEN q ELSE job[i].queue]]
        /\ work' = [work EXCEPT ![q] = (@ \cup new) \ T]
        /\ locks' = [locks EXCEPT ![q] = @ \cup T]
        /\ UNCHANGED <<time, ons>>

\* pop, once expired leases have been handed out: n more are wanted.
PopSpawning(q, n) ==
    \E k \in Spawns(q, n) :
      LET there == work[q] \cup NewNames(k)
      IN  \E T \in SUBSET there :
            /\ Cardinality(T) = IF n < Cardinality(there) THEN n ELSE Cardinality(there)
            /\ HandOut(q, k, T)

\* peek spawns as pop does.
PeekSpawning(q, n) == \E k \in Spawns(q, n) : HandOut(q, k, {})
-----------------------------------------------------------------------------
(* What becomes of the jobs.                                               *)

\* i leaves the sets of the queue its hash names.
Out(sets, i) == [sets EXCEPT ![job[i].queue] = @ \ {i}]

\* complete and fail; delays and dependencies also keep a job from both sets.
Keep(i) ==
    /\ job' = [job EXCEPT ![i].state = "kept"]
    /\ work' = Out(work, i)
    /\ locks' = Out(locks, i)
    /\ UNCHANGED <<time, rec, nextDue, last, ons>>

\* put, retry, unfail and complete with a next queue.
Move(i, q) ==
    /\ job' = [job EXCEPT ![i] = [state |-> "waiting", queue |-> q]]
    /\ work' = [Out(work, i) EXCEPT ![q] = @ \cup {i}]
    /\ locks' = Out(locks, i)
    /\ UNCHANGED <<time, rec, nextDue, last, ons>>

\* cancel, and the trimming of completed jobs.
DeleteJob(i) ==
    /\ job' = [j \in DOMAIN job \ {i} |-> job[j]]
    /\ work' = Out(work, i)
    /\ locks' = Out(locks, i)
    /\ UNCHANGED <<time, rec, nextDue, last, ons>>

TimePasses ==
    /\ time < MaxTime
    /\ time' = time + 1
    /\ UNCHANGED <<rec, nextDue, job, work, locks, last, ons>>
-----------------------------------------------------------------------------
RecurNext ==
    \/ \E r \in Recs, q \in Queues, i \in Intervals, o \in Offsets : On(r, q, i, o)
    \/ \E r \in Recs : Off(r)
    \/ \E r \in Recs, i \in Intervals : SetInterval(r, i)
    \/ \E r \in Recs, q \in Queues : SetQueue(r, q)
    \/ \E q \in Queues, n \in PopSizes : PopSpawning(q, n) \/ PeekSpawning(q, n)
    \/ \E i \in DOMAIN job : Keep(i) \/ DeleteJob(i)
    \/ \E i \in DOMAIN job, q \in Queues : Move(i, q)
    \/ TimePasses

RecurSpec == RecurInit /\ [][RecurNext]_recurVars

\* Clients that never reuse the jid of a recurring job they turned off.
NoReuseNext ==
    /\ RecurNext
    /\ \A r \in Recs : rec[r] = NoRec /\ rec'[r] # NoRec => ons[r] = 0

NoReuseSpec == RecurInit /\ [][NoReuseNext]_recurVars

\* Workers poll every queue, and get past its expired leases.
LiveSpec == NoReuseSpec /\ \A q \in Queues : WF_recurVars(\E n \in PopSizes : PopSpawning(q, n))
-----------------------------------------------------------------------------
\* A template is in the -recur set of the queue it names, and of no other: else pop would
\* spawn its jobs in a queue it left, or never.
RecurPlaced ==
    \A r \in Recs, q \in Queues : nextDue[q][r] > 0 <=> rec[r] # NoRec /\ rec[r].queue = q

\* The next job comes one interval after the last one, whatever updates, late pops and
\* peeks interleave, and no job comes before its time.
OnSchedule ==
    \A r \in Recs : last[r] > 0 =>
      last[r] <= time /\ nextDue[rec[r].queue][r] = last[r] + rec[r].interval

\* Spawning never writes over a job: each is in the set its hash calls for, and no other.
JobPlaced ==
    \A i \in DOMAIN job, q \in Queues :
      /\ i \in work[q] <=> job[i] = [state |-> "waiting", queue |-> q]
      /\ i \in locks[q] <=> job[i] = [state |-> "running", queue |-> q]

\* A pop spawns no more than it hands out, so a backlog stays in the template instead of
\* flooding the queue.
SpawnOnDemand ==
    [][\A q \in Queues :
         ~(locks'[q] \subseteq locks[q]) => Cardinality(work'[q]) <= Cardinality(work[q])]_recurVars

\* A job that is due is spawned, while workers poll the queue.
Due(r, q) == nextDue[q][r] \in 1 .. time
CaughtUp == \A r \in Recs, q \in Queues : Due(r, q) ~> ~Due(r, q)

\* README.md:306: "A worker is given an exclusive lock on a piece of work when it is given
\* that piece of work."
ExclusiveLock == \A p, q \in Queues : locks[p] \cap work[q] = {}
=============================================================================
