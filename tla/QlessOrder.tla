----------------------------- MODULE QlessOrder -----------------------------
(***************************************************************************)
(* The order in which pop takes the jobs of a queue.  ql:q:<q>-work is     *)
(* sorted by priority - now / 10^10 for jobs that put, retry, unfail and   *)
(* complete insert, and by the bare priority for those that a delay or a   *)
(* dependency held up, or that priority changes.  Priorities are integers  *)
(* and now is below 10^10, so a score is a level and, within it, the time  *)
(* of the insertion, 0 for a bare priority; the highest score goes first.  *)
(***************************************************************************)
EXTENDS Integers, FiniteSets

CONSTANTS
    Jids,
    Priorities,     \* the priorities clients use
    MaxNow,         \* bound on the clock
    Wanted,         \* how many jobs a pop or a peek asks for, beyond expired leases
    NoJob

ASSUME OrderAssumption ==
    /\ Priorities \subseteq Int
    /\ MaxNow \in Nat \ {0}
    /\ Wanted \subseteq Nat \ {0}
    /\ NoJob \notin Int
    /\ IsFiniteSet(Jids)

VARIABLES
    now,        \* external: the time that callers pass
    priority,   \* priority of ql:j:<jid>, or NoJob
    place,      \* where the job is: one of the queue's sets, or elsewhere
    score,      \* its score in -work
    due,        \* its score in -scheduled, or 0
    inserted,   \* for the properties: when it was last put, retried or moved on, or 0
    came        \* for the properties: put, freed or changed, while it is in -work

orderVars == <<now, priority, place, score, due, inserted, came>>

Places == {"elsewhere", "work", "scheduled", "depends", "locks"}
Score == [level : Priorities, at : 0 .. MaxNow]
NoScore == [level |-> 0, at |-> 0]

OrderTypeOK ==
    /\ now \in 1 .. MaxNow
    /\ priority \in [Jids -> Priorities \cup {NoJob}]
    /\ place \in [Jids -> Places]
    /\ \A j \in Jids : place[j] = "work" => score[j] \in Score
    /\ \A j \in Jids : place[j] # "elsewhere" => priority[j] # NoJob

OrderInit ==
    /\ now = 1
    /\ priority = [j \in Jids |-> NoJob]
    /\ place = [j \in Jids |-> "elsewhere"]
    /\ score = [j \in Jids |-> NoScore]
    /\ due = [j \in Jids |-> 0]
    /\ inserted = [j \in Jids |-> 0]
    /\ came = [j \in Jids |-> "none"]

In(s) == {j \in Jids : place[j] = s}

\* Mutant of Stamped: the time is not part of the score.
StampedBare(p) == [level |-> p, at |-> 0]

Stamped(p) == [level |-> p, at |-> now]
Bare(p) == [level |-> p, at |-> 0]

\* Mutant of Ahead: the times are compared before the priorities.
AheadByTime(a, b) == a.at < b.at \/ (a.at = b.at /\ a.level > b.level)

\* zrevrange gives a before b.
Ahead(a, b) == a.level > b.level \/ (a.level = b.level /\ a.at < b.at)

\* A job with priority p joins the queue after delay d, or waits for other jobs.
Enter(j, p, d, waits) ==
    /\ place' = [place EXCEPT ![j] = IF d > 0 THEN "scheduled"
                                     ELSE IF waits THEN "depends" ELSE "work"]
    /\ score' = [score EXCEPT ![j] = IF d > 0 \/ waits THEN NoScore ELSE Stamped(p)]
    /\ due' = [due EXCEPT ![j] = IF d > 0 THEN now + d ELSE 0]
    /\ inserted' = [inserted EXCEPT ![j] = now]
    /\ came' = [came EXCEPT ![j] = IF d > 0 \/ waits THEN "none" ELSE "put"]

\* put: a new job, or one that is moved here from wherever it is.
Put(j, p, d, waits) ==
    /\ ~(d > 0 /\ waits)
    /\ priority' = [priority EXCEPT ![j] = p]
    /\ Enter(j, p, d, waits)
    /\ UNCHANGED now

\* retry, unfail, and complete with this queue as the next, which may wait for others: the
\* hash has the priority.
Return(j, d, waits) ==
    /\ place[j] \in {"locks", "elsewhere"} /\ priority[j] # NoJob
    /\ ~(d > 0 /\ waits)
    /\ Enter(j, priority[j], d, waits)
    /\ UNCHANGED <<now, priority>>

\* complete of the last dependency, and depends off.
Free(j) ==
    /\ place[j] = "depends"
    /\ place' = [place EXCEPT ![j] = "work"]
    /\ score' = [score EXCEPT ![j] = Bare(priority[j])]
    /\ came' = [came EXCEPT ![j] = "freed"]
    /\ UNCHANGED <<now, priority, due, inserted>>

\* priority: a job that waits for a worker gets its new priority, bare, as its score.
SetPriority(j, p) ==
    /\ priority[j] # NoJob
    /\ priority' = [priority EXCEPT ![j] = p]
    /\ score' = [score EXCEPT ![j] = IF place[j] = "work" THEN Bare(p) ELSE @]
    /\ came' = [came EXCEPT ![j] = IF place[j] = "work" THEN "changed" ELSE @]
    /\ UNCHANGED <<now, place, due, inserted>>

\* The first n members of S, where Before(x, y) puts x strictly before y.
Firsts(n, S, Before(_, _)) ==
    {T \in SUBSET S :
        /\ Cardinality(T) = IF n < Cardinality(S) THEN n ELSE Cardinality(S)
        /\ \A x \in T, y \in S \ T : ~Before(y, x)}

\* The due jobs that a pop or peek of n moves into -work, with what scores they get.
Sooner(j, k) == due[j] < due[k]
Promotable(n) == Firsts(n, {j \in In("scheduled") : due[j] <= now}, Sooner)
Scores(P) == [j \in Jids |-> IF j \in P THEN Bare(priority[j]) ELSE score[j]]

\* The jobs of P join -work, and those of T leave it for a worker.
Hand(P, T) ==
    /\ place' = [j \in Jids |-> IF j \in T THEN "locks" ELSE IF j \in P THEN "work" ELSE place[j]]
    /\ score' = [j \in Jids |-> IF j \in T THEN NoScore ELSE Scores(P)[j]]
    /\ due' = [j \in Jids |-> IF j \in P THEN 0 ELSE due[j]]
    /\ inserted' = [j \in Jids |-> IF j \in T THEN 0 ELSE inserted[j]]
    /\ came' = [j \in Jids |-> IF j \in T THEN "none" ELSE IF j \in P THEN "freed" ELSE came[j]]
    /\ UNCHANGED <<now, priority>>

\* pop, once expired leases have been handed out: n more are wanted.
Pop(n) ==
    \E P \in Promotable(n) :
      LET First(j, k) == Ahead(Scores(P)[j], Scores(P)[k])
      IN  \E T \in Firsts(n, In("work") \cup P, First) : Hand(P, T)

\* peek moves due jobs as pop does.
Peek(n) == \E P \in Promotable(n) : Hand(P, {})

\* cancel deletes the job, complete, fail and moves to other queues only take it away.
Leave(j, deleted) ==
    /\ place[j] # "elsewhere"
    /\ place' = [place EXCEPT ![j] = "elsewhere"]
    /\ priority' = [priority EXCEPT ![j] = IF deleted THEN NoJob ELSE @]
    /\ score' = [score EXCEPT ![j] = NoScore]
    /\ due' = [due EXCEPT ![j] = 0]
    /\ inserted' = [inserted EXCEPT ![j] = 0]
    /\ came' = [came EXCEPT ![j] = "none"]
    /\ UNCHANGED now

Tick ==
    /\ now < MaxNow
    /\ now' = now + 1
    /\ UNCHANGED <<priority, place, score, due, inserted, came>>

OrderNext ==
    \/ \E j \in Jids, p \in Priorities, d \in 0 .. 1, waits \in BOOLEAN : Put(j, p, d, waits)
    \/ \E j \in Jids, d \in 0 .. 1, waits \in BOOLEAN : Return(j, d, waits)
    \/ \E j \in Jids, p \in Priorities : SetPriority(j, p)
    \/ \E j \in Jids : Free(j)
    \/ \E j \in Jids, deleted \in BOOLEAN : Leave(j, deleted)
    \/ \E n \in Wanted : Pop(n) \/ Peek(n)
    \/ Tick

OrderSpec == OrderInit /\ [][OrderNext]_orderVars
-----------------------------------------------------------------------------
\* The jobs that the step hands to workers, and those that it takes from -scheduled.
Taken == {j \in Jids : place[j] # "locks" /\ place'[j] = "locks"}
Moved == {j \in In("scheduled") : place'[j] # "scheduled"}

\* After the step k waits in -work, or is due and still in -scheduled.
LeftBehind(k) ==
    \/ place'[k] = "work"
    \/ place[k] = "scheduled" /\ place'[k] = "scheduled" /\ due[k] <= now

\* The step hands j to a worker and not k, which could go as well.
Overtakes(j, k) == j \in Taken /\ LeftBehind(k)

\* A delay, a dependency or priority took away the time that j was put at.
HeldUp(j) == place[j] = "scheduled" \/ came[j] # "put"

\* The score a job waits with follows the priority in its hash, which priority, put and
\* retry write apart from it.
ScoreCurrent == \A j \in In("work") : score[j].level = priority[j]

\* A pop takes the highest numbers first, however priorities changed and jobs came, though
\* README lines 141 and 420 say the lowest (see DocumentedOrder).  A due
\* job of higher priority is left behind only in -scheduled, only behind jobs that were due
\* no later, and only by a pop that moved as many of those as it hands out.
PriorityFirst ==
    [][\A j, k \in Jids :
         Overtakes(j, k) /\ priority[k] > priority[j]
         => /\ place'[k] = "scheduled"
            /\ \A i \in Moved : due[i] <= due[k]
            /\ Cardinality(Taken) <= Cardinality(Moved)]_orderVars

\* Of the jobs of one priority in -work, only one that was held up is taken before one that
\* was put earlier, and those held up are taken before all others (README line 533 has no
\* such exception: see DocumentedOrder).
PutsInOrder ==
    [][\A j, k \in Jids :
         Overtakes(j, k) /\ place'[k] = "work" /\ priority[k] = priority[j]
         => \/ HeldUp(j)
            \/ came'[k] = "put" /\ inserted[j] <= inserted[k]]_orderVars

\* The order that the README of qless-core promises, and pop does not keep: a lower priority
\* is run sooner (lines 141 and 420), and jobs with identical priorities are popped in the
\* order in which they were inserted (line 533).
DocumentedOrder ==
    [][\A j, k \in Jids :
         Overtakes(j, k)
         => \/ priority[j] < priority[k]
            \/ priority[j] = priority[k] /\ inserted[j] <= inserted[k]]_orderVars
=============================================================================
