----------------------------- MODULE QlessLoose -----------------------------
(***************************************************************************)
(* Qless with clients that make calls the scripts accept but the client    *)
(* libraries avoid: a delayed put of a job that still has dependencies,    *)
(* and a heartbeat that a worker's timer sends after its main loop has     *)
(* given the job back with retry.                                          *)
(***************************************************************************)
EXTENDS Qless

\* A delayed put of a job with outstanding dependencies: put.lua:53 looks only at the
\* dependencies given in this call.
PutDelayed(q, j, r) ==
    /\ TRUE \in Delays
    /\ dependencies[j] # {}
    /\ Put(q, j, TRUE, r, {})

\* The heartbeat timer of w fires once more for a job that w gave back: heartbeat.lua:31
\* compares the worker and never looks at the state.
LateHeartbeat(j, w) ==
    /\ held[w][j] = NoQueue
    /\ WorkerOf(j) = w
    /\ locks' = Mark(locks, QueueOf(j), {j}, "live")
    /\ workerJobs' = With(workerJobs, w, {j})
    /\ UNCHANGED <<job, work, scheduled, depends, depVars, completed, failVars, confVars, held>>

DelayingSpec == Init /\ [][Next \/ \E q \in Queues, j \in Jids, r \in RetryCounts : PutDelayed(q, j, r)]_vars
LateSpec == Init /\ [][Next \/ \E j \in Jids, w \in Workers : LateHeartbeat(j, w)]_vars
-----------------------------------------------------------------------------
\* pop.lua:302: "A job in the waiting state can not have dependencies because it has been
\* popped off of a queue, which means all of its dependencies have been satisfied".
PoppedIsSatisfied ==
    \A j \in Jids : InState(j, "running") => dependencies[j] = {}
=============================================================================
