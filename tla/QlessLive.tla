------------------------------ MODULE QlessLive ------------------------------
(***************************************************************************)
(* Progress of Qless once clients stop: the jobs are in, workers keep      *)
(* polling, and everything may still go wrong with them.                   *)
(***************************************************************************)
EXTENDS Qless

\* Every job has been put in one queue, with the dependencies MayWait names.
LiveInit ==
    \E q \in Queues, r \in RetryCounts :
      LET free == {j \in Jids : MayWait[j] = {}}
      IN  /\ job = [j \in Jids |->
               [state |-> IF j \in free THEN "waiting" ELSE "depends", queue |-> q,
                worker |-> NoWorker, retries |-> r, remaining |-> r, group |-> NoGroup]]
          /\ work = [p \in Queues |-> IF p = q THEN free ELSE {}]
          /\ depends = [p \in Queues |-> IF p = q THEN Jids \ free ELSE {}]
          /\ dependencies = MayWait
          /\ dependents = [d \in Jids |-> {j \in Jids : d \in MayWait[j]}]
          /\ locks = [p \in Queues |-> [j \in Jids |-> "none"]]
          /\ scheduled = [p \in Queues |-> [j \in Jids |-> "none"]]
          /\ workerJobs = [w \in Workers |-> {}]
          /\ completed = {}
          /\ failed = [g \in AllGroups |-> {}]
          /\ failures = {}
          /\ paused = {}
          /\ limit \in [Queues -> InitLimits]
          /\ held = [w \in Workers |-> [j \in Jids |-> NoQueue]]

PopFrom(q) == \E w \in Workers, n \in PopCounts : Pop(q, w, n)

\* A process that has j ends with it some way or other, or dies.
Resolve(j, w) ==
    \/ Complete(j, w)
    \/ \E g \in Groups : Fail(j, w, g)
    \/ \E delayed \in Delays : Retry(j, w, delayed)
    \/ Refused(j, w)
    \/ Crash(w)

\* Jobs do not move on to other queues for ever.
LiveNext ==
    \/ \E q \in Queues : PopFrom(q)
    \/ \E j \in Jids, w \in Workers : Resolve(j, w) \/ Heartbeat(j, w)
    \/ \E q \in Queues, j \in Jids : Lapse(q, j) \/ ComeDue(q, j)

\* Each queue is polled, processes do not work on a job for ever, time passes.
LiveFairness ==
    /\ \A q \in Queues : WF_vars(PopFrom(q))
    /\ \A j \in Jids, w \in Workers : WF_vars(Resolve(j, w))
    /\ \A q \in Queues, j \in Jids : WF_vars(Lapse(q, j)) /\ WF_vars(ComeDue(q, j))

LiveSpec == LiveInit /\ [][LiveNext]_vars /\ LiveFairness

\* Every job ends complete or failed, or waits for one that failed (directly or through
\* others that wait): no crash, lost lease, retry, delay or full queue keeps it for ever.
Settled(j) ==
    \/ ~Exists(j)
    \/ job[j].state \in {"complete", "failed"}
    \/ /\ job[j].state = "depends"
       /\ \E d \in dependencies[j] : InState(d, "failed") \/ InState(d, "depends")
EventuallySettled == <>[](\A j \in Jids : Settled(j))

\* A lease whose owner died or went silent does not stay expired: a pop takes the job.
ExpiredReclaimed == \A q \in Queues, j \in Jids : locks[q][j] = "over" ~> locks[q][j] # "over"
=============================================================================
