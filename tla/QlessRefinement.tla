--------------------------- MODULE QlessRefinement ---------------------------
(* Qless implements QlessJobs: every script is one of its steps or none.   *)
EXTENDS Qless

\* A job's phase, read from its hash and from its lease in the queue the hash names.
PhaseOf(j) ==
    IF ~Exists(j) THEN "absent"
    ELSE CASE job[j].state \in {"waiting", "scheduled"} -> "ready"
           [] job[j].state = "depends"  -> "blocked"
           [] job[j].state = "complete" -> "done"
           [] job[j].state = "failed"   -> "dead"
           [] job[j].state = "running"  ->
                IF locks[job[j].queue][j] = "live" THEN "live" ELSE "lapsed"

Jobs == INSTANCE QlessJobs WITH
            phase    <- [j \in Jids |-> PhaseOf(j)],
            owner    <- [j \in Jids |-> IF InState(j, "running") THEN job[j].worker ELSE NoWorker],
            blockers <- dependencies,
            Nobody   <- NoWorker

\* The scripts keep the promises of QlessJobs: leases are exclusive until they lapse, and
\* a job runs only when all it waited for is complete or was taken off by a client.
KeepsPromises == Jobs!Spec
=============================================================================
