----------------------------- MODULE QlessBudget -----------------------------
(* Qless with a record of how often each job was handed out in its stage.  *)
EXTENDS Qless

VARIABLE given

\* The jobs this step hands to a worker, and those for which a new stage begins.
Handed == {j \in Jids : InState(j, "running")' /\ job'[j] # job[j]}
Restarted == {j \in Jids : Exists(j)' => /\ job'[j].state \notin {"running", "failed"}
                                         /\ job'[j].remaining = job'[j].retries}

BudgetInit == Init /\ given = [j \in Jids |-> 0]
BudgetNext ==
    /\ Next
    /\ given' = [j \in Jids |-> IF j \in Restarted THEN 0
                                ELSE IF j \in Handed THEN given[j] + 1 ELSE given[j]]
BudgetSpec == BudgetInit /\ [][BudgetNext]_<<vars, given>>

\* A job is handed out at most once more than its retries allow, each lost lease and each
\* retry counts once, and a job fails for want of retries only after all its attempts.
AttemptsBounded ==
    \A j \in Jids : Exists(j) =>
      /\ given[j] <= job[j].retries + 1
      /\ (InState(j, "failed") /\ job[j].group \notin Groups) => given[j] = job[j].retries + 1
      /\ InState(j, "running") => given[j] = job[j].retries - job[j].remaining + 1
=============================================================================
