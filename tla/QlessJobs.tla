------------------------------ MODULE QlessJobs ------------------------------
(***************************************************************************)
(* What qless promises about jobs, without queues, sorted sets, retries or *)
(* clients: who has a lease on a job, what blocks it, and when it is over. *)
(* Qless implements it (QlessRefinement).                                  *)
(***************************************************************************)
CONSTANTS Jids, Workers, Nobody

VARIABLES
    phase,      \* where each job stands
    owner,      \* who has the lease of a leased job
    blockers    \* the jobs a blocked job waits for

vars == <<phase, owner, blockers>>

Leased == {"live", "lapsed"}
Phases == {"absent", "ready", "blocked", "done", "dead"} \cup Leased

In(P) == {j \in Jids : phase[j] \in P}
Pending == Jids \ In({"absent", "done"})

\* Every job of S changes to phase p, and loses its owner.
To(S, p) ==
    /\ phase' = [j \in Jids |-> IF j \in S THEN p ELSE phase[j]]
    /\ owner' = [j \in Jids |-> IF j \in S THEN Nobody ELSE owner[j]]

Init ==
    /\ phase = [j \in Jids |-> "absent"]
    /\ owner = [j \in Jids |-> Nobody]
    /\ blockers = [j \in Jids |-> {}]

\* A client or the owner puts j in a queue: it waits for the pending jobs among D.
Enqueue(j, D) ==
    LET waits == blockers[j] \cup D
    IN  /\ D \subseteq Pending \cup {j}
        /\ blockers' = [blockers EXCEPT ![j] = waits]
        /\ To({j}, IF waits = {} THEN "ready" ELSE "blocked")

\* Worker w is given S: jobs nobody has, or whose lease lapsed.  Others of lapsed
\* leases run out of retries.
HandOut(w, S, X) ==
    /\ S \subseteq In({"ready", "lapsed"})
    /\ X \subseteq In({"lapsed"}) \ S
    /\ phase' = [j \in Jids |-> IF j \in S THEN "live" ELSE IF j \in X THEN "dead" ELSE phase[j]]
    /\ owner' = [j \in Jids |-> IF j \in S THEN w ELSE IF j \in X THEN Nobody ELSE owner[j]]
    /\ UNCHANGED blockers

Renew(j) ==
    /\ j \in In(Leased)
    /\ phase' = [phase EXCEPT ![j] = "live"]
    /\ UNCHANGED <<owner, blockers>>

Lapse(j) ==
    /\ j \in In({"live"})
    /\ phase' = [phase EXCEPT ![j] = "lapsed"]
    /\ UNCHANGED <<owner, blockers>>

\* A leased job is given back, or failed.
GiveBack(j) ==
    /\ j \in In(Leased)
    /\ To({j}, "ready") \/ To({j}, "dead")
    /\ UNCHANGED blockers

\* j is done.  In the same step exactly the jobs that waited only for j become ready,
\* and old done jobs may be forgotten.
Finish(j, old) ==
    LET freed == {d \in Jids : blockers[d] = {j}}
    IN  /\ j \in In(Leased)
        /\ old \subseteq In({"done"})
        /\ phase' = [d \in Jids |-> IF d = j THEN "done" ELSE IF d \in old THEN "absent"
                                    ELSE IF d \in freed THEN "ready" ELSE phase[d]]
        /\ owner' = [owner EXCEPT ![j] = Nobody]
        /\ blockers' = [d \in Jids |-> blockers[d] \ {j}]

\* Jobs leave only together with everything that waits for them.
Remove(D) ==
    /\ D \cap In({"done"}) = {}
    /\ \A j \in Jids \ D : blockers[j] \cap D = {}
    /\ blockers' = [j \in Jids |-> IF j \in D THEN {} ELSE blockers[j]]
    /\ To(D, "absent")

\* A client changes what a blocked job waits for; with nothing left it is ready.
Reblock(j, D) ==
    /\ j \in In({"blocked"})
    /\ D \subseteq blockers[j] \cup Pending
    /\ blockers' = [blockers EXCEPT ![j] = D]
    /\ To({j}, IF D = {} THEN "ready" ELSE "blocked")

Revive(S) ==
    /\ S \subseteq In({"dead"})
    /\ To(S, "ready")
    /\ UNCHANGED blockers

Next ==
    \/ \E j \in Jids, D \in SUBSET Jids : Enqueue(j, D) \/ Reblock(j, D) \/ Finish(j, D)
    \/ \E w \in Workers, S, X \in SUBSET Jids : HandOut(w, S, X)
    \/ \E j \in Jids : Renew(j) \/ Lapse(j) \/ GiveBack(j)
    \/ \E S \in SUBSET Jids : Remove(S) \/ Revive(S)

Spec == Init /\ [][Next]_vars
=============================================================================
