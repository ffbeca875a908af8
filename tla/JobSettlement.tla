--------------------------- MODULE JobSettlement ---------------------------
(***************************************************************************)
(* What the job pipeline promises its users, without queue, leases or      *)
(* workers: an accepted job stays open until it is settled exactly once,   *)
(* and it is settled.  ingestion_jobs.status is what the API reports.      *)
(***************************************************************************)
CONSTANT Jobs
VARIABLE outcome   \* per job: "absent", "open", "succeeded", "dead_letter"

Outcomes == {"absent", "open", "succeeded", "dead_letter"}

Init == outcome = [j \in Jobs |-> "absent"]

Accept(j) == outcome[j] = "absent" /\ outcome' = [outcome EXCEPT ![j] = "open"]

Settle(j) ==
    /\ outcome[j] = "open"
    /\ \E o \in {"succeeded", "dead_letter"} : outcome' = [outcome EXCEPT ![j] = o]

Next == \E j \in Jobs : Accept(j) \/ Settle(j)

Spec == Init /\ [][Next]_outcome /\ \A j \in Jobs : WF_outcome(Settle(j))
=============================================================================
