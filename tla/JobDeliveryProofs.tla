------------------------ MODULE JobDeliveryProofs ------------------------
(***************************************************************************)
(* Proofs about JobDelivery for every set of jobs and workers and every    *)
(* value of the bounds.                                                    *)
(***************************************************************************)
EXTENDS JobDelivery, TLAPS

(* What the code writes into a job row is a job row again. *)
LEMMA RowWrites ==
    ASSUME NEW r \in Rows
    PROVE  /\ DeadLettered(r) \in Rows
           /\ [r EXCEPT !.status = "pending"] \in Rows
           /\ [r EXCEPT !.lease = FALSE] \in Rows
           /\ [r EXCEPT !.due = TRUE] \in Rows
           /\ [r EXCEPT !.status = "succeeded", !.lease = FALSE] \in Rows
           /\ [r EXCEPT !.status = "retryable", !.lease = FALSE, !.due = FALSE] \in Rows
           /\ r.attempts < MaxAttempts =>
                [r EXCEPT !.attempts = @ + 1, !.status = "running", !.lease = TRUE] \in Rows
<1>1. DeadLettered(r) \in Rows
  BY DEF DeadLettered, Rows, Statuses
<1>2. [r EXCEPT !.status = "pending"] \in Rows
  BY DEF Rows, Statuses
<1>3. [r EXCEPT !.lease = FALSE] \in Rows /\ [r EXCEPT !.due = TRUE] \in Rows
  BY DEF Rows
<1>4. [r EXCEPT !.status = "succeeded", !.lease = FALSE] \in Rows
  BY DEF Rows, Statuses
<1>5. [r EXCEPT !.status = "retryable", !.lease = FALSE, !.due = FALSE] \in Rows
  BY DEF Rows, Statuses
<1>6. ASSUME r.attempts < MaxAttempts
      PROVE  [r EXCEPT !.attempts = @ + 1, !.status = "running", !.lease = TRUE] \in Rows
  <2>1. r.attempts + 1 \in 0 .. MaxAttempts
    BY <1>6, BoundsAssumption DEF Rows
  <2> QED
    BY <2>1 DEF Rows, Statuses
<1> QED
  BY <1>1, <1>2, <1>3, <1>4, <1>5, <1>6

(* Going on with a batch, or ending its phase, keeps the worker's types. *)
LEMMA NextMessageType ==
    ASSUME TypeOK, NEW w \in Workers, NEW batch \in SUBSET Nat,
           NEW source \in {"reclaim", "consume"}, NextMessage(w, batch, source)
    PROVE  /\ pc' \in [Workers -> PcLabels]
           /\ inbox' \in [Workers -> SUBSET Nat]
           /\ msg' \in [Workers -> Nat]
           /\ fetch' \in [Workers -> {"reclaim", "consume"}]
<1>1. CASE batch = {}
  <2>1. /\ inbox' = [inbox EXCEPT ![w] = {}]
        /\ msg' = [msg EXCEPT ![w] = 0]
        /\ fetch' = [fetch EXCEPT ![w] = "consume"]
        /\ pc' = [pc EXCEPT ![w] = IF source = "reclaim" THEN "consume" ELSE "list"]
    BY <1>1 DEF NextMessage
  <2>2. (IF source = "reclaim" THEN "consume" ELSE "list") \in PcLabels
    BY DEF PcLabels
  <2>3. {} \in SUBSET Nat
    OBVIOUS
  <2> QED
    BY <2>1, <2>2, <2>3 DEF TypeOK
<1>2. CASE \E m \in batch :
             /\ inbox' = [inbox EXCEPT ![w] = batch \ {m}]
             /\ msg' = [msg EXCEPT ![w] = m]
             /\ fetch' = [fetch EXCEPT ![w] = source]
             /\ pc' = [pc EXCEPT ![w] = "handle"]
  <2>1. PICK m \in batch :
             /\ inbox' = [inbox EXCEPT ![w] = batch \ {m}]
             /\ msg' = [msg EXCEPT ![w] = m]
             /\ fetch' = [fetch EXCEPT ![w] = source]
             /\ pc' = [pc EXCEPT ![w] = "handle"]
    BY <1>2
  <2>2. m \in Nat /\ batch \ {m} \in SUBSET Nat
    OBVIOUS
  <2> QED
    BY <2>1, <2>2 DEF TypeOK, PcLabels
<1> QED
  BY <1>1, <1>2 DEF NextMessage

(* Going on with the relay's list keeps the worker's types. *)
LEMMA NextEventType ==
    ASSUME TypeOK, NEW w \in Workers, NEW rest \in SUBSET Jobs, NextEvent(w, rest)
    PROVE  /\ pc' \in [Workers -> PcLabels]
           /\ todo' \in [Workers -> SUBSET Jobs]
BY DEF NextEvent, TypeOK, PcLabels

(* While a worker handles a message that names a job, what its session     *)
(* reads is a job row.                                                     *)
LEMMA SeenType ==
    ASSUME TypeOK, NEW w \in Workers, JobOf(w) \in Jobs
    PROVE  Seen(w) \in Rows
BY DEF TypeOK, Seen

(* The initial state has its types. *)
LEMMA TypeInit == Init => TypeOK
BY BoundsAssumption DEF Init, TypeOK, Absent, Rows, Statuses, PcLabels

(* Every step keeps the types. *)
LEMMA TypeStep == ASSUME TypeOK, TxInv, [Next]_vars PROVE TypeOK'
<1>1. CASE UNCHANGED vars
  BY <1>1 DEF TypeOK, dbVars, redisVars, workerVars, envVars, vars
<1>2. CASE ForeignPublish
  <2>1. PICK b \in Foreign : stream' = Append(stream, b)
    BY <1>2 DEF ForeignPublish
  <2>2. b \in Bodies
    BY ForeignAssumption
  <2> QED
    BY <1>2, <2>1, <2>2 DEF ForeignPublish, TypeOK, dbVars, workerVars, envVars
<1>3. ASSUME NEW j \in Jobs, Upload(j) PROVE TypeOK'
  <2>1. PICK prior \in SUBSET Stages : Accept(j, prior)
    BY <1>3 DEF Upload
  <2>2. [row[j] EXCEPT !.status = "pending"] \in Rows
    BY RowWrites DEF TypeOK
  <2>3. row' = [row EXCEPT ![j] = [row[j] EXCEPT !.status = "pending"]]
    BY <2>1 DEF Accept
  <2> QED
    BY <2>1, <2>2, <2>3 DEF Accept, TypeOK, redisVars, workerVars, envVars
<1>4. ASSUME NEW j \in Jobs, RequestRegeneration(j) PROVE TypeOK'
  <2>1. PICK prior \in SUBSET Stages : Accept(j, prior)
    BY <1>4 DEF RequestRegeneration
  <2>2. [row[j] EXCEPT !.status = "pending"] \in Rows
    BY RowWrites DEF TypeOK
  <2>3. row' = [row EXCEPT ![j] = [row[j] EXCEPT !.status = "pending"]]
    BY <2>1 DEF Accept
  <2> QED
    BY <2>1, <2>2, <2>3 DEF Accept, TypeOK, redisVars, workerVars, envVars
<1>5. ASSUME NEW j \in Jobs, LeaseExpires(j) PROVE TypeOK'
  <2>1. [row[j] EXCEPT !.lease = FALSE] \in Rows
    BY RowWrites DEF TypeOK
  <2> QED
    BY <1>5, <2>1 DEF LeaseExpires, TypeOK, redisVars, workerVars, envVars
<1>6. ASSUME NEW j \in Jobs, BackoffEnds(j) PROVE TypeOK'
  <2>1. [row[j] EXCEPT !.due = TRUE] \in Rows
    BY RowWrites DEF TypeOK
  <2> QED
    BY <1>6, <2>1 DEF BackoffEnds, TypeOK, redisVars, workerVars, envVars
<1>7. ASSUME NEW m \in Ids, BecomesStale(m) PROVE TypeOK'
  BY <1>7 DEF BecomesStale, Ids, TypeOK, dbVars, workerVars, envVars
<1>8. ASSUME NEW w \in Workers, ListPending(w) PROVE TypeOK'
  <2>1. PICK S \in SUBSET Jobs : NextEvent(w, S)
    BY <1>8 DEF ListPending
  <2> QED
    BY <1>8, <2>1, NextEventType DEF ListPending, TypeOK, dbVars, redisVars, envVars
<1>9. ASSUME NEW w \in Workers, PublishEvent(w) PROVE TypeOK'
  <2>1. PICK j \in todo[w] :
             /\ stream' = Append(stream, [job |-> j, shape |-> "ok"])
             /\ todo' = [todo EXCEPT ![w] = @ \ {j}]
    BY <1>9 DEF PublishEvent
  <2>2. [job |-> j, shape |-> "ok"] \in Bodies
    BY DEF TypeOK, Bodies
  <2> QED
    BY <1>9, <2>1, <2>2 DEF PublishEvent, TypeOK, dbVars, envVars, PcLabels
<1>10. ASSUME NEW w \in Workers, SkipPublished(w) PROVE TypeOK'
  <2>1. PICK j \in todo[w] : NextEvent(w, todo[w] \ {j})
    BY <1>10 DEF SkipPublished
  <2>2. todo[w] \ {j} \in SUBSET Jobs
    BY DEF TypeOK
  <2> QED
    BY <1>10, <2>1, <2>2, NextEventType DEF SkipPublished, TypeOK, dbVars, redisVars, envVars
<1>11. ASSUME NEW w \in Workers, MarkPublished(w) PROVE TypeOK'
  <2>1. todo[w] \in SUBSET Jobs
    BY DEF TypeOK
  <2> QED
    BY <1>11, <2>1, NextEventType DEF MarkPublished, TypeOK, redisVars, envVars
<1>12. ASSUME NEW w \in Workers, PublishFails(w) PROVE TypeOK'
  <2>1. \E rest \in SUBSET Jobs : NextEvent(w, rest)
    BY <1>12 DEF PublishFails, TypeOK
  <2> QED
    BY <1>12, <2>1, NextEventType DEF PublishFails, TypeOK, dbVars, redisVars
<1>13. ASSUME NEW w \in Workers, ReclaimStale(w) PROVE TypeOK'
  <2>1. FirstOf(stale) \in SUBSET Nat
    BY DEF FirstOf, TypeOK
  <2>2. NextMessage(w, FirstOf(stale), "reclaim")
    BY <1>13 DEF ReclaimStale
  <2> QED
    BY <1>13, <2>1, <2>2, NextMessageType DEF ReclaimStale, TypeOK, dbVars, envVars
<1>14. ASSUME NEW w \in Workers, ReadNew(w) PROVE TypeOK'
  <2>1. delivered' \in Nat
    BY <1>14, BoundsAssumption DEF ReadNew, TypeOK
  <2>2. delivered + 1 .. delivered' \in SUBSET Nat
    BY <2>1 DEF TypeOK
  <2>3. NextMessage(w, delivered + 1 .. delivered', "consume")
    BY <1>14 DEF ReadNew
  <2> QED
    BY <1>14, <2>1, <2>2, <2>3, NextMessageType DEF ReadNew, TypeOK, dbVars, envVars
<1>15. ASSUME NEW w \in Workers, RejectMessage(w) PROVE TypeOK'
  BY <1>15 DEF RejectMessage, TypeOK, dbVars, redisVars, workerVars, envVars, PcLabels
<1>16. ASSUME NEW w \in Workers, ClaimTerminal(w) PROVE TypeOK'
  BY <1>16 DEF ClaimTerminal, TypeOK, dbVars, redisVars, workerVars, envVars, PcLabels
<1>17. ASSUME NEW w \in Workers, ClaimSkipped(w) PROVE TypeOK'
  <2>1. inbox[w] \in SUBSET Nat /\ fetch[w] \in {"reclaim", "consume"}
    BY DEF TypeOK
  <2>2. NextMessage(w, inbox[w], fetch[w])
    BY <1>17 DEF ClaimSkipped
  <2> QED
    BY <1>17, <2>1, <2>2, NextMessageType DEF ClaimSkipped, TypeOK, dbVars, redisVars, envVars
<1>18. ASSUME NEW w \in Workers, ClaimExhausted(w) PROVE TypeOK'
  <2>1. JobOf(w) \in Jobs
    BY <1>18 DEF ClaimExhausted, Selected, NamesJob, JobOf
  <2>2. DeadLettered(row[JobOf(w)]) \in Rows
    BY <2>1, RowWrites DEF TypeOK
  <2> QED
    BY <1>18, <2>2 DEF ClaimExhausted, TypeOK, dbVars, redisVars, envVars, PcLabels
<1>19. ASSUME NEW w \in Workers, ClaimGranted(w) PROVE TypeOK'
  <2> DEFINE claimed == [row[JobOf(w)] EXCEPT !.attempts = @ + 1, !.status = "running",
                                             !.lease = TRUE]
  <2>1. JobOf(w) \in Jobs
    BY <1>19 DEF ClaimGranted, Selected, NamesJob, JobOf
  <2>2. claimed \in Rows
    <3>1. row[JobOf(w)] \in Rows
      BY <2>1 DEF TypeOK
    <3>2. row[JobOf(w)].attempts < MaxAttempts
      BY <1>19, <3>1, BoundsAssumption DEF ClaimGranted, Exhausted, Rows
    <3> QED
      BY <3>1, <3>2, RowWrites
  <2>3. tx' = [tx EXCEPT ![w] = claimed]
    BY <1>19 DEF ClaimGranted
  <2>4. tx' \in [Workers -> Rows \cup {NoTx}]
    BY <2>2, <2>3 DEF TypeOK
  <2>7. tries[JobOf(w)] + 1 \in Nat
    BY <2>1 DEF TypeOK
  <2>8. tries' = tries \/ tries' = [tries EXCEPT ![JobOf(w)] = tries[JobOf(w)] + 1]
    BY <1>19 DEF ClaimGranted
  <2>5. tries' \in [Jobs -> Nat]
    BY <2>7, <2>8 DEF TypeOK
  <2>6. pc' \in [Workers -> PcLabels]
    BY <1>19 DEF ClaimGranted, TypeOK, PcLabels
  <2> QED
    BY <1>19, <2>4, <2>5, <2>6 DEF ClaimGranted, TypeOK, dbVars, redisVars, envVars
<1>20. ASSUME NEW w \in Workers, SetJobStep(w) PROVE TypeOK'
  <2>1. JobOf(w) \in Jobs
    BY <1>20 DEF SetJobStep, TxInv, WorkerInv, Running
  <2>2. Seen(w) \in Rows
    BY <2>1, SeenType
  <2> QED
    BY <1>20, <2>2 DEF SetJobStep, TypeOK, dbVars, redisVars, envVars, PcLabels
<1>21. ASSUME NEW w \in Workers, PersistArtifact(w) PROVE TypeOK'
  <2>1. JobOf(w) \in Jobs /\ tx[w] \in Rows
    BY <1>21 DEF PersistArtifact, TxInv, WorkerInv, Running, TypeOK
  <2>2. row' \in [Jobs -> Rows]
    BY <1>21, <2>1 DEF PersistArtifact, TypeOK
  <2>4. built[JobOf(w)] \cup {stage[w]} \in SUBSET Stages
    BY <1>21, <2>1 DEF PersistArtifact, TypeOK
  <2>5. built' \in [Jobs -> SUBSET Stages]
    BY <1>21, <2>4 DEF PersistArtifact, TypeOK
  <2>3. stage' \in [Workers -> 1 .. NumStages + 1]
    BY <1>21, BoundsAssumption DEF PersistArtifact, TypeOK, Stages
  <2> QED
    BY <1>21, <2>2, <2>3, <2>5 DEF PersistArtifact, TypeOK, redisVars, envVars, PcLabels
<1>22. ASSUME NEW w \in Workers, FinishHandler(w) PROVE TypeOK'
  BY <1>22, BoundsAssumption DEF FinishHandler, TypeOK, dbVars, redisVars, workerVars, envVars, PcLabels
<1>23. ASSUME NEW w \in Workers, FailRetryable(w) PROVE TypeOK'
  <2>1. tx' \in [Workers -> Rows \cup {NoTx}]
    BY <1>23 DEF FailRetryable, AfterFailure, TypeOK
  <2>2. stage' \in [Workers -> 1 .. NumStages + 1]
    BY <1>23, BoundsAssumption DEF FailRetryable, TypeOK
  <2> QED
    BY <1>23, <2>1, <2>2 DEF FailRetryable, TypeOK, dbVars, redisVars, envVars, PcLabels
<1>24. ASSUME NEW w \in Workers, FailPermanently(w) PROVE TypeOK'
  <2>1. tx' \in [Workers -> Rows \cup {NoTx}]
    BY <1>24 DEF FailPermanently, AfterFailure, TypeOK
  <2>2. stage' \in [Workers -> 1 .. NumStages + 1]
    BY <1>24, BoundsAssumption DEF FailPermanently, TypeOK
  <2> QED
    BY <1>24, <2>1, <2>2 DEF FailPermanently, TypeOK, dbVars, redisVars, envVars, PcLabels
<1>25. ASSUME NEW w \in Workers, MarkSucceeded(w) PROVE TypeOK'
  <2>1. JobOf(w) \in Jobs
    BY <1>25 DEF MarkSucceeded, TxInv, WorkerInv, Running
  <2>2. [Seen(w) EXCEPT !.status = "succeeded", !.lease = FALSE] \in Rows
    BY <2>1, SeenType, RowWrites
  <2> QED
    BY <1>25, <2>2 DEF MarkSucceeded, TypeOK, dbVars, redisVars, envVars, PcLabels
<1>26. ASSUME NEW w \in Workers, MarkDeadLetter(w) PROVE TypeOK'
  <2>1. JobOf(w) \in Jobs
    BY <1>26 DEF MarkDeadLetter, TxInv, WorkerInv, Running
  <2>2. DeadLettered(Seen(w)) \in Rows
    BY <2>1, SeenType, RowWrites
  <2> QED
    BY <1>26, <2>2 DEF MarkDeadLetter, TypeOK, dbVars, redisVars, envVars, PcLabels
<1>27. ASSUME NEW w \in Workers, MarkRetryable(w) PROVE TypeOK'
  <2>1. JobOf(w) \in Jobs
    BY <1>27 DEF MarkRetryable, TxInv, WorkerInv, Running
  <2>2. [Seen(w) EXCEPT !.status = "retryable", !.lease = FALSE, !.due = FALSE] \in Rows
    BY <2>1, SeenType, RowWrites
  <2>3. row' \in [Jobs -> Rows] /\ tx' \in [Workers -> Rows \cup {NoTx}]
    BY <1>27, <2>2 DEF MarkRetryable, TypeOK
  <2>4. inbox[w] \in SUBSET Nat /\ fetch[w] \in {"reclaim", "consume"}
    BY DEF TypeOK
  <2>5. NextMessage(w, inbox[w], fetch[w])
    BY <1>27 DEF MarkRetryable
  <2>6. /\ pc' \in [Workers -> PcLabels] /\ inbox' \in [Workers -> SUBSET Nat]
        /\ msg' \in [Workers -> Nat] /\ fetch' \in [Workers -> {"reclaim", "consume"}]
    BY <2>4, <2>5, NextMessageType
  <2> QED
    BY <1>27, <2>3, <2>6 DEF MarkRetryable, TypeOK, redisVars, envVars
<1>28. ASSUME NEW w \in Workers, PublishDeadLetter(w) PROVE TypeOK'
  BY <1>28 DEF PublishDeadLetter, TypeOK, dbVars, envVars, PcLabels
<1>29. ASSUME NEW w \in Workers, CommitOutcome(w) PROVE TypeOK'
  <2>1. row' \in [Jobs -> Rows] /\ settled' \subseteq Jobs
    BY <1>29 DEF CommitOutcome, TxInv, WorkerInv, TypeOK
  <2> QED
    BY <1>29, <2>1 DEF CommitOutcome, TypeOK, redisVars, envVars, PcLabels
<1>30. ASSUME NEW w \in Workers, Acknowledge(w) PROVE TypeOK'
  <2>1. inbox[w] \in SUBSET Nat /\ fetch[w] \in {"reclaim", "consume"}
    BY DEF TypeOK
  <2>2. NextMessage(w, inbox[w], fetch[w])
    BY <1>30 DEF Acknowledge
  <2> QED
    BY <1>30, <2>1, <2>2, NextMessageType DEF Acknowledge, TypeOK, dbVars, envVars
<1>31. ASSUME NEW w \in Workers, CycleFails(w) PROVE TypeOK'
  BY <1>31, BoundsAssumption DEF CycleFails, TypeOK, dbVars, redisVars, workerVars, envVars, Abandon, PcLabels
<1>32. ASSUME NEW w \in Workers, Crash(w) PROVE TypeOK'
  BY <1>32, BoundsAssumption DEF Crash, TypeOK, dbVars, redisVars, workerVars, envVars, Abandon, PcLabels
<1>33. ASSUME NEW w \in Workers, Restart(w) PROVE TypeOK'
  BY <1>33 DEF Restart, TypeOK, dbVars, redisVars, workerVars, envVars, PcLabels
<1> QED
  BY <1>1, <1>2, <1>3, <1>4, <1>5, <1>6, <1>7, <1>8, <1>9, <1>10, <1>11, <1>12, <1>13, <1>14, <1>15, <1>16, <1>17, <1>18, <1>19, <1>20, <1>21, <1>22, <1>23, <1>24, <1>25, <1>26, <1>27, <1>28, <1>29, <1>30, <1>31, <1>32, <1>33
     DEF Next, Intake, Clock, Work, Misfortune, Relay, Fetch, Claim, Handle, Conclude

(* What no step takes back: messages and their bodies, deliveries, copies  *)
(* in the dead-letter stream, settled jobs, the existence of a job row.    *)
Grows ==
    /\ Len(stream) <= Len(stream') /\ \A m \in 1 .. Len(stream) : stream'[m] = stream[m]
    /\ delivered <= delivered' /\ dlq \subseteq dlq' /\ settled \subseteq settled'
    /\ \A j \in Jobs : row[j].status # "absent" =>
           row'[j].status # "absent" /\ built[j] \subseteq built'[j]

(* No step takes any of it back. *)
LEMMA HistoryGrows ==
    ASSUME TypeOK, RangeInv, TxInv, [Next]_vars
    PROVE  Grows
<1>1. CASE UNCHANGED vars
  BY <1>1 DEF vars, dbVars, redisVars, workerVars, Grows, TypeOK
<1>2. CASE ForeignPublish
  BY <1>2 DEF ForeignPublish, dbVars, workerVars, envVars, Grows, TypeOK
<1>3. ASSUME NEW j \in Jobs, Upload(j) PROVE Grows
  BY <1>3 DEF Upload, redisVars, workerVars, Grows, TypeOK, Accept
<1>4. ASSUME NEW j \in Jobs, RequestRegeneration(j) PROVE Grows
  BY <1>4 DEF RequestRegeneration, redisVars, workerVars, Grows, TypeOK, Accept
<1>5. ASSUME NEW j \in Jobs, LeaseExpires(j) PROVE Grows
  BY <1>5 DEF LeaseExpires, redisVars, workerVars, envVars, Grows, TypeOK
<1>6. ASSUME NEW j \in Jobs, BackoffEnds(j) PROVE Grows
  BY <1>6 DEF BackoffEnds, redisVars, workerVars, envVars, Grows, TypeOK
<1>7. ASSUME NEW m \in Ids, BecomesStale(m) PROVE Grows
  BY <1>7 DEF BecomesStale, dbVars, workerVars, envVars, Grows, TypeOK
<1>8. ASSUME NEW w \in Workers, ListPending(w) PROVE Grows
  BY <1>8 DEF ListPending, dbVars, redisVars, envVars, Grows, TypeOK
<1>9. ASSUME NEW w \in Workers, PublishEvent(w) PROVE Grows
  BY <1>9 DEF PublishEvent, dbVars, envVars, Grows, TypeOK
<1>10. ASSUME NEW w \in Workers, SkipPublished(w) PROVE Grows
  BY <1>10 DEF SkipPublished, dbVars, redisVars, envVars, Grows, TypeOK
<1>11. ASSUME NEW w \in Workers, MarkPublished(w) PROVE Grows
  BY <1>11 DEF MarkPublished, redisVars, envVars, Grows, TypeOK
<1>12. ASSUME NEW w \in Workers, PublishFails(w) PROVE Grows
  BY <1>12 DEF PublishFails, dbVars, redisVars, Grows, TypeOK
<1>13. ASSUME NEW w \in Workers, ReclaimStale(w) PROVE Grows
  BY <1>13 DEF ReclaimStale, dbVars, envVars, Grows, TypeOK
<1>14. ASSUME NEW w \in Workers, ReadNew(w) PROVE Grows
  BY <1>14, BoundsAssumption DEF ReadNew, dbVars, envVars, Grows, TypeOK, RangeInv
<1>15. ASSUME NEW w \in Workers, RejectMessage(w) PROVE Grows
  BY <1>15 DEF RejectMessage, dbVars, redisVars, envVars, Grows, TypeOK
<1>16. ASSUME NEW w \in Workers, ClaimTerminal(w) PROVE Grows
  BY <1>16 DEF ClaimTerminal, dbVars, redisVars, envVars, Grows, TypeOK
<1>17. ASSUME NEW w \in Workers, ClaimSkipped(w) PROVE Grows
  BY <1>17 DEF ClaimSkipped, dbVars, redisVars, envVars, Grows, TypeOK
<1>18. ASSUME NEW w \in Workers, ClaimExhausted(w) PROVE Grows
  BY <1>18 DEF ClaimExhausted, dbVars, redisVars, envVars, Grows, TypeOK
<1>19. ASSUME NEW w \in Workers, ClaimGranted(w) PROVE Grows
  BY <1>19 DEF ClaimGranted, dbVars, redisVars, envVars, Grows, TypeOK
<1>20. ASSUME NEW w \in Workers, SetJobStep(w) PROVE Grows
  BY <1>20 DEF SetJobStep, dbVars, redisVars, envVars, Grows, TypeOK
<1>21. ASSUME NEW w \in Workers, PersistArtifact(w) PROVE Grows
  <2>1. \A j \in Jobs : row[j].status # "absent" => row'[j].status # "absent"
    <3>1. tx[w] # NoTx /\ tx[w].status # "absent"
      BY <1>21 DEF PersistArtifact, TxInv, WorkerInv
    <3>2. \A j \in Jobs : row'[j] = row[j] \/ row'[j] = tx[w]
      BY <1>21 DEF PersistArtifact, TypeOK
    <3> QED
      BY <3>1, <3>2
  <2>2. built' = built \/ built' = [built EXCEPT ![JobOf(w)] = built[JobOf(w)] \cup {stage[w]}]
    BY <1>21 DEF PersistArtifact
  <2>3. \A j \in Jobs : built'[j] = built[j] \/ built'[j] = built[j] \cup {stage[w]}
    BY <2>2 DEF TypeOK
  <2>4. \A j \in Jobs : built[j] \subseteq built'[j]
    BY <2>3
  <2> QED
    BY <1>21, <2>1, <2>4 DEF PersistArtifact, redisVars, Grows, TypeOK
<1>22. ASSUME NEW w \in Workers, FinishHandler(w) PROVE Grows
  BY <1>22 DEF FinishHandler, dbVars, redisVars, envVars, Grows, TypeOK
<1>23. ASSUME NEW w \in Workers, FailRetryable(w) PROVE Grows
  BY <1>23 DEF FailRetryable, dbVars, redisVars, Grows, TypeOK
<1>24. ASSUME NEW w \in Workers, FailPermanently(w) PROVE Grows
  BY <1>24 DEF FailPermanently, dbVars, redisVars, envVars, Grows, TypeOK
<1>25. ASSUME NEW w \in Workers, MarkSucceeded(w) PROVE Grows
  BY <1>25 DEF MarkSucceeded, dbVars, redisVars, envVars, Grows, TypeOK
<1>26. ASSUME NEW w \in Workers, MarkDeadLetter(w) PROVE Grows
  BY <1>26 DEF MarkDeadLetter, dbVars, redisVars, envVars, Grows, TypeOK
<1>27. ASSUME NEW w \in Workers, MarkRetryable(w) PROVE Grows
  BY <1>27 DEF MarkRetryable, redisVars, envVars, Grows, TypeOK
<1>28. ASSUME NEW w \in Workers, PublishDeadLetter(w) PROVE Grows
  BY <1>28 DEF PublishDeadLetter, dbVars, envVars, Grows, TypeOK
<1>29. ASSUME NEW w \in Workers, CommitOutcome(w) PROVE Grows
  <2>1. \A j \in Jobs : row[j].status # "absent" => row'[j].status # "absent"
    <3>1. CASE tx[w] = NoTx
      BY <1>29, <3>1 DEF CommitOutcome
    <3>2. CASE tx[w] # NoTx
      <4>1. row[JobOf(w)].status # "absent" /\ tx[w].status # "absent" /\ JobOf(w) \in Jobs
        BY <3>2 DEF TxInv, WorkerInv
      <4>2. row' = [row EXCEPT ![JobOf(w)] = tx[w]]
        BY <1>29, <3>2 DEF CommitOutcome
      <4> QED
        BY <4>1, <4>2 DEF TypeOK
    <3> QED
      BY <3>1, <3>2
  <2> QED
    BY <1>29, <2>1 DEF CommitOutcome, redisVars, Grows, TypeOK
<1>30. ASSUME NEW w \in Workers, Acknowledge(w) PROVE Grows
  BY <1>30 DEF Acknowledge, dbVars, envVars, Grows, TypeOK
<1>31. ASSUME NEW w \in Workers, CycleFails(w) PROVE Grows
  BY <1>31 DEF CycleFails, dbVars, redisVars, Grows, TypeOK, Abandon
<1>32. ASSUME NEW w \in Workers, Crash(w) PROVE Grows
  BY <1>32 DEF Crash, dbVars, redisVars, Grows, TypeOK, Abandon
<1>33. ASSUME NEW w \in Workers, Restart(w) PROVE Grows
  BY <1>33 DEF Restart, dbVars, redisVars, envVars, Grows, TypeOK
<1> QED
  BY <1>1, <1>2, <1>3, <1>4, <1>5, <1>6, <1>7, <1>8, <1>9, <1>10, <1>11, <1>12, <1>13, <1>14, <1>15, <1>16, <1>17, <1>18, <1>19, <1>20, <1>21, <1>22, <1>23, <1>24, <1>25, <1>26, <1>27, <1>28, <1>29, <1>30, <1>31, <1>32, <1>33
     DEF Next, Intake, Clock, Work, Misfortune, Relay, Fetch, Claim, Handle, Conclude

(* Going on with a batch concerns one worker, which either handles a       *)
(* message of the batch next or leaves the phase with nothing in hand.     *)
LEMMA NextMessageEffect ==
    ASSUME TypeOK, NEW w \in Workers, NEW batch \in SUBSET Nat,
           NEW source \in {"reclaim", "consume"}, NextMessage(w, batch, source)
    PROVE  /\ \A v \in Workers \ {w} : pc'[v] = pc[v] /\ msg'[v] = msg[v] /\ inbox'[v] = inbox[v]
           /\ inbox'[w] \subseteq batch
           /\ \/ pc'[w] = "handle" /\ msg'[w] \in batch
              \/ pc'[w] \in {"consume", "list"} /\ msg'[w] = 0
<1>1. CASE batch = {}
  <2>1. /\ inbox' = [inbox EXCEPT ![w] = {}]
        /\ msg' = [msg EXCEPT ![w] = 0]
        /\ pc' = [pc EXCEPT ![w] = IF source = "reclaim" THEN "consume" ELSE "list"]
    BY <1>1 DEF NextMessage
  <2> QED
    BY <2>1 DEF TypeOK
<1>2. CASE batch # {}
  <2>1. PICK m \in batch :
             /\ inbox' = [inbox EXCEPT ![w] = batch \ {m}]
             /\ msg' = [msg EXCEPT ![w] = m]
             /\ pc' = [pc EXCEPT ![w] = "handle"]
    BY <1>2 DEF NextMessage
  <2> QED
    BY <2>1 DEF TypeOK
<1> QED
  BY <1>1, <1>2

(* What is known of a message or a job is never taken back. *)
LEMMA Kept ==
    ASSUME TypeOK, RangeInv, Grows
    PROVE  /\ \A m \in 1 .. Len(stream) : FromOutbox(m)' <=> FromOutbox(m)
           /\ \A m \in 1 .. Len(stream) : Accounted(m) => Accounted(m)'
           /\ \A j \in Jobs : InDlq(j) => InDlq(j)'
<1>1. \A m \in 1 .. Len(stream) : FromOutbox(m)' <=> FromOutbox(m)
  BY DEF Grows, FromOutbox
<1>2. ASSUME NEW m \in 1 .. Len(stream), Accounted(m) PROVE Accounted(m)'
  BY <1>1, <1>2 DEF Grows, Accounted
<1>3. ASSUME NEW j \in Jobs, InDlq(j) PROVE InDlq(j)'
  <2>1. PICK m \in dlq : stream[m].job = j
    BY <1>3 DEF InDlq
  <2>2. m \in dlq' /\ stream'[m] = stream[m]
    BY <2>1 DEF RangeInv, Grows, TypeOK
  <2> QED
    BY <2>1, <2>2 DEF InDlq
<1> QED
  BY <1>1, <1>2, <1>3

(* Going on with a batch of delivered messages, no worker holds another. *)
LEMMA BatchInRange ==
    ASSUME TypeOK, RangeInv, NEW w \in Workers, NEW source \in {"reclaim", "consume"},
           NEW top \in Nat, delivered <= top, top <= Len(stream),
           NEW batch \in SUBSET Nat, batch \subseteq 1 .. top, NextMessage(w, batch, source)
    PROVE  \A v \in Workers : inbox'[v] \subseteq 1 .. top /\ msg'[v] <= Len(stream)
<1> TAKE v \in Workers
<1>1. CASE v = w
  <2>1. inbox'[w] \subseteq batch /\ (msg'[w] \in batch \/ msg'[w] = 0)
    BY NextMessageEffect
  <2>2. inbox'[w] \subseteq 1 .. top
    BY <2>1
  <2>4. Len(stream) \in Nat
    BY DEF TypeOK
  <2>5. msg'[w] = 0 \/ msg'[w] \in 1 .. top
    BY <2>1
  <2>3. msg'[w] <= Len(stream)
    BY <2>4, <2>5
  <2> QED
    BY <1>1, <2>2, <2>3
<1>2. CASE v # w
  <2>1. inbox'[v] = inbox[v] /\ msg'[v] = msg[v]
    BY <1>2, NextMessageEffect
  <2> QED
    BY <2>1 DEF RangeInv, TypeOK
<1> QED
  BY <1>1, <1>2

(* Ids in hand never run ahead of what Redis delivered. *)
LEMMA RangeStep ==
    ASSUME TypeOK, RangeInv, TxInv, Grows, [Next]_vars
    PROVE  RangeInv'
<1>1. CASE UNCHANGED vars
  BY <1>1 DEF vars, dbVars, redisVars, workerVars, RangeInv, TypeOK
<1>2. CASE ForeignPublish
  BY <1>2 DEF ForeignPublish, dbVars, workerVars, envVars, RangeInv, TypeOK
<1>3. ASSUME NEW j \in Jobs, Upload(j) PROVE RangeInv'
  BY <1>3 DEF Upload, redisVars, workerVars, RangeInv, TypeOK, Accept
<1>4. ASSUME NEW j \in Jobs, RequestRegeneration(j) PROVE RangeInv'
  BY <1>4 DEF RequestRegeneration, redisVars, workerVars, RangeInv, TypeOK, Accept
<1>5. ASSUME NEW j \in Jobs, LeaseExpires(j) PROVE RangeInv'
  BY <1>5 DEF LeaseExpires, redisVars, workerVars, envVars, RangeInv, TypeOK
<1>6. ASSUME NEW j \in Jobs, BackoffEnds(j) PROVE RangeInv'
  BY <1>6 DEF BackoffEnds, redisVars, workerVars, envVars, RangeInv, TypeOK
<1>7. ASSUME NEW m \in Ids, BecomesStale(m) PROVE RangeInv'
  BY <1>7 DEF BecomesStale, dbVars, workerVars, envVars, RangeInv, TypeOK
<1>8. ASSUME NEW w \in Workers, ListPending(w) PROVE RangeInv'
  BY <1>8 DEF ListPending, dbVars, redisVars, envVars, RangeInv, TypeOK
<1>9. ASSUME NEW w \in Workers, PublishEvent(w) PROVE RangeInv'
  BY <1>9 DEF PublishEvent, dbVars, envVars, RangeInv, TypeOK
<1>10. ASSUME NEW w \in Workers, SkipPublished(w) PROVE RangeInv'
  BY <1>10 DEF SkipPublished, dbVars, redisVars, envVars, RangeInv, TypeOK
<1>11. ASSUME NEW w \in Workers, MarkPublished(w) PROVE RangeInv'
  BY <1>11 DEF MarkPublished, redisVars, envVars, RangeInv, TypeOK
<1>12. ASSUME NEW w \in Workers, PublishFails(w) PROVE RangeInv'
  BY <1>12 DEF PublishFails, dbVars, redisVars, RangeInv, TypeOK
<1>13. ASSUME NEW w \in Workers, ReclaimStale(w) PROVE RangeInv'
  <2>1. FirstOf(stale) \in SUBSET Nat /\ FirstOf(stale) \subseteq 1 .. delivered
    BY DEF FirstOf, TypeOK, RangeInv
  <2>2. NextMessage(w, FirstOf(stale), "reclaim")
    BY <1>13 DEF ReclaimStale
  <2>3. delivered \in Nat /\ delivered <= Len(stream)
    BY DEF RangeInv, TypeOK
  <2>4. \A v \in Workers : inbox'[v] \subseteq 1 .. delivered /\ msg'[v] <= Len(stream)
    BY <2>1, <2>2, <2>3, BatchInRange
  <2>5. UNCHANGED <<stream, delivered, pel, dlq>> /\ stale' \subseteq stale
    BY <1>13 DEF ReclaimStale
  <2> QED
    BY <2>4, <2>5 DEF RangeInv
<1>14. ASSUME NEW w \in Workers, ReadNew(w) PROVE RangeInv'
  <2>1. /\ delivered' \in Nat /\ delivered' <= Len(stream) /\ delivered <= delivered'
        /\ delivered \in Nat
    BY <1>14, BoundsAssumption DEF ReadNew, RangeInv, TypeOK
  <2>2. pel' = pel \cup (delivered + 1 .. delivered') /\ UNCHANGED <<stale, dlq, stream>>
    BY <1>14 DEF ReadNew
  <2>3. pel' \subseteq 1 .. delivered' /\ stale' \subseteq pel' /\ dlq' \subseteq 1 .. delivered'
    BY <2>1, <2>2 DEF RangeInv, TypeOK
  <2> DEFINE batch == delivered + 1 .. delivered'
  <2>4. batch \in SUBSET Nat /\ batch \subseteq 1 .. delivered'
    BY <2>1
  <2>5. NextMessage(w, batch, "consume")
    BY <1>14 DEF ReadNew
  <2> HIDE DEF batch
  <2>7. \A v \in Workers : inbox'[v] \subseteq 1 .. delivered' /\ msg'[v] <= Len(stream)
    BY <2>1, <2>4, <2>5, BatchInRange
  <2> QED
    BY <2>1, <2>2, <2>3, <2>7 DEF RangeInv
<1>15. ASSUME NEW w \in Workers, RejectMessage(w) PROVE RangeInv'
  BY <1>15 DEF RejectMessage, dbVars, redisVars, envVars, RangeInv, TypeOK
<1>16. ASSUME NEW w \in Workers, ClaimTerminal(w) PROVE RangeInv'
  BY <1>16 DEF ClaimTerminal, dbVars, redisVars, envVars, RangeInv, TypeOK
<1>17. ASSUME NEW w \in Workers, ClaimSkipped(w) PROVE RangeInv'
  <2>1. delivered \in Nat /\ delivered <= Len(stream)
    BY DEF RangeInv, TypeOK
  <2>2. inbox[w] \in SUBSET Nat /\ fetch[w] \in {"reclaim", "consume"}
    BY DEF TypeOK
  <2>3. inbox[w] \subseteq 1 .. delivered
    BY DEF RangeInv
  <2>4. NextMessage(w, inbox[w], fetch[w])
    BY <1>17 DEF ClaimSkipped
  <2>5. \A v \in Workers : inbox'[v] \subseteq 1 .. delivered /\ msg'[v] <= Len(stream)
    BY <2>1, <2>2, <2>3, <2>4, BatchInRange
  <2>6. UNCHANGED redisVars
    BY <1>17 DEF ClaimSkipped
  <2> QED
    BY <2>5, <2>6 DEF redisVars, RangeInv
<1>18. ASSUME NEW w \in Workers, ClaimExhausted(w) PROVE RangeInv'
  BY <1>18 DEF ClaimExhausted, dbVars, redisVars, envVars, RangeInv, TypeOK
<1>19. ASSUME NEW w \in Workers, ClaimGranted(w) PROVE RangeInv'
  BY <1>19 DEF ClaimGranted, dbVars, redisVars, envVars, RangeInv, TypeOK
<1>20. ASSUME NEW w \in Workers, SetJobStep(w) PROVE RangeInv'
  BY <1>20 DEF SetJobStep, dbVars, redisVars, envVars, RangeInv, TypeOK
<1>21. ASSUME NEW w \in Workers, PersistArtifact(w) PROVE RangeInv'
  BY <1>21 DEF PersistArtifact, redisVars, envVars, RangeInv, TypeOK
<1>22. ASSUME NEW w \in Workers, FinishHandler(w) PROVE RangeInv'
  BY <1>22 DEF FinishHandler, dbVars, redisVars, envVars, RangeInv, TypeOK
<1>23. ASSUME NEW w \in Workers, FailRetryable(w) PROVE RangeInv'
  BY <1>23 DEF FailRetryable, dbVars, redisVars, RangeInv, TypeOK
<1>24. ASSUME NEW w \in Workers, FailPermanently(w) PROVE RangeInv'
  BY <1>24 DEF FailPermanently, dbVars, redisVars, envVars, RangeInv, TypeOK
<1>25. ASSUME NEW w \in Workers, MarkSucceeded(w) PROVE RangeInv'
  BY <1>25 DEF MarkSucceeded, dbVars, redisVars, envVars, RangeInv, TypeOK
<1>26. ASSUME NEW w \in Workers, MarkDeadLetter(w) PROVE RangeInv'
  BY <1>26 DEF MarkDeadLetter, dbVars, redisVars, envVars, RangeInv, TypeOK
<1>27. ASSUME NEW w \in Workers, MarkRetryable(w) PROVE RangeInv'
  <2>1. delivered \in Nat /\ delivered <= Len(stream)
    BY DEF RangeInv, TypeOK
  <2>2. inbox[w] \in SUBSET Nat /\ fetch[w] \in {"reclaim", "consume"}
    BY DEF TypeOK
  <2>3. inbox[w] \subseteq 1 .. delivered
    BY DEF RangeInv
  <2>4. NextMessage(w, inbox[w], fetch[w])
    BY <1>27 DEF MarkRetryable
  <2>5. \A v \in Workers : inbox'[v] \subseteq 1 .. delivered /\ msg'[v] <= Len(stream)
    BY <2>1, <2>2, <2>3, <2>4, BatchInRange
  <2>6. UNCHANGED redisVars
    BY <1>27 DEF MarkRetryable
  <2> QED
    BY <2>5, <2>6 DEF redisVars, RangeInv
<1>28. ASSUME NEW w \in Workers, PublishDeadLetter(w) PROVE RangeInv'
  BY <1>28 DEF PublishDeadLetter, dbVars, envVars, RangeInv, TypeOK, TxInv, WorkerInv, Running, Handling
<1>29. ASSUME NEW w \in Workers, CommitOutcome(w) PROVE RangeInv'
  BY <1>29 DEF CommitOutcome, redisVars, envVars, RangeInv, TypeOK
<1>30. ASSUME NEW w \in Workers, Acknowledge(w) PROVE RangeInv'
  <2>1. delivered \in Nat /\ delivered <= Len(stream)
    BY DEF RangeInv, TypeOK
  <2>2. inbox[w] \in SUBSET Nat /\ fetch[w] \in {"reclaim", "consume"}
    BY DEF TypeOK
  <2>3. inbox[w] \subseteq 1 .. delivered
    BY DEF RangeInv
  <2>4. NextMessage(w, inbox[w], fetch[w])
    BY <1>30 DEF Acknowledge
  <2>5. \A v \in Workers : inbox'[v] \subseteq 1 .. delivered /\ msg'[v] <= Len(stream)
    BY <2>1, <2>2, <2>3, <2>4, BatchInRange
  <2>6. /\ UNCHANGED <<stream, delivered, dlq>>
        /\ pel' = pel \ {msg[w]} /\ stale' = stale \ {msg[w]}
    BY <1>30 DEF Acknowledge
  <2> QED
    BY <2>5, <2>6 DEF RangeInv
<1>31. ASSUME NEW w \in Workers, CycleFails(w) PROVE RangeInv'
  BY <1>31 DEF CycleFails, dbVars, redisVars, RangeInv, TypeOK, Abandon
<1>32. ASSUME NEW w \in Workers, Crash(w) PROVE RangeInv'
  BY <1>32 DEF Crash, dbVars, redisVars, RangeInv, TypeOK, Abandon
<1>33. ASSUME NEW w \in Workers, Restart(w) PROVE RangeInv'
  BY <1>33 DEF Restart, dbVars, redisVars, envVars, RangeInv, TypeOK
<1> QED
  BY <1>1, <1>2, <1>3, <1>4, <1>5, <1>6, <1>7, <1>8, <1>9, <1>10, <1>11, <1>12, <1>13, <1>14, <1>15, <1>16, <1>17, <1>18, <1>19, <1>20, <1>21, <1>22, <1>23, <1>24, <1>25, <1>26, <1>27, <1>28, <1>29, <1>30, <1>31, <1>32, <1>33
     DEF Next, Intake, Clock, Work, Misfortune, Relay, Fetch, Claim, Handle, Conclude

(* The job row, its outbox row and its message appear in this order. *)
LEMMA OutboxStep ==
    ASSUME TypeOK, RangeInv, OutboxInv, TxInv, Grows, [Next]_vars
    PROVE  OutboxInv'
<1>1. CASE UNCHANGED vars
  BY <1>1 DEF vars, dbVars, redisVars, workerVars, OutboxInv, TypeOK, FromOutbox
<1>2. CASE ForeignPublish
  <2>1. PICK b \in Foreign : stream' = Append(stream, b)
    BY <1>2 DEF ForeignPublish
  <2>2. b.job = NoJob \/ b.shape # "ok"
    BY ForeignAssumption
  <2>4. /\ Len(stream') = Len(stream) + 1
        /\ \A m \in 1 .. Len(stream) : stream'[m] = stream[m]
        /\ stream'[Len(stream) + 1] = b
    BY <2>1, ForeignAssumption DEF TypeOK
  <2>5. UNCHANGED <<row, event>>
    BY <1>2 DEF ForeignPublish, dbVars
  <2>6. \A m \in 1 .. Len(stream') : FromOutbox(m)' => m \in 1 .. Len(stream) /\ FromOutbox(m)
    <3>1. ~(stream'[Len(stream) + 1].job \in Jobs /\ stream'[Len(stream) + 1].shape = "ok")
      BY <2>2, <2>4, JobsAssumption
    <3>2. \A m \in 1 .. Len(stream') : m = Len(stream) + 1 \/ m \in 1 .. Len(stream)
      BY <2>4 DEF TypeOK
    <3> QED
      BY <2>4, <3>1, <3>2 DEF FromOutbox
  <2>7. 1 .. Len(stream) \subseteq 1 .. Len(stream')
    BY <2>4 DEF TypeOK
  <2>8. \A m \in 1 .. Len(stream) : FromOutbox(m)' <=> FromOutbox(m)
    BY <2>4 DEF FromOutbox
  <2> QED
    BY <2>4, <2>5, <2>6, <2>7, <2>8 DEF OutboxInv
<1>3. ASSUME NEW j \in Jobs, Upload(j) PROVE OutboxInv'
  BY <1>3 DEF Upload, redisVars, workerVars, OutboxInv, TypeOK, FromOutbox, Accept
<1>4. ASSUME NEW j \in Jobs, RequestRegeneration(j) PROVE OutboxInv'
  BY <1>4 DEF RequestRegeneration, redisVars, workerVars, OutboxInv, TypeOK, FromOutbox, Accept
<1>5. ASSUME NEW j \in Jobs, LeaseExpires(j) PROVE OutboxInv'
  <2>1. \A i \in Jobs : row'[i].status = row[i].status
    BY <1>5 DEF LeaseExpires, TypeOK, Rows
  <2>2. UNCHANGED <<event, stream>>
    BY <1>5 DEF LeaseExpires, redisVars
  <2> QED
    BY <2>1, <2>2 DEF OutboxInv, FromOutbox
<1>6. ASSUME NEW j \in Jobs, BackoffEnds(j) PROVE OutboxInv'
  <2>1. \A i \in Jobs : row'[i].status = row[i].status
    BY <1>6 DEF BackoffEnds, TypeOK, Rows
  <2>2. UNCHANGED <<event, stream>>
    BY <1>6 DEF BackoffEnds, redisVars
  <2> QED
    BY <2>1, <2>2 DEF OutboxInv, FromOutbox
<1>7. ASSUME NEW m \in Ids, BecomesStale(m) PROVE OutboxInv'
  BY <1>7 DEF BecomesStale, dbVars, workerVars, envVars, OutboxInv, TypeOK, FromOutbox
<1>8. ASSUME NEW w \in Workers, ListPending(w) PROVE OutboxInv'
  BY <1>8 DEF ListPending, dbVars, redisVars, envVars, OutboxInv, TypeOK, FromOutbox
<1>9. ASSUME NEW w \in Workers, PublishEvent(w) PROVE OutboxInv'
  BY <1>9 DEF PublishEvent, dbVars, envVars, OutboxInv, TypeOK, FromOutbox
<1>10. ASSUME NEW w \in Workers, SkipPublished(w) PROVE OutboxInv'
  BY <1>10 DEF SkipPublished, dbVars, redisVars, envVars, OutboxInv, TypeOK, FromOutbox
<1>11. ASSUME NEW w \in Workers, MarkPublished(w) PROVE OutboxInv'
  <2>1. msg[w] \in 1 .. Len(stream) /\ FromOutbox(msg[w])
    BY <1>11 DEF MarkPublished, TxInv, WorkerInv, RangeInv, TypeOK
  <2>2. row[JobOf(w)].status # "absent"
    BY <2>1 DEF OutboxInv, FromOutbox, JobOf
  <2> QED
    BY <1>11, <2>1, <2>2 DEF MarkPublished, redisVars, OutboxInv, FromOutbox, JobOf, TypeOK
<1>12. ASSUME NEW w \in Workers, PublishFails(w) PROVE OutboxInv'
  BY <1>12 DEF PublishFails, dbVars, redisVars, OutboxInv, TypeOK, FromOutbox
<1>13. ASSUME NEW w \in Workers, ReclaimStale(w) PROVE OutboxInv'
  BY <1>13 DEF ReclaimStale, dbVars, envVars, OutboxInv, TypeOK, FromOutbox
<1>14. ASSUME NEW w \in Workers, ReadNew(w) PROVE OutboxInv'
  BY <1>14 DEF ReadNew, dbVars, envVars, OutboxInv, TypeOK, FromOutbox
<1>15. ASSUME NEW w \in Workers, RejectMessage(w) PROVE OutboxInv'
  BY <1>15 DEF RejectMessage, dbVars, redisVars, envVars, OutboxInv, TypeOK, FromOutbox
<1>16. ASSUME NEW w \in Workers, ClaimTerminal(w) PROVE OutboxInv'
  BY <1>16 DEF ClaimTerminal, dbVars, redisVars, envVars, OutboxInv, TypeOK, FromOutbox
<1>17. ASSUME NEW w \in Workers, ClaimSkipped(w) PROVE OutboxInv'
  BY <1>17 DEF ClaimSkipped, dbVars, redisVars, envVars, OutboxInv, TypeOK, FromOutbox
<1>18. ASSUME NEW w \in Workers, ClaimExhausted(w) PROVE OutboxInv'
  BY <1>18 DEF ClaimExhausted, dbVars, redisVars, envVars, OutboxInv, TypeOK, FromOutbox
<1>19. ASSUME NEW w \in Workers, ClaimGranted(w) PROVE OutboxInv'
  BY <1>19 DEF ClaimGranted, dbVars, redisVars, envVars, OutboxInv, TypeOK, FromOutbox
<1>20. ASSUME NEW w \in Workers, SetJobStep(w) PROVE OutboxInv'
  BY <1>20 DEF SetJobStep, dbVars, redisVars, envVars, OutboxInv, TypeOK, FromOutbox
<1>21. ASSUME NEW w \in Workers, PersistArtifact(w) PROVE OutboxInv'
  <2>1. \A j \in Jobs : row'[j].status = "absent" <=> row[j].status = "absent"
    BY <1>21 DEF PersistArtifact, TypeOK, TxInv, WorkerInv
  <2>2. UNCHANGED <<event, stream>>
    BY <1>21 DEF PersistArtifact, redisVars
  <2> QED
    BY <2>1, <2>2 DEF OutboxInv, FromOutbox
<1>22. ASSUME NEW w \in Workers, FinishHandler(w) PROVE OutboxInv'
  BY <1>22 DEF FinishHandler, dbVars, redisVars, envVars, OutboxInv, TypeOK, FromOutbox
<1>23. ASSUME NEW w \in Workers, FailRetryable(w) PROVE OutboxInv'
  BY <1>23 DEF FailRetryable, dbVars, redisVars, OutboxInv, TypeOK, FromOutbox
<1>24. ASSUME NEW w \in Workers, FailPermanently(w) PROVE OutboxInv'
  BY <1>24 DEF FailPermanently, dbVars, redisVars, envVars, OutboxInv, TypeOK, FromOutbox
<1>25. ASSUME NEW w \in Workers, MarkSucceeded(w) PROVE OutboxInv'
  BY <1>25 DEF MarkSucceeded, dbVars, redisVars, envVars, OutboxInv, TypeOK, FromOutbox
<1>26. ASSUME NEW w \in Workers, MarkDeadLetter(w) PROVE OutboxInv'
  BY <1>26 DEF MarkDeadLetter, dbVars, redisVars, envVars, OutboxInv, TypeOK, FromOutbox
<1>27. ASSUME NEW w \in Workers, MarkRetryable(w) PROVE OutboxInv'
  <2>1. \A j \in Jobs : row'[j].status = "absent" <=> row[j].status = "absent"
    <3>1. row[JobOf(w)].status # "absent" /\ JobOf(w) \in Jobs
      BY <1>27 DEF MarkRetryable, TxInv, WorkerInv, Running
    <3>2. Seen(w) \in Rows
      BY <3>1, SeenType
    <3>3. [Seen(w) EXCEPT !.status = "retryable", !.lease = FALSE, !.due = FALSE].status # "absent"
      BY <3>2 DEF Rows
    <3> QED
      BY <1>27, <3>1, <3>3 DEF MarkRetryable, TypeOK
  <2>2. UNCHANGED <<event, stream>>
    BY <1>27 DEF MarkRetryable, redisVars
  <2> QED
    BY <2>1, <2>2 DEF OutboxInv, FromOutbox
<1>28. ASSUME NEW w \in Workers, PublishDeadLetter(w) PROVE OutboxInv'
  BY <1>28 DEF PublishDeadLetter, dbVars, envVars, OutboxInv, TypeOK, FromOutbox
<1>29. ASSUME NEW w \in Workers, CommitOutcome(w) PROVE OutboxInv'
  <2>1. \A j \in Jobs : row'[j].status = "absent" <=> row[j].status = "absent"
    <3>1. CASE tx[w] = NoTx
      BY <1>29, <3>1 DEF CommitOutcome
    <3>2. CASE tx[w] # NoTx
      <4>1. row[JobOf(w)].status # "absent" /\ tx[w].status # "absent" /\ JobOf(w) \in Jobs
        BY <3>2 DEF TxInv, WorkerInv
      <4>2. row' = [row EXCEPT ![JobOf(w)] = tx[w]]
        BY <1>29, <3>2 DEF CommitOutcome
      <4> QED
        BY <4>1, <4>2 DEF TypeOK
    <3> QED
      BY <3>1, <3>2
  <2>2. UNCHANGED <<event, stream>>
    BY <1>29 DEF CommitOutcome, redisVars
  <2> QED
    BY <2>1, <2>2 DEF OutboxInv, FromOutbox
<1>30. ASSUME NEW w \in Workers, Acknowledge(w) PROVE OutboxInv'
  BY <1>30 DEF Acknowledge, dbVars, envVars, OutboxInv, TypeOK, FromOutbox
<1>31. ASSUME NEW w \in Workers, CycleFails(w) PROVE OutboxInv'
  BY <1>31 DEF CycleFails, dbVars, redisVars, OutboxInv, TypeOK, FromOutbox, Abandon
<1>32. ASSUME NEW w \in Workers, Crash(w) PROVE OutboxInv'
  BY <1>32 DEF Crash, dbVars, redisVars, OutboxInv, TypeOK, FromOutbox, Abandon
<1>33. ASSUME NEW w \in Workers, Restart(w) PROVE OutboxInv'
  BY <1>33 DEF Restart, dbVars, redisVars, envVars, OutboxInv, TypeOK, FromOutbox
<1> QED
  BY <1>1, <1>2, <1>3, <1>4, <1>5, <1>6, <1>7, <1>8, <1>9, <1>10, <1>11, <1>12, <1>13, <1>14, <1>15, <1>16, <1>17, <1>18, <1>19, <1>20, <1>21, <1>22, <1>23, <1>24, <1>25, <1>26, <1>27, <1>28, <1>29, <1>30, <1>31, <1>32, <1>33
     DEF Next, Intake, Clock, Work, Misfortune, Relay, Fetch, Claim, Handle, Conclude

(* A committed terminal status is in the history, a committed dead_letter *)
(* in the dead-letter stream.                                             *)
LEMMA RowStep ==
    ASSUME TypeOK, RangeInv, RowInv, TxInv, Grows, [Next]_vars
    PROVE  RowInv'
<1>1. CASE UNCHANGED vars
  BY <1>1 DEF vars, dbVars, redisVars, workerVars, RowInv, TypeOK, InDlq, Grows, RangeInv
<1>2. CASE ForeignPublish
  BY <1>2 DEF ForeignPublish, dbVars, workerVars, envVars, RowInv, TypeOK, InDlq, Grows, RangeInv
<1>3. ASSUME NEW j \in Jobs, Upload(j) PROVE RowInv'
  BY <1>3 DEF Upload, redisVars, workerVars, RowInv, TypeOK, InDlq, Grows, RangeInv, Accept, Terminal
<1>4. ASSUME NEW j \in Jobs, RequestRegeneration(j) PROVE RowInv'
  BY <1>4 DEF RequestRegeneration, redisVars, workerVars, RowInv, TypeOK, InDlq, Grows, RangeInv, Accept, Terminal
<1>5. ASSUME NEW j \in Jobs, LeaseExpires(j) PROVE RowInv'
  BY <1>5 DEF LeaseExpires, redisVars, workerVars, envVars, RowInv, TypeOK, InDlq, Grows, RangeInv
<1>6. ASSUME NEW j \in Jobs, BackoffEnds(j) PROVE RowInv'
  BY <1>6 DEF BackoffEnds, redisVars, workerVars, envVars, RowInv, TypeOK, InDlq, Grows, RangeInv
<1>7. ASSUME NEW m \in Ids, BecomesStale(m) PROVE RowInv'
  BY <1>7 DEF BecomesStale, dbVars, workerVars, envVars, RowInv, TypeOK, InDlq, Grows, RangeInv
<1>8. ASSUME NEW w \in Workers, ListPending(w) PROVE RowInv'
  BY <1>8 DEF ListPending, dbVars, redisVars, envVars, RowInv, TypeOK, InDlq, Grows, RangeInv
<1>9. ASSUME NEW w \in Workers, PublishEvent(w) PROVE RowInv'
  BY <1>9 DEF PublishEvent, dbVars, envVars, RowInv, TypeOK, InDlq, Grows, RangeInv
<1>10. ASSUME NEW w \in Workers, SkipPublished(w) PROVE RowInv'
  BY <1>10 DEF SkipPublished, dbVars, redisVars, envVars, RowInv, TypeOK, InDlq, Grows, RangeInv
<1>11. ASSUME NEW w \in Workers, MarkPublished(w) PROVE RowInv'
  BY <1>11 DEF MarkPublished, redisVars, envVars, RowInv, TypeOK, InDlq, Grows, RangeInv
<1>12. ASSUME NEW w \in Workers, PublishFails(w) PROVE RowInv'
  BY <1>12 DEF PublishFails, dbVars, redisVars, RowInv, TypeOK, InDlq, Grows, RangeInv
<1>13. ASSUME NEW w \in Workers, ReclaimStale(w) PROVE RowInv'
  BY <1>13 DEF ReclaimStale, dbVars, envVars, RowInv, TypeOK, InDlq, Grows, RangeInv
<1>14. ASSUME NEW w \in Workers, ReadNew(w) PROVE RowInv'
  BY <1>14 DEF ReadNew, dbVars, envVars, RowInv, TypeOK, InDlq, Grows, RangeInv
<1>15. ASSUME NEW w \in Workers, RejectMessage(w) PROVE RowInv'
  BY <1>15 DEF RejectMessage, dbVars, redisVars, envVars, RowInv, TypeOK, InDlq, Grows, RangeInv
<1>16. ASSUME NEW w \in Workers, ClaimTerminal(w) PROVE RowInv'
  BY <1>16 DEF ClaimTerminal, dbVars, redisVars, envVars, RowInv, TypeOK, InDlq, Grows, RangeInv
<1>17. ASSUME NEW w \in Workers, ClaimSkipped(w) PROVE RowInv'
  BY <1>17 DEF ClaimSkipped, dbVars, redisVars, envVars, RowInv, TypeOK, InDlq, Grows, RangeInv
<1>18. ASSUME NEW w \in Workers, ClaimExhausted(w) PROVE RowInv'
  BY <1>18 DEF ClaimExhausted, dbVars, redisVars, envVars, RowInv, TypeOK, InDlq, Grows, RangeInv
<1>19. ASSUME NEW w \in Workers, ClaimGranted(w) PROVE RowInv'
  BY <1>19 DEF ClaimGranted, dbVars, redisVars, envVars, RowInv, TypeOK, InDlq, Grows, RangeInv
<1>20. ASSUME NEW w \in Workers, SetJobStep(w) PROVE RowInv'
  BY <1>20 DEF SetJobStep, dbVars, redisVars, envVars, RowInv, TypeOK, InDlq, Grows, RangeInv
<1>21. ASSUME NEW w \in Workers, PersistArtifact(w) PROVE RowInv'
  <2>1. tx[w].status \in Terminal => JobOf(w) \in settled
    BY <1>21 DEF PersistArtifact, TxInv, WorkerInv
  <2>2. tx[w].status = "dead_letter" => InDlq(JobOf(w))
    BY <1>21 DEF PersistArtifact, TxInv, WorkerInv
  <2>3. UNCHANGED <<dlq, stream, settled>>
    BY <1>21 DEF PersistArtifact, redisVars
  <2>4. \A j \in Jobs : row'[j] = row[j] \/ (j = JobOf(w) /\ row'[j] = tx[w])
    BY <1>21 DEF PersistArtifact, TypeOK
  <2> QED
    BY <2>1, <2>2, <2>3, <2>4 DEF RowInv, InDlq
<1>22. ASSUME NEW w \in Workers, FinishHandler(w) PROVE RowInv'
  BY <1>22 DEF FinishHandler, dbVars, redisVars, envVars, RowInv, TypeOK, InDlq, Grows, RangeInv
<1>23. ASSUME NEW w \in Workers, FailRetryable(w) PROVE RowInv'
  BY <1>23 DEF FailRetryable, dbVars, redisVars, RowInv, TypeOK, InDlq, Grows, RangeInv
<1>24. ASSUME NEW w \in Workers, FailPermanently(w) PROVE RowInv'
  BY <1>24 DEF FailPermanently, dbVars, redisVars, envVars, RowInv, TypeOK, InDlq, Grows, RangeInv
<1>25. ASSUME NEW w \in Workers, MarkSucceeded(w) PROVE RowInv'
  BY <1>25 DEF MarkSucceeded, dbVars, redisVars, envVars, RowInv, TypeOK, InDlq, Grows, RangeInv
<1>26. ASSUME NEW w \in Workers, MarkDeadLetter(w) PROVE RowInv'
  BY <1>26 DEF MarkDeadLetter, dbVars, redisVars, envVars, RowInv, TypeOK, InDlq, Grows, RangeInv
<1>27. ASSUME NEW w \in Workers, MarkRetryable(w) PROVE RowInv'
  BY <1>27 DEF MarkRetryable, redisVars, envVars, RowInv, TypeOK, InDlq, Grows, RangeInv, TxInv, WorkerInv, Terminal
<1>28. ASSUME NEW w \in Workers, PublishDeadLetter(w) PROVE RowInv'
  BY <1>28 DEF PublishDeadLetter, dbVars, envVars, RowInv, TypeOK, InDlq, Grows, RangeInv
<1>29. ASSUME NEW w \in Workers, CommitOutcome(w) PROVE RowInv'
  <2>1. CASE tx[w] = NoTx
    BY <1>29, <2>1 DEF CommitOutcome, redisVars, RowInv, InDlq
  <2>2. CASE tx[w] # NoTx
    <3>1. JobOf(w) \in settled' /\ settled \subseteq settled' /\ UNCHANGED <<dlq, stream>>
      BY <1>29, <2>2 DEF CommitOutcome, redisVars
    <3>2. tx[w].status = "dead_letter" => InDlq(JobOf(w))
      BY <1>29, <2>2 DEF CommitOutcome, TxInv, WorkerInv, InDlq, JobOf
    <3>3. \A j \in Jobs : row'[j] = row[j] \/ (j = JobOf(w) /\ row'[j] = tx[w])
      BY <1>29 DEF CommitOutcome, TypeOK
    <3> QED
      BY <3>1, <3>2, <3>3 DEF RowInv, InDlq
  <2> QED
    BY <2>1, <2>2
<1>30. ASSUME NEW w \in Workers, Acknowledge(w) PROVE RowInv'
  BY <1>30 DEF Acknowledge, dbVars, envVars, RowInv, TypeOK, InDlq, Grows, RangeInv
<1>31. ASSUME NEW w \in Workers, CycleFails(w) PROVE RowInv'
  BY <1>31 DEF CycleFails, dbVars, redisVars, RowInv, TypeOK, InDlq, Grows, RangeInv, Abandon
<1>32. ASSUME NEW w \in Workers, Crash(w) PROVE RowInv'
  BY <1>32 DEF Crash, dbVars, redisVars, RowInv, TypeOK, InDlq, Grows, RangeInv, Abandon
<1>33. ASSUME NEW w \in Workers, Restart(w) PROVE RowInv'
  BY <1>33 DEF Restart, dbVars, redisVars, envVars, RowInv, TypeOK, InDlq, Grows, RangeInv
<1> QED
  BY <1>1, <1>2, <1>3, <1>4, <1>5, <1>6, <1>7, <1>8, <1>9, <1>10, <1>11, <1>12, <1>13, <1>14, <1>15, <1>16, <1>17, <1>18, <1>19, <1>20, <1>21, <1>22, <1>23, <1>24, <1>25, <1>26, <1>27, <1>28, <1>29, <1>30, <1>31, <1>32, <1>33
     DEF Next, Intake, Clock, Work, Misfortune, Relay, Fetch, Claim, Handle, Conclude

(* Only Acknowledge takes a message from the pending list. *)
LEMMA AckedStep ==
    ASSUME TypeOK, RangeInv, TxInv, AckedIsAccounted, Grows, [Next]_vars
    PROVE  AckedIsAccounted'
<1>1. CASE UNCHANGED vars
  BY <1>1 DEF vars, dbVars, redisVars, workerVars, AckedIsAccounted, Acked, Accounted, FromOutbox, TypeOK, Grows, RangeInv
<1>2. CASE ForeignPublish
  BY <1>2 DEF ForeignPublish, dbVars, workerVars, envVars, AckedIsAccounted, Acked, Accounted, FromOutbox, TypeOK, Grows, RangeInv
<1>3. ASSUME NEW j \in Jobs, Upload(j) PROVE AckedIsAccounted'
  BY <1>3 DEF Upload, redisVars, workerVars, AckedIsAccounted, Acked, Accounted, FromOutbox, TypeOK, Grows, RangeInv, Accept
<1>4. ASSUME NEW j \in Jobs, RequestRegeneration(j) PROVE AckedIsAccounted'
  BY <1>4 DEF RequestRegeneration, redisVars, workerVars, AckedIsAccounted, Acked, Accounted, FromOutbox, TypeOK, Grows, RangeInv, Accept
<1>5. ASSUME NEW j \in Jobs, LeaseExpires(j) PROVE AckedIsAccounted'
  BY <1>5 DEF LeaseExpires, redisVars, workerVars, envVars, AckedIsAccounted, Acked, Accounted, FromOutbox, TypeOK, Grows, RangeInv
<1>6. ASSUME NEW j \in Jobs, BackoffEnds(j) PROVE AckedIsAccounted'
  BY <1>6 DEF BackoffEnds, redisVars, workerVars, envVars, AckedIsAccounted, Acked, Accounted, FromOutbox, TypeOK, Grows, RangeInv
<1>7. ASSUME NEW m \in Ids, BecomesStale(m) PROVE AckedIsAccounted'
  BY <1>7 DEF BecomesStale, dbVars, workerVars, envVars, AckedIsAccounted, Acked, Accounted, FromOutbox, TypeOK, Grows, RangeInv
<1>8. ASSUME NEW w \in Workers, ListPending(w) PROVE AckedIsAccounted'
  BY <1>8 DEF ListPending, dbVars, redisVars, envVars, AckedIsAccounted, Acked, Accounted, FromOutbox, TypeOK, Grows, RangeInv
<1>9. ASSUME NEW w \in Workers, PublishEvent(w) PROVE AckedIsAccounted'
  BY <1>9 DEF PublishEvent, dbVars, envVars, AckedIsAccounted, Acked, Accounted, FromOutbox, TypeOK, Grows, RangeInv
<1>10. ASSUME NEW w \in Workers, SkipPublished(w) PROVE AckedIsAccounted'
  BY <1>10 DEF SkipPublished, dbVars, redisVars, envVars, AckedIsAccounted, Acked, Accounted, FromOutbox, TypeOK, Grows, RangeInv
<1>11. ASSUME NEW w \in Workers, MarkPublished(w) PROVE AckedIsAccounted'
  BY <1>11 DEF MarkPublished, redisVars, envVars, AckedIsAccounted, Acked, Accounted, FromOutbox, TypeOK, Grows, RangeInv
<1>12. ASSUME NEW w \in Workers, PublishFails(w) PROVE AckedIsAccounted'
  BY <1>12 DEF PublishFails, dbVars, redisVars, AckedIsAccounted, Acked, Accounted, FromOutbox, TypeOK, Grows, RangeInv
<1>13. ASSUME NEW w \in Workers, ReclaimStale(w) PROVE AckedIsAccounted'
  BY <1>13 DEF ReclaimStale, dbVars, envVars, AckedIsAccounted, Acked, Accounted, FromOutbox, TypeOK, Grows, RangeInv
<1>14. ASSUME NEW w \in Workers, ReadNew(w) PROVE AckedIsAccounted'
  BY <1>14, BoundsAssumption DEF ReadNew, dbVars, envVars, AckedIsAccounted, Acked, Accounted, FromOutbox, TypeOK, Grows, RangeInv
<1>15. ASSUME NEW w \in Workers, RejectMessage(w) PROVE AckedIsAccounted'
  BY <1>15 DEF RejectMessage, dbVars, redisVars, envVars, AckedIsAccounted, Acked, Accounted, FromOutbox, TypeOK, Grows, RangeInv
<1>16. ASSUME NEW w \in Workers, ClaimTerminal(w) PROVE AckedIsAccounted'
  BY <1>16 DEF ClaimTerminal, dbVars, redisVars, envVars, AckedIsAccounted, Acked, Accounted, FromOutbox, TypeOK, Grows, RangeInv
<1>17. ASSUME NEW w \in Workers, ClaimSkipped(w) PROVE AckedIsAccounted'
  BY <1>17 DEF ClaimSkipped, dbVars, redisVars, envVars, AckedIsAccounted, Acked, Accounted, FromOutbox, TypeOK, Grows, RangeInv
<1>18. ASSUME NEW w \in Workers, ClaimExhausted(w) PROVE AckedIsAccounted'
  BY <1>18 DEF ClaimExhausted, dbVars, redisVars, envVars, AckedIsAccounted, Acked, Accounted, FromOutbox, TypeOK, Grows, RangeInv
<1>19. ASSUME NEW w \in Workers, ClaimGranted(w) PROVE AckedIsAccounted'
  BY <1>19 DEF ClaimGranted, dbVars, redisVars, envVars, AckedIsAccounted, Acked, Accounted, FromOutbox, TypeOK, Grows, RangeInv
<1>20. ASSUME NEW w \in Workers, SetJobStep(w) PROVE AckedIsAccounted'
  BY <1>20 DEF SetJobStep, dbVars, redisVars, envVars, AckedIsAccounted, Acked, Accounted, FromOutbox, TypeOK, Grows, RangeInv
<1>21. ASSUME NEW w \in Workers, PersistArtifact(w) PROVE AckedIsAccounted'
  BY <1>21 DEF PersistArtifact, redisVars, envVars, AckedIsAccounted, Acked, Accounted, FromOutbox, TypeOK, Grows, RangeInv
<1>22. ASSUME NEW w \in Workers, FinishHandler(w) PROVE AckedIsAccounted'
  BY <1>22 DEF FinishHandler, dbVars, redisVars, envVars, AckedIsAccounted, Acked, Accounted, FromOutbox, TypeOK, Grows, RangeInv
<1>23. ASSUME NEW w \in Workers, FailRetryable(w) PROVE AckedIsAccounted'
  BY <1>23 DEF FailRetryable, dbVars, redisVars, AckedIsAccounted, Acked, Accounted, FromOutbox, TypeOK, Grows, RangeInv
<1>24. ASSUME NEW w \in Workers, FailPermanently(w) PROVE AckedIsAccounted'
  BY <1>24 DEF FailPermanently, dbVars, redisVars, envVars, AckedIsAccounted, Acked, Accounted, FromOutbox, TypeOK, Grows, RangeInv
<1>25. ASSUME NEW w \in Workers, MarkSucceeded(w) PROVE AckedIsAccounted'
  BY <1>25 DEF MarkSucceeded, dbVars, redisVars, envVars, AckedIsAccounted, Acked, Accounted, FromOutbox, TypeOK, Grows, RangeInv
<1>26. ASSUME NEW w \in Workers, MarkDeadLetter(w) PROVE AckedIsAccounted'
  BY <1>26 DEF MarkDeadLetter, dbVars, redisVars, envVars, AckedIsAccounted, Acked, Accounted, FromOutbox, TypeOK, Grows, RangeInv
<1>27. ASSUME NEW w \in Workers, MarkRetryable(w) PROVE AckedIsAccounted'
  BY <1>27 DEF MarkRetryable, redisVars, envVars, AckedIsAccounted, Acked, Accounted, FromOutbox, TypeOK, Grows, RangeInv
<1>28. ASSUME NEW w \in Workers, PublishDeadLetter(w) PROVE AckedIsAccounted'
  BY <1>28 DEF PublishDeadLetter, dbVars, envVars, AckedIsAccounted, Acked, Accounted, FromOutbox, TypeOK, Grows, RangeInv
<1>29. ASSUME NEW w \in Workers, CommitOutcome(w) PROVE AckedIsAccounted'
  BY <1>29 DEF CommitOutcome, redisVars, envVars, AckedIsAccounted, Acked, Accounted, FromOutbox, TypeOK, Grows, RangeInv
<1>30. ASSUME NEW w \in Workers, Acknowledge(w) PROVE AckedIsAccounted'
  BY <1>30 DEF Acknowledge, dbVars, envVars, AckedIsAccounted, Acked, Accounted, FromOutbox, TypeOK, Grows, RangeInv, TxInv, WorkerInv
<1>31. ASSUME NEW w \in Workers, CycleFails(w) PROVE AckedIsAccounted'
  BY <1>31 DEF CycleFails, dbVars, redisVars, AckedIsAccounted, Acked, Accounted, FromOutbox, TypeOK, Grows, RangeInv, Abandon
<1>32. ASSUME NEW w \in Workers, Crash(w) PROVE AckedIsAccounted'
  BY <1>32 DEF Crash, dbVars, redisVars, AckedIsAccounted, Acked, Accounted, FromOutbox, TypeOK, Grows, RangeInv, Abandon
<1>33. ASSUME NEW w \in Workers, Restart(w) PROVE AckedIsAccounted'
  BY <1>33 DEF Restart, dbVars, redisVars, envVars, AckedIsAccounted, Acked, Accounted, FromOutbox, TypeOK, Grows, RangeInv
<1> QED
  BY <1>1, <1>2, <1>3, <1>4, <1>5, <1>6, <1>7, <1>8, <1>9, <1>10, <1>11, <1>12, <1>13, <1>14, <1>15, <1>16, <1>17, <1>18, <1>19, <1>20, <1>21, <1>22, <1>23, <1>24, <1>25, <1>26, <1>27, <1>28, <1>29, <1>30, <1>31, <1>32, <1>33
     DEF Next, Intake, Clock, Work, Misfortune, Relay, Fetch, Claim, Handle, Conclude

(* A step of one worker, of the API or of the clock keeps what is known of *)
(* another worker.                                                         *)
LEMMA OtherWorker ==
    ASSUME TypeOK, TypeOK', RangeInv, Grows, NEW v \in Workers, WorkerInv(v),
           pc'[v] = pc[v], msg'[v] = msg[v], tx'[v] = tx[v]
    PROVE  WorkerInv(v)'
<1>1. CASE pc[v] \in Handling \cup {"mark"} \/ tx[v] # NoTx
  <2>1. msg[v] \in 1 .. Len(stream)
    BY <1>1 DEF WorkerInv, RangeInv, TypeOK, Handling, Running
  <2>2. stream'[msg[v]] = stream[msg[v]] /\ delivered \in Nat /\ delivered' >= delivered
    BY <2>1 DEF Grows, TypeOK, RangeInv
  <2>3. /\ FromOutbox(msg[v])' <=> FromOutbox(msg[v])
        /\ Accounted(msg[v]) => Accounted(msg[v])'
        /\ JobOf(v)' = JobOf(v)
    BY <2>1, <2>2, Kept DEF JobOf
  <2>4. msg'[v] \in 1 .. delivered \/ pc[v] \notin Handling
    BY DEF WorkerInv
  <2>5. /\ JobOf(v) \in Jobs /\ row[JobOf(v)].status # "absent" =>
             JobOf(v) \in Jobs /\ row'[JobOf(v)].status # "absent"
        /\ JobOf(v) \in settled => JobOf(v) \in settled'
        /\ JobOf(v) \in Jobs /\ InDlq(JobOf(v)) => InDlq(JobOf(v))'
        /\ msg[v] \in dlq => msg[v] \in dlq'
    BY <2>3, Kept DEF Grows
  <2>6. pc'[v] \in Handling => msg'[v] \in 1 .. delivered'
    BY <2>2, <2>4 DEF TypeOK
  <2> QED
    BY <2>3, <2>5, <2>6 DEF WorkerInv
<1>2. CASE pc[v] \notin Handling \cup {"mark"} /\ tx[v] = NoTx
  BY <1>2 DEF WorkerInv, Handling, Running
<1> QED
  BY <1>1, <1>2

(* With nothing in hand there is nothing to keep. *)
LEMMA IdleWorker ==
    ASSUME NEW w \in Workers, tx'[w] = NoTx,
           pc'[w] \in {"list", "publish", "reclaim", "consume", "down"}
    PROVE  WorkerInv(w)'
BY DEF WorkerInv, Handling, Running

(* A message that was delivered can be handled. *)
LEMMA HandedMessage ==
    ASSUME NEW w \in Workers, tx'[w] = NoTx, pc'[w] = "handle", msg'[w] \in 1 .. delivered'
    PROVE  WorkerInv(w)'
BY DEF WorkerInv, Handling, Running

(* While a worker keeps its message, the message, its job and its place in *)
(* the pending list stay what they are.                                    *)
LEMMA SameMessage ==
    ASSUME TypeOK, TypeOK', RangeInv, Grows, NEW w \in Workers, WorkerInv(w),
           pc[w] \in Handling, msg'[w] = msg[w]
    PROVE  /\ msg'[w] \in 1 .. delivered' /\ msg[w] \in 1 .. Len(stream)
           /\ JobOf(w)' = JobOf(w)
           /\ FromOutbox(msg[w])' <=> FromOutbox(msg[w])
           /\ Accounted(msg[w]) => Accounted(msg[w])'
           /\ JobOf(w) \in Jobs /\ row[JobOf(w)].status # "absent" => row'[JobOf(w)].status # "absent"
           /\ JobOf(w) \in settled => JobOf(w) \in settled'
           /\ JobOf(w) \in Jobs /\ InDlq(JobOf(w)) => InDlq(JobOf(w))'
<1>1. msg[w] \in 1 .. delivered /\ delivered \in Nat /\ delivered' \in Nat /\ delivered <= delivered'
  BY DEF WorkerInv, TypeOK, Grows
<1>2. msg[w] \in 1 .. Len(stream)
  BY <1>1 DEF RangeInv, TypeOK
<1>3. stream'[msg[w]] = stream[msg[w]]
  BY <1>2 DEF Grows
<1> QED
  BY <1>1, <1>2, <1>3, Kept DEF JobOf, Grows

(* Going on with a batch leaves the worker idle or with a delivered message. *)
LEMMA BatchWorker ==
    ASSUME TypeOK, TypeOK', RangeInv, Grows, NEW w \in Workers,
           NEW source \in {"reclaim", "consume"}, NEW batch \in SUBSET Nat,
           batch \subseteq 1 .. delivered', NextMessage(w, batch, source), tx'[w] = NoTx
    PROVE  WorkerInv(w)'
<1>1. \/ pc'[w] = "handle" /\ msg'[w] \in batch
      \/ pc'[w] \in {"consume", "list"} /\ msg'[w] = 0
  BY NextMessageEffect
<1> QED
  BY <1>1, IdleWorker, HandedMessage

(* What a worker holds agrees with the database and with Redis. *)
LEMMA WorkerStep ==
    ASSUME TypeOK, TypeOK', RangeInv, OutboxInv, RowInv, TxInv, Grows, [Next]_vars
    PROVE  TxInv'
<1>1. CASE UNCHANGED vars
  BY <1>1, OtherWorker DEF vars, dbVars, redisVars, workerVars, TxInv
<1>2. CASE ForeignPublish
  BY <1>2, OtherWorker DEF ForeignPublish, dbVars, workerVars, envVars, TxInv
<1>3. ASSUME NEW j \in Jobs, Upload(j) PROVE TxInv'
  BY <1>3, OtherWorker DEF Upload, redisVars, workerVars, TxInv, Accept
<1>4. ASSUME NEW j \in Jobs, RequestRegeneration(j) PROVE TxInv'
  BY <1>4, OtherWorker DEF RequestRegeneration, redisVars, workerVars, TxInv, Accept
<1>5. ASSUME NEW j \in Jobs, LeaseExpires(j) PROVE TxInv'
  BY <1>5, OtherWorker DEF LeaseExpires, redisVars, workerVars, envVars, TxInv
<1>6. ASSUME NEW j \in Jobs, BackoffEnds(j) PROVE TxInv'
  BY <1>6, OtherWorker DEF BackoffEnds, redisVars, workerVars, envVars, TxInv
<1>7. ASSUME NEW m \in Ids, BecomesStale(m) PROVE TxInv'
  BY <1>7, OtherWorker DEF BecomesStale, dbVars, workerVars, envVars, TxInv
<1>8. ASSUME NEW w \in Workers, ListPending(w) PROVE TxInv'
  <2>1. \A v \in Workers \ {w} : pc'[v] = pc[v] /\ msg'[v] = msg[v] /\ tx'[v] = tx[v]
    BY <1>8 DEF ListPending, dbVars, redisVars, envVars, TypeOK, NextEvent
  <2>3. tx'[w] = NoTx
    BY <1>8 DEF ListPending, dbVars, redisVars, envVars, TypeOK, TxInv, WorkerInv, Running, NextEvent
  <2>4. pc'[w] \in {"list", "publish", "reclaim", "consume", "down"}
    BY <1>8 DEF ListPending, TypeOK, NextEvent
  <2>2. WorkerInv(w)'
    BY <2>3, <2>4, IdleWorker
  <2> QED
    BY <2>1, <2>2, OtherWorker DEF TxInv
<1>9. ASSUME NEW w \in Workers, PublishEvent(w) PROVE TxInv'
  <2>1. \A v \in Workers \ {w} : pc'[v] = pc[v] /\ msg'[v] = msg[v] /\ tx'[v] = tx[v]
    BY <1>9 DEF PublishEvent, dbVars, envVars, TypeOK
  <2>3. PICK j \in Jobs : stream' = Append(stream, [job |-> j, shape |-> "ok"])
    BY <1>9 DEF PublishEvent, TypeOK
  <2>4. pc'[w] = "mark" /\ msg'[w] = Len(stream) + 1 /\ msg'[w] > 0
    BY <1>9 DEF PublishEvent, TypeOK
  <2>5. stream'[Len(stream) + 1] = [job |-> j, shape |-> "ok"]
    BY <2>3 DEF TypeOK
  <2>6. tx'[w] = NoTx
    BY <1>9 DEF PublishEvent, TypeOK, TxInv, WorkerInv, Running
  <2>2. WorkerInv(w)'
    BY <2>4, <2>5, <2>6 DEF WorkerInv, Handling, Running, FromOutbox
  <2> QED
    BY <2>1, <2>2, OtherWorker DEF TxInv
<1>10. ASSUME NEW w \in Workers, SkipPublished(w) PROVE TxInv'
  <2>1. \A v \in Workers \ {w} : pc'[v] = pc[v] /\ msg'[v] = msg[v] /\ tx'[v] = tx[v]
    BY <1>10 DEF SkipPublished, dbVars, redisVars, envVars, TypeOK, NextEvent
  <2>3. tx'[w] = NoTx
    BY <1>10 DEF SkipPublished, dbVars, redisVars, envVars, TypeOK, TxInv, WorkerInv, Running, NextEvent
  <2>4. pc'[w] \in {"list", "publish", "reclaim", "consume", "down"}
    BY <1>10 DEF SkipPublished, TypeOK, NextEvent
  <2>2. WorkerInv(w)'
    BY <2>3, <2>4, IdleWorker
  <2> QED
    BY <2>1, <2>2, OtherWorker DEF TxInv
<1>11. ASSUME NEW w \in Workers, MarkPublished(w) PROVE TxInv'
  <2>1. \A v \in Workers \ {w} : pc'[v] = pc[v] /\ msg'[v] = msg[v] /\ tx'[v] = tx[v]
    BY <1>11 DEF MarkPublished, redisVars, envVars, TypeOK, NextEvent
  <2>3. tx'[w] = NoTx
    BY <1>11 DEF MarkPublished, redisVars, envVars, TypeOK, TxInv, WorkerInv, Running, NextEvent
  <2>4. pc'[w] \in {"list", "publish", "reclaim", "consume", "down"}
    BY <1>11 DEF MarkPublished, TypeOK, NextEvent
  <2>2. WorkerInv(w)'
    BY <2>3, <2>4, IdleWorker
  <2> QED
    BY <2>1, <2>2, OtherWorker DEF TxInv
<1>12. ASSUME NEW w \in Workers, PublishFails(w) PROVE TxInv'
  <2>1. \A v \in Workers \ {w} : pc'[v] = pc[v] /\ msg'[v] = msg[v] /\ tx'[v] = tx[v]
    BY <1>12 DEF PublishFails, dbVars, redisVars, TypeOK, NextEvent
  <2>3. tx'[w] = NoTx
    BY <1>12 DEF PublishFails, dbVars, redisVars, TypeOK, TxInv, WorkerInv, Running, NextEvent
  <2>4. pc'[w] \in {"list", "publish", "reclaim", "consume", "down"}
    BY <1>12 DEF PublishFails, TypeOK, NextEvent
  <2>2. WorkerInv(w)'
    BY <2>3, <2>4, IdleWorker
  <2> QED
    BY <2>1, <2>2, OtherWorker DEF TxInv
<1>13. ASSUME NEW w \in Workers, ReclaimStale(w) PROVE TxInv'
  <2>3. /\ FirstOf(stale) \in SUBSET Nat /\ FirstOf(stale) \subseteq 1 .. delivered'
        /\ "reclaim" \in {"reclaim", "consume"}
    BY <1>13 DEF ReclaimStale, FirstOf, TypeOK, RangeInv
  <2>4. NextMessage(w, FirstOf(stale), "reclaim")
    BY <1>13 DEF ReclaimStale
  <2>6. \A v \in Workers \ {w} : pc'[v] = pc[v] /\ msg'[v] = msg[v]
    BY <2>3, <2>4, NextMessageEffect
  <2>7. \A v \in Workers \ {w} : tx'[v] = tx[v]
    BY <1>13 DEF ReclaimStale, TypeOK
  <2>1. \A v \in Workers \ {w} : pc'[v] = pc[v] /\ msg'[v] = msg[v] /\ tx'[v] = tx[v]
    BY <2>6, <2>7
  <2>5. tx'[w] = NoTx
    BY <1>13 DEF ReclaimStale, Selected, TypeOK, TxInv, WorkerInv, Running
  <2>2. WorkerInv(w)'
    BY <2>3, <2>4, <2>5, BatchWorker
  <2> QED
    BY <2>1, <2>2, OtherWorker DEF TxInv
<1>14. ASSUME NEW w \in Workers, ReadNew(w) PROVE TxInv'
  <2>3. /\ delivered + 1 .. delivered' \in SUBSET Nat
        /\ delivered + 1 .. delivered' \subseteq 1 .. delivered'
        /\ "consume" \in {"reclaim", "consume"}
    BY <1>14 DEF ReadNew, TypeOK
  <2>4. NextMessage(w, delivered + 1 .. delivered', "consume")
    BY <1>14 DEF ReadNew
  <2>6. \A v \in Workers \ {w} : pc'[v] = pc[v] /\ msg'[v] = msg[v]
    BY <2>3, <2>4, NextMessageEffect
  <2>7. \A v \in Workers \ {w} : tx'[v] = tx[v]
    BY <1>14 DEF ReadNew, TypeOK
  <2>1. \A v \in Workers \ {w} : pc'[v] = pc[v] /\ msg'[v] = msg[v] /\ tx'[v] = tx[v]
    BY <2>6, <2>7
  <2>5. tx'[w] = NoTx
    BY <1>14 DEF ReadNew, Selected, TypeOK, TxInv, WorkerInv, Running
  <2>2. WorkerInv(w)'
    BY <2>3, <2>4, <2>5, BatchWorker
  <2> QED
    BY <2>1, <2>2, OtherWorker DEF TxInv
<1>15. ASSUME NEW w \in Workers, RejectMessage(w) PROVE TxInv'
  <2>1. \A v \in Workers \ {w} : pc'[v] = pc[v] /\ msg'[v] = msg[v] /\ tx'[v] = tx[v]
    BY <1>15 DEF RejectMessage, dbVars, redisVars, envVars, TypeOK
  <2>3. /\ WorkerInv(w) /\ pc[w] \in Handling /\ msg'[w] = msg[w]
    BY <1>15 DEF RejectMessage, dbVars, redisVars, envVars, TxInv, TypeOK, Handling, Running, Selected
  <2>4. ~FromOutbox(msg[w])
    BY <1>15, <2>3, SameMessage DEF RejectMessage, OutboxInv, FromOutbox, NamesJob, JobOf
  <2>5. pc'[w] = "dlq" /\ tx'[w] = NoTx
    BY <1>15 DEF RejectMessage, TypeOK, TxInv, WorkerInv, Running
  <2>2. WorkerInv(w)'
    BY <2>3, SameMessage, <2>4, <2>5 DEF WorkerInv, Handling, Running
  <2> QED
    BY <2>1, <2>2, OtherWorker DEF TxInv
<1>16. ASSUME NEW w \in Workers, ClaimTerminal(w) PROVE TxInv'
  <2>1. \A v \in Workers \ {w} : pc'[v] = pc[v] /\ msg'[v] = msg[v] /\ tx'[v] = tx[v]
    BY <1>16 DEF ClaimTerminal, dbVars, redisVars, envVars, TypeOK
  <2>3. /\ WorkerInv(w) /\ pc[w] \in Handling /\ msg'[w] = msg[w]
    BY <1>16 DEF ClaimTerminal, dbVars, redisVars, envVars, TxInv, TypeOK, Handling, Running, Selected
  <2>4. Accounted(msg[w])
    BY <1>16 DEF ClaimTerminal, Selected, NamesJob, RowInv, JobOf, Accounted
  <2>5. pc'[w] = "ack" /\ tx'[w] = NoTx
    BY <1>16 DEF ClaimTerminal, Selected, TypeOK, TxInv, WorkerInv, Running
  <2>2. WorkerInv(w)'
    BY <2>3, SameMessage, <2>4, <2>5 DEF WorkerInv, Handling, Running
  <2> QED
    BY <2>1, <2>2, OtherWorker DEF TxInv
<1>17. ASSUME NEW w \in Workers, ClaimSkipped(w) PROVE TxInv'
  <2>3. /\ inbox[w] \in SUBSET Nat /\ fetch[w] \in {"reclaim", "consume"}
        /\ inbox[w] \subseteq 1 .. delivered'
    BY <1>17 DEF ClaimSkipped, redisVars, TypeOK, RangeInv
  <2>4. NextMessage(w, inbox[w], fetch[w])
    BY <1>17 DEF ClaimSkipped
  <2>6. \A v \in Workers \ {w} : pc'[v] = pc[v] /\ msg'[v] = msg[v]
    BY <2>3, <2>4, NextMessageEffect
  <2>7. \A v \in Workers \ {w} : tx'[v] = tx[v]
    BY <1>17 DEF ClaimSkipped, TypeOK
  <2>1. \A v \in Workers \ {w} : pc'[v] = pc[v] /\ msg'[v] = msg[v] /\ tx'[v] = tx[v]
    BY <2>6, <2>7
  <2>5. tx'[w] = NoTx
    BY <1>17 DEF ClaimSkipped, Selected, TypeOK, TxInv, WorkerInv, Running
  <2>2. WorkerInv(w)'
    BY <2>3, <2>4, <2>5, BatchWorker
  <2> QED
    BY <2>1, <2>2, OtherWorker DEF TxInv
<1>18. ASSUME NEW w \in Workers, ClaimExhausted(w) PROVE TxInv'
  <2>1. \A v \in Workers \ {w} : pc'[v] = pc[v] /\ msg'[v] = msg[v] /\ tx'[v] = tx[v]
    BY <1>18 DEF ClaimExhausted, dbVars, redisVars, envVars, TypeOK
  <2>3. /\ WorkerInv(w) /\ pc[w] \in Handling /\ msg'[w] = msg[w]
    BY <1>18 DEF ClaimExhausted, dbVars, redisVars, envVars, TxInv, TypeOK, Handling, Running, Selected
  <2>4. JobOf(w) \in Jobs /\ row[JobOf(w)].status # "absent" /\ row[JobOf(w)] \in Rows
    BY <1>18 DEF ClaimExhausted, Selected, NamesJob, JobOf, TypeOK
  <2>5. pc'[w] = "dlq" /\ tx'[w] = DeadLettered(row[JobOf(w)])
    BY <1>18 DEF ClaimExhausted, TypeOK
  <2>7. DeadLettered(row[JobOf(w)]).status = "dead_letter"
    BY <2>4 DEF DeadLettered, Rows
  <2>8. DeadLettered(row[JobOf(w)]) \in Rows
    BY <2>4, RowWrites
  <2>6. tx'[w].status = "dead_letter" /\ tx'[w] # NoTx
    BY <2>5, <2>7, <2>8, TxAssumption
  <2>2. WorkerInv(w)'
    BY <2>3, SameMessage, <2>4, <2>5, <2>6 DEF WorkerInv, Handling, Running
  <2> QED
    BY <2>1, <2>2, OtherWorker DEF TxInv
<1>19. ASSUME NEW w \in Workers, ClaimGranted(w) PROVE TxInv'
  <2>1. \A v \in Workers \ {w} : pc'[v] = pc[v] /\ msg'[v] = msg[v] /\ tx'[v] = tx[v]
    BY <1>19 DEF ClaimGranted, dbVars, redisVars, envVars, TypeOK
  <2>3. /\ WorkerInv(w) /\ pc[w] \in Handling /\ msg'[w] = msg[w]
    BY <1>19 DEF ClaimGranted, dbVars, redisVars, envVars, TxInv, TypeOK, Handling, Running, Selected
  <2>4. JobOf(w) \in Jobs /\ row[JobOf(w)].status # "absent" /\ row[JobOf(w)] \in Rows
    BY <1>19 DEF ClaimGranted, Selected, NamesJob, JobOf, TypeOK
  <2> DEFINE claimed == [row[JobOf(w)] EXCEPT !.attempts = @ + 1, !.status = "running",
                                             !.lease = TRUE]
  <2>5. pc'[w] \in {"bury", "step"} /\ tx'[w] = claimed
    BY <1>19 DEF ClaimGranted, TypeOK
  <2>6. claimed \in Rows /\ claimed.status = "running"
    <3>1. row[JobOf(w)].attempts < MaxAttempts
      BY <1>19, <2>4, BoundsAssumption DEF ClaimGranted, Exhausted, Rows
    <3>2. claimed \in Rows
      BY <2>4, <3>1, RowWrites
    <3> QED
      BY <2>4, <3>2 DEF Rows
  <2>7. tx'[w] # NoTx /\ tx'[w].status = "running"
    BY <2>5, <2>6, TxAssumption
  <2> HIDE DEF claimed
  <2>2. WorkerInv(w)'
    BY <2>3, SameMessage, <2>4, <2>5, <2>7 DEF WorkerInv, Handling, Running, Terminal
  <2> QED
    BY <2>1, <2>2, OtherWorker DEF TxInv
<1>20. ASSUME NEW w \in Workers, SetJobStep(w) PROVE TxInv'
  <2>1. \A v \in Workers \ {w} : pc'[v] = pc[v] /\ msg'[v] = msg[v] /\ tx'[v] = tx[v]
    BY <1>20 DEF SetJobStep, dbVars, redisVars, envVars, TypeOK
  <2>3. /\ WorkerInv(w) /\ pc[w] \in Handling /\ msg'[w] = msg[w]
    BY <1>20 DEF SetJobStep, dbVars, redisVars, envVars, TxInv, TypeOK, Handling, Running, Selected
  <2>4. JobOf(w) \in Jobs /\ row[JobOf(w)].status # "absent"
    BY <1>20, <2>3 DEF SetJobStep, WorkerInv, Running
  <2>5. Seen(w) \in Rows
    BY <2>4, SeenType
  <2>6. /\ Seen(w).status # "absent" /\ (Seen(w).status \in Terminal => JobOf(w) \in settled)
        /\ Seen(w).status = "dead_letter" => InDlq(JobOf(w))
    BY <1>20, <2>3, <2>4 DEF SetJobStep, Seen, WorkerInv, RowInv, Running
  <2>7. pc'[w] = "work" /\ tx'[w] = Seen(w) /\ tx'[w] # NoTx
    BY <1>20, <2>5, TxAssumption DEF SetJobStep, TypeOK
  <2>2. WorkerInv(w)'
    BY <2>3, SameMessage, <2>4, <2>6, <2>7 DEF WorkerInv, Handling, Running
  <2> QED
    BY <2>1, <2>2, OtherWorker DEF TxInv
<1>21. ASSUME NEW w \in Workers, PersistArtifact(w) PROVE TxInv'
  <2>1. \A v \in Workers \ {w} : pc'[v] = pc[v] /\ msg'[v] = msg[v] /\ tx'[v] = tx[v]
    BY <1>21 DEF PersistArtifact, redisVars, envVars, TypeOK
  <2>3. /\ WorkerInv(w) /\ pc[w] \in Handling /\ msg'[w] = msg[w]
    BY <1>21 DEF PersistArtifact, redisVars, envVars, TxInv, TypeOK, Handling, Running, Selected
  <2>4. JobOf(w) \in Jobs /\ row[JobOf(w)].status # "absent"
    BY <1>21, <2>3 DEF PersistArtifact, WorkerInv, Running
  <2>5. pc'[w] = "step" /\ tx'[w] = NoTx
    BY <1>21 DEF PersistArtifact, TypeOK
  <2>2. WorkerInv(w)'
    BY <2>3, SameMessage, <2>4, <2>5 DEF WorkerInv, Handling, Running
  <2> QED
    BY <2>1, <2>2, OtherWorker DEF TxInv
<1>22. ASSUME NEW w \in Workers, FinishHandler(w) PROVE TxInv'
  <2>1. \A v \in Workers \ {w} : pc'[v] = pc[v] /\ msg'[v] = msg[v] /\ tx'[v] = tx[v]
    BY <1>22 DEF FinishHandler, dbVars, redisVars, envVars, TypeOK
  <2>3. /\ WorkerInv(w) /\ pc[w] \in Handling /\ msg'[w] = msg[w]
    BY <1>22 DEF FinishHandler, dbVars, redisVars, envVars, TxInv, TypeOK, Handling, Running, Selected
  <2>4. pc[w] = "work" /\ pc'[w] = "succeed" /\ (tx'[w] = tx[w] \/ tx'[w] = NoTx)
    BY <1>22 DEF FinishHandler, AfterFailure, TypeOK
  <2>2. WorkerInv(w)'
    BY <2>3, SameMessage, <2>4 DEF WorkerInv, Handling, Running
  <2> QED
    BY <2>1, <2>2, OtherWorker DEF TxInv
<1>23. ASSUME NEW w \in Workers, FailRetryable(w) PROVE TxInv'
  <2>1. \A v \in Workers \ {w} : pc'[v] = pc[v] /\ msg'[v] = msg[v] /\ tx'[v] = tx[v]
    BY <1>23 DEF FailRetryable, dbVars, redisVars, TypeOK, AfterFailure
  <2>3. /\ WorkerInv(w) /\ pc[w] \in Handling /\ msg'[w] = msg[w]
    BY <1>23 DEF FailRetryable, dbVars, redisVars, TxInv, TypeOK, Handling, Running, Selected
  <2>4. pc[w] = "work" /\ pc'[w] = "retry" /\ (tx'[w] = tx[w] \/ tx'[w] = NoTx)
    BY <1>23 DEF FailRetryable, AfterFailure, TypeOK
  <2>2. WorkerInv(w)'
    BY <2>3, SameMessage, <2>4 DEF WorkerInv, Handling, Running
  <2> QED
    BY <2>1, <2>2, OtherWorker DEF TxInv
<1>24. ASSUME NEW w \in Workers, FailPermanently(w) PROVE TxInv'
  <2>1. \A v \in Workers \ {w} : pc'[v] = pc[v] /\ msg'[v] = msg[v] /\ tx'[v] = tx[v]
    BY <1>24 DEF FailPermanently, dbVars, redisVars, envVars, TypeOK, AfterFailure
  <2>3. /\ WorkerInv(w) /\ pc[w] \in Handling /\ msg'[w] = msg[w]
    BY <1>24 DEF FailPermanently, dbVars, redisVars, envVars, TxInv, TypeOK, Handling, Running, Selected
  <2>4. pc[w] = "work" /\ pc'[w] = "bury" /\ (tx'[w] = tx[w] \/ tx'[w] = NoTx)
    BY <1>24 DEF FailPermanently, AfterFailure, TypeOK
  <2>2. WorkerInv(w)'
    BY <2>3, SameMessage, <2>4 DEF WorkerInv, Handling, Running
  <2> QED
    BY <2>1, <2>2, OtherWorker DEF TxInv
<1>25. ASSUME NEW w \in Workers, MarkSucceeded(w) PROVE TxInv'
  <2>1. \A v \in Workers \ {w} : pc'[v] = pc[v] /\ msg'[v] = msg[v] /\ tx'[v] = tx[v]
    BY <1>25 DEF MarkSucceeded, dbVars, redisVars, envVars, TypeOK
  <2>3. /\ WorkerInv(w) /\ pc[w] \in Handling /\ msg'[w] = msg[w]
    BY <1>25 DEF MarkSucceeded, dbVars, redisVars, envVars, TxInv, TypeOK, Handling, Running, Selected
  <2>4. JobOf(w) \in Jobs /\ row[JobOf(w)].status # "absent"
    BY <1>25, <2>3 DEF MarkSucceeded, WorkerInv, Running
  <2>5. Seen(w) \in Rows
    BY <2>4, SeenType
  <2> DEFINE done == [Seen(w) EXCEPT !.status = "succeeded", !.lease = FALSE]
  <2>6. done \in Rows /\ done.status = "succeeded"
    BY <2>5, RowWrites DEF Rows
  <2>7. pc'[w] = "commit" /\ tx'[w] = done
    BY <1>25 DEF MarkSucceeded, TypeOK
  <2>8. tx'[w] # NoTx /\ tx'[w].status = "succeeded"
    BY <2>6, <2>7, TxAssumption
  <2> HIDE DEF done
  <2>2. WorkerInv(w)'
    BY <2>3, SameMessage, <2>4, <2>7, <2>8 DEF WorkerInv, Handling, Running
  <2> QED
    BY <2>1, <2>2, OtherWorker DEF TxInv
<1>26. ASSUME NEW w \in Workers, MarkDeadLetter(w) PROVE TxInv'
  <2>1. \A v \in Workers \ {w} : pc'[v] = pc[v] /\ msg'[v] = msg[v] /\ tx'[v] = tx[v]
    BY <1>26 DEF MarkDeadLetter, dbVars, redisVars, envVars, TypeOK
  <2>3. /\ WorkerInv(w) /\ pc[w] \in Handling /\ msg'[w] = msg[w]
    BY <1>26 DEF MarkDeadLetter, dbVars, redisVars, envVars, TxInv, TypeOK, Handling, Running, Selected
  <2>4. JobOf(w) \in Jobs /\ row[JobOf(w)].status # "absent"
    BY <1>26, <2>3 DEF MarkDeadLetter, WorkerInv, Running
  <2>5. Seen(w) \in Rows
    BY <2>4, SeenType
  <2>6. DeadLettered(Seen(w)) \in Rows /\ DeadLettered(Seen(w)).status = "dead_letter"
    BY <2>5, RowWrites DEF DeadLettered, Rows
  <2>7. pc'[w] = "dlq" /\ tx'[w] = DeadLettered(Seen(w))
    BY <1>26 DEF MarkDeadLetter, TypeOK
  <2>8. tx'[w] # NoTx /\ tx'[w].status = "dead_letter"
    BY <2>6, <2>7, TxAssumption
  <2>2. WorkerInv(w)'
    BY <2>3, SameMessage, <2>4, <2>7, <2>8 DEF WorkerInv, Handling, Running
  <2> QED
    BY <2>1, <2>2, OtherWorker DEF TxInv
<1>27. ASSUME NEW w \in Workers, MarkRetryable(w) PROVE TxInv'
  <2>3. /\ inbox[w] \in SUBSET Nat /\ fetch[w] \in {"reclaim", "consume"}
        /\ inbox[w] \subseteq 1 .. delivered'
    BY <1>27 DEF MarkRetryable, redisVars, TypeOK, RangeInv
  <2>4. NextMessage(w, inbox[w], fetch[w])
    BY <1>27 DEF MarkRetryable
  <2>6. \A v \in Workers \ {w} : pc'[v] = pc[v] /\ msg'[v] = msg[v]
    BY <2>3, <2>4, NextMessageEffect
  <2>7. \A v \in Workers \ {w} : tx'[v] = tx[v]
    BY <1>27 DEF MarkRetryable, TypeOK
  <2>1. \A v \in Workers \ {w} : pc'[v] = pc[v] /\ msg'[v] = msg[v] /\ tx'[v] = tx[v]
    BY <2>6, <2>7
  <2>5. tx'[w] = NoTx
    BY <1>27 DEF MarkRetryable, Selected, TypeOK, TxInv, WorkerInv, Running
  <2>2. WorkerInv(w)'
    BY <2>3, <2>4, <2>5, BatchWorker
  <2> QED
    BY <2>1, <2>2, OtherWorker DEF TxInv
<1>28. ASSUME NEW w \in Workers, PublishDeadLetter(w) PROVE TxInv'
  <2>1. \A v \in Workers \ {w} : pc'[v] = pc[v] /\ msg'[v] = msg[v] /\ tx'[v] = tx[v]
    BY <1>28 DEF PublishDeadLetter, dbVars, envVars, TypeOK
  <2>3. /\ WorkerInv(w) /\ pc[w] \in Handling /\ msg'[w] = msg[w]
    BY <1>28 DEF PublishDeadLetter, dbVars, envVars, TxInv, TypeOK, Handling, Running, Selected
  <2>4. /\ pc[w] = "dlq" /\ pc'[w] = "commit" /\ tx'[w] = tx[w] /\ msg'[w] \in dlq'
        /\ tx[w] # NoTx \/ ~FromOutbox(msg[w])
    BY <1>28, <2>3 DEF PublishDeadLetter, TypeOK, WorkerInv
  <2>2. WorkerInv(w)'
    BY <2>3, SameMessage, <2>4 DEF WorkerInv, Handling, Running
  <2> QED
    BY <2>1, <2>2, OtherWorker DEF TxInv
<1>29. ASSUME NEW w \in Workers, CommitOutcome(w) PROVE TxInv'
  <2>1. \A v \in Workers \ {w} : pc'[v] = pc[v] /\ msg'[v] = msg[v] /\ tx'[v] = tx[v]
    BY <1>29 DEF CommitOutcome, redisVars, envVars, TypeOK
  <2>3. /\ WorkerInv(w) /\ pc[w] \in Handling /\ msg'[w] = msg[w]
    BY <1>29 DEF CommitOutcome, redisVars, envVars, TxInv, TypeOK, Handling, Running, Selected
  <2>4. pc[w] = "commit" /\ pc'[w] = "ack" /\ tx'[w] = NoTx
    BY <1>29 DEF CommitOutcome, TypeOK
  <2>5. Accounted(msg[w])'
    <3>1. CASE tx[w] = NoTx
      BY <1>29, <2>3, <3>1, SameMessage DEF CommitOutcome, WorkerInv, Accounted
    <3>2. CASE tx[w] # NoTx
      BY <1>29, <2>3, <3>2, SameMessage DEF CommitOutcome, JobOf, Accounted
    <3> QED
      BY <3>1, <3>2
  <2>2. WorkerInv(w)'
    BY <2>3, SameMessage, <2>4, <2>5 DEF WorkerInv, Handling, Running
  <2> QED
    BY <2>1, <2>2, OtherWorker DEF TxInv
<1>30. ASSUME NEW w \in Workers, Acknowledge(w) PROVE TxInv'
  <2>3. /\ inbox[w] \in SUBSET Nat /\ fetch[w] \in {"reclaim", "consume"}
        /\ inbox[w] \subseteq 1 .. delivered'
    BY <1>30 DEF Acknowledge, redisVars, TypeOK, RangeInv
  <2>4. NextMessage(w, inbox[w], fetch[w])
    BY <1>30 DEF Acknowledge
  <2>6. \A v \in Workers \ {w} : pc'[v] = pc[v] /\ msg'[v] = msg[v]
    BY <2>3, <2>4, NextMessageEffect
  <2>7. \A v \in Workers \ {w} : tx'[v] = tx[v]
    BY <1>30 DEF Acknowledge, TypeOK
  <2>1. \A v \in Workers \ {w} : pc'[v] = pc[v] /\ msg'[v] = msg[v] /\ tx'[v] = tx[v]
    BY <2>6, <2>7
  <2>5. tx'[w] = NoTx
    BY <1>30 DEF Acknowledge, Selected, TypeOK, TxInv, WorkerInv, Running
  <2>2. WorkerInv(w)'
    BY <2>3, <2>4, <2>5, BatchWorker
  <2> QED
    BY <2>1, <2>2, OtherWorker DEF TxInv
<1>31. ASSUME NEW w \in Workers, CycleFails(w) PROVE TxInv'
  <2>1. \A v \in Workers \ {w} : pc'[v] = pc[v] /\ msg'[v] = msg[v] /\ tx'[v] = tx[v]
    BY <1>31 DEF CycleFails, dbVars, redisVars, TypeOK, Abandon
  <2>3. tx'[w] = NoTx
    BY <1>31 DEF CycleFails, dbVars, redisVars, TypeOK, TxInv, WorkerInv, Running, Abandon
  <2>4. pc'[w] \in {"list", "publish", "reclaim", "consume", "down"}
    BY <1>31 DEF CycleFails, TypeOK, Abandon
  <2>2. WorkerInv(w)'
    BY <2>3, <2>4, IdleWorker
  <2> QED
    BY <2>1, <2>2, OtherWorker DEF TxInv
<1>32. ASSUME NEW w \in Workers, Crash(w) PROVE TxInv'
  <2>1. \A v \in Workers \ {w} : pc'[v] = pc[v] /\ msg'[v] = msg[v] /\ tx'[v] = tx[v]
    BY <1>32 DEF Crash, dbVars, redisVars, TypeOK, Abandon
  <2>3. tx'[w] = NoTx
    BY <1>32 DEF Crash, dbVars, redisVars, TypeOK, TxInv, WorkerInv, Running, Abandon
  <2>4. pc'[w] \in {"list", "publish", "reclaim", "consume", "down"}
    BY <1>32 DEF Crash, TypeOK, Abandon
  <2>2. WorkerInv(w)'
    BY <2>3, <2>4, IdleWorker
  <2> QED
    BY <2>1, <2>2, OtherWorker DEF TxInv
<1>33. ASSUME NEW w \in Workers, Restart(w) PROVE TxInv'
  <2>1. \A v \in Workers \ {w} : pc'[v] = pc[v] /\ msg'[v] = msg[v] /\ tx'[v] = tx[v]
    BY <1>33 DEF Restart, dbVars, redisVars, envVars, TypeOK
  <2>3. tx'[w] = NoTx
    BY <1>33 DEF Restart, dbVars, redisVars, envVars, TypeOK, TxInv, WorkerInv, Running
  <2>4. pc'[w] \in {"list", "publish", "reclaim", "consume", "down"}
    BY <1>33 DEF Restart, TypeOK
  <2>2. WorkerInv(w)'
    BY <2>3, <2>4, IdleWorker
  <2> QED
    BY <2>1, <2>2, OtherWorker DEF TxInv
<1> QED
  BY <1>1, <1>2, <1>3, <1>4, <1>5, <1>6, <1>7, <1>8, <1>9, <1>10, <1>11, <1>12, <1>13, <1>14, <1>15, <1>16, <1>17, <1>18, <1>19, <1>20, <1>21, <1>22, <1>23, <1>24, <1>25, <1>26, <1>27, <1>28, <1>29, <1>30, <1>31, <1>32, <1>33
     DEF Next, Intake, Clock, Work, Misfortune, Relay, Fetch, Claim, Handle, Conclude

(* The handler of a worker that does not move is not set back. *)
LEMMA OtherBuilt ==
    ASSUME TypeOK, TypeOK', RangeInv, Grows, NEW v \in Workers, WorkerInv(v), WorkerBuilt(v),
           pc'[v] = pc[v], msg'[v] = msg[v], tx'[v] = tx[v], stage'[v] = stage[v]
    PROVE  WorkerBuilt(v)'
<1>1. CASE pc[v] \in Running \/ tx[v] # NoTx
  <2>1. pc[v] \in Handling /\ JobOf(v) \in Jobs /\ row[JobOf(v)].status # "absent"
    BY <1>1 DEF WorkerInv, Handling, Running
  <2>2. JobOf(v)' = JobOf(v)
    BY <2>1, SameMessage
  <2>3. built[JobOf(v)] \subseteq built'[JobOf(v)] /\ built'[JobOf(v)] \subseteq Stages
    BY <2>1 DEF Grows, TypeOK
  <2>4. built[JobOf(v)] = Stages => built'[JobOf(v)] = Stages
    BY <2>3
  <2>5. 1 .. stage[v] - 1 \subseteq built[JobOf(v)] => 1 .. stage[v] - 1 \subseteq built'[JobOf(v)]
    BY <2>3
  <2> QED
    BY <2>2, <2>4, <2>5 DEF WorkerBuilt
<1>2. CASE pc[v] \notin Running /\ tx[v] = NoTx
  BY <1>2 DEF WorkerBuilt, Running
<1> QED
  BY <1>1, <1>2

(* Outside the handler there is no progress to keep. *)
LEMMA IdleBuilt ==
    ASSUME NEW w \in Workers, tx'[w] = NoTx \/ tx'[w].status # "succeeded", stage'[w] = 1,
           pc'[w] \notin {"step", "work", "succeed"}
    PROVE  WorkerBuilt(w)'
BY DEF WorkerBuilt

(* A job row reads succeeded only over a complete set of artifacts. *)
LEMMA BuiltRowStep ==
    ASSUME TypeOK, TypeOK', RangeInv, TxInv, BuiltInv, Grows, [Next]_vars
    PROVE  SucceededIsBuilt'
<1>1. CASE UNCHANGED vars
  BY <1>1 DEF vars, dbVars, redisVars, workerVars, SucceededIsBuilt, BuiltInv, TypeOK
<1>2. CASE ForeignPublish
  BY <1>2 DEF ForeignPublish, dbVars, workerVars, envVars, SucceededIsBuilt, BuiltInv, TypeOK
<1>3. ASSUME NEW j \in Jobs, Upload(j) PROVE SucceededIsBuilt'
  BY <1>3 DEF Upload, redisVars, workerVars, SucceededIsBuilt, BuiltInv, TypeOK, Accept
<1>4. ASSUME NEW j \in Jobs, RequestRegeneration(j) PROVE SucceededIsBuilt'
  BY <1>4 DEF RequestRegeneration, redisVars, workerVars, SucceededIsBuilt, BuiltInv, TypeOK, Accept
<1>5. ASSUME NEW j \in Jobs, LeaseExpires(j) PROVE SucceededIsBuilt'
  <2>1. \A i \in Jobs : row'[i].status = row[i].status
    BY <1>5 DEF LeaseExpires, TypeOK, Rows
  <2>2. UNCHANGED built
    BY <1>5 DEF LeaseExpires
  <2> QED
    BY <2>1, <2>2 DEF SucceededIsBuilt, BuiltInv
<1>6. ASSUME NEW j \in Jobs, BackoffEnds(j) PROVE SucceededIsBuilt'
  <2>1. \A i \in Jobs : row'[i].status = row[i].status
    BY <1>6 DEF BackoffEnds, TypeOK, Rows
  <2>2. UNCHANGED built
    BY <1>6 DEF BackoffEnds
  <2> QED
    BY <2>1, <2>2 DEF SucceededIsBuilt, BuiltInv
<1>7. ASSUME NEW m \in Ids, BecomesStale(m) PROVE SucceededIsBuilt'
  BY <1>7 DEF BecomesStale, dbVars, workerVars, envVars, SucceededIsBuilt, BuiltInv, TypeOK
<1>8. ASSUME NEW w \in Workers, ListPending(w) PROVE SucceededIsBuilt'
  BY <1>8 DEF ListPending, dbVars, redisVars, envVars, SucceededIsBuilt, BuiltInv, TypeOK
<1>9. ASSUME NEW w \in Workers, PublishEvent(w) PROVE SucceededIsBuilt'
  BY <1>9 DEF PublishEvent, dbVars, envVars, SucceededIsBuilt, BuiltInv, TypeOK
<1>10. ASSUME NEW w \in Workers, SkipPublished(w) PROVE SucceededIsBuilt'
  BY <1>10 DEF SkipPublished, dbVars, redisVars, envVars, SucceededIsBuilt, BuiltInv, TypeOK
<1>11. ASSUME NEW w \in Workers, MarkPublished(w) PROVE SucceededIsBuilt'
  BY <1>11 DEF MarkPublished, redisVars, envVars, SucceededIsBuilt, BuiltInv, TypeOK
<1>12. ASSUME NEW w \in Workers, PublishFails(w) PROVE SucceededIsBuilt'
  BY <1>12 DEF PublishFails, dbVars, redisVars, SucceededIsBuilt, BuiltInv, TypeOK
<1>13. ASSUME NEW w \in Workers, ReclaimStale(w) PROVE SucceededIsBuilt'
  BY <1>13 DEF ReclaimStale, dbVars, envVars, SucceededIsBuilt, BuiltInv, TypeOK
<1>14. ASSUME NEW w \in Workers, ReadNew(w) PROVE SucceededIsBuilt'
  BY <1>14 DEF ReadNew, dbVars, envVars, SucceededIsBuilt, BuiltInv, TypeOK
<1>15. ASSUME NEW w \in Workers, RejectMessage(w) PROVE SucceededIsBuilt'
  BY <1>15 DEF RejectMessage, dbVars, redisVars, envVars, SucceededIsBuilt, BuiltInv, TypeOK
<1>16. ASSUME NEW w \in Workers, ClaimTerminal(w) PROVE SucceededIsBuilt'
  BY <1>16 DEF ClaimTerminal, dbVars, redisVars, envVars, SucceededIsBuilt, BuiltInv, TypeOK
<1>17. ASSUME NEW w \in Workers, ClaimSkipped(w) PROVE SucceededIsBuilt'
  BY <1>17 DEF ClaimSkipped, dbVars, redisVars, envVars, SucceededIsBuilt, BuiltInv, TypeOK
<1>18. ASSUME NEW w \in Workers, ClaimExhausted(w) PROVE SucceededIsBuilt'
  BY <1>18 DEF ClaimExhausted, dbVars, redisVars, envVars, SucceededIsBuilt, BuiltInv, TypeOK
<1>19. ASSUME NEW w \in Workers, ClaimGranted(w) PROVE SucceededIsBuilt'
  BY <1>19 DEF ClaimGranted, dbVars, redisVars, envVars, SucceededIsBuilt, BuiltInv, TypeOK
<1>20. ASSUME NEW w \in Workers, SetJobStep(w) PROVE SucceededIsBuilt'
  BY <1>20 DEF SetJobStep, dbVars, redisVars, envVars, SucceededIsBuilt, BuiltInv, TypeOK
<1>21. ASSUME NEW w \in Workers, PersistArtifact(w) PROVE SucceededIsBuilt'
  <2>1. \A j \in Jobs : row'[j] = row[j] \/ (j = JobOf(w) /\ tx[w] # NoTx /\ row'[j] = tx[w])
    BY <1>21 DEF PersistArtifact, TypeOK, TxInv, WorkerInv
  <2>2. \A j \in Jobs : row[j].status # "absent" => built[j] \subseteq built'[j] /\ built'[j] \subseteq Stages
    BY DEF Grows, TypeOK
  <2>3. ASSUME NEW j \in Jobs, row'[j].status = "succeeded" PROVE built'[j] = Stages
    <3>1. CASE row'[j] = row[j]
      BY <2>2, <2>3, <3>1 DEF BuiltInv, SucceededIsBuilt
    <3>2. CASE j = JobOf(w) /\ tx[w] # NoTx /\ row'[j] = tx[w]
      BY <2>2, <2>3, <3>2 DEF BuiltInv, WorkerBuilt, TxInv, WorkerInv
    <3> QED
      BY <2>1, <3>1, <3>2
  <2> QED
    BY <2>3 DEF SucceededIsBuilt
<1>22. ASSUME NEW w \in Workers, FinishHandler(w) PROVE SucceededIsBuilt'
  BY <1>22 DEF FinishHandler, dbVars, redisVars, envVars, SucceededIsBuilt, BuiltInv, TypeOK
<1>23. ASSUME NEW w \in Workers, FailRetryable(w) PROVE SucceededIsBuilt'
  BY <1>23 DEF FailRetryable, dbVars, redisVars, SucceededIsBuilt, BuiltInv, TypeOK
<1>24. ASSUME NEW w \in Workers, FailPermanently(w) PROVE SucceededIsBuilt'
  BY <1>24 DEF FailPermanently, dbVars, redisVars, envVars, SucceededIsBuilt, BuiltInv, TypeOK
<1>25. ASSUME NEW w \in Workers, MarkSucceeded(w) PROVE SucceededIsBuilt'
  BY <1>25 DEF MarkSucceeded, dbVars, redisVars, envVars, SucceededIsBuilt, BuiltInv, TypeOK
<1>26. ASSUME NEW w \in Workers, MarkDeadLetter(w) PROVE SucceededIsBuilt'
  BY <1>26 DEF MarkDeadLetter, dbVars, redisVars, envVars, SucceededIsBuilt, BuiltInv, TypeOK
<1>27. ASSUME NEW w \in Workers, MarkRetryable(w) PROVE SucceededIsBuilt'
  <2>1. JobOf(w) \in Jobs
    BY <1>27 DEF MarkRetryable, TxInv, WorkerInv, Running
  <2>2. Seen(w) \in Rows
    BY <2>1, SeenType
  <2>3. \A j \in Jobs : row'[j] = row[j] \/ row'[j].status = "retryable"
    BY <1>27, <2>1, <2>2 DEF MarkRetryable, TypeOK, Rows
  <2>4. UNCHANGED built
    BY <1>27 DEF MarkRetryable
  <2> QED
    BY <2>3, <2>4 DEF SucceededIsBuilt, BuiltInv
<1>28. ASSUME NEW w \in Workers, PublishDeadLetter(w) PROVE SucceededIsBuilt'
  BY <1>28 DEF PublishDeadLetter, dbVars, envVars, SucceededIsBuilt, BuiltInv, TypeOK
<1>29. ASSUME NEW w \in Workers, CommitOutcome(w) PROVE SucceededIsBuilt'
  <2>1. \A j \in Jobs : row'[j] = row[j] \/ (j = JobOf(w) /\ tx[w] # NoTx /\ row'[j] = tx[w])
    BY <1>29 DEF CommitOutcome, TypeOK, TxInv, WorkerInv
  <2>2. \A j \in Jobs : row[j].status # "absent" => built[j] \subseteq built'[j] /\ built'[j] \subseteq Stages
    BY DEF Grows, TypeOK
  <2>3. ASSUME NEW j \in Jobs, row'[j].status = "succeeded" PROVE built'[j] = Stages
    <3>1. CASE row'[j] = row[j]
      BY <2>2, <2>3, <3>1 DEF BuiltInv, SucceededIsBuilt
    <3>2. CASE j = JobOf(w) /\ tx[w] # NoTx /\ row'[j] = tx[w]
      BY <2>2, <2>3, <3>2 DEF BuiltInv, WorkerBuilt, TxInv, WorkerInv
    <3> QED
      BY <2>1, <3>1, <3>2
  <2> QED
    BY <2>3 DEF SucceededIsBuilt
<1>30. ASSUME NEW w \in Workers, Acknowledge(w) PROVE SucceededIsBuilt'
  BY <1>30 DEF Acknowledge, dbVars, envVars, SucceededIsBuilt, BuiltInv, TypeOK
<1>31. ASSUME NEW w \in Workers, CycleFails(w) PROVE SucceededIsBuilt'
  BY <1>31 DEF CycleFails, dbVars, redisVars, SucceededIsBuilt, BuiltInv, TypeOK, Abandon
<1>32. ASSUME NEW w \in Workers, Crash(w) PROVE SucceededIsBuilt'
  BY <1>32 DEF Crash, dbVars, redisVars, SucceededIsBuilt, BuiltInv, TypeOK, Abandon
<1>33. ASSUME NEW w \in Workers, Restart(w) PROVE SucceededIsBuilt'
  BY <1>33 DEF Restart, dbVars, redisVars, envVars, SucceededIsBuilt, BuiltInv, TypeOK
<1> QED
  BY <1>1, <1>2, <1>3, <1>4, <1>5, <1>6, <1>7, <1>8, <1>9, <1>10, <1>11, <1>12, <1>13, <1>14, <1>15, <1>16, <1>17, <1>18, <1>19, <1>20, <1>21, <1>22, <1>23, <1>24, <1>25, <1>26, <1>27, <1>28, <1>29, <1>30, <1>31, <1>32, <1>33
     DEF Next, Intake, Clock, Work, Misfortune, Relay, Fetch, Claim, Handle, Conclude

(* A handler moves on only over the artifacts it has made durable. *)
LEMMA BuiltWorkerStep ==
    ASSUME TypeOK, TypeOK', RangeInv, TxInv, BuiltInv, Grows, [Next]_vars
    PROVE  (\A v \in Workers : WorkerBuilt(v))'
<1>1. CASE UNCHANGED vars
  BY <1>1, OtherBuilt DEF vars, dbVars, redisVars, workerVars, TxInv, BuiltInv
<1>2. CASE ForeignPublish
  BY <1>2, OtherBuilt DEF ForeignPublish, dbVars, workerVars, envVars, TxInv, BuiltInv
<1>3. ASSUME NEW j \in Jobs, Upload(j) PROVE (\A v \in Workers : WorkerBuilt(v))'
  BY <1>3, OtherBuilt DEF Upload, redisVars, workerVars, TxInv, BuiltInv, Accept
<1>4. ASSUME NEW j \in Jobs, RequestRegeneration(j) PROVE (\A v \in Workers : WorkerBuilt(v))'
  BY <1>4, OtherBuilt DEF RequestRegeneration, redisVars, workerVars, TxInv, BuiltInv, Accept
<1>5. ASSUME NEW j \in Jobs, LeaseExpires(j) PROVE (\A v \in Workers : WorkerBuilt(v))'
  BY <1>5, OtherBuilt DEF LeaseExpires, redisVars, workerVars, envVars, TxInv, BuiltInv
<1>6. ASSUME NEW j \in Jobs, BackoffEnds(j) PROVE (\A v \in Workers : WorkerBuilt(v))'
  BY <1>6, OtherBuilt DEF BackoffEnds, redisVars, workerVars, envVars, TxInv, BuiltInv
<1>7. ASSUME NEW m \in Ids, BecomesStale(m) PROVE (\A v \in Workers : WorkerBuilt(v))'
  BY <1>7, OtherBuilt DEF BecomesStale, dbVars, workerVars, envVars, TxInv, BuiltInv
<1>8. ASSUME NEW w \in Workers, ListPending(w) PROVE (\A v \in Workers : WorkerBuilt(v))'
  <2>1. \A v \in Workers \ {w} :
           pc'[v] = pc[v] /\ msg'[v] = msg[v] /\ tx'[v] = tx[v] /\ stage'[v] = stage[v]
    BY <1>8 DEF ListPending, dbVars, redisVars, envVars, TypeOK, NextEvent
  <2>3. tx'[w] = NoTx /\ stage'[w] = 1
    BY <1>8 DEF ListPending, dbVars, redisVars, envVars, TypeOK, TxInv, WorkerInv, Running, BuiltInv, WorkerBuilt, NextEvent
  <2>4. pc'[w] \notin {"step", "work", "succeed"}
    BY <1>8 DEF ListPending, TypeOK, NextEvent
  <2>2. WorkerBuilt(w)'
    BY <2>3, <2>4, IdleBuilt
  <2> QED
    BY <2>1, <2>2, OtherBuilt DEF TxInv, BuiltInv
<1>9. ASSUME NEW w \in Workers, PublishEvent(w) PROVE (\A v \in Workers : WorkerBuilt(v))'
  <2>1. \A v \in Workers \ {w} :
           pc'[v] = pc[v] /\ msg'[v] = msg[v] /\ tx'[v] = tx[v] /\ stage'[v] = stage[v]
    BY <1>9 DEF PublishEvent, dbVars, envVars, TypeOK
  <2>3. tx'[w] = NoTx /\ stage'[w] = 1
    BY <1>9 DEF PublishEvent, dbVars, envVars, TypeOK, TxInv, WorkerInv, Running, BuiltInv, WorkerBuilt
  <2>4. pc'[w] \notin {"step", "work", "succeed"}
    BY <1>9 DEF PublishEvent, TypeOK
  <2>2. WorkerBuilt(w)'
    BY <2>3, <2>4, IdleBuilt
  <2> QED
    BY <2>1, <2>2, OtherBuilt DEF TxInv, BuiltInv
<1>10. ASSUME NEW w \in Workers, SkipPublished(w) PROVE (\A v \in Workers : WorkerBuilt(v))'
  <2>1. \A v \in Workers \ {w} :
           pc'[v] = pc[v] /\ msg'[v] = msg[v] /\ tx'[v] = tx[v] /\ stage'[v] = stage[v]
    BY <1>10 DEF SkipPublished, dbVars, redisVars, envVars, TypeOK, NextEvent
  <2>3. tx'[w] = NoTx /\ stage'[w] = 1
    BY <1>10 DEF SkipPublished, dbVars, redisVars, envVars, TypeOK, TxInv, WorkerInv, Running, BuiltInv, WorkerBuilt, NextEvent
  <2>4. pc'[w] \notin {"step", "work", "succeed"}
    BY <1>10 DEF SkipPublished, TypeOK, NextEvent
  <2>2. WorkerBuilt(w)'
    BY <2>3, <2>4, IdleBuilt
  <2> QED
    BY <2>1, <2>2, OtherBuilt DEF TxInv, BuiltInv
<1>11. ASSUME NEW w \in Workers, MarkPublished(w) PROVE (\A v \in Workers : WorkerBuilt(v))'
  <2>1. \A v \in Workers \ {w} :
           pc'[v] = pc[v] /\ msg'[v] = msg[v] /\ tx'[v] = tx[v] /\ stage'[v] = stage[v]
    BY <1>11 DEF MarkPublished, redisVars, envVars, TypeOK, NextEvent
  <2>3. tx'[w] = NoTx /\ stage'[w] = 1
    BY <1>11 DEF MarkPublished, redisVars, envVars, TypeOK, TxInv, WorkerInv, Running, BuiltInv, WorkerBuilt, NextEvent
  <2>4. pc'[w] \notin {"step", "work", "succeed"}
    BY <1>11 DEF MarkPublished, TypeOK, NextEvent
  <2>2. WorkerBuilt(w)'
    BY <2>3, <2>4, IdleBuilt
  <2> QED
    BY <2>1, <2>2, OtherBuilt DEF TxInv, BuiltInv
<1>12. ASSUME NEW w \in Workers, PublishFails(w) PROVE (\A v \in Workers : WorkerBuilt(v))'
  <2>1. \A v \in Workers \ {w} :
           pc'[v] = pc[v] /\ msg'[v] = msg[v] /\ tx'[v] = tx[v] /\ stage'[v] = stage[v]
    BY <1>12 DEF PublishFails, dbVars, redisVars, TypeOK, NextEvent
  <2>3. tx'[w] = NoTx /\ stage'[w] = 1
    BY <1>12 DEF PublishFails, dbVars, redisVars, TypeOK, TxInv, WorkerInv, Running, BuiltInv, WorkerBuilt, NextEvent
  <2>4. pc'[w] \notin {"step", "work", "succeed"}
    BY <1>12 DEF PublishFails, TypeOK, NextEvent
  <2>2. WorkerBuilt(w)'
    BY <2>3, <2>4, IdleBuilt
  <2> QED
    BY <2>1, <2>2, OtherBuilt DEF TxInv, BuiltInv
<1>13. ASSUME NEW w \in Workers, ReclaimStale(w) PROVE (\A v \in Workers : WorkerBuilt(v))'
  <2>3. FirstOf(stale) \in SUBSET Nat /\ "reclaim" \in {"reclaim", "consume"}
    BY DEF FirstOf, TypeOK
  <2>4. NextMessage(w, FirstOf(stale), "reclaim")
    BY <1>13 DEF ReclaimStale
  <2>5. /\ \A v \in Workers \ {w} : pc'[v] = pc[v] /\ msg'[v] = msg[v]
        /\ pc'[w] \in {"handle", "consume", "list"}
    BY <2>3, <2>4, NextMessageEffect
  <2>6. UNCHANGED stage /\ \A v \in Workers \ {w} : tx'[v] = tx[v]
    BY <1>13 DEF ReclaimStale, TypeOK
  <2>1. \A v \in Workers \ {w} :
           pc'[v] = pc[v] /\ msg'[v] = msg[v] /\ tx'[v] = tx[v] /\ stage'[v] = stage[v]
    BY <2>5, <2>6
  <2>7. tx'[w] = NoTx /\ stage'[w] = 1
    BY <1>13, <2>6 DEF ReclaimStale, Selected, TypeOK, TxInv, WorkerInv, Running, BuiltInv, WorkerBuilt
  <2>2. WorkerBuilt(w)'
    BY <2>5, <2>7, IdleBuilt
  <2> QED
    BY <2>1, <2>2, OtherBuilt DEF TxInv, BuiltInv
<1>14. ASSUME NEW w \in Workers, ReadNew(w) PROVE (\A v \in Workers : WorkerBuilt(v))'
  <2>3. delivered + 1 .. delivered' \in SUBSET Nat /\ "consume" \in {"reclaim", "consume"}
    BY DEF TypeOK
  <2>4. NextMessage(w, delivered + 1 .. delivered', "consume")
    BY <1>14 DEF ReadNew
  <2>5. /\ \A v \in Workers \ {w} : pc'[v] = pc[v] /\ msg'[v] = msg[v]
        /\ pc'[w] \in {"handle", "consume", "list"}
    BY <2>3, <2>4, NextMessageEffect
  <2>6. UNCHANGED stage /\ \A v \in Workers \ {w} : tx'[v] = tx[v]
    BY <1>14 DEF ReadNew, TypeOK
  <2>1. \A v \in Workers \ {w} :
           pc'[v] = pc[v] /\ msg'[v] = msg[v] /\ tx'[v] = tx[v] /\ stage'[v] = stage[v]
    BY <2>5, <2>6
  <2>7. tx'[w] = NoTx /\ stage'[w] = 1
    BY <1>14, <2>6 DEF ReadNew, Selected, TypeOK, TxInv, WorkerInv, Running, BuiltInv, WorkerBuilt
  <2>2. WorkerBuilt(w)'
    BY <2>5, <2>7, IdleBuilt
  <2> QED
    BY <2>1, <2>2, OtherBuilt DEF TxInv, BuiltInv
<1>15. ASSUME NEW w \in Workers, RejectMessage(w) PROVE (\A v \in Workers : WorkerBuilt(v))'
  <2>1. \A v \in Workers \ {w} :
           pc'[v] = pc[v] /\ msg'[v] = msg[v] /\ tx'[v] = tx[v] /\ stage'[v] = stage[v]
    BY <1>15 DEF RejectMessage, dbVars, redisVars, envVars, TypeOK
  <2>3. tx'[w] = NoTx /\ stage'[w] = 1
    BY <1>15 DEF RejectMessage, dbVars, redisVars, envVars, TypeOK, TxInv, WorkerInv, Running, BuiltInv, WorkerBuilt
  <2>4. pc'[w] \notin {"step", "work", "succeed"}
    BY <1>15 DEF RejectMessage, TypeOK
  <2>2. WorkerBuilt(w)'
    BY <2>3, <2>4, IdleBuilt
  <2> QED
    BY <2>1, <2>2, OtherBuilt DEF TxInv, BuiltInv
<1>16. ASSUME NEW w \in Workers, ClaimTerminal(w) PROVE (\A v \in Workers : WorkerBuilt(v))'
  <2>1. \A v \in Workers \ {w} :
           pc'[v] = pc[v] /\ msg'[v] = msg[v] /\ tx'[v] = tx[v] /\ stage'[v] = stage[v]
    BY <1>16 DEF ClaimTerminal, dbVars, redisVars, envVars, TypeOK, Selected
  <2>3. tx'[w] = NoTx /\ stage'[w] = 1
    BY <1>16 DEF ClaimTerminal, dbVars, redisVars, envVars, TypeOK, TxInv, WorkerInv, Running, BuiltInv, WorkerBuilt, Selected
  <2>4. pc'[w] \notin {"step", "work", "succeed"}
    BY <1>16 DEF ClaimTerminal, TypeOK, Selected
  <2>2. WorkerBuilt(w)'
    BY <2>3, <2>4, IdleBuilt
  <2> QED
    BY <2>1, <2>2, OtherBuilt DEF TxInv, BuiltInv
<1>17. ASSUME NEW w \in Workers, ClaimSkipped(w) PROVE (\A v \in Workers : WorkerBuilt(v))'
  <2>3. inbox[w] \in SUBSET Nat /\ fetch[w] \in {"reclaim", "consume"}
    BY DEF TypeOK
  <2>4. NextMessage(w, inbox[w], fetch[w])
    BY <1>17 DEF ClaimSkipped
  <2>5. /\ \A v \in Workers \ {w} : pc'[v] = pc[v] /\ msg'[v] = msg[v]
        /\ pc'[w] \in {"handle", "consume", "list"}
    BY <2>3, <2>4, NextMessageEffect
  <2>6. UNCHANGED stage /\ \A v \in Workers \ {w} : tx'[v] = tx[v]
    BY <1>17 DEF ClaimSkipped, TypeOK
  <2>1. \A v \in Workers \ {w} :
           pc'[v] = pc[v] /\ msg'[v] = msg[v] /\ tx'[v] = tx[v] /\ stage'[v] = stage[v]
    BY <2>5, <2>6
  <2>7. tx'[w] = NoTx /\ stage'[w] = 1
    BY <1>17, <2>6 DEF ClaimSkipped, Selected, TypeOK, TxInv, WorkerInv, Running, BuiltInv, WorkerBuilt
  <2>2. WorkerBuilt(w)'
    BY <2>5, <2>7, IdleBuilt
  <2> QED
    BY <2>1, <2>2, OtherBuilt DEF TxInv, BuiltInv
<1>18. ASSUME NEW w \in Workers, ClaimExhausted(w) PROVE (\A v \in Workers : WorkerBuilt(v))'
  <2>1. \A v \in Workers \ {w} :
           pc'[v] = pc[v] /\ msg'[v] = msg[v] /\ tx'[v] = tx[v] /\ stage'[v] = stage[v]
    BY <1>18 DEF ClaimExhausted, dbVars, redisVars, envVars, TypeOK
  <2>3. JobOf(w) \in Jobs /\ row[JobOf(w)] \in Rows
    BY <1>18 DEF ClaimExhausted, Selected, NamesJob, JobOf, TypeOK
  <2>4. DeadLettered(row[JobOf(w)]).status = "dead_letter"
    BY <2>3 DEF DeadLettered, Rows
  <2>5. pc'[w] = "dlq" /\ stage'[w] = 1 /\ tx'[w] = DeadLettered(row[JobOf(w)])
    BY <1>18 DEF ClaimExhausted, Selected, TypeOK, BuiltInv, WorkerBuilt
  <2>2. WorkerBuilt(w)'
    BY <2>4, <2>5, IdleBuilt
  <2> QED
    BY <2>1, <2>2, OtherBuilt DEF TxInv, BuiltInv
<1>19. ASSUME NEW w \in Workers, ClaimGranted(w) PROVE (\A v \in Workers : WorkerBuilt(v))'
  <2>1. \A v \in Workers \ {w} :
           pc'[v] = pc[v] /\ msg'[v] = msg[v] /\ tx'[v] = tx[v] /\ stage'[v] = stage[v]
    BY <1>19 DEF ClaimGranted, dbVars, redisVars, envVars, TypeOK
  <2>3. JobOf(w) \in Jobs /\ row[JobOf(w)] \in Rows
    BY <1>19 DEF ClaimGranted, Selected, NamesJob, JobOf, TypeOK
  <2>4. pc'[w] \in {"step", "bury"} /\ stage'[w] = 1 /\ tx'[w].status = "running"
    BY <1>19, <2>3 DEF ClaimGranted, Selected, TypeOK, BuiltInv, WorkerBuilt, Rows
  <2>2. WorkerBuilt(w)'
    BY <2>4 DEF WorkerBuilt
  <2> QED
    BY <2>1, <2>2, OtherBuilt DEF TxInv, BuiltInv
<1>20. ASSUME NEW w \in Workers, SetJobStep(w) PROVE (\A v \in Workers : WorkerBuilt(v))'
  <2>1. \A v \in Workers \ {w} :
           pc'[v] = pc[v] /\ msg'[v] = msg[v] /\ tx'[v] = tx[v] /\ stage'[v] = stage[v]
    BY <1>20 DEF SetJobStep, dbVars, redisVars, envVars, TypeOK
  <2>3. /\ WorkerInv(w) /\ WorkerBuilt(w) /\ pc[w] \in Handling /\ msg'[w] = msg[w]
    BY <1>20 DEF SetJobStep, dbVars, redisVars, envVars, TxInv, BuiltInv, TypeOK, Handling, Running, Selected
  <2>4. JobOf(w)' = JobOf(w)
    BY <2>3, SameMessage
  <2>5. JobOf(w) \in Jobs /\ row[JobOf(w)].status # "absent"
    BY <1>20, <2>3 DEF SetJobStep, WorkerInv, Running
  <2>10. built[JobOf(w)] \subseteq built'[JobOf(w)] /\ built'[JobOf(w)] \subseteq Stages
    BY <2>5 DEF Grows, TypeOK
  <2>6. built[JobOf(w)] = Stages => built'[JobOf(w)] = Stages
    BY <2>10
  <2>7. Seen(w).status = "succeeded" => built[JobOf(w)] = Stages
    BY <2>3, <2>5 DEF Seen, WorkerBuilt, BuiltInv, SucceededIsBuilt
  <2>8. pc[w] = "step" /\ pc'[w] = "work" /\ tx'[w] = Seen(w) /\ stage'[w] = stage[w]
    BY <1>20 DEF SetJobStep, TypeOK
  <2>9. 1 .. stage'[w] - 1 \subseteq built'[JobOf(w)]
    BY <2>3, <2>8, <2>10 DEF WorkerBuilt
  <2>2. WorkerBuilt(w)'
    BY <2>3, <2>4, <2>6, <2>7, <2>8, <2>9 DEF WorkerBuilt
  <2> QED
    BY <2>1, <2>2, OtherBuilt DEF TxInv, BuiltInv
<1>21. ASSUME NEW w \in Workers, PersistArtifact(w) PROVE (\A v \in Workers : WorkerBuilt(v))'
  <2>1. \A v \in Workers \ {w} :
           pc'[v] = pc[v] /\ msg'[v] = msg[v] /\ tx'[v] = tx[v] /\ stage'[v] = stage[v]
    BY <1>21 DEF PersistArtifact, redisVars, envVars, TypeOK
  <2>3. /\ WorkerInv(w) /\ WorkerBuilt(w) /\ pc[w] \in Handling /\ msg'[w] = msg[w]
    BY <1>21 DEF PersistArtifact, redisVars, envVars, TxInv, BuiltInv, TypeOK, Handling, Running, Selected
  <2>4. JobOf(w)' = JobOf(w)
    BY <2>3, SameMessage
  <2>5. JobOf(w) \in Jobs /\ row[JobOf(w)].status # "absent"
    BY <1>21, <2>3 DEF PersistArtifact, WorkerInv, Running
  <2>10. built[JobOf(w)] \subseteq built'[JobOf(w)] /\ built'[JobOf(w)] \subseteq Stages
    BY <2>5 DEF Grows, TypeOK
  <2>6. built[JobOf(w)] = Stages => built'[JobOf(w)] = Stages
    BY <2>10
  <2>7. /\ pc[w] = "work" /\ pc'[w] = "step" /\ tx'[w] = NoTx
        /\ stage'[w] = stage[w] + 1 /\ stage[w] \in Nat
    BY <1>21 DEF PersistArtifact, TypeOK
  <2>8. stage[w] \in built'[JobOf(w)]
    BY <1>21, <2>5 DEF PersistArtifact, TypeOK
  <2>11. 1 .. stage[w] - 1 \subseteq built'[JobOf(w)]
    BY <2>3, <2>7, <2>10 DEF WorkerBuilt
  <2>9. 1 .. stage'[w] - 1 \subseteq built'[JobOf(w)]
    BY <2>7, <2>8, <2>11
  <2>2. WorkerBuilt(w)'
    BY <2>3, <2>4, <2>7, <2>9 DEF WorkerBuilt
  <2> QED
    BY <2>1, <2>2, OtherBuilt DEF TxInv, BuiltInv
<1>22. ASSUME NEW w \in Workers, FinishHandler(w) PROVE (\A v \in Workers : WorkerBuilt(v))'
  <2>1. \A v \in Workers \ {w} :
           pc'[v] = pc[v] /\ msg'[v] = msg[v] /\ tx'[v] = tx[v] /\ stage'[v] = stage[v]
    BY <1>22 DEF FinishHandler, dbVars, redisVars, envVars, TypeOK
  <2>3. /\ WorkerInv(w) /\ WorkerBuilt(w) /\ pc[w] \in Handling /\ msg'[w] = msg[w]
    BY <1>22 DEF FinishHandler, dbVars, redisVars, envVars, TxInv, BuiltInv, TypeOK, Handling, Running, Selected
  <2>4. JobOf(w)' = JobOf(w)
    BY <2>3, SameMessage
  <2>5. JobOf(w) \in Jobs /\ row[JobOf(w)].status # "absent"
    BY <1>22, <2>3 DEF FinishHandler, WorkerInv, Running
  <2>10. built[JobOf(w)] \subseteq built'[JobOf(w)] /\ built'[JobOf(w)] \subseteq Stages
    BY <2>5 DEF Grows, TypeOK
  <2>6. built[JobOf(w)] = Stages => built'[JobOf(w)] = Stages
    BY <2>10
  <2>7. /\ pc[w] = "work" /\ pc'[w] = "succeed" /\ tx'[w] = tx[w]
        /\ stage'[w] = 1 /\ stage[w] = NumStages + 1
    BY <1>22 DEF FinishHandler, TypeOK
  <2>8. 1 .. stage[w] - 1 = Stages
    BY <2>7, BoundsAssumption DEF Stages
  <2>9. built[JobOf(w)] = Stages
    BY <2>3, <2>5, <2>7, <2>8 DEF WorkerBuilt, TypeOK
  <2>2. WorkerBuilt(w)'
    BY <2>3, <2>4, <2>6, <2>7, <2>9 DEF WorkerBuilt
  <2> QED
    BY <2>1, <2>2, OtherBuilt DEF TxInv, BuiltInv
<1>23. ASSUME NEW w \in Workers, FailRetryable(w) PROVE (\A v \in Workers : WorkerBuilt(v))'
  <2>1. \A v \in Workers \ {w} :
           pc'[v] = pc[v] /\ msg'[v] = msg[v] /\ tx'[v] = tx[v] /\ stage'[v] = stage[v]
    BY <1>23 DEF FailRetryable, dbVars, redisVars, TypeOK, AfterFailure
  <2>3. /\ WorkerInv(w) /\ WorkerBuilt(w) /\ pc[w] \in Handling /\ msg'[w] = msg[w]
    BY <1>23 DEF FailRetryable, dbVars, redisVars, TxInv, BuiltInv, TypeOK, Handling, Running, Selected
  <2>4. JobOf(w)' = JobOf(w)
    BY <2>3, SameMessage
  <2>5. JobOf(w) \in Jobs /\ row[JobOf(w)].status # "absent"
    BY <1>23, <2>3 DEF FailRetryable, WorkerInv, Running
  <2>10. built[JobOf(w)] \subseteq built'[JobOf(w)] /\ built'[JobOf(w)] \subseteq Stages
    BY <2>5 DEF Grows, TypeOK
  <2>6. built[JobOf(w)] = Stages => built'[JobOf(w)] = Stages
    BY <2>10
  <2>7. pc'[w] = "retry" /\ stage'[w] = 1 /\ (tx'[w] = tx[w] \/ tx'[w] = NoTx)
    BY <1>23 DEF FailRetryable, AfterFailure, TypeOK
  <2>2. WorkerBuilt(w)'
    BY <2>3, <2>4, <2>6, <2>7 DEF WorkerBuilt
  <2> QED
    BY <2>1, <2>2, OtherBuilt DEF TxInv, BuiltInv
<1>24. ASSUME NEW w \in Workers, FailPermanently(w) PROVE (\A v \in Workers : WorkerBuilt(v))'
  <2>1. \A v \in Workers \ {w} :
           pc'[v] = pc[v] /\ msg'[v] = msg[v] /\ tx'[v] = tx[v] /\ stage'[v] = stage[v]
    BY <1>24 DEF FailPermanently, dbVars, redisVars, envVars, TypeOK, AfterFailure
  <2>3. /\ WorkerInv(w) /\ WorkerBuilt(w) /\ pc[w] \in Handling /\ msg'[w] = msg[w]
    BY <1>24 DEF FailPermanently, dbVars, redisVars, envVars, TxInv, BuiltInv, TypeOK, Handling, Running, Selected
  <2>4. JobOf(w)' = JobOf(w)
    BY <2>3, SameMessage
  <2>5. JobOf(w) \in Jobs /\ row[JobOf(w)].status # "absent"
    BY <1>24, <2>3 DEF FailPermanently, WorkerInv, Running
  <2>10. built[JobOf(w)] \subseteq built'[JobOf(w)] /\ built'[JobOf(w)] \subseteq Stages
    BY <2>5 DEF Grows, TypeOK
  <2>6. built[JobOf(w)] = Stages => built'[JobOf(w)] = Stages
    BY <2>10
  <2>7. pc'[w] = "bury" /\ stage'[w] = 1 /\ (tx'[w] = tx[w] \/ tx'[w] = NoTx)
    BY <1>24 DEF FailPermanently, AfterFailure, TypeOK
  <2>2. WorkerBuilt(w)'
    BY <2>3, <2>4, <2>6, <2>7 DEF WorkerBuilt
  <2> QED
    BY <2>1, <2>2, OtherBuilt DEF TxInv, BuiltInv
<1>25. ASSUME NEW w \in Workers, MarkSucceeded(w) PROVE (\A v \in Workers : WorkerBuilt(v))'
  <2>1. \A v \in Workers \ {w} :
           pc'[v] = pc[v] /\ msg'[v] = msg[v] /\ tx'[v] = tx[v] /\ stage'[v] = stage[v]
    BY <1>25 DEF MarkSucceeded, dbVars, redisVars, envVars, TypeOK
  <2>3. /\ WorkerInv(w) /\ WorkerBuilt(w) /\ pc[w] \in Handling /\ msg'[w] = msg[w]
    BY <1>25 DEF MarkSucceeded, dbVars, redisVars, envVars, TxInv, BuiltInv, TypeOK, Handling, Running, Selected
  <2>4. JobOf(w)' = JobOf(w)
    BY <2>3, SameMessage
  <2>5. JobOf(w) \in Jobs /\ row[JobOf(w)].status # "absent"
    BY <1>25, <2>3 DEF MarkSucceeded, WorkerInv, Running
  <2>10. built[JobOf(w)] \subseteq built'[JobOf(w)] /\ built'[JobOf(w)] \subseteq Stages
    BY <2>5 DEF Grows, TypeOK
  <2>6. built[JobOf(w)] = Stages => built'[JobOf(w)] = Stages
    BY <2>10
  <2>7. pc[w] = "succeed" /\ pc'[w] = "commit" /\ stage'[w] = stage[w]
    BY <1>25 DEF MarkSucceeded, TypeOK
  <2>2. WorkerBuilt(w)'
    BY <2>3, <2>4, <2>6, <2>7 DEF WorkerBuilt
  <2> QED
    BY <2>1, <2>2, OtherBuilt DEF TxInv, BuiltInv
<1>26. ASSUME NEW w \in Workers, MarkDeadLetter(w) PROVE (\A v \in Workers : WorkerBuilt(v))'
  <2>1. \A v \in Workers \ {w} :
           pc'[v] = pc[v] /\ msg'[v] = msg[v] /\ tx'[v] = tx[v] /\ stage'[v] = stage[v]
    BY <1>26 DEF MarkDeadLetter, dbVars, redisVars, envVars, TypeOK
  <2>3. /\ WorkerInv(w) /\ WorkerBuilt(w) /\ pc[w] \in Handling /\ msg'[w] = msg[w]
    BY <1>26 DEF MarkDeadLetter, dbVars, redisVars, envVars, TxInv, BuiltInv, TypeOK, Handling, Running, Selected
  <2>4. JobOf(w)' = JobOf(w)
    BY <2>3, SameMessage
  <2>5. JobOf(w) \in Jobs /\ row[JobOf(w)].status # "absent"
    BY <1>26, <2>3 DEF MarkDeadLetter, WorkerInv, Running
  <2>10. built[JobOf(w)] \subseteq built'[JobOf(w)] /\ built'[JobOf(w)] \subseteq Stages
    BY <2>5 DEF Grows, TypeOK
  <2>6. built[JobOf(w)] = Stages => built'[JobOf(w)] = Stages
    BY <2>10
  <2>7. Seen(w) \in Rows
    BY <2>5, SeenType
  <2>8. DeadLettered(Seen(w)).status = "dead_letter"
    BY <2>7 DEF DeadLettered, Rows
  <2>9. /\ pc[w] = "bury" /\ pc'[w] = "dlq" /\ stage'[w] = stage[w]
        /\ tx'[w] = DeadLettered(Seen(w))
    BY <1>26 DEF MarkDeadLetter, TypeOK
  <2>2. WorkerBuilt(w)'
    BY <2>3, <2>4, <2>6, <2>8, <2>9 DEF WorkerBuilt
  <2> QED
    BY <2>1, <2>2, OtherBuilt DEF TxInv, BuiltInv
<1>27. ASSUME NEW w \in Workers, MarkRetryable(w) PROVE (\A v \in Workers : WorkerBuilt(v))'
  <2>3. inbox[w] \in SUBSET Nat /\ fetch[w] \in {"reclaim", "consume"}
    BY DEF TypeOK
  <2>4. NextMessage(w, inbox[w], fetch[w])
    BY <1>27 DEF MarkRetryable
  <2>5. /\ \A v \in Workers \ {w} : pc'[v] = pc[v] /\ msg'[v] = msg[v]
        /\ pc'[w] \in {"handle", "consume", "list"}
    BY <2>3, <2>4, NextMessageEffect
  <2>6. UNCHANGED stage /\ \A v \in Workers \ {w} : tx'[v] = tx[v]
    BY <1>27 DEF MarkRetryable, TypeOK
  <2>1. \A v \in Workers \ {w} :
           pc'[v] = pc[v] /\ msg'[v] = msg[v] /\ tx'[v] = tx[v] /\ stage'[v] = stage[v]
    BY <2>5, <2>6
  <2>7. tx'[w] = NoTx /\ stage'[w] = 1
    BY <1>27, <2>6 DEF MarkRetryable, Selected, TypeOK, TxInv, WorkerInv, Running, BuiltInv, WorkerBuilt
  <2>2. WorkerBuilt(w)'
    BY <2>5, <2>7, IdleBuilt
  <2> QED
    BY <2>1, <2>2, OtherBuilt DEF TxInv, BuiltInv
<1>28. ASSUME NEW w \in Workers, PublishDeadLetter(w) PROVE (\A v \in Workers : WorkerBuilt(v))'
  <2>1. \A v \in Workers \ {w} :
           pc'[v] = pc[v] /\ msg'[v] = msg[v] /\ tx'[v] = tx[v] /\ stage'[v] = stage[v]
    BY <1>28 DEF PublishDeadLetter, dbVars, envVars, TypeOK
  <2>3. /\ WorkerInv(w) /\ WorkerBuilt(w) /\ pc[w] \in Handling /\ msg'[w] = msg[w]
    BY <1>28 DEF PublishDeadLetter, dbVars, envVars, TxInv, BuiltInv, TypeOK, Handling, Running, Selected
  <2>4. JobOf(w)' = JobOf(w)
    BY <2>3, SameMessage
  <2>5. /\ pc[w] = "dlq" /\ pc'[w] = "commit" /\ stage'[w] = stage[w] /\ tx'[w] = tx[w]
        /\ built' = built
    BY <1>28 DEF PublishDeadLetter, dbVars, TypeOK
  <2>2. WorkerBuilt(w)'
    BY <2>3, <2>4, <2>5 DEF WorkerBuilt
  <2> QED
    BY <2>1, <2>2, OtherBuilt DEF TxInv, BuiltInv
<1>29. ASSUME NEW w \in Workers, CommitOutcome(w) PROVE (\A v \in Workers : WorkerBuilt(v))'
  <2>1. \A v \in Workers \ {w} :
           pc'[v] = pc[v] /\ msg'[v] = msg[v] /\ tx'[v] = tx[v] /\ stage'[v] = stage[v]
    BY <1>29 DEF CommitOutcome, redisVars, envVars, TypeOK
  <2>3. /\ WorkerInv(w) /\ WorkerBuilt(w) /\ pc[w] \in Handling /\ msg'[w] = msg[w]
    BY <1>29 DEF CommitOutcome, redisVars, envVars, TxInv, BuiltInv, TypeOK, Handling, Running, Selected
  <2>4. JobOf(w)' = JobOf(w)
    BY <2>3, SameMessage
  <2>5. pc[w] = "commit" /\ pc'[w] = "ack" /\ stage'[w] = stage[w] /\ tx'[w] = NoTx
    BY <1>29 DEF CommitOutcome, TypeOK
  <2>2. WorkerBuilt(w)'
    BY <2>3, <2>4, <2>5 DEF WorkerBuilt
  <2> QED
    BY <2>1, <2>2, OtherBuilt DEF TxInv, BuiltInv
<1>30. ASSUME NEW w \in Workers, Acknowledge(w) PROVE (\A v \in Workers : WorkerBuilt(v))'
  <2>3. inbox[w] \in SUBSET Nat /\ fetch[w] \in {"reclaim", "consume"}
    BY DEF TypeOK
  <2>4. NextMessage(w, inbox[w], fetch[w])
    BY <1>30 DEF Acknowledge
  <2>5. /\ \A v \in Workers \ {w} : pc'[v] = pc[v] /\ msg'[v] = msg[v]
        /\ pc'[w] \in {"handle", "consume", "list"}
    BY <2>3, <2>4, NextMessageEffect
  <2>6. UNCHANGED stage /\ \A v \in Workers \ {w} : tx'[v] = tx[v]
    BY <1>30 DEF Acknowledge, TypeOK
  <2>1. \A v \in Workers \ {w} :
           pc'[v] = pc[v] /\ msg'[v] = msg[v] /\ tx'[v] = tx[v] /\ stage'[v] = stage[v]
    BY <2>5, <2>6
  <2>7. tx'[w] = NoTx /\ stage'[w] = 1
    BY <1>30, <2>6 DEF Acknowledge, Selected, TypeOK, TxInv, WorkerInv, Running, BuiltInv, WorkerBuilt
  <2>2. WorkerBuilt(w)'
    BY <2>5, <2>7, IdleBuilt
  <2> QED
    BY <2>1, <2>2, OtherBuilt DEF TxInv, BuiltInv
<1>31. ASSUME NEW w \in Workers, CycleFails(w) PROVE (\A v \in Workers : WorkerBuilt(v))'
  <2>1. \A v \in Workers \ {w} :
           pc'[v] = pc[v] /\ msg'[v] = msg[v] /\ tx'[v] = tx[v] /\ stage'[v] = stage[v]
    BY <1>31 DEF CycleFails, dbVars, redisVars, TypeOK, Abandon
  <2>3. tx'[w] = NoTx /\ stage'[w] = 1
    BY <1>31 DEF CycleFails, dbVars, redisVars, TypeOK, TxInv, WorkerInv, Running, BuiltInv, WorkerBuilt, Abandon
  <2>4. pc'[w] \notin {"step", "work", "succeed"}
    BY <1>31 DEF CycleFails, TypeOK, Abandon
  <2>2. WorkerBuilt(w)'
    BY <2>3, <2>4, IdleBuilt
  <2> QED
    BY <2>1, <2>2, OtherBuilt DEF TxInv, BuiltInv
<1>32. ASSUME NEW w \in Workers, Crash(w) PROVE (\A v \in Workers : WorkerBuilt(v))'
  <2>1. \A v \in Workers \ {w} :
           pc'[v] = pc[v] /\ msg'[v] = msg[v] /\ tx'[v] = tx[v] /\ stage'[v] = stage[v]
    BY <1>32 DEF Crash, dbVars, redisVars, TypeOK, Abandon
  <2>3. tx'[w] = NoTx /\ stage'[w] = 1
    BY <1>32 DEF Crash, dbVars, redisVars, TypeOK, TxInv, WorkerInv, Running, BuiltInv, WorkerBuilt, Abandon
  <2>4. pc'[w] \notin {"step", "work", "succeed"}
    BY <1>32 DEF Crash, TypeOK, Abandon
  <2>2. WorkerBuilt(w)'
    BY <2>3, <2>4, IdleBuilt
  <2> QED
    BY <2>1, <2>2, OtherBuilt DEF TxInv, BuiltInv
<1>33. ASSUME NEW w \in Workers, Restart(w) PROVE (\A v \in Workers : WorkerBuilt(v))'
  <2>1. \A v \in Workers \ {w} :
           pc'[v] = pc[v] /\ msg'[v] = msg[v] /\ tx'[v] = tx[v] /\ stage'[v] = stage[v]
    BY <1>33 DEF Restart, dbVars, redisVars, envVars, TypeOK
  <2>3. tx'[w] = NoTx /\ stage'[w] = 1
    BY <1>33 DEF Restart, dbVars, redisVars, envVars, TypeOK, TxInv, WorkerInv, Running, BuiltInv, WorkerBuilt
  <2>4. pc'[w] \notin {"step", "work", "succeed"}
    BY <1>33 DEF Restart, TypeOK
  <2>2. WorkerBuilt(w)'
    BY <2>3, <2>4, IdleBuilt
  <2> QED
    BY <2>1, <2>2, OtherBuilt DEF TxInv, BuiltInv
<1> QED
  BY <1>1, <1>2, <1>3, <1>4, <1>5, <1>6, <1>7, <1>8, <1>9, <1>10, <1>11, <1>12, <1>13, <1>14, <1>15, <1>16, <1>17, <1>18, <1>19, <1>20, <1>21, <1>22, <1>23, <1>24, <1>25, <1>26, <1>27, <1>28, <1>29, <1>30, <1>31, <1>32, <1>33
     DEF Next, Intake, Clock, Work, Misfortune, Relay, Fetch, Claim, Handle, Conclude

(* The invariant holds initially. *)
LEMMA DeliveryInit == Init => DeliveryInv
<1> SUFFICES ASSUME Init PROVE DeliveryInv
  OBVIOUS
<1>1. RangeInv
  BY DEF Init, RangeInv
<1>2. OutboxInv /\ RowInv
  BY DEF Init, OutboxInv, RowInv, Absent, Terminal
<1>3. TxInv /\ AckedIsAccounted
  BY DEF Init, TxInv, WorkerInv, Handling, Running, AckedIsAccounted
<1>4. BuiltInv
  BY DEF Init, BuiltInv, SucceededIsBuilt, WorkerBuilt, Absent
<1> QED
  BY <1>1, <1>2, <1>3, <1>4 DEF DeliveryInv

(* The invariant and its types are preserved by every step. *)
LEMMA DeliveryStep == ASSUME TypeOK, DeliveryInv, [Next]_vars PROVE TypeOK' /\ DeliveryInv'
<1> USE DEF DeliveryInv
<1>1. TypeOK'
  BY TypeStep
<1>2. Grows
  BY HistoryGrows
<1>3. RangeInv'
  BY <1>2, RangeStep
<1>4. OutboxInv'
  BY <1>2, OutboxStep
<1>5. RowInv'
  BY <1>2, RowStep
<1>6. TxInv'
  BY <1>1, <1>2, WorkerStep
<1>7. AckedIsAccounted'
  BY <1>2, AckedStep
<1>8. BuiltInv'
  <2>1. SucceededIsBuilt'
    BY <1>1, <1>2, BuiltRowStep DEF BuiltInv
  <2>2. (\A v \in Workers : WorkerBuilt(v))'
    BY <1>1, <1>2, BuiltWorkerStep DEF BuiltInv
  <2> QED
    BY <2>1, <2>2 DEF BuiltInv
<1> QED
  BY <1>1, <1>3, <1>4, <1>5, <1>6, <1>7, <1>8

(* Every variable keeps its type, and the outbox rows, the stream, the     *)
(* workers' open transactions and the job rows agree, in every state.      *)
THEOREM Delivery == Spec => [](TypeOK /\ DeliveryInv)
<1>1. Init => TypeOK /\ DeliveryInv
  BY TypeInit, DeliveryInit
<1>2. TypeOK /\ DeliveryInv /\ [Next]_vars => (TypeOK /\ DeliveryInv)'
  BY DeliveryStep
<1> QED
  BY <1>1, <1>2, PTL DEF Spec

(* Type correctness. *)
THEOREM TypeCorrect == Spec => []TypeOK
BY Delivery, PTL

(* The stream is acknowledged only after a durable outcome: a message      *)
(* outside the pending list belongs to a job that was settled in the       *)
(* database, or was copied to the dead-letter stream.                      *)
THEOREM AckAfterOutcome == Spec => []AckedIsAccounted
<1>1. DeliveryInv => AckedIsAccounted
  BY DEF DeliveryInv
<1> QED
  BY <1>1, Delivery, PTL

(* At-least-once delivery: whatever the workers, crashes, rollbacks and    *)
(* repeated publishes do, an accepted and never settled job still has an   *)
(* unpublished outbox row or an unacknowledged message.                    *)
THEOREM AtLeastOnce == Spec => []NoJobLost
<1>1. TypeOK /\ DeliveryInv => NoJobLost
  <2> SUFFICES ASSUME TypeOK, DeliveryInv, NEW j \in Jobs,
                      row[j].status # "absent", j \notin settled, event[j] # "pending"
               PROVE  \E m \in 1 .. Len(stream) : FromOutbox(m) /\ stream[m].job = j /\ ~Acked(m)
    BY DEF NoJobLost
  <2>1. event[j] = "published"
    BY DEF DeliveryInv, OutboxInv, TypeOK
  <2>2. PICK m \in 1 .. Len(stream) : FromOutbox(m) /\ stream[m].job = j
    BY <2>1 DEF DeliveryInv, OutboxInv
  <2>3. ~Acked(m)
    BY <2>2 DEF DeliveryInv, AckedIsAccounted, Accounted
  <2> QED
    BY <2>2, <2>3
<1> QED
  BY <1>1, Delivery, PTL

(* A job the API reports as dead_letter is always found in the dead-letter *)
(* stream: the copy is made before the status is committed.                *)
THEOREM DeadLetterFound == Spec => []DeadLetterIsPublished
<1>1. DeliveryInv => DeadLetterIsPublished
  BY DEF DeliveryInv, RowInv, DeadLetterIsPublished
<1> QED
  BY <1>1, Delivery, PTL

(* A job that reports success has every artifact of its pipeline: a        *)
(* rollback, a crash or a second worker never skips a stage.               *)
THEOREM SuccessIsComplete == Spec => []SucceededIsBuilt
<1>1. DeliveryInv => SucceededIsBuilt
  BY DEF DeliveryInv, BuiltInv
<1> QED
  BY <1>1, Delivery, PTL

-----------------------------------------------------------------------------
(* One worker.  With a second one the lease can be taken over while the    *)
(* first still runs, and what follows is false (run outcome_unfenced).     *)

(* What a step may do to the job rows: it changes at most one, never that  *)
(* of a settled job, and a row that is born is pending.                    *)
OneRowMoves ==
    \/ \A j \in Jobs : row'[j].status = row[j].status
    \/ \E k \in Jobs :
        /\ \A j \in Jobs \ {k} : row'[j] = row[j]
        /\ k \notin settled /\ row[k].status \notin Terminal
        /\ row[k].status = "absent" => row'[k].status = "pending"

(* A settled job is not claimed. *)
NoSettledStart == \A j \in settled : tries'[j] = tries[j]

(* A step that leaves the committed rows and the history alone. *)
LEMMA RowsStay ==
    ASSUME row' = row, tries' = tries
    PROVE  OneRowMoves /\ NoSettledStart
BY DEF OneRowMoves, NoSettledStart

(* The outcome and the stages of a job that nobody settled are written. *)
LEMMA RowWritten ==
    ASSUME TypeOK, RowInv, TxInv, SettledInv, NEW w \in Workers, NEW r,
           pc[w] \in Running \/ tx[w] # NoTx, row' = [row EXCEPT ![JobOf(w)] = r], tries' = tries
    PROVE  OneRowMoves /\ NoSettledStart
<1>1. JobOf(w) \in Jobs /\ row[JobOf(w)].status # "absent" /\ JobOf(w) \notin settled
  BY DEF TxInv, WorkerInv, SettledInv, SettledWorker
<1>2. row[JobOf(w)].status \notin Terminal
  BY <1>1 DEF RowInv
<1>3. \A j \in Jobs \ {JobOf(w)} : row'[j] = row[j]
  BY DEF TypeOK
<1> QED
  BY <1>1, <1>2, <1>3 DEF OneRowMoves, NoSettledStart

(* Every step of a single worker's system moves at most one open job. *)
LEMMA OneRowStep ==
    ASSUME TypeOK, RowInv, TxInv, SettledInv, [Next]_vars
    PROVE  OneRowMoves /\ NoSettledStart
<1>1. CASE UNCHANGED vars
  BY <1>1, RowsStay DEF vars, dbVars
<1>2. CASE ForeignPublish
  BY <1>2, RowsStay DEF ForeignPublish, dbVars
<1>3. ASSUME NEW j \in Jobs, Upload(j) \/ RequestRegeneration(j) PROVE OneRowMoves /\ NoSettledStart
  <2>1. PICK prior \in SUBSET Stages : Accept(j, prior)
    BY <1>3 DEF Upload, RequestRegeneration
  <2>2. /\ row[j].status = "absent" /\ row' = [row EXCEPT ![j].status = "pending"]
        /\ tries' = tries
    BY <2>1 DEF Accept
  <2>3. row'[j].status = "pending" /\ \A i \in Jobs \ {j} : row'[i] = row[i]
    BY <2>2 DEF TypeOK, Rows
  <2>4. j \notin settled
    BY <2>2 DEF SettledInv, Terminal
  <2> QED
    BY <2>2, <2>3, <2>4 DEF OneRowMoves, NoSettledStart, Terminal
<1>4. ASSUME NEW j \in Jobs, LeaseExpires(j) \/ BackoffEnds(j) PROVE OneRowMoves /\ NoSettledStart
  <2>1. row' = [row EXCEPT ![j].lease = FALSE] \/ row' = [row EXCEPT ![j].due = TRUE]
    BY <1>4 DEF LeaseExpires, BackoffEnds
  <2>4. /\ row[j] \in Rows
        /\ [row[j] EXCEPT !.lease = FALSE].status = row[j].status
        /\ [row[j] EXCEPT !.due = TRUE].status = row[j].status
    BY DEF TypeOK, Rows
  <2>2. \A i \in Jobs : row'[i].status = row[i].status
    BY <2>1, <2>4 DEF TypeOK
  <2>3. tries' = tries
    BY <1>4 DEF LeaseExpires, BackoffEnds
  <2> QED
    BY <2>2, <2>3 DEF OneRowMoves, NoSettledStart
<1>5. ASSUME NEW m \in Ids, BecomesStale(m) PROVE OneRowMoves /\ NoSettledStart
  BY <1>5, RowsStay DEF BecomesStale, dbVars
<1>6. ASSUME NEW w \in Workers, Relay(w) \/ PublishFails(w) PROVE OneRowMoves /\ NoSettledStart
  BY <1>6, RowsStay
     DEF Relay, ListPending, PublishEvent, SkipPublished, MarkPublished, PublishFails, dbVars
<1>7. ASSUME NEW w \in Workers, Fetch(w) PROVE OneRowMoves /\ NoSettledStart
  BY <1>7, RowsStay DEF Fetch, ReclaimStale, ReadNew, dbVars
<1>8. ASSUME NEW w \in Workers, RejectMessage(w) \/ ClaimTerminal(w) \/ ClaimSkipped(w) \/ ClaimExhausted(w)
      PROVE  OneRowMoves /\ NoSettledStart
  BY <1>8, RowsStay DEF RejectMessage, ClaimTerminal, ClaimSkipped, ClaimExhausted, dbVars
<1>9. ASSUME NEW w \in Workers, ClaimGranted(w) PROVE OneRowMoves /\ NoSettledStart
  <2>1. row' = row
    BY <1>9 DEF ClaimGranted, dbVars
  <2>2. JobOf(w) \notin settled
    BY <1>9 DEF ClaimGranted, Claimable, SettledInv
  <2>3. tries' = tries \/ tries' = [tries EXCEPT ![JobOf(w)] = @ + 1]
    BY <1>9 DEF ClaimGranted
  <2>4. NoSettledStart
    BY <2>2, <2>3 DEF NoSettledStart, TypeOK
  <2> QED
    BY <2>1, <2>4 DEF OneRowMoves
<1>10. ASSUME NEW w \in Workers, SetJobStep(w) \/ FinishHandler(w) PROVE OneRowMoves /\ NoSettledStart
  BY <1>10, RowsStay DEF SetJobStep, FinishHandler, dbVars
<1>11. ASSUME NEW w \in Workers, PersistArtifact(w) PROVE OneRowMoves /\ NoSettledStart
  <2>1. pc[w] \in Running /\ tries' = tries
    BY <1>11 DEF PersistArtifact, Running
  <2>2. row' = row \/ row' = [row EXCEPT ![JobOf(w)] = tx[w]]
    BY <1>11 DEF PersistArtifact
  <2> QED
    BY <2>1, <2>2, RowsStay, RowWritten
<1>12. ASSUME NEW w \in Workers, MarkSucceeded(w) \/ MarkDeadLetter(w) \/ PublishDeadLetter(w) \/ Acknowledge(w)
       PROVE  OneRowMoves /\ NoSettledStart
  BY <1>12, RowsStay DEF MarkSucceeded, MarkDeadLetter, PublishDeadLetter, Acknowledge, dbVars
<1>13. ASSUME NEW w \in Workers, MarkRetryable(w) PROVE OneRowMoves /\ NoSettledStart
  <2>1. pc[w] \in Running /\ tries' = tries
    BY <1>13 DEF MarkRetryable, Running
  <2>2. \E r : row' = [row EXCEPT ![JobOf(w)] = r]
    BY <1>13 DEF MarkRetryable
  <2> QED
    BY <2>1, <2>2, RowWritten
<1>14. ASSUME NEW w \in Workers, CommitOutcome(w) PROVE OneRowMoves /\ NoSettledStart
  <2>1. tries' = tries
    BY <1>14 DEF CommitOutcome
  <2>2. row' = row \/ (tx[w] # NoTx /\ row' = [row EXCEPT ![JobOf(w)] = tx[w]])
    BY <1>14 DEF CommitOutcome
  <2> QED
    BY <2>1, <2>2, RowsStay, RowWritten
<1>15. ASSUME NEW w \in Workers, FailRetryable(w) \/ FailPermanently(w) \/ CycleFails(w) \/ Crash(w) \/ Restart(w)
       PROVE  OneRowMoves /\ NoSettledStart
  BY <1>15, RowsStay DEF FailRetryable, FailPermanently, CycleFails, Crash, Restart, Abandon, dbVars
<1> QED
  BY <1>1, <1>2, <1>3, <1>4, <1>5, <1>6, <1>7, <1>8, <1>9, <1>10, <1>11, <1>12, <1>13, <1>14, <1>15
     DEF Next, Intake, Clock, Work, Misfortune, Claim, Handle, Conclude

(* With nothing running and no open transaction there is nothing to keep. *)
LEMMA IdleSettled ==
    ASSUME NEW w \in Workers, pc'[w] \notin Running, tx'[w] = NoTx
    PROVE  SettledWorker(w)'
BY DEF SettledWorker

(* A step that keeps a worker's message and settles nothing. *)
LEMMA HeldSettled ==
    ASSUME TypeOK, TypeOK', RangeInv, Grows, NEW w \in Workers, WorkerInv(w),
           SettledWorker(w), msg'[w] = msg[w], settled' = settled,
           pc[w] \in Running \/ tx[w] # NoTx,
           tx'[w] # NoTx => (tx'[w].status \in Terminal <=> pc'[w] \in {"dlq", "commit"})
    PROVE  SettledWorker(w)'
<1>1. pc[w] \in Handling
  BY DEF WorkerInv, Handling, Running
<1>2. JobOf(w)' = JobOf(w)
  BY <1>1, SameMessage
<1> QED
  BY <1>2 DEF SettledWorker

(* A step that does not concern a worker. *)
LEMMA OtherSettled ==
    ASSUME TypeOK, TypeOK', RangeInv, Grows, NEW w \in Workers, WorkerInv(w),
           SettledWorker(w), msg'[w] = msg[w], pc'[w] = pc[w], tx'[w] = tx[w], settled' = settled
    PROVE  SettledWorker(w)'
<1>1. CASE pc[w] \in Running \/ tx[w] # NoTx
  BY <1>1, HeldSettled DEF SettledWorker
<1>2. CASE ~(pc[w] \in Running \/ tx[w] # NoTx)
  BY <1>2, IdleSettled
<1> QED
  BY <1>1, <1>2

(* A single worker never settles a job again and never reopens one. *)
LEMMA SettledStep ==
    ASSUME SingleWorker, TypeOK, TypeOK', RangeInv, RowInv, TxInv, Grows, SettledInv,
           OneRowMoves, [Next]_vars
    PROVE  SettledInv'
<1> DEFINE Goal == \A w \in Workers : SettledWorker(w)'
<1>1. CASE settled' = settled
  <2>1. \A j \in settled' : row'[j].status \in Terminal
    BY <1>1 DEF SettledInv, OneRowMoves, TypeOK
  <2>2. ASSUME pc' = pc, msg' = msg, tx' = tx PROVE Goal
    BY <1>1, <2>2, OtherSettled DEF TxInv, SettledInv
  <2>3. ASSUME NEW w \in Workers, SettledWorker(w)' PROVE Goal
    BY <2>3 DEF SingleWorker
  <2>4. ASSUME UNCHANGED vars \/ ForeignPublish PROVE Goal
    <3>1. UNCHANGED workerVars
      BY <2>4 DEF ForeignPublish, vars
    <3>2. pc' = pc /\ msg' = msg /\ tx' = tx
      BY <3>1 DEF workerVars
    <3> QED
      BY <2>2, <3>2
  <2>5. ASSUME NEW j \in Jobs, Upload(j) \/ RequestRegeneration(j) \/ LeaseExpires(j) \/ BackoffEnds(j)
        PROVE  Goal
    BY <2>2, <2>5 DEF Upload, RequestRegeneration, Accept, LeaseExpires, BackoffEnds, workerVars
  <2>6. ASSUME NEW m \in Ids, BecomesStale(m) PROVE Goal
    BY <2>2, <2>6 DEF BecomesStale, workerVars
  <2>7. ASSUME NEW w \in Workers, Relay(w) \/ PublishFails(w) \/ Fetch(w) \/ CycleFails(w) \/ Crash(w) \/ Restart(w)
        PROVE  Goal
    <3>1. CASE Relay(w) \/ PublishFails(w)
      <4>1. tx'[w] = tx[w] /\ pc[w] \in {"list", "publish", "mark"}
        BY <3>1 DEF Relay, ListPending, PublishEvent, SkipPublished, MarkPublished, PublishFails
      <4>2. pc'[w] \in {"publish", "mark", "reclaim"}
        BY <3>1 DEF Relay, ListPending, PublishEvent, SkipPublished, MarkPublished, PublishFails,
                    NextEvent, TypeOK
      <4>3. tx'[w] = NoTx
        BY <4>1 DEF TxInv, WorkerInv, Running
      <4> QED
        BY <4>2, <4>3, <2>3, IdleSettled DEF Running
    <3>2. CASE Fetch(w)
      <4>1. /\ tx'[w] = tx[w] /\ pc[w] \in {"reclaim", "consume"}
            /\ \E batch \in SUBSET Nat, source \in {"reclaim", "consume"} : NextMessage(w, batch, source)
        <5>1. CASE ReclaimStale(w)
          <6>1. FirstOf(stale) \in SUBSET Nat
            BY DEF FirstOf, TypeOK
          <6> QED
            BY <5>1, <6>1 DEF ReclaimStale
        <5>2. CASE ReadNew(w)
          <6>1. delivered' \in Nat /\ delivered + 1 .. delivered' \in SUBSET Nat
            BY DEF TypeOK
          <6> QED
            BY <5>2, <6>1 DEF ReadNew
        <5> QED
          BY <3>2, <5>1, <5>2 DEF Fetch
      <4>2. pc'[w] \in {"handle", "consume", "list"}
        BY <4>1, NextMessageEffect
      <4>3. tx'[w] = NoTx
        BY <4>1 DEF TxInv, WorkerInv, Running
      <4> QED
        BY <4>2, <4>3, <2>3, IdleSettled DEF Running
    <3>3. CASE CycleFails(w) \/ Crash(w) \/ Restart(w)
      <4>1. pc'[w] \in {"list", "down"}
        BY <3>3 DEF CycleFails, Crash, Restart, Abandon, TypeOK
      <4>2. tx'[w] = NoTx
        <5>1. CASE CycleFails(w) \/ Crash(w)
          BY <5>1 DEF CycleFails, Crash, Abandon, TypeOK
        <5>2. CASE Restart(w)
          <6>1. tx'[w] = tx[w] /\ pc[w] = "down"
            BY <5>2 DEF Restart
          <6> QED
            BY <6>1 DEF TxInv, WorkerInv, Running
        <5> QED
          BY <3>3, <5>1, <5>2
      <4> QED
        BY <4>1, <4>2, <2>3, IdleSettled DEF Running
    <3> QED
      BY <2>7, <3>1, <3>2, <3>3
  <2>8. ASSUME NEW w \in Workers, RejectMessage(w) \/ ClaimTerminal(w) \/ ClaimSkipped(w) PROVE Goal
    <3>1. tx'[w] = tx[w] /\ pc[w] = "handle"
      BY <2>8 DEF RejectMessage, ClaimTerminal, ClaimSkipped, Selected
    <3>2. tx'[w] = NoTx
      BY <3>1 DEF TxInv, WorkerInv, Running
    <3>3. CASE RejectMessage(w) \/ ClaimTerminal(w)
      <4>1. pc'[w] \in {"dlq", "ack"}
        BY <3>3 DEF RejectMessage, ClaimTerminal, TypeOK
      <4> QED
        BY <3>2, <4>1, <2>3, IdleSettled DEF Running
    <3>4. CASE ClaimSkipped(w)
      <4>1. inbox[w] \in SUBSET Nat /\ fetch[w] \in {"reclaim", "consume"}
        BY DEF TypeOK
      <4>2. pc'[w] \in {"handle", "consume", "list"}
        BY <3>4, <4>1, NextMessageEffect DEF ClaimSkipped
      <4> QED
        BY <3>2, <4>2, <2>3, IdleSettled DEF Running
    <3> QED
      BY <2>8, <3>3, <3>4
  <2>9. ASSUME NEW w \in Workers, ClaimExhausted(w) \/ ClaimGranted(w) PROVE Goal
    <3>1. /\ Selected(w) /\ Claimable(row[JobOf(w)]) /\ msg'[w] = msg[w]
      BY <2>9 DEF ClaimExhausted, ClaimGranted
    <3>2. JobOf(w) \in Jobs /\ row[JobOf(w)] \in Rows
      BY <3>1 DEF Selected, NamesJob, JobOf, TypeOK
    <3>3. JobOf(w) \notin settled
      BY <3>1 DEF Claimable, SettledInv
    <3>4. JobOf(w)' = JobOf(w)
      BY <3>1, SameMessage DEF Selected, Handling, TxInv
    <3>5. tx'[w].status \in Terminal <=> pc'[w] \in {"dlq", "commit"}
      <4>1. CASE ClaimExhausted(w)
        <5>1. DeadLettered(row[JobOf(w)]).status = "dead_letter"
          BY <3>2 DEF DeadLettered, Rows
        <5>2. tx'[w] = DeadLettered(row[JobOf(w)]) /\ pc'[w] = "dlq"
          BY <4>1 DEF ClaimExhausted, TypeOK
        <5> QED
          BY <5>1, <5>2 DEF Terminal
      <4>2. CASE ClaimGranted(w)
        <5> DEFINE claimed == [row[JobOf(w)] EXCEPT !.attempts = @ + 1, !.status = "running", !.lease = TRUE]
        <5>1. claimed.status = "running"
          BY <3>2 DEF Rows
        <5>2. tx' = [tx EXCEPT ![w] = claimed] /\ pc'[w] \in {"bury", "step"}
          BY <4>2 DEF ClaimGranted, TypeOK
        <5> HIDE DEF claimed
        <5>3. tx'[w] = claimed
          BY <5>2 DEF TypeOK
        <5> QED
          BY <5>1, <5>2, <5>3 DEF Terminal
      <4> QED
        BY <2>9, <4>1, <4>2
    <3>6. JobOf(w)' \notin settled'
      BY <1>1, <3>3, <3>4
    <3>7. SettledWorker(w)'
      BY <3>5, <3>6 DEF SettledWorker
    <3> QED
      BY <2>3, <3>7
  <2>10. ASSUME NEW w \in Workers,
                \/ SetJobStep(w) \/ PersistArtifact(w) \/ FinishHandler(w)
                \/ FailRetryable(w) \/ FailPermanently(w) \/ MarkSucceeded(w) \/ MarkDeadLetter(w)
         PROVE  Goal
    <3>1. pc[w] \in Running /\ msg'[w] = msg[w]
      BY <2>10 DEF SetJobStep, PersistArtifact, FinishHandler, FailRetryable, FailPermanently,
                   MarkSucceeded, MarkDeadLetter, Running
    <3>2. WorkerInv(w) /\ SettledWorker(w)
      BY DEF TxInv, SettledInv
    <3>3. JobOf(w) \in Jobs /\ JobOf(w) \notin settled
      BY <3>1, <3>2 DEF WorkerInv, SettledWorker
    <3>4. Seen(w) \in Rows /\ Seen(w).status \notin Terminal
      <4>1. Seen(w) \in Rows
        BY <3>3, SeenType
      <4>2. CASE tx[w] = NoTx
        <5>1. Seen(w) = row[JobOf(w)]
          BY <4>2 DEF Seen
        <5>2. row[JobOf(w)].status \notin Terminal
          BY <3>3 DEF RowInv
        <5> QED
          BY <4>1, <5>1, <5>2
      <4>3. CASE tx[w] # NoTx
        <5>1. Seen(w) = tx[w]
          BY <4>3 DEF Seen
        <5>2. pc[w] \notin {"dlq", "commit"}
          BY <3>1 DEF Running
        <5>3. tx[w].status \notin Terminal
          BY <3>2, <4>3, <5>2 DEF SettledWorker
        <5> QED
          BY <4>1, <5>1, <5>3
      <4> QED
        BY <4>1, <4>2, <4>3
    <3>5. tx'[w] # NoTx => (tx'[w].status \in Terminal <=> pc'[w] \in {"dlq", "commit"})
      <4>1. CASE SetJobStep(w)
        <5>1. tx'[w] = Seen(w) /\ pc'[w] = "work"
          BY <4>1 DEF SetJobStep, TypeOK
        <5> QED
          BY <3>4, <5>1
      <4>2. CASE PersistArtifact(w)
        BY <4>2 DEF PersistArtifact, TypeOK
      <4>3. CASE FinishHandler(w) \/ FailRetryable(w) \/ FailPermanently(w)
        <5>1. tx'[w] \in {tx[w], NoTx}
          BY <4>3 DEF FinishHandler, FailRetryable, FailPermanently, AfterFailure, TypeOK
        <5>2. pc'[w] \in {"succeed", "retry", "bury"}
          BY <4>3 DEF FinishHandler, FailRetryable, FailPermanently, TypeOK
        <5>3. tx[w] # NoTx => tx[w].status \notin Terminal
          BY <3>1, <3>2 DEF SettledWorker, Running
        <5> QED
          BY <5>1, <5>2, <5>3
      <4>4. CASE MarkSucceeded(w)
        <5> DEFINE marked == [Seen(w) EXCEPT !.status = "succeeded", !.lease = FALSE]
        <5>1. marked.status = "succeeded"
          BY <3>4 DEF Rows
        <5>2. tx' = [tx EXCEPT ![w] = marked] /\ pc'[w] = "commit"
          BY <4>4 DEF MarkSucceeded, TypeOK
        <5> HIDE DEF marked
        <5>3. tx'[w] = marked
          BY <5>2 DEF TypeOK
        <5> QED
          BY <5>1, <5>2, <5>3 DEF Terminal
      <4>5. CASE MarkDeadLetter(w)
        <5>1. DeadLettered(Seen(w)).status = "dead_letter"
          BY <3>4 DEF DeadLettered, Rows
        <5>2. tx'[w] = DeadLettered(Seen(w)) /\ pc'[w] = "dlq"
          BY <4>5 DEF MarkDeadLetter, TypeOK
        <5> QED
          BY <5>1, <5>2 DEF Terminal
      <4> QED
        BY <2>10, <4>1, <4>2, <4>3, <4>4, <4>5
    <3>6. SettledWorker(w)'
      BY <1>1, <3>1, <3>2, <3>5, HeldSettled
    <3> QED
      BY <2>3, <3>6
  <2>11. ASSUME NEW w \in Workers, MarkRetryable(w) \/ Acknowledge(w) PROVE Goal
    <3>1. inbox[w] \in SUBSET Nat /\ fetch[w] \in {"reclaim", "consume"}
      BY DEF TypeOK
    <3>2. pc'[w] \in {"handle", "consume", "list"}
      BY <2>11, <3>1, NextMessageEffect DEF MarkRetryable, Acknowledge
    <3>3. tx'[w] = NoTx
      BY <2>11 DEF MarkRetryable, Acknowledge, TypeOK, TxInv, WorkerInv, Running
    <3> QED
      BY <2>3, <3>2, <3>3, IdleSettled DEF Running
  <2>12. ASSUME NEW w \in Workers, PublishDeadLetter(w) PROVE Goal
    <3>1. pc[w] = "dlq" /\ pc'[w] = "commit" /\ msg'[w] = msg[w] /\ tx'[w] = tx[w]
      BY <2>12 DEF PublishDeadLetter, TypeOK
    <3>2. WorkerInv(w) /\ SettledWorker(w)
      BY DEF TxInv, SettledInv
    <3>3. CASE tx[w] = NoTx
      BY <2>3, <3>1, <3>3, IdleSettled DEF Running
    <3>4. CASE tx[w] # NoTx
      <4>1. tx'[w].status \in Terminal
        BY <3>1, <3>2, <3>4 DEF SettledWorker
      <4>2. SettledWorker(w)'
        BY <1>1, <3>1, <3>2, <3>4, <4>1, HeldSettled
      <4> QED
        BY <2>3, <4>2
    <3> QED
      BY <3>3, <3>4
  <2>13. ASSUME NEW w \in Workers, CommitOutcome(w) PROVE Goal
    <3>1. pc'[w] = "ack" /\ tx'[w] = NoTx
      BY <2>13 DEF CommitOutcome, TypeOK
    <3> QED
      BY <2>3, <3>1, IdleSettled DEF Running
  <2> HIDE DEF Goal
  <2>14. Goal
    <3>1. CASE Intake \/ Clock
      BY <2>4, <2>5, <2>6, <3>1 DEF Intake, Clock
    <3>2. ASSUME NEW w \in Workers, Work(w) PROVE Goal
      BY <2>7, <2>8, <2>9, <2>10, <2>11, <2>12, <2>13, <3>2 DEF Work, Claim, Handle, Conclude
    <3>3. ASSUME NEW w \in Workers, Misfortune(w) \/ Restart(w) PROVE Goal
      BY <2>7, <2>10, <3>3 DEF Misfortune
    <3> QED
      BY <2>4, <3>1, <3>2, <3>3 DEF Next
  <2> QED
    BY <2>1, <2>14 DEF Goal, SettledInv
<1>2. CASE settled' # settled
  <2>1. PICK w \in Workers : CommitOutcome(w)
    <3>1. CASE UNCHANGED vars \/ ForeignPublish
      BY <1>2, <3>1 DEF ForeignPublish, vars
    <3>2. CASE Intake \/ Clock
      BY <1>2, <3>2 DEF Intake, Clock, ForeignPublish, Upload, RequestRegeneration, Accept, LeaseExpires,
                        BackoffEnds, BecomesStale
    <3>3. ASSUME NEW v \in Workers, Work(v) PROVE CommitOutcome(v)
      BY <1>2, <3>3
         DEF Work, Relay, ListPending, PublishEvent, SkipPublished, MarkPublished, Fetch, ReclaimStale, ReadNew,
             Claim, RejectMessage, ClaimTerminal, ClaimSkipped, ClaimExhausted, ClaimGranted,
             Handle, SetJobStep, PersistArtifact, FinishHandler,
             Conclude, MarkSucceeded, MarkDeadLetter, MarkRetryable, PublishDeadLetter, Acknowledge
    <3>4. ASSUME NEW v \in Workers, Misfortune(v) \/ Restart(v) PROVE FALSE
      BY <1>2, <3>4 DEF Misfortune, PublishFails, FailRetryable, FailPermanently, CycleFails, Crash, Restart, Abandon
    <3> QED
      BY <3>1, <3>2, <3>3, <3>4 DEF Next
  <2>2. /\ pc[w] = "commit" /\ tx[w] # NoTx /\ pc'[w] = "ack" /\ tx'[w] = NoTx
        /\ row' = [row EXCEPT ![JobOf(w)] = tx[w]] /\ settled' = settled \cup {JobOf(w)}
    BY <1>2, <2>1 DEF CommitOutcome, TypeOK
  <2>3. JobOf(w) \in Jobs /\ tx[w].status \in Terminal
    BY <2>2 DEF TxInv, WorkerInv, SettledInv, SettledWorker
  <2>4. row'[JobOf(w)] = tx[w] /\ \A j \in Jobs \ {JobOf(w)} : row'[j] = row[j]
    BY <2>2, <2>3 DEF TypeOK
  <2>5. \A j \in settled' : row'[j].status \in Terminal
    BY <2>2, <2>3, <2>4 DEF SettledInv, TypeOK
  <2>6. Goal
    BY <2>2, IdleSettled DEF Running, SingleWorker
  <2> QED
    BY <2>5, <2>6 DEF SettledInv
<1> QED
  BY <1>1, <1>2

(* With one worker every state agrees on which jobs are settled. *)
LEMMA Settled == SingleWorker /\ Spec => [](TypeOK /\ DeliveryInv /\ SettledInv)
<1> SUFFICES ASSUME SingleWorker PROVE Spec => [](TypeOK /\ DeliveryInv /\ SettledInv)
  OBVIOUS
<1>1. Init => SettledInv
  BY DEF Init, SettledInv, SettledWorker, Running
<1>2. TypeOK /\ DeliveryInv /\ SettledInv /\ [Next]_vars => SettledInv'
  <2> SUFFICES ASSUME TypeOK, DeliveryInv, SettledInv, [Next]_vars PROVE SettledInv'
    OBVIOUS
  <2>1. TypeOK' /\ Grows
    BY DeliveryStep, HistoryGrows DEF DeliveryInv
  <2>2. OneRowMoves
    BY OneRowStep DEF DeliveryInv
  <2> QED
    BY <2>1, <2>2, SettledStep DEF DeliveryInv
<1> QED
  BY <1>1, <1>2, Delivery, PTL DEF Spec

(* With one worker the status the API shows never lies: a job that is not  *)
(* terminal is on its way to the worker, whatever the crashes, rollbacks,  *)
(* redeliveries and lease ends before.                                     *)
THEOREM OpenJobsArrive == SingleWorker /\ Spec => []NotStranded
<1>1. NoJobLost /\ SettledInv => NotStranded
  BY DEF NoJobLost, SettledInv, NotStranded
<1> QED
  BY <1>1, AtLeastOnce, Settled, PTL

(* With one worker a terminal status is final. *)
THEOREM StatusIsFinal == SingleWorker /\ Spec => TerminalIsFinal
<1>1. TypeOK /\ DeliveryInv /\ SettledInv /\ [Next]_vars =>
          [\A j \in Jobs : row[j].status \in Terminal => row'[j].status = row[j].status]_vars
  <2> SUFFICES ASSUME TypeOK, DeliveryInv, SettledInv, [Next]_vars,
                      NEW j \in Jobs, row[j].status \in Terminal
               PROVE  row'[j].status = row[j].status
    OBVIOUS
  <2>1. OneRowMoves
    BY OneRowStep DEF DeliveryInv
  <2> QED
    BY <2>1 DEF OneRowMoves, DeliveryInv, RowInv
<1> QED
  BY <1>1, Settled, PTL DEF Spec, TerminalIsFinal

(* With one worker the redelivered message of a settled job starts no      *)
(* handler.                                                                *)
THEOREM SettledIsNotRerun == SingleWorker /\ Spec => NoRerunAfterSettled
<1>1. TypeOK /\ DeliveryInv /\ SettledInv /\ [Next]_vars =>
          [\A j \in settled : tries'[j] = tries[j]]_vars
  BY OneRowStep DEF DeliveryInv, NoSettledStart
<1> QED
  BY <1>1, Settled, PTL DEF Spec, NoRerunAfterSettled

(* With one worker, every step of the pipeline accepts a job, settles an   *)
(* open one or changes nothing of what the API shows.                      *)
LEMMA OutcomeStep ==
    ASSUME TypeOK', OneRowMoves, Grows
    PROVE  [Settlement!Next]_Outcome
<1>1. ASSUME \A j \in Jobs : row'[j].status = row[j].status PROVE Outcome' = Outcome
  BY <1>1 DEF Outcome
<1>2. ASSUME NEW k \in Jobs, \A j \in Jobs \ {k} : row'[j] = row[j], row[k].status \notin Terminal,
             row[k].status = "absent" => row'[k].status = "pending"
      PROVE  [Settlement!Next]_Outcome
  <2> DEFINE shown == IF row'[k].status \in Terminal \cup {"absent"} THEN row'[k].status ELSE "open"
  <2>1. Outcome' = [Outcome EXCEPT ![k] = shown]
    BY <1>2 DEF Outcome
  <2> HIDE DEF shown
  <2>2. CASE row[k].status = "absent"
    <3>1. Outcome[k] = "absent" /\ shown = "open"
      BY <1>2, <2>2 DEF Outcome, Terminal, shown
    <3>2. Settlement!Accept(k)
      BY <2>1, <3>1 DEF Settlement!Accept
    <3> QED
      BY <3>2 DEF Settlement!Next
  <2>3. CASE row[k].status # "absent"
    <3>1. Outcome[k] = "open" /\ row'[k].status # "absent"
      BY <1>2, <2>3 DEF Outcome, Grows
    <3>2. shown \in {"succeeded", "dead_letter"} \/ shown = "open"
      BY <3>1 DEF shown, Terminal
    <3>3. CASE shown = "open"
      <4>1. Outcome' = Outcome
        BY <2>1, <3>1, <3>3 DEF Outcome
      <4> QED
        BY <4>1
    <3>4. CASE shown \in {"succeeded", "dead_letter"}
      <4>1. Settlement!Settle(k)
        BY <2>1, <3>1, <3>4 DEF Settlement!Settle
      <4> QED
        BY <4>1 DEF Settlement!Next
    <3> QED
      BY <3>2, <3>3, <3>4
  <2> QED
    BY <2>2, <2>3
<1> QED
  BY <1>1, <1>2 DEF OneRowMoves

(* The safety half of SettlesOnce: with one worker the job rows implement  *)
(* JobSettlement, where an accepted job is open until it is settled once.  *)
(* That it is settled in the end rests on fairness and is left to the run. *)
THEOREM ImplementsSettlement ==
    SingleWorker /\ Spec => Settlement!Init /\ [][Settlement!Next]_Outcome
<1>1. Init => Settlement!Init
  BY DEF Init, Settlement!Init, Outcome, Absent
<1>2. TypeOK /\ DeliveryInv /\ SettledInv /\ [Next]_vars => [Settlement!Next]_Outcome
  <2> SUFFICES ASSUME TypeOK, DeliveryInv, SettledInv, [Next]_vars PROVE [Settlement!Next]_Outcome
    OBVIOUS
  <2>1. TypeOK' /\ Grows
    BY DeliveryStep, HistoryGrows DEF DeliveryInv
  <2>2. OneRowMoves
    BY OneRowStep DEF DeliveryInv
  <2> QED
    BY <2>1, <2>2, OutcomeStep
<1> QED
  BY <1>1, <1>2, Settled, PTL DEF Spec
=============================================================================
