---------------------------- MODULE JobDelivery ----------------------------
(***************************************************************************)
(* Durable background jobs of OpenWikiRAG: the transactional outbox, the   *)
(* Redis stream with its consumer group, the job rows in PostgreSQL and    *)
(* the worker loop that relays, reclaims, consumes, runs and settles.      *)
(*                                                                         *)
(* A worker owns ONE database session.  tx[w] is the session's uncommitted *)
(* version of the job row it works on: it is invisible to every other      *)
(* session, it holds the row lock until commit or rollback, and a rollback *)
(* made anywhere in the handler discards it, the claim included.           *)
(***************************************************************************)
EXTENDS Integers, FiniteSets, Sequences

CONSTANTS
    Jobs,           \* job ids
    Regenerations,  \* the jobs of type wiki_regeneration; the others ingest
    Workers,        \* worker processes
    NoJob,          \* the job id of a message that names no existing job
    NoTx,           \* a session without uncommitted changes
    NumStages,      \* handler stages that persist an artifact and end the tx
    MaxAttempts,    \* ingestion_jobs.max_attempts
    Batch,          \* batch size of relay, XREADGROUP and XAUTOCLAIM
    Foreign,        \* bodies a foreign producer may add to the stream
    MaxForeign,     \* bound: messages of the foreign producer
    MaxMessages,    \* bound: length of the stream
    MaxCrashes,     \* bound: process crashes and infrastructure exceptions
    MaxFailures     \* bound: retryable handler failures, failed publishes

Statuses == {"absent", "pending", "running", "retryable", "succeeded", "dead_letter"}
Terminal == {"succeeded", "dead_letter"}

(* lease: lease_expires_at is in the future; due: available_at is not.     *)
Rows   == [status : Statuses, attempts : 0 .. MaxAttempts, lease : BOOLEAN, due : BOOLEAN]
Bodies == [job : Jobs \cup {NoJob}, shape : {"ok", "malformed", "mismatch"}]
Stages == 1 .. NumStages
Ids    == 1 .. MaxMessages

ASSUME JobsAssumption    == Regenerations \subseteq Jobs /\ NoJob \notin Jobs
ASSUME TxAssumption      == NoTx \notin Rows
ASSUME BoundsAssumption  == /\ NumStages \in Nat \ {0} /\ MaxAttempts \in Nat \ {0}
                            /\ Batch \in Nat \ {0} /\ MaxMessages \in Nat
                            /\ MaxForeign \in Nat /\ MaxCrashes \in Nat /\ MaxFailures \in Nat
(* No foreign message passes for an event of the outbox. *)
ASSUME ForeignAssumption == /\ Foreign \subseteq Bodies
                            /\ \A b \in Foreign : b.job = NoJob \/ b.shape # "ok"

VARIABLES
    row,        \* PostgreSQL: the committed job row
    event,      \* PostgreSQL: the job's outbox row: "none", "pending", "published"
    built,      \* PostgreSQL: the stages whose artifact row is committed
    stream,     \* Redis: every message ever added; its id is its position
    delivered,  \* Redis: last id handed to the consumer group
    pel,        \* Redis: delivered and not acknowledged
    stale,      \* Redis: the pending messages idle for at least the lease time
    dlq,        \* Redis: the messages copied to the dead-letter stream
    pc,         \* worker: what it does next
    todo,       \* worker: outbox rows listed in this cycle and still to publish
    inbox,      \* worker: messages of the current batch not handled yet
    fetch,      \* worker: the call that filled the batch, "reclaim" or "consume"
    msg,        \* worker: the message in hand, 0 for none
    stage,      \* worker: the handler stage
    tx,         \* worker: uncommitted job row, or NoTx
    crashes, failures,  \* how much of the bounds is used
    settled,    \* history: jobs that had a committed terminal status
    tries       \* history: how often the handler was started for a job

dbVars     == <<row, event, built>>
redisVars  == <<stream, delivered, pel, stale, dlq>>
workerVars == <<pc, todo, inbox, fetch, msg, stage, tx>>
envVars    == <<crashes, failures>>
vars       == <<dbVars, redisVars, workerVars, envVars, settled, tries>>

JobOf(w)     == stream[msg[w]].job
NamesJob(m)  == stream[m].job \in Jobs /\ stream[m].shape # "malformed"
FromOutbox(m) == stream[m].job \in Jobs /\ stream[m].shape = "ok"

(* SELECT ... FOR UPDATE and UPDATE wait while another session holds the row. *)
LockedByOther(w, j) == \E v \in Workers \ {w} : tx[v] # NoTx /\ JobOf(v) = j
Unlocked(j)         == \A v \in Workers : tx[v] # NoTx => JobOf(v) # j

(* What the worker's session reads: its own write, else the committed row. *)
Seen(w) == IF tx[w] = NoTx THEN row[JobOf(w)] ELSE tx[w]

(* XAUTOCLAIM returns the first Batch of the stale messages. *)
FirstOf(S) == {m \in S : Cardinality({n \in S : n < m}) < Batch}

Absent == [status |-> "absent", attempts |-> 0, lease |-> FALSE, due |-> TRUE]

Init ==
    /\ row = [j \in Jobs |-> Absent]
    /\ event = [j \in Jobs |-> "none"]
    /\ built = [j \in Jobs |-> {}]
    /\ stream = <<>> /\ delivered = 0 /\ pel = {} /\ stale = {} /\ dlq = {}
    /\ pc = [w \in Workers |-> "list"]
    /\ todo = [w \in Workers |-> {}]
    /\ inbox = [w \in Workers |-> {}]
    /\ fetch = [w \in Workers |-> "consume"]
    /\ msg = [w \in Workers |-> 0]
    /\ stage = [w \in Workers |-> 1]
    /\ tx = [w \in Workers |-> NoTx]
    /\ crashes = 0 /\ failures = 0
    /\ settled = {} /\ tries = [j \in Jobs |-> 0]

-----------------------------------------------------------------------------
(* The API's transactions: the job row and its outbox row commit together. *)

(* Mutant: the outbox row is forgotten. *)
AcceptWithoutEvent(j, prior) ==
    /\ row[j].status = "absent"
    /\ row' = [row EXCEPT ![j].status = "pending"]
    /\ built' = [built EXCEPT ![j] = prior]
    /\ UNCHANGED <<event, redisVars, workerVars, envVars, settled, tries>>

Accept(j, prior) ==
    /\ row[j].status = "absent"
    /\ row' = [row EXCEPT ![j].status = "pending"]
    /\ event' = [event EXCEPT ![j] = "pending"]
    /\ built' = [built EXCEPT ![j] = prior]
    /\ UNCHANGED <<redisVars, workerVars, envVars, settled, tries>>

Upload(j) == j \notin Regenerations /\ Accept(j, {})

(* The version already has artifacts; those of the same identity are reused. *)
RequestRegeneration(j) ==
    j \in Regenerations /\ \E prior \in SUBSET Stages : Accept(j, prior)

(* Anything with access to the stream may add an event the outbox never held. *)
ForeignPublish ==
    \E b \in Foreign :
        /\ Cardinality({m \in 1 .. Len(stream) : stream[m] \in Foreign}) < MaxForeign
        /\ Len(stream) < MaxMessages
        /\ stream' = Append(stream, b)
        /\ UNCHANGED <<delivered, pel, stale, dlq, dbVars, workerVars, envVars, settled, tries>>

-----------------------------------------------------------------------------
(* Time: leases and backoffs end, pending messages become old enough for   *)
(* XAUTOCLAIM.  A claim waits for the row lock, so nobody sees a lease or  *)
(* a backoff end while the row is locked.                                  *)

LeaseExpires(j) ==
    /\ row[j].lease /\ Unlocked(j)
    /\ row' = [row EXCEPT ![j].lease = FALSE]
    /\ UNCHANGED <<event, built, redisVars, workerVars, envVars, settled, tries>>

BackoffEnds(j) ==
    /\ ~row[j].due /\ Unlocked(j)
    /\ row' = [row EXCEPT ![j].due = TRUE]
    /\ UNCHANGED <<event, built, redisVars, workerVars, envVars, settled, tries>>

BecomesStale(m) ==
    /\ m \in pel \ stale
    /\ stale' = stale \cup {m}
    /\ UNCHANGED <<stream, delivered, pel, dlq, dbVars, workerVars, envVars, settled, tries>>

-----------------------------------------------------------------------------
(* OutboxPublisherService.publish_pending: XADD first, mark afterwards.    *)

(* The loop over the listed outbox rows goes on, or the relay is done. *)
NextEvent(w, rest) ==
    /\ todo' = [todo EXCEPT ![w] = rest]
    /\ pc' = [pc EXCEPT ![w] = IF rest = {} THEN "reclaim" ELSE "publish"]

ListPending(w) ==
    /\ pc[w] = "list"
    /\ LET Pending == {j \in Jobs : event[j] = "pending"} IN
       \E S \in SUBSET Pending :
           /\ Cardinality(S) <= Batch /\ (S = Pending \/ Cardinality(S) = Batch)
           /\ NextEvent(w, S)
    /\ UNCHANGED <<inbox, fetch, msg, stage, tx, dbVars, redisVars, envVars, settled, tries>>

PublishEvent(w) ==
    /\ pc[w] = "publish" /\ Len(stream) < MaxMessages
    /\ \E j \in todo[w] :
        /\ event[j] = "pending"
        /\ stream' = Append(stream, [job |-> j, shape |-> "ok"])
        /\ todo' = [todo EXCEPT ![w] = @ \ {j}]
    /\ msg' = [msg EXCEPT ![w] = Len(stream) + 1]
    /\ pc' = [pc EXCEPT ![w] = "mark"]
    /\ UNCHANGED <<delivered, pel, stale, dlq, inbox, fetch, stage, tx,
                   dbVars, envVars, settled, tries>>

SkipPublished(w) ==
    /\ pc[w] = "publish"
    /\ \E j \in todo[w] : event[j] = "published" /\ NextEvent(w, todo[w] \ {j})
    /\ UNCHANGED <<inbox, fetch, msg, stage, tx, dbVars, redisVars, envVars, settled, tries>>

MarkPublished(w) ==
    /\ pc[w] = "mark"
    /\ event' = [event EXCEPT ![JobOf(w)] = "published"]
    /\ NextEvent(w, todo[w])
    /\ msg' = [msg EXCEPT ![w] = 0]
    /\ UNCHANGED <<row, built, inbox, fetch, stage, tx, redisVars, envVars, settled, tries>>

(* XADD or the commit of the mark raised: the event stays pending, next event. *)
PublishFails(w) ==
    /\ failures < MaxFailures /\ failures' = failures + 1
    /\ \/ pc[w] = "publish" /\ \E j \in todo[w] : NextEvent(w, todo[w] \ {j})
       \/ pc[w] = "mark" /\ NextEvent(w, todo[w])
    /\ msg' = [msg EXCEPT ![w] = 0]
    /\ UNCHANGED <<inbox, fetch, stage, tx, dbVars, redisVars, crashes, settled, tries>>

-----------------------------------------------------------------------------
(* The consumer group: XAUTOCLAIM of stale messages, XREADGROUP of new     *)
(* ones; the batch is handled in the order of the ids.                     *)

(* The loop over the batch goes on with its first message, or the phase is *)
(* over: reclaiming is followed by consuming, consuming ends the cycle.    *)
NextMessage(w, batch, source) ==
    \/ /\ batch = {}
       /\ inbox' = [inbox EXCEPT ![w] = {}]
       /\ msg' = [msg EXCEPT ![w] = 0]
       /\ fetch' = [fetch EXCEPT ![w] = "consume"]
       /\ pc' = [pc EXCEPT ![w] = IF source = "reclaim" THEN "consume" ELSE "list"]
    \/ \E m \in batch :
       /\ \A n \in batch : m <= n
       /\ inbox' = [inbox EXCEPT ![w] = batch \ {m}]
       /\ msg' = [msg EXCEPT ![w] = m]
       /\ fetch' = [fetch EXCEPT ![w] = source]
       /\ pc' = [pc EXCEPT ![w] = "handle"]

(* Mutant: the cycle never reclaims. *)
NeverReclaim(w) ==
    /\ pc[w] = "reclaim"
    /\ NextMessage(w, {}, "reclaim")
    /\ UNCHANGED <<redisVars, todo, stage, tx, dbVars, envVars, settled, tries>>

ReclaimStale(w) ==
    /\ pc[w] = "reclaim"
    /\ stale' = stale \ FirstOf(stale)
    /\ NextMessage(w, FirstOf(stale), "reclaim")
    /\ UNCHANGED <<stream, delivered, pel, dlq, todo, stage, tx, dbVars, envVars, settled, tries>>

(* Mutant: XREADGROUP with NOACK. *)
ReadNewNoAck(w) ==
    /\ pc[w] = "consume"
    /\ delivered' = IF delivered + Batch < Len(stream) THEN delivered + Batch ELSE Len(stream)
    /\ NextMessage(w, delivered + 1 .. delivered', "consume")
    /\ UNCHANGED <<pel, stream, stale, dlq, todo, stage, tx, dbVars, envVars, settled, tries>>

ReadNew(w) ==
    /\ pc[w] = "consume"
    /\ delivered' = IF delivered + Batch < Len(stream) THEN delivered + Batch ELSE Len(stream)
    /\ pel' = pel \cup (delivered + 1 .. delivered')
    /\ NextMessage(w, delivered + 1 .. delivered', "consume")
    /\ UNCHANGED <<stream, stale, dlq, todo, stage, tx, dbVars, envVars, settled, tries>>

-----------------------------------------------------------------------------
(* _handle_message_inner up to the handler: parse, then claim the row.     *)

(* A message that names no job goes to the dead-letter stream. *)
RejectMessage(w) ==
    /\ pc[w] = "handle"
    /\ NamesJob(msg[w]) => row[JobOf(w)].status = "absent"
    /\ pc' = [pc EXCEPT ![w] = "dlq"]
    /\ UNCHANGED <<todo, inbox, fetch, msg, stage, tx, dbVars, redisVars, envVars, settled, tries>>

(* The SELECT ... FOR UPDATE of claim returned the row. *)
Selected(w) ==
    /\ pc[w] = "handle" /\ NamesJob(msg[w])
    /\ row[JobOf(w)].status # "absent"
    /\ ~LockedByOther(w, JobOf(w))

Active(r) == r.status = "running" /\ r.lease
NotDue(r) == r.status \in {"pending", "retryable"} /\ ~r.due

(* Mutant: the event of a settled job is left in the pending list. *)
LeaveTerminal(w) ==
    /\ Selected(w) /\ row[JobOf(w)].status \in Terminal
    /\ NextMessage(w, inbox[w], fetch[w])
    /\ UNCHANGED <<todo, stage, tx, dbVars, redisVars, envVars, settled, tries>>

ClaimTerminal(w) ==
    /\ Selected(w) /\ row[JobOf(w)].status \in Terminal
    /\ pc' = [pc EXCEPT ![w] = "ack"]
    /\ UNCHANGED <<todo, inbox, fetch, msg, stage, tx, dbVars, redisVars, envVars, settled, tries>>

(* Mutant: the event of a job another worker is running is acknowledged. *)
AckSkipped(w) ==
    /\ Selected(w) /\ (Active(row[JobOf(w)]) \/ NotDue(row[JobOf(w)]))
    /\ pc' = [pc EXCEPT ![w] = "ack"]
    /\ UNCHANGED <<todo, inbox, fetch, msg, stage, tx, dbVars, redisVars, envVars, settled, tries>>

(* ACTIVE and NOT_DUE: the message stays in the pending list. *)
ClaimSkipped(w) ==
    /\ Selected(w) /\ (Active(row[JobOf(w)]) \/ NotDue(row[JobOf(w)]))
    /\ NextMessage(w, inbox[w], fetch[w])
    /\ UNCHANGED <<todo, stage, tx, dbVars, redisVars, envVars, settled, tries>>

(* Mutant: claim does not look for a terminal status. *)
ClaimableAgain(r) == ~Active(r) /\ ~NotDue(r)

Claimable(r) == r.status \notin Terminal /\ ~Active(r) /\ ~NotDue(r)

(* Mutant: off by one. *)
ExhaustedLate(r) == r.attempts > MaxAttempts

Exhausted(r) == r.attempts >= MaxAttempts

DeadLettered(r) == [r EXCEPT !.status = "dead_letter", !.lease = FALSE]

(* Mutant: the attempts are counted before the status is looked at. *)
ExhaustedFirst(w) ==
    /\ Selected(w) /\ Exhausted(row[JobOf(w)])
    /\ tx' = [tx EXCEPT ![w] = DeadLettered(row[JobOf(w)])]
    /\ pc' = [pc EXCEPT ![w] = "dlq"]
    /\ UNCHANGED <<todo, inbox, fetch, msg, stage, dbVars, redisVars, envVars, settled, tries>>

ClaimExhausted(w) ==
    /\ Selected(w) /\ Claimable(row[JobOf(w)]) /\ Exhausted(row[JobOf(w)])
    /\ tx' = [tx EXCEPT ![w] = DeadLettered(row[JobOf(w)])]
    /\ pc' = [pc EXCEPT ![w] = "dlq"]
    /\ UNCHANGED <<todo, inbox, fetch, msg, stage, dbVars, redisVars, envVars, settled, tries>>

(* The claim is flushed, not committed: only the handler's first commit    *)
(* makes it durable.  An event of the other job type buries the job.       *)
ClaimGranted(w) ==
    /\ Selected(w) /\ Claimable(row[JobOf(w)]) /\ ~Exhausted(row[JobOf(w)])
    /\ tx' = [tx EXCEPT ![w] = [row[JobOf(w)] EXCEPT !.attempts = @ + 1,
                                    !.status = "running", !.lease = TRUE]]
    /\ IF stream[msg[w]].shape = "mismatch"
       THEN pc' = [pc EXCEPT ![w] = "bury"] /\ UNCHANGED tries
       ELSE /\ pc' = [pc EXCEPT ![w] = "step"]
            /\ tries' = [tries EXCEPT ![JobOf(w)] = @ + 1]
    /\ UNCHANGED <<todo, inbox, fetch, msg, stage, dbVars, redisVars, envVars, settled>>

-----------------------------------------------------------------------------
(* WikiIngestionHandler.handle: each stage first records its step, which   *)
(* locks the row, and ends in an artifact service that commits (artifact   *)
(* and job row together) or, when the artifact exists, rolls back.  The    *)
(* last stage, the knowledge artifact, leaves its transaction open.        *)

SetJobStep(w) ==
    /\ pc[w] = "step" /\ ~LockedByOther(w, JobOf(w))
    /\ tx' = [tx EXCEPT ![w] = Seen(w)]
    /\ pc' = [pc EXCEPT ![w] = "work"]
    /\ UNCHANGED <<todo, inbox, fetch, msg, stage, dbVars, redisVars, envVars, settled, tries>>

PersistArtifact(w) ==
    /\ pc[w] = "work" /\ stage[w] \in Stages
    /\ IF stage[w] \in built[JobOf(w)]
       THEN UNCHANGED <<row, built>>
       ELSE /\ row' = [row EXCEPT ![JobOf(w)] = tx[w]]
            /\ built' = [built EXCEPT ![JobOf(w)] = @ \cup {stage[w]}]
    /\ tx' = [tx EXCEPT ![w] = NoTx]
    /\ stage' = [stage EXCEPT ![w] = @ + 1]
    /\ pc' = [pc EXCEPT ![w] = "step"]
    /\ UNCHANGED <<event, todo, inbox, fetch, msg, redisVars, envVars, settled, tries>>

(* Mutant: the loop over the stages ends one stage early. *)
FinishEarly(w) ==
    /\ pc[w] = "work" /\ stage[w] \in {NumStages, NumStages + 1}
    /\ pc' = [pc EXCEPT ![w] = "succeed"]
    /\ stage' = [stage EXCEPT ![w] = 1]
    /\ UNCHANGED <<todo, inbox, fetch, msg, tx, dbVars, redisVars, envVars, settled, tries>>

FinishHandler(w) ==
    /\ pc[w] = "work" /\ stage[w] = NumStages + 1
    /\ pc' = [pc EXCEPT ![w] = "succeed"]
    /\ stage' = [stage EXCEPT ![w] = 1]
    /\ UNCHANGED <<todo, inbox, fetch, msg, tx, dbVars, redisVars, envVars, settled, tries>>

(* Some failing services roll back before they raise, a provider error and *)
(* a failed embedding do not.                                              *)
AfterFailure(w) == {tx, [tx EXCEPT ![w] = NoTx]}

FailRetryable(w) ==
    /\ pc[w] = "work"
    /\ failures < MaxFailures /\ failures' = failures + 1
    /\ tx' \in AfterFailure(w)
    /\ pc' = [pc EXCEPT ![w] = "retry"]
    /\ stage' = [stage EXCEPT ![w] = 1]
    /\ UNCHANGED <<todo, inbox, fetch, msg, dbVars, redisVars, crashes, settled, tries>>

FailPermanently(w) ==
    /\ pc[w] = "work"
    /\ tx' \in AfterFailure(w)
    /\ pc' = [pc EXCEPT ![w] = "bury"]
    /\ stage' = [stage EXCEPT ![w] = 1]
    /\ UNCHANGED <<todo, inbox, fetch, msg, dbVars, redisVars, envVars, settled, tries>>

-----------------------------------------------------------------------------
(* Outcomes: refresh the row, mark it whatever it holds now, commit, ack.  *)

MarkSucceeded(w) ==
    /\ pc[w] = "succeed" /\ ~LockedByOther(w, JobOf(w))
    /\ tx' = [tx EXCEPT ![w] = [Seen(w) EXCEPT !.status = "succeeded", !.lease = FALSE]]
    /\ pc' = [pc EXCEPT ![w] = "commit"]
    /\ UNCHANGED <<todo, inbox, fetch, msg, stage, dbVars, redisVars, envVars, settled, tries>>

(* Mutant: the row is buried, the dead-letter stream is not told. *)
BuryQuietly(w) ==
    /\ pc[w] = "bury" /\ ~LockedByOther(w, JobOf(w))
    /\ tx' = [tx EXCEPT ![w] = DeadLettered(Seen(w))]
    /\ pc' = [pc EXCEPT ![w] = "commit"]
    /\ UNCHANGED <<todo, inbox, fetch, msg, stage, dbVars, redisVars, envVars, settled, tries>>

MarkDeadLetter(w) ==
    /\ pc[w] = "bury" /\ ~LockedByOther(w, JobOf(w))
    /\ tx' = [tx EXCEPT ![w] = DeadLettered(Seen(w))]
    /\ pc' = [pc EXCEPT ![w] = "dlq"]
    /\ UNCHANGED <<todo, inbox, fetch, msg, stage, dbVars, redisVars, envVars, settled, tries>>

(* Mutant: a retryable failure acknowledges its message. *)
AckRetryable(w) ==
    /\ pc[w] = "retry" /\ ~LockedByOther(w, JobOf(w))
    /\ row' = [row EXCEPT ![JobOf(w)] = [Seen(w) EXCEPT !.status = "retryable",
                                             !.lease = FALSE, !.due = FALSE]]
    /\ tx' = [tx EXCEPT ![w] = NoTx]
    /\ pc' = [pc EXCEPT ![w] = "ack"]
    /\ UNCHANGED <<event, built, todo, inbox, fetch, msg, stage, redisVars, envVars, settled, tries>>

(* Marked and committed; the message is not acknowledged. *)
MarkRetryable(w) ==
    /\ pc[w] = "retry" /\ ~LockedByOther(w, JobOf(w))
    /\ row' = [row EXCEPT ![JobOf(w)] = [Seen(w) EXCEPT !.status = "retryable",
                                             !.lease = FALSE, !.due = FALSE]]
    /\ tx' = [tx EXCEPT ![w] = NoTx]
    /\ NextMessage(w, inbox[w], fetch[w])
    /\ UNCHANGED <<event, built, todo, stage, redisVars, envVars, settled, tries>>

PublishDeadLetter(w) ==
    /\ pc[w] = "dlq"
    /\ dlq' = dlq \cup {msg[w]}
    /\ pc' = [pc EXCEPT ![w] = "commit"]
    /\ UNCHANGED <<stream, delivered, pel, stale, todo, inbox, fetch, msg, stage, tx,
                   dbVars, envVars, settled, tries>>

CommitOutcome(w) ==
    /\ pc[w] = "commit"
    /\ IF tx[w] = NoTx
       THEN UNCHANGED <<row, settled>>
       ELSE /\ row' = [row EXCEPT ![JobOf(w)] = tx[w]]
            /\ settled' = settled \cup {JobOf(w)}
    /\ tx' = [tx EXCEPT ![w] = NoTx]
    /\ pc' = [pc EXCEPT ![w] = "ack"]
    /\ UNCHANGED <<event, built, todo, inbox, fetch, msg, stage, redisVars, envVars, tries>>

Acknowledge(w) ==
    /\ pc[w] = "ack"
    /\ pel' = pel \ {msg[w]} /\ stale' = stale \ {msg[w]}
    /\ NextMessage(w, inbox[w], fetch[w])
    /\ UNCHANGED <<stream, delivered, dlq, todo, stage, tx, dbVars, envVars, settled, tries>>

-----------------------------------------------------------------------------
(* A cycle that ends early drops the batch and the open transaction.       *)

Abandon(w, next) ==
    /\ crashes < MaxCrashes /\ crashes' = crashes + 1
    /\ tx' = [tx EXCEPT ![w] = NoTx]
    /\ todo' = [todo EXCEPT ![w] = {}]
    /\ inbox' = [inbox EXCEPT ![w] = {}]
    /\ fetch' = [fetch EXCEPT ![w] = "consume"]
    /\ pc' = [pc EXCEPT ![w] = next]
    /\ msg' = [msg EXCEPT ![w] = 0]
    /\ stage' = [stage EXCEPT ![w] = 1]
    /\ UNCHANGED <<dbVars, redisVars, failures, settled, tries>>

(* PostgreSQL or Redis raised outside the handler and outside the relay's  *)
(* own handlers: WorkerLoop.run rolls back and starts the next cycle.      *)
CycleFails(w) ==
    /\ pc[w] \notin {"down", "publish", "mark", "step", "work"}
    /\ Abandon(w, "list")

Crash(w) == pc[w] # "down" /\ Abandon(w, "down")

Restart(w) ==
    /\ pc[w] = "down"
    /\ pc' = [pc EXCEPT ![w] = "list"]
    /\ UNCHANGED <<todo, inbox, fetch, msg, stage, tx, dbVars, redisVars, envVars, settled, tries>>

-----------------------------------------------------------------------------
Relay(w) == ListPending(w) \/ PublishEvent(w) \/ SkipPublished(w) \/ MarkPublished(w)

Fetch(w) == ReclaimStale(w) \/ ReadNew(w)

Claim(w) == RejectMessage(w) \/ ClaimTerminal(w) \/ ClaimSkipped(w) \/ ClaimExhausted(w) \/ ClaimGranted(w)

Handle(w) == SetJobStep(w) \/ PersistArtifact(w) \/ FinishHandler(w)

Conclude(w) ==
    \/ MarkSucceeded(w) \/ MarkDeadLetter(w) \/ MarkRetryable(w)
    \/ PublishDeadLetter(w) \/ CommitOutcome(w) \/ Acknowledge(w)

(* The worker's own progress. *)
Work(w) == Relay(w) \/ Fetch(w) \/ Claim(w) \/ Handle(w) \/ Conclude(w)

(* What may go wrong, at most as often as the bounds say. *)
Misfortune(w) == PublishFails(w) \/ FailRetryable(w) \/ FailPermanently(w) \/ CycleFails(w) \/ Crash(w)

Clock ==
    \/ \E j \in Jobs : LeaseExpires(j) \/ BackoffEnds(j)
    \/ \E m \in Ids : BecomesStale(m)

Intake == ForeignPublish \/ \E j \in Jobs : Upload(j) \/ RequestRegeneration(j)

Next ==
    \/ Intake \/ Clock
    \/ \E w \in Workers : Work(w) \/ Misfortune(w) \/ Restart(w)

(* The loop never stops on its own, whoever operates the system starts a   *)
(* dead worker again, and time passes; nothing is assumed of uploads,      *)
(* crashes or failures.                                                    *)
Fairness ==
    /\ \A w \in Workers : WF_vars(Work(w)) /\ WF_vars(Restart(w))
    /\ \A j \in Jobs : WF_vars(LeaseExpires(j)) /\ WF_vars(BackoffEnds(j))
    /\ \A m \in Ids : WF_vars(BecomesStale(m))

Spec == Init /\ [][Next]_vars /\ Fairness

-----------------------------------------------------------------------------
PcLabels == {"list", "publish", "mark", "reclaim", "consume", "handle", "step", "work",
             "succeed", "retry", "bury", "dlq", "commit", "ack", "down"}

(* Every variable has its type. *)
TypeOK ==
    /\ row \in [Jobs -> Rows]
    /\ event \in [Jobs -> {"none", "pending", "published"}]
    /\ built \in [Jobs -> SUBSET Stages]
    /\ stream \in Seq(Bodies)
    /\ delivered \in Nat
    /\ pel \subseteq Nat /\ stale \subseteq Nat /\ dlq \subseteq Nat
    /\ pc \in [Workers -> PcLabels]
    /\ todo \in [Workers -> SUBSET Jobs]
    /\ inbox \in [Workers -> SUBSET Nat]
    /\ fetch \in [Workers -> {"reclaim", "consume"}]
    /\ msg \in [Workers -> Nat]
    /\ stage \in [Workers -> 1 .. NumStages + 1]
    /\ tx \in [Workers -> Rows \cup {NoTx}]
    /\ crashes \in Nat /\ failures \in Nat
    /\ settled \subseteq Jobs /\ tries \in [Jobs -> Nat]

Acked(m) == m <= delivered /\ m \notin pel

(* The durable outcome of a message: the job an outbox event names has had *)
(* a committed terminal status; anything else may also just have been      *)
(* copied to the dead-letter stream.                                       *)
Accounted(m) == stream[m].job \in settled \/ (m \in dlq /\ ~FromOutbox(m))

(* A message leaves the pending list only after its outcome is durable. *)
AckedIsAccounted == \A m \in 1 .. Len(stream) : Acked(m) => Accounted(m)

(* An accepted job that was never settled still has something that will    *)
(* bring it to a worker: an outbox row to publish or an unacknowledged     *)
(* message of its own.                                                     *)
NoJobLost ==
    \A j \in Jobs : row[j].status # "absent" /\ j \notin settled =>
        \/ event[j] = "pending"
        \/ \E m \in 1 .. Len(stream) : FromOutbox(m) /\ stream[m].job = j /\ ~Acked(m)

(* A job that reports dead_letter can be found in the dead-letter stream.  *)
InDlq(j) == \E m \in dlq : stream[m].job = j
DeadLetterIsPublished == \A j \in Jobs : row[j].status = "dead_letter" => InDlq(j)

(* A job reports success only when every artifact of its pipeline exists.  *)
SucceededIsBuilt ==
    \A j \in Jobs : row[j].status = "succeeded" => built[j] = Stages

(* As NoJobLost, but for the status the API shows: a job that is not terminal  *)
(* now is on its way to a worker.                                          *)
NotStranded ==
    \A j \in Jobs : row[j].status \notin Terminal \cup {"absent"} =>
        \/ event[j] = "pending"
        \/ \E m \in 1 .. Len(stream) : stream[m].job = j /\ ~Acked(m)

(* The inductive strengthening of the four invariants above: what the      *)
(* outbox row, the stream and a worker's open transaction say about a job  *)
(* at every point of the publish-commit-acknowledge sequence.              *)
RangeInv ==
    /\ delivered <= Len(stream)
    /\ stale \subseteq pel /\ pel \subseteq 1 .. delivered /\ dlq \subseteq 1 .. delivered
    /\ \A w \in Workers : inbox[w] \subseteq 1 .. delivered /\ msg[w] <= Len(stream)

OutboxInv ==
    \A j \in Jobs :
        /\ row[j].status # "absent" <=> event[j] # "none"
        /\ event[j] = "published" => \E m \in 1 .. Len(stream) : FromOutbox(m) /\ stream[m].job = j
        /\ \A m \in 1 .. Len(stream) : FromOutbox(m) /\ stream[m].job = j => row[j].status # "absent"

RowInv ==
    \A j \in Jobs :
        /\ row[j].status \in Terminal => j \in settled
        /\ row[j].status = "dead_letter" => InDlq(j)

Running  == {"step", "work", "succeed", "retry", "bury"}
Handling == Running \cup {"handle", "dlq", "commit", "ack"}

WorkerInv(w) ==
    /\ pc[w] = "mark" => msg[w] > 0 /\ FromOutbox(msg[w])
    /\ pc[w] \in Handling => msg[w] \in 1 .. delivered
    /\ tx[w] # NoTx => pc[w] \in Running \cup {"dlq", "commit"} /\ tx[w].status # "absent"
    /\ pc[w] \in Running \/ tx[w] # NoTx =>
           JobOf(w) \in Jobs /\ row[JobOf(w)].status # "absent"
    /\ tx[w] # NoTx /\ pc[w] \in Running =>
           /\ tx[w].status \in Terminal => JobOf(w) \in settled
           /\ tx[w].status = "dead_letter" => InDlq(JobOf(w))
    /\ pc[w] = "work" => tx[w] # NoTx
    /\ pc[w] = "dlq" => tx[w] # NoTx \/ ~FromOutbox(msg[w])
    /\ pc[w] = "commit" =>
           /\ tx[w] # NoTx \/ (msg[w] \in dlq /\ ~FromOutbox(msg[w]))
           /\ tx[w] # NoTx /\ tx[w].status = "dead_letter" => msg[w] \in dlq
    /\ pc[w] = "ack" => Accounted(msg[w])

TxInv == \A w \in Workers : WorkerInv(w)

(* How far a worker's handler is, and that only a handler that is through  *)
(* all its stages can make a job succeed.                                  *)
WorkerBuilt(w) ==
    /\ pc[w] \notin {"step", "work"} => stage[w] = 1
    /\ pc[w] \in {"step", "work"} => 1 .. stage[w] - 1 \subseteq built[JobOf(w)]
    /\ pc[w] = "succeed" => built[JobOf(w)] = Stages
    /\ tx[w] # NoTx /\ tx[w].status = "succeeded" => built[JobOf(w)] = Stages

BuiltInv == SucceededIsBuilt /\ \A w \in Workers : WorkerBuilt(w)

DeliveryInv == RangeInv /\ OutboxInv /\ RowInv /\ TxInv /\ AckedIsAccounted /\ BuiltInv

(* With a single worker nobody can take a lease over: the job a handler    *)
(* works on was not settled before, and a settled job keeps its status.    *)
SingleWorker == \A v, w \in Workers : v = w

SettledWorker(w) ==
    /\ pc[w] \in Running \/ tx[w] # NoTx => JobOf(w) \notin settled
    /\ tx[w] # NoTx => (tx[w].status \in Terminal <=> pc[w] \in {"dlq", "commit"})

SettledInv ==
    /\ \A j \in settled : row[j].status \in Terminal
    /\ \A w \in Workers : SettledWorker(w)

(* Redelivery of a settled job never starts its handler again. *)
NoRerunAfterSettled == [][\A j \in settled : tries'[j] = tries[j]]_vars

(* A terminal status is final. *)
TerminalIsFinal ==
    [][\A j \in Jobs : row[j].status \in Terminal => row'[j].status = row[j].status]_vars

(* max_attempts bounds how often the handler of a job is started. *)
BoundedTries == \A j \in Jobs : tries[j] <= MaxAttempts

(* Every message is delivered and acknowledged in the end. *)
EveryMessageAcked == \A m \in Ids : m <= Len(stream) ~> m <= Len(stream) /\ Acked(m)

(* The status the API shows is the abstract promise of JobSettlement. *)
Outcome == [j \in Jobs |-> IF row[j].status \in Terminal \cup {"absent"} THEN row[j].status ELSE "open"]
Settlement == INSTANCE JobSettlement WITH outcome <- Outcome
SettlesOnce == Settlement!Spec
=============================================================================
