# OpenWikiRAG in TLA+

OpenWikiRAG accepts documents over an HTTP API, turns each of them in a background
worker into a chain of immutable artifacts (normalized text, generated wiki content,
wiki page, chunks and vectors, knowledge graph) and answers questions over them.
PostgreSQL holds the metadata, an object store the bodies, Redis Streams the work
queue, Qdrant and Neo4j derived indexes.

This directory holds the specifications, their TLC configurations and the proofs.
`PROJECT.json` maps every definition to the lines it models.

## 1. Inventory

| component | state it keeps | operations | hard because |
|---|---|---|---|
| job delivery (`application/ingestion.py`, `repositories/jobs.py`, `application/worker.py`) | `ingestion_jobs`: status, attempts, `lease_expires_at`, `available_at` | claim, mark succeeded / retryable / dead letter, acknowledge, reclaim | several workers, at-least-once delivery, leases, one session per worker that any stage may roll back |
| outbox relay (`application/outbox.py`) | `outbox_events.published_at` | list, publish, mark, record failure | publish comes before mark: duplicates |
| stream transport (`infrastructure/streams.py`) | Redis stream, group cursor, pending entries, dead-letter stream | XADD, XREADGROUP, XAUTOCLAIM, XACK | redelivery, messages still in another worker's hand |
| wiki pipeline (`wiki_ingestion.py`, `wiki_regeneration.py`) | none of its own; runs the artifact services in the worker's session | handle | stages commit or roll back the session that holds the claim |
| upload intake (`documents.py`) | object, document, version, job, outbox row, audit records | upload | object first, rows second, cleanup third |
| immutable artifacts (`*_artifacts.py`, `storage.py`) | object body and metadata row per identity | persist | two writers of one identity, cleanup of an object somebody else refers to, a tenant context that ends with its transaction |
| wiki review (`wiki_page_artifacts.py`) | page status, audit trail | review, list | compare-and-set, offsets of a list that grows |
| answer runs (`answer_runs.py`, `run_mutex.py`, `workflow.py`, `answers.py`) | run status, attempts, messages, checkpoints | create, execute, stages, commit | advisory lock, 180 s limit, cancellation, consent withdrawn meanwhile |
| conversations, memory, retention (`conversations.py`, `retention.py`) | messages, memories, `context_purge_after` | append, forget, delete, purge | sequence limit, lock order, purge over two stores |
| model cache (`model_cache.py`) | LRU values, loads in flight, closed flag | get_or_load, close | single flight, eviction beside loads, close during load |
| rate limiter (`security/rate_limit.py`, `api/rate_limit.py`) | counters in Redis | check | who is asking, when a window ends |
| vector index (`vector_ingestion.py`, `vector_rebuild.py`, `qdrant.py`) | manifest rows, points | project, rebuild | rebuild beside ingestion, rows that outlive their transaction |
| knowledge graph (`knowledge.py`, `graph_projection.py`, `graph_retrieval.py`, `neo4j.py`) | rows, nodes | build, upsert, clear, replay, expand | graph written before the commit, replay beside ingestion, stale facts |
| retrieval (`retrieval.py`, `fusion.py`, `deduplication.py`, `evidence.py`, `reranking.py`, `search.py`) | none | search | ties, limits, duplicates, evidence that is not committed |
| extraction, chunking (`extraction.py`, `ocr.py`, `chunking.py`) | none | extract, chunk | offsets, blank pages, overlap at the budgets |
| embeddings (`embedding_batch.py`, providers) | tasks of a batch | embed | one failure among concurrent calls, cancellation |
| sessions and authorization, evaluation, API, telemetry, migrations | | | see section 7 |

The components meet in few places. The API commits a job row and an outbox row in one
transaction (`documents.py:271-317`). The relay, which is the first phase of every
worker cycle, copies outbox rows to the stream. The consumer claims the row a message
names and runs the handler, which calls the artifact services, the vector and the graph
projection in order, all of them on the worker's one database session. The API
reads the committed rows for progress, search, review and answers.

## 2. Modules

| module | models | run by |
|---|---|---|
| `JobDelivery` | outbox, stream, job rows, worker loop, handler transactions | `delivery_*`, `retries_unbounded`, `outcome_unfenced` |
| `JobSettlement` | abstract: an accepted job is open until it is settled exactly once | `delivery_live` (refinement) |
| `ArtifactStore` | persist of one artifact identity by several writers: object, row, cleanup | `services`, `row_without_object` |
| `ImmutableArtifact` | abstract: content is chosen once, answers are true of it | `services` (refinement) |
| `Intake` | one upload: validation, object, rows, audit, cleanup | `services` |
| `WikiReview` | concurrent reviews of pages, and a client that walks their listing | `services` |
| `ModelCache` | loads, eviction and shutdown of the embedding model cache | `services` |
| `RateLimiter` | the client's identity behind proxies, and its window | `services` |
| `Extraction`, `Chunking` | the spans of an extracted document; its parents and children | `services`, `blank_page` |
| `AnswerRuns` | runs of one conversation, memories, deletion and the purge | `answers`, `answers_live`, `snapshots` |
| `AnswerWorkflow` | the stages of a run, between guards and checkpoints | `answers` |
| `EmbeddingBatch` | the concurrent provider calls of a batch | `answers` |
| `VectorProjection` | the vector projection by worker and rebuild | `answers`, `rebuild_context` |
| `KnowledgeGraph` | the graph written by jobs, cleared and replayed | `answers` |
| `GraphExpansion` | the walk over facts that are resolved one by one | `answers` |
| `HybridSearch` | two legs, fusion, grouping, resolution, reranking | `answers` |
| `MCJobDelivery`, `MCArtifactStore`, `MCAnswerRuns` | constants and symmetry of their runs | |
| `MCServices`, `MCAnswers` | run several modules side by side, one of them per behaviour | `services`, `answers` |
| `JobDeliveryProofs`, `ArtifactStoreProofs`, `AnswerRunsProofs` | theorems about the module of that name | tlapm |
| `ServiceProofs`, `SourceProofs` | theorems about `ModelCache`, `Intake`, `RateLimiter` and `WikiReview`; about `Extraction`, `Chunking` and the composition `MCServices` | tlapm |
| `ProjectionProofs`, `AnswerPathProofs`, `SearchProofs` | theorems about `KnowledgeGraph` and `VectorProjection`; about `EmbeddingBatch`, `AnswerWorkflow` and `GraphExpansion`; about `HybridSearch` and the composition `MCAnswers` | tlapm |

`JobDelivery` treats a stage as one step that commits or fails (`PersistArtifact`);
`ArtifactStore`, `VectorProjection` and `KnowledgeGraph` are what happens inside that step
when several processes run it for one document, which `JobDelivery` shows to be
possible (a lease may end while its holder works). `AnswerRuns` treats the workflow's stages
alike, as steps with a checkpoint; `AnswerWorkflow` is their data, and
`HybridSearch` and `GraphExpansion` are two of its stages.

The modules of `MCServices` share no state in the code. Those of `MCAnswers` meet only in committed rows,
which each of them models as far as it reads them (a row that becomes available is an action of
the reader's module). One of them running in a behaviour is therefore enough; a
variable `service` or `part` says which, and the variables of the others keep one value. Their
properties are restated in the MC module under the same names.

### JobDelivery

State, by owner:

* PostgreSQL: `row` (status, attempts, whether the lease is in the future, whether the job
  is due), `event` (the outbox row), `built` (the stages whose artifact row is committed).
* Redis: `stream`, `delivered` (the group's cursor), `pel` (pending entries), `stale` (those
  idle for at least the lease time), `dlq`.
* Each worker: `pc`, `todo` (outbox rows listed), `inbox`/`msg`/`fetch` (the batch), `stage`, and
  `tx`, the uncommitted version of the job row in its session. `tx` is what makes this code
  subtle: `claim` only flushes, so the claim is invisible to others and any rollback inside
  the handler discards it, while a stage that persists an artifact commits it along.
* History: `settled` (jobs with a committed terminal status at some time), `tries` (handler
  starts per job).

One worker cycle is `list -> publish/mark* -> reclaim -> handle* -> consume -> handle* -> list`,
as in `WorkerLoop.run_once`; a message goes through `handle -> step/work* -> succeed | retry |
bury -> dlq -> commit -> ack`. `CycleFails` is the loop's `except Exception`; `Crash` and
`Restart` are the process; a message whose handling is cut off stays in `pel` until
XAUTOCLAIM.

Abstractions: time is three monotone facts (a lease in the future, a backoff not over, a
message not yet stale) that `LeaseExpires`, `BackoffEnds` and `BecomesStale` end at any moment
while the row is not locked (a claim waits for the lock, so the moment it ends cannot be
observed earlier). The order in which outbox rows are listed is arbitrary. The relay's look at
`published_at` is merged with the XADD, and the refresh after the handler with the mark that follows
it: each pair runs back to back in one session. `PersistArtifact` commits, or reuses the
artifact and rolls back; whether a failing stage rolled back is a free choice
(`AfterFailure`). Artifacts are counted per job; regenerations start with any subset present.
Duplicate copies in the dead-letter stream collapse. Rejecting a message from a
foreign producer covers events that do not parse, name no job, or have the wrong type.

Properties: `AckedIsAccounted` (an acknowledged message has a durable outcome), `NoJobLost` (an
accepted job that was never settled has an outbox row to publish or an unacknowledged message of its
own), `DeadLetterIsPublished` and `SucceededIsBuilt` (what a terminal status promises is
there), `NotStranded`, `TerminalIsFinal` and `NoRerunAfterSettled` (with one worker process, which is
the deployment of the compose file; with two, the first fails), `SettlesOnce` (the status the API shows
implements `JobSettlement!Spec`, liveness included), `EveryMessageAcked`.

### ArtifactStore

State: `row`, the content the committed row names; `objects`, the contents whose object exists (the key
of an object contains the checksum of its content, so content and key are one thing); per
writer `pc`, `mine` and `outcome`. A call is

    lookup -> verify                            (a row of the same content exists)
           -> put -> insert -> commit           (none exists)
                            -> reread -> verify | discard   (IntegrityError)
                            -> cleanup          (any other exception)

`discard` and `cleanup` are the same `_cleanup` call; they differ in the error that is raised. `InsertWaits`
is PostgreSQL's unique index: an INSERT waits for the end of a transaction that inserted the same
key. The four services differ in one respect that matters here: all but the normalized one read the object of a row
before they reuse it (`Verifies`). `PutFails` may leave the object behind (S3's length check comes after the
upload), `CommitLost` allows a COMMIT that raises although it took effect. `RowSecurity` says whether
row-level security binds the database role: the tenant's context is local to a transaction, the loser of
the insert has rolled back, and its second look (`Reread`) finds no row.

Abstractions: one identity, since neither keys nor unique constraints connect two of them. The checks
before the lookup end the call without a change of state and are left out. The local
storage renames a temporary file, so both storages put atomically.

Properties: `ObjectOutlivesRaces` (a committed row has its object, whatever crashes and whatever the object
store refuses, as long as losers see the winner and the database raises only IntegrityError; without that
premise it is `RowHasObject`, which is violated), `NoLitter`, `ChosenOnce` (refinement of
`ImmutableArtifact`), `CallsEnd`.

### Intake, WikiReview, ModelCache, RateLimiter

`Intake` follows one upload through its steps, each of which may raise, with a crash (which also stands for a
cancelled request) at any of them. `UploadHonest`: an answer agrees with the rows, the object and the
audit. What it does not promise is in the property's premises: a put that raises after storing,
and a crash before the commit, leave an object without rows; a COMMIT answered with an error although it
took effect lets the cleanup delete the object of committed rows.

`WikiReview`: an UPDATE with the expected status in its WHERE clause waits for another writer of the
row and then sees what that one committed. The audit record goes into the same transaction.
`ReviewHistoryChains` relates the audit trail to the statuses; `WalkMissesNothing` is about the
unfiltered listing, newest first, read by offset. A listing filtered by status may skip pages when another
page leaves the status; nothing in the code says otherwise.

`ModelCache`: an action is a stretch of asyncio code between two awaits. `ModelsAccounted`, `NoModelLost`
and `CacheCallsEnd` hold with failing and cancelled cleanups and a shutdown at any
moment. A load may return a model that was evicted and closed meanwhile: the cache does not count users
(a hazard without a property).

`RateLimiter`: `Path` is what trusted proxies append to what the client wrote; `Identity` is what the
middleware makes of it. A header that cannot be read counts against the proxy, so
`QuotaPerClient` speaks of readable requests.

### Extraction, Chunking

One document per behaviour, every small one as an initial state. Texts are sequences of lines
(their length, their ending, whether blank) or of tokens (their length, the depth of a heading); the
modules compute the offsets the code computes. A loop of the code is a recursive function of the number of
turns taken (`Offsets`, `Assembled`, `Built`, `KeptTo`, `Starts`, `Cursors`, `ParentsTo`): its last
value is the loop's result. `ExtractionTraced` and `ChunksCover` are reference
definitions of what the spans and windows must be. A heading after a skipped level is
filed under the sibling before it; section paths are not modelled. A child window may be contained in the one before.

### AnswerRuns, AnswerWorkflow

`AnswerRuns` has PostgreSQL at READ COMMITTED with the row locks that matter (`convLock`, and the rows
`forget` and `purge` hold), the advisory lock (`mutex`), the checkpointer on a connection of its own, two clients,
the owner who forgets memories or deletes the conversation, and the operator's purge. A
week passing (`WeekPasses`) needs nobody in flight: no request lasts a week. Forgetting locks runs
and then the conversation, an answer and the purge lock the conversation first: PostgreSQL rolls one of the
two back (`BreakDeadlock`, `BreakPurgeDeadlock`). A full conversation makes a run retryable until its
attempts are used up; a run at its last attempt stays retryable or running. A
claim that read the row before the purge overwrites the purge's `failed`, and the next guard fails the
run again. The loss of the lock's connection is not modelled.

`ConversationIntact`, `Erased`, `AnswerStays` and `WithdrawnNeverAnswers` are safety;
`RequestsEnd` and `WithdrawnIsErased` liveness.

`AnswerWorkflow` is one run's thread through the nine stages, each guarded before and after and then
checkpointed, resumed by processes that may be configured with another provider, while documents become
citable and access may be withdrawn. `WorkflowGrounded`: every stage finds its inputs and nothing an
earlier one was done with, an answer cites only passages of its prompt, and after the withdrawal no more than the
running stage's result is saved.

### EmbeddingBatch, VectorProjection, KnowledgeGraph

`EmbeddingBatch`: `BatchAccounted` is all results or none, and no call left behind.

`VectorProjection`: worker and rebuild call the same service. A point's id is hashed from everything but its
vectors, so a provider that does not repeat itself meets a conflict. The two may both find a point absent
and both write it; the write lock is one process's own. `ProjectionComplete`
holds in spite of that; `RebuildReplays` does not hold.

`KnowledgeGraph`: the graph is written before the job commits. `GraphCovers` promises the committed artifacts while
the graph was never cleared, and after a replay those that were committed when it began. A worker that
wrote the graph before a clearing and commits after the replay passed its id is in neither.

### GraphExpansion, HybridSearch

`GraphExpansion` resolves each fact against the canonical rows before it quotes it or follows it.
`ExpansionGrounded` compares the walk with a definition of what is reachable; completeness is claimed for
walks that hit no limit (ten facts are read before stale ones are sorted out, so stale ones may crowd out
valid ones). A fact may join an entity with itself.

`HybridSearch` has scores as small numbers and RRF sums as exact fractions, compared by
cross-multiplication. Qdrant chooses among equal scores at the limit (`Returned`). `AgreementKept`: what is
ahead in every leg is never behind, nor dropped for the other. `ResultsResolved`: one hit per chunk, without
gaps, of available evidence, and no slot lost to a duplicate. `NothingRefused`: the checks that the
code runs on its own results never refuse one.

## 3. Runs and bounds

| run | instance | shows |
|---|---|---|
| `delivery_pair` | 1 job, 2 workers, 1 stage, 2 attempts, batch 1, 1 crash, 1 failure, workers symmetric | the safety invariants and the inductive invariant under all races of two workers for one job |
| `delivery_single` | 2 jobs (an upload, a regeneration), 1 worker, 1 crash, 1 failure | finality and no stranded job with one worker, batches of two |
| `delivery_live` | 1 job, 1 worker, 1 foreign message, 1 crash, 1 failure | refinement of `JobSettlement`, every message acknowledged |
| `services` | see below, 132,000 states | the modules of `MCServices`, safety and liveness |
| `answers` | see below, 1.98 million states | the modules of `MCAnswers`, safety |
| `answers_live` | 1 run, 2 clients, 1 memory, 2 messages, 1 failure | requests end, withdrawn history is erased |
| `retries_unbounded` | 1 worker, 2 attempts, 3 failures, no crash | `BoundedTries` is violated |
| `outcome_unfenced` | 2 workers, 3 attempts, 1 failure, no crash | `NotStranded` is violated |
| `row_without_object` | 2 writers, row-level security, no fault at all | `RowHasObject` is violated |
| `snapshots` | 1 run, 1 memory, no failure | `SnapshotsInvalidated` is violated |
| `blank_page` | 2 pages, 1 for OCR | `BlankPageIsNoFailure` is violated |
| `rebuild_context` | 3 artifacts, pages of 2, no fault | `RebuildReplays` is violated |

Delivery. A second message of one job needs a relay race, a failed mark or a crash after XADD; each of these is
within the bounds, and `MaxMessages = 4` is never reached as a limit. `MaxAttempts = 2` reaches
the attempt limit by lease expiry alone, so `ClaimExhausted` needs no failure from the budget. One
crash and one failure combine with any number of lease expiries, stale messages and permanent failures,
which have no bound. In `delivery_pair` two workers and one job are enough for every row conflict, because each
session holds at most one row; jobs interact only through batches, which `delivery_single` covers.

`services`. Store: 2 writers and 2 contents are a match and a conflict, with one crash, one
storage and one database exception and a lost COMMIT, for a service that verifies. Cache: 2 keys, 2
callers, room for one model, 3 loads: an eviction while another load runs. Limiter: limit 2, window 2, two
clients, one proxy, up to two hops. Review: 2 pages, 2 reviewers, 3 reviews, windows of one page.
Upload: any 3 faults. Extraction: documents of up to 2 pages of 2 lines, every kind of line. Chunking: up to
4 tokens of lengths 1, 3 and 6, budgets at which the character limit, the token limit and the
overlap each bind.

`answers`. Runs: 2 runs, 2 clients, 1 memory, 3 messages (so that the second answer meets a full conversation), 2
attempts, 1 failure; runs and clients are symmetric. Batches of 3 with 2 at a time and up to 5 requests: a
second batch that is not full. Vectors: 2 artifacts of one chunk, 2 possible vectors, 1 fault, pages of two.
Graph: 3 artifacts, pages of two, 2 faults. Expansion: 3 entities, 3 facts of 2 chunks, 2 hops, all
relations, with limits that bind (2 facts of an entity, 2 passages). Search: 3 points
of 2 chunks, all score orders with ties, 2 of a leg, with and without reranking. Workflow: 2
passages, 2 providers, all nine stages, 2 resumptions.

`MCServices` and `MCAnswers` set CHECK_DEADLOCK FALSE because their parts end: a finished search or extraction has
nothing left to do. The same holds for the runs of single modules that do so.

Fairness. `JobDelivery`: weak fairness of a worker's own progress (the loop of `worker.py:111-130` never
stops on its own), of time, and of the restart of a dead worker. The last is an assumption about
operation: the compose file has no restart policy, a dead worker comes back when
`ops/start_project.sh` is run again. Nothing is assumed of uploads, crashes or failures. `SettlesOnce` and
`EveryMessageAcked` therefore say: if from some moment on nothing goes wrong any more, everything settles.
Bounding failures is part of that claim: see `retries_unbounded`. `ArtifactStore`, `ModelCache`: a
begun call's own progress (the coroutine goes on when its awaited call returns). `RateLimiter`: time.
`AnswerRuns`: a begun request goes on, a week ends, the operator runs the purge again and again
(its schedule is the operator's); strong fairness of the two commits that wait for row locks,
because PostgreSQL queues the waiters of a lock. The other modules state safety only.

## 4. Findings

1. `retries_unbounded`: README.md:133-134 promises "bounded retries". The attempt is counted in `claim` but
   only flushed; a stage that rolls back before it raises undoes the count and `mark_retryable`
   commits the old number. Such a failure is retried without end.
2. `outcome_unfenced`: the outcome is written after a refresh that looks at neither status
   nor lease. A worker that lost its lease can turn `succeeded` into `retryable` after the
   message was acknowledged; nothing is left that would retry the job, although
   jobs.py:154 says "The ingestion attempt will be retried."
3. `row_without_object`: chunk_artifacts.py:196 and wiki_generation_artifacts.py:67 say that the JSON is written
   before its metadata is committed, so a row has its object. The loser of a race looks for the winner
   after a rollback that ended the tenant context; under row-level security it sees no row and
   deletes the object both share. Without row-level security another exception than IntegrityError has the
   same effect.
4. `snapshots`: conversations.py:263 says that a deletion invalidates "every saved preference snapshot". A
   question that read the memories before and is committed after keeps one.
5. `blank_page`: ocr.py:218 calls an empty string "a valid no-text observation"; a PDF whose OCR pages are all
   blank fails as a whole.
6. `rebuild_context`: vector_rebuild.py:56 promises to replay the tenant's artifacts in pages. The first
   projection ends the session's transaction: with a reused manifest the page's rows are expired, with a new
   one the tenant context is gone. (The graph's replay stays in one transaction and is not affected.)

## 5. Proofs

Every theorem holds for any sets and any values of the constants that satisfy the named assumptions of the
module in question; TLC evaluates the assumptions on the runs' instances.

| module | theorem | statement |
|---|---|---|
| `JobDeliveryProofs` | `Delivery` | `Spec => [](TypeOK /\ DeliveryInv)` |
| | `TypeCorrect`, `AckAfterOutcome`, `AtLeastOnce`, `DeadLetterFound`, `SuccessIsComplete` | `Spec => []` `TypeOK`, `AckedIsAccounted`, `NoJobLost`, `DeadLetterIsPublished`, `SucceededIsBuilt` |
| | `OpenJobsArrive` | `SingleWorker /\ Spec => []NotStranded` |
| | `StatusIsFinal`, `SettledIsNotRerun` | `SingleWorker /\ Spec =>` `TerminalIsFinal`, `NoRerunAfterSettled` |
| | `ImplementsSettlement` | `SingleWorker /\ Spec => Settlement!Init /\ [][Settlement!Next]_Outcome` |
| `ArtifactStoreProofs` | `Store`, `StoreTypeCorrect`, `StoreRaces` | `Spec => [](TypeOK /\ StoreInv)` and its halves |
| | `ObjectKept`, `RacesLeaveNothing` | `Spec => []ObjectOutlivesRaces`, `Spec => []NoLitter` |
| | `Implements` | `Spec => ChosenOnce`, assuming `~RowSecurity` |
| `AnswerRunsProofs` | `AnswerTypes`, `ConversationStaysIntact`, `PurgedStaysErased` | `Spec => []` `TypeOK`, `ConversationIntact`, `Erased` |
| | `AnswerIsNeverLost`, `ConsentOutlivesRetries` | `Spec => AnswerStays`, `Spec => WithdrawnNeverAnswers` |
| `ServiceProofs` | `CacheAccountsForModels`, `CacheLosesNoModel` | `Cache!Spec => []ModelsAccounted`, `Cache!Spec => NoModelLost` |
| | `UploadIsHonest`, `OneQuota` | `Upload!Spec => []UploadHonest`, `Limiter!Spec => []QuotaPerClient` |
| | `ReviewsChain`, `WalkIsComplete` | `Review!Spec => []` `ReviewHistoryChains`, `WalkMissesNothing` |
| `SourceProofs` | `ExtractionsAreTraced`, `ChunksCoverDocuments` | `Extract!Spec => []ExtractionTraced`, `Chunker!Spec => []ChunksCover` |
| | `ServicesAreSound` | `ServicesSpec =>` every invariant of the run `services`, and `NoModelLost` |
| | `ServicesImplement` | `ServicesSpec => ChosenOnce`, assuming `~RowSecurity` |
| `ProjectionProofs` | `GraphIsCovered`, `ProjectionsAreComplete` | `Graph!Spec => []GraphCovers`, `Vectors!Spec => []ProjectionComplete` |
| `AnswerPathProofs` | `BatchesAreAccounted`, `WalksAreGrounded`, `AnswersAreGrounded` | `Batcher!Spec => []BatchAccounted`, `Expander!Spec => []ExpansionGrounded`, `Workflow!Spec => []WorkflowGrounded` |
| `SearchProofs` | `SearchesAreSound` | `Search!Spec => []SearchSound` |
| | `AnswersAreSound`, `RunsAreSound` | `AnswersSpec =>` the six invariants above of the parts; `AnswersSpec =>` those of the answer runs |

The four composition theorems (`ServicesAreSound`, `ServicesImplement`, `AnswersAreSound`, `RunsAreSound`) are about the
specifications the runs `services` and `answers` check: a step of the composition is a step of the part that runs and
leaves the others alone, so the parts' inductive invariants carry over. A service that does not run stays in
one of its initial states; that the artifact store has one is `ContentsAssumption` (a stage produces something).

### The arguments

Few of the properties are inductive. Each module states, after its properties, the strengthening that is; a run
of TLC preceded each proof.

*Job delivery.* Whether an acknowledgement is safe depends
on what the worker did before it. `DeliveryInv` therefore says, for each point of the
publish-commit-acknowledge sequence, what must already be true: `OutboxInv` (a published
outbox row has a message, a message of the outbox has a job), `RowInv` (a terminal row is in
`settled`, a dead one in `dlq`), `WorkerInv` (at `commit` an open transaction that
says dead_letter has its copy in `dlq`; at `ack` the message is accounted for) and
`WorkerBuilt` (a handler at stage n has built 1..n-1). `HistoryGrows` shows that the streams and the
history only grow and that a committed row never becomes absent again; with it, what a worker knows survives
the steps of all the others. A worker step then has to establish its own `WorkerInv` only.
`NoJobLost` follows from `DeliveryInv` without induction.
`ForeignAssumption` says that a foreign message is never indistinguishable from an outbox event;
`AckedIsAccounted` needs it, since such a message would count as the job's own.

The theorems with `SingleWorker` are about the deployment of the compose file, one worker process. With two workers they
are false, and the run `outcome_unfenced` shows how. `SettledInv` adds what one worker brings: while it runs a
handler or has a claim open, its job was never settled, and a settled job's row stays
terminal. Lemma `OneRowStep` says it of a step: at most one row changes, and none that is terminal; finality, no rerun
and the refinement of `JobSettlement` all follow from it.

*Artifact store.* `ObjectOutlivesRaces`: a commit gives the row its object only if nobody deleted the object since
the put. `ObjectInv` says so for every writer that may still commit, which in turn needs that writers
that delete (`discard`) only delete a content that already lost (`RaceInv`) and that a writer at
`commit` found no row and is alone there (`OneInserter`). `LitterInv` accounts for each object by the row or by
a writer that is still to learn whether it lost. `Implements` uses `RaceInv` too: an answer is true of the
row because the row was compared with the writer's content when it was read and never changes; each step of
a writer is shown to be an `Ask`, a `Return`, a `Choose` or a stutter of the abstract specification. With
row-level security it is false (the loser answers a conflict with its own content), hence the assumption.

*Answer runs.* `AnswerInv` has one part per actor. `RequestInv`: an execution holds the advisory lock of its run,
which has no answer yet; past the guard the run has a checkpoint and no consent withdrawn for a week; an insertion holds the
conversation lock and the next sequence number. `ForgetInv` and `PurgeInv`: the rows that a forgetting or a purge
has locked are still as they were read, and the purge has deleted the checkpoints of all it is about to
scrub. `MessageInv` counts the messages of each run. `Erased` is preserved because a late
execution would need a checkpoint, and the purge deleted it before. The two action properties come from the same case split
(`AnswersKept`).

*Cache, uploads, quota, reviews.* `CacheInv`: no load occurs twice among cached and retained models, a running load is of a
model nobody has seen and of a key that is not cached, a shutdown moves all models over at once.
`UploadInv` says at each step of an upload which object and rows exist. `LimiterInv` bounds what a client was admitted
by its counter; lemmas about the position of the last untrusted hop show that the key of a readable request is the client's
address whatever the header says. `ReviewInv`: who is about to commit a review holds the row, which still has the status
that was read; a walk that has not seen a page finds it behind its offset. a page
that is generated meanwhile moves the others back by one (`InsertKeeps`), never before the offset.
`LimiterAssumption` excludes that a client connects from a trusted proxy's address; `ReviewAssumption` and
`CacheAssumption` say that a page size and a cache have room for one.

*Extraction, chunking.* Here the steps are few and large: the theorems are about what the loops compute, for documents of any
length. The library's induction takes the property as an operator, so `SourceProofs` states it once with the property as
a set of numbers (`InductionTo`, from well-foundedness of the order on the naturals), and from it that a function
defined by recursion up to a length exists and has the values its equation gives it (`RecursionTo`,
`RecursTyped`). Each loop then has a lemma about one turn and one about all.

A document assembled from its first i pages is `TracedTo(i)`: its spans tile it, and for each of these pages they follow the
source from 0 to the end. `AddPageTraces` shows that a page with text adds exactly such spans, the newline behind a page
belonging to its last one; `AppendKeeps` that leaving blank pages out keeps the order of the others, and
`AddParagraphIs` is the step of a DOCX. So every document passes its own checks (`Tiles`), and a failure
for provenance can only come from OCR. `ExtractInv` remembers that OCR is only entered with pages to
recognize: when it ends with no recovered page, it has attempted some.

For chunks, `Measured` says that the spans of tokens are increasing, so a window that starts later or ends earlier has fewer characters.
Hence the next window reaches at least as far as the one before (`WindowReaches`): the tokens it shares with it fit, being
part of a window that did. The cursor advances in every turn, the overlap being less than a window (`CursorAdvances`), so the
loop ends within the section's length; `WindowsAre` concludes that the windows cover the section. Parents of two sections
join without a gap (`WholeJoins`, `ParentsAre`), also before the first root heading. A window is too long only
where a single token exceeds a budget, and that of a parent or of a child does so for any cursor that meets the token: failing is
never a matter of where the windows fall. `ChunkingAssumption` is what `ChunkingConfig.__post_init__` accepts, with
tokens of at least one character; `ExtractionAssumption` says that the bounds and `max_pages` are numbers.

*Projections.* `GraphInv`: the page the replay is in is the lowest part of what it has left, so what was promised and is
not among its rows is written or beyond them. `VectorInv` says the same of the vectors' rebuild, and of each call which
points it has written. `ContextInv` is the surprising part: under row-level security a rebuild whose context is gone
sees an empty next page and takes it for the end. It is still complete because only a page of a single artifact gets
that far (at the second the rebuild fails), and with pages of more than one such a page is the last. That is why `ProjectionAssumption` has
`PageSize > 1` (50 in the code): with pages of one, `ProjectionComplete` is false.

*Batches, walk, workflow.* `BatchInv`: only tasks of the current batch are begun, a cancelled batch has none that could still
call the provider. `ExpansionInv` has the walk's frontier reached by ready facts, and, unless a limit cut something
off, every usable fact of a visited entity seen and quoted; completeness uses that what was ready when the
walk began stays ready. `Within(facts, hops)` is defined by cases for one and two hops, the
code's maximum (`ExpansionAssumption`), which keeps induction out of the proof. `WorkflowInv` says what a stage works on and that a
save comes after a check of access.

*Search.* First, of any strict order on a finite set (`StrictOrder`): counting who comes before gives ranks that are in that
order, distinct and without gaps (`RankOrder`, `RanksAreFull`). It is used three times, for a leg, for the fusion and for the
hits, which is why the checks that the code runs on its results never refuse one. The order of the fusion is strict
because comparing fractions by cross-multiplication is transitive (`CrossMultiplied`), and a point that is ahead in every
leg has the larger sum (`DominanceIsKept`, for any `RrfK`). `ResolutionInv` says that groups are taken in order:
all that were passed are ahead of all that are left, and what was available at the beginning was kept. Hence a dominating point's
group, whose leader is no worse, has been passed before the hit's group and is ahead of it.

## 6. Only model-checked

* All liveness (`CallsEnd`, `CacheCallsEnd`, `WindowEnds`, `EveryMessageAcked`, `RequestsEnd`,
  `WithdrawnIsErased`, and the liveness part of `SettlesOnce`): out of the prover's reach.
* The properties of the runs that expect a violation: they are false of the code.
* The order of fused scores in floating point: the model's sums are exact, `math.fsum` rounds.

## 7. Not modelled

* Sessions and authorization: login, token rotation and the permission table are access control, a subject of its
  own. `AnswerRuns` and `AnswerWorkflow` take the outcome of an authorization as a fact that may be withdrawn.
* The parsing of document formats, the wording of prompts and pages, the regular expressions of
  facts, tokenization and hashing: text processing without protocol.
* Model servers, Qdrant, Neo4j, Redis and S3 themselves: external, as the code uses them.
* The SQL of policies and migrations: what row-level security hides from a transaction without
  context is in `ArtifactStore` and `VectorProjection`.
* Evaluation and benchmarks (offline arithmetic), configuration, routing, metrics, tracing, logging.
* The connection of the advisory lock breaking, a cancelled `close()` of the model cache, more than one
  conversation, the titles and listing of conversations, the score cache of the reranker.
