-------------------------- MODULE VectorProjection --------------------------
(***************************************************************************)
(* The vector projection of one tenant's normalized artifacts: the worker  *)
(* projects an artifact (manifest row, embeddings, one Qdrant point per    *)
(* chunk), and the rebuild command replays all artifacts page by page in   *)
(* one session, while the worker goes on.  The two are processes of their  *)
(* own: the write lock of QdrantVectorIndex does not keep them apart.      *)
(***************************************************************************)
EXTENDS Naturals, FiniteSets

CONSTANTS
    Artifacts,      \* ids of normalized artifacts, ordered like their (random) UUIDs
    ChunkCount,     \* chunks of an artifact
    VectorValues,   \* what the providers may return for a chunk
    NoVector,       \* no point in the index
    PageSize,       \* artifacts of a page of the rebuild (50 in the code)
    MaxProjectionFaults \* bound: exceptions of the services, crashes of a process

VARIABLES
    row_security,   \* whether row-level security binds the database role
    normalized,     \* PostgreSQL: committed normalized artifacts
    manifests,      \* PostgreSQL: artifacts with a committed chunk manifest
    points,         \* Qdrant: the vector of each chunk's point
    projection,     \* per process: its call of VectorIngestionService.project
    rebuild,        \* the loop of rebuild_vector_projection
    projectionFaults

Processes == {"worker", "rebuild"}
NoCall    == [step |-> "idle", artifact |-> 0, vector |-> NoVector, chunk |-> 1]
NoRebuild == [status |-> "idle", cursor |-> 0, rows |-> {}, context |-> FALSE, expired |-> FALSE, promised |-> {}]
Ended     == {"idle", "success", "failed"}

Init ==
    /\ row_security \in BOOLEAN
    /\ normalized \in SUBSET Artifacts /\ manifests \in SUBSET normalized
    /\ points = [chunk \in Artifacts \X (1..ChunkCount) |-> NoVector]
    /\ projection = [p \in Processes |-> NoCall]
    /\ rebuild = NoRebuild
    /\ projectionFaults = 0

Fault  == projectionFaults < MaxProjectionFaults /\ projectionFaults' = projectionFaults + 1
Step(p, step) == projection' = [projection EXCEPT ![p].step = step]
Return(p)     == projection' = [projection EXCEPT ![p] = [NoCall EXCEPT !.step = "success", !.artifact = projection[p].artifact]]
Raise(p)      == projection' = [projection EXCEPT ![p] = [NoCall EXCEPT !.step = "failed"]]
NextChunk(p)  == projection' = [projection EXCEPT ![p].step = "look", ![p].chunk = @ + 1]
Begun(p, a)   == projection' = [projection EXCEPT ![p] = [@ EXCEPT !.step = "persist", !.artifact = a, !.chunk = 1]]
Database == <<row_security, normalized>>

RebuildFails == rebuild' = [NoRebuild EXCEPT !.status = "failed"]

-----------------------------------------------------------------------------
(* VectorIngestionService.project, called by either process. *)

(* Row-level security hides every row from a transaction without context; *)
(* the worker sets the context before each stage.                         *)
Visible(p) == p = "worker" \/ rebuild.context \/ ~row_security

(* ChunkManifestService.persist ends the transaction, and with it the     *)
(* context: by a rollback, which also expires the loaded rows, when the    *)
(* manifest is reused, by a commit when it is created.                     *)
Persist(p) ==
    /\ projection[p].step = "persist"
    /\ IF Visible(p)
       THEN /\ Step(p, "embed") /\ manifests' = manifests \cup {projection[p].artifact}
            /\ rebuild' = IF p = "worker" THEN rebuild
                          ELSE [rebuild EXCEPT !.context = FALSE, !.expired = projection[p].artifact \in manifests]
       ELSE Raise(p) /\ UNCHANGED <<manifests, rebuild>>
    /\ UNCHANGED <<Database, points, projectionFaults>>

(* Both batches of embeddings, all of them or none. *)
Embed(p) ==
    /\ projection[p].step = "embed"
    /\ \E v \in VectorValues : projection' = [projection EXCEPT ![p].step = "look", ![p].vector = v]
    /\ UNCHANGED <<Database, manifests, points, rebuild, projectionFaults>>

(* A chunk's point: its id is hashed from everything but the vectors, so   *)
(* that another vector for the same chunk is a conflict, not a new point.  *)
PointId(call)       == <<call.artifact, call.chunk>>
BuiltPoint(call)    == call.vector
Stored(call)        == points[PointId(call)]
Same(stored, built) == stored = built

(* QdrantVectorIndex.upsert reads first: absent, the same, or a conflict. *)
Look(p) ==
    /\ projection[p].step = "look"
    /\ LET call  == projection[p]
           found == IF call.chunk > ChunkCount THEN NoVector ELSE Stored(call)
       IN \/ call.chunk > ChunkCount /\ Return(p)
          \/ call.chunk <= ChunkCount /\ found = NoVector /\ Step(p, "write")
          \/ found # NoVector /\ Same(found, BuiltPoint(call)) /\ NextChunk(p)
          \/ found # NoVector /\ ~Same(found, BuiltPoint(call)) /\ Raise(p)
    /\ UNCHANGED <<Database, manifests, points, rebuild, projectionFaults>>

Written(p) == LET call == projection[p] IN [points EXCEPT ![PointId(call)] = BuiltPoint(call)]

Write(p) ==
    /\ projection[p].step = "write"
    /\ points' = Written(p)
    /\ NextChunk(p)
    /\ UNCHANGED <<Database, manifests, rebuild, projectionFaults>>

(* Mutant: a failed upsert is passed over. *)
WriteFailsQuietly(p) ==
    /\ projection[p].step = "write" /\ Fault
    /\ points' \in {points, Written(p)}
    /\ NextChunk(p)
    /\ UNCHANGED <<Database, manifests, rebuild>>

(* Qdrant may have stored the point before the call raised. *)
WriteFails(p) ==
    /\ projection[p].step = "write" /\ Fault
    /\ points' \in {points, Written(p)}
    /\ Raise(p)
    /\ UNCHANGED <<Database, manifests, rebuild>>

(* The database, the object store, a provider or Qdrant raises, or the     *)
(* process dies; the manifest may have been committed.                     *)
ProjectFails(p) ==
    /\ projection[p].step \in {"persist", "embed", "look"} /\ Fault
    /\ manifests' \in IF projection[p].step = "persist" THEN {manifests, manifests \cup {projection[p].artifact}}
                      ELSE {manifests}
    /\ Raise(p)
    /\ UNCHANGED <<Database, points, rebuild>>

Project(p) == Persist(p) \/ Embed(p) \/ Look(p) \/ Write(p)

-----------------------------------------------------------------------------
(* The worker commits normalized artifacts and projects them. *)

Normalize(a) ==
    /\ a \notin normalized
    /\ normalized' = normalized \cup {a}
    /\ UNCHANGED <<row_security, manifests, points, projection, rebuild, projectionFaults>>

WorkerProjects(a) ==
    /\ projection["worker"].step \in Ended /\ a \in normalized
    /\ Begun("worker", a)
    /\ UNCHANGED <<Database, manifests, points, rebuild, projectionFaults>>

-----------------------------------------------------------------------------
(* The rebuild: pages by id, the rows of a page one by one. *)

StartRebuild ==
    /\ rebuild.status \in {"idle", "done", "failed"}
    /\ rebuild' = [NoRebuild EXCEPT !.status = "query", !.context = TRUE, !.promised = normalized]
    /\ projection' = [projection EXCEPT !["rebuild"] = NoCall]
    /\ UNCHANGED <<Database, manifests, points, projectionFaults>>

Page(found) == {a \in found : Cardinality({b \in found : b < a}) < PageSize}

Unread(cursor) == {a \in normalized : a > cursor}

ReadPage ==
    /\ rebuild.status = "query"
    /\ LET page == Page(IF Visible("rebuild") THEN Unread(rebuild.cursor) ELSE {})
       IN rebuild' = IF page = {} THEN [NoRebuild EXCEPT !.status = "done", !.promised = rebuild.promised]
                     ELSE [rebuild EXCEPT !.status = "rows", !.rows = page, !.expired = FALSE]
    /\ UNCHANGED <<Database, manifests, points, projection, projectionFaults>>

(* An attribute of an expired row cannot be loaded outside an await. *)
NextRow ==
    /\ rebuild.status = "rows" /\ rebuild.rows # {} /\ projection["rebuild"].step = "idle"
    /\ LET a == CHOOSE a \in rebuild.rows : \A b \in rebuild.rows : a <= b
       IN IF rebuild.expired
          THEN RebuildFails /\ UNCHANGED projection
          ELSE rebuild' = [rebuild EXCEPT !.rows = @ \ {a}] /\ Begun("rebuild", a)
    /\ UNCHANGED <<Database, manifests, points, projectionFaults>>

RowDone ==
    /\ rebuild.status = "rows" /\ projection["rebuild"].step = "success"
    /\ rebuild' = [rebuild EXCEPT !.cursor = projection["rebuild"].artifact,
                                  !.status = IF rebuild.rows = {} THEN "query" ELSE "rows"]
    /\ projection' = [projection EXCEPT !["rebuild"] = NoCall]
    /\ UNCHANGED <<Database, manifests, points, projectionFaults>>

(* Mutant: an artifact that cannot be replayed is passed over. *)
RowSkipped ==
    /\ rebuild.status = "rows" /\ projection["rebuild"].step = "failed"
    /\ rebuild' = [rebuild EXCEPT !.status = IF rebuild.rows = {} THEN "query" ELSE "rows"]
    /\ projection' = [projection EXCEPT !["rebuild"] = NoCall]
    /\ UNCHANGED <<Database, manifests, points, projectionFaults>>

RowFailed ==
    /\ rebuild.status = "rows" /\ projection["rebuild"].step = "failed"
    /\ RebuildFails
    /\ UNCHANGED <<Database, manifests, points, projection, projectionFaults>>

Rebuild == ReadPage \/ NextRow \/ RowDone \/ RowFailed \/ Project("rebuild")

Next ==
    \/ StartRebuild \/ Rebuild \/ Project("worker")
    \/ \E p \in Processes : WriteFails(p) \/ ProjectFails(p)
    \/ \E a \in Artifacts : Normalize(a) \/ WorkerProjects(a)

Spec == Init /\ [][Next]_<<row_security, normalized, manifests, points, projection, rebuild, projectionFaults>>

-----------------------------------------------------------------------------
Indexed(a) == a \in manifests /\ \A c \in 1..ChunkCount : points[<<a, c>>] # NoVector

(* A projection that returned has a manifest and a point for every chunk,  *)
(* and a rebuild that returned has replayed every artifact that was there  *)
(* when it began, whatever other processes write and whichever fails.      *)
ProjectionComplete ==
    /\ \A p \in Processes : projection[p].step = "success" => Indexed(projection[p].artifact)
    /\ rebuild.status = "done" => \A a \in rebuild.promised : Indexed(a)

(* Without any fault, and with providers that repeat themselves, a rebuild *)
(* replays the tenant's artifacts and does not fail.                       *)
RebuildReplays ==
    rebuild.status = "failed" => projectionFaults > 0 \/ Cardinality(VectorValues) > 1

-----------------------------------------------------------------------------
(* Inductive: what ProjectionComplete rests on. *)
Calls ==
    [step : Ended \cup {"persist", "embed", "look", "write"}, artifact : Artifacts \cup {0},
     vector : VectorValues \cup {NoVector}, chunk : 1..ChunkCount + 1]

Rebuilds ==
    [status : {"idle", "query", "rows", "done", "failed"}, cursor : Nat, rows : SUBSET Artifacts,
     context : BOOLEAN, expired : BOOLEAN, promised : SUBSET Artifacts]

VectorType ==
    /\ row_security \in BOOLEAN /\ normalized \subseteq Artifacts /\ manifests \subseteq Artifacts
    /\ points \in [Artifacts \X (1..ChunkCount) -> VectorValues \cup {NoVector}]
    /\ projection \in [Processes -> Calls]
    /\ rebuild \in Rebuilds

(* A call has a manifest after its first step and the points of the chunks *)
(* it has passed.                                                          *)
CallSoFar(call) ==
    /\ call.step \notin {"idle", "failed"} => call.artifact \in Artifacts
    /\ call.step \in {"embed", "look", "write", "success"} => call.artifact \in manifests
    /\ call.step \in {"look", "write"} =>
         /\ call.vector \in VectorValues
         /\ \A c \in 1..ChunkCount : c < call.chunk => points[<<call.artifact, c>>] # NoVector
    /\ call.step \in {"persist", "embed"} => call.chunk = 1
    /\ call.step = "write" => call.chunk <= ChunkCount
    /\ call.step = "success" => Indexed(call.artifact)

(* What the rebuild still has to do of its page. *)
Replaying == projection["rebuild"].step \notin {"idle", "failed"}
Left      == rebuild.rows \cup {a \in {projection["rebuild"].artifact} : Replaying}

RebuiltSoFar ==
    /\ rebuild.rows \subseteq normalized /\ rebuild.promised \subseteq normalized
    /\ rebuild.status # "rows" => ~Replaying
    /\ Replaying => \A b \in rebuild.rows : projection["rebuild"].artifact < b
    /\ rebuild.status = "query" => \A a \in rebuild.promised : a <= rebuild.cursor => Indexed(a)
    /\ rebuild.status = "rows" /\ projection["rebuild"].step # "failed" =>
         /\ Left # {}
         /\ \A a \in rebuild.promised : Indexed(a) \/ a \in Left \/ \A b \in Left : b < a

(* Row-level security hides the next page once the context is gone, which  *)
(* looks like the end: only a rebuild that has just one artifact to replay *)
(* gets there, any other fails at its second one.                          *)
PageUnderContext ==
    \/ projection["rebuild"].step \in {"idle", "persist"} /\ rebuild.context
    \/ projection["rebuild"].step \in {"embed", "look", "write", "success"}

ContextInv ==
    /\ Replaying /\ rebuild.context => projection["rebuild"].step = "persist"
    /\ row_security /\ rebuild.status = "query" /\ ~rebuild.context => \A a \in rebuild.promised : Indexed(a)
    /\ row_security /\ rebuild.status = "rows" /\ PageUnderContext /\ (\A a, b \in Left : a = b) =>
         \A a \in rebuild.promised : Indexed(a) \/ a \in Left

VectorInv ==
    /\ VectorType /\ (\A p \in Processes : CallSoFar(projection[p]))
    /\ RebuiltSoFar /\ ContextInv /\ ProjectionComplete
=============================================================================
