------------------------------ MODULE MCAnswers ------------------------------
(***************************************************************************)
(* The parts an answer passes through, from the projections that make a    *)
(* document searchable to the run that delivers it.  They meet only in the *)
(* committed rows, which each of them models as far as it reads them, so   *)
(* that one part running in a behaviour is enough, and one run checks them *)
(* all.  The answer runs are taken by EXTENDS, the others by INSTANCE.     *)
(***************************************************************************)
EXTENDS AnswerRuns, TLC

CONSTANTS MaxRequests, MaxBatchSize, MaxConcurrency
CONSTANTS Artifacts, ChunkCount, VectorValues, NoVector, PageSize, MaxProjectionFaults
CONSTANTS Knowledge, ReplayPage, MaxGraphFaults
CONSTANTS Entities, Facts, MaxHop, NeighborLimit, FrontierLimit, MaxVisited, MaxPassages
CONSTANTS Points, Evidence, RrfK, CandidateLimit, FusedLimit, MaxResults, RerankWindow
CONSTANTS Passages, Providers, NoData, MaxSources, MaxContext, MaxCalls, MaxResumes

VARIABLES part
VARIABLES batching, embedding
VARIABLES row_security, normalized, manifests, points, projection, rebuild, projectionFaults
VARIABLES ingest, nodes, cleared, replay, graphFaults
VARIABLES claims, ready, expansion
VARIABLES scores, chunk, available, query
VARIABLES thread, stage, citable, access, resumes

Batcher  == INSTANCE EmbeddingBatch
Vectors  == INSTANCE VectorProjection
Graph    == INSTANCE KnowledgeGraph
Expander == INSTANCE GraphExpansion
Search   == INSTANCE HybridSearch
Workflow == INSTANCE AnswerWorkflow

(* The identifiers that a cursor orders start above the cursor's start, and *)
(* a page has more than one row (50 in the code): on a page of one, the     *)
(* rebuild of the vectors would take the lost context for the end.          *)
ProjectionAssumption ==
    /\ Artifacts \subseteq Nat \ {0} /\ ChunkCount \in Nat /\ NoVector \notin VectorValues
    /\ PageSize \in Nat /\ PageSize > 1
    /\ Knowledge \subseteq Nat \ {0} /\ ReplayPage \in Nat \ {0}
ASSUME ProjectionAssumption

(* EmbeddingBatchConfig refuses an empty batch. *)
BatchAssumption == MaxRequests \in Nat /\ MaxBatchSize \in Nat \ {0} /\ MaxConcurrency \in Nat
ASSUME BatchAssumption

(* One hop or two (GraphExpansionService.expand refuses any other number). *)
ExpansionAssumption ==
    /\ Entities \subseteq Nat /\ {1, 2} \subseteq Entities /\ IsFiniteSet(Entities)
    /\ Facts \subseteq Nat /\ IsFiniteSet(Facts) /\ MaxHop \in {1, 2}
    /\ NeighborLimit \in Nat /\ FrontierLimit \in Nat /\ MaxVisited \in Nat /\ MaxPassages \in Nat \ {0}
ASSUME ExpansionAssumption

(* A set of passages is not the missing value. *)
WorkflowAssumption == (\A chosen \in SUBSET Passages : chosen # NoData) /\ MaxContext \in Nat
ASSUME WorkflowAssumption

(* The points of an index are finitely many and ordered by their ids. *)
SearchAssumption ==
    /\ Points \subseteq Nat /\ IsFiniteSet(Points) /\ RrfK \in Nat
    /\ CandidateLimit \in Nat /\ FusedLimit \in Nat /\ MaxResults \in Nat /\ RerankWindow \in Nat
ASSUME SearchAssumption

batchVars     == <<batching, embedding>>
vectorVars    == <<row_security, normalized, manifests, points, projection, rebuild, projectionFaults>>
graphVars     == <<ingest, nodes, cleared, replay, graphFaults>>
expansionVars == <<claims, ready, expansion>>
searchVars    == <<scores, chunk, available, query>>
workflowVars  == <<thread, stage, citable, access, resumes>>

(* What a part that does not run has instead of an initial state. *)
BatchUnused     == batching = 0 /\ embedding = 0
VectorUnused    == row_security = 0 /\ normalized = 0 /\ manifests = 0 /\ points = 0 /\ projection = 0
                   /\ rebuild = 0 /\ projectionFaults = 0
ExpansionUnused == claims = 0 /\ ready = 0 /\ expansion = 0
SearchUnused    == scores = 0 /\ chunk = 0 /\ available = 0 /\ query = 0
WorkflowUnused  == thread = 0 /\ stage = 0 /\ citable = 0 /\ access = 0 /\ resumes = 0

AnswersInit ==
    /\ part \in {"runs", "batch", "vectors", "graph", "expansion", "search", "workflow"}
    /\ Init /\ Graph!Init
    /\ IF part = "batch" THEN Batcher!Init ELSE BatchUnused
    /\ IF part = "vectors" THEN Vectors!Init ELSE VectorUnused
    /\ IF part = "expansion" THEN Expander!Init ELSE ExpansionUnused
    /\ IF part = "search" THEN Search!Init ELSE SearchUnused
    /\ IF part = "workflow" THEN Workflow!Init ELSE WorkflowUnused

AnswersNext ==
    /\ UNCHANGED part
    /\ \/ part = "runs" /\ Next
          /\ UNCHANGED <<batchVars, vectorVars, graphVars, expansionVars, searchVars, workflowVars>>
       \/ part = "batch" /\ Batcher!Next
          /\ UNCHANGED <<vars, vectorVars, graphVars, expansionVars, searchVars, workflowVars>>
       \/ part = "vectors" /\ Vectors!Next
          /\ UNCHANGED <<vars, batchVars, graphVars, expansionVars, searchVars, workflowVars>>
       \/ part = "graph" /\ Graph!Next
          /\ UNCHANGED <<vars, batchVars, vectorVars, expansionVars, searchVars, workflowVars>>
       \/ part = "expansion" /\ Expander!Next
          /\ UNCHANGED <<vars, batchVars, vectorVars, graphVars, searchVars, workflowVars>>
       \/ part = "search" /\ Search!Next
          /\ UNCHANGED <<vars, batchVars, vectorVars, graphVars, expansionVars, workflowVars>>
       \/ part = "workflow" /\ Workflow!Next
          /\ UNCHANGED <<vars, batchVars, vectorVars, graphVars, expansionVars, searchVars>>

AnswersSpec ==
    AnswersInit /\ [][AnswersNext]_<<part, vars, batchVars, vectorVars, graphVars,
                                     expansionVars, searchVars, workflowVars>>

AnswerSymmetry == Permutations(Runs) \cup Permutations(Clients)

-----------------------------------------------------------------------------
(* A batched embedding returns all vectors or none, and leaves no call. *)
BatchAccounted == part = "batch" => Batcher!BatchAccounted
(* A projection that returned has its points, a rebuild all promised ones. *)
ProjectionComplete == part = "vectors" => Vectors!ProjectionComplete
(* The graph holds what was committed, and after a replay what was then. *)
GraphCovers == Graph!GraphCovers
(* Passages of a graph walk are connected to its seeds by ready facts. *)
ExpansionGrounded == part = "expansion" => Expander!ExpansionGrounded
(* A search keeps what its legs agree on and returns available evidence. *)
SearchSound == part = "search" => Search!SearchSound
(* An answer cites passages of its prompt and outlives no withdrawn access. *)
WorkflowGrounded == part = "workflow" => Workflow!WorkflowGrounded
=============================================================================
