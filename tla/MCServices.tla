----------------------------- MODULE MCServices -----------------------------
(***************************************************************************)
(* The services that share no state with each other, one of them running   *)
(* in a behaviour: one run checks them all.  The artifact store is taken   *)
(* by EXTENDS, the others by INSTANCE.                                     *)
(***************************************************************************)
EXTENDS ArtifactStore, Sequences

CONSTANTS ModelKeys, CacheCallers, MaxEntries, MaxLoads, MaxCloseErrors
CONSTANTS Peers, Proxies, Limit, Window, MaxHops
CONSTANTS Pages, Reviewers, PageLimit, MaxReviews
CONSTANTS MaxFaults
CONSTANTS MaxLines, MaxPages, MaxOcrPages
CONSTANTS TokenLengths, MaxTokens, ParentTokens, ParentCharacters, ChildTokens, ChildCharacters, ChildOverlap

(* No client connects from the address of a trusted proxy. *)
ASSUME LimiterAssumption == Peers \cap Proxies = {} /\ {Limit, Window} \subseteq Nat

VARIABLES service
VARIABLES values, inflight, released, retained, lifecycle, awaiting, started, closeErrors
VARIABLES counter, admitted
VARIABLES review_status, listing, audit_log, writer, request, reviews, walk
VARIABLES upload, object, rows, audits, faults
VARIABLES parse
VARIABLES chunking

Cache    == INSTANCE ModelCache
Limiter  == INSTANCE RateLimiter
Review   == INSTANCE WikiReview
Upload   == INSTANCE Intake
Extract  == INSTANCE Extraction
Chunker  == INSTANCE Chunking

(* A stage of the pipeline produces something. *)
ASSUME ContentsAssumption == Contents # {}

ASSUME CacheAssumption == MaxEntries \in Nat \ {0} /\ MaxLoads \in Nat
ASSUME ExtractionAssumption == {MaxLines, MaxPages, MaxOcrPages} \subseteq Nat

(* ChunkingConfig.__post_init__ refuses other budgets; a token has characters. *)
ASSUME ChunkingAssumption ==
    /\ TokenLengths \subseteq Nat \ {0} /\ MaxTokens \in Nat
    /\ {ParentTokens, ParentCharacters, ChildTokens, ChildCharacters} \subseteq Nat \ {0}
    /\ ChildOverlap \in Nat /\ ChildOverlap < ChildTokens

ASSUME ReviewAssumption == Review!NoWriter \notin Reviewers /\ PageLimit \in Nat \ {0}

cacheVars     == <<values, inflight, released, retained, lifecycle, awaiting, started, closeErrors>>
limiterVars   == <<counter, admitted>>
reviewVars    == <<review_status, listing, audit_log, writer, request, reviews, walk>>
uploadVars    == <<upload, object, rows, audits, faults>>
sourceVars    == <<parse, chunking>>

StoreInit ==
    IF service = "store" THEN Init
    ELSE /\ row = None /\ objects = {}
         /\ pc = [w \in Writers |-> "idle"] /\ outcome = [w \in Writers |-> "OtherError"]
         /\ mine = [w \in Writers |-> CHOOSE c \in Contents : TRUE]
         /\ crashes = 0 /\ storageFailures = 0 /\ dbFailures = 0

ServicesInit ==
    /\ service \in {"store", "cache", "limiter", "review", "upload", "extraction", "chunking"}
    /\ StoreInit
    /\ Cache!Init /\ Limiter!Init /\ Review!Init /\ Upload!Init /\ Extract!Init /\ Chunker!Init

ServicesNext ==
    /\ UNCHANGED service
    /\ \/ service = "store" /\ Next
          /\ UNCHANGED <<cacheVars, limiterVars, reviewVars, uploadVars, sourceVars>>
       \/ service = "cache" /\ Cache!Next
          /\ UNCHANGED <<vars, limiterVars, reviewVars, uploadVars, sourceVars>>
       \/ service = "limiter" /\ Limiter!Next
          /\ UNCHANGED <<vars, cacheVars, reviewVars, uploadVars, sourceVars>>
       \/ service = "review" /\ Review!Next
          /\ UNCHANGED <<vars, cacheVars, limiterVars, uploadVars, sourceVars>>
       \/ service = "upload" /\ Upload!Next
          /\ UNCHANGED <<vars, cacheVars, limiterVars, reviewVars, sourceVars>>
       \/ service = "extraction" /\ Extract!Next
          /\ UNCHANGED <<vars, cacheVars, limiterVars, reviewVars, uploadVars, chunking>>
       \/ service = "chunking" /\ Chunker!Next
          /\ UNCHANGED <<vars, cacheVars, limiterVars, reviewVars, uploadVars, parse>>

(* No fair action is enabled in the initial state of a service that is not *)
(* the running one.                                                        *)
ServicesSpec ==
    /\ ServicesInit /\ [][ServicesNext]_<<service, vars, cacheVars, limiterVars, reviewVars, uploadVars, sourceVars>>
    /\ \A w \in Writers : WF_vars(Persist(w))
    /\ Cache!Fairness /\ Limiter!Fairness

-----------------------------------------------------------------------------
(* Models of the cache are released once and never while cached. *)
ModelsAccounted == Cache!ModelsAccounted
(* A cached model stays cached until it is released. *)
NoModelLost == Cache!NoModelLost
(* Shutdowns and waiting callers of the cache come to an end. *)
CacheCallsEnd == Cache!CacheCallsEnd
(* A client has one quota, whatever it claims to be. *)
QuotaPerClient == Limiter!QuotaPerClient
(* A client that keeps asking is let in again when its window ends. *)
WindowEnds == Limiter!WindowEnds
(* The audit records of a page tell an unbroken story of its reviews. *)
ReviewHistoryChains == Review!ReviewHistoryChains
(* A walk of the whole page listing misses no page listed at its start. *)
WalkMissesNothing == Review!WalkMissesNothing
(* The answer of an upload agrees with its rows and its object. *)
UploadHonest == Upload!UploadHonest
(* The spans of an extracted document trace it to its source. *)
ExtractionTraced == Extract!ExtractionTraced
(* Parents and children cover the document within their budgets. *)
ChunksCover == Chunker!ChunksCover
=============================================================================
