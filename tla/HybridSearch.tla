---------------------------- MODULE HybridSearch ----------------------------
(***************************************************************************)
(* SearchService.search: two ranked legs of the vector index, reciprocal   *)
(* rank fusion, grouping of the points that project the same evidence,     *)
(* resolution against the canonical rows while jobs commit, reranking.     *)
(* Orders are given by ranks; scores are small numbers.                    *)
(***************************************************************************)
EXTENDS Naturals, FiniteSets

CONSTANTS
    Points,          \* ids of points, numbers
    Evidence,        \* identities of chunks
    RrfK,            \* 60 in the code
    CandidateLimit,  \* points of a leg
    FusedLimit,
    MaxResults,      \* hits a caller may ask for (40)
    RerankWindow     \* candidates of a reranking (40 in the code)

VARIABLES
    scores,      \* per leg and point: its score; 0: it does not match the query
    chunk,       \* per point: the evidence it projects
    available,   \* PostgreSQL: evidence of current versions whose job succeeded
    query        \* the search

Legs == {"dense", "sparse"}

(* A request that passed its checks. *)
NewSearch(rerank, limit) ==
    [status |-> "new", rerank |-> rerank, limit |-> limit, began |-> available,
     ranks |-> [leg \in Legs |-> [p \in {} |-> 0]], groups |-> {}, resolved |-> {}, hits |-> {}]

Init ==
    /\ scores \in [dense : [Points -> 0..2], sparse : [Points -> 0..1]]
    /\ chunk \in {f \in [Points -> Evidence] : f[1] = 1}
    /\ available \in SUBSET Evidence
    /\ \E rerank \in BOOLEAN, limit \in 1..MaxResults :
         (rerank => limit < RerankWindow) /\ query = NewSearch(rerank, limit)

RankAfter(better) == 1 + Cardinality(better)

-----------------------------------------------------------------------------
(* A leg. *)

(* Points of the tenant, of the filters and of the query's embedding.      *)
Matching(leg) == {p \in Points : scores[leg][p] > 0}

(* What Qdrant may return: the highest, of equal ones at the limit any.    *)
Returned(leg) ==
    {S \in SUBSET Matching(leg) :
        /\ Cardinality(S) <= CandidateLimit
        /\ S = Matching(leg) \/ Cardinality(S) = CandidateLimit
        /\ \A p \in S, q \in Matching(leg) \ S : scores[leg][p] >= scores[leg][q]}

(* By score, then id. *)
Ranked(leg, S) ==
    LET Higher(p, q) == scores[leg][p] > scores[leg][q] \/ (scores[leg][p] = scores[leg][q] /\ p < q)
    IN [p \in S |-> RankAfter({q \in S : Higher(q, p)})]

(* The ranking an index may give: contiguous, within the limit. *)
ValidLeg(ranking) ==
    LET n == Cardinality(DOMAIN ranking)
    IN n <= CandidateLimit /\ {ranking[p] : p \in DOMAIN ranking} = 1..n

(* The search refuses a list that breaks its contract. *)
Refused == [query EXCEPT !.status = "refused"]

(* The legs one after the other; a mode with one leg has nothing in the    *)
(* other.                                                                  *)
Retrieve ==
    /\ query.status = "new"
    /\ \E dense \in Returned("dense"), sparse \in Returned("sparse") :
         LET ranks == [dense |-> Ranked("dense", dense), sparse |-> Ranked("sparse", sparse)]
         IN query' = IF \A leg \in Legs : ValidLeg(ranks[leg])
                     THEN [query EXCEPT !.status = "fusing", !.ranks = ranks] ELSE Refused
    /\ UNCHANGED <<scores, chunk, available>>

-----------------------------------------------------------------------------
(* Fusion: the sum of 1 / (k + rank) over the legs, as a fraction; ties by *)
(* the best rank, then id.                                                 *)

Found(ranks)       == UNION {DOMAIN ranks[leg] : leg \in Legs}
RanksOf(ranks, p)  == {ranks[leg][p] : leg \in {leg \in Legs : p \in DOMAIN ranks[leg]}}
BestRank(ranks, p) == CHOOSE r \in RanksOf(ranks, p) : \A s \in RanksOf(ranks, p) : r <= s
InBoth(ranks, p)   == \A leg \in Legs : p \in DOMAIN ranks[leg]

(* Mutant: the ranks are summed, not their reciprocals. *)
RankSum(ranks, p) ==
    IF InBoth(ranks, p) THEN <<ranks["dense"][p] + ranks["sparse"][p], 1>> ELSE <<BestRank(ranks, p), 1>>

FusedScore(ranks, p) ==
    LET Term(leg) == RrfK + ranks[leg][p]
    IN IF InBoth(ranks, p) THEN <<Term("dense") + Term("sparse"), Term("dense") * Term("sparse")>>
       ELSE <<1, RrfK + BestRank(ranks, p)>>

Compared(ranks, p, q) ==
    LET left == FusedScore(ranks, p) right == FusedScore(ranks, q) IN <<left[1] * right[2], right[1] * left[2]>>

Ahead(ranks, p, q) ==
    LET c == Compared(ranks, p, q) best == BestRank(ranks, p) other == BestRank(ranks, q)
    IN c[1] > c[2] \/ (c[1] = c[2] /\ (best < other \/ (best = other /\ p < q)))

FusedRank(ranks, p) == RankAfter({q \in Found(ranks) : Ahead(ranks, q, p)})
Fused(ranks) == {g \in {<<FusedRank(ranks, p), p>> : p \in Found(ranks)} : g[1] <= FusedLimit}

(* Points that project the same chunk are one group, represented by the    *)
(* highest of them; their scores are not added.                            *)
Groups(fused) == {g \in fused : \A h \in fused : chunk[h[2]] = chunk[g[2]] => g[1] <= h[1]}

(* The checks of the two results: ranks without gaps, every point once,    *)
(* in order; every chunk once, led by its highest point.                   *)
ValidFusion(ranks, fused) ==
    /\ Cardinality(fused) <= FusedLimit /\ {g[1] : g \in fused} = 1..Cardinality(fused)
    /\ \A g, h \in fused : g[1] < h[1] => g[2] # h[2] /\ Ahead(ranks, g[2], h[2])

ValidGroups(groups, fused) ==
    /\ \A g, h \in groups : chunk[g[2]] = chunk[h[2]] => g = h
    /\ \A f \in fused : \E g \in groups : chunk[g[2]] = chunk[f[2]] /\ g[1] <= f[1]

Fuse ==
    /\ query.status = "fusing"
    /\ LET fused == Fused(query.ranks)  groups == Groups(fused)
       IN query' = IF ValidFusion(query.ranks, fused) /\ ValidGroups(groups, fused)
                   THEN [query EXCEPT !.status = "resolving", !.groups = groups] ELSE Refused
    /\ UNCHANGED <<scores, chunk, available>>

-----------------------------------------------------------------------------
(* The groups are resolved in order until the window is full: the best one *)
(* left is looked up, and left out when its evidence is not available.     *)

ResultWindow == IF query.rerank THEN RerankWindow ELSE query.limit
Best(groups) == CHOOSE g \in groups : \A h \in groups : g[1] <= h[1]
MoreToResolve == query.groups # {} /\ Cardinality(query.resolved) < ResultWindow

(* Mutant: points of documents that are not ingested count. *)
ResolveAny ==
    /\ query.status = "resolving" /\ MoreToResolve
    /\ LET g == Best(query.groups)
       IN query' = [query EXCEPT !.groups = @ \ {g}, !.resolved = @ \cup {g}]
    /\ UNCHANGED <<scores, chunk, available>>

Resolve ==
    /\ query.status = "resolving" /\ MoreToResolve
    /\ LET g == Best(query.groups)
       IN query' = [query EXCEPT !.groups = @ \ {g},
                                 !.resolved = IF chunk[g[2]] \in available THEN @ \cup {g} ELSE @]
    /\ UNCHANGED <<scores, chunk, available>>

(* A hit is the rank and the point; a reranking of equal scores keeps the  *)
(* order of the fusion.                                                    *)
Ordered(S, key, n) ==
    LET Sooner(g, h) == key[g] > key[h] \/ (key[g] = key[h] /\ g[1] < h[1])
        Rank(g)      == RankAfter({h \in S : Sooner(h, g)})
    IN {<<Rank(g), g[2]>> : g \in {g \in S : Rank(g) <= n}}

Answer ==
    /\ query.status = "resolving" /\ ~MoreToResolve
    /\ \E key \in [query.resolved -> IF query.rerank THEN 1..2 ELSE {1}] :
         query' = [query EXCEPT !.status = "answered", !.hits = Ordered(query.resolved, key, query.limit)]
    /\ UNCHANGED <<scores, chunk, available>>

(* An embedding provider, the index, the database, the object store or the *)
(* reranker fails: the search raises and nothing is kept.                  *)
SearchFails ==
    /\ query.status \in {"new", "fusing", "resolving"}
    /\ query' = [query EXCEPT !.status = "raised", !.groups = {}, !.resolved = {}]
    /\ UNCHANGED <<scores, chunk, available>>

(* A job commits: its document's evidence becomes available.  Before the   *)
(* first lookup it is as if it had been available from the start.          *)
Ingested(e) ==
    /\ query.status = "resolving" /\ e \notin available
    /\ available' = available \cup {e}
    /\ UNCHANGED <<scores, chunk, query>>

Next ==
    \/ Retrieve \/ Fuse \/ Resolve \/ Answer \/ SearchFails
    \/ \E e \in Evidence : Ingested(e)

Spec == Init /\ [][Next]_<<scores, chunk, available, query>>

-----------------------------------------------------------------------------
(* p is ahead of q in every leg that found q. *)
Dominates(ranks, p, q) ==
    \A leg \in Legs : LET rank == ranks[leg]
                      IN q \in DOMAIN rank => p \in DOMAIN rank /\ rank[p] < rank[q]

(* What both legs agree on survives fusion, grouping and resolution: a     *)
(* point that is ahead of another in every leg is never behind it in the   *)
(* result, nor dropped in its favour.                                      *)
AgreementKept ==
    query.status = "answered" /\ ~query.rerank =>
        \A hit \in query.hits, p \in Found(query.ranks) :
            Dominates(query.ranks, p, hit[2]) =>
                \/ chunk[p] \notin query.began
                \/ \E other \in query.hits : chunk[other[2]] = chunk[p] /\ other[1] < hit[1]
                \/ chunk[p] = chunk[hit[2]]

(* A result has one hit per chunk, ranked without gaps, each of evidence   *)
(* that is available; the slots that duplicates and unavailable points     *)
(* would take are given to others.                                         *)
ResultsResolved ==
    query.status = "answered" =>
        /\ {hit[1] : hit \in query.hits} = 1..Cardinality(query.hits)
        /\ \A hit, other \in query.hits : chunk[hit[2]] = chunk[other[2]] => hit = other
        /\ \A hit \in query.hits : chunk[hit[2]] \in available
        /\ query.groups # {} => Cardinality(query.hits) = query.limit

(* The checks on the way refuse nothing that the search itself computed.   *)
NothingRefused == query.status # "refused"

SearchSound == AgreementKept /\ ResultsResolved /\ NothingRefused

(* The inductive strengthening of SearchSound: what the resolution has     *)
(* done with the groups of the fusion, in their order.                     *)
Rankings == UNION {[S -> 1..CandidateLimit] : S \in SUBSET Points}
Numbered == SUBSET (Nat \X Points)
Queries  ==
    [status : {"new", "fusing", "resolving", "answered", "refused", "raised"}, rerank : BOOLEAN,
     limit : 1..MaxResults, began : SUBSET Evidence, ranks : [Legs -> Rankings],
     groups : Numbered, resolved : Numbered, hits : Numbered]

SearchType ==
    /\ scores \in [dense : [Points -> 0..2], sparse : [Points -> 0..1]]
    /\ chunk \in [Points -> Evidence] /\ available \in SUBSET Evidence /\ query \in Queries
    /\ query.rerank => query.limit < RerankWindow
    /\ query.began \subseteq available
    /\ query.status \in {"new", "fusing"} => query.resolved = {}

ResolutionInv ==
    query.status \in {"resolving", "answered"} =>
        LET all == Groups(Fused(query.ranks)) passed == all \ query.groups
        IN /\ query.groups \subseteq all /\ query.resolved \subseteq passed
           /\ \A g \in passed, h \in query.groups : g[1] < h[1]
           /\ \A g \in passed : chunk[g[2]] \in query.began => g \in query.resolved
           /\ \A g \in query.resolved : chunk[g[2]] \in available
           /\ Cardinality(query.resolved) <= ResultWindow

AnsweredInv ==
    query.status = "answered" =>
        /\ ~MoreToResolve
        /\ \E key \in [query.resolved -> IF query.rerank THEN 1..2 ELSE {1}] :
             query.hits = Ordered(query.resolved, key, query.limit)

SearchInv == SearchType /\ ResolutionInv /\ AnsweredInv /\ NothingRefused
=============================================================================
