--------------------------- MODULE GraphExpansion ---------------------------
(***************************************************************************)
(* GraphExpansionService.expand: a breadth-first walk over the projected   *)
(* facts, each of which is resolved against the canonical rows before its  *)
(* passage is taken, while jobs commit.  A fact joins two entities and is  *)
(* quoted from one chunk; facts are numbered in the order of their hashed  *)
(* ids.                                                                    *)
(***************************************************************************)
EXTENDS Naturals, FiniteSets

CONSTANTS
    Entities, Facts,  \* numbers
    MaxHop,           \* 2 in the code
    NeighborLimit,    \* facts read of an entity (10)
    FrontierLimit,    \* entities of a hop (20)
    MaxVisited,       \* entities of a walk (20)
    MaxPassages       \* passages of a walk (20)

VARIABLES
    claims,     \* per fact: the entities it joins (never changes)
    ready,      \* PostgreSQL: facts whose document version is current and ingested
    expansion   \* the walk

ChunkOf(f) == (f + 1) \div 2

(* A sentence of the form "A uses B": nothing keeps A and B apart. *)
Relations == {r \in SUBSET Entities : Cardinality(r) \in 1..2}

Init ==
    /\ claims \in [Facts -> Relations]
    /\ \E chunks \in SUBSET {ChunkOf(f) : f \in Facts} : ready = {f \in Facts : ChunkOf(f) \in chunks}
    /\ \E seeds \in {{1}, {1, 2}}, projected \in SUBSET Facts, matching \in {Facts, Facts \ {2}} :
         expansion = [status |-> "walking", hop |-> 1, seeds |-> seeds, frontier |-> seeds, next |-> {},
                      visited |-> {}, seen |-> {}, stale |-> {}, passages |-> {}, pending |-> {},
                      projected |-> projected, matching |-> matching, began |-> ready]

Lowest(n, S) == {x \in S : Cardinality({y \in S : y < x}) < n}
First(S)     == CHOOSE x \in S : \A y \in S : x <= y
PassageOf(f, hop) == [chunk |-> ChunkOf(f), fact |-> f, hop |-> hop]
Touching(S, e)    == {f \in S : e \in claims[f]}

(* A job commits its knowledge artifact. *)
Publish(f) ==
    /\ f \notin ready
    /\ ready' = ready \cup {g \in Facts : ChunkOf(g) = ChunkOf(f)}
    /\ UNCHANGED <<claims, expansion>>

Unvisited == expansion.frontier \ expansion.visited
MayVisit  == Unvisited # {} /\ Cardinality(expansion.visited) < MaxVisited

(* The next entity of the frontier: its first facts in the graph.  Facts   *)
(* of uncommitted artifacts count, they are sorted out only later.         *)
Visit ==
    /\ expansion.status = "walking" /\ expansion.pending = {} /\ MayVisit
    /\ LET e == First(Unvisited)
       IN expansion' = [expansion EXCEPT !.visited = @ \cup {e},
                                         !.pending = Lowest(NeighborLimit, Touching(expansion.projected, e))]
    /\ UNCHANGED <<claims, ready>>

(* Taking a fact: one passage per chunk, the first fact found speaks for it. *)
Taken(walk, f) ==
    [walk EXCEPT !.next = @ \cup claims[f],
                 !.passages = IF \E p \in @ : p.chunk = ChunkOf(f) THEN @ ELSE @ \cup {PassageOf(f, walk.hop)}]

Stopped(walk) == IF Cardinality(walk.passages) >= MaxPassages
                 THEN [walk EXCEPT !.status = "returned", !.pending = {}] ELSE walk

(* Mutant: the projection is taken at its word. *)
ResolveUnchecked ==
    /\ expansion.status = "walking" /\ expansion.pending # {}
    /\ LET f == First(expansion.pending)
           walk == [expansion EXCEPT !.pending = @ \ {f}, !.seen = @ \cup {f}]
       IN expansion' = IF f \in expansion.seen \/ f \notin expansion.matching THEN walk
                       ELSE Stopped(Taken(walk, f))
    /\ UNCHANGED <<claims, ready>>

(* Mutant: a fact that the filters refuse still extends the walk. *)
ResolveThroughFiltered ==
    /\ expansion.status = "walking" /\ expansion.pending # {}
    /\ LET f == First(expansion.pending)
           walk == [expansion EXCEPT !.pending = @ \ {f}, !.seen = @ \cup {f}]
       IN expansion' = IF f \in expansion.seen THEN walk
                       ELSE IF f \notin ready THEN [walk EXCEPT !.stale = @ \cup {f}]
                       ELSE IF f \notin expansion.matching THEN [walk EXCEPT !.next = @ \cup claims[f]]
                       ELSE Stopped(Taken(walk, f))
    /\ UNCHANGED <<claims, ready>>

Resolve ==
    /\ expansion.status = "walking" /\ expansion.pending # {}
    /\ LET f == First(expansion.pending)
           walk == [expansion EXCEPT !.pending = @ \ {f}, !.seen = @ \cup {f}]
       IN expansion' = IF f \in expansion.seen THEN walk
                       ELSE IF f \notin ready THEN [walk EXCEPT !.stale = @ \cup {f}]
                       ELSE IF f \notin expansion.matching THEN walk
                       ELSE Stopped(Taken(walk, f))
    /\ UNCHANGED <<claims, ready>>

NextHop ==
    /\ expansion.status = "walking" /\ expansion.pending = {} /\ ~MayVisit
    /\ expansion' = IF expansion.hop = MaxHop THEN [expansion EXCEPT !.status = "returned"]
                    ELSE [expansion EXCEPT !.hop = @ + 1, !.next = {},
                            !.frontier = Lowest(FrontierLimit, expansion.next \ expansion.visited)]
    /\ UNCHANGED <<claims, ready>>

(* A fault of Neo4j, the database or the object store, or the time limit. *)
ExpandFails ==
    /\ expansion.status = "walking"
    /\ expansion' = [expansion EXCEPT !.status = "raised", !.pending = {}, !.passages = {}]
    /\ UNCHANGED <<claims, ready>>

Next ==
    \/ Visit \/ Resolve \/ NextHop \/ ExpandFails
    \/ \E f \in Facts : Publish(f)

Spec == Init /\ [][Next]_<<claims, ready, expansion>>

-----------------------------------------------------------------------------
(* The facts that a walk of so many hops could take, by definition. *)
Usable(facts)     == facts \cap expansion.projected \cap expansion.matching
Joined(facts, S)  == {f \in Usable(facts) : claims[f] \cap S # {}}
EntitiesOf(facts) == UNION {claims[f] : f \in facts}
Near(facts)       == Joined(facts, expansion.seeds)
Within(facts, hops) ==
    IF hops = 1 THEN Near(facts) ELSE Near(facts) \cup Joined(facts, EntitiesOf(Near(facts)))

(* No limit of the walk cuts anything off. *)
Unlimited ==
    /\ \A e \in Entities : Cardinality(Touching(expansion.projected, e)) <= NeighborLimit
    /\ MaxVisited >= Cardinality(Entities) /\ FrontierLimit >= Cardinality(Entities)
    /\ Cardinality(expansion.passages) < MaxPassages

Speaks(p, f) == p.chunk = ChunkOf(f)

(* Whatever the projection holds, every passage is of a ready fact that    *)
(* the filters let pass and that ready, matching facts connect to a seed   *)
(* within its hop; and a walk that hits no limit misses no chunk with a    *)
(* fact that was usable from the start.                                    *)
ExpansionGrounded ==
    /\ \A p \in expansion.passages : p.fact \in Within(ready, p.hop)
    /\ \A p, q \in expansion.passages : p.chunk = q.chunk => p = q
    /\ Cardinality(expansion.visited) <= MaxVisited /\ Cardinality(expansion.passages) <= MaxPassages
    /\ expansion.status = "returned" /\ Unlimited =>
         \A f \in Within(expansion.began, MaxHop) : \E p \in expansion.passages : Speaks(p, f)

-----------------------------------------------------------------------------
(* Inductive: what ExpansionGrounded rests on. *)
Chunks       == {ChunkOf(f) : f \in Facts}
WalkPassages == [chunk : Chunks, fact : Facts, hop : {1, 2}]
Walks ==
    [status : {"walking", "returned", "raised"}, hop : {1, MaxHop}, seeds : SUBSET Entities,
     frontier : SUBSET Entities, next : SUBSET Entities, visited : SUBSET Entities, seen : SUBSET Facts,
     stale : SUBSET Facts, passages : SUBSET WalkPassages, pending : SUBSET Facts,
     projected : SUBSET Facts, matching : SUBSET Facts, began : SUBSET Facts]

WalkType ==
    /\ claims \in [Facts -> SUBSET Entities]
    /\ expansion \in Walks /\ IsFiniteSet(expansion.passages)
    /\ expansion.began \subseteq ready /\ ready \subseteq Facts

(* The frontier is reached by ready facts; what the graph said of an       *)
(* entity touches the frontier.                                            *)
FrontierInv ==
    /\ expansion.hop = 1 => expansion.frontier = expansion.seeds
    /\ expansion.hop # 1 => expansion.frontier \subseteq EntitiesOf(Near(ready))
    /\ expansion.hop = 1 => expansion.next \subseteq EntitiesOf(Near(ready))
    /\ \A f \in expansion.pending : f \in expansion.projected /\ claims[f] \cap expansion.frontier # {}

(* A usable fact that was seen has its passage and extends the next hop;   *)
(* nothing of a visited entity is missed but by a limit.                   *)
SeenInv ==
    \A f \in Usable(expansion.began) \cap expansion.seen :
       /\ \E p \in expansion.passages : Speaks(p, f)
       /\ expansion.hop = 1 => claims[f] \subseteq expansion.next

VisitedInv ==
    /\ \A e \in expansion.visited : Touching(expansion.projected, e) \subseteq expansion.seen \cup expansion.pending
    /\ expansion.hop # 1 => \A f \in Near(expansion.began) :
         f \in expansion.seen /\ claims[f] \subseteq expansion.visited \cup expansion.frontier
    /\ expansion.status = "returned" => Within(expansion.began, MaxHop) \subseteq expansion.seen

ExpansionInv ==
    /\ WalkType /\ FrontierInv /\ ExpansionGrounded
    /\ expansion.status = "walking" => Cardinality(expansion.passages) < MaxPassages
    /\ expansion.status # "raised" => SeenInv /\ (Unlimited => VisitedInv)
=============================================================================
