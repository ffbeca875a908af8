--------------------------- MODULE ProjectionProofs ---------------------------
(***************************************************************************)
(* The projections that make a document searchable: what Neo4j and Qdrant  *)
(* hold of the committed rows, while workers project them and a replay     *)
(* passes through them page by page.                                       *)
(***************************************************************************)
EXTENDS MCAnswers, FiniteSetTheorems, WellFoundedInduction, TLAPS

-----------------------------------------------------------------------------
(* Pages. *)

(* The members of S below a number. *)
Below(S, x) == {y \in S : y < x}

LEMMA BelowIsFinite ==
    ASSUME NEW S \in SUBSET Nat, NEW x \in Nat
    PROVE  /\ IsFiniteSet(Below(S, x)) /\ Cardinality(Below(S, x)) \in Nat
           /\ Below(S, x) \subseteq S
           /\ \A y \in Nat : y <= x => Below(S, y) \subseteq Below(S, x)
<1>1. /\ Below(S, x) \subseteq S /\ Below(S, x) \in SUBSET Nat
      /\ \A y \in Below(S, x) : y <= x
  <2>1. ASSUME NEW y \in Below(S, x) PROVE y \in S /\ y \in Nat /\ y <= x
    <3>1. y \in S /\ y < x
        BY DEF Below
    <3>2. y \in Nat
        BY <3>1
    <3> QED BY <3>1, <3>2
  <2> QED BY <2>1
<1>2. IsFiniteSet(Below(S, x))
    BY <1>1, FS_BoundedSetOfNaturals
<1>3. ASSUME NEW y \in Nat, y <= x, NEW z \in Below(S, y) PROVE z \in Below(S, x)
  <2>1. z \in S /\ z < y /\ z \in Nat
      BY <1>3 DEF Below
  <2>2. z < x
      BY <1>3, <2>1
  <2> QED BY <2>1, <2>2 DEF Below
<1> QED BY <1>1, <1>2, <1>3, FS_CardinalityType

(* A set of numbers has a least element. *)
LEMMA LeastExists ==
    ASSUME NEW S \in SUBSET Nat, S # {}
    PROVE  \E x \in S : \A y \in S : x <= y
<1> DEFINE belows == {Below(S, x) : x \in S}
<1>1. belows \subseteq FiniteSubsetsOf(S) /\ belows # {}
  <2>1. ASSUME NEW x \in S PROVE Below(S, x) \in FiniteSubsetsOf(S)
    <3>1. x \in Nat
        OBVIOUS
    <3>2. IsFiniteSet(Below(S, x)) /\ Below(S, x) \subseteq S
        BY <3>1, BelowIsFinite
    <3> QED BY <3>2 DEF FiniteSubsetsOf
  <2> QED BY <2>1
<1>2. IsWellFoundedOn(StrictSubsetOrdering(S), FiniteSubsetsOf(S))
    BY FS_StrictSubsetOrderingWellFounded
<1>3. \E T \in belows : \A U \in belows : ~(<<U, T>> \in StrictSubsetOrdering(S))
  <2> HIDE DEF belows
  <2> QED BY <1>1, <1>2, WFMin
<1>4. PICK x \in S : \A y \in S : ~(<<Below(S, y), Below(S, x)>> \in StrictSubsetOrdering(S))
    BY <1>3
<1> HIDE DEF belows
<1>5. ASSUME NEW y \in S, y < x PROVE FALSE
  <2>1. x \in Nat /\ y \in Nat
      OBVIOUS
  <2>2. y \in Below(S, x) /\ y \notin Below(S, y)
      BY <1>5, <2>1 DEF Below
  <2>3. Below(S, y) \subseteq Below(S, x)
      BY <1>5, <2>1, BelowIsFinite
  <2>4. Below(S, x) \subseteq S /\ Below(S, y) \subseteq S
      BY DEF Below
  <2>5. <<Below(S, y), Below(S, x)>> \in StrictSubsetOrdering(S)
      BY <2>2, <2>3, <2>4 DEF StrictSubsetOrdering
  <2> QED BY <1>4, <2>5
<1>6. \A y \in S : x \in Nat /\ y \in Nat
    OBVIOUS
<1> QED BY <1>5, <1>6

(* The first members of a set, as many as fit a page. *)
FirstOf(S, n) == {a \in S : Cardinality(Below(S, a)) < n}

(* A page is the lowest part of what was found, all of it when it is not   *)
(* full, and not empty unless nothing was found.                           *)
LEMMA LowestPage ==
    ASSUME NEW found \in SUBSET Nat, NEW size \in Nat \ {0}
    PROVE  /\ FirstOf(found, size) \subseteq found
           /\ FirstOf(found, size) = {} => found = {}
           /\ \A a \in found \ FirstOf(found, size), r \in FirstOf(found, size) : r < a
           /\ size > 1 /\ (\A a, b \in FirstOf(found, size) : a = b) => found = FirstOf(found, size)
<1> DEFINE page == {a \in found : Cardinality(Below(found, a)) < size}
<1>1. ASSUME found # {} PROVE page # {}
  <2>1. PICK x \in found : \A y \in found : x <= y
      BY <1>1, LeastExists
  <2>2. Below(found, x) = {}
    <3> SUFFICES ASSUME NEW y \in Below(found, x) PROVE FALSE
        OBVIOUS
    <3>1. y \in found /\ y < x
        BY DEF Below
    <3>2. x <= y /\ x \in Nat /\ y \in Nat
        BY <2>1, <3>1
    <3> QED BY <3>1, <3>2
  <2>3. Cardinality(Below(found, x)) = 0
      BY <2>2, FS_EmptySet
  <2> QED BY <2>3
<1>2. ASSUME NEW a \in found \ page, NEW r \in page, ~(r < a) PROVE FALSE
  <2>1. r \in Nat /\ a \in Nat
      OBVIOUS
  <2>2. a <= r
      BY <1>2, <2>1
  <2>3. Below(found, a) \in SUBSET Below(found, r) /\ IsFiniteSet(Below(found, r))
      BY <2>1, <2>2, BelowIsFinite
  <2>4. Cardinality(Below(found, a)) <= Cardinality(Below(found, r))
      BY <2>3, FS_Subset
  <2>5. Cardinality(Below(found, a)) \in Nat /\ Cardinality(Below(found, r)) \in Nat
      BY <2>1, BelowIsFinite
  <2> QED BY <2>4, <2>5
<1>3. ASSUME size > 1, \A a, b \in page : a = b, found # page PROVE FALSE
  <2>0. PICK r : page = {r}
      BY <1>1, <1>3
  <2>1. r \in found /\ found \ {r} # {} /\ found \ {r} \in SUBSET Nat
      BY <1>3, <2>0
  <2>2. PICK x \in found \ {r} : \A y \in found \ {r} : x <= y
      BY <2>1, LeastExists
  <2>3. Below(found, x) \in SUBSET {r}
    <3> SUFFICES ASSUME NEW y \in Below(found, x), y # r PROVE FALSE
        OBVIOUS
    <3>1. y \in found \ {r} /\ y < x
        BY DEF Below
    <3>2. x <= y /\ x \in Nat /\ y \in Nat
        BY <2>2, <3>1
    <3> QED BY <3>1, <3>2
  <2>4. IsFiniteSet({r}) /\ Cardinality({r}) = 1
      BY FS_Singleton
  <2>5. Cardinality(Below(found, x)) <= 1
      BY <2>3, <2>4, FS_Subset
  <2>6. Cardinality(Below(found, x)) \in Nat
      BY <2>1, BelowIsFinite
  <2>7. x \in page
      BY <1>3, <2>5, <2>6
  <2> QED BY <2>0, <2>2, <2>7
<1> QED BY <1>1, <1>2, <1>3 DEF FirstOf

-----------------------------------------------------------------------------
(* The knowledge graph. *)

LEMMA GraphCardinality == \A S : Graph!Cardinality(S) = Cardinality(S)
    BY DEF Graph!Cardinality, Cardinality

LEMMA GraphInit == Graph!Init => Graph!GraphInv
<1> SUFFICES ASSUME Graph!Init PROVE Graph!GraphInv
    OBVIOUS
<1>1. Graph!GraphType
    BY DEF Graph!Init, Graph!GraphType, Graph!NoReplay
<1>2. Graph!ProjectedFirst /\ Graph!ReplayedSoFar /\ Graph!GraphCovers
    BY DEF Graph!Init, Graph!ProjectedFirst, Graph!ReplayedSoFar, Graph!GraphCovers, Graph!NoReplay, Graph!Committed
<1> QED BY <1>1, <1>2 DEF Graph!GraphInv

(* A step of a job leaves the replay alone and only adds to the graph.     *)
LEMMA JobStep ==
    ASSUME Graph!GraphInv, NEW a \in Knowledge, NEW now \in {"idle", "built", "projected", "succeeded"},
           ingest[a] # "succeeded", ingest' = [ingest EXCEPT ![a] = now],
           nodes' = nodes \/ nodes' = Graph!Merged(a), UNCHANGED <<cleared, replay>>,
           now \in {"projected", "succeeded"} => nodes' = Graph!Merged(a) \/ ingest[a] = "projected"
    PROVE  Graph!GraphInv'
<1>1. \A b \in Knowledge : nodes[b] = "present" => nodes'[b] = "present"
    BY DEF Graph!GraphInv, Graph!GraphType, Graph!Merged
<1>2. \A b \in Knowledge : ingest'[b] = IF b = a THEN now ELSE ingest[b]
    BY DEF Graph!GraphInv, Graph!GraphType
<1>3. Graph!GraphType'
    BY DEF Graph!GraphInv, Graph!GraphType, Graph!Merged
<1>4. Graph!ProjectedFirst'
  <2>1. ASSUME ~cleared, now \in {"projected", "succeeded"} PROVE nodes'[a] = "present"
    <3>1. CASE nodes' = Graph!Merged(a)
        BY <3>1 DEF Graph!GraphInv, Graph!GraphType, Graph!Merged
    <3>2. CASE ingest[a] = "projected"
        BY <1>1, <2>1, <3>2 DEF Graph!GraphInv, Graph!ProjectedFirst
    <3> QED BY <2>1, <3>1, <3>2
  <2> QED BY <1>1, <1>2, <2>1 DEF Graph!GraphInv, Graph!ProjectedFirst
<1>5. Graph!Committed \subseteq Graph!Committed'
    BY <1>2 DEF Graph!Committed
<1>6. Graph!ReplayedSoFar'
    BY <1>1, <1>5 DEF Graph!GraphInv, Graph!GraphType, Graph!ReplayedSoFar
<1>7. Graph!GraphCovers'
    BY <1>1, <1>4 DEF Graph!GraphInv, Graph!GraphType, Graph!GraphCovers, Graph!ProjectedFirst, Graph!Committed
<1> QED BY <1>3, <1>4, <1>6, <1>7 DEF Graph!GraphInv

(* A step of the replay command that leaves the graph alone. *)
LEMMA ReplayTurns ==
    ASSUME Graph!GraphInv, UNCHANGED <<ingest, nodes>>,
           replay' \in [status : {"idle", "clearing", "query", "rows", "done", "failed"}, cursor : Nat,
                       rows : SUBSET Knowledge, promised : SUBSET Knowledge],
           cleared' \in BOOLEAN, ~cleared' => ~cleared /\ replay'.status # "clearing",
           replay'.promised \subseteq Graph!Committed,
           replay'.status = "done" => \A a \in replay'.promised : nodes[a] = "present",
           replay'.status = "query" => \A a \in replay'.promised : a <= replay'.cursor => nodes[a] = "present",
           replay'.status = "rows" =>
             /\ replay'.rows # {}
             /\ \A a \in replay'.promised \ replay'.rows : nodes[a] = "present" \/ \A b \in replay'.rows : b < a
    PROVE  Graph!GraphInv'
<1>1. Graph!GraphType'
    BY DEF Graph!GraphInv, Graph!GraphType
<1>2. Graph!ProjectedFirst'
    BY DEF Graph!GraphInv, Graph!ProjectedFirst
<1>3. Graph!ReplayedSoFar'
    BY DEF Graph!GraphInv, Graph!ReplayedSoFar, Graph!Committed
<1>4. Graph!GraphCovers'
    BY DEF Graph!GraphInv, Graph!GraphCovers, Graph!Committed
<1> QED BY <1>1, <1>2, <1>3, <1>4 DEF Graph!GraphInv

LEMMA GraphStep ==
    ASSUME ProjectionAssumption, Graph!GraphInv,
           [Graph!Next]_<<ingest, nodes, cleared, replay, graphFaults>>
    PROVE  Graph!GraphInv'
<1> USE DEF Graph!NoReplay
<1>1. CASE UNCHANGED <<ingest, nodes, cleared, replay, graphFaults>>
    BY <1>1 DEF Graph!GraphInv, Graph!GraphType, Graph!ProjectedFirst, Graph!ReplayedSoFar, Graph!GraphCovers,
             Graph!Committed
<1>2. ASSUME NEW a \in Knowledge, Graph!Build(a) PROVE Graph!GraphInv'
    BY <1>2, JobStep DEF Graph!Build, Graph!Stage
<1>3. ASSUME NEW a \in Knowledge, Graph!Upsert(a) PROVE Graph!GraphInv'
    BY <1>3, JobStep DEF Graph!Upsert, Graph!Stage
<1>4. ASSUME NEW a \in Knowledge, Graph!Commit(a) PROVE Graph!GraphInv'
    BY <1>4, JobStep DEF Graph!Commit, Graph!Stage
<1>5. ASSUME NEW a \in Knowledge, Graph!StageFails(a) PROVE Graph!GraphInv'
  <2>1. nodes' = nodes \/ nodes' = Graph!Merged(a)
      BY <1>5 DEF Graph!StageFails
  <2> QED BY <1>5, <2>1, JobStep DEF Graph!StageFails, Graph!Stage
<1>6. CASE Graph!StartClear
  <2>1. replay' = [status |-> "clearing", cursor |-> 0, rows |-> {}, promised |-> {}]
      BY <1>6 DEF Graph!StartClear
  <2> QED BY <1>6, <2>1, ReplayTurns DEF Graph!StartClear
<1>7. CASE Graph!ClearBatch
  <2>1. replay.status = "clearing" /\ UNCHANGED <<ingest, cleared, replay>>
      BY <1>7 DEF Graph!ClearBatch
  <2>2. nodes' \in [Knowledge -> {"absent", "damaged", "present"}]
      BY <1>7 DEF Graph!ClearBatch, Graph!GraphInv, Graph!GraphType
  <2> QED BY <2>1, <2>2 DEF Graph!GraphInv, Graph!GraphType, Graph!ProjectedFirst, Graph!ReplayedSoFar,
               Graph!GraphCovers, Graph!Committed
<1>8. CASE Graph!StartReplay
  <2>1. replay' = [status |-> "query", cursor |-> 0, rows |-> {}, promised |-> Graph!Committed]
      BY <1>8 DEF Graph!StartReplay
  <2>2. Graph!Committed \subseteq Knowledge /\ \A a \in Graph!Committed : ~(a <= 0)
      BY DEF Graph!Committed, ProjectionAssumption
  <2>3. ~cleared => replay'.status # "clearing"
      BY <2>1
  <2> QED BY <1>8, <2>1, <2>2, <2>3, ReplayTurns DEF Graph!StartReplay, Graph!GraphInv, Graph!GraphType
<1>9. CASE Graph!ReadPage
  <2> DEFINE found == {a \in Graph!Committed : a > replay.cursor}
             page  == FirstOf(found, ReplayPage)
  <2>1. /\ replay.status = "query" /\ UNCHANGED <<ingest, nodes, cleared>>
        /\ replay' = IF page = {} THEN [Graph!NoReplay EXCEPT !.status = "done", !.promised = replay.promised]
                     ELSE [replay EXCEPT !.status = "rows", !.rows = page]
    <3> DEFINE read == {a \in found : Graph!Cardinality({b \in found : b < a}) < ReplayPage}
    <3>1. read = page
        BY GraphCardinality DEF Below, FirstOf
    <3>2. /\ replay.status = "query" /\ UNCHANGED <<ingest, nodes, cleared>>
          /\ replay' = IF read = {} THEN [Graph!NoReplay EXCEPT !.status = "done", !.promised = replay.promised]
                       ELSE [replay EXCEPT !.status = "rows", !.rows = read]
        BY <1>9 DEF Graph!ReadPage
    <3> HIDE DEF read, page, Graph!NoReplay
    <3> QED BY <3>1, <3>2, Zenon
  <2>2. found \in SUBSET Nat /\ page \subseteq found /\ found \subseteq Knowledge
      BY DEF Graph!Committed, ProjectionAssumption, FirstOf
  <2>3. (page = {} => found = {}) /\ \A a \in found \ page, r \in page : r < a
    <3>1. ReplayPage \in Nat \ {0}
        BY DEF ProjectionAssumption
    <3> HIDE DEF found
    <3> QED BY <2>2, <3>1, LowestPage
  <2>4. \A a \in replay.promised : nodes[a] = "present" \/ a \in found
      BY <2>1 DEF Graph!GraphInv, Graph!GraphType, Graph!ReplayedSoFar, ProjectionAssumption
  <2> HIDE DEF found, page
  <2>5. CASE page = {}
    <3>1. /\ replay' \in [status : {"idle", "clearing", "query", "rows", "done", "failed"}, cursor : Nat,
                       rows : SUBSET Knowledge, promised : SUBSET Knowledge]
          /\ replay'.status = "done" /\ replay'.promised = replay.promised
        BY <2>1, <2>5 DEF Graph!GraphInv, Graph!GraphType
    <3> QED BY <2>1, <2>3, <2>4, <2>5, <3>1, ReplayTurns DEF Graph!GraphInv, Graph!GraphType, Graph!ReplayedSoFar
  <2>6. CASE page # {}
    <3>1. /\ replay' \in [status : {"idle", "clearing", "query", "rows", "done", "failed"}, cursor : Nat,
                       rows : SUBSET Knowledge, promised : SUBSET Knowledge]
          /\ replay'.status = "rows" /\ replay'.rows = page /\ replay'.promised = replay.promised
        BY <2>1, <2>2, <2>6 DEF Graph!GraphInv, Graph!GraphType
    <3> QED BY <2>1, <2>3, <2>4, <2>6, <3>1, ReplayTurns DEF Graph!GraphInv, Graph!GraphType, Graph!ReplayedSoFar
  <2> QED BY <2>5, <2>6
<1>10. CASE Graph!ReplayRow
  <2> DEFINE rows == replay.rows
             a    == CHOOSE x \in rows : \A y \in rows : x <= y
  <2>1. /\ replay.status = "rows" /\ nodes' = Graph!Merged(a) /\ UNCHANGED <<ingest, cleared>>
        /\ replay' = [replay EXCEPT !.rows = rows \ {a},
                                    !.cursor = IF rows = {a} THEN a ELSE replay.cursor,
                                    !.status = IF rows = {a} THEN "query" ELSE "rows"]
      BY <1>10 DEF Graph!ReplayRow
  <2>2. rows \in SUBSET Nat /\ rows \subseteq Knowledge /\ rows # {}
      BY <2>1 DEF Graph!GraphInv, Graph!GraphType, Graph!ReplayedSoFar, ProjectionAssumption
  <2>3. a \in rows /\ \A y \in rows : a <= y
    <3> HIDE DEF rows
    <3> QED BY <2>2, LeastExists
  <2>4. a \in Knowledge /\ a \in Nat
      BY <2>2, <2>3
  <2> HIDE DEF a, rows
  <2>5. nodes'[a] = "present" /\ \A b \in Knowledge : nodes[b] = "present" => nodes'[b] = "present"
      BY <2>1, <2>4 DEF Graph!GraphInv, Graph!GraphType, Graph!Merged
  <2>6. /\ replay'.rows = rows \ {a} /\ replay'.promised = replay.promised
        /\ replay'.cursor = (IF rows = {a} THEN a ELSE replay.cursor)
        /\ replay'.status = (IF rows = {a} THEN "query" ELSE "rows")
      BY <2>1 DEF Graph!GraphInv, Graph!GraphType
  <2>7. Graph!GraphType'
      BY <2>1, <2>4, <2>2 DEF Graph!GraphInv, Graph!GraphType, Graph!Merged, rows
  <2>8. Graph!ProjectedFirst'
      BY <2>1, <2>5, <2>6 DEF Graph!GraphInv, Graph!ProjectedFirst
  <2>9. Graph!ReplayedSoFar'
    <3>1. \A b \in replay.promised : nodes'[b] = "present" \/ (b \in rows /\ b # a) \/ \A c \in rows : c < b
        BY <2>1, <2>5 DEF Graph!GraphInv, Graph!GraphType, Graph!ReplayedSoFar, rows
    <3>2. \A b \in replay.promised : b \in Nat
        BY DEF Graph!GraphInv, Graph!GraphType, ProjectionAssumption
    <3>3. ASSUME rows = {a}, NEW b \in replay.promised, b <= a PROVE nodes'[b] = "present"
        BY <2>3, <2>4, <3>1, <3>2, <3>3
    <3>4. replay.promised \subseteq Graph!Committed /\ Graph!Committed' = Graph!Committed
        BY <2>1 DEF Graph!GraphInv, Graph!ReplayedSoFar, Graph!Committed
    <3> QED BY <2>3, <2>6, <3>1, <3>3, <3>4 DEF Graph!ReplayedSoFar
  <2>10. Graph!GraphCovers'
      BY <2>1, <2>5, <2>6 DEF Graph!GraphInv, Graph!GraphCovers, Graph!Committed
  <2> QED BY <2>7, <2>8, <2>9, <2>10 DEF Graph!GraphInv
<1>11. CASE Graph!ReplayFails
  <2>1. replay' = [status |-> "failed", cursor |-> 0, rows |-> {}, promised |-> {}]
      BY <1>11 DEF Graph!ReplayFails
  <2>2. ~cleared => replay'.status # "clearing"
      BY <2>1
  <2> QED BY <1>11, <2>1, <2>2, ReplayTurns DEF Graph!ReplayFails, Graph!GraphInv, Graph!GraphType
<1> QED BY <1>1, <1>2, <1>3, <1>4, <1>5, <1>6, <1>7, <1>8, <1>9, <1>10, <1>11 DEF Graph!Next

(* The graph has every committed artifact until it is cleared, and after a *)
(* replay every one that was committed when the replay began, however many *)
(* workers write while it runs and whatever fails.                         *)
THEOREM GraphIsCovered == Graph!Spec => []GraphCovers
<1>1. ProjectionAssumption
    BY ProjectionAssumption
<1>2. Graph!GraphInv => GraphCovers
    BY DEF Graph!GraphInv, GraphCovers
<1> QED BY <1>1, <1>2, GraphInit, GraphStep, PTL DEF Graph!Spec

-----------------------------------------------------------------------------
(* The vector index. *)

LEMMA VectorCardinality == \A S : Vectors!Cardinality(S) = Cardinality(S)
    BY DEF Vectors!Cardinality, Cardinality

LEMMA VectorInit ==
    ASSUME ProjectionAssumption, Vectors!Init
    PROVE  Vectors!VectorInv
<1> USE DEF Vectors!Init, Vectors!NoCall, Vectors!NoRebuild
<1>1. Vectors!VectorType
    BY DEF Vectors!VectorType, Vectors!Calls, Vectors!Rebuilds, Vectors!Ended, ProjectionAssumption
<1>2. \A p \in Vectors!Processes : projection[p] = Vectors!NoCall
    OBVIOUS
<1>3. \A p \in Vectors!Processes : Vectors!CallSoFar(projection[p])
    BY <1>2 DEF Vectors!CallSoFar
<1>4. ~Vectors!Replaying
    BY <1>2 DEF Vectors!Replaying, Vectors!Processes
<1>5. Vectors!RebuiltSoFar /\ Vectors!ContextInv
    BY <1>4 DEF Vectors!RebuiltSoFar, Vectors!ContextInv
<1>6. Vectors!ProjectionComplete
    BY <1>2 DEF Vectors!ProjectionComplete
<1> QED BY <1>1, <1>3, <1>5, <1>6 DEF Vectors!VectorInv

(* Manifests and points only come. *)
Grows ==
    /\ manifests \subseteq manifests' /\ manifests' \subseteq Artifacts
    /\ points' \in [Artifacts \X (1..ChunkCount) -> VectorValues \cup {NoVector}]
    /\ \A a \in Artifacts, c \in 1..ChunkCount : points[<<a, c>>] # NoVector => points'[<<a, c>>] # NoVector

LEMMA Growth ==
    ASSUME Grows
    PROVE  /\ \A a \in Artifacts : Vectors!Indexed(a) => Vectors!Indexed(a)'
           /\ \A call \in Vectors!Calls : Vectors!CallSoFar(call) => Vectors!CallSoFar(call)'
<1>1. \A a \in Artifacts : Vectors!Indexed(a) => Vectors!Indexed(a)'
    BY DEF Grows, Vectors!Indexed
<1>2. ASSUME NEW call \in Vectors!Calls, Vectors!CallSoFar(call) PROVE Vectors!CallSoFar(call)'
    BY <1>1, <1>2 DEF Grows, Vectors!CallSoFar
<1> QED BY <1>1, <1>2

(* A step of a call: what it leaves for its artifact, and of the rebuild   *)
(* at most the context.                                                    *)
LEMMA CallStep ==
    ASSUME Vectors!VectorInv, Grows, NEW p \in Vectors!Processes, NEW call \in Vectors!Calls,
           projection' = [projection EXCEPT ![p] = call], UNCHANGED <<row_security, normalized>>,
           projection[p].step \notin Vectors!Ended, call.step # "idle",
           call.step = "failed" \/ call.artifact = projection[p].artifact,
           Vectors!CallSoFar(call)',
           \/ rebuild' = rebuild
           \/ p = "rebuild" /\ rebuild' \in Vectors!Rebuilds /\ ~rebuild'.context
              /\ rebuild'.status = rebuild.status /\ rebuild'.cursor = rebuild.cursor
              /\ rebuild'.rows = rebuild.rows /\ rebuild'.promised = rebuild.promised,
           p = "rebuild" /\ call.step # "failed" =>
              ~rebuild'.context /\ (row_security => Vectors!PageUnderContext)
    PROVE  Vectors!VectorInv'
<1> USE DEF Vectors!VectorInv
<1>1. Vectors!VectorType'
    BY DEF Vectors!VectorType, Grows
<1>2. /\ "rebuild" \in Vectors!Processes
      /\ \A q \in Vectors!Processes : projection'[q] = IF q = p THEN call ELSE projection[q]
    BY DEF Vectors!VectorType, Vectors!Processes
<1>3. \A q \in Vectors!Processes : Vectors!CallSoFar(projection[q])'
  <2> SUFFICES ASSUME NEW q \in Vectors!Processes PROVE Vectors!CallSoFar(projection[q])'
      OBVIOUS
  <2>1. CASE q = p
      BY <1>2, <2>1 DEF Vectors!CallSoFar
  <2>2. CASE q # p
    <3>1. PICK other \in Vectors!Calls : other = projection[q]
        BY DEF Vectors!VectorType
    <3>2. Vectors!CallSoFar(other)
        BY <3>1
    <3>3. Vectors!CallSoFar(other)'
        BY <3>2, Growth
    <3> QED BY <1>2, <2>2, <3>1, <3>3 DEF Vectors!CallSoFar
  <2> QED BY <2>1, <2>2
<1>4. /\ Vectors!Replaying' => Vectors!Replaying /\ projection'["rebuild"].artifact = projection["rebuild"].artifact
      /\ projection'["rebuild"].step # "failed" =>
           projection["rebuild"].step # "failed" /\ Vectors!Left' = Vectors!Left
      /\ p = "rebuild" => Vectors!Replaying
  <2>1. CASE p = "rebuild"
    <3>1. Vectors!Replaying
        BY <2>1 DEF Vectors!Replaying, Vectors!Ended
    <3>2. /\ projection'["rebuild"] = call
          /\ rebuild'.rows = rebuild.rows
        BY <1>2, <2>1
    <3>3. Vectors!Replaying' => call.step # "failed"
        BY <3>2 DEF Vectors!Replaying
    <3>4. call.step # "failed" => Vectors!Replaying'
        BY <3>2 DEF Vectors!Replaying
    <3> QED BY <2>1, <3>1, <3>2, <3>3, <3>4 DEF Vectors!Left, Vectors!Ended
  <2>2. CASE p # "rebuild"
    <3>1. projection'["rebuild"] = projection["rebuild"] /\ rebuild' = rebuild
        BY <1>2, <2>2
    <3> QED BY <2>2, <3>1 DEF Vectors!Replaying, Vectors!Left
  <2> QED BY <2>1, <2>2
<1>5. /\ rebuild'.status = rebuild.status /\ rebuild'.cursor = rebuild.cursor
      /\ rebuild'.rows = rebuild.rows /\ rebuild'.promised = rebuild.promised
      /\ rebuild'.context => rebuild.context
      /\ rebuild.promised \subseteq Artifacts
    BY DEF Vectors!VectorType, Vectors!Rebuilds
<1>6. \A a \in Artifacts : Vectors!Indexed(a) => Vectors!Indexed(a)'
    BY Growth
<1>7. Vectors!RebuiltSoFar'
    BY <1>4, <1>5, <1>6 DEF Vectors!RebuiltSoFar
<1>8. rebuild.status = "query" => rebuild' = rebuild
    BY <1>4 DEF Vectors!RebuiltSoFar
<1>9. projection'["rebuild"].step # "failed" /\ row_security /\ Vectors!PageUnderContext' => Vectors!PageUnderContext
  <2>1. CASE p = "rebuild"
      BY <1>2, <2>1
  <2>2. CASE p # "rebuild"
    <3>1. projection'["rebuild"] = projection["rebuild"] /\ rebuild' = rebuild
        BY <1>2, <2>2
    <3> QED BY <3>1 DEF Vectors!PageUnderContext
  <2> QED BY <2>1, <2>2
<1>10. Vectors!Replaying' /\ rebuild'.context => projection'["rebuild"].step = "persist"
  <2>1. CASE p = "rebuild"
      BY <1>2, <2>1 DEF Vectors!Replaying
  <2>2. CASE p # "rebuild"
    <3>1. projection'["rebuild"] = projection["rebuild"] /\ rebuild' = rebuild
        BY <1>2, <2>2
    <3> QED BY <3>1 DEF Vectors!Replaying, Vectors!ContextInv
  <2> QED BY <2>1, <2>2
<1>11. Vectors!PageUnderContext' => projection'["rebuild"].step # "failed"
    BY DEF Vectors!PageUnderContext
<1>12. Vectors!ContextInv'
    BY <1>4, <1>5, <1>6, <1>8, <1>9, <1>10, <1>11 DEF Vectors!ContextInv
<1>13. Vectors!ProjectionComplete'
    BY <1>1, <1>2, <1>3, <1>5, <1>6 DEF Vectors!ProjectionComplete, Vectors!CallSoFar
<1> QED BY <1>1, <1>2, <1>3, <1>7, <1>12, <1>13

LEMMA NothingWritten ==
    ASSUME Vectors!VectorType, UNCHANGED <<manifests, points>>
    PROVE  Grows
BY DEF Grows, Vectors!VectorType

(* A call that raises leaves what it has written. *)
LEMMA CallFails ==
    ASSUME ProjectionAssumption, Vectors!VectorInv, Grows, NEW p \in Vectors!Processes, Vectors!Raise(p),
           UNCHANGED <<row_security, normalized, rebuild>>, projection[p].step \notin Vectors!Ended
    PROVE  Vectors!VectorInv'
<1>1. PICK call : call = [Vectors!NoCall EXCEPT !.step = "failed"]
    OBVIOUS
<1>2. call \in Vectors!Calls /\ call.step = "failed"
    BY <1>1 DEF Vectors!NoCall, Vectors!Calls, Vectors!Ended, ProjectionAssumption
<1>3. projection' = [projection EXCEPT ![p] = call]
    BY <1>1 DEF Vectors!Raise
<1>4. Vectors!CallSoFar(call)'
    BY <1>2 DEF Vectors!CallSoFar
<1> QED BY <1>2, <1>3, <1>4, CallStep

(* A call that goes on: the rebuild's own call under its context, or       *)
(* after it.                                                               *)
LEMMA CallGoesOn ==
    ASSUME Vectors!VectorInv, Grows, NEW p \in Vectors!Processes, NEW call \in Vectors!Calls,
           projection' = [projection EXCEPT ![p] = call], UNCHANGED <<row_security, normalized, rebuild>>,
           projection[p].step \in {"embed", "look", "write"}, call.step \notin {"idle", "failed"},
           call.artifact = projection[p].artifact, Vectors!CallSoFar(call)'
    PROVE  Vectors!VectorInv'
<1>1. projection[p].step \notin Vectors!Ended
    BY DEF Vectors!Ended
<1>2. p = "rebuild" => ~rebuild'.context /\ Vectors!PageUnderContext
  <2>1. p = "rebuild" => Vectors!Replaying
      BY DEF Vectors!Replaying
  <2> QED BY <2>1 DEF Vectors!VectorInv, Vectors!ContextInv, Vectors!PageUnderContext, Vectors!VectorType, Vectors!Rebuilds
<1> QED BY <1>1, <1>2, CallStep

LEMMA PersistStep ==
    ASSUME ProjectionAssumption, Vectors!VectorInv, NEW p \in Vectors!Processes, Vectors!Persist(p)
    PROVE  Vectors!VectorInv'
<1>1. /\ projection[p] \in Vectors!Calls /\ projection[p].step = "persist" /\ projection[p].step \notin Vectors!Ended
      /\ projection[p].artifact \in Artifacts /\ projection[p].chunk = 1
      /\ UNCHANGED <<row_security, normalized, points>>
    BY DEF Vectors!Persist, Vectors!Database, Vectors!VectorInv, Vectors!VectorType, Vectors!CallSoFar, Vectors!Ended
<1>2. CASE ~Vectors!Visible(p)
  <2>1. Grows
      BY <1>1, <1>2, NothingWritten DEF Vectors!Persist, Vectors!VectorInv
  <2> QED BY <1>1, <1>2, <2>1, CallFails DEF Vectors!Persist
<1>3. CASE Vectors!Visible(p)
  <2>1. PICK call : call = [projection[p] EXCEPT !.step = "embed"]
      OBVIOUS
  <2>2. /\ call \in Vectors!Calls /\ call.step = "embed" /\ call.artifact = projection[p].artifact
        /\ call.chunk = 1
      BY <1>1, <2>1 DEF Vectors!Calls
  <2>3. /\ projection' = [projection EXCEPT ![p] = call] /\ manifests' = manifests \cup {projection[p].artifact}
        /\ rebuild' = IF p = "worker" THEN rebuild
                      ELSE [rebuild EXCEPT !.context = FALSE, !.expired = projection[p].artifact \in manifests]
      BY <1>3, <2>1 DEF Vectors!Persist, Vectors!Step
  <2>4. Grows
      BY <1>1, <2>3 DEF Grows, Vectors!VectorInv, Vectors!VectorType
  <2>5. Vectors!CallSoFar(call)'
      BY <1>1, <2>2, <2>3 DEF Vectors!CallSoFar
  <2>6. CASE p = "worker"
      BY <1>1, <2>2, <2>3, <2>4, <2>5, <2>6, CallStep
  <2>7. CASE p = "rebuild"
    <3> DEFINE reused == projection[p].artifact \in manifests
    <3>0. PICK expired \in BOOLEAN : reused = expired
      <4>1. reused => reused = TRUE
          OBVIOUS
      <4>2. ~reused => reused = FALSE
          OBVIOUS
      <4> HIDE DEF reused
      <4> QED BY <4>1, <4>2, Zenon
    <3> HIDE DEF reused
    <3>1. PICK next : next = [rebuild EXCEPT !.context = FALSE, !.expired = expired]
        OBVIOUS
    <3>2. /\ next \in Vectors!Rebuilds /\ ~next.context /\ next.status = rebuild.status
          /\ next.cursor = rebuild.cursor /\ next.rows = rebuild.rows /\ next.promised = rebuild.promised
        BY <3>1 DEF Vectors!VectorInv, Vectors!VectorType, Vectors!Rebuilds
    <3>3. rebuild' = next
        BY <2>3, <2>7, <3>0, <3>1 DEF reused
    <3>4. row_security => Vectors!PageUnderContext
        BY <1>1, <1>3, <2>7 DEF Vectors!PageUnderContext, Vectors!Visible
    <3> QED BY <1>1, <2>2, <2>3, <2>4, <2>5, <2>7, <3>2, <3>3, <3>4, CallStep
  <2> QED BY <2>6, <2>7 DEF Vectors!Processes
<1> QED BY <1>2, <1>3

LEMMA EmbedStep ==
    ASSUME ProjectionAssumption, Vectors!VectorInv, NEW p \in Vectors!Processes, Vectors!Embed(p)
    PROVE  Vectors!VectorInv'
<1>1. /\ projection[p] \in Vectors!Calls /\ projection[p].step = "embed" /\ Vectors!CallSoFar(projection[p])
      /\ UNCHANGED <<row_security, normalized, manifests, points, rebuild>>
    BY DEF Vectors!Embed, Vectors!Database, Vectors!VectorInv, Vectors!VectorType
<1>2. PICK v \in VectorValues : projection' = [projection EXCEPT ![p].step = "look", ![p].vector = v]
    BY DEF Vectors!Embed
<1>3. PICK call : call = [projection[p] EXCEPT !.step = "look", !.vector = v]
    OBVIOUS
<1>4. /\ call \in Vectors!Calls /\ call.step = "look" /\ call.artifact = projection[p].artifact
      /\ call.vector = v /\ call.chunk = projection[p].chunk
    BY <1>1, <1>3 DEF Vectors!Calls
<1>5. projection' = [projection EXCEPT ![p] = call]
    BY <1>2, <1>3 DEF Vectors!VectorInv, Vectors!VectorType
<1>6. Vectors!CallSoFar(call)'
  <2>1. /\ call.artifact \in Artifacts /\ call.artifact \in manifests' /\ call.chunk = 1
        /\ call.vector \in VectorValues
      BY <1>1, <1>4 DEF Vectors!CallSoFar
  <2>2. \A c \in 1..ChunkCount : ~(c < call.chunk)
      BY <2>1 DEF ProjectionAssumption
  <2>3. call.step = "look"
      BY <1>4
  <2> QED BY <2>1, <2>2, <2>3 DEF Vectors!CallSoFar
<1>7. Grows
    BY <1>1, NothingWritten DEF Vectors!VectorInv
<1> QED BY <1>1, <1>4, <1>5, <1>6, <1>7, CallGoesOn

(* What a call knows when it looks a chunk up or writes it. *)
LEMMA CallReads ==
    ASSUME ProjectionAssumption, Vectors!VectorInv, NEW p \in Vectors!Processes,
           projection[p].step \in {"look", "write"}
    PROVE  /\ projection[p].chunk \in Nat /\ 1 <= projection[p].chunk /\ projection[p].chunk <= ChunkCount + 1
           /\ projection[p] \in Vectors!Calls /\ projection[p].step \notin Vectors!Ended
           /\ projection[p].artifact \in Artifacts /\ projection[p].artifact \in manifests
           /\ projection[p].vector \in VectorValues
           /\ \A c \in 1..ChunkCount : c < projection[p].chunk => points[<<projection[p].artifact, c>>] # NoVector
           /\ projection[p].step = "write" => projection[p].chunk <= ChunkCount
<1>1. projection[p] \in Vectors!Calls /\ Vectors!CallSoFar(projection[p])
    BY DEF Vectors!VectorInv, Vectors!VectorType
<1>2. projection[p].chunk \in 1..ChunkCount + 1
    BY <1>1 DEF Vectors!Calls
<1>3. projection[p].chunk \in Nat /\ 1 <= projection[p].chunk /\ projection[p].chunk <= ChunkCount + 1
    BY <1>2 DEF ProjectionAssumption
<1> QED BY <1>1, <1>3 DEF Vectors!CallSoFar, Vectors!Ended

(* The chunk is in the index, now or after the write: the call takes the   *)
(* next one.                                                               *)
LEMMA ChunkDone ==
    ASSUME ProjectionAssumption, Vectors!VectorInv, Grows, NEW p \in Vectors!Processes,
           projection[p].step \in {"look", "write"}, projection[p].chunk <= ChunkCount,
           points'[<<projection[p].artifact, projection[p].chunk>>] # NoVector,
           Vectors!NextChunk(p), UNCHANGED <<row_security, normalized, rebuild>>
    PROVE  Vectors!VectorInv'
<1> DEFINE old == projection[p]
<1>0. PICK count \in Nat : count = ChunkCount
    BY DEF ProjectionAssumption
<1>1. PICK call : call = [old EXCEPT !.step = "look", !.chunk = @ + 1]
    OBVIOUS
<1>2. projection' = [projection EXCEPT ![p] = call]
    BY <1>1 DEF Vectors!NextChunk, Vectors!VectorInv, Vectors!VectorType
<1>3. old \in Vectors!Calls /\ old.chunk \in Nat /\ 1 <= old.chunk
    BY CallReads
<1>4. /\ call.step = "look" /\ call.artifact = old.artifact /\ call.vector = old.vector
      /\ call.chunk = old.chunk + 1
    BY <1>1, <1>3 DEF Vectors!Calls
<1>5. call \in Vectors!Calls
  <2> HIDE DEF old
  <2>1. old.chunk + 1 \in 1..ChunkCount + 1
    <3>1. PICK n \in Nat : n = old.chunk
        BY <1>3
    <3>2. n <= count
        BY <1>0, <3>1 DEF old
    <3>3. n + 1 \in 1..count + 1
        BY <3>2
    <3> QED BY <1>0, <3>1, <3>3
  <2> QED BY <1>1, <1>3, <2>1 DEF Vectors!Calls, Vectors!Ended
<1>6. Vectors!CallSoFar(call)'
  <2>1. call.artifact \in Artifacts /\ call.artifact \in manifests' /\ call.vector \in VectorValues
      BY <1>4, CallReads DEF Grows
  <2>2. ASSUME NEW c \in 1..ChunkCount, c < call.chunk PROVE points'[<<call.artifact, c>>] # NoVector
    <3>1. CASE c < old.chunk
        BY <1>4, <3>1, CallReads DEF Grows
    <3>2. CASE c = old.chunk
        BY <1>4, <3>2
    <3>3. c < old.chunk \/ c = old.chunk
      <4>1. PICK n \in Nat : n = old.chunk
          BY <1>3
      <4>2. c < n + 1
          BY <1>4, <2>2, <4>1
      <4>3. c \in Nat
          BY <1>0
      <4>4. c < n \/ c = n
          BY <4>2, <4>3
      <4> QED BY <4>1, <4>4
    <3> QED BY <3>1, <3>2, <3>3
  <2> QED BY <1>4, <2>1, <2>2 DEF Vectors!CallSoFar
<1>7. call.step \notin {"idle", "failed"}
    BY <1>4
<1>8. old.step \in {"embed", "look", "write"}
    OBVIOUS
<1> QED BY <1>2, <1>4, <1>5, <1>6, <1>7, <1>8, CallGoesOn

LEMMA LookStep ==
    ASSUME ProjectionAssumption, Vectors!VectorInv, NEW p \in Vectors!Processes, Vectors!Look(p)
    PROVE  Vectors!VectorInv'
<1> DEFINE old == projection[p]
<1>1. /\ old.step = "look" /\ UNCHANGED <<row_security, normalized, manifests, points, rebuild>>
    BY DEF Vectors!Look, Vectors!Database
<1>2. /\ old \in Vectors!Calls /\ old.chunk \in Nat /\ old.artifact \in Artifacts
      /\ old.step \notin Vectors!Ended
    BY <1>1, CallReads
<1>3. Grows
    BY <1>1, NothingWritten DEF Vectors!VectorInv
<1>4. CASE old.chunk > ChunkCount /\ Vectors!Return(p)
  <2>1. PICK call : call = [Vectors!NoCall EXCEPT !.step = "success", !.artifact = old.artifact]
      OBVIOUS
  <2>2. call \in Vectors!Calls /\ call.step = "success" /\ call.artifact = old.artifact
    <3> HIDE DEF old
    <3>1. Vectors!NoCall \in Vectors!Calls
        BY DEF Vectors!NoCall, Vectors!Calls, Vectors!Ended, ProjectionAssumption
    <3> QED BY <1>2, <2>1, <3>1 DEF Vectors!Calls, Vectors!Ended
  <2>3. projection' = [projection EXCEPT ![p] = call]
      BY <1>4, <2>1 DEF Vectors!Return
  <2>4. \A c \in 1..ChunkCount : c < old.chunk
      BY <1>2, <1>4 DEF ProjectionAssumption
  <2>5. Vectors!Indexed(call.artifact)'
      BY <1>1, <2>2, <2>4, CallReads DEF Vectors!Indexed
  <2>6. Vectors!CallSoFar(call)'
      BY <1>2, <2>2, <2>5 DEF Vectors!CallSoFar, Vectors!Indexed
  <2>7. call.step \notin {"idle", "failed"} /\ old.step \in {"embed", "look", "write"}
      BY <1>1, <2>2
  <2> QED BY <1>1, <1>3, <2>2, <2>3, <2>6, <2>7, CallGoesOn
<1>5. CASE old.chunk <= ChunkCount /\ Vectors!Step(p, "write")
  <2>1. PICK call : call = [old EXCEPT !.step = "write"]
      OBVIOUS
  <2>2. /\ call \in Vectors!Calls /\ call.step = "write" /\ call.artifact = old.artifact
        /\ call.vector = old.vector /\ call.chunk = old.chunk
      BY <1>2, <2>1 DEF Vectors!Calls
  <2>3. projection' = [projection EXCEPT ![p] = call]
      BY <1>5, <2>1 DEF Vectors!Step
  <2>4. Vectors!CallSoFar(call)'
      BY <1>1, <1>5, <2>2, CallReads DEF Vectors!CallSoFar
  <2>5. call.step \notin {"idle", "failed"} /\ old.step \in {"embed", "look", "write"}
      BY <1>1, <2>2
  <2> QED BY <1>1, <1>3, <2>2, <2>3, <2>4, <2>5, CallGoesOn
<1>6. CASE old.chunk <= ChunkCount /\ points[<<old.artifact, old.chunk>>] # NoVector /\ Vectors!NextChunk(p)
    BY <1>1, <1>3, <1>6, ChunkDone
<1>7. CASE Vectors!Raise(p)
    BY <1>1, <1>2, <1>3, <1>7, CallFails
<1> QED
  <2>1. ~(old.chunk > ChunkCount) => old.chunk <= ChunkCount
      BY <1>2 DEF ProjectionAssumption
  <2>2. \/ old.chunk > ChunkCount /\ Vectors!Return(p)
        \/ old.chunk <= ChunkCount /\ Vectors!Step(p, "write")
        \/ old.chunk <= ChunkCount /\ points[<<old.artifact, old.chunk>>] # NoVector /\ Vectors!NextChunk(p)
        \/ Vectors!Raise(p)
      BY <2>1 DEF Vectors!Look, Vectors!Stored, Vectors!PointId
  <2> QED BY <1>4, <1>5, <1>6, <1>7, <2>2

LEMMA Writes ==
    ASSUME ProjectionAssumption, Vectors!VectorInv, NEW p \in Vectors!Processes, projection[p].step = "write",
           points' \in {points, Vectors!Written(p)}, UNCHANGED manifests
    PROVE  /\ Grows
           /\ points' = Vectors!Written(p) => points'[<<projection[p].artifact, projection[p].chunk>>] # NoVector
<1> DEFINE old == projection[p]
<1>1. /\ old.artifact \in Artifacts /\ old.vector \in VectorValues /\ old.vector # NoVector
      /\ old.chunk \in 1..ChunkCount
  <2>1. /\ old.artifact \in Artifacts /\ old.vector \in VectorValues
        /\ old.chunk \in Nat /\ 1 <= old.chunk /\ old.chunk <= ChunkCount
      BY CallReads
  <2> HIDE DEF old
  <2> QED BY <2>1 DEF ProjectionAssumption
<1>2. points' = points => Grows
    BY NothingWritten DEF Vectors!VectorInv
<1>3. CASE points' = [points EXCEPT ![<<old.artifact, old.chunk>>] = old.vector]
  <2>1. points \in [Artifacts \X (1..ChunkCount) -> VectorValues \cup {NoVector}]
      BY DEF Vectors!VectorInv, Vectors!VectorType
  <2> HIDE DEF old
  <2>2. <<old.artifact, old.chunk>> \in Artifacts \X (1..ChunkCount)
      BY <1>1
  <2>3. /\ points' \in [Artifacts \X (1..ChunkCount) -> VectorValues \cup {NoVector}]
        /\ points'[<<old.artifact, old.chunk>>] # NoVector
        /\ \A a \in Artifacts, c \in 1..ChunkCount : points[<<a, c>>] # NoVector => points'[<<a, c>>] # NoVector
      BY <1>1, <1>3, <2>1, <2>2
  <2> QED BY <2>3 DEF Grows, Vectors!VectorInv, Vectors!VectorType, old
<1>4. Vectors!Written(p) = [points EXCEPT ![<<old.artifact, old.chunk>>] = old.vector]
    BY DEF Vectors!Written, Vectors!PointId, Vectors!BuiltPoint
<1> HIDE DEF old
<1> QED BY <1>2, <1>3, <1>4, Zenon

LEMMA WriteStep ==
    ASSUME ProjectionAssumption, Vectors!VectorInv, NEW p \in Vectors!Processes,
           Vectors!Write(p) \/ Vectors!WriteFails(p)
    PROVE  Vectors!VectorInv'
<1>1. projection[p].step = "write" /\ UNCHANGED <<row_security, normalized, manifests, rebuild>>
    BY DEF Vectors!Write, Vectors!WriteFails, Vectors!Database
<1>2. projection[p].step \notin Vectors!Ended /\ projection[p].chunk <= ChunkCount
    BY <1>1, CallReads
<1>3. CASE Vectors!Write(p)
    BY <1>1, <1>2, <1>3, Writes, ChunkDone DEF Vectors!Write
<1>4. CASE Vectors!WriteFails(p)
    BY <1>1, <1>2, <1>4, Writes, CallFails DEF Vectors!WriteFails
<1> QED BY <1>3, <1>4

LEMMA ProjectFailsStep ==
    ASSUME ProjectionAssumption, Vectors!VectorInv, NEW p \in Vectors!Processes, Vectors!ProjectFails(p)
    PROVE  Vectors!VectorInv'
<1>1. /\ projection[p].step \in {"persist", "embed", "look"} /\ Vectors!Raise(p)
      /\ UNCHANGED <<row_security, normalized, points, rebuild>>
      /\ manifests' \in {manifests, manifests \cup {projection[p].artifact}}
    BY DEF Vectors!ProjectFails, Vectors!Database
<1>2. projection[p].artifact \in Artifacts /\ projection[p].step \notin Vectors!Ended
    BY <1>1 DEF Vectors!VectorInv, Vectors!CallSoFar, Vectors!Ended
<1>3. Grows
    BY <1>1, <1>2 DEF Grows, Vectors!VectorInv, Vectors!VectorType
<1> QED BY <1>1, <1>2, <1>3, CallFails

LEMMA NormalizeStep ==
    ASSUME Vectors!VectorInv, NEW a \in Artifacts, Vectors!Normalize(a)
    PROVE  Vectors!VectorInv'
<1>1. /\ normalized' = normalized \cup {a}
      /\ UNCHANGED <<row_security, manifests, points, projection, rebuild>>
    BY DEF Vectors!Normalize
<1>2. /\ \A b : Vectors!Indexed(b)' <=> Vectors!Indexed(b)
      /\ \A call : Vectors!CallSoFar(call)' <=> Vectors!CallSoFar(call)
    BY <1>1 DEF Vectors!Indexed, Vectors!CallSoFar
<1>3. Vectors!VectorType' /\ Vectors!ProjectionComplete'
    BY <1>1, <1>2 DEF Vectors!VectorInv, Vectors!VectorType, Vectors!ProjectionComplete
<1>4. /\ Vectors!Left' = Vectors!Left /\ Vectors!Replaying' = Vectors!Replaying
      /\ Vectors!PageUnderContext' = Vectors!PageUnderContext
    BY <1>1 DEF Vectors!Left, Vectors!Replaying, Vectors!PageUnderContext
<1>5. Vectors!RebuiltSoFar' /\ Vectors!ContextInv'
    BY <1>1, <1>2, <1>4 DEF Vectors!VectorInv, Vectors!RebuiltSoFar, Vectors!ContextInv
<1>6. \A p \in Vectors!Processes : Vectors!CallSoFar(projection[p])'
    BY <1>1 DEF Vectors!VectorInv, Vectors!CallSoFar, Vectors!Indexed
<1> QED BY <1>3, <1>5, <1>6 DEF Vectors!VectorInv

(* A process begins a call, or the rebuild ends one. *)
LEMMA CallChanges ==
    ASSUME Vectors!VectorInv, NEW p \in Vectors!Processes, NEW call \in Vectors!Calls, Vectors!CallSoFar(call),
           projection' = [projection EXCEPT ![p] = call], rebuild' \in Vectors!Rebuilds,
           UNCHANGED <<row_security, normalized, manifests, points>>,
           Vectors!RebuiltSoFar', Vectors!ContextInv',
           rebuild'.status = "done" => \A a \in rebuild'.promised : Vectors!Indexed(a)
    PROVE  Vectors!VectorInv'
<1>1. /\ \A a : Vectors!Indexed(a)' <=> Vectors!Indexed(a)
      /\ \A q \in Vectors!Processes : projection'[q] = IF q = p THEN call ELSE projection[q]
    BY DEF Vectors!Indexed, Vectors!VectorInv, Vectors!VectorType
<1>2. Vectors!VectorType'
    BY DEF Vectors!VectorInv, Vectors!VectorType
<1>3. \A q \in Vectors!Processes : Vectors!CallSoFar(projection[q])'
    BY <1>1 DEF Vectors!VectorInv, Vectors!CallSoFar
<1>4. Vectors!ProjectionComplete'
    BY <1>1 DEF Vectors!VectorInv, Vectors!ProjectionComplete, Vectors!CallSoFar
<1> QED BY <1>2, <1>3, <1>4 DEF Vectors!VectorInv

LEMMA WorkerProjectsStep ==
    ASSUME ProjectionAssumption, Vectors!VectorInv, NEW a \in Artifacts, Vectors!WorkerProjects(a)
    PROVE  Vectors!VectorInv'
<1>1. /\ Vectors!Begun("worker", a) /\ UNCHANGED <<row_security, normalized, manifests, points, rebuild>>
      /\ "worker" \in Vectors!Processes /\ projection["worker"] \in Vectors!Calls
    BY DEF Vectors!WorkerProjects, Vectors!Database, Vectors!Processes, Vectors!VectorInv, Vectors!VectorType
<1>2. PICK call : call = [projection["worker"] EXCEPT !.step = "persist", !.artifact = a, !.chunk = 1]
    OBVIOUS
<1>3. 1 \in 1..ChunkCount + 1
    BY DEF ProjectionAssumption
<1>4. call \in Vectors!Calls /\ call.step = "persist" /\ call.artifact = a /\ call.chunk = 1
    BY <1>1, <1>2, <1>3 DEF Vectors!Calls, Vectors!Ended
<1>5. projection' = [projection EXCEPT !["worker"] = call]
    BY <1>1, <1>2 DEF Vectors!Begun
<1>6. projection'["rebuild"] = projection["rebuild"]
    BY <1>5 DEF Vectors!VectorInv, Vectors!VectorType, Vectors!Processes
<1>7. /\ Vectors!Left' = Vectors!Left /\ Vectors!Replaying' = Vectors!Replaying
      /\ Vectors!PageUnderContext' = Vectors!PageUnderContext
    BY <1>1, <1>6 DEF Vectors!Left, Vectors!Replaying, Vectors!PageUnderContext
<1>8. \A b : Vectors!Indexed(b)' <=> Vectors!Indexed(b)
    BY <1>1 DEF Vectors!Indexed
<1>9. Vectors!RebuiltSoFar' /\ Vectors!ContextInv'
    BY <1>1, <1>6, <1>7, <1>8 DEF Vectors!VectorInv, Vectors!RebuiltSoFar, Vectors!ContextInv
<1>10. Vectors!CallSoFar(call)
    BY <1>4 DEF Vectors!CallSoFar
<1>11. /\ rebuild' \in Vectors!Rebuilds
       /\ rebuild'.status = "done" => \A b \in rebuild'.promised : Vectors!Indexed(b)
    BY <1>1 DEF Vectors!VectorInv, Vectors!VectorType, Vectors!ProjectionComplete
<1> QED BY <1>1, <1>4, <1>5, <1>9, <1>10, <1>11, CallChanges

LEMMA StartRebuildStep ==
    ASSUME ProjectionAssumption, Vectors!VectorInv, Vectors!StartRebuild
    PROVE  Vectors!VectorInv'
<1>1. /\ projection' = [projection EXCEPT !["rebuild"] = Vectors!NoCall]
      /\ UNCHANGED <<row_security, normalized, manifests, points>>
      /\ "rebuild" \in Vectors!Processes
    BY DEF Vectors!StartRebuild, Vectors!Database, Vectors!Processes
<1>2. PICK next : next = [Vectors!NoRebuild EXCEPT !.status = "query", !.context = TRUE, !.promised = normalized]
    OBVIOUS
<1>3. Vectors!NoRebuild \in Vectors!Rebuilds /\ normalized \subseteq Artifacts
    BY DEF Vectors!NoRebuild, Vectors!Rebuilds, Vectors!VectorInv, Vectors!VectorType
<1>4. /\ next \in Vectors!Rebuilds /\ next.status = "query" /\ next.context /\ next.promised = normalized
      /\ next.cursor = 0 /\ next.rows = {}
  <2>1. next \in Vectors!Rebuilds
      BY <1>2, <1>3 DEF Vectors!Rebuilds
  <2> QED BY <1>2, <2>1 DEF Vectors!NoRebuild
<1>5. rebuild' = next
    BY <1>2 DEF Vectors!StartRebuild
<1>6. Vectors!NoCall \in Vectors!Calls /\ Vectors!CallSoFar(Vectors!NoCall) /\ Vectors!NoCall.step = "idle"
    BY DEF Vectors!NoCall, Vectors!Calls, Vectors!CallSoFar, Vectors!Ended, ProjectionAssumption
<1>7. projection'["rebuild"].step = "idle"
    BY <1>1, <1>6 DEF Vectors!VectorInv, Vectors!VectorType
<1>8. ~Vectors!Replaying'
    BY <1>7 DEF Vectors!Replaying
<1>9. \A a \in normalized : ~(a <= 0)
    BY <1>3 DEF ProjectionAssumption
<1>10. Vectors!RebuiltSoFar' /\ Vectors!ContextInv'
    BY <1>1, <1>4, <1>5, <1>8, <1>9 DEF Vectors!RebuiltSoFar, Vectors!ContextInv
<1> QED BY <1>1, <1>4, <1>5, <1>6, <1>10, CallChanges

(* The rebuild goes on without its call. *)
LEMMA RebuildTurns ==
    ASSUME Vectors!VectorInv, UNCHANGED <<row_security, normalized, manifests, points, projection>>,
           rebuild' \in Vectors!Rebuilds, Vectors!RebuiltSoFar', Vectors!ContextInv',
           rebuild'.status = "done" => \A a \in rebuild'.promised : Vectors!Indexed(a)
    PROVE  Vectors!VectorInv'
<1>1. "rebuild" \in Vectors!Processes
    BY DEF Vectors!Processes
<1>2. PICK call \in Vectors!Calls : call = projection["rebuild"]
    BY <1>1 DEF Vectors!VectorInv, Vectors!VectorType
<1>3. Vectors!CallSoFar(call)
    BY <1>1, <1>2 DEF Vectors!VectorInv
<1>4. projection' = [projection EXCEPT !["rebuild"] = call]
    BY <1>2 DEF Vectors!VectorInv, Vectors!VectorType
<1> QED BY <1>1, <1>3, <1>4, CallChanges

LEMMA RebuildFailsStep ==
    ASSUME ProjectionAssumption, Vectors!VectorInv, Vectors!RebuildFails, ~Vectors!Replaying,
           UNCHANGED <<row_security, normalized, manifests, points, projection>>
    PROVE  Vectors!VectorInv'
<1>1. PICK next : next = [Vectors!NoRebuild EXCEPT !.status = "failed"]
    OBVIOUS
<1>2. next \in Vectors!Rebuilds /\ next.status = "failed" /\ next.rows = {} /\ next.promised = {}
    BY <1>1 DEF Vectors!NoRebuild, Vectors!Rebuilds
<1>3. rebuild' = next /\ ~Vectors!Replaying'
    BY <1>1 DEF Vectors!RebuildFails, Vectors!Replaying
<1>4. Vectors!RebuiltSoFar' /\ Vectors!ContextInv'
    BY <1>2, <1>3 DEF Vectors!RebuiltSoFar, Vectors!ContextInv
<1> QED BY <1>2, <1>3, <1>4, RebuildTurns

LEMMA ReadPageStep ==
    ASSUME ProjectionAssumption, Vectors!VectorInv, Vectors!ReadPage
    PROVE  Vectors!VectorInv'
<1> DEFINE found == IF Vectors!Visible("rebuild") THEN Vectors!Unread(rebuild.cursor) ELSE {}
           page  == FirstOf(found, PageSize)
<1>1. /\ rebuild.status = "query" /\ rebuild \in Vectors!Rebuilds
      /\ UNCHANGED <<row_security, normalized, manifests, points, projection>>
    BY DEF Vectors!ReadPage, Vectors!Database, Vectors!VectorInv, Vectors!VectorType
<1>2. rebuild' = IF page = {} THEN [Vectors!NoRebuild EXCEPT !.status = "done", !.promised = rebuild.promised]
                 ELSE [rebuild EXCEPT !.status = "rows", !.rows = page, !.expired = FALSE]
  <2>1. Vectors!Page(found) = page
      BY VectorCardinality DEF Vectors!Page, Below, FirstOf
  <2>2. rebuild' = IF Vectors!Page(found) = {}
                   THEN [Vectors!NoRebuild EXCEPT !.status = "done", !.promised = rebuild.promised]
                   ELSE [rebuild EXCEPT !.status = "rows", !.rows = Vectors!Page(found), !.expired = FALSE]
      BY DEF Vectors!ReadPage
  <2> HIDE DEF found, page
  <2> QED BY <2>1, <2>2
<1>3. /\ ~Vectors!Replaying /\ ~Vectors!Replaying' /\ rebuild.promised \subseteq normalized
      /\ \A a \in rebuild.promised : a <= rebuild.cursor => Vectors!Indexed(a)
    BY <1>1 DEF Vectors!VectorInv, Vectors!RebuiltSoFar, Vectors!Replaying
<1>4. normalized \subseteq Artifacts /\ normalized \subseteq Nat /\ rebuild.cursor \in Nat
    BY <1>1 DEF Vectors!VectorInv, Vectors!VectorType, Vectors!Rebuilds, ProjectionAssumption
<1>5. found \in SUBSET Nat /\ found \subseteq normalized /\ page \subseteq found
    BY <1>4 DEF Vectors!Unread, FirstOf
<1>6. Vectors!Visible("rebuild") => \A a \in rebuild.promised : Vectors!Indexed(a) \/ a \in found
  <2> SUFFICES ASSUME Vectors!Visible("rebuild"), NEW a \in rebuild.promised, ~(a <= rebuild.cursor)
               PROVE  a \in found
      BY <1>3
  <2>1. a \in normalized /\ a \in Nat
      BY <1>3, <1>4
  <2>2. PICK n \in Nat : n = rebuild.cursor
      BY <1>4
  <2>3. a > n
    <3> HIDE DEF found, page
    <3> QED BY <2>1, <2>2
  <2> QED BY <2>1, <2>2, <2>3 DEF Vectors!Unread
<1>7. ~Vectors!Visible("rebuild") => page = {} /\ \A a \in rebuild.promised : Vectors!Indexed(a)
    BY <1>1 DEF Vectors!VectorInv, Vectors!ContextInv, Vectors!Visible, FirstOf
<1>8. \A a : Vectors!Indexed(a)' <=> Vectors!Indexed(a)
    BY <1>1 DEF Vectors!Indexed
<1>9. /\ page = {} => found = {}
      /\ \A a \in found \ page, r \in page : r < a
      /\ (\A a, b \in page : a = b) => found = page
  <2>1. PageSize \in Nat \ {0} /\ PageSize > 1
      BY DEF ProjectionAssumption
  <2> HIDE DEF found
  <2> QED BY <1>5, <2>1, LowestPage
<1> HIDE DEF found, page
<1>10. CASE page = {}
  <2>1. PICK next : next = [Vectors!NoRebuild EXCEPT !.status = "done", !.promised = rebuild.promised]
      OBVIOUS
  <2>2. Vectors!NoRebuild \in Vectors!Rebuilds
      BY DEF Vectors!NoRebuild, Vectors!Rebuilds
  <2>3. next \in Vectors!Rebuilds
      BY <1>1, <2>1, <2>2 DEF Vectors!Rebuilds
  <2>4. next.status = "done" /\ next.promised = rebuild.promised /\ next.rows = {}
      BY <2>1 DEF Vectors!NoRebuild
  <2>5. rebuild' = next
      BY <1>2, <1>10, <2>1
  <2>6. Vectors!RebuiltSoFar' /\ Vectors!ContextInv'
      BY <1>1, <1>3, <2>4, <2>5 DEF Vectors!RebuiltSoFar, Vectors!ContextInv
  <2>7. \A a \in rebuild.promised : Vectors!Indexed(a)
      BY <1>6, <1>7, <1>9, <1>10
  <2> QED BY <1>1, <2>3, <2>4, <2>5, <2>6, <2>7, RebuildTurns
<1>11. CASE page # {}
  <2>1. PICK next : next = [rebuild EXCEPT !.status = "rows", !.rows = page, !.expired = FALSE]
      OBVIOUS
  <2>2. page \subseteq Artifacts
      BY <1>4, <1>5
  <2>3. /\ next \in Vectors!Rebuilds /\ next.status = "rows" /\ next.promised = rebuild.promised
        /\ next.rows = page
      BY <1>1, <2>1, <2>2 DEF Vectors!Rebuilds
  <2>4. rebuild' = next
      BY <1>2, <1>11, <2>1
  <2>5. Vectors!Left' = page
      BY <1>3, <2>3, <2>4 DEF Vectors!Left
  <2>6. \A a \in rebuild.promised : Vectors!Indexed(a) \/ a \in found
      BY <1>6, <1>7, <1>11
  <2>7. Vectors!RebuiltSoFar'
      BY <1>1, <1>3, <1>5, <1>8, <1>9, <1>11, <2>3, <2>4, <2>5, <2>6 DEF Vectors!RebuiltSoFar
  <2>8. Vectors!ContextInv'
    <3>1. ASSUME \A a, b \in page : a = b, NEW a \in rebuild.promised PROVE Vectors!Indexed(a) \/ a \in page
      <4>1. found = page
          BY <1>9, <3>1
      <4> QED BY <2>6, <4>1
    <3> QED BY <1>3, <1>8, <2>3, <2>4, <2>5, <3>1 DEF Vectors!ContextInv
  <2> QED BY <1>1, <2>3, <2>4, <2>7, <2>8, RebuildTurns
<1> QED BY <1>10, <1>11

LEMMA NextRowStep ==
    ASSUME ProjectionAssumption, Vectors!VectorInv, Vectors!NextRow
    PROVE  Vectors!VectorInv'
<1> DEFINE rows == rebuild.rows
           a    == CHOOSE x \in rows : \A y \in rows : x <= y
<1>1. /\ rebuild.status = "rows" /\ rows # {} /\ projection["rebuild"].step = "idle"
      /\ UNCHANGED <<row_security, normalized, manifests, points>>
      /\ IF rebuild.expired THEN Vectors!RebuildFails /\ UNCHANGED projection
         ELSE rebuild' = [rebuild EXCEPT !.rows = @ \ {a}] /\ Vectors!Begun("rebuild", a)
    BY DEF Vectors!NextRow, Vectors!Database
<1>2. /\ rebuild \in Vectors!Rebuilds /\ "rebuild" \in Vectors!Processes
      /\ projection \in [Vectors!Processes -> Vectors!Calls]
    BY DEF Vectors!VectorInv, Vectors!VectorType, Vectors!Processes
<1>3. rows \subseteq Artifacts /\ rows \in SUBSET Nat
    BY <1>2 DEF Vectors!Rebuilds, ProjectionAssumption
<1>4. a \in rows /\ \A y \in rows : a <= y
  <2>1. rows # {}
      BY <1>1
  <2> HIDE DEF rows
  <2> QED BY <1>3, <2>1, LeastExists
<1> HIDE DEF a, rows
<1>5. ~Vectors!Replaying
    BY <1>1 DEF Vectors!Replaying
<1>6. CASE rebuild.expired
    BY <1>1, <1>5, <1>6, RebuildFailsStep
<1>7. CASE ~rebuild.expired
  <2>1. PICK call : call = [projection["rebuild"] EXCEPT !.step = "persist", !.artifact = a, !.chunk = 1]
      OBVIOUS
  <2>2. 1 \in 1..ChunkCount + 1 /\ a \in Artifacts
      BY <1>3, <1>4 DEF ProjectionAssumption
  <2>3. call \in Vectors!Calls /\ call.step = "persist" /\ call.artifact = a /\ call.chunk = 1
      BY <1>2, <2>1, <2>2 DEF Vectors!Calls, Vectors!Ended
  <2>4. projection' = [projection EXCEPT !["rebuild"] = call]
      BY <1>1, <1>7, <2>1 DEF Vectors!Begun
  <2>5. PICK next : next = [rebuild EXCEPT !.rows = rows \ {a}]
      OBVIOUS
  <2>6. /\ next \in Vectors!Rebuilds /\ next.rows = rows \ {a} /\ next.status = "rows"
        /\ next.promised = rebuild.promised /\ next.context = rebuild.context
      BY <1>1, <1>2, <1>3, <2>5 DEF Vectors!Rebuilds
  <2>7. rebuild' = next
      BY <1>1, <1>7, <2>5 DEF rows
  <2>8. projection'["rebuild"] = call
      BY <1>2, <2>4
  <2>9. Vectors!Left' = Vectors!Left /\ Vectors!Left = rows /\ Vectors!Replaying'
      BY <1>4, <1>5, <2>3, <2>6, <2>7, <2>8 DEF Vectors!Left, Vectors!Replaying, rows
  <2>10. \A b : Vectors!Indexed(b)' <=> Vectors!Indexed(b)
      BY <1>1 DEF Vectors!Indexed
  <2>11. rows \subseteq normalized /\ rebuild.promised \subseteq normalized
      BY DEF Vectors!VectorInv, Vectors!RebuiltSoFar, rows
  <2>12. \A b \in rows \ {a} : a < b
      BY <1>3, <1>4
  <2>13. Vectors!RebuiltSoFar'
      BY <1>1, <2>3, <2>6, <2>7, <2>8, <2>9, <2>10, <2>11, <2>12 DEF Vectors!VectorInv, Vectors!RebuiltSoFar
  <2>14. Vectors!ContextInv'
      BY <1>1, <2>3, <2>6, <2>7, <2>8, <2>9, <2>10
      DEF Vectors!VectorInv, Vectors!ContextInv, Vectors!PageUnderContext
  <2>15. Vectors!CallSoFar(call)
      BY <2>2, <2>3 DEF Vectors!CallSoFar
  <2>16. rebuild'.status # "done"
      BY <2>6, <2>7
  <2> QED BY <1>1, <1>2, <2>3, <2>4, <2>6, <2>7, <2>13, <2>14, <2>15, <2>16, CallChanges
<1> QED BY <1>6, <1>7

LEMMA RowDoneStep ==
    ASSUME ProjectionAssumption, Vectors!VectorInv, Vectors!RowDone
    PROVE  Vectors!VectorInv'
<1> DEFINE done == projection["rebuild"].artifact
<1>1. /\ rebuild.status = "rows" /\ projection["rebuild"].step = "success"
      /\ UNCHANGED <<row_security, normalized, manifests, points>>
      /\ projection' = [projection EXCEPT !["rebuild"] = Vectors!NoCall]
    BY DEF Vectors!RowDone, Vectors!Database
<1>2. /\ rebuild \in Vectors!Rebuilds /\ "rebuild" \in Vectors!Processes
      /\ projection \in [Vectors!Processes -> Vectors!Calls]
    BY DEF Vectors!VectorInv, Vectors!VectorType, Vectors!Processes
<1>3. Vectors!Indexed(done) /\ done \in Artifacts /\ done \in Nat
  <2>1. Vectors!CallSoFar(projection["rebuild"])
      BY <1>2 DEF Vectors!VectorInv
  <2> QED BY <1>1, <2>1 DEF Vectors!CallSoFar, ProjectionAssumption
<1>4. PICK next : next = [rebuild EXCEPT !.cursor = done, !.status = IF rebuild.rows = {} THEN "query" ELSE "rows"]
    OBVIOUS
<1>5. rebuild' = next
    BY <1>4 DEF Vectors!RowDone
<1> HIDE DEF done
<1>6. /\ next \in Vectors!Rebuilds /\ next.cursor = done /\ next.rows = rebuild.rows
      /\ next.promised = rebuild.promised /\ next.context = rebuild.context
      /\ next.status = (IF rebuild.rows = {} THEN "query" ELSE "rows")
    BY <1>2, <1>3, <1>4 DEF Vectors!Rebuilds
<1>7. Vectors!NoCall \in Vectors!Calls /\ Vectors!CallSoFar(Vectors!NoCall) /\ Vectors!NoCall.step = "idle"
    BY DEF Vectors!NoCall, Vectors!Calls, Vectors!CallSoFar, Vectors!Ended, ProjectionAssumption
<1>8. projection'["rebuild"].step = "idle" /\ ~Vectors!Replaying' /\ Vectors!Replaying
    BY <1>1, <1>2, <1>7 DEF Vectors!Replaying
<1>9. Vectors!Left = rebuild.rows \cup {done} /\ Vectors!Left' = rebuild.rows
    BY <1>5, <1>6, <1>8 DEF Vectors!Left, done
<1>10. \A b : Vectors!Indexed(b)' <=> Vectors!Indexed(b)
    BY <1>1 DEF Vectors!Indexed
<1>11. ~rebuild.context
    BY <1>1, <1>8 DEF Vectors!VectorInv, Vectors!ContextInv
<1>12. \A b \in rebuild.promised : Vectors!Indexed(b) \/ b \in rebuild.rows \/ \A c \in Vectors!Left : c < b
    BY <1>1, <1>3, <1>9 DEF Vectors!VectorInv, Vectors!RebuiltSoFar
<1>13. Vectors!RebuiltSoFar'
  <2>1. rebuild.promised \subseteq Nat /\ rebuild.rows \subseteq normalized /\ rebuild.promised \subseteq normalized
      BY DEF Vectors!VectorInv, Vectors!VectorType, Vectors!RebuiltSoFar, ProjectionAssumption
  <2>2. ASSUME rebuild.rows = {}, NEW b \in rebuild.promised, b <= done PROVE Vectors!Indexed(b)
    <3>1. ~(done < b)
        BY <1>3, <2>1, <2>2
    <3> QED BY <1>9, <1>12, <2>2, <3>1
  <2>3. rebuild.rows # {} =>
          \A b \in rebuild.promised : Vectors!Indexed(b) \/ b \in rebuild.rows \/ \A c \in rebuild.rows : c < b
      BY <1>9, <1>12
  <2> QED BY <1>1, <1>5, <1>6, <1>8, <1>9, <1>10, <2>1, <2>2, <2>3 DEF Vectors!RebuiltSoFar
<1>14. Vectors!ContextInv'
  <2>1. ASSUME row_security, rebuild.rows = {} PROVE \A b \in rebuild.promised : Vectors!Indexed(b)
    <3>1. Vectors!PageUnderContext /\ \A b, c \in Vectors!Left : b = c
        BY <1>1, <1>9, <2>1 DEF Vectors!PageUnderContext
    <3>2. \A b \in rebuild.promised : Vectors!Indexed(b) \/ b \in Vectors!Left
        BY <1>1, <2>1, <3>1 DEF Vectors!VectorInv, Vectors!ContextInv
    <3> QED BY <1>3, <1>9, <2>1, <3>2
  <2> QED BY <1>1, <1>5, <1>6, <1>8, <1>10, <1>11, <2>1 DEF Vectors!ContextInv, Vectors!PageUnderContext
<1>15. rebuild'.status # "done"
    BY <1>5, <1>6
<1> QED BY <1>1, <1>2, <1>5, <1>6, <1>7, <1>13, <1>14, <1>15, CallChanges

LEMMA VectorStep ==
    ASSUME ProjectionAssumption, Vectors!VectorInv,
           [Vectors!Next]_<<row_security, normalized, manifests, points, projection, rebuild, projectionFaults>>
    PROVE  Vectors!VectorInv'
<1>1. CASE UNCHANGED <<row_security, normalized, manifests, points, projection, rebuild, projectionFaults>>
    BY <1>1 DEF Vectors!VectorInv, Vectors!VectorType, Vectors!CallSoFar, Vectors!Indexed, Vectors!RebuiltSoFar,
             Vectors!ContextInv, Vectors!PageUnderContext, Vectors!Left, Vectors!Replaying, Vectors!ProjectionComplete
<1>2. ASSUME NEW p \in Vectors!Processes, Vectors!Project(p) \/ Vectors!WriteFails(p) \/ Vectors!ProjectFails(p)
      PROVE  Vectors!VectorInv'
    BY <1>2, PersistStep, EmbedStep, LookStep, WriteStep, ProjectFailsStep DEF Vectors!Project
<1>3. CASE Vectors!RowFailed
  <2>1. /\ ~Vectors!Replaying /\ Vectors!RebuildFails
        /\ UNCHANGED <<row_security, normalized, manifests, points, projection>>
      BY <1>3 DEF Vectors!RowFailed, Vectors!Replaying, Vectors!Database
  <2> QED BY <2>1, RebuildFailsStep
<1>4. CASE Vectors!StartRebuild \/ Vectors!ReadPage \/ Vectors!NextRow \/ Vectors!RowDone
    BY <1>4, StartRebuildStep, ReadPageStep, NextRowStep, RowDoneStep
<1>5. ASSUME NEW a \in Artifacts, Vectors!Normalize(a) \/ Vectors!WorkerProjects(a) PROVE Vectors!VectorInv'
    BY <1>5, NormalizeStep, WorkerProjectsStep
<1>6. "worker" \in Vectors!Processes /\ "rebuild" \in Vectors!Processes
    BY DEF Vectors!Processes
<1> QED BY <1>1, <1>2, <1>3, <1>4, <1>5, <1>6 DEF Vectors!Next, Vectors!Rebuild

(* A projection that returned has its manifest and a point for each chunk, *)
(* and a rebuild that returned has replayed every artifact that was there  *)
(* when it began, whether row-level security binds it or not, whatever the *)
(* worker writes meanwhile and whichever service fails.                    *)
THEOREM ProjectionsAreComplete == Vectors!Spec => []ProjectionComplete
<1>1. ProjectionAssumption
    BY ProjectionAssumption
<1>2. Vectors!VectorInv => ProjectionComplete
    BY DEF Vectors!VectorInv, ProjectionComplete
<1> QED BY <1>1, <1>2, VectorInit, VectorStep, PTL DEF Vectors!Spec
===============================================================================
