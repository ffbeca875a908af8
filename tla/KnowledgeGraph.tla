--------------------------- MODULE KnowledgeGraph ---------------------------
(***************************************************************************)
(* The knowledge artifacts of one tenant and their projection into Neo4j.  *)
(* A worker writes the canonical row in its job's transaction, then the    *)
(* graph, and only then commits; the replay command clears the tenant's    *)
(* graph batch by batch, if told to, and replays the committed rows page   *)
(* by page, while workers go on.                                           *)
(***************************************************************************)
EXTENDS Naturals, FiniteSets

CONSTANTS
    Knowledge,       \* ids of knowledge artifacts, ordered like their (hashed) UUIDs
    ReplayPage,      \* artifacts of a page of the replay (50 in the code)
    MaxGraphFaults   \* bound: exceptions of the services, crashes of a process

VARIABLES
    ingest,      \* per artifact: its job's knowledge stage
    nodes,       \* Neo4j: how much of the artifact's entities and facts exists
    cleared,     \* whether the graph was ever cleared
    replay,      \* the replay command
    graphFaults

NoReplay == [status |-> "idle", cursor |-> 0, rows |-> {}, promised |-> {}]

Init ==
    /\ ingest = [a \in Knowledge |-> "idle"]
    /\ nodes = [a \in Knowledge |-> "absent"]
    /\ cleared = FALSE
    /\ replay = NoReplay
    /\ graphFaults = 0

GraphFault == graphFaults < MaxGraphFaults /\ graphFaults' = graphFaults + 1
Stage(a, stage) == ingest' = [ingest EXCEPT ![a] = stage]
Committed == {a \in Knowledge : ingest[a] = "succeeded"}

-----------------------------------------------------------------------------
(* The knowledge stage of an ingestion job. *)

(* The row goes into the job's transaction, inside a savepoint. *)
Build(a) ==
    /\ ingest[a] = "idle"
    /\ Stage(a, "built")
    /\ UNCHANGED <<nodes, cleared, replay, graphFaults>>

(* One Neo4j transaction merges what is missing. *)
Merged(a) == [nodes EXCEPT ![a] = "present"]

Upsert(a) ==
    /\ ingest[a] = "built"
    /\ nodes' = Merged(a)
    /\ Stage(a, "projected")
    /\ UNCHANGED <<cleared, replay, graphFaults>>

(* Mutant: the job's transaction is committed before the graph is written. *)
CommitFirst(a) ==
    /\ ingest[a] \in {"built", "projected"}
    /\ Stage(a, "succeeded")
    /\ UNCHANGED <<nodes, cleared, replay, graphFaults>>

Commit(a) ==
    /\ ingest[a] = "projected"
    /\ Stage(a, "succeeded")
    /\ UNCHANGED <<nodes, cleared, replay, graphFaults>>

(* An exception or a crash rolls the row back; what Neo4j committed stays. *)
(* The job is delivered again.                                             *)
StageFails(a) ==
    /\ ingest[a] \in {"built", "projected"} /\ GraphFault
    /\ nodes' \in IF ingest[a] = "built" THEN {nodes, Merged(a)} ELSE {nodes}
    /\ Stage(a, "idle")
    /\ UNCHANGED <<cleared, replay>>

-----------------------------------------------------------------------------
(* The replay command. *)

StartClear ==
    /\ replay.status \in {"idle", "done", "failed"}
    /\ replay' = [NoReplay EXCEPT !.status = "clearing"]
    /\ cleared' = TRUE
    /\ UNCHANGED <<ingest, nodes, graphFaults>>

(* 500 nodes of any artifacts at a time, until a batch deletes none. *)
ClearBatch ==
    /\ replay.status = "clearing"
    /\ \E S \in SUBSET {a \in Knowledge : nodes[a] # "absent"} : \E left \in [S -> {"damaged", "absent"}] :
         /\ S # {}
         /\ nodes' = [a \in Knowledge |-> IF a \in S THEN left[a] ELSE nodes[a]]
    /\ UNCHANGED <<ingest, cleared, replay, graphFaults>>

Cleared == replay.status = "clearing" /\ \A a \in Knowledge : nodes[a] = "absent"

StartReplay ==
    /\ Cleared \/ replay.status \in {"idle", "done", "failed"}
    /\ replay' = [NoReplay EXCEPT !.status = "query", !.promised = Committed]
    /\ UNCHANGED <<ingest, nodes, cleared, graphFaults>>

ReadPage ==
    /\ replay.status = "query"
    /\ LET found == {a \in Committed : a > replay.cursor}
           page  == {a \in found : Cardinality({b \in found : b < a}) < ReplayPage}
       IN replay' = IF page = {} THEN [NoReplay EXCEPT !.status = "done", !.promised = replay.promised]
                    ELSE [replay EXCEPT !.status = "rows", !.rows = page]
    /\ UNCHANGED <<ingest, nodes, cleared, graphFaults>>

(* The rows of a page in order; after the last one its id is the cursor. *)
ReplayRow ==
    /\ replay.status = "rows"
    /\ LET a == CHOOSE a \in replay.rows : \A b \in replay.rows : a <= b
       IN /\ nodes' = Merged(a)
          /\ replay' = [replay EXCEPT !.rows = @ \ {a},
                                      !.cursor = IF replay.rows = {a} THEN a ELSE @,
                                      !.status = IF replay.rows = {a} THEN "query" ELSE "rows"]
    /\ UNCHANGED <<ingest, cleared, graphFaults>>

ReplayFails ==
    /\ replay.status \in {"clearing", "query", "rows"} /\ GraphFault
    /\ replay' = [NoReplay EXCEPT !.status = "failed"]
    /\ UNCHANGED <<ingest, nodes, cleared>>

Next ==
    \/ \E a \in Knowledge : Build(a) \/ Upsert(a) \/ Commit(a) \/ StageFails(a)
    \/ StartClear \/ ClearBatch \/ StartReplay \/ ReadPage \/ ReplayRow \/ ReplayFails

Spec == Init /\ [][Next]_<<ingest, nodes, cleared, replay, graphFaults>>

-----------------------------------------------------------------------------
(* The graph has every artifact that was committed, as long as it was      *)
(* never cleared, and after a replay every one that was committed when the *)
(* replay began, whatever failed in between.  (An artifact whose job       *)
(* writes the graph before a clearing and commits after the replay has     *)
(* passed its id is in neither set.)                                       *)
GraphCovers ==
    /\ ~cleared => \A a \in Committed : nodes[a] = "present"
    /\ replay.status = "done" => \A a \in replay.promised : nodes[a] = "present"

(* Inductive: what GraphCovers rests on. *)
GraphType ==
    /\ ingest \in [Knowledge -> {"idle", "built", "projected", "succeeded"}]
    /\ nodes \in [Knowledge -> {"absent", "damaged", "present"}]
    /\ cleared \in BOOLEAN
    /\ replay \in [status : {"idle", "clearing", "query", "rows", "done", "failed"}, cursor : Nat,
                   rows : SUBSET Knowledge, promised : SUBSET Knowledge]

(* Only what a projected row promises, and only a clearing takes it away. *)
ProjectedFirst ==
    /\ ~cleared => replay.status # "clearing"
    /\ ~cleared => \A a \in Knowledge : ingest[a] \in {"projected", "succeeded"} => nodes[a] = "present"

(* The replay has written what it has passed: the page it is in is the     *)
(* lowest part of what it has left.                                        *)
ReplayedSoFar ==
    /\ replay.promised \subseteq Committed
    /\ replay.status = "query" => \A a \in replay.promised : a <= replay.cursor => nodes[a] = "present"
    /\ replay.status = "rows" =>
         /\ replay.rows # {}
         /\ \A a \in replay.promised \ replay.rows : nodes[a] = "present" \/ \A b \in replay.rows : b < a

GraphInv == GraphType /\ ProjectedFirst /\ ReplayedSoFar /\ GraphCovers
=============================================================================
