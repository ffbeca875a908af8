--------------------------- MODULE ArtifactStore ---------------------------
(***************************************************************************)
(* The persist operation of the immutable artifact services (normalized    *)
(* text, wiki generation, wiki page, chunk manifest) for one identity: an  *)
(* object under a content-addressed key is written first, the metadata row *)
(* second, and a failed writer deletes the object again.  Rows are never   *)
(* deleted or updated.  Writers are worker processes that may persist the  *)
(* same identity at once, and a generator may produce different contents.  *)
(***************************************************************************)
EXTENDS Naturals

CONSTANTS
    Writers,      \* sessions that persist this identity
    Contents,     \* what a run of the stage may produce; also the object keys
    None,         \* no row yet
    Verifies,     \* whether a row is reused only after its object was read:
                  \* FALSE for normalized text, TRUE for the other three
    RowSecurity,  \* whether row-level security binds the writers' database role
    CommitLost,   \* whether a COMMIT that raised may have taken effect
    MaxCrashes,   \* bound: crashes of a writer
    MaxStorageFailures, \* bound: exceptions of the object store
    MaxDbFailures \* bound: exceptions of the database, IntegrityError aside

ASSUME NoneAssumption     == None \notin Contents
ASSUME SwitchAssumption   == {Verifies, RowSecurity, CommitLost} \subseteq BOOLEAN
ASSUME LimitsAssumption   == MaxCrashes \in Nat /\ MaxStorageFailures \in Nat /\ MaxDbFailures \in Nat

VARIABLES
    row,      \* PostgreSQL: content the committed row names, or None
    objects,  \* object store: the contents whose object exists
    pc,       \* per writer: where its call is
    mine,     \* per writer: content of its latest call
    outcome,  \* per writer: how its latest call ended
    crashes, storageFailures, dbFailures  \* how much of the bounds is used

limits == <<crashes, storageFailures, dbFailures>>
vars == <<row, objects, pc, mine, outcome, limits>>

Successes == {"created", "reused"}
Errors    == {"StorageError", "PersistenceError", "OtherError", "crashed"}

Init ==
    /\ row = None /\ objects = {}
    /\ pc = [w \in Writers |-> "idle"]
    /\ mine \in [Writers -> Contents]
    /\ outcome = [w \in Writers |-> "OtherError"]
    /\ crashes = 0 /\ storageFailures = 0 /\ dbFailures = 0

Goto(w, label) == pc' = [pc EXCEPT ![w] = label] /\ UNCHANGED outcome

(* The call returns or raises; its transaction is over. *)
End(w, result) ==
    /\ pc' = [pc EXCEPT ![w] = "idle"]
    /\ outcome' = [outcome EXCEPT ![w] = result]

StorageRaises == storageFailures < MaxStorageFailures /\ storageFailures' = storageFailures + 1
                 /\ UNCHANGED <<crashes, dbFailures>>
DbRaises      == dbFailures < MaxDbFailures /\ dbFailures' = dbFailures + 1
                 /\ UNCHANGED <<crashes, storageFailures>>

Begin(w) ==
    /\ pc[w] = "idle"
    /\ \E c \in Contents : mine' = [mine EXCEPT ![w] = c]
    /\ Goto(w, "lookup")
    /\ UNCHANGED <<row, objects, limits>>

-----------------------------------------------------------------------------
(* An existing row, found by the lookup or after losing the race. *)

(* Mutant: any winner of the race is adopted. *)
AdoptAny(w) ==
    /\ row # None
    /\ IF Verifies THEN Goto(w, "verify") ELSE End(w, "reused")

(* Its content matches: reuse, after a look at the object if the service verifies. *)
Adopt(w) ==
    /\ row = mine[w]
    /\ IF Verifies THEN Goto(w, "verify") ELSE End(w, "reused")

Lookup(w) ==
    /\ pc[w] = "lookup"
    /\ \/ row = None /\ Goto(w, "put")
       \/ Adopt(w)
       \/ row \notin {None, mine[w]} /\ End(w, "Conflict")
    /\ UNCHANGED <<row, objects, mine, limits>>

VerifyObject(w) ==
    /\ pc[w] = "verify"
    /\ End(w, IF row \in objects THEN "reused" ELSE "StorageError")
    /\ UNCHANGED <<row, objects, mine, limits>>

(* The object store raises where the service reads: the row's object, or   *)
(* for normalized text the uploaded source before the lookup.              *)
ReadFails(w) ==
    /\ pc[w] = (IF Verifies THEN "verify" ELSE "lookup") /\ StorageRaises
    /\ End(w, "StorageError")
    /\ UNCHANGED <<row, objects, mine>>

(* The database raises in the lookup, or in the second look after a race:  *)
(* no handler catches it and nothing is cleaned up.                        *)
LookupFails(w) ==
    /\ pc[w] \in {"lookup", "reread"} /\ DbRaises
    /\ End(w, "OtherError")
    /\ UNCHANGED <<row, objects, mine>>

-----------------------------------------------------------------------------
(* The object first. *)

(* Mutant: the object gets the key of the row, not of its own content. *)
PutUnderRow(w) ==
    /\ pc[w] = "put"
    /\ objects' = objects \cup {row}
    /\ Goto(w, "insert")
    /\ UNCHANGED <<row, mine, limits>>

Put(w) ==
    /\ pc[w] = "put"
    /\ objects' = objects \cup {mine[w]}
    /\ Goto(w, "insert")
    /\ UNCHANGED <<row, mine, limits>>

(* S3 may have stored the object before its length check raised. *)
PutFails(w) ==
    /\ pc[w] = "put" /\ StorageRaises
    /\ objects' \in {objects, objects \cup {mine[w]}}
    /\ End(w, "StorageError")
    /\ UNCHANGED <<row, mine>>

(* The row second: the unique index makes an INSERT wait for the end of    *)
(* another transaction's INSERT, and raises IntegrityError on a committed  *)
(* row; the loser rolls back and looks for the winner.  The rollback ends  *)
(* the transaction that had the tenant's context: with row-level security  *)
(* the second look finds no row.                                           *)

InsertWaits(w) == \E v \in Writers \ {w} : pc[v] = "commit"

(* Mutant: no unique constraint. *)
InsertTwice(w) ==
    /\ pc[w] = "insert"
    /\ Goto(w, "commit")
    /\ UNCHANGED <<row, objects, mine, limits>>

Insert(w) ==
    /\ pc[w] = "insert" /\ ~InsertWaits(w)
    /\ Goto(w, IF row = None THEN "commit" ELSE "reread")
    /\ UNCHANGED <<row, objects, mine, limits>>

Commit(w) ==
    /\ pc[w] = "commit"
    /\ row' = mine[w]
    /\ End(w, "created")
    /\ UNCHANGED <<objects, mine, limits>>

(* Any other exception: roll back and clean up.  When COMMIT itself raises *)
(* (the connection breaks), the row may have been committed all the same.  *)
SaveFails(w) ==
    /\ pc[w] \in {"insert", "commit"} /\ DbRaises
    /\ row' \in IF pc[w] = "commit" /\ CommitLost THEN {row, mine[w]} ELSE {row}
    /\ Goto(w, "cleanup")
    /\ UNCHANGED <<objects, mine>>

(* Mutant: the loser with another content leaves its object behind. *)
RereadKeeps(w) ==
    /\ pc[w] = "reread"
    /\ (~RowSecurity /\ Adopt(w)) \/ ((RowSecurity \/ row # mine[w]) /\ End(w, "Conflict"))
    /\ UNCHANGED <<row, objects, mine, limits>>

(* Mutant: the loser with another content inserts again. *)
RereadRetries(w) ==
    /\ pc[w] = "reread"
    /\ (~RowSecurity /\ Adopt(w)) \/ ((RowSecurity \/ row # mine[w]) /\ Goto(w, "insert"))
    /\ UNCHANGED <<row, objects, mine, limits>>

Reread(w) ==
    /\ pc[w] = "reread"
    /\ (~RowSecurity /\ Adopt(w)) \/ ((RowSecurity \/ row # mine[w]) /\ Goto(w, "discard"))
    /\ UNCHANGED <<row, objects, mine, limits>>

(* A failed delete is reported in the error, not retried. *)
CleanupResult(w) == IF pc[w] = "discard" THEN "Conflict" ELSE "PersistenceError"

(* Mutant: the cleanup deletes the object of the row it found. *)
CleanupWinner(w) ==
    /\ pc[w] \in {"cleanup", "discard"}
    /\ objects' = objects \ {row}
    /\ End(w, CleanupResult(w))
    /\ UNCHANGED <<row, mine, limits>>

Cleanup(w) ==
    /\ pc[w] \in {"cleanup", "discard"}
    /\ objects' = objects \ {mine[w]}
    /\ End(w, CleanupResult(w))
    /\ UNCHANGED <<row, mine, limits>>

CleanupFails(w) ==
    /\ pc[w] \in {"cleanup", "discard"} /\ StorageRaises
    /\ End(w, CleanupResult(w))
    /\ UNCHANGED <<row, objects, mine>>

(* The process dies; the database drops its transaction. *)
Crash(w) ==
    /\ pc[w] # "idle"
    /\ crashes < MaxCrashes /\ crashes' = crashes + 1
    /\ End(w, "crashed")
    /\ UNCHANGED <<row, objects, mine, storageFailures, dbFailures>>

-----------------------------------------------------------------------------
Persist(w) ==
    \/ Lookup(w) \/ VerifyObject(w) \/ Put(w) \/ Insert(w)
    \/ Commit(w) \/ Reread(w) \/ Cleanup(w)

Exception(w) ==
    LookupFails(w) \/ ReadFails(w) \/ PutFails(w) \/ SaveFails(w) \/ CleanupFails(w)

Next == \E w \in Writers : Begin(w) \/ Persist(w) \/ Exception(w) \/ Crash(w)

(* A call that was begun goes on; nobody has to begin one. *)
Spec == Init /\ [][Next]_vars /\ \A w \in Writers : WF_vars(Persist(w))

-----------------------------------------------------------------------------
Labels == {"idle", "lookup", "verify", "put", "insert", "commit", "reread", "cleanup", "discard"}

(* Every variable has its type. *)
TypeOK ==
    /\ row \in Contents \cup {None}
    /\ objects \subseteq Contents
    /\ pc \in [Writers -> Labels]
    /\ mine \in [Writers -> Contents]
    /\ outcome \in [Writers -> Successes \cup {"Conflict"} \cup Errors]
    /\ crashes \in Nat /\ storageFailures \in Nat /\ dbFailures \in Nat

(* A committed row has its object: what every reader of the artifact takes *)
(* for granted, and what no later persist repairs.                         *)
RowHasObject == row # None => row \in objects

(* It holds as long as the losers of a race see the winner's row and the   *)
(* database raises nothing but IntegrityError, whatever crashes and        *)
(* whatever the object store refuses.                                      *)
ObjectOutlivesRaces == ~RowSecurity /\ dbFailures = 0 => RowHasObject

(* Two writers are never both past the unique index, and the one that is   *)
(* found no row.                                                           *)
OneInserter ==
    \A w \in Writers : pc[w] = "commit" => row = None /\ ~InsertWaits(w)

(* What a waiting writer may rely on: until a row is committed its object  *)
(* is there, and only losers of the race delete theirs.                    *)
ObjectInv ==
    ~RowSecurity /\ dbFailures = 0 =>
        /\ RowHasObject
        /\ \A w \in Writers :
            /\ pc[w] \in {"insert", "commit"} /\ row = None => mine[w] \in objects
            /\ pc[w] # "cleanup"

RaceInv ==
    \A w \in Writers :
        /\ pc[w] = "verify" => row = mine[w]
        /\ pc[w] = "reread" => row # None
        /\ pc[w] = "discard" => row # None /\ (RowSecurity \/ row # mine[w])

(* Without failures every object belongs to the row or to a writer that is *)
(* still to learn whether it lost.                                         *)
LitterInv ==
    limits = <<0, 0, 0>> =>
        \A c \in objects :
            c = row \/ \E w \in Writers : mine[w] = c /\ pc[w] \in {"insert", "commit", "reread", "discard"}

StoreInv == OneInserter /\ ObjectInv /\ RaceInv /\ LitterInv

(* Nothing is left behind by races alone: when no call is in progress and  *)
(* nothing ever failed, the store holds no object but the row's.           *)
NoLitter ==
    (\A w \in Writers : pc[w] = "idle") /\ limits = <<0, 0, 0>> => objects \subseteq {row}

(* A call that was begun ends, waiting for the unique index included. *)
CallsEnd == \A w \in Writers : pc[w] # "idle" ~> pc[w] = "idle"

(* Every answer is true of one content that never changes. *)
Answer == [w \in Writers |->
             CASE pc[w] # "idle" -> "pending"
               [] pc[w] = "idle" /\ outcome[w] \in Successes -> "success"
               [] pc[w] = "idle" /\ outcome[w] = "Conflict" -> "conflict"
               [] OTHER -> "failure"]
Abstract == INSTANCE ImmutableArtifact WITH value <- row, asked <- mine, answer <- Answer
ChosenOnce == Abstract!Spec
=============================================================================
