------------------------ MODULE ArtifactStoreProofs ------------------------
(***************************************************************************)
(* Proofs about ArtifactStore for every set of writers and contents, with  *)
(* and without verification, and every bound on crashes and failures.      *)
(***************************************************************************)
EXTENDS ArtifactStore, TLAPS

USE DEF Labels, Successes, Errors

(* The initial state has the declared types. *)
LEMMA TypeInit == Init => TypeOK
BY LimitsAssumption DEF Init, TypeOK

(* Every step keeps the types. *)
LEMMA TypeStep == TypeOK /\ [Next]_vars => TypeOK'
<1> SUFFICES ASSUME TypeOK, [Next]_vars PROVE TypeOK'
  OBVIOUS
<1> USE DEF TypeOK, Goto, End
<1>1. CASE UNCHANGED vars
  BY <1>1 DEF vars, limits
<1>2. ASSUME NEW w \in Writers, Begin(w) PROVE TypeOK'
  BY <1>2 DEF Begin, limits
<1>3. ASSUME NEW w \in Writers, Lookup(w) PROVE TypeOK'
  BY <1>3 DEF Lookup, Adopt, limits
<1>4. ASSUME NEW w \in Writers, VerifyObject(w) PROVE TypeOK'
  BY <1>4 DEF VerifyObject, limits
<1>5. ASSUME NEW w \in Writers, Put(w) PROVE TypeOK'
  BY <1>5 DEF Put, limits
<1>6. ASSUME NEW w \in Writers, Insert(w) PROVE TypeOK'
  BY <1>6 DEF Insert, limits
<1>7. ASSUME NEW w \in Writers, Commit(w) PROVE TypeOK'
  BY <1>7 DEF Commit, limits
<1>8. ASSUME NEW w \in Writers, Reread(w) PROVE TypeOK'
  BY <1>8 DEF Reread, Adopt, limits
<1>9. ASSUME NEW w \in Writers, Cleanup(w) PROVE TypeOK'
  BY <1>9 DEF Cleanup, CleanupResult, limits
<1>10. ASSUME NEW w \in Writers, LookupFails(w) PROVE TypeOK'
  BY <1>10 DEF LookupFails, DbRaises
<1>11. ASSUME NEW w \in Writers, ReadFails(w) PROVE TypeOK'
  BY <1>11 DEF ReadFails, StorageRaises
<1>12. ASSUME NEW w \in Writers, PutFails(w) PROVE TypeOK'
  BY <1>12 DEF PutFails, StorageRaises
<1>13. ASSUME NEW w \in Writers, SaveFails(w) PROVE TypeOK'
  BY <1>13 DEF SaveFails, DbRaises
<1>14. ASSUME NEW w \in Writers, CleanupFails(w) PROVE TypeOK'
  BY <1>14 DEF CleanupFails, CleanupResult, StorageRaises
<1>15. ASSUME NEW w \in Writers, Crash(w) PROVE TypeOK'
  BY <1>15 DEF Crash
<1> QED
  BY <1>1, <1>2, <1>3, <1>4, <1>5, <1>6, <1>7, <1>8, <1>9, <1>10, <1>11, <1>12, <1>13, <1>14, <1>15
     DEF Next, Persist, Exception

(* No call is in progress and no object exists when the system starts. *)
LEMMA StoreStarts == Init => StoreInv
BY NoneAssumption DEF Init, StoreInv, OneInserter, ObjectInv, RowHasObject, RaceInv, LitterInv, InsertWaits

(* Every step of a writer keeps the invariant of the insert race. *)
LEMMA StoreStep == TypeOK /\ StoreInv /\ [Next]_vars => StoreInv'
<1> SUFFICES ASSUME TypeOK, StoreInv, [Next]_vars PROVE StoreInv'
  OBVIOUS
<1> USE NoneAssumption
    DEF TypeOK, StoreInv, OneInserter, InsertWaits, ObjectInv, RowHasObject, RaceInv, LitterInv, Goto, End, limits
<1>1. CASE UNCHANGED vars
  BY <1>1 DEF vars
<1>2. ASSUME NEW w \in Writers, Begin(w) PROVE StoreInv'
  BY <1>2 DEF Begin
<1>3. ASSUME NEW w \in Writers, Lookup(w) PROVE StoreInv'
  BY <1>3 DEF Lookup, Adopt
<1>4. ASSUME NEW w \in Writers, VerifyObject(w) PROVE StoreInv'
  BY <1>4 DEF VerifyObject
<1>5. ASSUME NEW w \in Writers, Put(w) PROVE StoreInv'
  BY <1>5 DEF Put
<1>6. ASSUME NEW w \in Writers, Insert(w) PROVE StoreInv'
  BY <1>6 DEF Insert
<1>7. ASSUME NEW w \in Writers, Commit(w) PROVE StoreInv'
  BY <1>7 DEF Commit
<1>8. ASSUME NEW w \in Writers, Reread(w) PROVE StoreInv'
  BY <1>8 DEF Reread, Adopt
<1>9. ASSUME NEW w \in Writers, Cleanup(w) PROVE StoreInv'
  BY <1>9 DEF Cleanup
<1>10. ASSUME NEW w \in Writers, LookupFails(w) PROVE StoreInv'
  BY <1>10 DEF LookupFails, DbRaises
<1>11. ASSUME NEW w \in Writers, ReadFails(w) PROVE StoreInv'
  BY <1>11 DEF ReadFails, StorageRaises
<1>12. ASSUME NEW w \in Writers, PutFails(w) PROVE StoreInv'
  BY <1>12 DEF PutFails, StorageRaises
<1>13. ASSUME NEW w \in Writers, SaveFails(w) PROVE StoreInv'
  BY <1>13 DEF SaveFails, DbRaises
<1>14. ASSUME NEW w \in Writers, CleanupFails(w) PROVE StoreInv'
  BY <1>14 DEF CleanupFails, StorageRaises
<1>15. ASSUME NEW w \in Writers, Crash(w) PROVE StoreInv'
  BY <1>15 DEF Crash
<1> QED
  BY <1>1, <1>2, <1>3, <1>4, <1>5, <1>6, <1>7, <1>8, <1>9, <1>10, <1>11, <1>12, <1>13, <1>14, <1>15
     DEF Next, Persist, Exception

(* The inductive invariant of the artifact services. *)
THEOREM Store == Spec => [](TypeOK /\ StoreInv)
<1>1. Init => TypeOK /\ StoreInv
  BY TypeInit, StoreStarts
<1>2. TypeOK /\ StoreInv /\ [Next]_vars => (TypeOK /\ StoreInv)'
  BY TypeStep, StoreStep
<1> QED
  BY <1>1, <1>2, PTL DEF Spec

(* Type correctness of every reachable state. *)
THEOREM StoreTypeCorrect == Spec => []TypeOK
BY Store, PTL

(* The inductive invariant alone, as the run checks it. *)
THEOREM StoreRaces == Spec => []StoreInv
BY Store, PTL

(* As long as the database raises nothing but IntegrityError, a committed  *)
(* row has its object, whatever crashes and whatever the object store      *)
(* refuses.                                                                *)
THEOREM ObjectKept == Spec => []ObjectOutlivesRaces
<1>1. StoreInv => ObjectOutlivesRaces
  BY DEF StoreInv, ObjectInv, ObjectOutlivesRaces
<1> QED
  BY <1>1, Store, PTL

(* Races alone leave no object behind. *)
THEOREM RacesLeaveNothing == Spec => []NoLitter
<1>1. StoreInv => NoLitter
  BY DEF StoreInv, LitterInv, NoLitter
<1> QED
  BY <1>1, Store, PTL

-----------------------------------------------------------------------------
(* ArtifactStore implements ImmutableArtifact. *)

(* The answer of a writer, by the two variables it is read from. *)
LEMMA AnswerOf ==
    ASSUME NEW w \in Writers
    PROVE  Answer[w] = IF pc[w] # "idle" THEN "pending"
                       ELSE IF outcome[w] \in Successes THEN "success"
                       ELSE IF outcome[w] = "Conflict" THEN "conflict" ELSE "failure"
BY DEF Answer

(* An initial state of the store is one of the abstract artifact. *)
LEMMA ChosenInit == Init => Abstract!Init
<1> SUFFICES ASSUME Init PROVE Abstract!Init
  OBVIOUS
<1>1. \A w \in Writers : Answer[w] = "failure"
  BY AnswerOf DEF Init
<1>2. Answer = [w \in Writers |-> "failure"]
  BY <1>1 DEF Answer
<1> QED
  BY <1>2 DEF Init, Abstract!Init

(* What one writer's step does to the answers: its own is read from the    *)
(* new label and outcome, the others stay.                                 *)
LEMMA AnswerStep ==
    ASSUME TypeOK, NEW w \in Writers, NEW l \in Labels,
           NEW o \in Successes \cup {"Conflict"} \cup Errors,
           pc' = [pc EXCEPT ![w] = l], outcome' = [outcome EXCEPT ![w] = o]
    PROVE  Answer' = [Answer EXCEPT ![w] =
                        IF l # "idle" THEN "pending"
                        ELSE IF o \in Successes THEN "success"
                        ELSE IF o = "Conflict" THEN "conflict" ELSE "failure"]
<1>1. \A v \in Writers \ {w} : pc'[v] = pc[v] /\ outcome'[v] = outcome[v]
  BY DEF TypeOK
<1>2. pc'[w] = l /\ outcome'[w] = o
  BY DEF TypeOK
<1> QED
  BY <1>1, <1>2 DEF Answer

(* A step that only moves within a call is a stutter or the choice.        *)
LEMMA MovesWithin ==
    ASSUME TypeOK, NEW w \in Writers, NEW l \in Labels, pc[w] # "idle", l # "idle", Goto(w, l)
    PROVE  Answer' = Answer /\ Answer[w] = "pending"
<1>1. outcome[w] \in Successes \cup {"Conflict"} \cup Errors /\ outcome' = [outcome EXCEPT ![w] = outcome[w]]
  BY DEF TypeOK, Goto
<1>2. Answer' = [Answer EXCEPT ![w] = "pending"]
  BY <1>1, AnswerStep DEF Goto
<1>3. Answer[w] = "pending"
  BY AnswerOf
<1> QED
  BY <1>2, <1>3 DEF Answer

(* A call that ends answers what its result says. *)
LEMMA Returns ==
    ASSUME TypeOK, NEW w \in Writers, NEW o \in Successes \cup {"Conflict"} \cup Errors,
           pc[w] # "idle", End(w, o)
    PROVE  /\ Answer[w] = "pending"
           /\ Answer' = [Answer EXCEPT ![w] = IF o \in Successes THEN "success"
                                              ELSE IF o = "Conflict" THEN "conflict" ELSE "failure"]
<1>1. Answer' = [Answer EXCEPT ![w] = IF o \in Successes THEN "success"
                                              ELSE IF o = "Conflict" THEN "conflict" ELSE "failure"]
  BY AnswerStep DEF End
<1> QED
  BY <1>1, AnswerOf

(* Where losers see the winner's row, every step of the store is a step of *)
(* the abstract artifact or a stutter.                                     *)
LEMMA ChosenStep ==
    ASSUME ~RowSecurity
    PROVE  TypeOK /\ StoreInv /\ [Next]_vars => [Abstract!Next]_<<row, mine, Answer>>
<1> SUFFICES ASSUME TypeOK, StoreInv, [Next]_vars PROVE [Abstract!Next]_<<row, mine, Answer>>
  OBVIOUS
<1> DEFINE Stutter == UNCHANGED <<row, mine, Answer>>
<1>a. ASSUME NEW w \in Writers, Abstract!Return(w) PROVE Abstract!Next
  BY <1>a DEF Abstract!Next
<1>1. CASE UNCHANGED vars
  BY <1>1 DEF vars, Answer
<1>2. ASSUME NEW w \in Writers, Begin(w) PROVE Abstract!Next
  <2>1. outcome[w] \in Successes \cup {"Conflict"} \cup Errors /\ outcome' = [outcome EXCEPT ![w] = outcome[w]]
    BY <1>2 DEF TypeOK, Begin, Goto
  <2>2. Answer' = [Answer EXCEPT ![w] = "pending"]
    BY <1>2, <2>1, AnswerStep DEF Begin, Goto
  <2>3. Answer[w] # "pending"
    BY <1>2, AnswerOf DEF Begin
  <2>4. Abstract!Ask(w)
    BY <1>2, <2>2, <2>3 DEF Begin, Abstract!Ask
  <2> QED
    BY <2>4 DEF Abstract!Next
<1>3. ASSUME NEW w \in Writers, pc[w] # "idle", UNCHANGED <<row, mine>>, NEW l \in Labels,
             l # "idle", Goto(w, l)
      PROVE  Stutter
  BY <1>3, MovesWithin
<1>4. ASSUME NEW w \in Writers, pc[w] # "idle", UNCHANGED <<row, mine>>,
             NEW o \in Successes \cup {"Conflict"} \cup Errors, End(w, o),
             o \in Successes => row = mine[w],
             o = "Conflict" => row \notin {None, mine[w]}
      PROVE  Abstract!Next
  <2>1. /\ Answer[w] = "pending"
        /\ Answer' = [Answer EXCEPT ![w] = IF o \in Successes THEN "success"
                                           ELSE IF o = "Conflict" THEN "conflict" ELSE "failure"]
    BY <1>4, Returns
  <2>2. Abstract!Return(w)
    BY <1>4, <2>1 DEF Abstract!Return, Abstract!Succeed, Abstract!Refuse, Abstract!Fail
  <2> QED
    BY <2>2, <1>a
<1>5. ASSUME NEW w \in Writers, Lookup(w) PROVE Abstract!Next \/ Stutter
  BY <1>5, <1>3, <1>4 DEF Lookup, Adopt
<1>6. ASSUME NEW w \in Writers, VerifyObject(w) PROVE Abstract!Next
  <2>1. row = mine[w]
    BY <1>6 DEF VerifyObject, StoreInv, RaceInv
  <2> QED
    BY <1>6, <2>1, <1>4 DEF VerifyObject
<1>7. ASSUME NEW w \in Writers, Put(w) \/ Insert(w) PROVE Stutter
  BY <1>7, <1>3 DEF Put, Insert
<1>8. ASSUME NEW w \in Writers, Commit(w) PROVE Abstract!Next
  <2>1. /\ Answer[w] = "pending"
        /\ Answer' = [Answer EXCEPT ![w] = "success"]
    BY <1>8, Returns DEF Commit
  <2>2. row = None
    BY <1>8 DEF Commit, StoreInv, OneInserter
  <2>3. Abstract!Return(w)
    BY <1>8, <2>1, <2>2 DEF Commit, Abstract!Return, Abstract!Choose, Abstract!Succeed
  <2> QED
    BY <2>3, <1>a
<1>9. ASSUME NEW w \in Writers, Reread(w) PROVE Abstract!Next \/ Stutter
  BY <1>9, <1>3, <1>4 DEF Reread, Adopt
<1>10. ASSUME NEW w \in Writers, Cleanup(w) \/ CleanupFails(w) PROVE Abstract!Next
  <2>1. pc[w] = "discard" => row \notin {None, mine[w]}
    BY DEF StoreInv, RaceInv
  <2>2. pc[w] # "idle" /\ UNCHANGED <<row, mine>> /\ End(w, CleanupResult(w))
    BY <1>10 DEF Cleanup, CleanupFails
  <2>3. CASE pc[w] = "discard"
    <3>1. CleanupResult(w) = "Conflict"
      BY <2>3 DEF CleanupResult
    <3> QED
      BY <2>1, <2>2, <2>3, <3>1, <1>4
  <2>4. CASE pc[w] # "discard"
    <3>1. CleanupResult(w) = "PersistenceError"
      BY <2>4 DEF CleanupResult
    <3> QED
      BY <2>2, <3>1, <1>4
  <2> QED
    BY <2>3, <2>4
<1>11. ASSUME NEW w \in Writers, LookupFails(w) \/ ReadFails(w) \/ PutFails(w) \/ Crash(w)
       PROVE  Abstract!Next
  <2>1. PICK o \in Errors : pc[w] # "idle" /\ UNCHANGED <<row, mine>> /\ End(w, o)
    BY <1>11 DEF LookupFails, ReadFails, PutFails, Crash
  <2> QED
    BY <2>1, <1>4
<1>12. ASSUME NEW w \in Writers, SaveFails(w) PROVE Abstract!Next \/ Stutter
  <2>1. Answer' = Answer /\ Answer[w] = "pending" /\ mine' = mine
    BY <1>12, MovesWithin DEF SaveFails
  <2>2. row' = row \/ (row = None /\ row' = mine[w])
    BY <1>12 DEF SaveFails, StoreInv, OneInserter
  <2>3. CASE row' = row
    BY <2>1, <2>3
  <2>4. CASE row = None /\ row' = mine[w]
    BY <2>1, <2>4 DEF Abstract!Next, Abstract!Choose
  <2> QED
    BY <2>2, <2>3, <2>4
<1> QED
  BY <1>1, <1>2, <1>5, <1>6, <1>7, <1>8, <1>9, <1>10, <1>11, <1>12 DEF Next, Persist, Exception

(* Where losers see the winner's row, every answer of the services is true *)
(* of one content that never changes.                                      *)
THEOREM Implements ==
    ASSUME ~RowSecurity
    PROVE  Spec => ChosenOnce
<1>1. Init => Abstract!Init
  BY ChosenInit
<1>2. TypeOK /\ StoreInv /\ [Next]_vars => [Abstract!Next]_<<row, mine, Answer>>
  BY ChosenStep
<1> QED
  BY <1>1, <1>2, Store, PTL DEF Spec, ChosenOnce, Abstract!Spec
=============================================================================
