--------------------------- MODULE AnswerPathProofs ---------------------------
(***************************************************************************)
(* The parts an answer passes through: the batched embeddings, the walk    *)
(* over the graph, the workflow.                                           *)
(***************************************************************************)
EXTENDS ProjectionProofs

-----------------------------------------------------------------------------
(* Batched embeddings. *)

LEMMA BatchCardinality == \A S : Batcher!Cardinality(S) = Cardinality(S)
    BY DEF Batcher!Cardinality, Cardinality

(* The calls the provider has. *)
Busy == {i \in 1..MaxRequests : embedding[i] \in {"calling", "stopping"}}

LEMMA BusyIsFinite ==
    ASSUME BatchAssumption
    PROVE  /\ IsFiniteSet(Busy) /\ Cardinality(Busy) \in Nat
           /\ IsFiniteSet(Busy') /\ Cardinality(Busy') \in Nat
           /\ Busy' \subseteq Busy => Cardinality(Busy') <= Cardinality(Busy)
<1>1. IsFiniteSet(1..MaxRequests)
    BY FS_Interval DEF BatchAssumption
<1>2. Busy \in SUBSET (1..MaxRequests) /\ Busy' \in SUBSET (1..MaxRequests)
    BY DEF Busy
<1>3. IsFiniteSet(Busy) /\ IsFiniteSet(Busy')
    BY <1>1, <1>2, FS_Subset
<1>4. Cardinality(Busy) \in Nat /\ Cardinality(Busy') \in Nat
    BY <1>3, FS_CardinalityType
<1>5. Busy' \subseteq Busy => Cardinality(Busy') <= Cardinality(Busy)
    BY <1>3, FS_Subset
<1> QED BY <1>3, <1>4, <1>5

(* What is left of BatchAccounted once the tasks are known. *)
LEMMA Accounted ==
    ASSUME BatchAssumption, Batcher!BatchType, Batcher!TasksInv, Cardinality(Busy) <= MaxConcurrency,
           batching.state = "returned" => batching.offset = batching.size,
           batching.state = "raised" => /\ \A i \in Batcher!CurrentBatch : embedding[i] # "stopping"
                                        /\ batching.error # 0 => embedding[batching.error] = "failed"
    PROVE  Batcher!BatchInv
<1>1. {i \in DOMAIN embedding : embedding[i] \in {"calling", "stopping"}} = Busy
    BY DEF Batcher!BatchType, Busy
<1>2. \A i \in 1..batching.offset : i \in 1..MaxRequests /\ i <= batching.offset
    BY DEF Batcher!BatchType, BatchAssumption
<1>3. batching.state = "raised" => Batcher!Are({"waiting", "calling", "stopping"}) = {}
    BY DEF Batcher!Are, Batcher!TasksInv
<1>4. Batcher!BatchAccounted
    BY <1>1, <1>2, <1>3, BatchCardinality DEF Batcher!BatchAccounted, Batcher!TasksInv
<1> QED BY <1>4 DEF Batcher!BatchInv

(* The same after a step. *)
LEMMA AccountedNext ==
    ASSUME BatchAssumption, Batcher!BatchType', Batcher!TasksInv', Cardinality(Busy') <= MaxConcurrency,
           batching'.state = "returned" => batching'.offset = batching'.size,
           batching'.state = "raised" => /\ \A i \in Batcher!CurrentBatch' : embedding'[i] # "stopping"
                                         /\ batching'.error # 0 => embedding'[batching'.error] = "failed"
    PROVE  Batcher!BatchInv'
<1>1. {i \in DOMAIN embedding' : embedding'[i] \in {"calling", "stopping"}} = Busy'
    BY DEF Batcher!BatchType, Busy
<1>2. \A i \in 1..batching'.offset : i \in 1..MaxRequests /\ i <= batching'.offset
    BY DEF Batcher!BatchType, BatchAssumption
<1>3. batching'.state = "raised" => Batcher!Are({"waiting", "calling", "stopping"})' = {}
    BY DEF Batcher!Are, Batcher!TasksInv
<1>4. Batcher!BatchAccounted'
    BY <1>1, <1>2, <1>3, BatchCardinality DEF Batcher!BatchAccounted, Batcher!TasksInv
<1> QED BY <1>4 DEF Batcher!BatchInv

LEMMA BatchInit == BatchAssumption /\ Batcher!Init => Batcher!BatchInv
<1> SUFFICES ASSUME BatchAssumption, Batcher!Init PROVE Batcher!BatchInv
    OBVIOUS
<1>1. Batcher!BatchType /\ batching.state = "running" /\ batching.offset = 0
    BY DEF Batcher!Init, Batcher!BatchType, Batcher!TaskStates, BatchAssumption
<1>2. \A i \in 1..MaxRequests : embedding[i] = "waiting" /\ ~(i <= 0)
    BY DEF Batcher!Init, BatchAssumption
<1>3. batching.size \in Nat
    BY DEF Batcher!Init, BatchAssumption
<1>4. Batcher!TasksInv
    BY <1>1, <1>2, <1>3 DEF Batcher!TasksInv
<1>5. Busy = {}
    BY <1>2 DEF Busy
<1>6. Cardinality(Busy) <= MaxConcurrency
    BY <1>5, FS_EmptySet DEF BatchAssumption
<1> QED BY <1>1, <1>4, <1>6, Accounted

LEMMA BatchFacts ==
    ASSUME BatchAssumption, Batcher!BatchInv
    PROVE  /\ Cardinality(Busy) <= MaxConcurrency
           /\ batching.size \in Nat /\ batching.offset \in Nat /\ batching.size <= MaxRequests
           /\ Batcher!CurrentBatch \subseteq 1..MaxRequests
           /\ \A i \in Batcher!CurrentBatch : i \in Nat /\ batching.offset < i
           /\ embedding \in [1..MaxRequests -> Batcher!TaskStates]
<1>1. {i \in DOMAIN embedding : embedding[i] \in {"calling", "stopping"}} = Busy
    BY DEF Batcher!BatchInv, Batcher!BatchType, Busy
<1>2. Cardinality(Busy) <= MaxConcurrency
    BY <1>1, BatchCardinality DEF Batcher!BatchInv, Batcher!BatchAccounted
<1>3. batching.size \in Nat /\ batching.offset \in Nat /\ batching.size <= MaxRequests
    BY DEF Batcher!BatchInv, Batcher!BatchType, BatchAssumption
<1>4. \A i \in Batcher!CurrentBatch : i \in 1..MaxRequests /\ i \in Nat /\ batching.offset < i
    BY <1>3 DEF Batcher!CurrentBatch, BatchAssumption
<1> QED BY <1>2, <1>3, <1>4 DEF Batcher!BatchInv, Batcher!BatchType

(* A task of the current batch changes its state. *)
LEMMA TaskMoves ==
    ASSUME BatchAssumption, Batcher!BatchInv, NEW i \in Batcher!CurrentBatch, NEW state \in Batcher!TaskStates,
           embedding' = [embedding EXCEPT ![i] = state], UNCHANGED batching,
           embedding[i] \in {"waiting", "calling", "stopping"}, state # "waiting",
           batching.state = "running" => state \in {"calling", "done", "failed"},
           batching.state # "running" => state \in {"done", "failed", "cancelled"},
           Cardinality(Busy') <= MaxConcurrency
    PROVE  Batcher!BatchInv'
<1>1. /\ i \in 1..MaxRequests /\ i \in Nat /\ batching.offset < i /\ batching.offset \in Nat
      /\ \A j \in 1..MaxRequests : embedding'[j] = IF j = i THEN state ELSE embedding[j]
    BY BatchFacts
<1>2. Batcher!BatchType'
    BY <1>1 DEF Batcher!BatchInv, Batcher!BatchType
<1>3. Batcher!CurrentBatch' = Batcher!CurrentBatch /\ ~(i <= batching.offset)
    BY <1>1 DEF Batcher!CurrentBatch
<1>4. \A j \in Batcher!CurrentBatch : j \in 1..MaxRequests
    BY BatchFacts
<1>5. batching.error # 0 => batching.error \in 1..MaxRequests
    BY DEF Batcher!BatchInv, Batcher!BatchType, BatchAssumption
<1>6. Batcher!TasksInv'
    BY <1>1, <1>3, <1>4, <1>5 DEF Batcher!BatchInv, Batcher!TasksInv
<1>7. batching.state # "raised"
  <2>1. batching.state = "raised" => i \notin Batcher!Are({"waiting", "calling", "stopping"})
      BY DEF Batcher!BatchInv, Batcher!BatchAccounted
  <2> QED BY <2>1 DEF Batcher!Are
<1>8. batching'.state = "returned" => batching'.offset = batching'.size
    BY DEF Batcher!BatchInv, Batcher!BatchAccounted
<1>9. batching'.state = "raised" => /\ \A j \in Batcher!CurrentBatch' : embedding'[j] # "stopping"
                                    /\ batching'.error # 0 => embedding'[batching'.error] = "failed"
    BY <1>7
<1> HIDE DEF Busy
<1> QED BY <1>2, <1>6, <1>8, <1>9, AccountedNext

(* The next call goes to the first task that waits. *)
LEMMA ProviderCalled == BatchAssumption /\ Batcher!BatchInv /\ Batcher!CallProvider => Batcher!BatchInv'
<1> SUFFICES ASSUME BatchAssumption, Batcher!BatchInv, Batcher!CallProvider PROVE Batcher!BatchInv'
    OBVIOUS
<1>1. /\ batching.state = "running" /\ Batcher!Are({"waiting"}) # {}
      /\ Cardinality(Batcher!Are({"calling"})) < MaxConcurrency
      /\ embedding' = [embedding EXCEPT ![Batcher!Least(Batcher!Are({"waiting"}))] = "calling"]
      /\ UNCHANGED batching
    BY BatchCardinality DEF Batcher!CallProvider
<1>2. Batcher!Are({"waiting"}) \in SUBSET Nat
    BY BatchFacts DEF Batcher!Are
<1>3. PICK i \in Batcher!Are({"waiting"}) : i = Batcher!Least(Batcher!Are({"waiting"}))
    BY <1>1, <1>2, LeastExists DEF Batcher!Least
<1>4. i \in Batcher!CurrentBatch /\ embedding[i] = "waiting" /\ i \in 1..MaxRequests
    BY BatchFacts DEF Batcher!Are
<1>5. embedding' = [embedding EXCEPT ![i] = "calling"]
    BY <1>1, <1>3
<1>6. \A j \in 1..MaxRequests : embedding'[j] = IF j = i THEN "calling" ELSE embedding[j]
    BY <1>5, BatchFacts
<1>7. Busy = Batcher!Are({"calling"})
  <2>1. ASSUME NEW j \in Busy PROVE j \in Batcher!Are({"calling"})
    <3>1. j \in 1..MaxRequests /\ embedding[j] = "calling"
        BY <1>1 DEF Busy, Batcher!BatchInv, Batcher!TasksInv
    <3>2. j \in Batcher!CurrentBatch
        BY <3>1 DEF Batcher!BatchInv, Batcher!TasksInv
    <3> QED BY <3>1, <3>2 DEF Batcher!Are
  <2>2. ASSUME NEW j \in Batcher!Are({"calling"}) PROVE j \in Busy
      BY BatchFacts DEF Busy, Batcher!Are
  <2> QED BY <2>1, <2>2
<1>8. Busy' = Busy \cup {i} /\ i \notin Busy
    BY <1>4, <1>6 DEF Busy
<1> HIDE DEF Busy
<1>9. Cardinality(Busy') = Cardinality(Busy) + 1 /\ Cardinality(Busy) \in Nat
    BY <1>8, BusyIsFinite, FS_AddElement
<1>10. Cardinality(Busy') <= MaxConcurrency
    BY <1>1, <1>7, <1>9 DEF BatchAssumption
<1>11. "calling" \in Batcher!TaskStates
    BY DEF Batcher!TaskStates
<1> QED BY <1>1, <1>4, <1>5, <1>10, <1>11, TaskMoves

(* A call ends: the provider has no more of them than before. *)
LEMMA TaskEnds ==
    ASSUME BatchAssumption, Batcher!BatchInv, NEW i \in 1..MaxRequests, Batcher!Answered(i) \/ Batcher!Stopped(i)
    PROVE  Batcher!BatchInv'
<1>1. PICK state \in {"done", "failed", "cancelled"} :
        /\ embedding' = [embedding EXCEPT ![i] = state] /\ UNCHANGED batching
        /\ i \in Batcher!CurrentBatch /\ embedding[i] \in {"calling", "stopping"}
        /\ embedding[i] = "calling" => state # "cancelled"
    BY DEF Batcher!Answered, Batcher!Stopped, Batcher!Are
<1>2. batching.state = "running" => state # "cancelled"
    BY <1>1 DEF Batcher!BatchInv, Batcher!TasksInv
<1>3. \A j \in 1..MaxRequests : embedding'[j] = IF j = i THEN state ELSE embedding[j]
    BY <1>1, BatchFacts
<1>4. Busy' \subseteq Busy
    BY <1>3 DEF Busy
<1>5. Cardinality(Busy') <= MaxConcurrency
  <2>1. Cardinality(Busy) <= MaxConcurrency /\ MaxConcurrency \in Nat
      BY BatchFacts DEF BatchAssumption
  <2> HIDE DEF Busy
  <2> QED BY <1>4, <2>1, BusyIsFinite
<1>6. state \in Batcher!TaskStates
    BY DEF Batcher!TaskStates
<1> QED BY <1>1, <1>2, <1>5, <1>6, TaskMoves

(* The calls of a batch have all returned. *)
LEMMA BatchEnds == BatchAssumption /\ Batcher!BatchInv /\ Batcher!BatchDone => Batcher!BatchInv'
<1> SUFFICES ASSUME BatchAssumption, Batcher!BatchInv, Batcher!BatchDone PROVE Batcher!BatchInv'
    OBVIOUS
<1> DEFINE batch == Batcher!CurrentBatch
           end == batching.offset + Cardinality(batch)
<1>1. PICK size \in Nat, offset \in Nat :
        /\ size = batching.size /\ offset = batching.offset /\ offset <= size /\ size <= MaxRequests
    BY BatchFacts DEF Batcher!BatchInv, Batcher!TasksInv
<1>2. MaxBatchSize \in Nat \ {0} /\ MaxRequests \in Nat
    BY DEF BatchAssumption
<1>3. PICK last \in Nat :
        /\ last = (IF size <= offset + MaxBatchSize THEN size ELSE offset + MaxBatchSize)
        /\ offset <= last /\ last <= size
    BY <1>1, <1>2
<1>4. batch = (offset + 1)..last
    BY <1>1, <1>2, <1>3 DEF Batcher!CurrentBatch
<1>5. Cardinality(batch) = last - offset
  <2>1. offset + 1 > last => last = offset
      BY <1>3
  <2>2. Cardinality((offset + 1)..last) = IF offset + 1 > last THEN 0 ELSE last - (offset + 1) + 1
      BY FS_Interval
  <2> QED BY <1>3, <1>4, <2>1, <2>2
<1>6. end = last
    BY <1>1, <1>3, <1>5
<1>7. /\ batching' = IF end = batching.size THEN [batching EXCEPT !.state = "returned", !.offset = end]
                                            ELSE [batching EXCEPT !.offset = end]
      /\ UNCHANGED embedding /\ batching.state = "running" /\ Batcher!Are({"done"}) = batch
    BY BatchCardinality DEF Batcher!BatchDone
<1> HIDE DEF batch, end
<1>8. /\ batching'.size = size /\ batching'.offset = last
      /\ batching'.state = IF last = size THEN "returned" ELSE "running"
      /\ Batcher!BatchType'
  <2>1. batching \in [state : {"running", "returned", "cancelling", "raised"}, size : 0..MaxRequests,
                      offset : 0..MaxRequests, error : 0..MaxRequests]
      BY DEF Batcher!BatchInv, Batcher!BatchType
  <2>2. last \in 0..MaxRequests
      BY <1>1, <1>2, <1>3
  <2> QED BY <1>1, <1>6, <1>7, <2>1, <2>2 DEF Batcher!BatchInv, Batcher!BatchType
<1>9. \A i \in 1..MaxRequests : i <= last => embedding[i] = "done"
  <2> SUFFICES ASSUME NEW i \in 1..MaxRequests, i <= last PROVE embedding[i] = "done"
      OBVIOUS
  <2>1. CASE i <= offset
      BY <1>1, <2>1 DEF Batcher!BatchInv, Batcher!TasksInv
  <2>2. CASE ~(i <= offset)
    <3>1. i \in batch
        BY <1>1, <1>2, <1>3, <1>4, <2>2
    <3> QED BY <1>7, <3>1 DEF Batcher!Are
  <2> QED BY <2>1, <2>2
<1>10. \A i \in 1..MaxRequests : embedding[i] # "waiting" => i <= last
    BY <1>1, <1>2, <1>3, <1>4 DEF Batcher!BatchInv, Batcher!TasksInv, batch
<1>11. last = size => Batcher!CurrentBatch' = {}
    BY <1>1, <1>8 DEF Batcher!CurrentBatch
<1>12. Batcher!TasksInv'
    BY <1>1, <1>2, <1>3, <1>7, <1>8, <1>9, <1>10, <1>11 DEF Batcher!BatchInv, Batcher!TasksInv
<1>13. Busy' = Busy
    BY <1>7 DEF Busy
<1>14. Cardinality(Busy') <= MaxConcurrency
    BY <1>13, BatchFacts
<1>15. batching'.state # "raised" /\ (batching'.state = "returned" => batching'.offset = batching'.size)
    BY <1>8
<1> QED BY <1>8, <1>12, <1>14, <1>15, AccountedNext

(* A batch is cancelled. *)
LEMMA BatchCancelled ==
    ASSUME BatchAssumption, Batcher!BatchInv, batching.state = "running", NEW error \in 0..MaxRequests,
           error # 0 => error \in Batcher!CurrentBatch /\ embedding[error] = "failed",
           Batcher!CancelTasks(error)
    PROVE  Batcher!BatchInv'
<1>1. /\ batching' = [batching EXCEPT !.state = "cancelling", !.error = error]
      /\ \A i \in 1..MaxRequests :
            embedding'[i] = CASE i \in Batcher!Are({"waiting"}) -> "cancelled"
                              [] i \in Batcher!Are({"calling"}) -> "stopping"
                              [] OTHER -> embedding[i]
      /\ DOMAIN embedding' = 1..MaxRequests /\ embedding' = [i \in 1..MaxRequests |-> embedding'[i]]
    BY BatchFacts DEF Batcher!CancelTasks
<1>2. \A i \in 1..MaxRequests :
        /\ i \in Batcher!CurrentBatch /\ embedding[i] = "waiting" => embedding'[i] = "cancelled"
        /\ i \in Batcher!CurrentBatch /\ embedding[i] = "calling" => embedding'[i] = "stopping"
        /\ i \notin Batcher!CurrentBatch \/ embedding[i] \notin {"waiting", "calling"} => embedding'[i] = embedding[i]
    BY <1>1 DEF Batcher!Are
<1>3. \A i \in 1..MaxRequests : embedding[i] \in Batcher!TaskStates /\ embedding'[i] \in Batcher!TaskStates
    BY <1>2, BatchFacts DEF Batcher!TaskStates
<1>4. /\ batching'.state = "cancelling" /\ batching'.error = error
      /\ batching'.size = batching.size /\ batching'.offset = batching.offset
      /\ Batcher!BatchType'
    BY <1>1, <1>3 DEF Batcher!BatchInv, Batcher!BatchType
<1>5. Batcher!CurrentBatch' = Batcher!CurrentBatch
    BY <1>4 DEF Batcher!CurrentBatch
<1>6. error # 0 => embedding'[error] = "failed"
    BY <1>2, BatchFacts
<1>7. Batcher!TasksInv'
  <2>1. \A i \in Batcher!CurrentBatch : i \in 1..MaxRequests /\ embedding'[i] \notin {"waiting", "calling"}
      BY <1>2, BatchFacts
  <2>2. \A i \in 1..MaxRequests :
         /\ i <= batching.offset => embedding'[i] = "done"
         /\ embedding'[i] # "waiting" => i <= batching.offset \/ i \in Batcher!CurrentBatch
      BY <1>2 DEF Batcher!BatchInv, Batcher!TasksInv
  <2>3. batching.offset <= batching.size
      BY DEF Batcher!BatchInv, Batcher!TasksInv
  <2> QED BY <1>4, <1>5, <1>6, <2>1, <2>2, <2>3 DEF Batcher!TasksInv
<1>8. Busy' \subseteq Busy
    BY <1>2 DEF Busy
<1>9. Cardinality(Busy') <= MaxConcurrency
  <2>1. Cardinality(Busy) <= MaxConcurrency /\ MaxConcurrency \in Nat
      BY BatchFacts DEF BatchAssumption
  <2> HIDE DEF Busy
  <2> QED BY <1>8, <2>1, BusyIsFinite
<1> QED BY <1>4, <1>7, <1>9, AccountedNext

(* embed's own steps while it is cancelling. *)
LEMMA BatchRaises ==
    ASSUME BatchAssumption, Batcher!BatchInv, batching.state = "cancelling", UNCHANGED embedding,
           \/ batching' = [batching EXCEPT !.error = 0]
           \/ batching' = [batching EXCEPT !.state = "raised"] /\ Batcher!Are({"stopping"}) = {}
    PROVE  Batcher!BatchInv'
<1>1. /\ Batcher!BatchType' /\ batching'.size = batching.size /\ batching'.offset = batching.offset
      /\ batching'.state \in {"cancelling", "raised"} /\ batching'.error \in {0, batching.error}
      /\ batching'.state = "raised" => Batcher!Are({"stopping"}) = {}
  <2>1. /\ batching \in [state : {"running", "returned", "cancelling", "raised"}, size : 0..MaxRequests,
                         offset : 0..MaxRequests, error : 0..MaxRequests]
        /\ embedding \in [1..MaxRequests -> Batcher!TaskStates]
      BY DEF Batcher!BatchInv, Batcher!BatchType
  <2>2. 0 \in 0..MaxRequests
      BY DEF BatchAssumption
  <2>3. /\ batching' \in [state : {"running", "returned", "cancelling", "raised"}, size : 0..MaxRequests,
                          offset : 0..MaxRequests, error : 0..MaxRequests]
        /\ batching'.size = batching.size /\ batching'.offset = batching.offset
        /\ batching'.state \in {"cancelling", "raised"} /\ batching'.error \in {0, batching.error}
        /\ batching'.state = "raised" => Batcher!Are({"stopping"}) = {}
      BY <2>1, <2>2
  <2> QED BY <2>1, <2>3 DEF Batcher!BatchType
<1>2. Batcher!CurrentBatch' = Batcher!CurrentBatch
    BY <1>1 DEF Batcher!CurrentBatch
<1>3. Batcher!TasksInv'
    BY <1>1, <1>2 DEF Batcher!BatchInv, Batcher!TasksInv
<1>4. Busy' = Busy
    BY DEF Busy
<1>5. Cardinality(Busy') <= MaxConcurrency
    BY <1>4, BatchFacts
<1>6. batching'.state = "raised" => \A i \in Batcher!CurrentBatch : embedding[i] # "stopping"
    BY <1>1 DEF Batcher!Are
<1>7. batching'.error # 0 => embedding[batching'.error] = "failed"
    BY <1>1 DEF Batcher!BatchInv, Batcher!TasksInv
<1> QED BY <1>1, <1>2, <1>3, <1>5, <1>6, <1>7, AccountedNext

LEMMA BatchStep == BatchAssumption /\ Batcher!BatchInv /\ [Batcher!Next]_<<batching, embedding>> => Batcher!BatchInv'
<1> SUFFICES ASSUME BatchAssumption, Batcher!BatchInv, [Batcher!Next]_<<batching, embedding>>
             PROVE  Batcher!BatchInv'
    OBVIOUS
<1>1. CASE \E i \in 1..MaxRequests : Batcher!Answered(i) \/ Batcher!Stopped(i)
    BY <1>1, TaskEnds
<1>2. CASE Batcher!CallProvider
    BY <1>2, ProviderCalled
<1>3. CASE Batcher!BatchDone
    BY <1>3, BatchEnds
<1>4. CASE Batcher!BatchFails
  <2>1. /\ batching.state = "running" /\ Batcher!Are({"failed"}) # {}
        /\ Batcher!CancelTasks(Batcher!Least(Batcher!Are({"failed"})))
      BY <1>4 DEF Batcher!BatchFails
  <2>2. Batcher!Are({"failed"}) \in SUBSET Nat
      BY BatchFacts DEF Batcher!Are
  <2>3. PICK i \in Batcher!Are({"failed"}) : i = Batcher!Least(Batcher!Are({"failed"}))
      BY <2>1, <2>2, LeastExists DEF Batcher!Least
  <2>4. i \in Batcher!CurrentBatch /\ embedding[i] = "failed" /\ i \in 0..MaxRequests
      BY BatchFacts DEF Batcher!Are, BatchAssumption
  <2>5. Batcher!CancelTasks(i)
      BY <2>1, <2>3
  <2> QED BY <2>1, <2>4, <2>5, BatchCancelled
<1>5. CASE Batcher!CancelEmbed
  <2>1. CASE batching.state = "running" /\ Batcher!CancelTasks(0)
    <3>1. 0 \in 0..MaxRequests
        BY DEF BatchAssumption
    <3> QED BY <2>1, <3>1, BatchCancelled
  <2>2. CASE batching.state = "cancelling" /\ batching' = [batching EXCEPT !.error = 0] /\ UNCHANGED embedding
      BY <2>2, BatchRaises
  <2> QED BY <1>5, <2>1, <2>2 DEF Batcher!CancelEmbed
<1>6. CASE Batcher!Raise
    BY <1>6, BatchRaises DEF Batcher!Raise
<1>7. CASE UNCHANGED <<batching, embedding>>
    BY <1>7, BatchFacts DEF Batcher!BatchInv, Batcher!BatchType, Batcher!TasksInv, Batcher!BatchAccounted,
       Batcher!CurrentBatch, Batcher!Are
<1> QED BY <1>1, <1>2, <1>3, <1>4, <1>5, <1>6, <1>7 DEF Batcher!Next

(* Whatever the provider does and whenever the caller is cancelled: all    *)
(* results or none, no task left that could still call, and never more     *)
(* calls than the provider was promised.                                   *)
THEOREM BatchesAreAccounted == Batcher!Spec => []BatchAccounted
<1>1. BatchAssumption
    BY BatchAssumption
<1>2. Batcher!BatchInv => BatchAccounted
    BY DEF Batcher!BatchInv, BatchAccounted
<1> QED BY <1>1, <1>2, BatchInit, BatchStep, PTL DEF Batcher!Spec

-----------------------------------------------------------------------------
(* The workflow. *)

LEMMA WorkflowCardinality == \A S : Workflow!Cardinality(S) = Cardinality(S)
    BY DEF Workflow!Cardinality, Cardinality

LEMMA EmptyData ==
    ASSUME WorkflowAssumption
    PROVE  /\ Workflow!Empty \in Workflow!Data /\ Workflow!Empty.trace = 0
           /\ Workflow!Present(Workflow!Empty, 0) /\ Workflow!Sourced(Workflow!Empty)
<1>1. Workflow!Empty \in Workflow!Data /\ Workflow!Empty.trace = 0
  <2>1. NoData \in Workflow!Field /\ 0 \in 0..9
      BY DEF Workflow!Field
  <2> QED BY <2>1 DEF Workflow!Empty, Workflow!Data
<1>2. /\ Workflow!Empty.candidates = NoData /\ Workflow!Empty.groups = NoData
      /\ Workflow!Empty.sources = NoData /\ Workflow!Empty.context = NoData /\ Workflow!Empty.answer = NoData
    BY DEF Workflow!Empty
<1>3. Workflow!Present(Workflow!Empty, 0)
    BY <1>2 DEF Workflow!Present
<1>4. Workflow!Sourced(Workflow!Empty)
    BY <1>2 DEF Workflow!Sourced, Workflow!Cited
<1> QED BY <1>1, <1>3, <1>4

(* What a step of the process keeps, if the stage it reaches is sound. *)
LEMMA ProcessMoves ==
    ASSUME WorkflowAssumption, Workflow!WorkflowInv, Workflow!External, Workflow!WorkflowType',
           stage'.at = "working" =>
             /\ stage'.update.trace > 0 /\ Workflow!Present(stage'.update, stage'.update.trace - 1)
             /\ Workflow!Sourced(stage'.update),
           stage'.at \in {"done", "saving"} =>
             Workflow!Present(stage'.update, stage'.update.trace) /\ Workflow!Sourced(stage'.update),
           stage'.at \notin {"none", "failed"} => stage'.provider = thread.provider,
           stage'.at = "saving" => access.granted
    PROVE  Workflow!WorkflowInv'
<1>1. UNCHANGED <<thread, citable, access, resumes>>
    BY DEF Workflow!External
<1>2. Workflow!Sourced(thread.data)'
    BY <1>1 DEF Workflow!WorkflowInv, Workflow!Sourced, Workflow!Cited
<1>3. Workflow!Cited(thread.data)'
    BY <1>2 DEF Workflow!Sourced, Workflow!Cited
<1>4. Workflow!Sourced(stage'.update) => Workflow!Sourced(stage.update)'
    BY <1>1 DEF Workflow!Sourced, Workflow!Cited
<1>5. \A n : Workflow!Present(stage'.update, n) => Workflow!Present(stage.update, n)'
    BY DEF Workflow!Present
<1>6. Workflow!StageInv'
    BY <1>1, <1>4, <1>5 DEF Workflow!StageInv, Workflow!Present
<1>7. Workflow!AccessInv'
    BY <1>1 DEF Workflow!WorkflowInv, Workflow!AccessInv
<1>8. Workflow!WorkflowGrounded'
    BY <1>1, <1>3 DEF Workflow!WorkflowInv, Workflow!WorkflowGrounded, Workflow!Present
<1> QED BY <1>2, <1>6, <1>7, <1>8 DEF Workflow!WorkflowInv

(* The stage's type, apart from what it read. *)
StagesOf == [at : {"none", "between", "working", "done", "saving", "releasing", "released", "failed"},
             provider : Workflow!Configured, update : Workflow!Data, calls : Nat]

LEMMA StageType ==
    ASSUME WorkflowAssumption
    PROVE  /\ Workflow!WorkflowType => stage \in StagesOf
           /\ Workflow!Idle \in StagesOf /\ Workflow!Idle.at = "none"
           /\ Workflow!WorkflowType /\ Workflow!External /\ stage' \in StagesOf => Workflow!WorkflowType'
    BY EmptyData DEF Workflow!WorkflowType, Workflow!External, StagesOf, Workflow!Idle, Workflow!Configured

LEMMA ProcessRaises ==
    ASSUME WorkflowAssumption, Workflow!WorkflowInv, Workflow!External, Workflow!Raise
    PROVE  Workflow!WorkflowInv'
<1>1. stage' \in StagesOf /\ stage'.at = "failed"
    BY StageType DEF Workflow!Raise, StagesOf
<1>2. Workflow!WorkflowType'
    BY <1>1, StageType DEF Workflow!WorkflowInv
<1> QED BY <1>1, <1>2, ProcessMoves

(* A stage has done its work. *)
LEMMA WorkDone ==
    ASSUME WorkflowAssumption, Workflow!WorkflowInv, Workflow!External, NEW update \in Workflow!Data,
           stage.at = "working", Workflow!Done(update), Workflow!Present(update, update.trace),
           Workflow!Sourced(update)
    PROVE  Workflow!WorkflowInv'
<1>1. stage \in StagesOf
    BY StageType DEF Workflow!WorkflowInv
<1>2. /\ stage' \in StagesOf /\ stage'.at = "done" /\ stage'.update = update /\ stage'.provider = stage.provider
    BY <1>1 DEF Workflow!Done, StagesOf
<1>3. stage.provider = thread.provider
    BY DEF Workflow!WorkflowInv, Workflow!StageInv
<1>4. Workflow!WorkflowType'
    BY <1>2, StageType DEF Workflow!WorkflowInv
<1> QED BY <1>2, <1>3, <1>4, ProcessMoves

(* The process goes on with the update it has. *)
LEMMA ProcessGoesOn ==
    ASSUME WorkflowAssumption, Workflow!WorkflowInv, Workflow!External,
           stage' \in StagesOf, stage'.update = stage.update, stage'.provider = stage.provider,
           \/ stage'.at = "working" /\ stage.at = "working"
           \/ stage'.at = "saving" /\ stage.at = "done" /\ access.granted
           \/ stage'.at \in {"releasing", "released"} /\ stage.at \notin {"none", "failed"}
    PROVE  Workflow!WorkflowInv'
<1>1. Workflow!WorkflowType'
    BY StageType DEF Workflow!WorkflowInv
<1> QED BY <1>1, ProcessMoves DEF Workflow!WorkflowInv, Workflow!StageInv

LEMMA WorkflowInit == WorkflowAssumption /\ Workflow!Init => Workflow!WorkflowInv
<1> SUFFICES ASSUME WorkflowAssumption, Workflow!Init PROVE Workflow!WorkflowInv
    OBVIOUS
<1>1. /\ thread = [saved |-> FALSE, provider |-> NoData, data |-> Workflow!Empty] /\ stage = Workflow!Idle
      /\ citable \in SUBSET Passages /\ access = [granted |-> TRUE, savedSince |-> 0]
    BY DEF Workflow!Init
<1>2. thread \in [saved : BOOLEAN, provider : Workflow!Configured, data : Workflow!Data]
    BY <1>1, EmptyData DEF Workflow!Configured
<1>3. access \in [granted : BOOLEAN, savedSince : Nat] /\ access.savedSince = 0
    BY <1>1
<1>4. stage \in StagesOf /\ stage.at = "none"
    BY <1>1, StageType
<1>5. Workflow!WorkflowType
    BY <1>1, <1>2, <1>3, <1>4 DEF Workflow!WorkflowType, StagesOf
<1>6. thread.data = Workflow!Empty
    BY <1>1
<1>7. Workflow!Present(thread.data, thread.data.trace) /\ Workflow!Sourced(thread.data)
    BY <1>6, EmptyData
<1> QED BY <1>3, <1>4, <1>5, <1>7
    DEF Workflow!WorkflowInv, Workflow!StageInv, Workflow!AccessInv, Workflow!WorkflowGrounded, Workflow!Sourced

(* A run begins, or its checkpoint is taken up. *)
LEMMA WorkflowStarts ==
    ASSUME WorkflowAssumption, Workflow!WorkflowInv, NEW provider \in Providers, Workflow!Start(provider)
    PROVE  Workflow!WorkflowInv'
<1>1. /\ thread' = [saved |-> TRUE, provider |-> provider, data |-> Workflow!Empty]
      /\ stage' = [Workflow!Idle EXCEPT !.at = "between", !.provider = provider]
      /\ UNCHANGED <<citable, access, resumes>>
    BY DEF Workflow!Start
<1>2. PICK idle \in StagesOf : idle = Workflow!Idle
    BY StageType
<1>3. stage' = [idle EXCEPT !.at = "between", !.provider = provider]
    BY <1>1, <1>2
<1>4. stage' \in StagesOf /\ stage'.at = "between" /\ stage'.provider = provider
    BY <1>3 DEF StagesOf, Workflow!Configured
<1>5. /\ thread' \in [saved : BOOLEAN, provider : Workflow!Configured, data : Workflow!Data]
      /\ thread'.data = Workflow!Empty /\ thread'.provider = provider
    BY <1>1, EmptyData DEF Workflow!Configured
<1>6. Workflow!WorkflowType'
    BY <1>1, <1>4, <1>5 DEF Workflow!WorkflowInv, Workflow!WorkflowType, StagesOf
<1>7. /\ Workflow!Empty.candidates = NoData /\ Workflow!Empty.groups = NoData /\ Workflow!Empty.trace = 0
      /\ Workflow!Empty.sources = NoData /\ Workflow!Empty.context = NoData /\ Workflow!Empty.answer = NoData
    BY DEF Workflow!Empty
<1>8. Workflow!Sourced(thread.data)' /\ Workflow!Cited(thread.data)'
    BY <1>5, <1>7 DEF Workflow!Sourced, Workflow!Cited
<1>9. Workflow!Present(thread.data, thread.data.trace)'
    BY <1>5, <1>7 DEF Workflow!Present
<1>10. Workflow!StageInv'
    BY <1>4, <1>5 DEF Workflow!StageInv
<1>11. Workflow!AccessInv' /\ (access.savedSince <= 1)'
    BY <1>1, <1>4 DEF Workflow!WorkflowInv, Workflow!AccessInv, Workflow!WorkflowGrounded
<1>12. Workflow!WorkflowGrounded'
    BY <1>4, <1>5, <1>8, <1>9, <1>11 DEF Workflow!WorkflowGrounded
<1> QED BY <1>6, <1>8, <1>10, <1>11, <1>12 DEF Workflow!WorkflowInv

LEMMA WorkflowResumes ==
    ASSUME WorkflowAssumption, Workflow!WorkflowInv, NEW provider \in Providers, Workflow!Resume(provider)
    PROVE  Workflow!WorkflowInv'
<1>1. /\ UNCHANGED <<thread, citable, access>>
      /\ IF Workflow!Guard(provider)
         THEN stage' = [Workflow!Idle EXCEPT !.at = "between", !.provider = provider]
         ELSE Workflow!Raise
    BY DEF Workflow!Resume
<1>2. PICK idle \in StagesOf : idle = Workflow!Idle
    BY StageType
<1>3. /\ stage' \in StagesOf /\ stage'.at \in {"between", "failed"}
      /\ stage'.at = "between" => stage'.provider = thread.provider
  <2>1. CASE Workflow!Guard(provider)
    <3>1. stage' = [idle EXCEPT !.at = "between", !.provider = provider] /\ provider = thread.provider
        BY <1>1, <1>2, <2>1 DEF Workflow!Guard
    <3> QED BY <3>1 DEF StagesOf, Workflow!Configured
  <2>2. CASE ~Workflow!Guard(provider)
    <3>1. stage' = [idle EXCEPT !.at = "failed"]
        BY <1>1, <1>2, <2>2 DEF Workflow!Raise
    <3> QED BY <3>1 DEF StagesOf
  <2> QED BY <2>1, <2>2
<1>4. Workflow!WorkflowType'
    BY <1>1, <1>3 DEF Workflow!WorkflowInv, Workflow!WorkflowType, StagesOf
<1>5. Workflow!Sourced(thread.data)' /\ Workflow!Cited(thread.data)'
    BY <1>1 DEF Workflow!WorkflowInv, Workflow!Sourced, Workflow!Cited
<1>6. Workflow!StageInv' /\ Workflow!AccessInv'
    BY <1>1, <1>3 DEF Workflow!WorkflowInv, Workflow!StageInv, Workflow!AccessInv
<1>7. Workflow!WorkflowGrounded'
    BY <1>1, <1>3, <1>5 DEF Workflow!WorkflowInv, Workflow!WorkflowGrounded, Workflow!Present
<1> QED BY <1>4, <1>5, <1>6, <1>7 DEF Workflow!WorkflowInv

(* A stage begins with the checkpoint's data. *)
LEMMA StageBegins == WorkflowAssumption /\ Workflow!WorkflowInv /\ Workflow!Begin => Workflow!WorkflowInv'
<1> SUFFICES ASSUME WorkflowAssumption, Workflow!WorkflowInv, Workflow!Begin PROVE Workflow!WorkflowInv'
    OBVIOUS
<1>1. Workflow!External
    BY DEF Workflow!Begin, Workflow!External
<1>2. CASE Workflow!Guard(stage.provider)
  <2> DEFINE update == [thread.data EXCEPT !.trace = @ + 1]
  <2>1. /\ stage' = [stage EXCEPT !.at = "working", !.update = update, !.calls = 0]
        /\ thread.data.trace < 9 /\ stage.provider = thread.provider
      BY <1>2 DEF Workflow!Begin, Workflow!Guard, Workflow!Stages
  <2>2. thread.data \in Workflow!Data
      BY DEF Workflow!WorkflowInv, Workflow!WorkflowType
  <2>3. PICK trace \in 0..9 : trace = thread.data.trace
      BY <2>2 DEF Workflow!Data
  <2>4. /\ update \in Workflow!Data /\ update.trace = trace + 1
        /\ update.candidates = thread.data.candidates /\ update.groups = thread.data.groups
        /\ update.sources = thread.data.sources /\ update.context = thread.data.context
        /\ update.answer = thread.data.answer
      BY <2>1, <2>2, <2>3 DEF Workflow!Data
  <2>5. Workflow!Present(update, trace)
      BY <2>3, <2>4 DEF Workflow!WorkflowInv, Workflow!WorkflowGrounded, Workflow!Present
  <2>6. Workflow!Sourced(update)
      BY <2>4 DEF Workflow!WorkflowInv, Workflow!Sourced, Workflow!Cited
  <2> HIDE DEF update
  <2>7. stage \in StagesOf
      BY StageType DEF Workflow!WorkflowInv
  <2>8. /\ stage' \in StagesOf /\ stage'.at = "working" /\ stage'.update = update
        /\ stage'.provider = thread.provider
      BY <2>1, <2>4, <2>7 DEF StagesOf
  <2>9. Workflow!WorkflowType'
      BY <1>1, <2>8, StageType DEF Workflow!WorkflowInv
  <2>10. stage'.update.trace > 0 /\ Workflow!Present(stage'.update, stage'.update.trace - 1)
    <3>1. trace + 1 > 0 /\ (trace + 1) - 1 = trace
        OBVIOUS
    <3> QED BY <2>4, <2>5, <2>8, <3>1
  <2> QED BY <1>1, <2>6, <2>8, <2>9, <2>10, ProcessMoves
<1>3. CASE ~Workflow!Guard(stage.provider)
    BY <1>1, <1>3, ProcessRaises DEF Workflow!Begin
<1> QED BY <1>2, <1>3

(* The stages by their number. *)
LEMMA StageAt ==
    ASSUME WorkflowAssumption, Workflow!WorkflowInv
    PROVE  /\ \A name : Workflow!At(name) =>
                /\ stage.at = "working" /\ Workflow!Sourced(stage.update)
                /\ Workflow!Present(stage.update, stage.update.trace - 1) /\ stage.update.trace \in 1..9
           /\ Workflow!At("authorize") => stage.update.trace = 1
           /\ Workflow!At("retrieve") => stage.update.trace = 2
           /\ Workflow!At("fuse") => stage.update.trace = 3
           /\ Workflow!At("resolve") => stage.update.trace = 4
           /\ Workflow!At("graph") => stage.update.trace = 5
           /\ Workflow!At("rerank") => stage.update.trace = 6
           /\ Workflow!At("context") => stage.update.trace = 7
           /\ Workflow!At("generate") => stage.update.trace = 8
           /\ Workflow!At("validate") => stage.update.trace = 9
<1>1. stage \in StagesOf
    BY StageType DEF Workflow!WorkflowInv
<1>2. PICK trace \in 0..9 : trace = stage.update.trace
    BY <1>1 DEF StagesOf, Workflow!Data
<1>3. stage.at = "working" =>
        trace \in 1..9 /\ Workflow!Present(stage.update, stage.update.trace - 1) /\ Workflow!Sourced(stage.update)
    BY <1>2 DEF Workflow!WorkflowInv, Workflow!StageInv
<1>4. \A name : Workflow!At(name) => stage.at = "working" /\ trace \in 1..9 /\ Workflow!Stages[trace] = name
    BY <1>2, <1>3 DEF Workflow!At
<1>5. \A n \in 1..9 :
        /\ Workflow!Stages[n] = "authorize" => n = 1
        /\ Workflow!Stages[n] = "retrieve" => n = 2
        /\ Workflow!Stages[n] = "fuse" => n = 3
        /\ Workflow!Stages[n] = "resolve" => n = 4
        /\ Workflow!Stages[n] = "graph" => n = 5
        /\ Workflow!Stages[n] = "rerank" => n = 6
        /\ Workflow!Stages[n] = "context" => n = 7
        /\ Workflow!Stages[n] = "generate" => n = 8
        /\ Workflow!Stages[n] = "validate" => n = 9
    BY DEF Workflow!Stages
<1> QED BY <1>2, <1>3, <1>4, <1>5

(* The fields of an update, and what the one before it has. *)
LEMMA UpdateFields ==
    ASSUME WorkflowAssumption, Workflow!WorkflowInv, stage.at = "working"
    PROVE  /\ stage.update \in Workflow!Data
           /\ stage.update.sources # NoData => stage.update.sources \subseteq citable
           /\ stage.update.context # NoData =>
                stage.update.context \subseteq citable /\ Cardinality(stage.update.context) <= MaxContext
           /\ stage.update.context # NoData /\ stage.update.answer # NoData =>
                stage.update.answer \subseteq stage.update.context
           /\ stage.update.answer # NoData => stage.update.answer \subseteq citable
           /\ citable \subseteq Passages
<1>1. stage \in StagesOf /\ citable \subseteq Passages
    BY StageType DEF Workflow!WorkflowInv, Workflow!WorkflowType
<1> QED BY <1>1, WorkflowCardinality DEF StagesOf, Workflow!WorkflowInv, Workflow!StageInv, Workflow!Sourced,
       Workflow!Cited

LEMMA StageAuthorizes == WorkflowAssumption /\ Workflow!WorkflowInv /\ Workflow!Authorize => Workflow!WorkflowInv'
<1> SUFFICES ASSUME WorkflowAssumption, Workflow!WorkflowInv, Workflow!Authorize PROVE Workflow!WorkflowInv'
    OBVIOUS
<1>1. Workflow!At("authorize") /\ Workflow!Done(stage.update) /\ Workflow!External
    BY DEF Workflow!Authorize
<1>2. /\ stage.at = "working" /\ stage.update.trace = 1 /\ Workflow!Sourced(stage.update)
      /\ Workflow!Present(stage.update, stage.update.trace - 1)
    BY <1>1, StageAt
<1>3. Workflow!Present(stage.update, stage.update.trace)
    BY <1>2 DEF Workflow!Present
<1> QED BY <1>1, <1>2, <1>3, UpdateFields, WorkDone

LEMMA StageRetrieves == WorkflowAssumption /\ Workflow!WorkflowInv /\ Workflow!Retrieve => Workflow!WorkflowInv'
<1> SUFFICES ASSUME WorkflowAssumption, Workflow!WorkflowInv, Workflow!Retrieve PROVE Workflow!WorkflowInv'
    OBVIOUS
<1>1. PICK found \in SUBSET Passages :
        /\ Workflow!At("retrieve") /\ Workflow!External
        /\ Workflow!Done([stage.update EXCEPT !.candidates = found])
    BY DEF Workflow!Retrieve
<1> DEFINE update == [stage.update EXCEPT !.candidates = found]
<1>2. /\ stage.at = "working" /\ stage.update.trace = 2 /\ Workflow!Sourced(stage.update)
      /\ Workflow!Present(stage.update, stage.update.trace - 1) /\ stage.update \in Workflow!Data
    BY <1>1, StageAt, UpdateFields
<1>3. found \in Workflow!Field /\ found # NoData
    BY DEF Workflow!Field, WorkflowAssumption
<1>4. /\ update \in Workflow!Data /\ update.candidates = found
      /\ update.groups = stage.update.groups /\ update.sources = stage.update.sources
      /\ update.context = stage.update.context /\ update.answer = stage.update.answer
      /\ update.trace = stage.update.trace
    BY <1>2, <1>3 DEF Workflow!Data
<1>5. Workflow!Present(update, update.trace)
    BY <1>2, <1>3, <1>4 DEF Workflow!Present
<1>6. Workflow!Sourced(update)
    BY <1>2, <1>4 DEF Workflow!Sourced, Workflow!Cited
<1> QED BY <1>1, <1>2, <1>4, <1>5, <1>6, WorkDone

LEMMA StageFuses == WorkflowAssumption /\ Workflow!WorkflowInv /\ Workflow!Fuse => Workflow!WorkflowInv'
<1> SUFFICES ASSUME WorkflowAssumption, Workflow!WorkflowInv, Workflow!Fuse PROVE Workflow!WorkflowInv'
    OBVIOUS
<1> DEFINE update == [stage.update EXCEPT !.groups = stage.update.candidates, !.candidates = NoData]
<1>1. Workflow!At("fuse") /\ Workflow!External /\ Workflow!Done(update)
    BY DEF Workflow!Fuse
<1>2. /\ stage.at = "working" /\ stage.update.trace = 3 /\ Workflow!Sourced(stage.update)
      /\ Workflow!Present(stage.update, stage.update.trace - 1) /\ stage.update \in Workflow!Data
    BY <1>1, StageAt, UpdateFields
<1>3. NoData \in Workflow!Field
    BY DEF Workflow!Field
<1>4. /\ update \in Workflow!Data /\ update.candidates = NoData
      /\ update.groups = stage.update.candidates /\ update.sources = stage.update.sources
      /\ update.context = stage.update.context /\ update.answer = stage.update.answer
      /\ update.trace = stage.update.trace
    BY <1>2, <1>3 DEF Workflow!Data
<1>5. Workflow!Present(update, update.trace)
    BY <1>2, <1>4 DEF Workflow!Present
<1>6. Workflow!Sourced(update)
    BY <1>2, <1>4 DEF Workflow!Sourced, Workflow!Cited
<1> QED BY <1>1, <1>2, <1>4, <1>5, <1>6, WorkDone

(* A passage becomes a source when its row is read: from then on it stays  *)
(* citable.                                                                *)
LEMMA SourcesChange ==
    ASSUME WorkflowAssumption, Workflow!WorkflowInv, Workflow!External, stage.at = "working",
           NEW update \in Workflow!Data, Workflow!Done(update),
           update.sources \in SUBSET citable, update.groups \in {NoData, stage.update.groups},
           update.candidates = stage.update.candidates, update.context = stage.update.context,
           update.answer = stage.update.answer, update.trace = stage.update.trace,
           Workflow!Present(stage.update, stage.update.trace - 1), stage.update.trace \in 4..6,
           stage.update.trace = 4 => update.groups = NoData
    PROVE  Workflow!WorkflowInv'
<1>1. PICK trace \in 4..6 : trace = stage.update.trace
    OBVIOUS
<1>2. update.sources # NoData
    BY UpdateFields DEF WorkflowAssumption
<1>3. Workflow!Present(update, update.trace)
    BY <1>1, <1>2 DEF Workflow!Present
<1>4. update.context = NoData /\ update.answer = NoData
    BY <1>1, <1>3 DEF Workflow!Present
<1>5. Workflow!Sourced(update)
    BY <1>4 DEF Workflow!Sourced, Workflow!Cited
<1> QED BY <1>3, <1>5, WorkDone

LEMMA StageResolves == WorkflowAssumption /\ Workflow!WorkflowInv /\ Workflow!Resolve => Workflow!WorkflowInv'
<1> SUFFICES ASSUME WorkflowAssumption, Workflow!WorkflowInv, Workflow!Resolve PROVE Workflow!WorkflowInv'
    OBVIOUS
<1>1. PICK sources \in SUBSET citable :
        /\ Workflow!At("resolve") /\ Workflow!External
        /\ Workflow!Done([stage.update EXCEPT !.sources = sources, !.groups = NoData])
    BY DEF Workflow!Resolve
<1> DEFINE update == [stage.update EXCEPT !.sources = sources, !.groups = NoData]
<1>2. /\ stage.at = "working" /\ stage.update.trace = 4 /\ stage.update \in Workflow!Data
      /\ Workflow!Present(stage.update, stage.update.trace - 1) /\ citable \subseteq Passages
    BY <1>1, StageAt, UpdateFields
<1>3. sources \in Workflow!Field /\ NoData \in Workflow!Field
    BY <1>2 DEF Workflow!Field
<1>4. /\ update \in Workflow!Data /\ update.candidates = stage.update.candidates
      /\ update.groups = NoData /\ update.sources = sources
      /\ update.context = stage.update.context /\ update.answer = stage.update.answer
      /\ update.trace = stage.update.trace
    BY <1>2, <1>3 DEF Workflow!Data
<1> HIDE DEF update
<1>5. stage.update.trace \in 4..6 /\ Workflow!Done(update)
    BY <1>1, <1>2 DEF update
<1> QED BY <1>1, <1>2, <1>4, <1>5, SourcesChange

(* The graph adds passages, the reranker leaves some out. *)
LEMMA StageRanks ==
    WorkflowAssumption /\ Workflow!WorkflowInv /\ (Workflow!Graph \/ Workflow!Rerank) => Workflow!WorkflowInv'
<1> SUFFICES ASSUME WorkflowAssumption, Workflow!WorkflowInv, Workflow!Graph \/ Workflow!Rerank
             PROVE  Workflow!WorkflowInv'
    OBVIOUS
<1>1. Workflow!At("graph") \/ Workflow!At("rerank")
    BY DEF Workflow!Graph, Workflow!Rerank
<1>2. PICK trace \in {5, 6} :
        /\ stage.at = "working" /\ stage.update.trace = trace /\ stage.update \in Workflow!Data
        /\ Workflow!Present(stage.update, stage.update.trace - 1) /\ citable \subseteq Passages
    BY <1>1, StageAt, UpdateFields
<1>3. stage.update.sources # NoData
    BY <1>2 DEF Workflow!Present
<1>4. stage.update.sources \in SUBSET citable
    BY <1>2, <1>3, UpdateFields
<1>5. PICK sources \in SUBSET citable :
        Workflow!External /\ Workflow!Done([stage.update EXCEPT !.sources = sources])
  <2>1. CASE Workflow!Graph
    <3>1. PICK neighbors \in SUBSET citable :
            Workflow!External /\ Workflow!Done([stage.update EXCEPT !.sources = @ \cup neighbors])
        BY <2>1 DEF Workflow!Graph
    <3> DEFINE sources == stage.update.sources \cup neighbors
    <3>2. sources \in SUBSET citable
        BY <1>4
    <3> QED BY <3>1, <3>2
  <2>2. CASE Workflow!Rerank
    <3>1. PICK sources \in {stage.update.sources} \cup Workflow!Some(MaxSources, stage.update.sources) :
            Workflow!External /\ Workflow!Done([stage.update EXCEPT !.sources = sources])
        BY <2>2 DEF Workflow!Rerank
    <3>2. sources \in SUBSET stage.update.sources
        BY DEF Workflow!Some
    <3> QED BY <1>4, <3>1, <3>2
  <2> QED BY <2>1, <2>2
<1> DEFINE update == [stage.update EXCEPT !.sources = sources]
<1>6. sources \in Workflow!Field
    BY <1>2 DEF Workflow!Field
<1>7. /\ update \in Workflow!Data /\ update.candidates = stage.update.candidates
      /\ update.groups = stage.update.groups /\ update.sources = sources
      /\ update.context = stage.update.context /\ update.answer = stage.update.answer
      /\ update.trace = stage.update.trace
    BY <1>2, <1>6 DEF Workflow!Data
<1> HIDE DEF update
<1>8. stage.update.trace \in 4..6 /\ stage.update.trace # 4 /\ Workflow!Done(update)
    BY <1>2, <1>5 DEF update
<1> QED BY <1>2, <1>5, <1>7, <1>8, SourcesChange

LEMMA StagePacks == WorkflowAssumption /\ Workflow!WorkflowInv /\ Workflow!PackContext => Workflow!WorkflowInv'
<1> SUFFICES ASSUME WorkflowAssumption, Workflow!WorkflowInv, Workflow!PackContext PROVE Workflow!WorkflowInv'
    OBVIOUS
<1>1. PICK packed \in SUBSET stage.update.sources :
        /\ Cardinality(packed) <= MaxContext /\ Workflow!At("context") /\ Workflow!External
        /\ Workflow!Done([stage.update EXCEPT !.context = packed, !.sources = NoData])
    BY WorkflowCardinality DEF Workflow!PackContext, Workflow!Some
<1> DEFINE update == [stage.update EXCEPT !.context = packed, !.sources = NoData]
<1>2. /\ stage.at = "working" /\ stage.update.trace = 7 /\ stage.update \in Workflow!Data
      /\ Workflow!Present(stage.update, stage.update.trace - 1) /\ citable \subseteq Passages
    BY <1>1, StageAt, UpdateFields
<1>3. stage.update.sources # NoData /\ stage.update.answer = NoData
    BY <1>2 DEF Workflow!Present
<1>4. packed \in SUBSET citable
    BY <1>2, <1>3, UpdateFields
<1>5. packed \in Workflow!Field /\ packed # NoData /\ NoData \in Workflow!Field
    BY <1>2, <1>4 DEF Workflow!Field, WorkflowAssumption
<1>6. /\ update \in Workflow!Data /\ update.candidates = stage.update.candidates
      /\ update.groups = stage.update.groups /\ update.sources = NoData
      /\ update.context = packed /\ update.answer = stage.update.answer
      /\ update.trace = stage.update.trace
    BY <1>2, <1>5 DEF Workflow!Data
<1> HIDE DEF update
<1>7. Workflow!Present(update, update.trace)
    BY <1>2, <1>5, <1>6 DEF Workflow!Present
<1>8. Workflow!Sourced(update)
    BY <1>1, <1>3, <1>4, <1>6, WorkflowCardinality DEF Workflow!Sourced, Workflow!Cited
<1>9. Workflow!Done(update)
    BY <1>1 DEF update
<1> QED BY <1>1, <1>2, <1>6, <1>7, <1>8, <1>9, WorkDone

(* Whatever the provider drafts: an answer cites its prompt, or there is   *)
(* none.                                                                   *)
LEMMA StageGenerates == WorkflowAssumption /\ Workflow!WorkflowInv /\ Workflow!Generate => Workflow!WorkflowInv'
<1> SUFFICES ASSUME WorkflowAssumption, Workflow!WorkflowInv, Workflow!Generate PROVE Workflow!WorkflowInv'
    OBVIOUS
<1>1. Workflow!At("generate") /\ Workflow!External
    BY DEF Workflow!Generate
<1>2. /\ stage.at = "working" /\ stage.update.trace = 8 /\ stage.update \in Workflow!Data
      /\ Workflow!Present(stage.update, stage.update.trace - 1) /\ citable \subseteq Passages
    BY <1>1, StageAt, UpdateFields
<1>3. /\ stage.update.context # NoData /\ stage.update.sources = NoData
      /\ stage.update.candidates = NoData /\ stage.update.groups = NoData
    BY <1>2 DEF Workflow!Present
<1>4. /\ stage.update.context \subseteq citable
      /\ Cardinality(stage.update.context) <= MaxContext
    BY <1>2, <1>3, UpdateFields
<1>5. CASE Workflow!Raise
    BY <1>1, <1>5, ProcessRaises
<1>6. ASSUME NEW draft \in SUBSET stage.update.context, Workflow!Done(Workflow!Grounded(draft))
      PROVE  Workflow!WorkflowInv'
  <2> DEFINE update == [stage.update EXCEPT !.answer = draft]
  <2>1. draft \in Workflow!Field /\ draft # NoData
      BY <1>2, <1>4 DEF Workflow!Field, WorkflowAssumption
  <2>2. /\ update \in Workflow!Data /\ update.candidates = stage.update.candidates
        /\ update.groups = stage.update.groups /\ update.sources = stage.update.sources
        /\ update.context = stage.update.context /\ update.answer = draft
        /\ update.trace = stage.update.trace
      BY <1>2, <2>1 DEF Workflow!Data
  <2> HIDE DEF update
  <2>3. Workflow!Present(update, update.trace)
      BY <1>2, <1>3, <2>1, <2>2 DEF Workflow!Present
  <2>4. Workflow!Sourced(update)
      BY <1>3, <1>4, <2>2, WorkflowCardinality DEF Workflow!Sourced, Workflow!Cited
  <2>5. Workflow!Done(update)
      BY <1>6 DEF update, Workflow!Grounded
  <2> QED BY <1>1, <1>2, <2>2, <2>3, <2>4, <2>5, WorkDone
<1>7. CASE ~Workflow!Raise
  <2>1. PICK draft : draft \subseteq stage.update.context /\ Workflow!Done(Workflow!Grounded(draft))
      BY <1>7 DEF Workflow!Generate, Workflow!ValidateDraft
  <2> QED BY <1>6, <2>1
<1> QED BY <1>5, <1>7

LEMMA StageValidates == WorkflowAssumption /\ Workflow!WorkflowInv /\ Workflow!Validate => Workflow!WorkflowInv'
<1> SUFFICES ASSUME WorkflowAssumption, Workflow!WorkflowInv, Workflow!Validate PROVE Workflow!WorkflowInv'
    OBVIOUS
<1> DEFINE update == [stage.update EXCEPT !.context = NoData]
<1>1. Workflow!At("validate") /\ Workflow!External /\ (Workflow!Done(update) \/ Workflow!Raise)
    BY DEF Workflow!Validate
<1>2. /\ stage.at = "working" /\ stage.update.trace = 9 /\ stage.update \in Workflow!Data
      /\ Workflow!Present(stage.update, stage.update.trace - 1) /\ Workflow!Sourced(stage.update)
    BY <1>1, StageAt, UpdateFields
<1>3. NoData \in Workflow!Field
    BY DEF Workflow!Field
<1>4. /\ update \in Workflow!Data /\ update.candidates = stage.update.candidates
      /\ update.groups = stage.update.groups /\ update.sources = stage.update.sources
      /\ update.context = NoData /\ update.answer = stage.update.answer
      /\ update.trace = stage.update.trace
    BY <1>2, <1>3 DEF Workflow!Data
<1> HIDE DEF update
<1>5. Workflow!Present(update, update.trace)
    BY <1>2, <1>4 DEF Workflow!Present
<1>6. Workflow!Sourced(update)
    BY <1>2, <1>4 DEF Workflow!Sourced, Workflow!Cited
<1> QED BY <1>1, <1>2, <1>4, <1>5, <1>6, WorkDone, ProcessRaises

(* The process between its stages, and its failures. *)
LEMMA ProcessSteps ==
    ASSUME WorkflowAssumption, Workflow!WorkflowInv,
           \/ Workflow!ProviderFails \/ Workflow!End \/ Workflow!Check \/ Workflow!Release \/ Workflow!Interrupt
    PROVE  Workflow!WorkflowInv'
<1>1. Workflow!External
    BY DEF Workflow!ProviderFails, Workflow!End, Workflow!Check, Workflow!Release, Workflow!Interrupt
<1>2. CASE Workflow!Raise
    BY <1>1, <1>2, ProcessRaises
<1>3. CASE ~Workflow!Raise
  <2>1. stage \in StagesOf
      BY StageType DEF Workflow!WorkflowInv
  <2>2. CASE Workflow!ProviderFails
    <3>1. stage' = [stage EXCEPT !.calls = @ + 1] /\ stage.at = "working"
        BY <1>3, <2>2 DEF Workflow!ProviderFails, Workflow!At
    <3>2. /\ stage' \in StagesOf /\ stage'.update = stage.update /\ stage'.provider = stage.provider
          /\ stage'.at = "working"
        BY <2>1, <3>1 DEF StagesOf
    <3> QED BY <1>1, <3>1, <3>2, ProcessGoesOn
  <2>3. CASE ~Workflow!ProviderFails
    <3>1. PICK at \in {"saving", "releasing", "released"} :
            /\ stage' = [stage EXCEPT !.at = at]
            /\ at = "saving" => stage.at = "done" /\ access.granted
            /\ at # "saving" => stage.at \in {"between", "releasing"}
        BY <1>3, <2>3 DEF Workflow!End, Workflow!Check, Workflow!Release, Workflow!Interrupt, Workflow!Guard
    <3>2. /\ stage' \in StagesOf /\ stage'.update = stage.update /\ stage'.provider = stage.provider
          /\ stage'.at = at
        BY <2>1, <3>1 DEF StagesOf
    <3> QED BY <1>1, <3>1, <3>2, ProcessGoesOn
  <2> QED BY <2>2, <2>3
<1> QED BY <1>2, <1>3

(* The checkpoint: access was checked after the stage's work. *)
LEMMA StageSaved == WorkflowAssumption /\ Workflow!WorkflowInv /\ Workflow!Save => Workflow!WorkflowInv'
<1> SUFFICES ASSUME WorkflowAssumption, Workflow!WorkflowInv, Workflow!Save PROVE Workflow!WorkflowInv'
    OBVIOUS
<1>1. /\ stage.at = "saving" /\ UNCHANGED <<citable, resumes>>
      /\ thread' = [thread EXCEPT !.data = stage.update]
      /\ stage' = [stage EXCEPT !.at = "between", !.update = Workflow!Empty, !.calls = 0]
      /\ access' = [access EXCEPT !.savedSince = IF access.granted THEN 0 ELSE @ + 1]
    BY DEF Workflow!Save
<1>2. /\ stage \in StagesOf /\ access \in [granted : BOOLEAN, savedSince : Nat]
      /\ thread \in [saved : BOOLEAN, provider : Workflow!Configured, data : Workflow!Data]
    BY StageType DEF Workflow!WorkflowInv, Workflow!WorkflowType
<1>3. /\ stage' \in StagesOf /\ stage'.at = "between" /\ stage'.provider = stage.provider
    BY <1>1, <1>2, EmptyData DEF StagesOf
<1>4. stage.update \in Workflow!Data
    BY <1>2 DEF StagesOf
<1>5. /\ thread' \in [saved : BOOLEAN, provider : Workflow!Configured, data : Workflow!Data]
      /\ thread'.data = stage.update /\ thread'.provider = thread.provider
    BY <1>1, <1>2, <1>4
<1>6. access.savedSince = 0
    BY <1>1 DEF Workflow!WorkflowInv, Workflow!AccessInv
<1>7. /\ access' \in [granted : BOOLEAN, savedSince : Nat] /\ access'.savedSince <= 1
      /\ access'.granted => access'.savedSince = 0
  <2>1. PICK since \in {0, 1} : access' = [access EXCEPT !.savedSince = since] /\ (access.granted => since = 0)
      BY <1>1, <1>6
  <2> QED BY <1>2, <2>1
<1>8. Workflow!WorkflowType'
    BY <1>1, <1>3, <1>5, <1>7 DEF Workflow!WorkflowInv, Workflow!WorkflowType, StagesOf
<1>9. Workflow!Present(stage.update, stage.update.trace) /\ Workflow!Sourced(stage.update)
    BY <1>1 DEF Workflow!WorkflowInv, Workflow!StageInv
<1>10. Workflow!Present(thread.data, thread.data.trace)'
    BY <1>5, <1>9 DEF Workflow!Present
<1>11. Workflow!Sourced(thread.data)' /\ Workflow!Cited(thread.data)'
    BY <1>1, <1>5, <1>9 DEF Workflow!Sourced, Workflow!Cited
<1>12. stage.provider = thread.provider
    BY <1>1 DEF Workflow!WorkflowInv, Workflow!StageInv
<1>13. Workflow!StageInv' /\ Workflow!AccessInv'
    BY <1>3, <1>5, <1>7, <1>12 DEF Workflow!StageInv, Workflow!AccessInv
<1>14. Workflow!WorkflowGrounded'
    BY <1>3, <1>7, <1>10, <1>11 DEF Workflow!WorkflowGrounded
<1> QED BY <1>8, <1>11, <1>13, <1>14 DEF Workflow!WorkflowInv

(* Jobs commit, access is withdrawn: what was citable stays so. *)
LEMMA WorldMoves ==
    ASSUME WorkflowAssumption, Workflow!WorkflowInv, Workflow!Withdraw \/ \E p \in Passages : Workflow!Ingested(p)
    PROVE  Workflow!WorkflowInv'
<1>1. /\ UNCHANGED <<thread, stage>> /\ citable \subseteq citable' /\ citable' \subseteq Passages
      /\ access' = access \/ access' = [access EXCEPT !.granted = FALSE]
    BY DEF Workflow!Withdraw, Workflow!Ingested, Workflow!WorkflowInv, Workflow!WorkflowType
<1>2. access \in [granted : BOOLEAN, savedSince : Nat]
    BY DEF Workflow!WorkflowInv, Workflow!WorkflowType
<1>3. /\ access' \in [granted : BOOLEAN, savedSince : Nat] /\ access'.savedSince = access.savedSince
      /\ access'.granted => access.granted
    BY <1>1, <1>2
<1>4. Workflow!WorkflowType'
    BY <1>1, <1>3 DEF Workflow!WorkflowInv, Workflow!WorkflowType
<1>5. Workflow!Sourced(thread.data)' /\ Workflow!Cited(thread.data)'
    BY <1>1 DEF Workflow!WorkflowInv, Workflow!Sourced, Workflow!Cited
<1>6. Workflow!Sourced(stage.update) => Workflow!Sourced(stage.update)'
    BY <1>1 DEF Workflow!Sourced, Workflow!Cited
<1>7. Workflow!StageInv' /\ Workflow!AccessInv'
    BY <1>1, <1>3, <1>6 DEF Workflow!WorkflowInv, Workflow!StageInv, Workflow!AccessInv, Workflow!Present
<1>8. Workflow!WorkflowGrounded'
    BY <1>1, <1>3, <1>5 DEF Workflow!WorkflowInv, Workflow!WorkflowGrounded, Workflow!Present
<1> QED BY <1>4, <1>5, <1>7, <1>8 DEF Workflow!WorkflowInv

LEMMA WorkflowStep ==
    WorkflowAssumption /\ Workflow!WorkflowInv /\ [Workflow!Next]_<<thread, stage, citable, access, resumes>>
      => Workflow!WorkflowInv'
<1> SUFFICES ASSUME WorkflowAssumption, Workflow!WorkflowInv,
                    [Workflow!Next]_<<thread, stage, citable, access, resumes>>
             PROVE  Workflow!WorkflowInv'
    OBVIOUS
<1>1. CASE \E provider \in Providers : Workflow!Start(provider) \/ Workflow!Resume(provider)
    BY <1>1, WorkflowStarts, WorkflowResumes
<1>2. CASE Workflow!Begin
    BY <1>2, StageBegins
<1>3. CASE Workflow!Work
    BY <1>3, StageAuthorizes, StageRetrieves, StageFuses, StageResolves, StageRanks, StagePacks, StageGenerates,
       StageValidates, ProcessSteps DEF Workflow!Work
<1>4. CASE Workflow!End \/ Workflow!Check \/ Workflow!Release \/ Workflow!Interrupt
    BY <1>4, ProcessSteps
<1>5. CASE Workflow!Save
    BY <1>5, StageSaved
<1>6. CASE Workflow!Withdraw \/ \E p \in Passages : Workflow!Ingested(p)
    BY <1>6, WorldMoves
<1>7. CASE UNCHANGED <<thread, stage, citable, access, resumes>>
    BY <1>7 DEF Workflow!WorkflowInv, Workflow!WorkflowType, Workflow!StageInv, Workflow!AccessInv,
       Workflow!WorkflowGrounded, Workflow!Sourced, Workflow!Cited, Workflow!Present
<1> QED BY <1>1, <1>2, <1>3, <1>4, <1>5, <1>6, <1>7 DEF Workflow!Next

(* However often a run is interrupted and resumed, whatever the provider   *)
(* drafts and whenever access is withdrawn: every stage finds the data it  *)
(* works on, an answer cites citable passages of its prompt, and at most   *)
(* one checkpoint is saved after the withdrawal.                           *)
THEOREM AnswersAreGrounded == Workflow!Spec => []WorkflowGrounded
<1>1. WorkflowAssumption
    BY WorkflowAssumption
<1>2. Workflow!WorkflowInv => WorkflowGrounded
    BY DEF Workflow!WorkflowInv, WorkflowGrounded
<1> QED BY <1>1, <1>2, WorkflowInit, WorkflowStep, PTL DEF Workflow!Spec

-----------------------------------------------------------------------------
(* The walk over the graph. *)

LEMMA ExpanderCardinality ==
    /\ \A S : Expander!Cardinality(S) = Cardinality(S)
    /\ \A S : Expander!IsFiniteSet(S) = IsFiniteSet(S)
    BY DEF Expander!Cardinality, Cardinality, Expander!IsFiniteSet, IsFiniteSet

(* Reading in the order of the ids: one of the rows, and with a limit that *)
(* is large enough all of them.                                            *)
LEMMA LowestOf ==
    ASSUME NEW S \in SUBSET Nat, IsFiniteSet(S), NEW n \in Nat
    PROVE  /\ Expander!Lowest(n, S) \subseteq S
           /\ Cardinality(S) <= n => Expander!Lowest(n, S) = S
           /\ S # {} => Expander!First(S) \in S
<1>1. Expander!Lowest(n, S) = {x \in S : Cardinality({y \in S : y < x}) < n}
    BY ExpanderCardinality DEF Expander!Lowest
<1>2. ASSUME NEW x \in S PROVE Cardinality({y \in S : y < x}) < Cardinality(S)
  <2> DEFINE below == {y \in S : y < x}
  <2>1. below \subseteq S /\ x \notin below /\ x \in Nat
      OBVIOUS
  <2>2. below # S
      BY <2>1
  <2>3. below \in SUBSET S
      BY <2>1
  <2> HIDE DEF below
  <2>4. IsFiniteSet(below) /\ Cardinality(below) <= Cardinality(S) /\ Cardinality(below) # Cardinality(S)
      BY <2>2, <2>3, FS_Subset
  <2>5. Cardinality(below) \in Nat /\ Cardinality(S) \in Nat
      BY <2>4, FS_CardinalityType
  <2>6. Cardinality(below) < Cardinality(S)
      BY <2>4, <2>5
  <2> QED BY <2>6 DEF below
<1>3. ASSUME NEW x \in S, Cardinality(S) <= n PROVE Cardinality({y \in S : y < x}) < n
  <2> DEFINE below == {y \in S : y < x}
  <2>1. below \in SUBSET S /\ Cardinality(below) < Cardinality(S)
      BY <1>2
  <2> HIDE DEF below
  <2>2. Cardinality(below) \in Nat /\ Cardinality(S) \in Nat
      BY <2>1, FS_Subset, FS_CardinalityType
  <2>3. Cardinality(below) < n
      BY <1>3, <2>1, <2>2
  <2> QED BY <2>3 DEF below
<1>4. Cardinality(S) <= n => Expander!Lowest(n, S) = S
    BY <1>1, <1>3
<1>5. S # {} => Expander!First(S) \in S
    BY LeastExists DEF Expander!First
<1> QED BY <1>1, <1>4, <1>5

LEMMA EntityOf == \A facts, x : x \in Expander!EntitiesOf(facts) <=> \E f \in facts : x \in claims[f]
    BY DEF Expander!EntitiesOf

(* What a step leaves of the claims and the walk's inputs, it leaves of    *)
(* everything that is defined by them; more ready facts reach more.        *)
LEMMA ReachGrows ==
    ASSUME UNCHANGED claims, ready \subseteq ready',
           expansion'.projected = expansion.projected, expansion'.matching = expansion.matching,
           expansion'.seeds = expansion.seeds, expansion'.began = expansion.began
    PROVE  /\ Expander!EntitiesOf(Expander!Near(ready)) \subseteq Expander!EntitiesOf(Expander!Near(ready))'
           /\ \A hops : Expander!Within(ready, hops) \subseteq Expander!Within(ready, hops)'
           /\ Expander!Usable(expansion.began)' = Expander!Usable(expansion.began)
           /\ Expander!Near(expansion.began)' = Expander!Near(expansion.began)
           /\ Expander!Within(expansion.began, MaxHop)' = Expander!Within(expansion.began, MaxHop)
           /\ \A e : Expander!Touching(expansion.projected, e)' = Expander!Touching(expansion.projected, e)
<1>1. \A f \in Expander!Near(ready) : f \in Expander!Near(ready)'
    BY DEF Expander!Near, Expander!Joined, Expander!Usable
<1>2. Expander!EntitiesOf(Expander!Near(ready)) \subseteq Expander!EntitiesOf(Expander!Near(ready))'
    BY <1>1 DEF Expander!EntitiesOf
<1>3. ASSUME NEW hops, NEW f \in Expander!Within(ready, hops) PROVE f \in Expander!Within(ready, hops)'
  <2>1. CASE f \in Expander!Near(ready)
      BY <1>1, <2>1 DEF Expander!Within
  <2>2. CASE f \notin Expander!Near(ready)
    <3>1. hops # 1 /\ f \in Expander!Joined(ready, Expander!EntitiesOf(Expander!Near(ready)))
        BY <1>3, <2>2 DEF Expander!Within
    <3>2. f \in Expander!Joined(ready, Expander!EntitiesOf(Expander!Near(ready)))'
        BY <1>2, <3>1 DEF Expander!Joined, Expander!Usable
    <3> QED BY <3>1, <3>2 DEF Expander!Within
  <2> QED BY <2>1, <2>2
<1>4. /\ Expander!Usable(expansion.began)' = Expander!Usable(expansion.began)
      /\ Expander!Near(expansion.began)' = Expander!Near(expansion.began)
      /\ Expander!Within(expansion.began, MaxHop)' = Expander!Within(expansion.began, MaxHop)
      /\ \A e : Expander!Touching(expansion.projected, e)' = Expander!Touching(expansion.projected, e)
    BY DEF Expander!Usable, Expander!Near, Expander!Within, Expander!Joined, Expander!EntitiesOf, Expander!Touching
<1> QED BY <1>2, <1>3, <1>4

LEMMA ExpansionFacts ==
    ASSUME ExpansionAssumption, Expander!ExpansionInv
    PROVE  /\ claims \in [Facts -> SUBSET Entities] /\ expansion \in Expander!Walks
           /\ expansion.began \subseteq ready /\ ready \subseteq Facts
           /\ IsFiniteSet(expansion.passages) /\ Cardinality(expansion.passages) \in Nat
           /\ Cardinality(expansion.passages) <= MaxPassages
           /\ IsFiniteSet(expansion.visited) /\ Cardinality(expansion.visited) \in Nat
           /\ Cardinality(expansion.visited) <= MaxVisited
<1>1. /\ claims \in [Facts -> SUBSET Entities] /\ expansion \in Expander!Walks
      /\ expansion.began \subseteq ready /\ ready \subseteq Facts /\ IsFiniteSet(expansion.passages)
    BY ExpanderCardinality DEF Expander!ExpansionInv, Expander!WalkType
<1>2. expansion.visited \in SUBSET Entities
    BY <1>1 DEF Expander!Walks
<1>3. IsFiniteSet(expansion.visited)
    BY <1>2, FS_Subset DEF ExpansionAssumption
<1>4. Cardinality(expansion.visited) \in Nat /\ Cardinality(expansion.passages) \in Nat
    BY <1>1, <1>3, FS_CardinalityType
<1>5. Cardinality(expansion.visited) <= MaxVisited /\ Cardinality(expansion.passages) <= MaxPassages
    BY ExpanderCardinality DEF Expander!ExpansionInv, Expander!ExpansionGrounded
<1> QED BY <1>1, <1>3, <1>4, <1>5

(* A walk that has seen every reachable fact has their passages. *)
LEMMA WalkIsSound ==
    ASSUME Expander!WalkType', Expander!FrontierInv',
           \A p \in expansion'.passages : p.fact \in Expander!Within(ready, p.hop)',
           \A p, q \in expansion'.passages : p.chunk = q.chunk => p = q,
           Cardinality(expansion'.visited) <= MaxVisited, Cardinality(expansion'.passages) <= MaxPassages,
           expansion'.status = "walking" => Cardinality(expansion'.passages) < MaxPassages,
           expansion'.status # "raised" => Expander!SeenInv',
           expansion'.status # "raised" /\ Expander!Unlimited' => Expander!VisitedInv'
    PROVE  Expander!ExpansionInv'
<1>1. \A f \in Expander!Within(expansion.began, MaxHop)' : f \in Expander!Usable(expansion.began)'
    BY DEF Expander!Within, Expander!Near, Expander!Joined
<1>2. expansion'.status = "returned" /\ Expander!Unlimited' =>
        \A f \in Expander!Within(expansion.began, MaxHop)' : \E p \in expansion'.passages : Expander!Speaks(p, f)
  <2> SUFFICES ASSUME expansion'.status = "returned", Expander!Unlimited',
                      NEW f \in Expander!Within(expansion.began, MaxHop)'
               PROVE  \E p \in expansion'.passages : Expander!Speaks(p, f)
      OBVIOUS
  <2>1. f \in expansion'.seen
      BY DEF Expander!VisitedInv
  <2>2. f \in Expander!Usable(expansion.began)'
      BY <1>1
  <2>3. Expander!SeenInv'
      OBVIOUS
  <2> QED BY <2>1, <2>2, <2>3 DEF Expander!SeenInv, Expander!Speaks
<1>3. Expander!ExpansionGrounded'
    BY <1>2, ExpanderCardinality DEF Expander!ExpansionGrounded, Expander!Speaks
<1> QED BY <1>3, ExpanderCardinality DEF Expander!ExpansionInv

LEMMA ExpansionInit == ExpansionAssumption /\ Expander!Init => Expander!ExpansionInv
<1> SUFFICES ASSUME ExpansionAssumption, Expander!Init PROVE Expander!ExpansionInv
    OBVIOUS
<1>1. PICK seeds \in {{1}, {1, 2}}, projected \in SUBSET Facts, matching \in {Facts, Facts \ {2}} :
        expansion = [status |-> "walking", hop |-> 1, seeds |-> seeds, frontier |-> seeds, next |-> {},
                     visited |-> {}, seen |-> {}, stale |-> {}, passages |-> {}, pending |-> {},
                     projected |-> projected, matching |-> matching, began |-> ready]
    BY DEF Expander!Init
<1>2. /\ claims \in [Facts -> SUBSET Entities] /\ ready \subseteq Facts
    BY DEF Expander!Init, Expander!Relations
<1>3. seeds \in SUBSET Entities /\ matching \in SUBSET Facts /\ ready \in SUBSET Facts
    BY <1>2 DEF ExpansionAssumption
<1>4. /\ expansion \in Expander!Walks /\ expansion.passages = {} /\ expansion.visited = {} /\ expansion.seen = {}
      /\ expansion.status = "walking" /\ expansion.hop = 1 /\ expansion.frontier = expansion.seeds
      /\ expansion.next = {} /\ expansion.pending = {} /\ expansion.began = ready
    BY <1>1, <1>3 DEF Expander!Walks
<1>5. /\ IsFiniteSet(expansion.passages) /\ Cardinality(expansion.passages) = 0
      /\ Cardinality(expansion.visited) = 0
    BY <1>4, FS_EmptySet
<1>6. Expander!WalkType
    BY <1>2, <1>4, <1>5, ExpanderCardinality DEF Expander!WalkType
<1>7. Expander!FrontierInv /\ Expander!SeenInv /\ Expander!VisitedInv
    BY <1>4 DEF Expander!FrontierInv, Expander!SeenInv, Expander!VisitedInv
<1>8. Cardinality(expansion.passages) < MaxPassages /\ Cardinality(expansion.visited) <= MaxVisited
    BY <1>5 DEF ExpansionAssumption
<1>9. Expander!ExpansionGrounded
    BY <1>4, <1>5, <1>8, ExpanderCardinality DEF Expander!ExpansionGrounded, ExpansionAssumption
<1> QED BY <1>6, <1>7, <1>8, <1>9, ExpanderCardinality DEF Expander!ExpansionInv

(* A job commits while the walk is under way. *)
LEMMA FactsPublished ==
    ASSUME ExpansionAssumption, Expander!ExpansionInv, NEW f \in Facts, Expander!Publish(f)
    PROVE  Expander!ExpansionInv'
<1>1. UNCHANGED <<claims, expansion>> /\ ready \subseteq ready' /\ ready' \subseteq Facts
    BY ExpansionFacts DEF Expander!Publish
<1>2. Expander!WalkType'
    BY <1>1, ExpansionFacts, ExpanderCardinality DEF Expander!WalkType
<1>3. /\ Expander!EntitiesOf(Expander!Near(ready)) \subseteq Expander!EntitiesOf(Expander!Near(ready))'
      /\ \A hops : Expander!Within(ready, hops) \subseteq Expander!Within(ready, hops)'
      /\ Expander!Usable(expansion.began)' = Expander!Usable(expansion.began)
      /\ Expander!Near(expansion.began)' = Expander!Near(expansion.began)
      /\ Expander!Within(expansion.began, MaxHop)' = Expander!Within(expansion.began, MaxHop)
      /\ \A e : Expander!Touching(expansion.projected, e)' = Expander!Touching(expansion.projected, e)
    BY <1>1, ReachGrows
<1>4. Expander!FrontierInv'
    BY <1>1, <1>3 DEF Expander!ExpansionInv, Expander!FrontierInv
<1>5. Expander!SeenInv => Expander!SeenInv'
    BY <1>1, <1>3 DEF Expander!SeenInv, Expander!Speaks
<1>6. Expander!VisitedInv => Expander!VisitedInv'
    BY <1>1, <1>3 DEF Expander!VisitedInv
<1>7. Expander!Unlimited' = Expander!Unlimited
    BY <1>1, <1>3 DEF Expander!Unlimited
<1>8. \A p \in expansion'.passages : p.fact \in Expander!Within(ready, p.hop)'
    BY <1>1, <1>3 DEF Expander!ExpansionInv, Expander!ExpansionGrounded
<1>9. \A p, q \in expansion'.passages : p.chunk = q.chunk => p = q
    BY <1>1 DEF Expander!ExpansionInv, Expander!ExpansionGrounded
<1>10. /\ Cardinality(expansion'.visited) <= MaxVisited /\ Cardinality(expansion'.passages) <= MaxPassages
       /\ expansion'.status = "walking" => Cardinality(expansion'.passages) < MaxPassages
    BY <1>1, ExpansionFacts, ExpanderCardinality DEF Expander!ExpansionInv
<1>11. expansion.status # "raised" => Expander!SeenInv /\ (Expander!Unlimited => Expander!VisitedInv)
    BY DEF Expander!ExpansionInv
<1> QED BY <1>1, <1>2, <1>4, <1>5, <1>6, <1>7, <1>8, <1>9, <1>10, <1>11, WalkIsSound

(* A step of the walk that leaves its inputs alone leaves what is defined  *)
(* by them.                                                                *)
LEMMA ReachStays ==
    ASSUME UNCHANGED <<claims, ready>>,
           expansion'.projected = expansion.projected, expansion'.matching = expansion.matching,
           expansion'.seeds = expansion.seeds, expansion'.began = expansion.began
    PROVE  /\ Expander!EntitiesOf(Expander!Near(ready))' = Expander!EntitiesOf(Expander!Near(ready))
           /\ \A hops : Expander!Within(ready, hops)' = Expander!Within(ready, hops)
           /\ Expander!Usable(expansion.began)' = Expander!Usable(expansion.began)
           /\ Expander!Near(expansion.began)' = Expander!Near(expansion.began)
           /\ Expander!Within(expansion.began, MaxHop)' = Expander!Within(expansion.began, MaxHop)
           /\ \A e : Expander!Touching(expansion.projected, e)' = Expander!Touching(expansion.projected, e)
    BY DEF Expander!Usable, Expander!Near, Expander!Within, Expander!Joined, Expander!EntitiesOf, Expander!Touching

(* The next entity of the frontier. *)
LEMMA EntityVisited == ExpansionAssumption /\ Expander!ExpansionInv /\ Expander!Visit => Expander!ExpansionInv'
<1> SUFFICES ASSUME ExpansionAssumption, Expander!ExpansionInv, Expander!Visit PROVE Expander!ExpansionInv'
    OBVIOUS
<1>1. PICK e : e = Expander!First(Expander!Unvisited)
    OBVIOUS
<1>2. PICK pending : pending = Expander!Lowest(NeighborLimit, Expander!Touching(expansion.projected, e))
    OBVIOUS
<1>3. /\ expansion.status = "walking" /\ expansion.pending = {} /\ UNCHANGED <<claims, ready>>
      /\ Expander!Unvisited # {} /\ Cardinality(expansion.visited) < MaxVisited
      /\ expansion' = [expansion EXCEPT !.visited = @ \cup {e}, !.pending = pending]
    BY <1>1, <1>2, ExpanderCardinality DEF Expander!Visit, Expander!MayVisit
<1>4. expansion \in Expander!Walks
    BY ExpansionFacts
<1>5. /\ expansion.frontier \in SUBSET Entities /\ expansion.projected \in SUBSET Facts
      /\ expansion.visited \in SUBSET Entities
    BY <1>4 DEF Expander!Walks
<1>6. e \in expansion.frontier /\ e \notin expansion.visited
  <2>1. Expander!Unvisited \in SUBSET Nat /\ IsFiniteSet(Expander!Unvisited)
    <3>1. Expander!Unvisited \in SUBSET Entities
        BY <1>5 DEF Expander!Unvisited
    <3> QED BY <3>1, FS_Subset DEF ExpansionAssumption
  <2>2. e \in Expander!Unvisited
      BY <1>1, <1>3, <2>1, LowestOf DEF ExpansionAssumption
  <2> QED BY <2>2 DEF Expander!Unvisited
<1>7. /\ pending \subseteq Expander!Touching(expansion.projected, e) /\ pending \in SUBSET Facts
      /\ Cardinality(Expander!Touching(expansion.projected, e)) <= NeighborLimit =>
           pending = Expander!Touching(expansion.projected, e)
  <2>1. Expander!Touching(expansion.projected, e) \in SUBSET Facts
      BY <1>5 DEF Expander!Touching
  <2>2. Expander!Touching(expansion.projected, e) \in SUBSET Nat /\ IsFiniteSet(Expander!Touching(expansion.projected, e))
      BY <2>1, FS_Subset DEF ExpansionAssumption
  <2> QED BY <1>2, <2>1, <2>2, LowestOf DEF ExpansionAssumption
<1>8. expansion.visited \cup {e} \in SUBSET Entities
    BY <1>5, <1>6
<1>9. /\ expansion' \in Expander!Walks /\ expansion'.visited = expansion.visited \cup {e} /\ expansion'.pending = pending
      /\ expansion'.status = expansion.status /\ expansion'.hop = expansion.hop /\ expansion'.seeds = expansion.seeds
      /\ expansion'.frontier = expansion.frontier /\ expansion'.next = expansion.next /\ expansion'.seen = expansion.seen
      /\ expansion'.passages = expansion.passages /\ expansion'.projected = expansion.projected
      /\ expansion'.matching = expansion.matching /\ expansion'.began = expansion.began
    BY <1>3, <1>4, <1>7, <1>8 DEF Expander!Walks
<1>10. /\ Expander!EntitiesOf(Expander!Near(ready))' = Expander!EntitiesOf(Expander!Near(ready))
       /\ \A hops : Expander!Within(ready, hops)' = Expander!Within(ready, hops)
       /\ Expander!Usable(expansion.began)' = Expander!Usable(expansion.began)
       /\ Expander!Near(expansion.began)' = Expander!Near(expansion.began)
       /\ \A x : Expander!Touching(expansion.projected, x)' = Expander!Touching(expansion.projected, x)
    BY <1>3, <1>9, ReachStays
<1>11. Expander!WalkType'
    BY <1>3, <1>9, ExpansionFacts, ExpanderCardinality DEF Expander!WalkType
<1>12. Expander!FrontierInv'
  <2>1. \A f \in pending : f \in expansion.projected /\ claims[f] \cap expansion.frontier # {}
      BY <1>6, <1>7 DEF Expander!Touching
  <2> QED BY <1>3, <1>9, <1>10, <2>1 DEF Expander!ExpansionInv, Expander!FrontierInv
<1>13. Expander!SeenInv'
    BY <1>3, <1>9, <1>10 DEF Expander!ExpansionInv, Expander!SeenInv, Expander!Speaks
<1>14. Expander!Unlimited' => Expander!VisitedInv'
  <2> SUFFICES ASSUME Expander!Unlimited' PROVE Expander!VisitedInv'
      OBVIOUS
  <2>1. Expander!Unlimited
      BY <1>9, <1>10 DEF Expander!Unlimited
  <2>2. Expander!VisitedInv
      BY <1>3, <2>1 DEF Expander!ExpansionInv
  <2>3. Cardinality(Expander!Touching(expansion.projected, e)) <= NeighborLimit
      BY <1>5, <1>6, <2>1, ExpanderCardinality DEF Expander!Unlimited
  <2> QED BY <1>3, <1>7, <1>9, <1>10, <2>2, <2>3 DEF Expander!VisitedInv
<1>15. Cardinality(expansion'.visited) <= MaxVisited
  <2>1. Cardinality(expansion.visited \cup {e}) = Cardinality(expansion.visited) + 1
      BY <1>6, ExpansionFacts, FS_AddElement
  <2> QED BY <1>3, <1>9, <2>1, ExpansionFacts DEF ExpansionAssumption
<1>16. /\ \A p \in expansion'.passages : p.fact \in Expander!Within(ready, p.hop)'
       /\ \A p, q \in expansion'.passages : p.chunk = q.chunk => p = q
    BY <1>9, <1>10 DEF Expander!ExpansionInv, Expander!ExpansionGrounded
<1>17. Cardinality(expansion'.passages) <= MaxPassages /\ Cardinality(expansion'.passages) < MaxPassages
    BY <1>3, <1>9, ExpansionFacts, ExpanderCardinality DEF Expander!ExpansionInv
<1> QED BY <1>11, <1>12, <1>13, <1>14, <1>15, <1>16, <1>17, WalkIsSound

(* A fact that was seen, or that the walk may not use, is passed over. *)
LEMMA FactPassed ==
    ASSUME ExpansionAssumption, Expander!ExpansionInv, NEW f \in expansion.pending, UNCHANGED <<claims, ready>>,
           expansion.status = "walking", f \in expansion.seen \/ f \notin ready \/ f \notin expansion.matching,
           expansion' \in Expander!Walks, expansion'.visited = expansion.visited,
           expansion'.pending = expansion.pending \ {f}, expansion'.seen = expansion.seen \cup {f},
           expansion'.status = expansion.status, expansion'.hop = expansion.hop, expansion'.seeds = expansion.seeds,
           expansion'.frontier = expansion.frontier, expansion'.next = expansion.next,
           expansion'.passages = expansion.passages, expansion'.projected = expansion.projected,
           expansion'.matching = expansion.matching, expansion'.began = expansion.began
    PROVE  Expander!ExpansionInv'
<1>1. /\ Expander!EntitiesOf(Expander!Near(ready))' = Expander!EntitiesOf(Expander!Near(ready))
      /\ \A hops : Expander!Within(ready, hops)' = Expander!Within(ready, hops)
      /\ Expander!Usable(expansion.began)' = Expander!Usable(expansion.began)
      /\ Expander!Near(expansion.began)' = Expander!Near(expansion.began)
      /\ \A x : Expander!Touching(expansion.projected, x)' = Expander!Touching(expansion.projected, x)
    BY ReachStays
<1>2. f \in expansion.seen \/ f \notin Expander!Usable(expansion.began)
    BY ExpansionFacts DEF Expander!Usable
<1>3. Expander!WalkType'
    BY ExpansionFacts, ExpanderCardinality DEF Expander!WalkType
<1>4. Expander!FrontierInv'
    BY <1>1 DEF Expander!ExpansionInv, Expander!FrontierInv
<1>5. Expander!SeenInv'
    BY <1>1, <1>2 DEF Expander!ExpansionInv, Expander!SeenInv, Expander!Speaks
<1>6. Expander!Unlimited' => Expander!VisitedInv'
  <2> SUFFICES ASSUME Expander!Unlimited' PROVE Expander!VisitedInv'
      OBVIOUS
  <2>1. Expander!Unlimited
      BY <1>1 DEF Expander!Unlimited
  <2>2. Expander!VisitedInv
      BY <2>1 DEF Expander!ExpansionInv
  <2> QED BY <1>1, <2>2 DEF Expander!VisitedInv
<1>7. /\ \A p \in expansion'.passages : p.fact \in Expander!Within(ready, p.hop)'
      /\ \A p, q \in expansion'.passages : p.chunk = q.chunk => p = q
    BY <1>1 DEF Expander!ExpansionInv, Expander!ExpansionGrounded
<1>8. Cardinality(expansion'.passages) <= MaxPassages /\ Cardinality(expansion'.passages) < MaxPassages
    BY ExpansionFacts, ExpanderCardinality DEF Expander!ExpansionInv
<1>9. Cardinality(expansion'.visited) <= MaxVisited
    BY ExpansionFacts
<1> QED BY <1>3, <1>4, <1>5, <1>6, <1>7, <1>8, <1>9, WalkIsSound

(* A ready fact is taken: its passage is within the hop, and the next hop  *)
(* knows its entities.                                                     *)
LEMMA FactTaken ==
    ASSUME ExpansionAssumption, Expander!ExpansionInv, NEW f \in expansion.pending, UNCHANGED <<claims, ready>>,
           expansion.status = "walking", f \in ready, f \in expansion.matching,
           NEW passages, NEW passage, passage.chunk = Expander!ChunkOf(f), passage.fact = f,
           passage.hop = expansion.hop,
           passages = (IF \E p \in expansion.passages : p.chunk = Expander!ChunkOf(f)
                       THEN expansion.passages ELSE expansion.passages \cup {passage}),
           \/ /\ expansion'.status = "walking" /\ expansion'.pending = expansion.pending \ {f}
              /\ Cardinality(passages) < MaxPassages
           \/ expansion'.status = "returned" /\ ~(Cardinality(passages) < MaxPassages),
           expansion' \in Expander!Walks, expansion'.visited = expansion.visited,
           expansion'.pending \subseteq expansion.pending, expansion'.seen = expansion.seen \cup {f},
           expansion'.hop = expansion.hop, expansion'.seeds = expansion.seeds,
           expansion'.frontier = expansion.frontier, expansion'.next = expansion.next \cup claims[f],
           expansion'.passages = passages, expansion'.projected = expansion.projected,
           expansion'.matching = expansion.matching, expansion'.began = expansion.began
    PROVE  Expander!ExpansionInv'
<1>1. /\ Expander!EntitiesOf(Expander!Near(ready))' = Expander!EntitiesOf(Expander!Near(ready))
      /\ \A hops : Expander!Within(ready, hops)' = Expander!Within(ready, hops)
      /\ Expander!Usable(expansion.began)' = Expander!Usable(expansion.began)
      /\ Expander!Near(expansion.began)' = Expander!Near(expansion.began)
      /\ \A x : Expander!Touching(expansion.projected, x)' = Expander!Touching(expansion.projected, x)
    BY ReachStays
<1>2. f \in expansion.projected /\ claims[f] \cap expansion.frontier # {}
    BY DEF Expander!ExpansionInv, Expander!FrontierInv
<1>3. f \in Expander!Usable(ready)
    BY <1>2 DEF Expander!Usable
<1>4. expansion.hop = 1 => f \in Expander!Near(ready)
    BY <1>2, <1>3 DEF Expander!ExpansionInv, Expander!FrontierInv, Expander!Near, Expander!Joined
<1>5. f \in Expander!Within(ready, expansion.hop)
  <2>1. CASE expansion.hop = 1
      BY <1>4, <2>1 DEF Expander!Within
  <2>2. CASE expansion.hop # 1
    <3>1. expansion.frontier \subseteq Expander!EntitiesOf(Expander!Near(ready))
        BY <2>2 DEF Expander!ExpansionInv, Expander!FrontierInv
    <3>2. f \in Expander!Joined(ready, Expander!EntitiesOf(Expander!Near(ready)))
        BY <1>2, <1>3, <3>1 DEF Expander!Joined
    <3> QED BY <2>2, <3>2 DEF Expander!Within
  <2> QED BY <2>1, <2>2
<1>6. expansion.hop = 1 => claims[f] \subseteq Expander!EntitiesOf(Expander!Near(ready))
    BY <1>4, EntityOf
<1>7. IsFiniteSet(passages) /\ Cardinality(passages) \in Nat /\ Cardinality(passages) <= Cardinality(expansion.passages) + 1
  <2>1. CASE passages = expansion.passages
      BY <2>1, ExpansionFacts
  <2>2. CASE passages = expansion.passages \cup {passage}
    <3>1. IsFiniteSet(passages)
        BY <2>2, ExpansionFacts, FS_AddElement
    <3>2. CASE passage \in expansion.passages
      <4>1. passages = expansion.passages
          BY <2>2, <3>2
      <4> QED BY <4>1, ExpansionFacts
    <3>3. CASE passage \notin expansion.passages
      <4>1. IsFiniteSet(expansion.passages)
          BY ExpansionFacts
      <4>2. Cardinality(expansion.passages \cup {passage}) = Cardinality(expansion.passages) + 1
          BY <3>3, <4>1, FS_AddElement
      <4>3. Cardinality(passages) = Cardinality(expansion.passages) + 1
          BY <2>2, <4>2
      <4> QED BY <3>1, <4>3, ExpansionFacts
    <3> QED BY <3>2, <3>3
  <2> QED BY <2>1, <2>2
<1>8. Cardinality(passages) <= MaxPassages
  <2>1. Cardinality(expansion.passages) < MaxPassages
      BY ExpanderCardinality DEF Expander!ExpansionInv
  <2> QED BY <1>7, <2>1, ExpansionFacts DEF ExpansionAssumption
<1>9. Expander!WalkType'
    BY <1>7, ExpansionFacts, ExpanderCardinality DEF Expander!WalkType
<1>10. Expander!FrontierInv'
    BY <1>1, <1>6 DEF Expander!ExpansionInv, Expander!FrontierInv
<1>11. expansion.passages \subseteq passages /\ \E p \in passages : p.chunk = Expander!ChunkOf(f)
    OBVIOUS
<1>12. Expander!SeenInv'
    BY <1>1, <1>11 DEF Expander!ExpansionInv, Expander!SeenInv, Expander!Speaks
<1>13. Expander!Unlimited' => Expander!VisitedInv'
  <2> SUFFICES ASSUME Expander!Unlimited' PROVE Expander!VisitedInv'
      OBVIOUS
  <2>1. expansion'.status = "walking" /\ expansion'.pending = expansion.pending \ {f}
      BY <1>7, ExpanderCardinality DEF Expander!Unlimited
  <2>2. Cardinality(expansion.passages) < MaxPassages
      BY ExpanderCardinality DEF Expander!ExpansionInv
  <2>3. Expander!Unlimited
      BY <1>1, <2>2, ExpanderCardinality DEF Expander!Unlimited
  <2>4. Expander!VisitedInv
      BY <2>3 DEF Expander!ExpansionInv
  <2> QED BY <1>1, <2>1, <2>4 DEF Expander!VisitedInv
<1>14. \A p \in passages : p.fact \in Expander!Within(ready, p.hop)'
    BY <1>1, <1>5 DEF Expander!ExpansionInv, Expander!ExpansionGrounded
<1>15. \A p, q \in passages : p.chunk = q.chunk => p = q
    BY DEF Expander!ExpansionInv, Expander!ExpansionGrounded
<1> QED BY <1>8, <1>9, <1>10, <1>12, <1>13, <1>14, <1>15, ExpansionFacts, WalkIsSound

LEMMA FactResolved == ExpansionAssumption /\ Expander!ExpansionInv /\ Expander!Resolve => Expander!ExpansionInv'
<1> SUFFICES ASSUME ExpansionAssumption, Expander!ExpansionInv, Expander!Resolve PROVE Expander!ExpansionInv'
    OBVIOUS
<1>1. PICK f : f = Expander!First(expansion.pending)
    OBVIOUS
<1> DEFINE walk == [expansion EXCEPT !.pending = @ \ {f}, !.seen = @ \cup {f}]
<1>2. /\ expansion.status = "walking" /\ expansion.pending # {} /\ UNCHANGED <<claims, ready>>
      /\ expansion' = IF f \in expansion.seen THEN walk
                      ELSE IF f \notin ready THEN [walk EXCEPT !.stale = @ \cup {f}]
                      ELSE IF f \notin expansion.matching THEN walk
                      ELSE Expander!Stopped(Expander!Taken(walk, f))
    BY <1>1 DEF Expander!Resolve
<1>3. /\ claims \in [Facts -> SUBSET Entities] /\ expansion \in Expander!Walks
      /\ expansion.pending \in SUBSET Facts /\ expansion.seen \in SUBSET Facts /\ expansion.next \in SUBSET Entities
      /\ expansion.passages \in SUBSET Expander!WalkPassages /\ expansion.stale \in SUBSET Facts
      /\ expansion.hop \in {1, 2}
    BY ExpansionFacts DEF Expander!Walks, ExpansionAssumption
<1>4. f \in expansion.pending
  <2>1. expansion.pending \in SUBSET Nat /\ IsFiniteSet(expansion.pending)
      BY <1>3, FS_Subset DEF ExpansionAssumption
  <2> QED BY <1>1, <1>2, <2>1, LowestOf DEF ExpansionAssumption
<1>5. f \in Facts /\ claims[f] \in SUBSET Entities
    BY <1>3, <1>4
<1>6. expansion.pending \ {f} \in SUBSET Facts /\ expansion.seen \cup {f} \in SUBSET Facts
    BY <1>3, <1>5
<1>7. /\ walk \in Expander!Walks /\ walk.visited = expansion.visited
      /\ walk.pending = expansion.pending \ {f} /\ walk.seen = expansion.seen \cup {f}
      /\ walk.status = expansion.status /\ walk.hop = expansion.hop /\ walk.seeds = expansion.seeds
      /\ walk.frontier = expansion.frontier /\ walk.next = expansion.next /\ walk.stale = expansion.stale
      /\ walk.passages = expansion.passages /\ walk.projected = expansion.projected
      /\ walk.matching = expansion.matching /\ walk.began = expansion.began
    BY <1>3, <1>6 DEF Expander!Walks
<1> HIDE DEF walk
<1>8. CASE f \in expansion.seen \/ (f \in ready /\ f \notin expansion.matching)
  <2>1. expansion' = walk
      BY <1>2, <1>8
  <2> QED BY <1>2, <1>4, <1>7, <1>8, <2>1, FactPassed
<1>9. CASE f \notin expansion.seen /\ f \notin ready
  <2>1. expansion' = [walk EXCEPT !.stale = @ \cup {f}]
      BY <1>2, <1>9
  <2>2. walk.stale \cup {f} \in SUBSET Facts
      BY <1>3, <1>5, <1>7
  <2>3. /\ expansion' \in Expander!Walks /\ expansion'.visited = walk.visited
        /\ expansion'.pending = walk.pending /\ expansion'.seen = walk.seen
        /\ expansion'.status = walk.status /\ expansion'.hop = walk.hop /\ expansion'.seeds = walk.seeds
        /\ expansion'.frontier = walk.frontier /\ expansion'.next = walk.next
        /\ expansion'.passages = walk.passages /\ expansion'.projected = walk.projected
        /\ expansion'.matching = walk.matching /\ expansion'.began = walk.began
      BY <1>7, <2>1, <2>2 DEF Expander!Walks
  <2> QED BY <1>2, <1>4, <1>7, <1>9, <2>3, FactPassed
<1>10. CASE f \notin expansion.seen /\ f \in ready /\ f \in expansion.matching
  <2>1. PICK passage \in Expander!WalkPassages :
          /\ passage = Expander!PassageOf(f, expansion.hop) /\ passage.chunk = Expander!ChunkOf(f)
          /\ passage.fact = f /\ passage.hop = expansion.hop
    <3>1. Expander!ChunkOf(f) \in Expander!Chunks
        BY <1>5 DEF Expander!Chunks
    <3>2. Expander!PassageOf(f, expansion.hop) \in Expander!WalkPassages
        BY <1>3, <1>5, <3>1 DEF Expander!WalkPassages, Expander!PassageOf
    <3> QED BY <3>2 DEF Expander!PassageOf
  <2>2. PICK passages \in SUBSET Expander!WalkPassages :
          passages = (IF \E p \in expansion.passages : p.chunk = Expander!ChunkOf(f)
                      THEN expansion.passages ELSE expansion.passages \cup {passage})
      BY <1>3, <2>1
  <2> DEFINE taken == [walk EXCEPT !.next = @ \cup claims[f], !.passages = passages]
  <2>3. Expander!Taken(walk, f) = taken
      BY <1>7, <2>1, <2>2 DEF Expander!Taken
  <2>4. walk.next \cup claims[f] \in SUBSET Entities
      BY <1>3, <1>5, <1>7
  <2>5. /\ taken \in Expander!Walks /\ taken.visited = expansion.visited
        /\ taken.pending = expansion.pending \ {f} /\ taken.seen = expansion.seen \cup {f}
        /\ taken.status = expansion.status /\ taken.hop = expansion.hop /\ taken.seeds = expansion.seeds
        /\ taken.frontier = expansion.frontier /\ taken.next = expansion.next \cup claims[f]
        /\ taken.passages = passages /\ taken.projected = expansion.projected
        /\ taken.matching = expansion.matching /\ taken.began = expansion.began
      BY <1>7, <2>4 DEF Expander!Walks
  <2> HIDE DEF taken
  <2>6. expansion' = IF Cardinality(passages) >= MaxPassages
                     THEN [taken EXCEPT !.status = "returned", !.pending = {}] ELSE taken
      BY <1>2, <1>10, <2>3, <2>5, ExpanderCardinality DEF Expander!Stopped
  <2>7. Cardinality(passages) \in Nat
    <3>1. IsFiniteSet(passages)
        BY <2>2, ExpansionFacts, FS_AddElement
    <3> QED BY <3>1, FS_CardinalityType
  <2>8. /\ expansion' \in Expander!Walks /\ expansion'.visited = taken.visited
        /\ expansion'.pending = (IF Cardinality(passages) >= MaxPassages THEN {} ELSE taken.pending)
        /\ expansion'.status = (IF Cardinality(passages) >= MaxPassages THEN "returned" ELSE taken.status)
        /\ expansion'.seen = taken.seen /\ expansion'.hop = taken.hop /\ expansion'.seeds = taken.seeds
        /\ expansion'.frontier = taken.frontier /\ expansion'.next = taken.next
        /\ expansion'.passages = taken.passages /\ expansion'.projected = taken.projected
        /\ expansion'.matching = taken.matching /\ expansion'.began = taken.began
    <3>1. CASE Cardinality(passages) >= MaxPassages
        BY <2>5, <2>6, <3>1 DEF Expander!Walks
    <3>2. CASE ~(Cardinality(passages) >= MaxPassages)
        BY <2>5, <2>6, <3>2
    <3> QED BY <3>1, <3>2
  <2>9. (Cardinality(passages) >= MaxPassages) <=> ~(Cardinality(passages) < MaxPassages)
      BY <2>7 DEF ExpansionAssumption
  <2>10. expansion'.pending \subseteq expansion.pending
      BY <2>5, <2>8
  <2>11. \/ /\ expansion'.status = "walking" /\ expansion'.pending = expansion.pending \ {f}
            /\ Cardinality(passages) < MaxPassages
         \/ expansion'.status = "returned" /\ ~(Cardinality(passages) < MaxPassages)
      BY <1>2, <2>5, <2>8, <2>9
  <2> QED BY <1>2, <1>4, <1>10, <2>1, <2>2, <2>5, <2>8, <2>10, <2>11, FactTaken
<1> QED BY <1>8, <1>9, <1>10

(* Unless a limit cuts it short, a hop ends when its frontier is visited:  *)
(* then the facts of the frontier have been seen.                          *)
LEMMA FrontierDone ==
    ASSUME ExpansionAssumption, Expander!ExpansionInv, expansion.status = "walking", expansion.pending = {},
           ~Expander!MayVisit, Expander!Unlimited
    PROVE  /\ Expander!VisitedInv
           /\ expansion.frontier \subseteq expansion.visited
           /\ \A f \in Expander!Usable(expansion.began) :
                claims[f] \cap expansion.visited # {} => f \in expansion.seen
<1>1. Expander!VisitedInv
    BY DEF Expander!ExpansionInv
<1>2. expansion.visited \in SUBSET Entities /\ expansion.frontier \in SUBSET Entities
    BY ExpansionFacts DEF Expander!Walks
<1>3. expansion.frontier \subseteq expansion.visited
  <2>1. CASE Expander!Unvisited = {}
      BY <2>1 DEF Expander!Unvisited
  <2>2. CASE Expander!Unvisited # {}
    <3>1. ~(Cardinality(expansion.visited) < MaxVisited) /\ MaxVisited >= Cardinality(Entities)
        BY <2>2, ExpanderCardinality DEF Expander!MayVisit, Expander!Unlimited
    <3>2. Cardinality(Entities) \in Nat /\ Cardinality(expansion.visited) <= Cardinality(Entities)
        BY <1>2, FS_Subset, FS_CardinalityType DEF ExpansionAssumption
    <3>3. Cardinality(expansion.visited) = Cardinality(Entities)
        BY <3>1, <3>2, ExpansionFacts DEF ExpansionAssumption
    <3>4. expansion.visited = Entities
        BY <1>2, <3>3, FS_Subset DEF ExpansionAssumption
    <3> QED BY <1>2, <3>4
  <2> QED BY <2>1, <2>2
<1>4. ASSUME NEW f \in Expander!Usable(expansion.began), claims[f] \cap expansion.visited # {}
      PROVE  f \in expansion.seen
  <2>1. PICK e \in expansion.visited : e \in claims[f]
      BY <1>4
  <2>2. f \in Expander!Touching(expansion.projected, e)
      BY <2>1 DEF Expander!Touching, Expander!Usable
  <2> QED BY <1>1, <2>1, <2>2 DEF Expander!VisitedInv
<1> QED BY <1>1, <1>3, <1>4

(* What is left of the invariant when a step changes neither what was seen *)
(* nor what was visited, but may end the walk or its hop.                  *)
LEMMA HopEnds ==
    ASSUME ExpansionAssumption, Expander!ExpansionInv, UNCHANGED <<claims, ready>>, expansion.status = "walking",
           expansion' \in Expander!Walks, expansion'.visited = expansion.visited, expansion'.pending = {},
           expansion'.seen = expansion.seen, expansion'.status \in {"walking", "returned"},
           expansion'.seeds = expansion.seeds, expansion'.passages = expansion.passages,
           expansion'.projected = expansion.projected, expansion'.matching = expansion.matching,
           expansion'.began = expansion.began,
           \/ expansion'.hop = expansion.hop /\ expansion'.next = expansion.next /\ expansion'.frontier = expansion.frontier
           \/ expansion'.hop # 1 /\ expansion'.frontier \subseteq Expander!EntitiesOf(Expander!Near(ready)),
           Expander!Unlimited => Expander!VisitedInv'
    PROVE  Expander!ExpansionInv'
<1>1. /\ Expander!EntitiesOf(Expander!Near(ready))' = Expander!EntitiesOf(Expander!Near(ready))
      /\ \A hops : Expander!Within(ready, hops)' = Expander!Within(ready, hops)
      /\ Expander!Usable(expansion.began)' = Expander!Usable(expansion.began)
      /\ \A x : Expander!Touching(expansion.projected, x)' = Expander!Touching(expansion.projected, x)
    BY ReachStays
<1>2. Expander!WalkType'
    BY ExpansionFacts, ExpanderCardinality DEF Expander!WalkType
<1>3. Expander!FrontierInv'
    BY <1>1 DEF Expander!ExpansionInv, Expander!FrontierInv
<1>4. Expander!SeenInv'
    BY <1>1 DEF Expander!ExpansionInv, Expander!SeenInv, Expander!Speaks
<1>5. Expander!Unlimited' => Expander!Unlimited
    BY <1>1 DEF Expander!Unlimited
<1>6. /\ \A p \in expansion'.passages : p.fact \in Expander!Within(ready, p.hop)'
      /\ \A p, q \in expansion'.passages : p.chunk = q.chunk => p = q
    BY <1>1 DEF Expander!ExpansionInv, Expander!ExpansionGrounded
<1>7. /\ Cardinality(expansion'.passages) <= MaxPassages /\ Cardinality(expansion'.passages) < MaxPassages
      /\ Cardinality(expansion'.visited) <= MaxVisited
    BY ExpansionFacts, ExpanderCardinality DEF Expander!ExpansionInv
<1> QED BY <1>2, <1>3, <1>4, <1>5, <1>6, <1>7, WalkIsSound

LEMMA WalkReturns ==
    ASSUME ExpansionAssumption, Expander!ExpansionInv, Expander!NextHop, expansion.hop = MaxHop
    PROVE  Expander!ExpansionInv'
<1>1. /\ expansion.status = "walking" /\ expansion.pending = {} /\ ~Expander!MayVisit /\ UNCHANGED <<claims, ready>>
      /\ expansion' = [expansion EXCEPT !.status = "returned"]
    BY DEF Expander!NextHop
<1>2. expansion \in Expander!Walks
    BY ExpansionFacts
<1>3. /\ expansion' \in Expander!Walks /\ expansion'.visited = expansion.visited /\ expansion'.pending = {}
      /\ expansion'.seen = expansion.seen /\ expansion'.status = "returned" /\ expansion'.seeds = expansion.seeds
      /\ expansion'.hop = expansion.hop /\ expansion'.next = expansion.next /\ expansion'.frontier = expansion.frontier
      /\ expansion'.passages = expansion.passages /\ expansion'.projected = expansion.projected
      /\ expansion'.matching = expansion.matching /\ expansion'.began = expansion.began
    BY <1>1, <1>2 DEF Expander!Walks
<1>4. ASSUME Expander!Unlimited PROVE Expander!VisitedInv'
  <2>1. /\ Expander!VisitedInv /\ expansion.frontier \subseteq expansion.visited
        /\ \A f \in Expander!Usable(expansion.began) :
             claims[f] \cap expansion.visited # {} => f \in expansion.seen
      BY <1>1, <1>4, FrontierDone
  <2>2. ASSUME NEW f \in Expander!Near(expansion.began) PROVE f \in expansion.seen
    <3>1. CASE expansion.hop = 1
      <4>1. expansion.seeds \subseteq expansion.visited
          BY <2>1, <3>1 DEF Expander!ExpansionInv, Expander!FrontierInv
      <4> QED BY <2>1, <4>1 DEF Expander!Near, Expander!Joined
    <3>2. CASE expansion.hop # 1
        BY <2>1, <3>2 DEF Expander!VisitedInv
    <3> QED BY <3>1, <3>2
  <2>3. ASSUME NEW f \in Expander!Within(expansion.began, MaxHop) PROVE f \in expansion.seen
    <3>1. CASE f \in Expander!Near(expansion.began)
        BY <2>2, <3>1
    <3>2. CASE f \notin Expander!Near(expansion.began)
      <4>1. /\ expansion.hop # 1
            /\ f \in Expander!Joined(expansion.began, Expander!EntitiesOf(Expander!Near(expansion.began)))
          BY <2>3, <3>2 DEF Expander!Within
      <4>2. f \in Expander!Usable(expansion.began)
          BY <4>1 DEF Expander!Joined
      <4>3. PICK e \in claims[f] : e \in Expander!EntitiesOf(Expander!Near(expansion.began))
          BY <4>1 DEF Expander!Joined
      <4>4. PICK g \in Expander!Near(expansion.began) : e \in claims[g]
          BY <4>3, EntityOf
      <4>5. e \in expansion.visited
          BY <2>1, <4>1, <4>4 DEF Expander!VisitedInv
      <4> QED BY <2>1, <4>2, <4>5
    <3> QED BY <3>1, <3>2
  <2>4. /\ Expander!Near(expansion.began)' = Expander!Near(expansion.began)
        /\ Expander!Within(expansion.began, MaxHop)' = Expander!Within(expansion.began, MaxHop)
        /\ \A x : Expander!Touching(expansion.projected, x)' = Expander!Touching(expansion.projected, x)
      BY <1>1, <1>3, ReachStays
  <2> QED BY <1>1, <1>3, <2>1, <2>3, <2>4 DEF Expander!VisitedInv
<1> QED BY <1>1, <1>3, <1>4, HopEnds

LEMMA HopBegins ==
    ASSUME ExpansionAssumption, Expander!ExpansionInv, Expander!NextHop, expansion.hop # MaxHop
    PROVE  Expander!ExpansionInv'
<1>1. PICK frontier : frontier = Expander!Lowest(FrontierLimit, expansion.next \ expansion.visited)
    OBVIOUS
<1>2. /\ expansion.status = "walking" /\ expansion.pending = {} /\ ~Expander!MayVisit /\ UNCHANGED <<claims, ready>>
      /\ expansion' = [expansion EXCEPT !.hop = @ + 1, !.next = {}, !.frontier = frontier]
    BY <1>1 DEF Expander!NextHop
<1>3. expansion \in Expander!Walks
    BY ExpansionFacts
<1>4. /\ expansion.hop = 1 /\ MaxHop = 2
      /\ expansion.next \in SUBSET Entities
    BY <1>3 DEF Expander!Walks, ExpansionAssumption
<1>5. expansion.next \ expansion.visited \in SUBSET Entities
    BY <1>4
<1>6. expansion.next \ expansion.visited \in SUBSET Nat /\ IsFiniteSet(expansion.next \ expansion.visited)
    BY <1>5, FS_Subset DEF ExpansionAssumption
<1>7. /\ frontier \subseteq expansion.next \ expansion.visited
      /\ Cardinality(expansion.next \ expansion.visited) <= FrontierLimit =>
           frontier = expansion.next \ expansion.visited
    BY <1>1, <1>6, LowestOf DEF ExpansionAssumption
<1>8. frontier \in SUBSET Entities
    BY <1>5, <1>7
<1>9. /\ expansion' \in Expander!Walks /\ expansion'.visited = expansion.visited /\ expansion'.pending = {}
      /\ expansion'.seen = expansion.seen /\ expansion'.status = "walking" /\ expansion'.seeds = expansion.seeds
      /\ expansion'.hop = 2 /\ expansion'.frontier = frontier
      /\ expansion'.passages = expansion.passages /\ expansion'.projected = expansion.projected
      /\ expansion'.matching = expansion.matching /\ expansion'.began = expansion.began
  <2>1. expansion' = [expansion EXCEPT !.hop = 2, !.next = {}, !.frontier = frontier]
      BY <1>2, <1>4
  <2>2. 2 \in {1, MaxHop} /\ {} \in SUBSET Entities
      BY <1>4
  <2> QED BY <1>2, <1>3, <1>8, <2>1, <2>2 DEF Expander!Walks
<1>10. frontier \subseteq Expander!EntitiesOf(Expander!Near(ready))
    BY <1>4, <1>7 DEF Expander!ExpansionInv, Expander!FrontierInv
<1>11. ASSUME Expander!Unlimited PROVE Expander!VisitedInv'
  <2>1. /\ Expander!VisitedInv /\ expansion.frontier \subseteq expansion.visited
        /\ \A f \in Expander!Usable(expansion.began) :
             claims[f] \cap expansion.visited # {} => f \in expansion.seen
      BY <1>2, <1>11, FrontierDone
  <2>2. Cardinality(expansion.next \ expansion.visited) <= FrontierLimit
    <3>1. FrontierLimit >= Cardinality(Entities)
        BY <1>11, ExpanderCardinality DEF Expander!Unlimited
    <3>2. /\ Cardinality(expansion.next \ expansion.visited) <= Cardinality(Entities)
          /\ Cardinality(expansion.next \ expansion.visited) \in Nat /\ Cardinality(Entities) \in Nat
        BY <1>5, <1>6, FS_Subset, FS_CardinalityType DEF ExpansionAssumption
    <3> QED BY <3>1, <3>2 DEF ExpansionAssumption
  <2>3. frontier = expansion.next \ expansion.visited
      BY <1>7, <2>2
  <2>4. ASSUME NEW f \in Expander!Near(expansion.began)
        PROVE  f \in expansion.seen /\ claims[f] \subseteq expansion.visited \cup frontier
    <3>1. f \in Expander!Usable(expansion.began) /\ claims[f] \cap expansion.seeds # {}
        BY DEF Expander!Near, Expander!Joined
    <3>2. expansion.seeds \subseteq expansion.visited
        BY <1>4, <2>1 DEF Expander!ExpansionInv, Expander!FrontierInv
    <3>3. f \in expansion.seen
        BY <2>1, <3>1, <3>2
    <3>4. claims[f] \subseteq expansion.next
        BY <1>2, <1>4, <3>1, <3>3 DEF Expander!ExpansionInv, Expander!SeenInv
    <3> QED BY <2>3, <3>3, <3>4
  <2>5. /\ Expander!Near(expansion.began)' = Expander!Near(expansion.began)
        /\ \A x : Expander!Touching(expansion.projected, x)' = Expander!Touching(expansion.projected, x)
      BY <1>2, <1>9, ReachStays
  <2> QED BY <1>2, <1>9, <2>1, <2>4, <2>5 DEF Expander!VisitedInv
<1> QED BY <1>2, <1>9, <1>10, <1>11, HopEnds

LEMMA WalkFails == ExpansionAssumption /\ Expander!ExpansionInv /\ Expander!ExpandFails => Expander!ExpansionInv'
<1> SUFFICES ASSUME ExpansionAssumption, Expander!ExpansionInv, Expander!ExpandFails PROVE Expander!ExpansionInv'
    OBVIOUS
<1>1. /\ UNCHANGED <<claims, ready>>
      /\ expansion' = [expansion EXCEPT !.status = "raised", !.pending = {}, !.passages = {}]
    BY DEF Expander!ExpandFails
<1>2. expansion \in Expander!Walks
    BY ExpansionFacts
<1>3. /\ expansion' \in Expander!Walks /\ expansion'.visited = expansion.visited /\ expansion'.pending = {}
      /\ expansion'.status = "raised" /\ expansion'.seeds = expansion.seeds /\ expansion'.hop = expansion.hop
      /\ expansion'.next = expansion.next /\ expansion'.frontier = expansion.frontier
      /\ expansion'.passages = {} /\ expansion'.projected = expansion.projected
      /\ expansion'.matching = expansion.matching /\ expansion'.began = expansion.began
    BY <1>1, <1>2 DEF Expander!Walks
<1>4. Expander!EntitiesOf(Expander!Near(ready))' = Expander!EntitiesOf(Expander!Near(ready))
    BY <1>1, <1>3, ReachStays
<1>5. IsFiniteSet(expansion'.passages) /\ Cardinality(expansion'.passages) = 0
    BY <1>3, FS_EmptySet
<1>6. Expander!WalkType'
    BY <1>1, <1>3, <1>5, ExpansionFacts, ExpanderCardinality DEF Expander!WalkType
<1>7. Expander!FrontierInv'
    BY <1>3, <1>4 DEF Expander!ExpansionInv, Expander!FrontierInv
<1>8. Cardinality(expansion'.passages) <= MaxPassages /\ Cardinality(expansion'.visited) <= MaxVisited
    BY <1>3, <1>5, ExpansionFacts DEF ExpansionAssumption
<1> QED BY <1>3, <1>6, <1>7, <1>8, WalkIsSound

LEMMA ExpansionStep ==
    ExpansionAssumption /\ Expander!ExpansionInv /\ [Expander!Next]_<<claims, ready, expansion>>
      => Expander!ExpansionInv'
<1> SUFFICES ASSUME ExpansionAssumption, Expander!ExpansionInv, [Expander!Next]_<<claims, ready, expansion>>
             PROVE  Expander!ExpansionInv'
    OBVIOUS
<1>1. CASE Expander!Visit
    BY <1>1, EntityVisited
<1>2. CASE Expander!Resolve
    BY <1>2, FactResolved
<1>3. CASE Expander!NextHop
    BY <1>3, WalkReturns, HopBegins
<1>4. CASE Expander!ExpandFails
    BY <1>4, WalkFails
<1>5. CASE \E f \in Facts : Expander!Publish(f)
    BY <1>5, FactsPublished
<1>6. CASE UNCHANGED <<claims, ready, expansion>>
  <2>1. /\ Expander!EntitiesOf(Expander!Near(ready))' = Expander!EntitiesOf(Expander!Near(ready))
        /\ \A hops : Expander!Within(ready, hops)' = Expander!Within(ready, hops)
        /\ Expander!Usable(expansion.began)' = Expander!Usable(expansion.began)
        /\ Expander!Near(expansion.began)' = Expander!Near(expansion.began)
        /\ Expander!Within(expansion.began, MaxHop)' = Expander!Within(expansion.began, MaxHop)
        /\ \A x : Expander!Touching(expansion.projected, x)' = Expander!Touching(expansion.projected, x)
      BY <1>6, ReachStays
  <2>2. Expander!WalkType' /\ Expander!FrontierInv'
      BY <1>6, <2>1 DEF Expander!ExpansionInv, Expander!WalkType, Expander!FrontierInv
  <2>3. Expander!Unlimited' => Expander!Unlimited
      BY <1>6, <2>1 DEF Expander!Unlimited
  <2>4. (Expander!SeenInv => Expander!SeenInv') /\ (Expander!VisitedInv => Expander!VisitedInv')
      BY <1>6, <2>1 DEF Expander!SeenInv, Expander!VisitedInv, Expander!Speaks
  <2>5. /\ \A p \in expansion'.passages : p.fact \in Expander!Within(ready, p.hop)'
        /\ \A p, q \in expansion'.passages : p.chunk = q.chunk => p = q
      BY <1>6, <2>1 DEF Expander!ExpansionInv, Expander!ExpansionGrounded
  <2>6. /\ expansion.status # "raised" => Expander!SeenInv /\ (Expander!Unlimited => Expander!VisitedInv)
        /\ expansion.status = "walking" => Cardinality(expansion.passages) < MaxPassages
      BY ExpanderCardinality DEF Expander!ExpansionInv
  <2> QED BY <1>6, <2>2, <2>3, <2>4, <2>5, <2>6, ExpansionFacts, WalkIsSound
<1> QED BY <1>1, <1>2, <1>3, <1>4, <1>5, <1>6 DEF Expander!Next

(* Whatever the projection holds and while jobs commit: a passage is of a  *)
(* ready, matching fact that is connected to a seed within its hop, and a  *)
(* walk that no limit cut short has a passage of every chunk that was      *)
(* within reach when it began.                                             *)
THEOREM WalksAreGrounded == Expander!Spec => []ExpansionGrounded
<1>1. ExpansionAssumption
    BY ExpansionAssumption
<1>2. Expander!ExpansionInv => ExpansionGrounded
    BY DEF Expander!ExpansionInv, ExpansionGrounded
<1> QED BY <1>1, <1>2, ExpansionInit, ExpansionStep, PTL DEF Expander!Spec
===============================================================================
