--------------------------- MODULE EmbeddingBatch ---------------------------
(***************************************************************************)
(* EmbeddingBatcher.embed: requests go to the provider in batches, one     *)
(* batch after the other, the calls of a batch concurrently; the first     *)
(* failure, or the cancellation of embed itself, cancels the calls that    *)
(* are still running and is raised when they have ended.                   *)
(***************************************************************************)
EXTENDS Naturals, FiniteSets

CONSTANTS
    MaxRequests,   \* bound: requests of a call
    MaxBatchSize, MaxConcurrency

VARIABLES
    batching,   \* the call: its state, requests, requests of finished batches, and failed request (0: cancelled)
    embedding   \* per request: its task

Init ==
    /\ batching \in [state : {"running"}, size : 0..MaxRequests, offset : {0}, error : {0}]
    /\ embedding = [i \in 1..MaxRequests |-> "waiting"]

CurrentBatch == {i \in 1..batching.size : batching.offset < i /\ i <= batching.offset + MaxBatchSize}
Are(states) == {i \in CurrentBatch : embedding[i] \in states}
Least(S) == CHOOSE i \in S : \A j \in S : i <= j

(* The semaphore is fair: tasks enter in the order of their requests. *)
CallProvider ==
    /\ batching.state = "running" /\ Are({"waiting"}) # {}
    /\ Cardinality(Are({"calling"})) < MaxConcurrency
    /\ embedding' = [embedding EXCEPT ![Least(Are({"waiting"}))] = "calling"]
    /\ UNCHANGED batching

(* The provider returns, or it raises or its result is refused. *)
Answered(i) ==
    /\ i \in Are({"calling"})
    /\ \E state \in {"done", "failed"} : embedding' = [embedding EXCEPT ![i] = state]
    /\ UNCHANGED batching

(* A cancelled provider may still finish its own way. *)
Stopped(i) ==
    /\ i \in Are({"stopping"})
    /\ \E state \in {"done", "failed", "cancelled"} : embedding' = [embedding EXCEPT ![i] = state]
    /\ UNCHANGED batching

BatchDone ==
    /\ batching.state = "running" /\ Are({"done"}) = CurrentBatch
    /\ batching' = IF batching.offset + Cardinality(CurrentBatch) = batching.size
                   THEN [batching EXCEPT !.state = "returned", !.offset = @ + Cardinality(CurrentBatch)]
                   ELSE [batching EXCEPT !.offset = @ + Cardinality(CurrentBatch)]
    /\ UNCHANGED embedding

CancelTasks(error) ==
    /\ batching' = [batching EXCEPT !.state = "cancelling", !.error = error]
    /\ embedding' = [i \in DOMAIN embedding |->
                       CASE i \in Are({"waiting"}) -> "cancelled"
                         [] i \in Are({"calling"}) -> "stopping"
                         [] OTHER -> embedding[i]]

(* Several tasks may have failed before embed is resumed: the first counts. *)
BatchFails ==
    /\ batching.state = "running" /\ Are({"failed"}) # {}
    /\ CancelTasks(Least(Are({"failed"})))

(* embed is cancelled; a second cancellation hides the failure. *)
CancelEmbed ==
    \/ batching.state = "running" /\ CurrentBatch # {} /\ CancelTasks(0)
    \/ batching.state = "cancelling" /\ batching' = [batching EXCEPT !.error = 0] /\ UNCHANGED embedding

(* Mutant: the cancelled tasks are not awaited. *)
RaiseAtOnce ==
    /\ batching.state = "cancelling"
    /\ batching' = [batching EXCEPT !.state = "raised"]
    /\ UNCHANGED embedding

Raise ==
    /\ batching.state = "cancelling" /\ Are({"stopping"}) = {}
    /\ batching' = [batching EXCEPT !.state = "raised"]
    /\ UNCHANGED embedding

Next ==
    \/ \E i \in 1..MaxRequests : Answered(i) \/ Stopped(i)
    \/ CallProvider \/ BatchDone \/ BatchFails \/ CancelEmbed \/ Raise

Spec == Init /\ [][Next]_<<batching, embedding>>

-----------------------------------------------------------------------------
(* All results or none, and no call outlives embed: when it returns every  *)
(* request has its result, when it raises no task is left that could still *)
(* call the provider, and the failure it names did happen; the provider    *)
(* never has more calls than it was promised.                              *)
BatchAccounted ==
    /\ Cardinality({i \in DOMAIN embedding : embedding[i] \in {"calling", "stopping"}}) <= MaxConcurrency
    /\ \A i \in 1..batching.offset : embedding[i] = "done"
    /\ batching.state = "returned" => batching.offset = batching.size
    /\ batching.state = "raised" =>
         /\ Are({"waiting", "calling", "stopping"}) = {}
         /\ batching.error # 0 => embedding[batching.error] = "failed"

-----------------------------------------------------------------------------
(* Inductive: what BatchAccounted rests on. *)
TaskStates == {"waiting", "calling", "stopping", "done", "failed", "cancelled"}

BatchType ==
    /\ batching \in [state : {"running", "returned", "cancelling", "raised"}, size : 0..MaxRequests,
                     offset : 0..MaxRequests, error : 0..MaxRequests]
    /\ embedding \in [1..MaxRequests -> TaskStates]

(* Tasks exist up to the end of the current batch; those of the batches    *)
(* before it are done; only a batch that is cancelled has stopped tasks,   *)
(* and it starts none.                                                     *)
TasksInv ==
    /\ batching.offset <= batching.size
    /\ \A i \in 1..MaxRequests :
         /\ i <= batching.offset => embedding[i] = "done"
         /\ embedding[i] # "waiting" => i <= batching.offset \/ i \in CurrentBatch
    /\ batching.state = "running" => \A i \in 1..MaxRequests : embedding[i] \notin {"stopping", "cancelled"}
    /\ batching.state # "running" => \A i \in CurrentBatch : embedding[i] \notin {"waiting", "calling"}
    /\ batching.state = "cancelling" /\ batching.error # 0 => embedding[batching.error] = "failed"

BatchInv == BatchType /\ TasksInv /\ BatchAccounted
=============================================================================
