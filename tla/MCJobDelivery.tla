--------------------------- MODULE MCJobDelivery ---------------------------
(* Constants of the TLC runs of JobDelivery.                               *)
EXTENDS JobDelivery, TLC

CONSTANTS j1, j2, w1, w2

(* What a foreign producer may put on the stream: an event that does not   *)
(* parse, one for a job that does not exist, one of the wrong type.        *)
AnyForeign == {[job |-> NoJob, shape |-> "malformed"], [job |-> NoJob, shape |-> "ok"],
               [job |-> j1, shape |-> "mismatch"]}

WorkerSymmetry == Permutations(Workers)
=============================================================================
