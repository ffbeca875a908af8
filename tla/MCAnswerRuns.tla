---------------------------- MODULE MCAnswerRuns ----------------------------
(* Constants of the TLC runs of AnswerRuns.                                *)
EXTENDS AnswerRuns

CONSTANTS r1, c1, c2, m1
=============================================================================
