-------------------------- MODULE MCArtifactStore --------------------------
(* Constants of the TLC runs of ArtifactStore.                             *)
EXTENDS ArtifactStore

CONSTANTS w1, w2, c1, c2
=============================================================================
