---------------------------- MODULE MCReconQueue ---------------------------
(* Instances of ReconQueue for TLC. *)
EXTENDS ReconQueue, TLC

CONSTANTS j1, j2, w1, w2, e1, e2

(* Two jobs of one ingest. *)
MCSharedIngest == [j \in Jobs |-> Lines]
=============================================================================
