---------------------------- MODULE MCWorkerLoop ----------------------------
(* A small worker for TLC. *)
EXTENDS WorkerLoop, TLC
=============================================================================
