---------------------------- MODULE MCWorkerPool ----------------------------
(* WorkerPool for TLC: the bounds are given in the configurations. *)
EXTENDS WorkerPool
=============================================================================
