-------------------------- MODULE MCSnapshotTracker --------------------------
(* Instance of SnapshotTracker for TLC.  No symmetry: the run checks liveness. *)
EXTENDS SnapshotTracker
=============================================================================
