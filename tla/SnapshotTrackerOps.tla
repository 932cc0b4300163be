------------------------- MODULE SnapshotTrackerOps -------------------------
(***************************************************************************)
(* The arithmetic of src/src/snapshot_tracker.rs, shared by every module   *)
(* whose component opens, closes or collects snapshots.                    *)
(*                                                                         *)
(* The tracker's DashMap<SeqNo, usize> is the pair of a set entries (the   *)
(* keys present) and a function count (the value under each key, 0 for a   *)
(* key that is absent).                                                    *)
(***************************************************************************)
EXTENDS Integers

\* u64::saturating_sub(1)
SatSub1(n) == IF n = 0 THEN 0 ELSE n - 1

\* AtomicU64::fetch_max
FetchMax(a, b) == IF a < b THEN b ELSE a

\* Mutant: the sweep keeps entries whose snapshots are all closed.
RetainedAll(entries, count, threshold) == entries

\* The keys gc() keeps: a snapshot is open there, or the key is not below the
\* sequence number at the time of the sweep.
Retained(entries, count, threshold) ==
    {k \in entries : count[k] > 0 \/ k >= threshold}

\* What the sweep may leave in lowest_retained.  The running minimum uses 0 as
\* "nothing seen yet", and the DashMap is swept in hash order: when key 0 is
\* retained, the minimum restarts behind it, so any retained key can result.
LowestRetained(retained, threshold) ==
    IF retained = {} THEN {threshold}
    ELSE IF 0 \in retained THEN retained
    ELSE {k \in retained : \A j \in retained : k <= j}
=============================================================================
