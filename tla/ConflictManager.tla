--------------------------- MODULE ConflictManager ---------------------------
(***************************************************************************)
(* What a transaction has read, as src/src/tx/optimistic/                  *)
(* conflict_manager.rs keeps it: single keys, ranges with bounds, or all.  *)
(* A key is its place in the order of keys.                                *)
(***************************************************************************)
EXTENDS Integers

Included(k) == [kind |-> "included", key |-> k]
Excluded(k) == [kind |-> "excluded", key |-> k]
Unbounded == [kind |-> "unbounded", key |-> 0]

\* External: std::ops::Bound of a key.
IsBound(b) == b = Unbounded \/ (b.key \in Nat /\ b \in {Included(b.key), Excluded(b.key)})

\* Read::Single, Read::Range and Read::All.
Single(k) == [start |-> Included(k), end |-> Included(k), all |-> FALSE]
Between(start, end) == [start |-> start, end |-> end, all |-> FALSE]
All == [start |-> Unbounded, end |-> Unbounded, all |-> TRUE]

\* mark_range
MarkRange(start, end) == IF start = Unbounded /\ end = Unbounded THEN All ELSE Between(start, end)

\* The two halves of the match on a range's bounds.
FromStart(start, k) ==
    CASE start.kind = "included" -> k >= start.key
      [] start.kind = "excluded" -> k > start.key
      [] start.kind = "unbounded" -> TRUE
ToEnd(end, k) ==
    CASE end.kind = "included" -> k <= end.key
      [] end.kind = "excluded" -> k < end.key
      [] end.kind = "unbounded" -> TRUE

\* has_conflict: one of the other's conflict keys is in something read.
HasConflictWith(reads, conflict_keys) ==
    \E read \in reads, k \in conflict_keys : read.all \/ (FromStart(read.start, k) /\ ToEnd(read.end, k))

\* External: the keys of a tree within bounds that are not inverted, as an
\* iterator over the tree or the transaction's memtable meets them.
KeysIn(keys, start, end) ==
    {k \in keys : /\ start # Unbounded => k > start.key \/ (k = start.key /\ start = Included(k))
                  /\ end # Unbounded => k < end.key \/ (k = end.key /\ end = Included(k))}
=============================================================================
