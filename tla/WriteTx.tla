------------------------------- MODULE WriteTx -------------------------------
(***************************************************************************)
(* The part that single-writer and optimistic transactions share           *)
(* (src/src/tx/write_tx.rs): a memtable of its own in front of a snapshot. *)
(*                                                                         *)
(* A store maps keys to what is stored, Tomb for a tombstone; keys without *)
(* an entry are outside its domain.  The transaction's memtable is the     *)
(* sequence of its writes, whose places are its sequence numbers.          *)
(***************************************************************************)
EXTENDS Integers, SequencesExt, TLC

CONSTANTS
    Tomb,     \* a tombstone
    Absent    \* no value

Empty == <<>>

\* What a store, newest layer first, holds for a key.
Lookup(store, key) ==
    IF key \in DOMAIN store /\ store[key] # Tomb THEN store[key] ELSE Absent

Live(store) == {key \in DOMAIN store : store[key] # Tomb}

\* BaseTransaction::new.
NewTx(snapshot) == [memtable |-> <<>>, snapshot |-> snapshot]

\* BaseTransaction::insert and remove.
TxInsert(tx, key, value) == [tx EXCEPT !.memtable = Append(@, [key |-> key, value |-> value])]
TxRemove(tx, key) == [tx EXCEPT !.memtable = Append(@, [key |-> key, value |-> Tomb])]

\* The newest write to each key, which is what readers of the memtable meet and
\* what commit puts into the batch.
Written(memtable) == FoldLeft(LAMBDA acc, w : (w.key :> w.value) @@ acc, Empty, memtable)

\* BaseTransaction::commit: the batch, one item per key.
CommitItems(tx) == Written(tx.memtable)

\* BaseTransaction::range: the memtable over the snapshot.
TxView(tx) == Written(tx.memtable) @@ tx.snapshot

\* BaseTransaction::get: the memtable's entry, a tombstone hiding the tree's;
\* else the tree's at the snapshot.
TxGet(tx, key) == Lookup(TxView(tx), key)
=============================================================================
