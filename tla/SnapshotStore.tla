---------------------------- MODULE SnapshotStore ----------------------------
(***************************************************************************)
(* What the write path promises its readers, without locks, sequence       *)
(* numbers or memtables: batches take effect one at a time and as a whole, *)
(* and a snapshot answers every read from the batches that had taken       *)
(* effect when it was opened.                                              *)
(***************************************************************************)
EXTENDS Integers, Sequences

CONSTANTS Snap, Key

VARIABLES
    log,    \* the batches in the order they took effect: each the keys it wrote
    cut,    \* per snapshot: how many batches it sees, or Closed
    answer  \* per snapshot: its last read, <<key, index of the batch read>>

Closed == -1
NoAnswer == <<>>

storeVars == <<log, cut, answer>>

\* The batch that wrote what k holds after the first n batches; 0 if none did.
LastBatch(k, n) ==
    LET writers == {i \in 1..n : k \in log[i]}
    IN  IF writers = {} THEN 0
        ELSE CHOOSE i \in writers : \A j \in writers : j <= i

StoreInit ==
    /\ log = <<>>
    /\ cut = [s \in Snap |-> Closed]
    /\ answer = [s \in Snap |-> NoAnswer]

Commit(keys) ==
    /\ log' = Append(log, keys)
    /\ UNCHANGED <<cut, answer>>

Open(s) ==
    /\ cut[s] = Closed
    /\ cut' = [cut EXCEPT ![s] = Len(log)]
    /\ UNCHANGED <<log, answer>>

ReadKey(s, k) ==
    /\ cut[s] # Closed
    /\ answer' = [answer EXCEPT ![s] = <<k, LastBatch(k, cut[s])>>]
    /\ UNCHANGED <<log, cut>>

Close(s) ==
    /\ cut[s] # Closed
    /\ cut' = [cut EXCEPT ![s] = Closed]
    /\ answer' = [answer EXCEPT ![s] = NoAnswer]
    /\ UNCHANGED log

StoreNext ==
    \/ \E keys \in SUBSET Key : Commit(keys)
    \/ \E s \in Snap : Open(s) \/ Close(s)
    \/ \E s \in Snap, k \in Key : ReadKey(s, k)

StoreSpec == StoreInit /\ [][StoreNext]_storeVars
=============================================================================
