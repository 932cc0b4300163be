---------------------------- MODULE OptimisticTx ----------------------------
(***************************************************************************)
(* Optimistic transactions: the oracle (src/src/tx/optimistic/oracle.rs),  *)
(* the write transaction over it (tx/optimistic/write_tx.rs and            *)
(* tx/write_tx.rs), the conflict manager's sets, and the snapshot tracker  *)
(* and compactions they depend on.                                         *)
(*                                                                         *)
(* A version of a key is identified by the transaction that wrote it; a    *)
(* removal is a version like any other.  Keys are numbered in their order. *)
(***************************************************************************)
EXTENDS SnapshotTrackerOps, ConflictManager, FiniteSets

CONSTANTS
    Tx,         \* transactions; begun again only after a conflict
    Key,
    Workloads,  \* what the application does: the bounds of the ranges and
                \* prefixes it reads, as pairs, and whether it retries after a
                \* conflict; with a bound on the transactions begun
    MaxSeqno,   \* bound on sequence numbers
    MaxKeys     \* bound on reads noted plus keys written before an operation

ASSUME TxAssumption == IsFiniteSet(Tx) /\ Key \subseteq Nat
ASSUME WorkloadAssumption == \A w \in Workloads : \A r \in w.ranges : IsBound(r[1]) /\ IsBound(r[2])
ASSUME OptBoundsAssumption == MaxSeqno \in Nat \ {0} /\ MaxKeys \in Nat

SeqNo == 0..MaxSeqno

Initial == "initial"    \* the writer of what every key holds at the start
Missing == "missing"    \* read where no version is left
Nobody == "nobody"
ASSUME NamesAssumption == {Initial, Missing, Nobody} \cap Tx = {}

VARIABLES
    workload,
    seqno,          \* the visible sequence number
    versions,       \* per key: the set of <<sequence number, writer>> kept
    entries, count, watermark,  \* the snapshot tracker
    poisoned,       \* Database::is_poisoned
    lock,           \* holder of Oracle.write_serialize_lock
    committed_txns, \* Oracle's map: set of <<timestamp, conflict_keys>>
    status,         \* per transaction: new, active, applying, recording, closing,
                    \* committed, conflicted, failed, rolled_back
    instant,        \* per transaction: its snapshot
    memtable,       \* per transaction: keys it has written (read-your-own-writes)
    reads,          \* per transaction: ConflictManager.reads
    conflict_keys,  \* per transaction: ConflictManager.conflict_keys
    observed,       \* history: <<key, writer>> pairs the snapshot returned
    commit_seqno    \* history: the sequence number of its batch

store == <<seqno, versions, poisoned>>
tracker == <<entries, count, watermark>>
oracle == <<lock, committed_txns>>
local == <<instant, memtable, reads, conflict_keys, observed>>
vars == <<workload, store, tracker, oracle, status, local, commit_seqno>>

\* Opening the database and creating a keyspace has used sequence number 0.
Init ==
    /\ workload \in Workloads
    /\ seqno = 1
    /\ versions = [k \in Key |-> {<<0, Initial>>}]
    /\ entries = {} /\ count = [i \in SeqNo |-> 0] /\ watermark = 0
    /\ poisoned = FALSE
    /\ lock = Nobody /\ committed_txns = {}
    /\ status = [t \in Tx |-> "new"]
    /\ instant = [t \in Tx |-> 0]
    /\ memtable = [t \in Tx |-> {}]
    /\ reads = [t \in Tx |-> {}]
    /\ conflict_keys = [t \in Tx |-> {}]
    /\ observed = [t \in Tx |-> {}]
    /\ commit_seqno = [t \in Tx |-> 0]

-----------------------------------------------------------------------------
\* The tracker as the transactions use it (module SnapshotTracker models it
\* step by step).
TrackerOpen(i) ==
    /\ entries' = entries \cup {i}
    /\ count' = [count EXCEPT ![i] = @ + 1]
    /\ UNCHANGED watermark

TrackerClose(i) ==
    /\ count' = [count EXCEPT ![i] = SatSub1(@)]
    /\ UNCHANGED <<entries, watermark>>

\* A read of the tree at a snapshot: the newest version below it.
TreeGet(k, i) ==
    LET below == {v \in versions[k] : v[1] < i}
    IN  IF below = {} THEN Missing
        ELSE (CHOOSE v \in below : \A w \in below : w[1] <= v[1])[2]

\* BaseTransaction::get and the iterators: own writes first, then the snapshot.
ObservedIn(t, keys) == {<<k, TreeGet(k, instant[t])>> : k \in keys \ memtable[t]}

\* The transaction is open for another operation.
Active(t) ==
    /\ status[t] = "active"
    /\ Cardinality(reads[t]) + Cardinality(memtable[t]) <= MaxKeys

\* OptimisticTxDatabase::write_tx: the snapshot is opened under the commit lock.
WriteTx(t) ==
    /\ status[t] = "new" /\ Cardinality({u \in Tx : status[u] # "new"}) < workload.transactions
    /\ lock = Nobody
    /\ status' = [status EXCEPT ![t] = "active"]
    /\ instant' = [instant EXCEPT ![t] = seqno]
    /\ TrackerOpen(seqno)
    /\ UNCHANGED <<store, oracle, memtable, reads, conflict_keys, observed, commit_seqno, workload>>

\* Mutant: the key is not entered into the conflict manager (as in size_of).
GetUnmarked(t, k) ==
    /\ Active(t)
    /\ observed' = [observed EXCEPT ![t] = @ \cup ObservedIn(t, {k})]
    /\ UNCHANGED <<store, tracker, oracle, status, instant, memtable, reads, conflict_keys, commit_seqno, workload>>

\* get and contains_key.
Get(t, k) ==
    /\ Active(t)
    /\ observed' = [observed EXCEPT ![t] = @ \cup ObservedIn(t, {k})]
    /\ reads' = [reads EXCEPT ![t] = @ \cup {Single(k)}]
    /\ UNCHANGED <<store, tracker, oracle, status, instant, memtable, conflict_keys, commit_seqno, workload>>

\* range, prefix and iter, and first_key_value and last_key_value over iter.
Scan(t, start, end) ==
    /\ Active(t)
    /\ observed' = [observed EXCEPT ![t] = @ \cup ObservedIn(t, KeysIn(Key, start, end))]
    /\ reads' = [reads EXCEPT ![t] = @ \cup {MarkRange(start, end)}]
    /\ UNCHANGED <<store, tracker, oracle, status, instant, memtable, conflict_keys, commit_seqno, workload>>

\* insert, remove and remove_weak: blind writes.
Insert(t, k) ==
    /\ Active(t)
    /\ memtable' = [memtable EXCEPT ![t] = @ \cup {k}]
    /\ conflict_keys' = [conflict_keys EXCEPT ![t] = @ \cup {k}]
    /\ UNCHANGED <<store, tracker, oracle, status, instant, reads, observed, commit_seqno, workload>>

\* update_fetch, fetch_update and take: a read and a write; the write is
\* skipped when the value does not change, the marks are not.
UpdateFetch(t, k, changed) ==
    /\ Active(t)
    /\ observed' = [observed EXCEPT ![t] = @ \cup ObservedIn(t, {k})]
    /\ memtable' = [memtable EXCEPT ![t] = IF changed THEN @ \cup {k} ELSE @]
    /\ reads' = [reads EXCEPT ![t] = @ \cup {Single(k)}]
    /\ conflict_keys' = [conflict_keys EXCEPT ![t] = @ \cup {k}]
    /\ UNCHANGED <<store, tracker, oracle, status, instant, commit_seqno, workload>>

\* The transaction is dropped, its sets with it; what it observed is kept only
\* if it committed.
Forget(t, kept) ==
    /\ memtable' = [memtable EXCEPT ![t] = {}]
    /\ reads' = [reads EXCEPT ![t] = {}]
    /\ conflict_keys' = [conflict_keys EXCEPT ![t] = {}]
    /\ observed' = [observed EXCEPT ![t] = IF kept THEN @ ELSE {}]
    /\ instant' = [instant EXCEPT ![t] = 0]

\* Drop without commit, or rollback(): the nonce is closed.
Rollback(t) ==
    /\ status[t] = "active"
    /\ status' = [status EXCEPT ![t] = "rolled_back"]
    /\ TrackerClose(instant[t])
    /\ Forget(t, FALSE)
    /\ UNCHANGED <<store, oracle, commit_seqno, workload>>

\* commit() of a transaction that wrote nothing: no conflict check.
CommitReadOnly(t) ==
    /\ status[t] = "active" /\ memtable[t] = {}
    /\ status' = [status EXCEPT ![t] = "committed"]
    /\ TrackerClose(instant[t])
    /\ Forget(t, TRUE)
    /\ UNCHANGED <<store, oracle, commit_seqno, workload>>

\* Mutant: range((instant + 2)..), one timestamp too far.
ConcurrentSkippingOne(t) == {c \in committed_txns : c[1] >= instant[t] + 2}

\* Mutant: range(instant..), one timestamp too early.
ConcurrentFromInstant(t) == {c \in committed_txns : c[1] >= instant[t]}

\* committed_txns.range((instant + 1)..)
Concurrent(t) == {c \in committed_txns : c[1] >= instant[t] + 1}

\* ConflictManager::has_conflict against each of them.
HasConflict(t) == \E c \in Concurrent(t) : HasConflictWith(reads[t], c[2])

\* with_commit, up to the decision: check, close_raw, prune.  On a conflict the
\* lock is released, then the transaction and its nonce are dropped.
WithCommit(t) ==
    /\ status[t] = "active" /\ memtable[t] # {}
    /\ lock = Nobody
    /\ TrackerClose(instant[t])
    /\ committed_txns' = {c \in committed_txns : c[1] > watermark}
    /\ IF HasConflict(t)
       THEN /\ status' = [status EXCEPT ![t] = "closing"]
            /\ UNCHANGED lock
       ELSE /\ status' = [status EXCEPT ![t] = "applying"]
            /\ lock' = t
    /\ UNCHANGED <<store, local, commit_seqno, workload>>

\* The drop of a conflicted transaction closes its nonce a second time.
DropConflicted(t) ==
    /\ status[t] = "closing"
    /\ status' = [status EXCEPT ![t] = "conflicted"]
    /\ TrackerClose(instant[t])
    /\ Forget(t, FALSE)
    /\ UNCHANGED <<store, oracle, commit_seqno, workload>>

\* OptimisticTxKeyspace::fetch_update, update_fetch and take begin again.
Retry(t) ==
    /\ status[t] = "conflicted" /\ workload.retries
    /\ status' = [status EXCEPT ![t] = "new"]
    /\ UNCHANGED <<store, tracker, oracle, local, commit_seqno, workload>>

\* f(): BaseTransaction::commit writes its memtable as one batch and publishes
\* it; dropping the transaction closes its nonce a second time.
Apply(t) ==
    /\ status[t] = "applying" /\ ~poisoned
    /\ seqno < MaxSeqno
    /\ seqno' = seqno + 1
    /\ versions' = [k \in Key |-> IF k \in memtable[t] THEN versions[k] \cup {<<seqno, t>>}
                                                      ELSE versions[k]]
    /\ commit_seqno' = [commit_seqno EXCEPT ![t] = seqno]
    /\ status' = [status EXCEPT ![t] = "recording"]
    /\ TrackerClose(instant[t])
    /\ UNCHANGED <<poisoned, oracle, local, workload>>

\* The rest of with_commit: enter the conflict set under the sequence number
\* visible now, release the lock.
Record(t) ==
    /\ status[t] = "recording"
    /\ committed_txns' = {c \in committed_txns : c[1] # seqno} \cup {<<seqno, conflict_keys[t]>>}
    /\ lock' = Nobody
    /\ status' = [status EXCEPT ![t] = "committed"]
    /\ UNCHANGED <<store, tracker, local, commit_seqno, workload>>

\* f() fails: the database is or becomes poisoned, nothing was applied.
ApplyFails(t) ==
    /\ status[t] = "applying"
    /\ poisoned' = TRUE
    /\ status' = [status EXCEPT ![t] = "failed"]
    /\ lock' = Nobody
    /\ TrackerClose(instant[t])
    /\ Forget(t, FALSE)
    /\ UNCHANGED <<seqno, versions, committed_txns, commit_seqno, workload>>

\* Creating or deleting a keyspace publishes a sequence number too, without
\* the commit lock.
PublishKeyspace ==
    /\ seqno < MaxSeqno
    /\ seqno' = seqno + 1
    /\ UNCHANGED <<versions, poisoned, tracker, oracle, status, local, commit_seqno, workload>>

-----------------------------------------------------------------------------
\* Memtable rotation: pullup(), then gc(), each atomic under gc_lock.
Pullup ==
    /\ entries = {}
    /\ watermark' = SatSub1(seqno)
    /\ UNCHANGED <<store, entries, count, oracle, status, local, commit_seqno, workload>>

Gc ==
    /\ LET retained == Retained(entries, count, seqno)
       IN  /\ entries' = retained
           /\ \E lowest \in LowestRetained(retained, seqno) :
                watermark' = FetchMax(watermark, SatSub1(lowest))
    /\ UNCHANGED <<store, count, oracle, status, local, commit_seqno, workload>>

\* A compaction given the watermark drops a version that a newer one, not above
\* the watermark, hides.
Compact(k) ==
    /\ \E old \in versions[k] :
          /\ \E new \in versions[k] : old[1] < new[1] /\ new[1] <= watermark
          /\ versions' = [versions EXCEPT ![k] = @ \ {old}]
    /\ UNCHANGED <<seqno, poisoned, tracker, oracle, status, local, commit_seqno, workload>>

-----------------------------------------------------------------------------
\* The transactions, every read tracked.
TxNext ==
    \E t \in Tx :
        \/ WriteTx(t) \/ CommitReadOnly(t)
        \/ WithCommit(t) \/ DropConflicted(t) \/ Retry(t) \/ Apply(t) \/ Record(t)
        \/ \E r \in workload.ranges : Scan(t, r[1], r[2])
        \/ \E k \in Key : Get(t, k) \/ Insert(t, k)
        \/ \E k \in Key, changed \in BOOLEAN : UpdateFetch(t, k, changed)

\* Transactions given up, failed commits, and sequence numbers taken elsewhere.
OtherNext ==
    \/ \E t \in Tx : Rollback(t) \/ ApplyFails(t)
    \/ PublishKeyspace

\* Memtables are rotated, so the tracker collects.
CollectNext == Pullup \/ Gc

CompactNext == \E k \in Key : Compact(k)

\* Between two collections of the tracker.
Spec == Init /\ [][TxNext \/ OtherNext]_vars

\* With collections and compactions.
SpecCollect == Init /\ [][TxNext \/ OtherNext \/ CollectNext \/ CompactNext]_vars

-----------------------------------------------------------------------------
Committed == {t \in Tx : status[t] \in {"recording", "committed"}}
Wrote(t) == IF memtable[t] # {} /\ t \in Committed THEN memtable[t] ELSE {}

\* A conflict is never reported without a cause: some transaction committed
\* after the victim's snapshot was taken, and had marked a key the victim read.
\* In particular blind writes never conflict, as OptimisticTxKeyspace::insert
\* relies on.
NoSpuriousConflict ==
    \A t \in Tx : status[t] = "closing" =>
        \E c \in Committed :
            /\ memtable[c] # {}
            /\ commit_seqno[c] >= instant[t]
            /\ \E r \in reads[t] : conflict_keys[c] \cap KeysIn(Key, r.start, r.end) # {}

\* The writer of k's newest version among the transactions whose batch came
\* before sequence number s.
LastWriter(k, s) ==
    LET before == {c \in Committed : k \in Wrote(c) /\ commit_seqno[c] < s}
    IN  IF before = {} THEN Initial
        ELSE CHOOSE c \in before : \A d \in before : commit_seqno[d] <= commit_seqno[c]

\* Commit order is a serial order: whatever a committed update transaction
\* read is still what the key holds when its own batch is applied.  Holds
\* until the tracker collects.
ReadsCurrentAtCommit ==
    \A t \in Committed : memtable[t] # {} =>
        \A o \in observed[t] : o[2] = LastWriter(o[1], commit_seqno[t])

\* The writer of k that t sees when the transactions run one by one, by their places.
SerialWriter(place, t, k) ==
    LET before == {u \in DOMAIN place : k \in Wrote(u) /\ place[u] < place[t]}
    IN  IF before = {} THEN Initial
        ELSE CHOOSE u \in before : \A w \in before : place[w] <= place[u]

\* The committed transactions, read-only ones included, returned what they
\* would have returned run one after another in some order.
Serializable ==
    LET done == {t \in Tx : status[t] = "committed"}
    IN  \E place \in [done -> 1..Cardinality(done)] :
            /\ \A t, u \in done : place[t] = place[u] => t = u
            /\ \A t \in done : \A o \in observed[t] : o[2] = SerialWriter(place, t, o[1])
=============================================================================
