--------------------------- MODULE SnapshotTracker ---------------------------
(***************************************************************************)
(* The snapshot tracker (src/src/snapshot_tracker.rs) and the nonces it    *)
(* hands out (src/src/snapshot_nonce.rs).                                  *)
(*                                                                         *)
(* A nonce pins an instant: while it lives, no compaction may drop a       *)
(* version visible at that instant.  Compactions learn what they may drop  *)
(* from lowest_freed_instant, here watermark.  open() reads the visible    *)
(* sequence number and enters it into the table in two steps, under the    *)
(* read side of gc_lock; gc() and pullup() hold the write side.  Writers   *)
(* publish sequence numbers without any lock.                              *)
(***************************************************************************)
EXTENDS SnapshotTrackerOps, FiniteSets

CONSTANTS
    Nonce,      \* slots for SnapshotNonce values; one thread drives each
    FirstSeqno, \* the visible sequence number the tracker starts from: 0 in a
                \* new database, above 0 once a keyspace exists
    MaxSeqno,   \* bound on the visible sequence number
    GcPeriod    \* closes between two collections by closers; 10_000 in the code

ASSUME NonceAssumption == IsFiniteSet(Nonce)
ASSUME SeqnoAssumption == MaxSeqno \in Nat /\ FirstSeqno \in 0..MaxSeqno
ASSUME GcPeriodAssumption == GcPeriod \in Nat \ {0}

SeqNo == 0..MaxSeqno

\* Callers of gc() other than a closing nonce: memtable rotation, ingestion,
\* recovery.
Maintenance == "maintenance"
Nobody == "nobody"
ASSUME RolesAssumption == Maintenance \notin Nonce /\ Nobody \notin Nonce

VARIABLES
    seqno,       \* the visible sequence number (SnapshotTrackerInner.seqno)
    entries,     \* keys of SnapshotTrackerInner.data
    count,       \* values of SnapshotTrackerInner.data
    freed,       \* freed_count, modulo GcPeriod
    watermark,   \* lowest_freed_instant
    state,       \* per nonce: free, opening, live, or closed and due to collect
    at,          \* per nonce: its instant
    collector,   \* who holds the write side of gc_lock, inside gc()
    threshold    \* gc()'s local seqno_threshold

vars == <<seqno, entries, count, freed, watermark, state, at, collector, threshold>>

\* The state keeps its type: in particular gc never leaves a watermark outside
\* the sequence numbers handed out.
TypeOK ==
    /\ seqno \in SeqNo
    /\ entries \in SUBSET SeqNo
    /\ count \in [SeqNo -> Nat]
    /\ freed \in 0..(GcPeriod - 1)
    /\ watermark \in SeqNo
    /\ state \in [Nonce -> {"free", "opening", "live", "gc"}]
    /\ at \in [Nonce -> SeqNo]
    /\ collector \in Nonce \cup {Maintenance, Nobody}
    /\ threshold \in SeqNo

Init ==
    /\ seqno = FirstSeqno
    /\ entries = {}
    /\ count = [i \in SeqNo |-> 0]
    /\ freed = 0
    /\ watermark = 0
    /\ state = [h \in Nonce |-> "free"]
    /\ at = [h \in Nonce |-> 0]
    /\ collector = Nobody
    /\ threshold = 0

\* Mutant: open(), clone and close take no lock.
Unlocked == TRUE

\* gc_lock can be taken for reading.
CanRead == collector = Nobody

\* gc_lock can be taken for writing: no sweep is running, and no open() is
\* between reading the sequence number and entering it.
CanWrite ==
    /\ collector = Nobody
    /\ \A h \in Nonce : state[h] # "opening"

\* entry(instant).and_modify(+1).or_insert(1)
Enter(i) ==
    /\ entries' = entries \cup {i}
    /\ count' = [count EXCEPT ![i] = @ + 1]

-----------------------------------------------------------------------------
\* open(), first half: take the read lock and read the sequence number.
OpenRead(h) ==
    /\ state[h] = "free"
    /\ CanRead
    /\ state' = [state EXCEPT ![h] = "opening"]
    /\ at' = [at EXCEPT ![h] = seqno]
    /\ UNCHANGED <<seqno, entries, count, freed, watermark, collector, threshold>>

\* open(), second half: enter the instant read and release the lock.
OpenEnter(h) ==
    /\ state[h] = "opening"
    /\ Enter(at[h])
    /\ state' = [state EXCEPT ![h] = "live"]
    /\ UNCHANGED <<seqno, freed, watermark, at, collector, threshold>>

\* Mutant: the clone shares the original's table entry without counting itself.
CloneUncounted(h, g) ==
    /\ state[h] = "free" /\ state[g] = "live"
    /\ CanRead
    /\ state' = [state EXCEPT ![h] = "live"]
    /\ at' = [at EXCEPT ![h] = at[g]]
    /\ UNCHANGED <<seqno, entries, count, freed, watermark, collector, threshold>>

\* clone_snapshot(): the original stays live while it is borrowed.
CloneSnapshot(h, g) ==
    /\ state[h] = "free" /\ state[g] = "live"
    /\ CanRead
    /\ Enter(at[g])
    /\ state' = [state EXCEPT ![h] = "live"]
    /\ at' = [at EXCEPT ![h] = at[g]]
    /\ UNCHANGED <<seqno, freed, watermark, collector, threshold>>

\* Drop of a nonce: close() -> close_raw().  The count saturates, an absent
\* key is left absent, and every GcPeriod-th close goes on to collect.
CloseRaw(h) ==
    /\ state[h] = "live"
    /\ CanRead
    /\ count' = [count EXCEPT ![at[h]] = SatSub1(@)]
    /\ freed' = (freed + 1) % GcPeriod
    /\ state' = [state EXCEPT ![h] = IF freed' = 0 THEN "gc" ELSE "free"]
    /\ UNCHANGED <<seqno, entries, watermark, at, collector, threshold>>

\* Mutant: publish() stores instead of taking the maximum.
PublishStore(s) ==
    /\ seqno' = s + 1
    /\ UNCHANGED <<entries, count, freed, watermark, state, at, collector, threshold>>

\* publish(): no lock is taken.
Publish(s) ==
    /\ seqno' = FetchMax(seqno, s + 1)
    /\ UNCHANGED <<entries, count, freed, watermark, state, at, collector, threshold>>

\* pullup(): with no table entry at all, move straight below the sequence
\* number.  A plain store, not a maximum.
Pullup ==
    /\ CanWrite
    /\ entries = {}
    /\ watermark' = SatSub1(seqno)
    /\ UNCHANGED <<seqno, entries, count, freed, state, at, collector, threshold>>

\* Mutant: the threshold is one above the sequence number.
GcStartAbove(c) ==
    /\ CanWrite
    /\ collector' = c
    /\ threshold' = seqno + 1
    /\ UNCHANGED <<seqno, entries, count, freed, watermark, state, at>>

\* gc(), first half: take the write lock, read the sequence number.
GcStart(c) ==
    /\ CanWrite
    /\ collector' = c
    /\ threshold' = seqno
    /\ UNCHANGED <<seqno, entries, count, freed, watermark, state, at>>

\* The collection a closer owes after the GcPeriod-th close.
CloserGc(h) ==
    /\ state[h] = "gc"
    /\ GcStart(h)

\* gc(), second half: sweep the table, raise the watermark, release the lock.
GcFinish ==
    /\ collector # Nobody
    /\ LET retained == Retained(entries, count, threshold)
       IN  /\ entries' = retained
           /\ \E lowest \in LowestRetained(retained, threshold) :
                watermark' = FetchMax(watermark, SatSub1(lowest))
    /\ state' = [h \in Nonce |-> IF h = collector THEN "free" ELSE state[h]]
    /\ collector' = Nobody
    /\ UNCHANGED <<seqno, count, freed, at, threshold>>

Next ==
    \/ \E h \in Nonce : OpenRead(h) \/ OpenEnter(h) \/ CloseRaw(h) \/ CloserGc(h)
    \/ \E h, g \in Nonce : CloneSnapshot(h, g)
    \/ \E s \in 0..(MaxSeqno - 1) : Publish(s)
    \/ Pullup
    \/ GcStart(Maintenance)
    \/ GcFinish

Spec == Init /\ [][Next]_vars

\* A thread inside open() or gc() runs on; a closer that is due to collect gets
\* the write lock, since a waiting writer keeps new readers out of a std RwLock.
Fairness ==
    /\ \A h \in Nonce : WF_vars(OpenEnter(h)) /\ SF_vars(CloserGc(h))
    /\ WF_vars(GcFinish)

FairSpec == Spec /\ Fairness
-----------------------------------------------------------------------------
\* The nonces that pin instant i in the table.
LiveAt(i) == {h \in Nonce : state[h] = "live" /\ at[h] = i}

\* open_snapshots() is exact: under every interleaving of open, clone and drop,
\* the count under an instant is the number of live nonces holding it, so no
\* close ever saturates and none is lost.
CountMatches == \A i \in SeqNo : count[i] = Cardinality(LiveAt(i))

\* The promise snapshots rest on: the watermark stays below the instant of
\* every live nonce, and of one still inside open(), so the versions visible
\* there are kept.  Instant 0 is excepted: nothing is visible at it.  Holds
\* when FirstSeqno > 0, that is, when no nonce is ever opened at instant 0; the
\* sweep of a table that holds instant 0 loses track of the others.
WatermarkBelowOpen ==
    \A h \in Nonce :
        state[h] \in {"opening", "live"} /\ at[h] > 0 => watermark < at[h]

\* pullup()'s plain store never undoes what gc()'s fetch_max reached: a
\* compaction that read the watermark never holds a value above the current one.
WatermarkNeverFalls == [][watermark' >= watermark]_vars

\* Old versions do not pile up forever: once no nonce below s is held, and
\* nonces keep being released (so the periodic collection keeps coming due),
\* the watermark reaches s - 1.
WatermarkAdvances ==
    \A s \in SeqNo :
        (/\ <>[](seqno >= s /\ \A h \in Nonce : state[h] \in {"opening", "live"} => at[h] >= s)
         /\ []<>(\E h \in Nonce : state[h] = "gc"))
            => <>(watermark >= s - 1)
=============================================================================
