------------------------------ MODULE WritePath ------------------------------
(***************************************************************************)
(* The write path and the snapshots that read what it wrote: single writes *)
(* and clear (src/src/keyspace/mod.rs), batches (src/src/batch/mod.rs),    *)
(* ingestion (src/src/ingestion.rs), creation and removal of keyspaces     *)
(* (src/src/meta_keyspace.rs) and snapshot reads (src/src/snapshot.rs).    *)
(*                                                                         *)
(* A writer holds the journal mutex from taking its sequence number to     *)
(* publishing it, and applies its items one by one.  The version of a key  *)
(* is identified by its sequence number.  Keyspace removal takes and       *)
(* publishes a sequence number under the keyspaces lock only.              *)
(***************************************************************************)
EXTENDS Integers, Sequences, FiniteSets

CONSTANTS
    Writer,     \* threads that write
    Snap,       \* snapshots
    Key,
    MaxSeqno    \* bound on the sequence number counter

ASSUME MaxSeqnoAssumption == MaxSeqno \in Nat \ {0}

SeqNo == 0..MaxSeqno
Nobody == "nobody"

ASSUME WriterAssumption == Nobody \notin Writer

NoVersion == -1

\* The operations: "write" is insert, remove or remove_weak of one key.
Kind == {"write", "batch", "clear", "ingest"}

VARIABLES
    seqno,      \* Supervisor.seqno: the next number to hand out
    visible,    \* SnapshotTracker.seqno
    versions,   \* per key: the sequence numbers of the versions kept
    watermark,  \* SnapshotTracker.lowest_freed_instant
    poisoned,
    journal,    \* holder of the journal mutex
    readers,    \* batches holding the keyspaces lock for reading
    ddl,        \* the number taken by a keyspace removal that holds the
                \* keyspaces lock for writing, or NoVersion
    pc, kind, taken, todo,   \* per writer: step, operation, number, items left
    instant,    \* per snapshot: its instant, or NoVersion
    read,       \* history, per snapshot: its last read, <<key, version>>
    frozen,     \* history, per snapshot: what each key held when it was opened
    log, cut    \* history: published batches; how many each snapshot sees

shared == <<seqno, visible, versions, watermark, poisoned>>
locks == <<journal, readers, ddl>>
threads == <<pc, kind, taken, todo>>
snaps == <<instant, read, frozen, cut>>
vars == <<shared, locks, threads, snaps, log>>

\* The state keeps its type: in particular nothing is published beyond the bound
\* on the numbers handed out.
TypeOK ==
    /\ seqno \in SeqNo /\ visible \in SeqNo /\ watermark \in SeqNo
    /\ versions \in [Key -> SUBSET SeqNo]
    /\ poisoned \in BOOLEAN
    /\ journal \in Writer \cup {Nobody}
    /\ readers \subseteq Writer
    /\ ddl \in SeqNo \cup {NoVersion}
    /\ pc \in [Writer -> {"idle", "journaled", "applying"}]
    /\ kind \in [Writer -> Kind]
    /\ taken \in [Writer -> SeqNo]
    /\ todo \in [Writer -> SUBSET Key]
    /\ instant \in [Snap -> SeqNo \cup {NoVersion}]

\* The greatest element of a set of numbers, as a set.
Greatest(S) == {v \in S : \A w \in S : w <= v}

\* The newest of a set of versions below an instant.
OnlyOne(G) == IF G = {} THEN NoVersion ELSE CHOOSE v \in G : TRUE
Newest(S, i) == OnlyOne(Greatest({v \in S : v < i}))

\* What a read at an instant returns.
Get(k, i) == Newest(versions[k], i)

\* Creating the keyspace used sequence number 0.
Init ==
    /\ seqno = 1 /\ visible = 1 /\ watermark = 0
    /\ versions = [k \in Key |-> {}]
    /\ poisoned = FALSE
    /\ journal = Nobody /\ readers = {} /\ ddl = NoVersion
    /\ pc = [w \in Writer |-> "idle"]
    /\ kind = [w \in Writer |-> "write"]
    /\ taken = [w \in Writer |-> 0]
    /\ todo = [w \in Writer |-> {}]
    /\ instant = [s \in Snap |-> NoVersion]
    /\ read = [s \in Snap |-> <<>>]
    /\ frozen = [s \in Snap |-> <<>>]
    /\ cut = [s \in Snap |-> -1]
    /\ log = <<>>

-----------------------------------------------------------------------------
\* The keys an operation may name: one for a write, all for a clear.
Items(op) ==
    CASE op = "write" -> {{k} : k \in Key}
      [] op = "clear" -> {Key}
      [] OTHER -> SUBSET Key \ {{}}

\* Mutant: the sequence number is taken before the journal mutex.
BeginUnlocked(w, op, keys) ==
    /\ pc[w] = "idle"
    /\ ~poisoned \/ op = "ingest"
    /\ seqno < MaxSeqno
    /\ seqno' = seqno + 1
    /\ taken' = [taken EXCEPT ![w] = seqno]
    /\ pc' = [pc EXCEPT ![w] = "journaled"]
    /\ kind' = [kind EXCEPT ![w] = op]
    /\ todo' = [todo EXCEPT ![w] = keys]
    /\ UNCHANGED <<visible, versions, watermark, poisoned, locks, snaps, log>>

\* Lock the journal, check the poisoned flag (ingestion does not), take the
\* next sequence number and write to the journal (ingestion writes none).
Begin(w, op, keys) ==
    /\ pc[w] = "idle"
    /\ journal = Nobody
    /\ ~poisoned \/ op = "ingest"
    /\ seqno < MaxSeqno
    /\ journal' = w
    /\ seqno' = seqno + 1
    /\ taken' = [taken EXCEPT ![w] = seqno]
    /\ pc' = [pc EXCEPT ![w] = "journaled"]
    /\ kind' = [kind EXCEPT ![w] = op]
    /\ todo' = [todo EXCEPT ![w] = keys]
    /\ UNCHANGED <<visible, versions, watermark, poisoned, readers, ddl, snaps, log>>

\* The operation returns an error before applying anything: the journal write
\* failed (not poisoning), or persisting it did (poisoning).
Fail(w, poison) ==
    /\ pc[w] = "journaled"
    /\ kind[w] \in {"batch", "ingest"} => (poison <=> kind[w] = "batch")
    /\ poisoned' = (poisoned \/ poison)
    /\ journal' = Nobody
    /\ pc' = [pc EXCEPT ![w] = "idle"]
    /\ todo' = [todo EXCEPT ![w] = {}]
    /\ UNCHANGED <<seqno, visible, versions, watermark, readers, ddl, kind, taken, snaps, log>>

\* Persisted.  A batch takes the keyspaces lock for reading before it applies.
Persisted(w) ==
    /\ pc[w] = "journaled"
    /\ kind[w] = "batch" => ddl = NoVersion
    /\ readers' = IF kind[w] = "batch" THEN readers \cup {w} ELSE readers
    /\ pc' = [pc EXCEPT ![w] = "applying"]
    /\ UNCHANGED <<shared, journal, ddl, kind, taken, todo, snaps, log>>

\* Apply one item to its memtable; a clear and an ingestion swap in all of
\* theirs at once.
Apply(w, keys) ==
    /\ pc[w] = "applying"
    /\ keys \subseteq todo[w] /\ keys # {}
    /\ IF kind[w] \in {"clear", "ingest"} THEN keys = todo[w] ELSE Cardinality(keys) = 1
    /\ versions' = [k \in Key |-> IF k \in keys THEN versions[k] \cup {taken[w]} ELSE versions[k]]
    /\ todo' = [todo EXCEPT ![w] = @ \ keys]
    /\ UNCHANGED <<seqno, visible, watermark, poisoned, locks, pc, kind, taken, snaps, log>>

\* Mutant: publish before the last item is applied.
PublishEarly(w) ==
    /\ pc[w] = "applying"
    /\ visible' = IF visible < taken[w] + 1 THEN taken[w] + 1 ELSE visible
    /\ journal' = IF todo[w] = {} THEN Nobody ELSE journal
    /\ readers' = IF todo[w] = {} THEN readers \ {w} ELSE readers
    /\ pc' = IF todo[w] = {} THEN [pc EXCEPT ![w] = "idle"] ELSE pc
    /\ log' = IF todo[w] = {}
              THEN Append(log, [seqno |-> taken[w], keys |-> {k \in Key : taken[w] \in versions[k]}])
              ELSE log
    /\ UNCHANGED <<seqno, versions, watermark, poisoned, ddl, kind, taken, todo, snaps>>

\* Publish the number and release the locks.
Publish(w) ==
    /\ pc[w] = "applying" /\ todo[w] = {}
    /\ visible' = IF visible < taken[w] + 1 THEN taken[w] + 1 ELSE visible
    /\ journal' = Nobody
    /\ readers' = readers \ {w}
    /\ pc' = [pc EXCEPT ![w] = "idle"]
    /\ log' = Append(log, [seqno |-> taken[w], keys |-> {k \in Key : taken[w] \in versions[k]}])
    /\ UNCHANGED <<seqno, versions, watermark, poisoned, ddl, kind, taken, todo, snaps>>

-----------------------------------------------------------------------------
\* Creating or removing a keyspace: under the keyspaces lock, take a number ...
DdlBegin ==
    /\ ddl = NoVersion /\ readers = {}
    /\ seqno < MaxSeqno
    /\ ddl' = seqno
    /\ seqno' = seqno + 1
    /\ UNCHANGED <<visible, versions, watermark, poisoned, journal, readers, threads, snaps, log>>

\* Mutant: the journal mutex is wanted while the keyspaces lock is held.
DdlEndJournalLocked ==
    /\ ddl # NoVersion /\ journal = Nobody
    /\ visible' = IF visible < ddl + 1 THEN ddl + 1 ELSE visible
    /\ ddl' = NoVersion
    /\ UNCHANGED <<seqno, versions, watermark, poisoned, journal, readers, threads, snaps, log>>

\* Mutant: the counter itself is published, one past the number taken.
DdlEndAbove ==
    /\ ddl # NoVersion
    /\ visible' = seqno + 1
    /\ ddl' = NoVersion
    /\ UNCHANGED <<seqno, versions, watermark, poisoned, journal, readers, threads, snaps, log>>

\* ... write the tombstones or entries to the meta keyspace, publish it.
DdlEnd ==
    /\ ddl # NoVersion
    /\ visible' = IF visible < ddl + 1 THEN ddl + 1 ELSE visible
    /\ ddl' = NoVersion
    /\ UNCHANGED <<seqno, versions, watermark, poisoned, journal, readers, threads, snaps, log>>

-----------------------------------------------------------------------------
OpenSnapshot(s) ==
    /\ instant[s] = NoVersion
    /\ instant' = [instant EXCEPT ![s] = visible]
    /\ frozen' = [frozen EXCEPT ![s] = [k \in Key |-> Get(k, visible)]]
    /\ cut' = [cut EXCEPT ![s] = Len(log)]
    /\ UNCHANGED <<shared, locks, threads, read, log>>

ReadSnapshot(s, k) ==
    /\ instant[s] # NoVersion
    /\ read' = [read EXCEPT ![s] = <<k, Get(k, instant[s])>>]
    /\ UNCHANGED <<shared, locks, threads, instant, frozen, cut, log>>

CloseSnapshot(s) ==
    /\ instant[s] # NoVersion
    /\ instant' = [instant EXCEPT ![s] = NoVersion]
    /\ read' = [read EXCEPT ![s] = <<>>]
    /\ frozen' = [frozen EXCEPT ![s] = <<>>]
    /\ cut' = [cut EXCEPT ![s] = -1]
    /\ UNCHANGED <<shared, locks, threads, log>>

\* Mutant: the watermark moves to the visible number whatever is open.
CollectAll(w) ==
    /\ watermark <= w /\ w < visible
    /\ watermark' = w
    /\ UNCHANGED <<seqno, visible, versions, poisoned, locks, threads, snaps, log>>

\* The tracker raises the watermark, below every open snapshot (what module
\* SnapshotTrackerProofs proves of it).
Collect(w) ==
    /\ watermark <= w /\ w < visible
    /\ \A s \in Snap : instant[s] # NoVersion => w < instant[s]
    /\ watermark' = w
    /\ UNCHANGED <<seqno, visible, versions, poisoned, locks, threads, snaps, log>>

\* A compaction drops a version hidden by one at or below the watermark.
Compact(k) ==
    /\ \E old, new \in versions[k] :
          /\ old < new /\ new <= watermark
          /\ versions' = [versions EXCEPT ![k] = @ \ {old}]
    /\ UNCHANGED <<seqno, visible, watermark, poisoned, locks, threads, snaps, log>>

-----------------------------------------------------------------------------
WriterNext(w) ==
    \/ \E op \in Kind : \E keys \in Items(op) : Begin(w, op, keys)
    \/ \E poison \in BOOLEAN : Fail(w, poison)
    \/ Persisted(w)
    \/ \E keys \in SUBSET Key : Apply(w, keys)
    \/ Publish(w)

ReaderNext ==
    \/ \E s \in Snap : OpenSnapshot(s) \/ CloseSnapshot(s)
    \/ \E s \in Snap, k \in Key : ReadSnapshot(s, k)
    \/ \E w \in SeqNo : Collect(w)
    \/ \E k \in Key : Compact(k)

DdlNext == DdlBegin \/ DdlEnd

\* With the set of keyspaces fixed.
Spec == Init /\ [][(\E w \in Writer : WriterNext(w)) \/ ReaderNext]_vars

\* With keyspaces created and removed meanwhile.
NextDdl == (\E w \in Writer : WriterNext(w)) \/ ReaderNext \/ DdlNext
SpecDdl == Init /\ [][NextDdl]_vars

\* Threads inside an operation run on.
FairSpecDdl ==
    /\ SpecDdl
    /\ \A w \in Writer : WF_vars(Persisted(w) \/ (\E keys \in SUBSET Key : Apply(w, keys)) \/ Publish(w))
    /\ WF_vars(DdlEnd)

-----------------------------------------------------------------------------
\* Snapshot reads are repeatable and batches atomic: what a snapshot returns
\* for a key never changes while it is open, although writers apply their
\* batches item by item and compactions drop versions under it.
SnapshotStable ==
    \A s \in Snap : instant[s] # NoVersion =>
        \A k \in Key : Get(k, instant[s]) = frozen[s][k]

\* No reader can see a number whose items are still being applied.
NothingHalfApplied ==
    \A w \in Writer : pc[w] # "idle" => visible <= taken[w]

\* The journal mutex and the keyspaces lock never block each other: every
\* operation that started returns.
OperationsReturn ==
    /\ \A w \in Writer : pc[w] # "idle" ~> pc[w] = "idle"
    /\ ddl # NoVersion ~> ddl = NoVersion

\* A published version, by its place in the order of publication.
Place(v) == IF v = NoVersion THEN 0 ELSE CHOOSE i \in DOMAIN log : log[i].seqno = v

\* The abstract store this implements.
Store == INSTANCE SnapshotStore WITH
    log <- [i \in DOMAIN log |-> log[i].keys],
    cut <- cut,
    answer <- [s \in Snap |-> IF read[s] = <<>> THEN <<>> ELSE <<read[s][1], Place(read[s][2])>>]

\* The write path with its locks implements the abstract snapshot store: each
\* publication is one atomic commit, and every read answers from the cut taken
\* when its snapshot was opened.
ImplementsSnapshotStore == Store!StoreSpec
=============================================================================
