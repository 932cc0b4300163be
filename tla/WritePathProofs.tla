--------------------------- MODULE WritePathProofs ---------------------------
(***************************************************************************)
(* Proofs about WritePath with a fixed set of keyspaces, for any number of *)
(* writers, snapshots and keys and any bound on the sequence numbers: its  *)
(* invariants, and that it implements SnapshotStore.                       *)
(***************************************************************************)
EXTENDS WritePath, NaturalMaximum, SequenceTheorems

\* At most one operation is under way, the holder of the journal mutex.
OneWriter == \A w \in Writer : pc[w] # "idle" => journal = w

\* The numbers are ordered: watermark < visible <= seqno, and the number of an
\* operation under way has been handed out.
NumbersOrdered ==
    /\ watermark < visible /\ visible <= seqno
    /\ \A w \in Writer : pc[w] # "idle" => taken[w] < seqno

\* An open snapshot lies above the watermark and not above the visible number.
SnapshotsBetween ==
    \A s \in Snap : instant[s] # NoVersion => watermark < instant[s] /\ instant[s] <= visible

\* The history of what snapshots saw has an entry per snapshot.
HistoryShape == frozen = [s \in Snap |-> frozen[s]]

\* The inductive invariant.
IInv ==
    /\ TypeOK
    /\ OneWriter
    /\ NumbersOrdered
    /\ NothingHalfApplied
    /\ SnapshotsBetween
    /\ HistoryShape
    /\ SnapshotStable

WriteNext == (\E w \in Writer : WriterNext(w)) \/ ReaderNext

-----------------------------------------------------------------------------
\* Adding a version at or above an instant does not change what is read there.
LEMMA NewestIgnoresNewer ==
    ASSUME NEW S \in SUBSET SeqNo, NEW i \in SeqNo, NEW v \in SeqNo, i <= v
    PROVE  Newest(S \cup {v}, i) = Newest(S, i)
  <1>1. {u \in S \cup {v} : u < i} = {u \in S : u < i}
    BY MaxSeqnoAssumption DEF SeqNo
  <1> QED
    BY <1>1, Zenon DEF Newest

\* Dropping a version hidden by a newer one below an instant does not change
\* what is read there.
LEMMA NewestIgnoresHidden ==
    ASSUME NEW S \in SUBSET SeqNo, NEW i \in SeqNo,
           NEW old \in S, NEW new \in S, old < new, new < i
    PROVE  Newest(S \ {old}, i) = Newest(S, i)
  <1> DEFINE before == {u \in S : u < i}
             after == {u \in S \ {old} : u < i}
  <1>1. S \subseteq Int /\ i \in Int
    BY MaxSeqnoAssumption DEF SeqNo
  <1>2. before \subseteq Int /\ after = before \ {old} /\ new \in after
    <2>1. before \subseteq Int
      BY <1>1, Zenon
    <2>2. new \in after
      BY <1>1
    <2>3. after = before \ {old}
      BY Zenon
    <2> QED
      BY <2>1, <2>2, <2>3, Zenon
  <1>3. ASSUME NEW g
        PROVE  g \in Greatest(after) <=> g \in Greatest(before)
    <2> HIDE DEF before, after
    <2>1. ASSUME g \in Greatest(after) PROVE g \in Greatest(before)
      BY <1>1, <1>2, <2>1 DEF Greatest
    <2>2. ASSUME g \in Greatest(before) PROVE g \in Greatest(after)
      BY <1>1, <1>2, <2>2 DEF Greatest
    <2> QED
      BY <2>1, <2>2, Zenon
  <1>4. Greatest(after) = Greatest(before)
    <2> HIDE DEF before, after
    <2> QED
      BY <1>3, Zenon
  <1> QED
    BY <1>4, Zenon DEF Newest

-----------------------------------------------------------------------------
LEMMA InitIInv == Init => IInv
  <1> SUFFICES ASSUME Init PROVE IInv
    BY Zenon
  <1>1. TypeOK
    <2>1. 0 \in SeqNo /\ 1 \in SeqNo
      BY MaxSeqnoAssumption DEF SeqNo
    <2> QED
      BY <2>1, Zenon DEF Init, TypeOK, Kind
  <1>2. OneWriter /\ NumbersOrdered /\ NothingHalfApplied
    BY DEF Init, OneWriter, NumbersOrdered, NothingHalfApplied
  <1>3. SnapshotsBetween /\ SnapshotStable /\ HistoryShape
    BY Zenon DEF Init, SnapshotsBetween, SnapshotStable, HistoryShape
  <1> QED
    BY <1>1, <1>2, <1>3, Zenon DEF IInv

LEMMA ItemsAreKeys ==
    ASSUME NEW op \in Kind, NEW keys \in Items(op)
    PROVE  keys \subseteq Key
  BY Zenon DEF Items, Kind

\* A step that changes neither the versions nor the snapshots leaves every
\* open snapshot stable.
LEMMA StableUnchanged ==
    ASSUME SnapshotStable, versions' = versions, instant' = instant, frozen' = frozen
    PROVE  SnapshotStable'
  BY Zenon DEF SnapshotStable, Get

LEMMA BeginIInv ==
    ASSUME IInv, NEW w \in Writer, NEW op \in Kind, NEW keys \in Items(op), Begin(w, op, keys)
    PROVE  IInv'
  <1> USE MaxSeqnoAssumption DEF IInv
  <1>1. TypeOK'
    BY ItemsAreKeys DEF TypeOK, Begin, SeqNo, locks, snaps
  <1>2. OneWriter'
    BY WriterAssumption, Zenon DEF OneWriter, Begin, TypeOK
  <1>3. NumbersOrdered' /\ NothingHalfApplied'
    BY DEF NumbersOrdered, NothingHalfApplied, Begin, TypeOK, SeqNo
  <1>4. SnapshotsBetween' /\ HistoryShape'
    BY Zenon DEF SnapshotsBetween, HistoryShape, Begin, snaps
  <1>5. SnapshotStable'
    BY StableUnchanged, Zenon DEF Begin, snaps
  <1> QED
    BY <1>1, <1>2, <1>3, <1>4, <1>5, Zenon

LEMMA FailIInv ==
    ASSUME IInv, NEW w \in Writer, NEW poison \in BOOLEAN, Fail(w, poison)
    PROVE  IInv'
  <1> USE MaxSeqnoAssumption DEF IInv
  <1>1. TypeOK'
    BY Zenon DEF TypeOK, Fail, snaps
  <1>2. OneWriter'
    BY Zenon DEF OneWriter, Fail, TypeOK
  <1>3. NumbersOrdered' /\ NothingHalfApplied'
    BY Zenon DEF NumbersOrdered, NothingHalfApplied, Fail, TypeOK
  <1>4. SnapshotsBetween' /\ HistoryShape'
    BY Zenon DEF SnapshotsBetween, HistoryShape, Fail, snaps
  <1>5. SnapshotStable'
    BY StableUnchanged, Zenon DEF Fail, snaps
  <1> QED
    BY <1>1, <1>2, <1>3, <1>4, <1>5, Zenon

LEMMA PersistedIInv ==
    ASSUME IInv, NEW w \in Writer, Persisted(w)
    PROVE  IInv'
  <1> USE MaxSeqnoAssumption DEF IInv
  <1>1. TypeOK'
    BY Zenon DEF TypeOK, Persisted, snaps, shared
  <1>2. OneWriter'
    BY Zenon DEF OneWriter, Persisted, TypeOK
  <1>3. NumbersOrdered' /\ NothingHalfApplied'
    BY Zenon DEF NumbersOrdered, NothingHalfApplied, Persisted, TypeOK, shared
  <1>4. SnapshotsBetween' /\ HistoryShape'
    BY Zenon DEF SnapshotsBetween, HistoryShape, Persisted, snaps, shared
  <1>5. SnapshotStable'
    BY StableUnchanged, Zenon DEF Persisted, snaps, shared
  <1> QED
    BY <1>1, <1>2, <1>3, <1>4, <1>5, Zenon

LEMMA ApplyIInv ==
    ASSUME IInv, NEW w \in Writer, NEW keys \in SUBSET Key, Apply(w, keys)
    PROVE  IInv'
  <1> USE MaxSeqnoAssumption DEF IInv
  <1>1. TypeOK'
    BY Zenon DEF TypeOK, Apply, snaps, locks
  <1>2. OneWriter'
    BY Zenon DEF OneWriter, Apply, TypeOK, locks
  <1>3. NumbersOrdered' /\ NothingHalfApplied'
    BY Zenon DEF NumbersOrdered, NothingHalfApplied, Apply
  <1>4. SnapshotsBetween' /\ HistoryShape'
    BY Zenon DEF SnapshotsBetween, HistoryShape, Apply, snaps
  <1>5. SnapshotStable'
    <2> SUFFICES ASSUME NEW s \in Snap, instant[s] # NoVersion, NEW k \in Key
                 PROVE  Newest(versions'[k], instant[s]) = frozen[s][k]
      BY Zenon DEF SnapshotStable, Get, Apply, snaps
    <2>1. instant[s] \in SeqNo /\ taken[w] \in SeqNo /\ instant[s] <= taken[w]
      BY DEF SnapshotsBetween, NothingHalfApplied, Apply, TypeOK, SeqNo
    <2>2. versions[k] \in SUBSET SeqNo
      BY Zenon DEF TypeOK
    <2>3. versions'[k] \in {versions[k], versions[k] \cup {taken[w]}}
      BY Zenon DEF Apply
    <2>4. Newest(versions'[k], instant[s]) = Newest(versions[k], instant[s])
      BY <2>1, <2>2, <2>3, NewestIgnoresNewer
    <2> QED
      BY <2>4, Zenon DEF SnapshotStable, Get
  <1> QED
    BY <1>1, <1>2, <1>3, <1>4, <1>5, Zenon

LEMMA PublishIInv ==
    ASSUME IInv, NEW w \in Writer, Publish(w)
    PROVE  IInv'
  <1> USE MaxSeqnoAssumption DEF IInv
  <1>1. visible' = taken[w] + 1 /\ visible <= taken[w] /\ taken[w] < seqno
    BY DEF Publish, NumbersOrdered, NothingHalfApplied, TypeOK, SeqNo
  <1>2. TypeOK'
    BY <1>1 DEF TypeOK, Publish, SeqNo, snaps
  <1>3. \A v \in Writer : pc'[v] = "idle"
    BY Zenon DEF Publish, OneWriter, TypeOK
  <1>4. OneWriter' /\ NothingHalfApplied'
    BY <1>3, Zenon DEF OneWriter, NothingHalfApplied
  <1>5. NumbersOrdered'
    BY <1>1, <1>3 DEF NumbersOrdered, Publish, TypeOK, SeqNo
  <1>6. SnapshotsBetween' /\ HistoryShape'
    BY <1>1 DEF SnapshotsBetween, HistoryShape, Publish, snaps, TypeOK, SeqNo
  <1>7. SnapshotStable'
    BY StableUnchanged, Zenon DEF Publish, snaps
  <1> QED
    BY <1>2, <1>4, <1>5, <1>6, <1>7, Zenon

\* A step of a reader leaves the writers alone.
LEMMA WritersUntouched ==
    ASSUME OneWriter, NothingHalfApplied, journal' = journal, visible' = visible,
           pc' = pc, taken' = taken
    PROVE  OneWriter' /\ NothingHalfApplied'
  BY Zenon DEF OneWriter, NothingHalfApplied

LEMMA OpenSnapshotIInv ==
    ASSUME IInv, NEW s \in Snap, OpenSnapshot(s)
    PROVE  IInv'
  <1> USE MaxSeqnoAssumption DEF IInv
  <1>1. TypeOK'
    BY Zenon DEF TypeOK, OpenSnapshot, SeqNo, shared, locks, threads
  <1>2. OneWriter' /\ NothingHalfApplied'
    BY WritersUntouched, Zenon DEF OpenSnapshot, shared, locks, threads
  <1>3. NumbersOrdered'
    BY Zenon DEF NumbersOrdered, OpenSnapshot, shared, threads
  <1>4. SnapshotsBetween'
    BY DEF SnapshotsBetween, NumbersOrdered, OpenSnapshot, shared, TypeOK, SeqNo
  <1>5. HistoryShape'
    BY Zenon DEF HistoryShape, OpenSnapshot
  <1>6. SnapshotStable'
    <2>1. versions' = versions
      BY Zenon DEF OpenSnapshot, shared
    <2>2. ASSUME NEW r \in Snap, r # s
          PROVE  instant'[r] = instant[r] /\ frozen'[r] = frozen[r]
      BY <2>2, Zenon DEF OpenSnapshot, TypeOK, HistoryShape
    <2>3. instant'[s] = visible /\ frozen'[s] = [k \in Key |-> Newest(versions[k], visible)]
      BY Zenon DEF OpenSnapshot, TypeOK, HistoryShape, Get
    <2> QED
      BY <2>1, <2>2, <2>3 DEF SnapshotStable, Get
  <1> QED
    BY <1>1, <1>2, <1>3, <1>4, <1>5, <1>6, Zenon

LEMMA ReadSnapshotIInv ==
    ASSUME IInv, NEW s \in Snap, NEW k \in Key, ReadSnapshot(s, k)
    PROVE  IInv'
  <1> USE DEF IInv
  <1>1. TypeOK'
    BY Zenon DEF TypeOK, ReadSnapshot, shared, locks, threads
  <1>2. OneWriter' /\ NothingHalfApplied'
    BY WritersUntouched, Zenon DEF ReadSnapshot, shared, locks, threads
  <1>3. NumbersOrdered' /\ SnapshotsBetween' /\ HistoryShape'
    BY Zenon DEF NumbersOrdered, SnapshotsBetween, HistoryShape, ReadSnapshot, shared, threads
  <1>4. SnapshotStable'
    BY StableUnchanged, Zenon DEF ReadSnapshot, shared
  <1> QED
    BY <1>1, <1>2, <1>3, <1>4, Zenon

LEMMA CloseSnapshotIInv ==
    ASSUME IInv, NEW s \in Snap, CloseSnapshot(s)
    PROVE  IInv'
  <1> USE DEF IInv
  <1>1. TypeOK'
    BY Zenon DEF TypeOK, CloseSnapshot, shared, locks, threads
  <1>2. OneWriter' /\ NothingHalfApplied'
    BY WritersUntouched, Zenon DEF CloseSnapshot, shared, locks, threads
  <1>3. NumbersOrdered' /\ HistoryShape'
    BY Zenon DEF NumbersOrdered, HistoryShape, CloseSnapshot, shared, threads
  <1>4. instant'[s] = NoVersion
    BY Zenon DEF CloseSnapshot, TypeOK
  <1>5. ASSUME NEW r \in Snap, r # s
        PROVE  instant'[r] = instant[r] /\ frozen'[r] = frozen[r]
    BY <1>5, Zenon DEF CloseSnapshot, TypeOK, HistoryShape
  <1>6. versions' = versions /\ visible' = visible /\ watermark' = watermark
    BY Zenon DEF CloseSnapshot, shared
  <1>7. SnapshotsBetween' /\ SnapshotStable'
    BY <1>4, <1>5, <1>6, Zenon DEF SnapshotsBetween, SnapshotStable, Get
  <1> QED
    BY <1>1, <1>2, <1>3, <1>7, Zenon

LEMMA CollectIInv ==
    ASSUME IInv, NEW w \in SeqNo, Collect(w)
    PROVE  IInv'
  <1> USE DEF IInv
  <1>1. TypeOK'
    BY Zenon DEF TypeOK, Collect, snaps, locks, threads
  <1>2. OneWriter' /\ NothingHalfApplied'
    BY WritersUntouched, Zenon DEF Collect, locks, threads
  <1>3. NumbersOrdered' /\ SnapshotsBetween' /\ HistoryShape'
    BY Zenon DEF NumbersOrdered, SnapshotsBetween, HistoryShape, Collect, snaps, threads
  <1>4. SnapshotStable'
    BY StableUnchanged, Zenon DEF Collect, snaps
  <1> QED
    BY <1>1, <1>2, <1>3, <1>4, Zenon

LEMMA CompactIInv ==
    ASSUME IInv, NEW c \in Key, Compact(c)
    PROVE  IInv'
  <1> USE MaxSeqnoAssumption DEF IInv
  <1>1. PICK old \in versions[c], new \in versions[c] :
            /\ old < new /\ new <= watermark
            /\ versions' = [versions EXCEPT ![c] = @ \ {old}]
    BY Zenon DEF Compact
  <1>2. TypeOK'
    BY <1>1, Zenon DEF TypeOK, Compact, snaps, locks, threads
  <1>3. OneWriter' /\ NothingHalfApplied'
    BY WritersUntouched, Zenon DEF Compact, locks, threads
  <1>4. NumbersOrdered' /\ SnapshotsBetween' /\ HistoryShape'
    BY Zenon DEF NumbersOrdered, SnapshotsBetween, HistoryShape, Compact, snaps, threads
  <1>5. SnapshotStable'
    <2> SUFFICES ASSUME NEW s \in Snap, instant[s] # NoVersion, NEW k \in Key
                 PROVE  Newest(versions'[k], instant[s]) = Newest(versions[k], instant[s])
      BY Zenon DEF SnapshotStable, Get, Compact, snaps
    <2>1. CASE k # c
      BY <1>1, <2>1, Zenon DEF TypeOK
    <2>2. CASE k = c
      <3>1. versions[c] \in SUBSET SeqNo /\ instant[s] \in SeqNo /\ new < instant[s]
        BY <1>1 DEF TypeOK, SnapshotsBetween, SeqNo
      <3>2. versions'[c] = versions[c] \ {old}
        BY <1>1, Zenon DEF TypeOK
      <3> QED
        BY <1>1, <2>2, <3>1, <3>2, NewestIgnoresHidden
    <2> QED
      BY <2>1, <2>2, Zenon
  <1> QED
    BY <1>2, <1>3, <1>4, <1>5, Zenon

-----------------------------------------------------------------------------
LEMMA StepIInv ==
    ASSUME IInv, [WriteNext]_vars
    PROVE  IInv'
  <1>1. CASE \E w \in Writer : WriterNext(w)
    <2> PICK w \in Writer : WriterNext(w)
      BY <1>1, Zenon
    <2> QED
      BY BeginIInv, FailIInv, PersistedIInv, ApplyIInv, PublishIInv, Zenon DEF WriterNext
  <1>2. CASE ReaderNext
    BY <1>2, OpenSnapshotIInv, CloseSnapshotIInv, ReadSnapshotIInv, CollectIInv, CompactIInv, Zenon
       DEF ReaderNext
  <1>3. CASE UNCHANGED vars
    BY <1>3, Zenon DEF vars, shared, locks, threads, snaps, IInv, TypeOK, OneWriter,
       NumbersOrdered, NothingHalfApplied, SnapshotsBetween, HistoryShape, SnapshotStable, Get
  <1> QED
    BY <1>1, <1>2, <1>3, Zenon DEF WriteNext

\* The invariant holds in every behaviour of the write path.
THEOREM Inductive == Spec => []IInv
  <1>1. Init => IInv
    BY InitIInv, Zenon
  <1>2. IInv /\ [WriteNext]_vars => IInv'
    BY StepIInv, Zenon
  <1> QED
    BY <1>1, <1>2, PTL DEF Spec, WriteNext

\* The variables of the write path keep their types.
THEOREM TypeCorrect == Spec => []TypeOK
  <1>1. IInv => TypeOK
    BY Zenon DEF IInv
  <1> QED
    BY <1>1, Inductive, PTL

\* Snapshot reads are repeatable: no insert, batch, clear, ingestion, watermark
\* move or compaction changes what an open snapshot returns.
THEOREM SnapshotReadsRepeatable == Spec => []SnapshotStable
  <1>1. IInv => SnapshotStable
    BY Zenon DEF IInv
  <1> QED
    BY <1>1, Inductive, PTL

\* The visible number never passes the number of an operation still being
\* applied, so no reader sees half of a batch.
THEOREM BatchesAtomic == Spec => []NothingHalfApplied
  <1>1. IInv => NothingHalfApplied
    BY Zenon DEF IInv
  <1> QED
    BY <1>1, Inductive, PTL

-----------------------------------------------------------------------------
\* The history of publications: in the order of their numbers, which are visible.
LogOrdered ==
    /\ log \in Seq([seqno : SeqNo, keys : SUBSET Key])
    /\ \A i, j \in DOMAIN log : i < j => log[i].seqno < log[j].seqno
    /\ \A i \in DOMAIN log : log[i].seqno < visible

\* Every version was published with its key, or is being applied.
VersionsLogged ==
    \A k \in Key : \A v \in versions[k] :
        \/ \E i \in DOMAIN log : log[i].seqno = v /\ k \in log[i].keys
        \/ \E w \in Writer : pc[w] = "applying" /\ taken[w] = v

\* Every published version is still there, or hidden by one at or below the
\* watermark.
LogStored ==
    \A i \in DOMAIN log : \A k \in log[i].keys :
        \/ log[i].seqno \in versions[k]
        \/ \E v \in versions[k] : log[i].seqno < v /\ v <= watermark

\* The cut of an open snapshot separates the batches below its instant.
CutsAtInstants ==
    /\ cut \in [Snap -> Int]
    /\ \A s \in Snap :
        IF instant[s] = NoVersion THEN cut[s] = -1
        ELSE /\ cut[s] \in 0..Len(log)
             /\ \A i \in DOMAIN log : i <= cut[s] <=> log[i].seqno < instant[s]

Published(v) == v = NoVersion \/ \E i \in DOMAIN log : log[i].seqno = v

\* Snapshots have read published versions only.
ReadsPublished ==
    /\ read = [s \in Snap |-> read[s]]
    /\ \A s \in Snap : read[s] = <<>> \/ \E k \in Key, v \in SeqNo \cup {NoVersion} :
                                             read[s] = <<k, v>> /\ Published(v)

RInv == LogOrdered /\ VersionsLogged /\ LogStored /\ CutsAtInstants /\ ReadsPublished

-----------------------------------------------------------------------------
\* A visible version of a key has a place among the batches below it.
LEMMA VisibleLogged ==
    ASSUME IInv, RInv, NEW k \in Key, NEW v \in versions[k], v < visible
    PROVE  \E i \in DOMAIN log : log[i].seqno = v /\ k \in log[i].keys
  <1>1. ASSUME NEW w \in Writer, pc[w] = "applying", taken[w] = v PROVE FALSE
    BY <1>1, MaxSeqnoAssumption DEF IInv, NothingHalfApplied, TypeOK, SeqNo
  <1> QED
    BY <1>1, Zenon DEF RInv, VersionsLogged

\* What the entries of the log are.
LEMMA LogEntries ==
    ASSUME LogOrdered
    PROVE  /\ Len(log) \in Nat /\ DOMAIN log = 1..Len(log)
           /\ \A i \in DOMAIN log : /\ i \in Int /\ log[i].seqno \in SeqNo /\ log[i].seqno \in Int
                                   /\ log[i].seqno # NoVersion /\ log[i].keys \in SUBSET Key
  <1> DEFINE Entry == [seqno : SeqNo, keys : SUBSET Key]
  <1>1. log \in Seq(Entry)
    BY Zenon DEF LogOrdered
  <1>2. Len(log) \in Nat /\ DOMAIN log = 1..Len(log) /\ \A i \in DOMAIN log : log[i] \in Entry
    <2> HIDE DEF Entry
    <2> QED
      BY <1>1
  <1>3. ASSUME NEW e \in Entry
        PROVE  e.seqno \in SeqNo /\ e.seqno \in Int /\ e.seqno # NoVersion /\ e.keys \in SUBSET Key
    BY MaxSeqnoAssumption DEF SeqNo, NoVersion
  <1> QED
    <2> HIDE DEF Entry
    <2> QED
      BY <1>2, <1>3

\* Numbers in the log tell its entries apart.
LEMMA PlaceUnique ==
    ASSUME LogOrdered, NEW i \in DOMAIN log
    PROVE  Place(log[i].seqno) = i
  <1>1. log[i].seqno \in SeqNo /\ log[i].seqno # NoVersion
    BY LogEntries, Zenon
  <1>2. ASSUME NEW j \in DOMAIN log, log[j].seqno = log[i].seqno PROVE j = i
    <2>1. i \in Int /\ j \in Int /\ log[i].seqno \in Int
      BY LogEntries, Zenon
    <2>2. ~ (i < j) /\ ~ (j < i)
      BY <1>2, <2>1 DEF LogOrdered
    <2> QED
      BY <2>1, <2>2
  <1> QED
    BY <1>1, <1>2, Zenon DEF Place

\* A snapshot read answers with the last batch before the cut that wrote the key.
LEMMA ReadAnswersFromCut ==
    ASSUME IInv, RInv, NEW s \in Snap, NEW k \in Key, instant[s] # NoVersion
    PROVE  /\ Published(Get(k, instant[s])) /\ Get(k, instant[s]) \in SeqNo \cup {NoVersion}
           /\ Place(Get(k, instant[s])) = Store!LastBatch(k, cut[s])
  <1> DEFINE at == instant[s]
             below == {v \in versions[k] : v < at}
             batches == [i \in DOMAIN log |-> log[i].keys]
             writers == {i \in 1..cut[s] : k \in batches[i]}
  <1>1. /\ at \in Int /\ versions[k] \subseteq Int /\ versions[k] \subseteq SeqNo
        /\ watermark \in Int /\ visible \in Int /\ watermark < at /\ at <= visible
    BY MaxSeqnoAssumption DEF IInv, TypeOK, SnapshotsBetween, SeqNo
  <1>2. /\ cut[s] \in 0..Len(log) /\ Len(log) \in Nat /\ DOMAIN log = 1..Len(log)
        /\ \A i \in DOMAIN log : log[i].seqno \in Int /\ (i <= cut[s] <=> log[i].seqno < at)
    BY LogEntries, Zenon DEF RInv, CutsAtInstants
  <1>3. Store!LastBatch(k, cut[s]) = IF writers = {} THEN 0
                                     ELSE CHOOSE i \in writers : \A j \in writers : j <= i
    BY Zenon DEF Store!LastBatch
  <1>w. \A i \in writers : i \in DOMAIN log /\ i \in Int /\ i <= cut[s] /\ k \in log[i].keys
    BY <1>2
  <1>4. ASSUME NEW v \in below
        PROVE  \E i \in writers : log[i].seqno = v
    <2>1. PICK i \in DOMAIN log : log[i].seqno = v /\ k \in log[i].keys
      BY <1>1, VisibleLogged
    <2>2. i \in 1..cut[s]
      BY <1>2, <2>1
    <2> QED
      BY <2>1, <2>2, Zenon
  <1>5. Get(k, at) = OnlyOne(Greatest(below))
    BY Zenon DEF Get, Newest
  <1>6. CASE writers = {}
    <2>1. Greatest(below) = {}
      BY <1>4, <1>6, Zenon DEF Greatest
    <2>2. Get(k, at) = NoVersion
      BY <1>5, <2>1, Zenon DEF OnlyOne
    <2> QED
      BY <1>3, <1>6, <2>2, Zenon DEF Place, Published
  <1>7. CASE writers # {}
    <2>1. PICK last \in writers : \A j \in writers : j <= last
      <3>1. writers \in SUBSET (0..Len(log))
        BY <1>2
      <3> QED
        BY <1>2, <1>7, <3>1, GreatestUpTo, Zenon
    <2> DEFINE n == log[last].seqno
    <2>2. last \in DOMAIN log /\ last \in Int /\ n \in Int /\ n \in SeqNo /\ n < at /\ k \in log[last].keys
      BY <1>2, <1>w, <2>1, LogEntries, Zenon DEF RInv
    <2>3. ASSUME NEW v \in below PROVE v <= n
      <3>1. PICK i \in writers : log[i].seqno = v
        BY <1>4, <2>3, Zenon
      <3>2. i <= last /\ i \in DOMAIN log /\ i \in Int
        <4> HIDE DEF writers
        <4> QED
          BY <1>w, <2>1, Zenon
      <3>3. i = last \/ log[i].seqno < log[last].seqno
        BY <2>2, <3>2 DEF RInv, LogOrdered
      <3> QED
        BY <1>1, <2>2, <3>1, <3>3
    <2>4. n \in below
      <3>1. ASSUME NEW v \in versions[k], n < v, v <= watermark PROVE FALSE
        <4>1. v \in below
          BY <1>1, <3>1
        <4> QED
          BY <1>1, <2>2, <2>3, <3>1, <4>1
      <3>2. n \in versions[k]
        BY <2>2, <3>1, Zenon DEF RInv, LogStored
      <3> QED
        BY <2>2, <3>2, Zenon
    <2>5. Greatest(below) = {n}
      <3> HIDE DEF below, n
      <3>1. below \subseteq Int
        BY <1>1, Zenon DEF below
      <3> QED
        <4>1. n \in Greatest(below)
          BY <2>3, <2>4, Zenon DEF Greatest
        <4>2. ASSUME NEW v \in Greatest(below) PROVE v = n
          <5>1. v \in below /\ n <= v
            BY <2>4, <4>2, Zenon DEF Greatest
          <5>2. v <= n
            BY <2>3, <5>1, Zenon
          <5> QED
            BY <2>4, <3>1, <5>1, <5>2
        <4> QED
          BY <4>1, <4>2, Zenon
    <2>6. Get(k, at) = n
      BY <1>5, <2>5, Zenon DEF OnlyOne
    <2>7. Store!LastBatch(k, cut[s]) = last
      <3>1. ASSUME NEW i \in writers, \A j \in writers : j <= i PROVE i = last
        <4> HIDE DEF writers
        <4>1. i <= last /\ last <= i /\ i \in Int
          BY <1>w, <2>1, <3>1, Zenon
        <4> QED
          BY <2>2, <4>1
      <3> QED
        BY <1>3, <1>7, <2>1, <3>1, Zenon
    <2> QED
      BY <2>2, <2>6, <2>7, PlaceUnique, Zenon DEF RInv, Published
  <1> QED
    BY <1>6, <1>7, Zenon

-----------------------------------------------------------------------------
\* Initially the log is empty and no snapshot is open.
LEMMA InitRInv == Init => RInv
  <1> SUFFICES ASSUME Init PROVE RInv
    BY Zenon
  <1>1. LogOrdered
    BY DEF Init, LogOrdered
  <1>2. VersionsLogged /\ LogStored
    BY DEF Init, VersionsLogged, LogStored
  <1>3. CutsAtInstants
    BY DEF Init, CutsAtInstants, NoVersion
  <1>4. ReadsPublished
    BY Zenon DEF Init, ReadsPublished
  <1> QED
    BY <1>1, <1>2, <1>3, <1>4, Zenon DEF RInv

\* A step that publishes nothing and leaves the snapshots alone disturbs only
\* what ties versions to the log.
LEMMA QuietRInv ==
    ASSUME RInv, UNCHANGED <<log, cut, read, instant, visible>>, VersionsLogged', LogStored'
    PROVE  RInv'
  BY Zenon DEF RInv, LogOrdered, CutsAtInstants, ReadsPublished, Published

\* A writer that is not applying starts, fails or goes on to apply.
LEMMA WriterStepRInv ==
    ASSUME IInv, RInv, NEW w \in Writer, pc[w] # "applying",
           UNCHANGED <<log, versions, watermark, cut, read, instant, visible>>,
           \E p \in {"idle", "journaled", "applying"} : pc' = [pc EXCEPT ![w] = p],
           taken' = taken \/ taken' = [taken EXCEPT ![w] = seqno]
    PROVE  RInv'
  <1>1. ASSUME NEW u \in Writer, pc[u] = "applying" PROVE pc'[u] = "applying" /\ taken'[u] = taken[u]
    BY <1>1, Zenon DEF IInv, TypeOK
  <1>2. VersionsLogged'
    BY <1>1, Zenon DEF RInv, VersionsLogged
  <1>3. LogStored'
    BY Zenon DEF RInv, LogStored
  <1> QED
    BY <1>2, <1>3, QuietRInv, Zenon

\* Applying adds versions with the writer's own number.
LEMMA ApplyRInv ==
    ASSUME IInv, RInv, NEW w \in Writer, NEW keys \in SUBSET Key, Apply(w, keys)
    PROVE  RInv'
  <1>1. \A k \in Key : versions[k] \subseteq versions'[k] /\ versions'[k] \subseteq versions[k] \cup {taken[w]}
    BY Zenon DEF Apply
  <1>2. VersionsLogged'
    <2> SUFFICES ASSUME NEW k \in Key, NEW v \in versions'[k]
                 PROVE  \/ \E i \in DOMAIN log : log[i].seqno = v /\ k \in log[i].keys
                        \/ \E u \in Writer : pc[u] = "applying" /\ taken[u] = v
      BY Zenon DEF VersionsLogged, Apply
    <2> QED
      BY <1>1, Zenon DEF RInv, VersionsLogged, Apply
  <1>3. LogStored'
    <2>1. ASSUME NEW i \in DOMAIN log PROVE log[i].keys \in SUBSET Key
      BY LogEntries, Zenon DEF RInv
    <2> QED
      BY <1>1, <2>1, Zenon DEF RInv, LogStored, Apply
  <1> QED
    BY <1>2, <1>3, QuietRInv, Zenon DEF Apply, snaps

\* Raising the watermark hides no less.
LEMMA CollectRInv ==
    ASSUME IInv, RInv, NEW m \in SeqNo, Collect(m)
    PROVE  RInv'
  <1>1. VersionsLogged'
    BY Zenon DEF RInv, VersionsLogged, Collect, threads
  <1>2. LogStored'
    <2> SUFFICES ASSUME NEW i \in DOMAIN log, NEW k \in log[i].keys
                 PROVE  \/ log[i].seqno \in versions[k]
                        \/ \E v \in versions[k] : log[i].seqno < v /\ v <= m
      BY Zenon DEF LogStored, Collect
    <2>1. k \in Key /\ versions[k] \subseteq Int /\ watermark <= m /\ m \in Int /\ watermark \in Int
      BY LogEntries, MaxSeqnoAssumption DEF RInv, IInv, TypeOK, SeqNo, Collect
    <2> QED
      BY <2>1 DEF RInv, LogStored
  <1> QED
    BY <1>1, <1>2, QuietRInv, Zenon DEF Collect, snaps

\* A version that goes was hidden, and so is what it hid.
LEMMA CompactRInv ==
    ASSUME IInv, RInv, NEW c \in Key, Compact(c)
    PROVE  RInv'
  <1>1. PICK old \in versions[c], new \in versions[c] :
            old < new /\ new <= watermark /\ versions' = [versions EXCEPT ![c] = @ \ {old}]
    BY Zenon DEF Compact
  <1>2. \A k \in Key : versions[k] \subseteq Int /\ versions'[k] = IF k = c THEN versions[c] \ {old} ELSE versions[k]
    BY <1>1, MaxSeqnoAssumption DEF IInv, TypeOK, SeqNo
  <1>3. VersionsLogged'
    <2> SUFFICES ASSUME NEW k \in Key, NEW v \in versions'[k]
                 PROVE  \/ \E i \in DOMAIN log : log[i].seqno = v /\ k \in log[i].keys
                        \/ \E u \in Writer : pc[u] = "applying" /\ taken[u] = v
      BY Zenon DEF VersionsLogged, Compact, threads
    <2>1. v \in versions[k]
      BY <1>2, Zenon
    <2> QED
      BY <2>1, Zenon DEF RInv, VersionsLogged
  <1>4. LogStored'
    <2> SUFFICES ASSUME NEW i \in DOMAIN log, NEW k \in log[i].keys
                 PROVE  \/ log[i].seqno \in versions'[k]
                        \/ \E v \in versions'[k] : log[i].seqno < v /\ v <= watermark
      BY Zenon DEF LogStored, Compact
    <2>1. k \in Key /\ log[i].seqno \in Int
      BY LogEntries, Zenon DEF RInv
    <2>2. CASE k # c
      BY <1>2, <2>1, <2>2, Zenon DEF RInv, LogStored
    <2>3. CASE k = c
      <3>1. new \in versions'[k] /\ new \in Int /\ old \in Int
        BY <1>1, <1>2, <2>1, <2>3
      <3>2. CASE log[i].seqno \in versions[k]
        BY <1>1, <1>2, <2>1, <2>3, <3>1, <3>2
      <3>3. CASE \E v \in versions[k] : log[i].seqno < v /\ v <= watermark
        <4>1. PICK v \in versions[k] : log[i].seqno < v /\ v <= watermark
          BY <3>3, Zenon
        <4>2. CASE v = old
          <5>1. log[i].seqno < new
            BY <1>1, <2>1, <3>1, <4>1, <4>2
          <5> QED
            BY <1>1, <3>1, <5>1, Zenon
        <4>3. CASE v # old
          BY <1>2, <2>1, <2>3, <4>1, <4>3, Zenon
        <4> QED
          BY <4>2, <4>3, Zenon
      <3> QED
        BY <3>2, <3>3, Zenon DEF RInv, LogStored
    <2> QED
      BY <2>2, <2>3, Zenon
  <1> QED
    BY <1>3, <1>4, QuietRInv, Zenon DEF Compact, snaps

\* The publication goes to the end of the log: above every visible number and
\* so beyond the cut of every open snapshot.
LEMMA PublishRInv ==
    ASSUME IInv, RInv, NEW w \in Writer, Publish(w)
    PROVE  RInv'
  <1> DEFINE entry == [seqno |-> taken[w], keys |-> {k \in Key : taken[w] \in versions[k]}]
             n == Len(log)
  <1>1. /\ n \in Nat /\ DOMAIN log = 1..n /\ DOMAIN log' = 1..(n + 1) /\ Len(log') = n + 1
        /\ \A i \in 1..n : log'[i] = log[i]
        /\ log'[n + 1] = entry
        /\ log' \in Seq([seqno : SeqNo, keys : SUBSET Key])
    <2>1. entry \in [seqno : SeqNo, keys : SUBSET Key]
      BY Zenon DEF IInv, TypeOK
    <2>2. log \in Seq([seqno : SeqNo, keys : SUBSET Key]) /\ log' = Append(log, entry)
      BY Zenon DEF RInv, LogOrdered, Publish
    <2> HIDE DEF entry
    <2> QED
      BY <2>1, <2>2
  <1>2. entry.seqno = taken[w] /\ entry.keys = {k \in Key : taken[w] \in versions[k]}
    BY Zenon
  <1>3. /\ taken[w] \in Int /\ visible \in Int /\ visible <= taken[w] /\ visible' = taken[w] + 1
        /\ \A i \in 1..n : log[i].seqno \in Int /\ log[i].seqno < visible /\ log[i].keys \in SUBSET Key
    BY <1>1, LogEntries, MaxSeqnoAssumption
       DEF RInv, LogOrdered, IInv, TypeOK, NothingHalfApplied, SeqNo, Publish
  <1> HIDE DEF entry, n
  <1>4. LogOrdered'
    <2>1. ASSUME NEW i \in 1..(n + 1), NEW j \in 1..(n + 1), i < j PROVE log'[i].seqno < log'[j].seqno
      <3>1. i \in 1..n
        BY <1>1, <2>1
      <3>2. CASE j = n + 1
        BY <1>1, <1>2, <1>3, <3>1, <3>2
      <3>3. CASE j \in 1..n
        BY <1>1, <2>1, <3>1, <3>3, Zenon DEF RInv, LogOrdered
      <3> QED
        BY <1>1, <3>2, <3>3
    <2>2. ASSUME NEW i \in 1..(n + 1) PROVE log'[i].seqno < visible'
      <3>1. CASE i = n + 1
        BY <1>1, <1>2, <1>3, <3>1
      <3>2. CASE i \in 1..n
        BY <1>1, <1>3, <3>2
      <3> QED
        BY <1>1, <3>1, <3>2
    <2> QED
      BY <1>1, <2>1, <2>2, Zenon DEF LogOrdered
  <1>5. VersionsLogged'
    <2> SUFFICES ASSUME NEW k \in Key, NEW v \in versions[k]
                 PROVE  \/ \E i \in DOMAIN log' : log'[i].seqno = v /\ k \in log'[i].keys
                        \/ \E u \in Writer : pc'[u] = "applying" /\ taken[u] = v
      BY ZenonT(30) DEF VersionsLogged, Publish
    <2>1. CASE \E i \in DOMAIN log : log[i].seqno = v /\ k \in log[i].keys
      BY <1>1, <2>1
    <2>2. CASE v = taken[w]
      BY <1>1, <1>2, <2>2
    <2>3. ASSUME NEW u \in Writer, u # w, pc[u] = "applying", taken[u] = v PROVE pc'[u] = "applying"
      BY <2>3, Zenon DEF Publish, IInv, TypeOK
    <2> QED
      BY <2>1, <2>2, <2>3, Zenon DEF RInv, VersionsLogged
  <1>6. LogStored'
    <2> SUFFICES ASSUME NEW i \in 1..(n + 1), NEW k \in log'[i].keys
                 PROVE  \/ log'[i].seqno \in versions[k]
                        \/ \E v \in versions[k] : log'[i].seqno < v /\ v <= watermark
      BY <1>1, Zenon DEF LogStored, Publish
    <2>1. CASE i = n + 1
      BY <1>1, <1>2, <2>1, Zenon
    <2>2. CASE i \in 1..n
      BY <1>1, <2>2, Zenon DEF RInv, LogStored
    <2> QED
      BY <1>1, <2>1, <2>2
  <1>7. CutsAtInstants'
    <2>0. cut' = cut /\ instant' = instant
      BY Zenon DEF Publish, snaps
    <2>1. ASSUME NEW s \in Snap, instant[s] # NoVersion
          PROVE  cut[s] \in 0..(n + 1) /\ \A i \in 1..(n + 1) : i <= cut[s] <=> log'[i].seqno < instant[s]
      <3>1. cut[s] \in 0..n /\ \A i \in 1..n : i <= cut[s] <=> log[i].seqno < instant[s]
        BY <1>1, <2>1, Zenon DEF RInv, CutsAtInstants, n
      <3>2. instant[s] \in Int /\ instant[s] <= visible
        BY <2>1, MaxSeqnoAssumption DEF IInv, TypeOK, SnapshotsBetween, SeqNo
      <3>3. ~ (taken[w] < instant[s]) /\ ~ (n + 1 <= cut[s])
        BY <1>1, <1>3, <3>1, <3>2
      <3>4. ASSUME NEW i \in 1..(n + 1) PROVE i <= cut[s] <=> log'[i].seqno < instant[s]
        <4>1. CASE i = n + 1
          BY <1>1, <1>2, <3>3, <4>1, Zenon
        <4>2. CASE i \in 1..n
          BY <1>1, <3>1, <4>2, Zenon
        <4> QED
          BY <1>1, <4>1, <4>2
      <3> QED
        BY <1>1, <3>1, <3>4
    <2> QED
      BY <1>1, <2>0, <2>1, Zenon DEF RInv, CutsAtInstants
  <1>8. ReadsPublished'
    <2>1. ASSUME NEW v, Published(v) PROVE Published(v)'
      BY <1>1, <2>1 DEF Published
    <2>2. read' = read
      BY Zenon DEF Publish, snaps
    <2> QED
      BY <2>1, <2>2, Zenon DEF RInv, ReadsPublished
  <1> QED
    BY <1>4, <1>5, <1>6, <1>7, <1>8, Zenon DEF RInv

\* What the snapshot's actions leave alone.
LEMMA SnapshotStepKeeps ==
    ASSUME RInv, UNCHANGED <<shared, locks, threads, log>>
    PROVE  LogOrdered' /\ VersionsLogged' /\ LogStored'
  BY Zenon DEF RInv, shared, threads, LogOrdered, VersionsLogged, LogStored

\* A snapshot is cut at the end of the log: all of it is below its instant.
LEMMA OpenSnapshotRInv ==
    ASSUME IInv, RInv, NEW s \in Snap, OpenSnapshot(s)
    PROVE  RInv'
  <1>1. LogOrdered' /\ VersionsLogged' /\ LogStored'
    BY SnapshotStepKeeps, Zenon DEF OpenSnapshot
  <1>2. CutsAtInstants'
    <2>1. /\ instant' = [instant EXCEPT ![s] = visible] /\ cut' = [cut EXCEPT ![s] = Len(log)] /\ log' = log
          /\ instant \in [Snap -> SeqNo \cup {NoVersion}] /\ cut \in [Snap -> Int]
          /\ visible \in SeqNo /\ visible # NoVersion
      BY MaxSeqnoAssumption DEF OpenSnapshot, IInv, TypeOK, RInv, CutsAtInstants, SeqNo, NoVersion
    <2>2. Len(log) \in 0..Len(log) /\ Len(log) \in Int
          /\ \A i \in DOMAIN log : i <= Len(log) /\ log[i].seqno < visible
      BY LogEntries DEF RInv, LogOrdered
    <2>3. cut' \in [Snap -> Int]
      BY <2>1, <2>2, Zenon
    <2>4. ASSUME NEW t \in Snap, t # s PROVE instant'[t] = instant[t] /\ cut'[t] = cut[t]
      BY <2>1, <2>4, Zenon
    <2>5. instant'[s] = visible /\ cut'[s] = Len(log)
      BY <2>1, Zenon
    <2> QED
      BY <2>1, <2>2, <2>3, <2>4, <2>5, Zenon DEF RInv, CutsAtInstants
  <1>3. ReadsPublished'
    BY DEF RInv, ReadsPublished, Published, OpenSnapshot
  <1> QED
    BY <1>1, <1>2, <1>3, Zenon DEF RInv

\* A snapshot read (Snapshot::get) answers with a logged version at or below the
\* snapshot's instant, so the answer agrees with the log's prefix.
LEMMA ReadSnapshotRInv ==
    ASSUME IInv, RInv, NEW s \in Snap, NEW k \in Key, ReadSnapshot(s, k)
    PROVE  RInv'
  <1>1. LogOrdered' /\ VersionsLogged' /\ LogStored'
    BY SnapshotStepKeeps, Zenon DEF ReadSnapshot
  <1>2. CutsAtInstants'
    BY Zenon DEF RInv, CutsAtInstants, ReadSnapshot
  <1>3. ReadsPublished'
    <2> DEFINE got == Get(k, instant[s])
    <2>1. Published(got) /\ got \in SeqNo \cup {NoVersion}
      BY ReadAnswersFromCut, Zenon DEF ReadSnapshot
    <2>2. read' = [read EXCEPT ![s] = <<k, got>>] /\ log' = log
      BY Zenon DEF ReadSnapshot
    <2> HIDE DEF got
    <2> QED
      BY <2>1, <2>2, ZenonT(30) DEF RInv, ReadsPublished, Published
  <1> QED
    BY <1>1, <1>2, <1>3, Zenon DEF RInv

\* Dropping a snapshot forgets its cut and its answers and leaves the log alone.
LEMMA CloseSnapshotRInv ==
    ASSUME IInv, RInv, NEW s \in Snap, CloseSnapshot(s)
    PROVE  RInv'
  <1>1. LogOrdered' /\ VersionsLogged' /\ LogStored'
    BY SnapshotStepKeeps, Zenon DEF CloseSnapshot
  <1>2. CutsAtInstants'
    BY SMTT(30) DEF RInv, CutsAtInstants, CloseSnapshot, IInv, TypeOK
  <1>3. ReadsPublished'
    BY Zenon DEF RInv, ReadsPublished, Published, CloseSnapshot
  <1> QED
    BY <1>1, <1>2, <1>3, Zenon DEF RInv

\* Every step of the write path preserves the relation between the log and the trees.
LEMMA StepRInv ==
    ASSUME IInv, RInv, [WriteNext]_vars
    PROVE  RInv'
  <1>1. ASSUME NEW w \in Writer, WriterNext(w) PROVE RInv'
    <2>1. ASSUME NEW op \in Kind, NEW keys \in Items(op), Begin(w, op, keys) PROVE RInv'
      BY <2>1, WriterStepRInv, Zenon DEF Begin, snaps
    <2>2. ASSUME NEW poison \in BOOLEAN, Fail(w, poison) PROVE RInv'
      BY <2>2, WriterStepRInv, Zenon DEF Fail, snaps
    <2>3. CASE Persisted(w)
      BY <2>3, WriterStepRInv, Zenon DEF Persisted, snaps, shared
    <2> QED
      BY <1>1, <2>1, <2>2, <2>3, ApplyRInv, PublishRInv, Zenon DEF WriterNext
  <1>2. CASE ReaderNext
    BY <1>2, OpenSnapshotRInv, CloseSnapshotRInv, ReadSnapshotRInv, CollectRInv, CompactRInv, Zenon DEF ReaderNext
  <1>3. CASE UNCHANGED vars
    <2>1. UNCHANGED <<log, cut, read, instant, visible, versions, watermark, pc, taken>>
      BY <1>3, Zenon DEF vars, shared, threads, snaps
    <2>2. VersionsLogged' /\ LogStored'
      BY <2>1, Zenon DEF RInv, VersionsLogged, LogStored
    <2> QED
      BY <2>1, <2>2, QuietRInv, Zenon
  <1> QED
    BY <1>1, <1>2, <1>3, Zenon DEF WriteNext

\* Why every run of the write path keeps RInv.
THEOREM Logged == Spec => [](IInv /\ RInv)
  <1>1. Init => IInv /\ RInv
    BY InitIInv, InitRInv, Zenon
  <1>2. IInv /\ RInv /\ [WriteNext]_vars => (IInv /\ RInv)'
    BY StepIInv, StepRInv, Zenon
  <1> QED
    BY <1>1, <1>2, PTL DEF Spec, WriteNext

-----------------------------------------------------------------------------
Batches == [i \in DOMAIN log |-> log[i].keys]
Answers == [s \in Snap |-> IF read[s] = <<>> THEN <<>> ELSE <<read[s][1], Place(read[s][2])>>]

\* A publication is a commit of the abstract store: what was read keeps its place.
LEMMA PublishCommits ==
    ASSUME IInv, RInv, RInv', NEW w \in Writer, Publish(w)
    PROVE  \E keys \in SUBSET Key : Store!Commit(keys)
  <1> DEFINE keys == {k \in Key : taken[w] \in versions[k]}
             entry == [seqno |-> taken[w], keys |-> keys]
             n == Len(log)
  <1>1. log' = Append(log, entry) /\ n \in Nat /\ DOMAIN log = 1..n
    BY LogEntries, Zenon DEF Publish, RInv
  <1>2. DOMAIN log' = 1..(n + 1) /\ (\A i \in 1..n : log'[i] = log[i]) /\ log'[n + 1] = entry
    <2>1. log \in Seq([seqno : SeqNo, keys : SUBSET Key])
      BY Zenon DEF RInv, LogOrdered
    <2> HIDE DEF entry
    <2> QED
      BY <1>1, <2>1
  <1>3. Batches' = Append(Batches, keys)
    <2>1. entry.keys = keys
      BY Zenon
    <2>2. Batches \in Seq(SUBSET Key) /\ Len(Batches) = n
      BY <1>1, LogEntries, SMTT(30) DEF Batches, RInv
    <2>3. Batches' = [i \in 1..(n + 1) |-> log'[i].keys]
      BY <1>2, Zenon DEF Batches
    <2>4. ASSUME NEW i \in 1..(n + 1)
          PROVE  log'[i].keys = IF i = n + 1 THEN keys ELSE Batches[i]
      <3> HIDE DEF keys, entry
      <3>1. CASE i = n + 1
        BY <1>2, <2>1, <3>1, Zenon
      <3>2. CASE i \in 1..n
        BY <1>1, <1>2, <3>2 DEF Batches
      <3> QED
        BY <1>1, <3>1, <3>2
    <2> HIDE DEF keys, entry
    <2>5. Append(Batches, keys) = [i \in 1..(n + 1) |-> IF i = n + 1 THEN keys ELSE Batches[i]]
      <3>1. Append(Batches, keys) \in Seq(SUBSET Key) /\ Len(Append(Batches, keys)) = n + 1
        BY <2>2 DEF keys
      <3>2. \A i \in 1..(n + 1) : Append(Batches, keys)[i] = IF i = n + 1 THEN keys ELSE Batches[i]
        BY <1>1, <2>2
      <3> DEFINE longer == Append(Batches, keys)
      <3>3. longer = [i \in 1..Len(longer) |-> longer[i]]
        <4>1. longer \in Seq(SUBSET Key)
          BY <3>1, Zenon
        <4> HIDE DEF longer
        <4>2. longer \in [1..Len(longer) -> SUBSET Key]
          BY <4>1, LenProperties, Zenon
        <4> QED
          BY <4>2, Zenon
      <3>4. \A i \in 1..Len(longer) : longer[i] = IF i = n + 1 THEN keys ELSE Batches[i]
        BY <3>1, <3>2, Zenon
      <3> HIDE DEF n, longer
      <3>5. longer = [i \in 1..(n + 1) |-> IF i = n + 1 THEN keys ELSE Batches[i]]
        <4>1. Len(longer) = n + 1
          BY <3>1, Zenon DEF longer
        <4> QED
          BY <3>3, <3>4, <4>1, Zenon
      <3> QED
        BY <3>5, Zenon DEF longer
    <2> QED
      BY <2>3, <2>4, <2>5, Zenon
  <1>4. ASSUME NEW v, Published(v) PROVE Place(v)' = Place(v)
    <2>1. CASE v = NoVersion
      BY <2>1, Zenon DEF Place
    <2>2. CASE v # NoVersion
      <3>1. PICK i \in DOMAIN log : log[i].seqno = v
        BY <1>4, <2>2, Zenon DEF Published
      <3>2. i \in DOMAIN log' /\ log'[i].seqno = v
        BY <1>1, <1>2, <3>1
      <3>3. Place(v) = i
        BY <3>1, PlaceUnique, Zenon DEF RInv
      <3>4. Place(v)' = i
        <4>1. ASSUME NEW j \in DOMAIN log', log'[j].seqno = v PROVE j = i
          <5>1. /\ j \in Int /\ i \in Int /\ v \in Int
            BY <3>2, <4>1, LogEntries, <1>1, <1>2 DEF RInv
          <5>2. ~ (i < j) /\ ~ (j < i)
            BY <3>2, <4>1, <5>1 DEF RInv, LogOrdered
          <5> QED
            BY <5>1, <5>2
        <4> QED
          BY <2>2, <3>2, <4>1, Zenon DEF Place
      <3> QED
        BY <3>3, <3>4, Zenon
    <2> QED
      BY <2>1, <2>2, Zenon
  <1>5. Answers' = Answers /\ cut' = cut
    <2>1. read' = read /\ cut' = cut
      BY Zenon DEF Publish, snaps
    <2>2. ASSUME NEW s \in Snap
          PROVE  (IF read[s] = <<>> THEN <<>> ELSE <<read[s][1], Place(read[s][2])'>>)
                 = (IF read[s] = <<>> THEN <<>> ELSE <<read[s][1], Place(read[s][2])>>)
      <3>1. CASE read[s] = <<>>
        BY <3>1, Zenon
      <3>2. CASE read[s] # <<>>
        <4>1. PICK k \in Key, v \in SeqNo \cup {NoVersion} : read[s] = <<k, v>> /\ Published(v)
          BY <3>2, Zenon DEF RInv, ReadsPublished
        <4>2. Place(read[s][2])' = Place(read[s][2])
          BY <1>4, <2>1, <4>1
        <4> QED
          BY <2>1, <4>2, Zenon
      <3> QED
        BY <3>1, <3>2, Zenon
    <2> QED
      BY <2>1, <2>2, Zenon DEF Answers
  <1>6. keys \in SUBSET Key
    BY Zenon
  <1> QED
    <2> HIDE DEF keys
    <2> QED
      BY <1>3, <1>5, <1>6, Zenon DEF Store!Commit, Batches, Answers

\* A step that leaves the log and the snapshots' state alone is a stutter.
LEMMA QuietStutters ==
    ASSUME UNCHANGED <<log, cut, read>>
    PROVE  UNCHANGED Store!storeVars
  BY DEF Store!storeVars, Place

\* SnapshotTracker::open_snapshot is the abstract store's Open: the instant it
\* pins is the length of a prefix of the published log.
LEMMA OpenSnapshotOpens ==
    ASSUME IInv, RInv, NEW s \in Snap, OpenSnapshot(s)
    PROVE  Store!Open(s)
  <1>1. cut[s] = -1 /\ cut' = [cut EXCEPT ![s] = Len(log)] /\ log' = log /\ read' = read
    BY Zenon DEF OpenSnapshot, RInv, CutsAtInstants
  <1>2. Len(Batches) = Len(log)
    <2>1. Len(log) \in Nat /\ DOMAIN log = 1..Len(log)
      BY LogEntries, Zenon DEF RInv
    <2> QED
      BY <2>1 DEF Batches
  <1>3. Batches' = Batches /\ Answers' = Answers
    BY <1>1 DEF Batches, Answers, Place
  <1> QED
    BY <1>1, <1>2, <1>3, Zenon DEF Store!Open, Store!Closed, Batches, Answers

\* Dropping the snapshot's nonce is the abstract store's Close.
LEMMA CloseSnapshotCloses ==
    ASSUME IInv, RInv, NEW s \in Snap, CloseSnapshot(s)
    PROVE  Store!Close(s)
  <1>1. /\ cut[s] # -1 /\ cut' = [cut EXCEPT ![s] = -1] /\ log' = log
        /\ read' = [read EXCEPT ![s] = <<>>] /\ read = [t \in Snap |-> read[t]]
    <2>1. cut[s] \in 0..Len(log) /\ Len(log) \in Nat
      BY LogEntries, Zenon DEF CloseSnapshot, RInv, CutsAtInstants
    <2> QED
      BY <2>1 DEF CloseSnapshot, RInv, ReadsPublished
  <1>2. Batches' = Batches
    BY <1>1, Zenon DEF Batches
  <1>3. Answers' = [Answers EXCEPT ![s] = <<>>]
    <2>1. ASSUME NEW v PROVE Place(v)' = Place(v)
      BY <1>1 DEF Place
    <2>2. ASSUME NEW t \in Snap
          PROVE  (IF read'[t] = <<>> THEN <<>> ELSE <<read'[t][1], Place(read'[t][2])>>)
                 = IF t = s THEN <<>> ELSE Answers[t]
      <3>1. read'[t] = IF t = s THEN <<>> ELSE read[t]
        BY <1>1, Zenon
      <3> QED
        BY <3>1, Zenon DEF Answers
    <2>3. Answers' = [t \in Snap |-> IF read'[t] = <<>> THEN <<>> ELSE <<read'[t][1], Place(read'[t][2])>>]
      BY <1>1 DEF Answers, Place
    <2>4. Answers' = [t \in Snap |-> IF t = s THEN <<>> ELSE Answers[t]]
      BY <2>2, <2>3, Zenon
    <2>5. Answers = [t \in Snap |-> Answers[t]]
      BY Zenon DEF Answers
    <2> QED
      BY <2>4, <2>5, Zenon
  <1> QED
    BY <1>1, <1>2, <1>3, Zenon DEF Store!Close, Store!Closed, Store!NoAnswer, Batches, Answers

\* A read answers as the abstract store does.
LEMMA ReadSnapshotReads ==
    ASSUME IInv, RInv, NEW s \in Snap, NEW k \in Key, ReadSnapshot(s, k)
    PROVE  Store!ReadKey(s, k)
  <1> DEFINE got == Get(k, instant[s])
             batch == Store!LastBatch(k, cut[s])
  <1>1. /\ cut[s] # -1 /\ cut' = cut /\ log' = log
        /\ read' = [read EXCEPT ![s] = <<k, got>>] /\ read = [t \in Snap |-> read[t]]
    <2>1. cut[s] \in 0..Len(log) /\ Len(log) \in Nat
      BY LogEntries, Zenon DEF ReadSnapshot, RInv, CutsAtInstants
    <2> QED
      BY <2>1 DEF ReadSnapshot, RInv, ReadsPublished
  <1>2. Place(got) = batch
    BY ReadAnswersFromCut, Zenon DEF ReadSnapshot
  <1>3. Batches' = Batches
    BY <1>1, Zenon DEF Batches
  <1>4. Answers' = [Answers EXCEPT ![s] = <<k, batch>>]
    <2> HIDE DEF got, batch
    <2>1. ASSUME NEW v PROVE Place(v)' = Place(v)
      BY <1>1 DEF Place
    <2>2. ASSUME NEW t \in Snap
          PROVE  (IF read'[t] = <<>> THEN <<>> ELSE <<read'[t][1], Place(read'[t][2])>>)
                 = IF t = s THEN <<k, batch>> ELSE Answers[t]
      <3>1. CASE t = s
        <4>1. read'[t] = <<k, got>>
          BY <1>1, <3>1, Zenon
        <4> QED
          BY <1>2, <3>1, <4>1
      <3>2. CASE t # s
        <4>1. read'[t] = read[t]
          BY <1>1, <3>2, Zenon
        <4> QED
          BY <3>2, <4>1, Zenon DEF Answers
      <3> QED
        BY <3>1, <3>2, Zenon
    <2>3. Answers' = [t \in Snap |-> IF read'[t] = <<>> THEN <<>> ELSE <<read'[t][1], Place(read'[t][2])>>]
      BY <1>1 DEF Answers, Place
    <2>4. Answers' = [t \in Snap |-> IF t = s THEN <<k, batch>> ELSE Answers[t]]
      BY <2>2, <2>3, Zenon
    <2>5. Answers = [t \in Snap |-> Answers[t]]
      BY Zenon DEF Answers
    <2> QED
      BY <2>4, <2>5, Zenon
  <1> QED
    <2> HIDE DEF got
    <2> QED
      BY <1>1, <1>3, <1>4, Zenon DEF Store!ReadKey, Store!Closed, Batches, Answers

\* Every step of the write path is a step of the abstract store or leaves it as it is.
LEMMA StepRefines ==
    ASSUME IInv, RInv, RInv', [WriteNext]_vars
    PROVE  [Store!StoreNext]_(Store!storeVars)
  <1>1. ASSUME NEW w \in Writer, WriterNext(w) PROVE [Store!StoreNext]_(Store!storeVars)
    <2>1. CASE Publish(w)
      BY <2>1, PublishCommits, Zenon DEF Store!StoreNext
    <2>2. CASE ~ Publish(w)
      <3>1. UNCHANGED <<log, cut, read>>
        BY <1>1, <2>2, Zenon DEF WriterNext, Begin, Fail, Persisted, Apply, snaps
      <3> QED
        BY <3>1, QuietStutters, Zenon
    <2> QED
      BY <2>1, <2>2, Zenon
  <1>2. ASSUME NEW s \in Snap, OpenSnapshot(s) PROVE Store!StoreNext
    BY <1>2, OpenSnapshotOpens, Zenon DEF Store!StoreNext
  <1>3. ASSUME NEW s \in Snap, CloseSnapshot(s) PROVE Store!StoreNext
    BY <1>3, CloseSnapshotCloses, Zenon DEF Store!StoreNext
  <1>4. ASSUME NEW s \in Snap, NEW k \in Key, ReadSnapshot(s, k) PROVE Store!StoreNext
    BY <1>4, ReadSnapshotReads, Zenon DEF Store!StoreNext
  <1>5. CASE (\E m \in SeqNo : Collect(m)) \/ (\E k \in Key : Compact(k)) \/ UNCHANGED vars
    <2>1. UNCHANGED <<log, cut, read>>
      BY <1>5, Zenon DEF Collect, Compact, snaps, vars
    <2> QED
      BY <2>1, QuietStutters, Zenon
  <1> QED
    BY <1>1, <1>2, <1>3, <1>4, <1>5, Zenon DEF WriteNext, ReaderNext

\* A freshly opened database maps to the empty abstract store.
LEMMA InitRefines == Init => Store!StoreInit
  BY DEF Init, Store!StoreInit, Store!Closed, Store!NoAnswer

\* For any number of writers, snapshots and keys and whatever the bound on the
\* numbers: the write path with its journal mutex (insert, remove, clear,
\* batches, ingestion) and its compactions implements the abstract store, in
\* which batches take effect atomically and snapshots answer from a prefix.
THEOREM Refinement == Spec => ImplementsSnapshotStore
  <1>1. Spec => [](IInv /\ RInv)
    BY Logged, Zenon
  <1>2. Init => Store!StoreInit
    BY InitRefines, Zenon
  <1>3. IInv /\ RInv /\ (IInv /\ RInv)' /\ [WriteNext]_vars => [Store!StoreNext]_(Store!storeVars)
    BY StepRefines, Zenon
  <1> QED
    BY <1>1, <1>2, <1>3, PTL DEF Spec, WriteNext, ImplementsSnapshotStore, Store!StoreSpec
=============================================================================
