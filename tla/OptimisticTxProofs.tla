------------------------- MODULE OptimisticTxProofs -------------------------
(***************************************************************************)
(* Between two collections of the snapshot tracker, for any transactions   *)
(* and keys: a committed update transaction read what was current when its *)
(* batch was applied, a conflict is reported only with a cause, and all    *)
(* that committed is serializable.  First the inductive invariant TxInv,   *)
(* what the operators return under it, the steps that concern one          *)
(* transaction only and the two ends of a commit.                          *)
(***************************************************************************)
EXTENDS OptimisticTx, NaturalMaximum, FiniteSetTheorems

\* A read that has_conflict finds to contain the key.
Covers(r, k) == r.all \/ (FromStart(r.start, k) /\ ToEnd(r.end, k))

IsRead(r) ==
    /\ IsBound(r.start) /\ IsBound(r.end) /\ r.all \in BOOLEAN
    /\ r.all => r.start = Unbounded /\ r.end = Unbounded

Types ==
    /\ workload \in Workloads
    /\ seqno \in 1..MaxSeqno /\ watermark = 0
    /\ lock \in Tx \cup {Nobody}
    /\ committed_txns \subseteq SeqNo \X SUBSET Key
    /\ status \in [Tx -> {"new", "active", "applying", "recording", "closing",
                          "committed", "conflicted", "failed", "rolled_back"}]
    /\ instant \in [Tx -> SeqNo]
    /\ memtable \in [Tx -> SUBSET Key]
    /\ conflict_keys \in [Tx -> SUBSET Key]
    /\ commit_seqno \in [Tx -> SeqNo]
    /\ reads = [t \in Tx |-> reads[t]]
    /\ observed = [t \in Tx |-> observed[t]]
    /\ \A t \in Tx : \A r \in reads[t] : IsRead(r)

\* Transactions whose snapshot still matters, and those that committed writes.
Live(t) == status[t] \in {"active", "applying", "closing"}
Updater(t) == t \in Committed /\ memtable[t] # {}

Before(k, s) == {c \in Committed : k \in memtable[c] /\ commit_seqno[c] < s}

\* LastWriter(k, s), without the choice.
IsLast(k, s, x) ==
    \/ Before(k, s) = {} /\ x = Initial
    \/ x \in Before(k, s) /\ \A d \in Before(k, s) : commit_seqno[d] <= commit_seqno[x]

\* The commit lock is held from the check to the entry into the conflict set.
LockHeld == \A t \in Tx : status[t] \in {"applying", "recording"} => lock = t

\* The trees hold what the committed transactions wrote, and nothing is lost.
Versioned ==
    \A k \in Key : versions[k] =
        {<<0, Initial>>} \cup {<<commit_seqno[c], c>> : c \in {d \in Committed : k \in memtable[d]}}

\* Batches are numbered one by one, below the visible number.
CommitOrder ==
    /\ \A c \in Tx : Updater(c) => commit_seqno[c] \in 1..(seqno - 1)
    /\ \A c, d \in Tx : Updater(c) /\ Updater(d) /\ commit_seqno[c] = commit_seqno[d] => c = d

\* An entry is no newer than the visible number, nor than a batch that has not
\* been entered yet: entering it replaces none.
EntriesBounded ==
    \A e \in committed_txns :
        /\ e[1] \in 1..seqno
        /\ \A t \in Tx : status[t] = "recording" => e[1] <= commit_seqno[t]

\* Every committed update transaction is found by the check of those it
\* concerns ...
UpdatersEntered ==
    \A c \in Tx : status[c] = "committed" /\ memtable[c] # {} =>
        \E e \in committed_txns : e[2] = conflict_keys[c] /\ commit_seqno[c] < e[1]

\* ... and only of those.
EntriesCaused ==
    \A e \in committed_txns : \E c \in Tx :
        /\ Updater(c) /\ e[2] = conflict_keys[c] /\ commit_seqno[c] < e[1]
        /\ \A t \in Tx : Live(t) /\ instant[t] < e[1] => instant[t] <= commit_seqno[c]

\* No snapshot is opened between a batch and its entry.
RecordingNewest ==
    \A c \in Tx : status[c] = "recording" =>
        memtable[c] # {} /\ \A t \in Tx : Live(t) => instant[t] <= commit_seqno[c]

\* What a transaction has read is what its snapshot holds, and is noted.
ReadsNoted(t) ==
    \A o \in observed[t] :
        /\ o[1] \in Key
        /\ IsLast(o[1], instant[t], o[2])
        /\ \E r \in reads[t] : Covers(r, o[1])

\* Per transaction, by how far it is.
Progress(t) ==
    /\ memtable[t] \subseteq conflict_keys[t]
    /\ status[t] \in {"new", "conflicted"} => memtable[t] = {} /\ observed[t] = {}
    /\ Live(t) => instant[t] \in 1..seqno
    /\ status[t] \in {"active", "applying"} => ReadsNoted(t)
    /\ status[t] = "applying" =>
        /\ memtable[t] # {}
        /\ \A c \in Tx : Updater(c) /\ instant[t] <= commit_seqno[c] =>
                            ~ HasConflictWith(reads[t], conflict_keys[c])
    /\ status[t] = "closing" =>
        \E c \in Tx : /\ Updater(c) /\ instant[t] <= commit_seqno[c]
                      /\ HasConflictWith(reads[t], conflict_keys[c])
    /\ Updater(t) => \A o \in observed[t] : o[1] \in Key /\ IsLast(o[1], commit_seqno[t], o[2])

TxInv ==
    /\ Types /\ LockHeld /\ Versioned /\ CommitOrder /\ EntriesBounded /\ UpdatersEntered
    /\ EntriesCaused /\ RecordingNewest
    /\ \A t \in Tx : Progress(t)

-----------------------------------------------------------------------------
\* has_conflict reads a bound as an iterator over the tree does.
LEMMA BoundMeans ==
    ASSUME NEW b, IsBound(b), NEW k \in Key
    PROVE  /\ FromStart(b, k) <=> (b # Unbounded => k > b.key \/ (k = b.key /\ b = Included(k)))
           /\ ToEnd(b, k) <=> (b # Unbounded => k < b.key \/ (k = b.key /\ b = Included(k)))
  <1>0. k \in Nat
    BY TxAssumption
  <1>1. CASE b = Unbounded
    <2>1. b.kind = "unbounded"
      BY <1>1 DEF Unbounded
    <2> QED
      BY <1>1, <2>1 DEF FromStart, ToEnd
  <1>2. CASE b.key \in Nat /\ b = Included(b.key)
    <2>1. PICK n \in Nat : b.key = n /\ b = Included(n)
      BY <1>2
    <2>2. b.kind = "included" /\ b # Unbounded
      BY <2>1 DEF Included, Unbounded
    <2>3. b = Included(k) <=> n = k
      BY <2>1 DEF Included
    <2> QED
      BY <1>0, <2>1, <2>2, <2>3 DEF FromStart, ToEnd
  <1>3. CASE b.key \in Nat /\ b = Excluded(b.key)
    <2>1. PICK n \in Nat : b.key = n /\ b = Excluded(n)
      BY <1>3
    <2>2. b.kind = "excluded" /\ b # Unbounded
      BY <2>1 DEF Excluded, Unbounded
    <2>3. b # Included(k)
      BY <2>1 DEF Included, Excluded
    <2> QED
      BY <1>0, <2>1, <2>2, <2>3 DEF FromStart, ToEnd
  <1> QED
    BY <1>1, <1>2, <1>3 DEF IsBound

\* What a range covers contains the keys an iterator over it meets, and for a
\* bound that is one nothing else.
LEMMA RangeIsRead ==
    ASSUME NEW start, NEW end, IsBound(start), IsBound(end)
    PROVE  IsRead(MarkRange(start, end))
  BY DEF MarkRange, All, Between, IsRead, IsBound

\* ConflictManager::mark_range notes a range that covers every key the scan could return.
LEMMA RangeCovers ==
    ASSUME NEW start, NEW end, IsBound(start), IsBound(end), NEW k \in Key
    PROVE  k \in KeysIn(Key, start, end) => Covers(MarkRange(start, end), k)
  <1>1. CASE start = Unbounded /\ end = Unbounded
    BY <1>1 DEF MarkRange, All, Covers
  <1>2. CASE ~ (start = Unbounded /\ end = Unbounded)
    <2>1. MarkRange(start, end) = Between(start, end)
      BY <1>2 DEF MarkRange
    <2>3. ASSUME k \in KeysIn(Key, start, end) PROVE FromStart(start, k) /\ ToEnd(end, k)
      BY <2>3, BoundMeans DEF KeysIn
    <2>4. Covers(Between(start, end), k) <=> FromStart(start, k) /\ ToEnd(end, k)
      BY DEF Between, Covers
    <2> QED
      BY <2>1, <2>3, <2>4
  <1> QED
    BY <1>1, <1>2

\* ConflictManager::mark_read notes a read that covers the key that was read.
LEMMA SingleCovers ==
    ASSUME NEW k \in Key
    PROVE  IsRead(Single(k)) /\ Covers(Single(k), k)
  <1>1. k \in Nat
    BY TxAssumption
  <1>2. IsBound(Included(k)) /\ Included(k).key = k /\ Included(k).kind = "included"
    BY <1>1 DEF IsBound, Included
  <1>3. /\ Single(k).start = Included(k) /\ Single(k).end = Included(k)
        /\ Single(k).all = FALSE
    BY DEF Single
  <1>4. FromStart(Included(k), k) /\ ToEnd(Included(k), k)
    BY <1>1, <1>2 DEF FromStart, ToEnd
  <1> QED
    BY <1>2, <1>3, <1>4, Zenon DEF IsRead, Covers

\* A noted read covers only keys between its bounds.
LEMMA CoveredInRange ==
    ASSUME NEW r, IsRead(r), NEW k \in Key, Covers(r, k)
    PROVE  k \in KeysIn(Key, r.start, r.end)
  BY BoundMeans DEF IsRead, Covers, KeysIn

\* The commit check (Oracle::with_commit) reports a conflict exactly when a noted
\* read covers a key the other transaction wrote.
LEMMA ConflictCovers ==
    ASSUME NEW R, NEW K
    PROVE  HasConflictWith(R, K) <=> \E r \in R : \E k \in K : Covers(r, k)
  BY DEF HasConflictWith, Covers

-----------------------------------------------------------------------------
\* Batches have different numbers, so there is one last writer.
LEMMA LastExists ==
    ASSUME Types, NEW k, NEW s \in Int
    PROVE  \E x : IsLast(k, s, x)
  <1>1. CASE Before(k, s) = {}
    BY <1>1 DEF IsLast
  <1>2. CASE Before(k, s) # {}
    <2> DEFINE numbers == {commit_seqno[c] : c \in Before(k, s)}
    <2>0. \A c \in Before(k, s) : commit_seqno[c] \in 0..MaxSeqno
      BY DEF Types, Before, Committed, SeqNo
    <2>1. numbers \in SUBSET (0..MaxSeqno) /\ numbers # {} /\ MaxSeqno \in Nat
      BY <1>2, <2>0, OptBoundsAssumption
    <2>2. PICK n \in numbers : \A m \in numbers : m <= n
      <3> HIDE DEF numbers
      <3> QED
        BY <2>1, GreatestUpTo, Zenon
    <2>3. PICK c \in Before(k, s) : commit_seqno[c] = n
      BY <2>2
    <2> QED
      BY <2>2, <2>3 DEF IsLast
  <1> QED
    BY <1>1, <1>2

\* Two commits of one key never share a place in the commit order.
LEMMA LastUnique ==
    ASSUME Types, CommitOrder, NEW k, NEW s \in Int, NEW x, NEW y, IsLast(k, s, x), IsLast(k, s, y)
    PROVE  x = y
  <1>1. CASE Before(k, s) = {}
    BY <1>1 DEF IsLast
  <1>2. CASE Before(k, s) # {}
    <2>1. /\ x \in Before(k, s) /\ y \in Before(k, s)
          /\ commit_seqno[x] <= commit_seqno[y] /\ commit_seqno[y] <= commit_seqno[x]
      BY <1>2 DEF IsLast
    <2>2. /\ x \in Tx /\ y \in Tx /\ Updater(x) /\ Updater(y)
          /\ commit_seqno[x] \in Int /\ commit_seqno[y] \in Int
      BY <2>1, OptBoundsAssumption DEF Before, Committed, Updater, Types, SeqNo
    <2> QED
      BY <2>1, <2>2 DEF CommitOrder
  <1> QED
    BY <1>1, <1>2

\* A transaction that is last before an instant is the one LastWriter chooses.
LEMMA LastWriterIs ==
    ASSUME Types, CommitOrder, NEW k, NEW s \in Int, NEW x, IsLast(k, s, x)
    PROVE  LastWriter(k, s) = x
  <1> DEFINE before == {c \in Committed : k \in Wrote(c) /\ commit_seqno[c] < s}
  <1>1. before = Before(k, s)
    BY DEF Before, Wrote
  <1>2. LastWriter(k, s) = IF before = {} THEN Initial
                           ELSE CHOOSE c \in before : \A d \in before : commit_seqno[d] <= commit_seqno[c]
    BY Zenon DEF LastWriter
  <1>3. ASSUME NEW c \in before, \A d \in before : commit_seqno[d] <= commit_seqno[c] PROVE c = x
    BY <1>1, <1>3, LastUnique DEF IsLast
  <1> HIDE DEF before
  <1>4. CASE before = {}
    BY <1>1, <1>2, <1>4 DEF IsLast
  <1>5. CASE before # {}
    BY <1>1, <1>2, <1>3, <1>5 DEF IsLast
  <1> QED
    BY <1>4, <1>5

\* A read of the tree at a snapshot returns what the last writer before it wrote.
LEMMA TreeGetIsLast ==
    ASSUME Types, CommitOrder, Versioned, NEW k \in Key, NEW s \in Int, 1 <= s
    PROVE  IsLast(k, s, TreeGet(k, s))
  <1> DEFINE below == {v \in versions[k] : v[1] < s}
             newest == CHOOSE v \in below : \A w \in below : w[1] <= v[1]
  <1>1. TreeGet(k, s) = IF below = {} THEN Missing ELSE newest[2]
    BY Zenon DEF TreeGet
  <1>2. PICK x : IsLast(k, s, x)
    BY LastExists
  <1>3. <<0, Initial>> \in below
    BY DEF Versioned
  <1>4. ASSUME NEW v \in below
        PROVE  v = <<0, Initial>> \/ \E c \in Before(k, s) : v = <<commit_seqno[c], c>>
    BY DEF Versioned, Before
  <1>5. ASSUME NEW c \in Before(k, s)
        PROVE  /\ <<commit_seqno[c], c>> \in below /\ commit_seqno[c] \in Int /\ 0 < commit_seqno[c]
    <2>1. c \in Tx /\ Updater(c) /\ k \in memtable[c] /\ c \in Committed /\ commit_seqno[c] < s
      BY DEF Before, Updater, Committed
    <2>2. <<commit_seqno[c], c>> \in versions[k]
      BY <2>1 DEF Versioned
    <2>3. commit_seqno[c] \in 1..(seqno - 1) /\ seqno \in Int
      BY <2>1 DEF CommitOrder, Types
    <2> QED
      BY <2>1, <2>2, <2>3
  <1> HIDE DEF below
  <1>6. CASE Before(k, s) = {}
    <2>1. \A v \in below : v = <<0, Initial>>
      BY <1>4, <1>6
    <2>2. newest = <<0, Initial>>
      BY <1>3, <2>1
    <2>3. TreeGet(k, s) = Initial
      <3> HIDE DEF newest
      <3> QED
        BY <1>1, <1>3, <2>2
    <2> QED
      BY <1>6, <2>3 DEF IsLast
  <1>7. CASE Before(k, s) # {}
    <2>1. x \in Before(k, s) /\ \A d \in Before(k, s) : commit_seqno[d] <= commit_seqno[x]
      BY <1>2, <1>7 DEF IsLast
    <2> DEFINE top == <<commit_seqno[x], x>>
    <2>2. top \in below /\ \A w \in below : w[1] <= top[1]
      BY <1>4, <1>5, <2>1
    <2>3. ASSUME NEW v \in below, \A w \in below : w[1] <= v[1] PROVE v = top
      <3>1. top[1] <= v[1] /\ v[1] <= top[1] /\ top[1] = commit_seqno[x] /\ 0 < commit_seqno[x]
        BY <1>5, <2>1, <2>2, <2>3
      <3>2. PICK c \in Before(k, s) : v = <<commit_seqno[c], c>>
        <4>1. CASE v = <<0, Initial>>
          <5>1. v[1] = 0
            BY <4>1
          <5>2. commit_seqno[x] \in Int
            BY <1>5, <2>1, Zenon
          <5> QED
            BY <3>1, <5>1, <5>2
        <4> QED
          BY <1>4, <4>1
      <3>3. commit_seqno[c] \in Int /\ commit_seqno[x] \in Int /\ commit_seqno[c] = commit_seqno[x]
        <4>1. v[1] = commit_seqno[c]
          BY <3>2
        <4>2. commit_seqno[c] \in Int /\ commit_seqno[x] \in Int
          BY <1>5, <2>1, Zenon
        <4> QED
          BY <3>1, <4>1, <4>2
      <3>4. IsLast(k, s, c)
        BY <2>1, <3>3 DEF IsLast
      <3>5. c = x
        BY <1>2, <3>4, LastUnique
      <3> QED
        BY <3>2, <3>5
    <2> HIDE DEF top
    <2>4. newest = top
      BY <2>2, <2>3
    <2>5. TreeGet(k, s) = x
      <3> HIDE DEF newest
      <3>1. TreeGet(k, s) = top[2]
        BY <1>1, <1>3, <2>4
      <3> QED
        BY <3>1 DEF top
    <2> QED
      BY <1>2, <2>5
  <1> QED
    BY <1>6, <1>7

-----------------------------------------------------------------------------
\* The transactions other than t are as they were.
OthersKept(t) ==
    \A u \in Tx : u # t =>
        /\ status'[u] = status[u] /\ instant'[u] = instant[u]
        /\ memtable'[u] = memtable[u] /\ conflict_keys'[u] = conflict_keys[u]
        /\ reads'[u] = reads[u] /\ observed'[u] = observed[u]

\* The instant of a transaction in progress is one the sequence counter has passed.
LEMMA LiveInstant ==
    ASSUME TxInv, NEW t \in Tx, Live(t)
    PROVE  instant[t] \in 1..seqno /\ instant[t] \in Int /\ seqno \in Int
  <1>1. seqno \in Int
    BY DEF TxInv, Types
  <1>2. instant[t] \in 1..seqno
    BY DEF TxInv, Progress
  <1> QED
    BY <1>1, <1>2

\* A transaction that a step leaves alone keeps its part of the invariant when
\* the committed writes stay what they are.
LEMMA ProgressKept ==
    ASSUME NEW u \in Tx, Progress(u), seqno' = seqno, commit_seqno' = commit_seqno,
           status'[u] = status[u], instant'[u] = instant[u], memtable'[u] = memtable[u],
           conflict_keys'[u] = conflict_keys[u], reads'[u] = reads[u], observed'[u] = observed[u],
           \A c \in Tx : Updater(c)' <=> Updater(c),
           \A c \in Tx : Updater(c) => conflict_keys'[c] = conflict_keys[c],
           \A c, k : (c \in Committed /\ k \in memtable[c])' <=> c \in Committed /\ k \in memtable[c]
    PROVE  Progress(u)'
  <1>1. Live(u)' <=> Live(u)
    BY Zenon DEF Live
  <1>2. ASSUME NEW k, NEW s PROVE Before(k, s)' = Before(k, s)
    BY DEF Before
  <1>3. ASSUME NEW k, NEW s, NEW x PROVE IsLast(k, s, x)' <=> IsLast(k, s, x)
    BY <1>2 DEF IsLast
  <1>4. ReadsNoted(u)' <=> ReadsNoted(u)
    BY <1>3, Zenon DEF ReadsNoted
  <1> QED
    BY <1>1, <1>3, <1>4, Zenon DEF Progress

\* A step of a transaction that has committed no writes, and does not by it,
\* leaves the others' part of the invariant alone.
LEMMA LocalStep ==
    ASSUME TxInv, Types', NEW t \in Tx, ~ Updater(t), ~ Updater(t)', status'[t] # "recording",
           UNCHANGED <<seqno, versions, committed_txns, commit_seqno>>, OthersKept(t), LockHeld',
           Live(t)' => \/ Live(t) /\ instant'[t] = instant[t]
                       \/ instant'[t] = seqno /\ lock = Nobody,
           Progress(t)'
    PROVE  TxInv'
  <1>1. \A u \in Tx : Updater(u)' <=> Updater(u)
    BY DEF OthersKept, Updater, Committed
  <1>2. \A u \in Tx : Updater(u) => /\ u # t /\ memtable'[u] = memtable[u]
                                    /\ conflict_keys'[u] = conflict_keys[u] /\ status'[u] = status[u]
    BY Zenon DEF OthersKept
  <1>3. \A c, k : (c \in Committed /\ k \in memtable[c])' <=> c \in Committed /\ k \in memtable[c]
    BY <1>1, <1>2, Zenon DEF Updater, Committed
  <1>4. Versioned'
    <2> SUFFICES ASSUME NEW k \in Key
                 PROVE  versions[k] = {<<0, Initial>>} \cup
                            {<<commit_seqno[c], c>> : c \in {d \in Committed' : k \in memtable'[d]}}
      BY DEF Versioned
    <2>1. {d \in Committed' : k \in memtable'[d]} = {d \in Committed : k \in memtable[d]}
      BY <1>3
    <2> QED
      BY <2>1 DEF TxInv, Versioned
  <1>5. CommitOrder'
    BY <1>1 DEF TxInv, CommitOrder
  <1>6. \A u \in Tx : status'[u] = "recording" => u # t /\ status[u] = "recording"
    BY DEF OthersKept
  <1>7. EntriesBounded'
    BY <1>6 DEF TxInv, EntriesBounded
  <1>8. UpdatersEntered'
    <2> SUFFICES ASSUME NEW c \in Tx, status'[c] = "committed", memtable'[c] # {}
                 PROVE  \E e \in committed_txns : e[2] = conflict_keys'[c] /\ commit_seqno[c] < e[1]
      BY DEF UpdatersEntered
    <2>1. Updater(c)'
      BY DEF Updater, Committed
    <2>2. status[c] = "committed" /\ memtable[c] # {} /\ conflict_keys'[c] = conflict_keys[c]
      BY <1>1, <1>2, <2>1
    <2> QED
      BY <2>2 DEF TxInv, UpdatersEntered
  <1>9. ASSUME NEW u \in Tx, Live(u)'
        PROVE  \/ Live(u) /\ instant'[u] = instant[u]
               \/ u = t /\ instant'[u] = seqno /\ lock = Nobody
    BY <1>9 DEF OthersKept, Live
  <1>10. EntriesCaused'
    <2> SUFFICES ASSUME NEW e \in committed_txns
                 PROVE  \E c \in Tx :
                            /\ Updater(c)' /\ e[2] = conflict_keys'[c] /\ commit_seqno[c] < e[1]
                            /\ \A u \in Tx : Live(u)' /\ instant'[u] < e[1] => instant'[u] <= commit_seqno[c]
      BY DEF EntriesCaused
    <2>1. PICK c \in Tx : /\ Updater(c) /\ e[2] = conflict_keys[c] /\ commit_seqno[c] < e[1]
                          /\ \A u \in Tx : Live(u) /\ instant[u] < e[1] => instant[u] <= commit_seqno[c]
      BY DEF TxInv, EntriesCaused
    <2>2. e[1] \in 1..seqno /\ seqno \in Int
      BY DEF TxInv, EntriesBounded, Types
    <2>3. ASSUME NEW u \in Tx, Live(u)', instant'[u] < e[1] PROVE instant'[u] <= commit_seqno[c]
      BY <1>9, <2>1, <2>2, <2>3
    <2> QED
      BY <1>1, <1>2, <2>1, <2>3
  <1>11. RecordingNewest'
    <2> SUFFICES ASSUME NEW c \in Tx, status'[c] = "recording"
                 PROVE  memtable'[c] # {} /\ \A u \in Tx : Live(u)' => instant'[u] <= commit_seqno[c]
      BY DEF RecordingNewest
    <2>1. status[c] = "recording" /\ c # t /\ memtable'[c] = memtable[c] /\ memtable[c] # {}
      BY <1>6 DEF OthersKept, TxInv, RecordingNewest
    <2>2. lock # Nobody
      BY <2>1, NamesAssumption DEF TxInv, LockHeld
    <2>3. ASSUME NEW u \in Tx, Live(u)' PROVE instant'[u] <= commit_seqno[c]
      BY <1>9, <2>1, <2>2, <2>3 DEF TxInv, RecordingNewest
    <2> QED
      BY <2>1, <2>3
  <1>12. ASSUME NEW u \in Tx, u # t PROVE Progress(u)'
    <2>1. /\ status'[u] = status[u] /\ instant'[u] = instant[u] /\ memtable'[u] = memtable[u]
          /\ conflict_keys'[u] = conflict_keys[u] /\ reads'[u] = reads[u] /\ observed'[u] = observed[u]
      BY <1>12, Zenon DEF OthersKept
    <2>2. Progress(u)
      BY Zenon DEF TxInv
    <2> QED
      BY <1>1, <1>2, <1>3, <2>1, <2>2, ProgressKept, Zenon
  <1> QED
    BY <1>4, <1>5, <1>7, <1>8, <1>10, <1>11, <1>12 DEF TxInv

-----------------------------------------------------------------------------
(* A commit under the oracle's lock (with_commit in                        *)
(* src/src/tx/optimistic/oracle.rs): the check, and the entry into the     *)
(* conflict set.                                                           *)

\* The check decides: a committed update transaction with a batch at or above the
\* snapshot has an entry above it, and every such entry has a cause.
LEMMA WithCommitTxInv ==
    ASSUME TxInv, NEW t \in Tx, WithCommit(t)
    PROVE  TxInv'
  <1> USE DEF store, local, TrackerClose
  <1>1. Types /\ Progress(t) /\ status[t] = "active" /\ memtable[t] # {} /\ lock = Nobody
    BY DEF TxInv, WithCommit
  <1>2. committed_txns' = committed_txns
    <2>1. \A e \in committed_txns : e[1] > 0
      BY DEF TxInv, EntriesBounded
    <2> QED
      BY <1>1, <2>1 DEF WithCommit, Types
  <1>3. /\ UNCHANGED <<seqno, versions, watermark, instant, memtable, reads, conflict_keys,
                       observed, commit_seqno, workload>>
        /\ \/ HasConflict(t) /\ status' = [status EXCEPT ![t] = "closing"] /\ lock' = lock
           \/ ~ HasConflict(t) /\ status' = [status EXCEPT ![t] = "applying"] /\ lock' = t
    BY DEF WithCommit
  <1>4. Types'
    BY <1>1, <1>2, <1>3 DEF Types
  <1>5. /\ status'[t] \in {"closing", "applying"} /\ OthersKept(t) /\ ~ Updater(t) /\ ~ Updater(t)'
        /\ Live(t) /\ Live(t)'
    BY <1>1, <1>3 DEF Types, OthersKept, Updater, Committed, Live
  <1>6. \A u \in Tx : status[u] \notin {"applying", "recording"}
    BY <1>1, NamesAssumption DEF TxInv, LockHeld
  <1>7. LockHeld'
    BY <1>1, <1>3, <1>6, Zenon DEF LockHeld, Types
  <1>8. \A u \in Tx : Updater(u)' <=> Updater(u)
    BY <1>3, <1>5 DEF OthersKept, Updater, Committed
  <1>9. instant[t] \in Int /\ \A c \in Tx : commit_seqno[c] \in Int
    BY <1>1, OptBoundsAssumption DEF Types, SeqNo
  <1>10. ASSUME ~ HasConflict(t), NEW c \in Tx, Updater(c), instant[t] <= commit_seqno[c]
         PROVE  ~ HasConflictWith(reads[t], conflict_keys[c])
    <2>1. status[c] = "committed" /\ memtable[c] # {}
      BY <1>6, <1>10 DEF Updater, Committed
    <2>2. PICK e \in committed_txns : e[2] = conflict_keys[c] /\ commit_seqno[c] < e[1]
      BY <2>1 DEF TxInv, UpdatersEntered
    <2>3. e[1] \in Int
      BY <1>1 DEF TxInv, EntriesBounded, Types
    <2>4. e \in Concurrent(t)
      BY <1>9, <1>10, <2>2, <2>3 DEF Concurrent
    <2> QED
      BY <1>10, <2>2, <2>4 DEF HasConflict
  <1>11. ASSUME HasConflict(t)
         PROVE  \E c \in Tx : /\ Updater(c) /\ instant[t] <= commit_seqno[c]
                              /\ HasConflictWith(reads[t], conflict_keys[c])
    <2>1. PICK e \in committed_txns : e[1] >= instant[t] + 1 /\ HasConflictWith(reads[t], e[2])
      BY <1>11 DEF HasConflict, Concurrent
    <2>2. PICK c \in Tx : /\ Updater(c) /\ e[2] = conflict_keys[c] /\ commit_seqno[c] < e[1]
                          /\ \A u \in Tx : Live(u) /\ instant[u] < e[1] => instant[u] <= commit_seqno[c]
      BY DEF TxInv, EntriesCaused
    <2>3. e[1] \in Int
      BY <1>1 DEF TxInv, EntriesBounded, Types
    <2>4. instant[t] <= commit_seqno[c]
      BY <1>5, <1>9, <2>1, <2>2, <2>3, SMTT(30)
    <2> QED
      BY <2>1, <2>2, <2>4
  <1>12. ASSUME NEW k, NEW s PROVE Before(k, s)' = Before(k, s)
    <2>1. Committed' = Committed
      BY <1>1, <1>3, <1>5, Zenon DEF Committed, OthersKept
    <2> QED
      BY <1>3, <2>1 DEF Before
  <1>13. ReadsNoted(t)'
    BY <1>1, <1>3, <1>12, Zenon DEF Progress, ReadsNoted, IsLast
  <1>14. Progress(t)'
    <2>1. /\ memtable'[t] \subseteq conflict_keys'[t] /\ instant'[t] \in 1..seqno' /\ memtable'[t] # {}
      BY <1>1, <1>3, <1>5, Zenon DEF Progress
    <2>2. status'[t] = "applying" => ~ HasConflict(t)
      BY <1>1, <1>3 DEF Types
    <2>3. status'[t] = "closing" => HasConflict(t)
      BY <1>1, <1>3, Zenon DEF Types
    <2>4. status'[t] = "applying" =>
            \A c \in Tx : Updater(c)' /\ instant'[t] <= commit_seqno'[c] =>
                             ~ HasConflictWith(reads'[t], conflict_keys'[c])
      BY <1>3, <1>8, <1>10, <2>2
    <2>5. status'[t] = "closing" =>
            \E c \in Tx : /\ Updater(c)' /\ instant'[t] <= commit_seqno'[c]
                          /\ HasConflictWith(reads'[t], conflict_keys'[c])
      BY <1>3, <1>8, <1>11, <2>3
    <2> QED
      BY <1>5, <1>13, <2>1, <2>4, <2>5 DEF Progress
  <1> QED
    BY <1>2, <1>3, <1>4, <1>5, <1>7, <1>14, LocalStep, Zenon

\* The entry goes in above the batch, before anyone can open a snapshot.
LEMMA RecordTxInv ==
    ASSUME TxInv, NEW t \in Tx, Record(t)
    PROVE  TxInv'
  <1> USE DEF store, tracker, local
  <1> DEFINE entry == <<seqno, conflict_keys[t]>>
  <1>1. /\ Types /\ Progress(t) /\ status[t] = "recording" /\ memtable[t] # {} /\ Updater(t)
        /\ seqno \in Int /\ commit_seqno[t] \in 1..(seqno - 1)
    BY DEF TxInv, Record, RecordingNewest, Updater, Committed, CommitOrder, Types
  <1>2. /\ UNCHANGED <<seqno, versions, watermark, instant, memtable, reads, conflict_keys, observed,
                       commit_seqno, workload>>
        /\ lock' = Nobody /\ status' = [status EXCEPT ![t] = "committed"]
    BY DEF Record
  <1>3. committed_txns' = committed_txns \cup {entry} /\ entry[1] = seqno /\ entry[2] = conflict_keys[t]
    <2>1. \A e \in committed_txns : e[1] # seqno
      BY <1>1 DEF TxInv, EntriesBounded
    <2> QED
      BY <2>1 DEF Record
  <1>4. (\A u \in Tx : u # t => status'[u] = status[u]) /\ status'[t] = "committed"
    BY <1>1, <1>2 DEF Types
  <1>5. entry \in SeqNo \X SUBSET Key
    BY <1>1, OptBoundsAssumption DEF Types, SeqNo
  <1> HIDE DEF entry
  <1>6. Types'
    BY <1>1, <1>2, <1>3, <1>5 DEF Types
  <1>7. \A u \in Tx : status'[u] \notin {"applying", "recording"}
    BY <1>1, <1>4, Zenon DEF TxInv, LockHeld
  <1>8. /\ Committed' = Committed
        /\ \A u \in Tx : (Updater(u)' <=> Updater(u)) /\ (Live(u)' <=> Live(u))
    BY <1>1, <1>2, <1>4 DEF Committed, Updater, Live
  <1>9. LockHeld' /\ RecordingNewest'
    BY <1>7 DEF LockHeld, RecordingNewest
  <1>10. Versioned'
    BY <1>2, <1>8, Zenon DEF TxInv, Versioned
  <1>15. CommitOrder'
    BY <1>2, <1>8 DEF TxInv, CommitOrder
  <1>11. EntriesBounded'
    BY <1>1, <1>2, <1>3, <1>7 DEF TxInv, EntriesBounded
  <1>12. UpdatersEntered'
    <2> SUFFICES ASSUME NEW c \in Tx, status'[c] = "committed", memtable[c] # {}
                 PROVE  \E e \in committed_txns' : e[2] = conflict_keys[c] /\ commit_seqno[c] < e[1]
      BY <1>2 DEF UpdatersEntered
    <2>1. CASE c = t
      BY <1>1, <1>3, <2>1
    <2>2. CASE c # t
      BY <1>3, <1>4, <2>2 DEF TxInv, UpdatersEntered
    <2> QED
      BY <2>1, <2>2
  <1>13. EntriesCaused'
    <2> SUFFICES ASSUME NEW e \in committed_txns'
                 PROVE  \E c \in Tx :
                            /\ Updater(c) /\ e[2] = conflict_keys[c] /\ commit_seqno[c] < e[1]
                            /\ \A u \in Tx : Live(u) /\ instant[u] < e[1] => instant[u] <= commit_seqno[c]
      BY <1>2, <1>8 DEF EntriesCaused
    <2>1. CASE e = entry
      BY <1>1, <1>3, <2>1 DEF TxInv, RecordingNewest
    <2>2. CASE e \in committed_txns
      BY <2>2 DEF TxInv, EntriesCaused
    <2> QED
      BY <1>3, <2>1, <2>2
  <1>14. ASSUME NEW u \in Tx PROVE Progress(u)'
    <2>1. Progress(u)
      BY DEF TxInv
    <2>2. ASSUME NEW k, NEW s PROVE Before(k, s)' = Before(k, s)
      BY <1>2, <1>8, Zenon DEF Before
    <2>3. ReadsNoted(u)' <=> ReadsNoted(u)
      BY <1>2, <2>2, Zenon DEF ReadsNoted, IsLast
    <2>4. (Updater(u) => \A o \in observed[u] : o[1] \in Key /\ IsLast(o[1], commit_seqno[u], o[2]))'
      BY <1>2, <1>8, <2>1, <2>2 DEF Progress, IsLast
    <2>5. u # t => status'[u] = status[u]
      BY <1>4
    <2>6. CASE u = t
      BY <1>2, <1>4, <1>8, <2>1, <2>4, <2>6, <1>1, Zenon DEF Progress, Live
    <2>7. CASE u # t
      BY <1>2, <1>8, <2>1, <2>3, <2>4, <2>5, <2>7, Zenon DEF Progress
    <2> QED
      BY <2>6, <2>7
  <1> QED
    BY <1>6, <1>9, <1>10, <1>11, <1>12, <1>13, <1>14, <1>15 DEF TxInv

-----------------------------------------------------------------------------
\* The batch is applied under the commit lock: between the snapshot and the
\* batch nobody wrote what the transaction read.
LEMMA ApplyTxInv ==
    ASSUME TxInv, NEW t \in Tx, Apply(t)
    PROVE  TxInv'
  <1> USE DEF oracle, local, TrackerClose
  <1>1. /\ Types /\ Progress(t) /\ status[t] = "applying" /\ memtable[t] # {} /\ Live(t)
        /\ seqno \in Int /\ 1 <= seqno /\ seqno < MaxSeqno /\ instant[t] \in 1..seqno
    BY SMTT(30) DEF TxInv, Apply, Progress, Live, Types
  <1>2. /\ seqno' = seqno + 1 /\ commit_seqno' = [commit_seqno EXCEPT ![t] = seqno]
        /\ status' = [status EXCEPT ![t] = "recording"]
        /\ versions' = [k \in Key |-> IF k \in memtable[t] THEN versions[k] \cup {<<seqno, t>>}
                                                          ELSE versions[k]]
        /\ UNCHANGED <<lock, committed_txns, instant, memtable, reads, conflict_keys, observed,
                       watermark, workload>>
    BY DEF Apply
  <1>3. /\ \A u \in Tx : u # t => status'[u] = status[u] /\ commit_seqno'[u] = commit_seqno[u]
        /\ status'[t] = "recording" /\ commit_seqno'[t] = seqno
    BY <1>1, <1>2 DEF Types
  <1>4. Types'
    BY <1>1, <1>2, OptBoundsAssumption DEF Types, SeqNo
  <1>5. lock = t /\ \A u \in Tx : u # t => status[u] \notin {"applying", "recording"}
    BY <1>1 DEF TxInv, LockHeld
  <1>6. /\ Committed' = Committed \cup {t} /\ t \notin Committed
        /\ \A u \in Tx : Updater(u)' <=> Updater(u) \/ u = t
        /\ \A u \in Tx : Live(u)' <=> Live(u) /\ u # t
    BY <1>1, <1>2, <1>3, Zenon DEF Committed, Updater, Live
  <1>7. \A c \in Tx : Updater(c) => /\ c # t /\ commit_seqno[c] \in Int /\ commit_seqno[c] < seqno
                                    /\ 1 <= commit_seqno[c] /\ commit_seqno'[c] = commit_seqno[c]
    BY <1>1, <1>3, <1>6, SMTT(30) DEF TxInv, CommitOrder, Updater
  <1>8. LockHeld'
    BY <1>2, <1>3, <1>5 DEF LockHeld
  <1>9. Versioned'
    <2> SUFFICES ASSUME NEW k \in Key
                 PROVE  versions'[k] = {<<0, Initial>>} \cup
                            {<<commit_seqno'[c], c>> : c \in {d \in Committed' : k \in memtable[d]}}
      BY <1>2 DEF Versioned
    <2>1. versions[k] = {<<0, Initial>>} \cup
                            {<<commit_seqno[c], c>> : c \in {d \in Committed : k \in memtable[d]}}
      BY DEF TxInv, Versioned
    <2>2. \A c \in {d \in Committed : k \in memtable[d]} : commit_seqno'[c] = commit_seqno[c]
      BY <1>7 DEF Updater, Committed
    <2>3. CASE k \in memtable[t]
      <3>1. {d \in Committed' : k \in memtable[d]} = {d \in Committed : k \in memtable[d]} \cup {t}
        BY <1>6, <2>3
      <3>2. versions'[k] = versions[k] \cup {<<seqno, t>>}
        BY <1>2, <2>3
      <3> QED
        BY <1>3, <2>1, <2>2, <3>1, <3>2
    <2>4. CASE k \notin memtable[t]
      <3>1. {d \in Committed' : k \in memtable[d]} = {d \in Committed : k \in memtable[d]}
        BY <1>6, <2>4
      <3>2. versions'[k] = versions[k]
        BY <1>2, <2>4
      <3> QED
        BY <2>1, <2>2, <3>1, <3>2
    <2> QED
      BY <2>3, <2>4
  <1>10. CommitOrder'
    <2>1. ASSUME NEW c \in Tx, Updater(c)' PROVE commit_seqno'[c] \in 1..(seqno' - 1)
      <3>1. CASE c = t
        BY <1>1, <1>2, <1>3, <3>1
      <3>2. CASE Updater(c)
        BY <1>1, <1>2, <1>7, <3>2
      <3> QED
        BY <1>6, <2>1, <3>1, <3>2
    <2>2. ASSUME NEW c \in Tx, NEW d \in Tx, Updater(c)', Updater(d)', commit_seqno'[c] = commit_seqno'[d]
          PROVE  c = d
      <3>1. CASE Updater(c) /\ Updater(d)
        BY <1>7, <2>2, <3>1, Zenon DEF TxInv, CommitOrder
      <3>2. CASE c = t \/ d = t
        BY <1>1, <1>3, <1>6, <1>7, <2>2, <3>2
      <3> QED
        BY <1>6, <2>2, <3>1, <3>2
    <2> QED
      BY <2>1, <2>2 DEF CommitOrder
  <1>11. EntriesBounded'
    <2> SUFFICES ASSUME NEW e \in committed_txns
                 PROVE  /\ e[1] \in 1..seqno'
                        /\ \A u \in Tx : status'[u] = "recording" => e[1] <= commit_seqno'[u]
      BY <1>2 DEF EntriesBounded
    <2>1. e[1] \in 1..seqno
      BY DEF TxInv, EntriesBounded
    <2>2. \A u \in Tx : status'[u] = "recording" => u = t
      BY <1>3, <1>5
    <2> QED
      BY <1>1, <1>2, <1>3, <2>1, <2>2
  <1>12. UpdatersEntered'
    <2>1. ASSUME NEW c \in Tx, status'[c] = "committed", memtable[c] # {}
          PROVE  c # t /\ status[c] = "committed" /\ commit_seqno'[c] = commit_seqno[c]
      BY <1>3, <2>1, Zenon
    <2> QED
      BY <1>2, <2>1 DEF TxInv, UpdatersEntered
  <1>13. EntriesCaused'
    <2> SUFFICES ASSUME NEW e \in committed_txns
                 PROVE  \E c \in Tx :
                            /\ Updater(c)' /\ e[2] = conflict_keys[c] /\ commit_seqno'[c] < e[1]
                            /\ \A u \in Tx : Live(u)' /\ instant[u] < e[1] => instant[u] <= commit_seqno'[c]
      BY <1>2 DEF EntriesCaused
    <2>1. PICK c \in Tx : /\ Updater(c) /\ e[2] = conflict_keys[c] /\ commit_seqno[c] < e[1]
                          /\ \A u \in Tx : Live(u) /\ instant[u] < e[1] => instant[u] <= commit_seqno[c]
      BY DEF TxInv, EntriesCaused
    <2>2. commit_seqno'[c] = commit_seqno[c]
      BY <1>7, <2>1, Zenon
    <2> QED
      BY <1>6, <2>1, <2>2, Zenon
  <1>14. RecordingNewest'
    <2>1. ASSUME NEW u \in Tx, Live(u)' PROVE instant[u] <= seqno
      <3>1. instant[u] \in 1..seqno
        BY <1>6, <2>1, LiveInstant, Zenon
      <3> QED
        BY <1>1, <3>1
    <2> QED
      BY <1>1, <1>2, <1>3, <1>5, <2>1, Zenon DEF RecordingNewest
  <1>15. ASSUME NEW k, NEW s \in Int, s <= seqno PROVE Before(k, s)' = Before(k, s)
    <2>1. ~ (seqno < s)
      BY <1>1, <1>15
    <2>2. \A c \in Committed : c # t /\ c \in Tx /\ commit_seqno'[c] = commit_seqno[c]
      BY <1>3, <1>6 DEF Committed
    <2>3. ~ (commit_seqno'[t] < s)
      BY <1>1, <1>3, <1>15
    <2> QED
      BY <1>2, <1>6, <2>2, <2>3 DEF Before
  <1>16. ASSUME NEW k, NEW s \in Int, s <= seqno, NEW x PROVE IsLast(k, s, x)' <=> IsLast(k, s, x)
    <2>1. \A c \in Before(k, s) : commit_seqno'[c] = commit_seqno[c]
      BY <1>3, <1>6 DEF Before, Committed
    <2> QED
      BY <1>15, <1>16, <2>1 DEF IsLast
  <1>17. ASSUME NEW u \in Tx, u # t PROVE Progress(u)'
    <2>1. /\ Progress(u) /\ status'[u] = status[u] /\ (Updater(u)' <=> Updater(u)) /\ (Live(u)' <=> Live(u))
          /\ status[u] # "applying" /\ commit_seqno'[u] = commit_seqno[u]
      BY <1>3, <1>5, <1>6, <1>17 DEF TxInv
    <2>2. Live(u) => instant[u] \in Int /\ instant[u] <= seqno /\ instant[u] \in 1..seqno'
      <3>1. Live(u) => instant[u] \in 1..seqno
        BY LiveInstant, Zenon
      <3> QED
        BY <1>1, <1>2, <3>1
    <2>3. status[u] = "active" => ReadsNoted(u)'
      <3> SUFFICES ASSUME status[u] = "active", NEW o \in observed[u]
                   PROVE  o[1] \in Key /\ IsLast(o[1], instant[u], o[2])' /\ \E r \in reads[u] : Covers(r, o[1])
        BY <1>2, Zenon DEF ReadsNoted
      <3>1. o[1] \in Key /\ IsLast(o[1], instant[u], o[2]) /\ \E r \in reads[u] : Covers(r, o[1])
        BY <2>1 DEF Progress, ReadsNoted
      <3>2. PICK s \in Int : s = instant[u] /\ s <= seqno
        BY <2>2 DEF Live
      <3>3. IsLast(o[1], s, o[2])' <=> IsLast(o[1], s, o[2])
        BY <1>16, <3>2, Zenon
      <3>4. instant'[u] = s
        BY <1>2, <3>2, Zenon
      <3> QED
        BY <3>1, <3>2, <3>3, <3>4, Zenon DEF IsLast, Before
    <2>4. (Updater(u) => \A o \in observed[u] : o[1] \in Key /\ IsLast(o[1], commit_seqno[u], o[2]))'
      <3> SUFFICES ASSUME Updater(u), NEW o \in observed[u]
                   PROVE  o[1] \in Key /\ IsLast(o[1], commit_seqno[u], o[2])'
        BY <1>2, <2>1, Zenon
      <3>1. o[1] \in Key /\ IsLast(o[1], commit_seqno[u], o[2])
        BY <2>1, Zenon DEF Progress
      <3>2. PICK s \in Int : s = commit_seqno[u] /\ s <= seqno
        BY <1>1, <1>7
      <3>3. IsLast(o[1], s, o[2])' <=> IsLast(o[1], s, o[2])
        BY <1>16, <3>2
      <3>4. commit_seqno'[u] = s
        BY <2>1, <3>2, Zenon
      <3> QED
        BY <3>1, <3>2, <3>3, <3>4 DEF IsLast, Before
    <2>5. status[u] = "closing" =>
            \E c \in Tx : /\ Updater(c)' /\ instant'[u] <= commit_seqno'[c]
                          /\ HasConflictWith(reads'[u], conflict_keys'[c])
      <3>1. SUFFICES ASSUME status[u] = "closing"
                     PROVE  \E c \in Tx : /\ Updater(c)' /\ instant[u] <= commit_seqno'[c]
                                          /\ HasConflictWith(reads[u], conflict_keys[c])
        BY <1>2, Zenon
      <3>2. PICK c \in Tx : /\ Updater(c) /\ instant[u] <= commit_seqno[c]
                            /\ HasConflictWith(reads[u], conflict_keys[c])
        BY <2>1, <3>1 DEF Progress
      <3> QED
        BY <1>6, <1>7, <3>2, Zenon
    <2> QED
      BY <1>2, <2>1, <2>2, <2>3, <2>4, <2>5, Zenon DEF Progress
  <1>18. Progress(t)'
    <2>1. ASSUME NEW o \in observed[t] PROVE o[1] \in Key /\ IsLast(o[1], seqno, o[2])
      <3>1. o[1] \in Key /\ IsLast(o[1], instant[t], o[2]) /\ \E r \in reads[t] : Covers(r, o[1])
        BY <1>1, Zenon DEF Progress, ReadsNoted
      <3>2. ASSUME NEW c \in Before(o[1], seqno) PROVE commit_seqno[c] < instant[t]
        <4>1. c \in Tx /\ Updater(c) /\ o[1] \in memtable[c]
          BY Zenon DEF Before, Updater, Committed
        <4>2. o[1] \in conflict_keys[c]
          BY <4>1, Zenon DEF TxInv, Progress
        <4>3. HasConflictWith(reads[t], conflict_keys[c])
          BY <3>1, <4>2, ConflictCovers, Zenon
        <4>4. ~ (instant[t] <= commit_seqno[c])
          BY <1>1, <4>1, <4>3, Zenon DEF Progress
        <4> QED
          BY <1>1, <1>7, <4>1, <4>4
      <3>3. ASSUME NEW c \in Before(o[1], instant[t]) PROVE c \in Before(o[1], seqno)
        BY <1>1, <1>7 DEF Before, Updater, Committed
      <3>4. Before(o[1], seqno) = Before(o[1], instant[t])
        BY <3>2, <3>3, Zenon DEF Before
      <3> QED
        BY <3>1, <3>4, Zenon DEF IsLast
    <2>2. (\A o \in observed[t] : o[1] \in Key /\ IsLast(o[1], commit_seqno[t], o[2]))'
      <3> SUFFICES ASSUME NEW o \in observed[t]
                   PROVE  o[1] \in Key /\ IsLast(o[1], commit_seqno[t], o[2])'
        BY <1>2, Zenon
      <3>1. PICK s \in Int : s = seqno
        BY <1>1
      <3>2. IsLast(o[1], s, o[2])' <=> IsLast(o[1], s, o[2])
        BY <1>1, <1>16, <3>1, SMTT(30)
      <3>3. commit_seqno'[t] = s
        BY <1>3, <3>1
      <3> QED
        BY <2>1, <3>1, <3>2, <3>3, Zenon DEF IsLast, Before
    <2> QED
      BY <1>1, <1>2, <1>3, <1>6, <2>2, Zenon DEF Progress, Live
  <1> QED
    BY <1>4, <1>8, <1>9, <1>10, <1>11, <1>12, <1>13, <1>14, <1>17, <1>18 DEF TxInv

-----------------------------------------------------------------------------
(* The other steps, and the theorems.                                      *)

\* The invariant holds of a database no transaction has written to.
LEMMA InitTxInv == Init => TxInv
  <1> SUFFICES ASSUME Init PROVE TxInv
    BY Zenon
  <1> USE OptBoundsAssumption DEF Init
  <1>1. Types
    BY SMTT(30) DEF Types, SeqNo
  <1>2. Committed = {}
    BY Zenon DEF Committed
  <1>3. LockHeld /\ CommitOrder /\ EntriesBounded /\ UpdatersEntered /\ EntriesCaused /\ RecordingNewest
    BY <1>2 DEF LockHeld, CommitOrder, EntriesBounded, UpdatersEntered, EntriesCaused, RecordingNewest, Updater
  <1>4. Versioned
    BY <1>2 DEF Versioned
  <1>5. ASSUME NEW t \in Tx PROVE Progress(t)
    BY <1>2 DEF Progress, Live, Updater
  <1> QED
    BY <1>1, <1>3, <1>4, <1>5 DEF TxInv

\* An operation of an open transaction that reads the given keys, noting reads
\* that cover them, and writes keys that it marks.
Operation(t, keys, marks, written, marked) ==
    /\ status[t] = "active"
    /\ keys \subseteq Key /\ marked \subseteq Key /\ written \subseteq marked
    /\ \A r \in marks : IsRead(r)
    /\ \A k \in keys : \E r \in marks : Covers(r, k)
    /\ observed' = [observed EXCEPT ![t] = @ \cup ObservedIn(t, keys)]
    /\ reads' = [reads EXCEPT ![t] = @ \cup marks]
    /\ memtable' = [memtable EXCEPT ![t] = @ \cup written]
    /\ conflict_keys' = [conflict_keys EXCEPT ![t] = @ \cup marked]
    /\ UNCHANGED <<store, tracker, oracle, status, instant, commit_seqno, workload>>

\* An operation that reads or writes in the transaction's own memtable and notes
\* its reads preserves the invariant.
LEMMA OperationTxInv ==
    ASSUME TxInv, NEW t \in Tx, NEW keys, NEW marks, NEW written, NEW marked,
           Operation(t, keys, marks, written, marked)
    PROVE  TxInv'
  <1> USE DEF Operation, store, tracker, oracle
  <1>1. Types /\ Progress(t) /\ CommitOrder /\ Versioned
    BY DEF TxInv
  <1>2. Types'
    BY <1>1, Zenon DEF Types
  <1>3. /\ observed'[t] = observed[t] \cup ObservedIn(t, keys)
        /\ reads'[t] = reads[t] \cup marks
        /\ memtable'[t] = memtable[t] \cup written
        /\ conflict_keys'[t] = conflict_keys[t] \cup marked
    BY <1>1, Zenon DEF Types
  <1>4. OthersKept(t) /\ LockHeld' /\ (Live(t)' <=> Live(t))
    BY DEF OthersKept, TxInv, LockHeld, Live, Types
  <1>5. ~ Updater(t) /\ ~ Updater(t)'
    BY Zenon DEF Updater, Committed
  <1>6. ASSUME NEW k, NEW s PROVE Before(k, s)' = Before(k, s)
    <2>1. \A c \in Committed : memtable'[c] = memtable[c]
      BY <1>1 DEF Types, Committed
    <2> QED
      BY <2>1 DEF Before, Committed
  <1>7. /\ keys \subseteq Key /\ \A k \in keys : \E r \in marks : Covers(r, k)
        /\ instant' = instant /\ status' = status /\ status[t] = "active" /\ written \subseteq marked
        /\ UNCHANGED <<seqno, versions, committed_txns, commit_seqno>>
    BY Zenon
  <1> HIDE DEF Operation, store, tracker, oracle
  <1>8. ASSUME NEW o \in observed'[t]
        PROVE  o[1] \in Key /\ IsLast(o[1], instant[t], o[2]) /\ \E r \in reads'[t] : Covers(r, o[1])
    <2>1. CASE o \in observed[t]
      BY <1>1, <1>3, <1>7, <2>1, Zenon DEF Progress, ReadsNoted
    <2>2. CASE o \in ObservedIn(t, keys)
      <3>1. PICK k \in keys : o = <<k, TreeGet(k, instant[t])>>
        BY <2>2, Zenon DEF ObservedIn
      <3>2. instant[t] \in Int /\ 1 <= instant[t]
        BY <1>1, <1>7 DEF Progress, Live, Types
      <3>3. IsLast(k, instant[t], TreeGet(k, instant[t]))
        BY <1>1, <1>7, <3>2, TreeGetIsLast, Zenon
      <3>4. o[1] = k /\ o[2] = TreeGet(k, instant[t])
        BY <3>1, Zenon
      <3> QED
        BY <1>3, <1>7, <3>3, <3>4
    <2> QED
      BY <1>3, <2>1, <2>2, Zenon
  <1>9. ReadsNoted(t)'
    BY <1>6, <1>7, <1>8 DEF ReadsNoted, IsLast
  <1>10. Progress(t)'
    BY <1>1, <1>3, <1>4, <1>5, <1>7, <1>9, Zenon DEF Progress, Live
  <1> QED
    BY <1>2, <1>4, <1>5, <1>7, <1>10, LocalStep, Zenon

\* A transaction begins: its snapshot is the visible number.
LEMMA WriteTxTxInv ==
    ASSUME TxInv, NEW t \in Tx, WriteTx(t)
    PROVE  TxInv'
  <1> USE DEF WriteTx, store, oracle, TrackerOpen
  <1>1. Types /\ Progress(t)
    BY Zenon DEF TxInv
  <1>2. Types' /\ status'[t] = "active" /\ instant'[t] = seqno
    BY <1>1, OptBoundsAssumption DEF Types, SeqNo
  <1>3. OthersKept(t) /\ LockHeld' /\ ~ Updater(t) /\ ~ Updater(t)'
    BY <1>1, <1>2, Zenon DEF OthersKept, TxInv, LockHeld, Types, Updater, Committed
  <1>4. Progress(t)'
    BY <1>1, <1>2, <1>3, SMTT(30) DEF Progress, Live, ReadsNoted, Types
  <1> QED
    BY <1>2, <1>3, <1>4, LocalStep

\* A transaction is dropped with its sets, without having committed writes.
LEMMA ForgetTxInv ==
    ASSUME TxInv, NEW t \in Tx, NEW kept \in BOOLEAN, Forget(t, kept), ~ Updater(t),
           NEW last \in {"rolled_back", "committed", "conflicted", "failed"},
           last = "conflicted" => ~ kept,
           status' = [status EXCEPT ![t] = last],
           lock' = lock \/ (lock = t /\ lock' = Nobody),
           UNCHANGED <<seqno, versions, watermark, committed_txns, commit_seqno, workload>>
    PROVE  TxInv'
  <1> USE DEF Forget
  <1>1. Types /\ Progress(t)
    BY Zenon DEF TxInv
  <1>2. Types' /\ status'[t] = last /\ memtable'[t] = {} /\ (~ kept => observed'[t] = {})
    <2>1. status'[t] = last /\ memtable'[t] = {} /\ (~ kept => observed'[t] = {})
      BY <1>1 DEF Types
    <2>2. 0 \in SeqNo
      BY OptBoundsAssumption DEF SeqNo
    <2>3. /\ instant' \in [Tx -> SeqNo] /\ memtable' \in [Tx -> SUBSET Key]
          /\ conflict_keys' \in [Tx -> SUBSET Key]
      BY <1>1, <2>2 DEF Types
    <2>4. status' \in [Tx -> {"new", "active", "applying", "recording", "closing",
                              "committed", "conflicted", "failed", "rolled_back"}]
      BY <1>1 DEF Types
    <2>5. /\ reads' = [u \in Tx |-> reads'[u]] /\ observed' = [u \in Tx |-> observed'[u]]
          /\ \A u \in Tx : \A r \in reads'[u] : IsRead(r)
      BY <1>1, Zenon DEF Types
    <2> QED
      BY <1>1, <2>1, <2>3, <2>4, <2>5 DEF Types
  <1>3. OthersKept(t) /\ ~ Updater(t)' /\ ~ Live(t)'
    BY <1>1, <1>2 DEF OthersKept, Types, Updater, Live
  <1>4. LockHeld'
    <2>1. \A u \in Tx : u # t => status'[u] = status[u]
      BY <1>1, Zenon DEF Types
    <2> QED
      BY <1>2, <2>1, Zenon DEF TxInv, LockHeld
  <1>5. Progress(t)'
    BY <1>1, <1>2, <1>3, Zenon DEF Progress, Live
  <1> QED
    BY <1>2, <1>3, <1>4, <1>5, LocalStep

\* A conflicted transaction that starts over takes a new instant and an empty
\* conflict manager.
LEMMA RetryTxInv ==
    ASSUME TxInv, NEW t \in Tx, Retry(t)
    PROVE  TxInv'
  <1> USE DEF Retry, store, tracker, oracle, local
  <1>1. Types /\ Progress(t)
    BY Zenon DEF TxInv
  <1>2. Types' /\ status'[t] = "new"
    BY <1>1, Zenon DEF Types
  <1>3. OthersKept(t) /\ ~ Updater(t) /\ ~ Updater(t)' /\ ~ Live(t)'
    BY <1>1, <1>2 DEF OthersKept, Types, Updater, Committed, Live
  <1>4. LockHeld'
    <2>1. \A u \in Tx : u # t => status'[u] = status[u]
      BY <1>1, Zenon DEF Types
    <2> QED
      BY <1>2, <2>1, Zenon DEF TxInv, LockHeld
  <1>5. Progress(t)'
    BY <1>1, <1>2, <1>3 DEF Progress, Live
  <1> QED
    BY <1>2, <1>3, <1>4, <1>5, LocalStep

\* At most the visible number moves.
LEMMA SeqnoStepTxInv ==
    ASSUME TxInv, seqno' \in 1..MaxSeqno, seqno <= seqno',
           UNCHANGED <<versions, watermark, lock, committed_txns, status, instant, memtable, reads,
                       conflict_keys, observed, commit_seqno, workload>>
    PROVE  TxInv'
  <1>1. Types' /\ seqno \in Int /\ seqno' \in Int
    BY OptBoundsAssumption DEF TxInv, Types
  <1>2. Committed' = Committed
    BY DEF Committed
  <1>3. \A u \in Tx : (Updater(u)' <=> Updater(u)) /\ (Live(u)' <=> Live(u))
    BY <1>2, Zenon DEF Updater, Live
  <1>4. LockHeld' /\ Versioned' /\ UpdatersEntered'
    BY <1>2, Zenon DEF TxInv, LockHeld, Versioned, UpdatersEntered
  <1>5. EntriesCaused' /\ RecordingNewest'
    BY <1>3 DEF TxInv, EntriesCaused, RecordingNewest
  <1>6. CommitOrder'
    <2>1. ASSUME NEW c \in Tx, Updater(c)' PROVE commit_seqno'[c] \in 1..(seqno' - 1)
      <3>1. commit_seqno[c] \in 1..(seqno - 1)
        BY <1>3, <2>1, Zenon DEF TxInv, CommitOrder
      <3> QED
        BY <1>1, <3>1
    <2> QED
      BY <1>3, <2>1 DEF TxInv, CommitOrder
  <1>7. EntriesBounded'
    <2>1. ASSUME NEW e \in committed_txns PROVE e[1] \in 1..seqno'
      <3>1. e[1] \in 1..seqno
        BY Zenon DEF TxInv, EntriesBounded
      <3> QED
        BY <1>1, <3>1
    <2> QED
      BY <2>1 DEF TxInv, EntriesBounded
  <1>8. ASSUME NEW t \in Tx PROVE Progress(t)'
    <2>1. Progress(t)
      BY DEF TxInv
    <2>2. Live(t) => instant[t] \in 1..seqno'
      <3>1. Live(t) => instant[t] \in 1..seqno
        BY LiveInstant
      <3> QED
        BY <1>1, <3>1
    <2>3. ASSUME NEW k, NEW s PROVE Before(k, s)' = Before(k, s)
      BY <1>2 DEF Before
    <2>4. ReadsNoted(t)' <=> ReadsNoted(t)
      BY <2>3, Zenon DEF ReadsNoted, IsLast
    <2>5. (Updater(t) => \A o \in observed[t] : o[1] \in Key /\ IsLast(o[1], commit_seqno[t], o[2]))'
      BY <1>3, <2>1, <2>3 DEF Progress, IsLast
    <2> QED
      BY <1>3, <2>1, <2>2, <2>4, <2>5 DEF Progress
  <1> QED
    BY <1>1, <1>4, <1>5, <1>6, <1>7, <1>8, Zenon DEF TxInv

-----------------------------------------------------------------------------
\* Adding nothing to a transaction's sets leaves them.
LEMMA NothingAdded ==
    ASSUME Types, NEW t \in Tx
    PROVE  /\ observed = [observed EXCEPT ![t] = @ \cup ObservedIn(t, {})]
           /\ reads = [reads EXCEPT ![t] = @ \cup {}]
           /\ memtable = [memtable EXCEPT ![t] = @ \cup {}]
           /\ conflict_keys = [conflict_keys EXCEPT ![t] = @ \cup {}]
  BY Zenon DEF Types, ObservedIn

\* A range scan notes its bounds before it yields a key.
LEMMA ScanTxInv ==
    ASSUME TxInv, NEW t \in Tx, NEW r \in workload.ranges, Scan(t, r[1], r[2])
    PROVE  TxInv'
  <1> DEFINE keys == KeysIn(Key, r[1], r[2])
             mark == MarkRange(r[1], r[2])
  <1>1. Types
    BY DEF TxInv
  <1>2. IsBound(r[1]) /\ IsBound(r[2])
    BY <1>1, WorkloadAssumption DEF Types
  <1>3. keys \subseteq Key
    BY Zenon DEF KeysIn
  <1>4. \A k \in keys : Covers(mark, k)
    BY <1>2, <1>3, RangeCovers, Zenon
  <1>5. IsRead(mark)
    BY <1>2, RangeIsRead
  <1>6. /\ status[t] = "active"
        /\ observed' = [observed EXCEPT ![t] = @ \cup ObservedIn(t, keys)]
        /\ reads' = [reads EXCEPT ![t] = @ \cup {mark}]
        /\ UNCHANGED <<store, tracker, oracle, status, instant, memtable, conflict_keys, commit_seqno, workload>>
    BY Zenon DEF Scan, Active
  <1> HIDE DEF keys, mark
  <1>7. Operation(t, keys, {mark}, {}, {})
    BY <1>1, <1>3, <1>4, <1>5, <1>6, NothingAdded, Zenon DEF Operation
  <1> QED
    BY <1>7, OperationTxInv, Zenon

\* A point read notes its key, whether or not the key exists.
LEMMA GetTxInv ==
    ASSUME TxInv, NEW t \in Tx, NEW k \in Key, Get(t, k)
    PROVE  TxInv'
  <1>1. Types
    BY DEF TxInv
  <1>2. /\ status[t] = "active"
        /\ observed' = [observed EXCEPT ![t] = @ \cup ObservedIn(t, {k})]
        /\ reads' = [reads EXCEPT ![t] = @ \cup {Single(k)}]
        /\ UNCHANGED <<store, tracker, oracle, status, instant, memtable, conflict_keys, commit_seqno, workload>>
    BY Zenon DEF Get, Active
  <1>3. IsRead(Single(k)) /\ Covers(Single(k), k)
    BY SingleCovers
  <1>4. Operation(t, {k}, {Single(k)}, {}, {})
    BY <1>1, <1>2, <1>3, NothingAdded, Zenon DEF Operation
  <1> QED
    BY <1>4, OperationTxInv, Zenon

\* An insert notes its key as written and as a conflict key.
LEMMA InsertTxInv ==
    ASSUME TxInv, NEW t \in Tx, NEW k \in Key, Insert(t, k)
    PROVE  TxInv'
  <1>1. Types
    BY DEF TxInv
  <1>2. /\ status[t] = "active"
        /\ memtable' = [memtable EXCEPT ![t] = @ \cup {k}]
        /\ conflict_keys' = [conflict_keys EXCEPT ![t] = @ \cup {k}]
        /\ UNCHANGED <<store, tracker, oracle, status, instant, reads, observed, commit_seqno, workload>>
    BY Zenon DEF Insert, Active
  <1>3. Operation(t, {}, {}, {k}, {k})
    BY <1>1, <1>2, NothingAdded, Zenon DEF Operation
  <1> QED
    BY <1>3, OperationTxInv, Zenon

\* update_fetch notes its key as read, and as written when the value changes.
LEMMA UpdateFetchTxInv ==
    ASSUME TxInv, NEW t \in Tx, NEW k \in Key, NEW changed \in BOOLEAN, UpdateFetch(t, k, changed)
    PROVE  TxInv'
  <1> DEFINE written == IF changed THEN {k} ELSE {}
  <1>1. /\ status[t] = "active"
        /\ observed' = [observed EXCEPT ![t] = @ \cup ObservedIn(t, {k})]
        /\ reads' = [reads EXCEPT ![t] = @ \cup {Single(k)}]
        /\ conflict_keys' = [conflict_keys EXCEPT ![t] = @ \cup {k}]
        /\ UNCHANGED <<store, tracker, oracle, status, instant, commit_seqno, workload>>
    BY Zenon DEF UpdateFetch, Active
  <1>2. memtable' = [memtable EXCEPT ![t] = @ \cup written]
    <2>1. memtable[t] \cup written = IF changed THEN memtable[t] \cup {k} ELSE memtable[t]
      OBVIOUS
    <2> QED
      BY <2>1, Zenon DEF UpdateFetch
  <1>3. IsRead(Single(k)) /\ Covers(Single(k), k) /\ written \subseteq {k}
    BY SingleCovers
  <1> HIDE DEF written
  <1>4. Operation(t, {k}, {Single(k)}, written, {k})
    BY <1>1, <1>2, <1>3, Zenon DEF Operation
  <1> QED
    BY <1>4, OperationTxInv, Zenon

\* Every step between two collections preserves the invariant: the operations,
\* commits, failures and rollbacks of the transactions, and the creation of a keyspace.
LEMMA StepTxInv ==
    ASSUME TxInv, [TxNext \/ OtherNext]_vars
    PROVE  TxInv'
  <1>1. ASSUME NEW t \in Tx, Rollback(t) PROVE TxInv'
    <2>1. ~ Updater(t)
      BY <1>1 DEF Rollback, Updater, Committed
    <2> QED
      BY <1>1, <2>1, ForgetTxInv, Zenon DEF Rollback, store, oracle, TrackerClose
  <1>2. ASSUME NEW t \in Tx, CommitReadOnly(t) PROVE TxInv'
    <2>1. ~ Updater(t)
      BY <1>2 DEF CommitReadOnly, Updater, Committed
    <2> QED
      BY <1>2, <2>1, ForgetTxInv, Zenon DEF CommitReadOnly, store, oracle, TrackerClose
  <1>3. ASSUME NEW t \in Tx, DropConflicted(t) PROVE TxInv'
    <2>1. ~ Updater(t)
      BY <1>3 DEF DropConflicted, Updater, Committed
    <2> QED
      BY <1>3, <2>1, ForgetTxInv, Zenon DEF DropConflicted, store, oracle, TrackerClose
  <1>4. ASSUME NEW t \in Tx, ApplyFails(t) PROVE TxInv'
    <2>1. ~ Updater(t) /\ lock = t
      BY <1>4 DEF ApplyFails, Updater, Committed, TxInv, LockHeld
    <2> QED
      BY <1>4, <2>1, ForgetTxInv, Zenon DEF ApplyFails, TrackerClose
  <1>5. CASE PublishKeyspace \/ UNCHANGED vars
    <2>1. seqno \in 1..MaxSeqno /\ MaxSeqno \in Int
      BY OptBoundsAssumption DEF TxInv, Types
    <2>2. seqno' \in 1..MaxSeqno /\ seqno <= seqno'
      BY <1>5, <2>1 DEF PublishKeyspace, vars, store
    <2>3. UNCHANGED <<versions, watermark, lock, committed_txns, status, instant, memtable, reads,
                      conflict_keys, observed, commit_seqno, workload>>
      BY <1>5 DEF PublishKeyspace, vars, store, tracker, oracle, local
    <2> QED
      BY <2>2, <2>3, SeqnoStepTxInv
  <1> QED
    BY <1>1, <1>2, <1>3, <1>4, <1>5, Zenon, ScanTxInv, GetTxInv, InsertTxInv, UpdateFetchTxInv, WriteTxTxInv, WithCommitTxInv, RetryTxInv,
       ApplyTxInv, RecordTxInv DEF TxNext, OtherNext

\* Every run between two collections keeps TxInv.
THEOREM Inductive == Spec => []TxInv
  <1>1. Init => TxInv
    BY InitTxInv
  <1>2. TxInv /\ [TxNext \/ OtherNext]_vars => TxInv'
    BY StepTxInv
  <1> QED
    BY <1>1, <1>2, PTL DEF Spec

\* For any transactions, keys and workloads: whatever a committed update
\* transaction read through get, the iterators or update_fetch is what the key
\* held when its batch was applied (with_commit under write_serialize_lock),
\* as long as the tracker does not collect.
THEOREM CommitOrderSerial == Spec => []ReadsCurrentAtCommit
  <1>1. TxInv => ReadsCurrentAtCommit
    <2> SUFFICES ASSUME TxInv, NEW t \in Committed, memtable[t] # {}, NEW o \in observed[t]
                 PROVE  o[2] = LastWriter(o[1], commit_seqno[t])
      BY DEF ReadsCurrentAtCommit
    <2>1. t \in Tx /\ Updater(t) /\ Types /\ CommitOrder
      BY Zenon DEF Committed, Updater, TxInv
    <2>2. IsLast(o[1], commit_seqno[t], o[2]) /\ commit_seqno[t] \in Int
      BY <2>1, OptBoundsAssumption, SMTT(30) DEF TxInv, Progress, Types, SeqNo
    <2> QED
      BY <2>1, <2>2, LastWriterIs, Zenon
  <1> QED
    BY <1>1, Inductive, PTL

\* For any transactions, keys and workloads: a transaction that is refused had
\* read a key that a transaction committed since its snapshot had marked.
THEOREM ConflictsHaveCause == Spec => []NoSpuriousConflict
  <1>1. TxInv => NoSpuriousConflict
    <2> SUFFICES ASSUME TxInv, NEW t \in Tx, status[t] = "closing"
                 PROVE  \E c \in Committed :
                            /\ memtable[c] # {} /\ commit_seqno[c] >= instant[t]
                            /\ \E r \in reads[t] : conflict_keys[c] \cap KeysIn(Key, r.start, r.end) # {}
      BY Zenon DEF NoSpuriousConflict
    <2>1. PICK c \in Tx : /\ Updater(c) /\ instant[t] <= commit_seqno[c]
                          /\ HasConflictWith(reads[t], conflict_keys[c])
      BY Zenon DEF TxInv, Progress
    <2>2. PICK r \in reads[t], k \in conflict_keys[c] : Covers(r, k)
      BY <2>1, ConflictCovers
    <2>3. k \in Key /\ IsRead(r) /\ instant[t] \in Int /\ commit_seqno[c] \in Int
      BY OptBoundsAssumption DEF TxInv, Types, SeqNo
    <2>4. k \in KeysIn(Key, r.start, r.end)
      BY <2>2, <2>3, CoveredInRange
    <2> QED
      BY <2>1, <2>2, <2>3, <2>4, Zenon DEF Updater
  <1> QED
    BY <1>1, Inductive, PTL

-----------------------------------------------------------------------------
\* A read-only transaction that committed read what was current at some number, which
\* lies before every batch that is not in the conflict set yet.
ReadOnlyDone(t) == status[t] = "committed" /\ memtable[t] = {}
ReadAt(t, s) ==
    /\ \A o \in observed[t] : o[1] \in Key /\ IsLast(o[1], s, o[2])
    /\ \A c \in Tx : status[c] = "recording" => s <= commit_seqno[c]
ReadOnlyPlaced == \A t \in Tx : ReadOnlyDone(t) => \E s \in 1..seqno : ReadAt(t, s)

\* A later batch does not change what was current at a number.
LEMMA LastKept ==
    ASSUME NEW k, NEW s, NEW x, IsLast(k, s, x), Before(k, s)' = Before(k, s),
           \A c \in Committed : commit_seqno'[c] = commit_seqno[c]
    PROVE  IsLast(k, s, x)'
  <1>1. Before(k, s) \subseteq Committed
    BY Zenon DEF Before
  <1>2. \A c \in Before(k, s) : commit_seqno'[c] = commit_seqno[c]
    BY <1>1, Zenon
  <1> QED
    BY <1>2, Zenon DEF IsLast

\* Steps that leave the batches below the visible number alone.
LEMMA PlacedKept ==
    ASSUME ReadOnlyPlaced, seqno \in Nat, seqno' \in Nat, seqno <= seqno',
           \A k : \A s \in 1..seqno : Before(k, s)' = Before(k, s),
           \A c \in Committed : commit_seqno'[c] = commit_seqno[c],
           \A c \in Tx : status'[c] = "recording" =>
                \/ status[c] = "recording" /\ commit_seqno'[c] = commit_seqno[c]
                \/ commit_seqno'[c] = seqno,
           NEW t \in Tx, ReadOnlyDone(t), observed'[t] = observed[t]
    PROVE  \E s \in 1..seqno' : ReadAt(t, s)'
  <1>1. PICK s \in 1..seqno : ReadAt(t, s)
    BY Zenon DEF ReadOnlyPlaced
  <1>2. s \in 1..seqno' /\ s <= seqno
    OBVIOUS
  <1>3. ASSUME NEW o \in observed[t] PROVE o[1] \in Key /\ IsLast(o[1], s, o[2])'
    <2>1. o[1] \in Key /\ IsLast(o[1], s, o[2])
      BY <1>1, <1>3, Zenon DEF ReadAt
    <2>2. PICK k, x : k = o[1] /\ x = o[2]
      OBVIOUS
    <2>3. IsLast(k, s, x)'
      BY <2>1, <2>2, LastKept, Zenon
    <2> QED
      BY <2>1, <2>2, <2>3, Zenon DEF IsLast, Before
  <1>4. ASSUME NEW c \in Tx, status'[c] = "recording" PROVE s <= commit_seqno'[c]
    <2>1. CASE status[c] = "recording" /\ commit_seqno'[c] = commit_seqno[c]
      BY <1>1, <2>1, Zenon DEF ReadAt
    <2>2. CASE commit_seqno'[c] = seqno
      BY <1>2, <2>2, Zenon
    <2> QED
      BY <1>4, <2>1, <2>2, Zenon
  <1>5. ReadAt(t, s)'
    BY <1>3, <1>4, Zenon DEF ReadAt
  <1> QED
    BY <1>2, <1>5, Zenon

\* A step of a transaction that has not committed and does not.
LEMMA OpenStepPlaced ==
    ASSUME TxInv, ReadOnlyPlaced, NEW t \in Tx,
           status[t] \notin {"recording", "committed"}, status'[t] \notin {"recording", "committed"},
           \A u \in Tx : u # t => /\ status'[u] = status[u] /\ memtable'[u] = memtable[u]
                                  /\ observed'[u] = observed[u],
           commit_seqno' = commit_seqno, seqno' = seqno
    PROVE  ReadOnlyPlaced'
  <1>1. seqno \in Nat /\ seqno' \in Nat /\ seqno <= seqno'
    BY OptBoundsAssumption DEF TxInv, Types
  <1>2. Committed' = Committed /\ t \notin Committed
    BY Zenon DEF Committed
  <1>3. \A c \in Committed : memtable'[c] = memtable[c]
    BY <1>2, Zenon DEF Committed
  <1>4. \A k : \A s \in 1..seqno : Before(k, s)' = Before(k, s)
    BY <1>2, <1>3, Zenon DEF Before
  <1>5. \A c \in Committed : commit_seqno'[c] = commit_seqno[c]
    BY Zenon
  <1>6. \A c \in Tx : status'[c] = "recording" => status[c] = "recording" /\ commit_seqno'[c] = commit_seqno[c]
    BY Zenon
  <1>7. ASSUME NEW u \in Tx, ReadOnlyDone(u)' PROVE \E s \in 1..seqno' : ReadAt(u, s)'
    <2>1. ReadOnlyDone(u) /\ observed'[u] = observed[u]
      BY <1>7, Zenon DEF ReadOnlyDone
    <2> QED
      BY <1>1, <1>4, <1>5, <1>6, <2>1, PlacedKept, Zenon
  <1> QED
    BY <1>7, Zenon DEF ReadOnlyPlaced

\* commit() of a read-only transaction: it read what was current at its instant.
LEMMA CommitReadOnlyPlaced ==
    ASSUME TxInv, ReadOnlyPlaced, NEW t \in Tx, CommitReadOnly(t)
    PROVE  ReadOnlyPlaced'
  <1>1. seqno \in Nat /\ seqno' = seqno /\ commit_seqno' = commit_seqno
    BY OptBoundsAssumption DEF TxInv, Types, CommitReadOnly, store
  <1>2. /\ status \in [Tx -> {"new", "active", "applying", "recording", "closing",
                              "committed", "conflicted", "failed", "rolled_back"}]
        /\ memtable \in [Tx -> SUBSET Key] /\ observed = [u \in Tx |-> observed[u]]
    BY Zenon DEF TxInv, Types
  <1>3. /\ status[t] = "active" /\ memtable[t] = {} /\ status' = [status EXCEPT ![t] = "committed"]
        /\ memtable' = [memtable EXCEPT ![t] = {}] /\ observed' = [observed EXCEPT ![t] = @]
    BY Zenon DEF CommitReadOnly, Forget
  <1>4. /\ \A u \in Tx : u # t => status'[u] = status[u]
        /\ status'[t] = "committed" /\ \A u \in Tx : memtable'[u] = memtable[u] /\ observed'[u] = observed[u]
    BY <1>2, <1>3
  <1>5. \A c : c \in Committed' /\ memtable'[c] # {} <=> c \in Committed /\ memtable[c] # {}
    BY <1>3, <1>4, Zenon DEF Committed
  <1>6. \A k, s : Before(k, s)' = Before(k, s)
    <2> SUFFICES ASSUME NEW k, NEW s PROVE Before(k, s)' = Before(k, s)
      OBVIOUS
    <2>1. \A c \in Tx : c \in Before(k, s)' <=> c \in Before(k, s)
      BY <1>1, <1>4, <1>5, Zenon DEF Before
    <2>2. Before(k, s)' \subseteq Tx /\ Before(k, s) \subseteq Tx
      BY Zenon DEF Before, Committed
    <2> QED
      BY <2>1, <2>2, Zenon
  <1>7. \A c \in Committed : commit_seqno'[c] = commit_seqno[c]
    BY <1>1, Zenon
  <1>8. \A c \in Tx : status'[c] = "recording" => status[c] = "recording" /\ commit_seqno'[c] = commit_seqno[c]
    BY <1>1, <1>4, Zenon
  <1>9. seqno <= seqno'
    BY <1>1
  <1>10. ASSUME NEW u \in Tx, ReadOnlyDone(u)' PROVE \E s \in 1..seqno' : ReadAt(u, s)'
    <2>1. CASE u # t
      <3>1. ReadOnlyDone(u) /\ observed'[u] = observed[u]
        BY <1>4, <1>10, <2>1, Zenon DEF ReadOnlyDone
      <3> QED
        BY <1>1, <1>6, <1>7, <1>8, <1>9, <3>1, PlacedKept, Zenon
    <2>2. CASE u = t
      <3>1. PICK s : s = instant[t]
        OBVIOUS
      <3>2. Live(t)
        BY <1>3, Zenon DEF Live
      <3>3. s \in 1..seqno' /\ ReadsNoted(t)
        BY <1>1, <1>3, <3>1, <3>2, Zenon DEF TxInv, Progress
      <3>4. \A c \in Tx : status'[c] = "recording" => s <= commit_seqno'[c]
        BY <1>1, <1>8, <3>1, <3>2, Zenon DEF TxInv, RecordingNewest
      <3>5. ASSUME NEW o \in observed[t] PROVE o[1] \in Key /\ IsLast(o[1], s, o[2])'
        <4>1. PICK k, x : k = o[1] /\ x = o[2]
          OBVIOUS
        <4>2. k \in Key /\ IsLast(k, s, x)
          BY <3>1, <3>3, <3>5, <4>1, Zenon DEF ReadsNoted
        <4>3. IsLast(k, s, x)'
          BY <1>6, <1>7, <4>2, LastKept, Zenon
        <4> QED
          BY <4>1, <4>2, <4>3, Zenon DEF IsLast, Before
      <3>6. ReadAt(t, s)'
        BY <1>4, <3>4, <3>5, Zenon DEF ReadAt
      <3> QED
        BY <2>2, <3>3, <3>6, Zenon
    <2> QED
      BY <2>1, <2>2
  <1> QED
    BY <1>10, Zenon DEF ReadOnlyPlaced

\* A batch is applied at the visible number, above everything read before.
LEMMA ApplyPlaced ==
    ASSUME TxInv, ReadOnlyPlaced, NEW t \in Tx, Apply(t)
    PROVE  ReadOnlyPlaced'
  <1>1. seqno \in Nat /\ seqno' \in Nat /\ seqno <= seqno'
    BY OptBoundsAssumption DEF TxInv, Types, Apply
  <1>2. /\ status \in [Tx -> {"new", "active", "applying", "recording", "closing",
                              "committed", "conflicted", "failed", "rolled_back"}]
        /\ commit_seqno \in [Tx -> SeqNo]
    BY Zenon DEF TxInv, Types
  <1>3. /\ status[t] = "applying" /\ status' = [status EXCEPT ![t] = "recording"]
        /\ commit_seqno' = [commit_seqno EXCEPT ![t] = seqno]
        /\ memtable' = memtable /\ observed' = observed
    BY Zenon DEF Apply, local
  <1>4. /\ \A u \in Tx : u # t => status'[u] = status[u] /\ commit_seqno'[u] = commit_seqno[u]
        /\ status'[t] = "recording" /\ commit_seqno'[t] = seqno
    BY <1>2, <1>3
  <1>5. t \notin Committed /\ \A c \in Tx : c # t => (c \in Committed' <=> c \in Committed)
    BY <1>3, <1>4, Zenon DEF Committed
  <1>6. \A c \in Committed : c \in Tx /\ commit_seqno'[c] = commit_seqno[c]
    BY <1>4, <1>5, Zenon DEF Committed
  <1>7. \A k : \A s \in 1..seqno : Before(k, s)' = Before(k, s)
    <2> SUFFICES ASSUME NEW k, NEW s \in 1..seqno PROVE Before(k, s)' = Before(k, s)
      OBVIOUS
    <2>0. ~(seqno < s)
      BY <1>1
    <2>1. t \notin Before(k, s)' /\ t \notin Before(k, s)
      BY <1>4, <1>5, <2>0, Zenon DEF Before
    <2>2. \A c \in Tx : c \in Before(k, s)' <=> c \in Before(k, s)
      BY <1>3, <1>4, <1>5, <2>1, Zenon DEF Before
    <2>3. Before(k, s)' \subseteq Tx /\ Before(k, s) \subseteq Tx
      BY Zenon DEF Before, Committed
    <2> QED
      BY <2>2, <2>3, Zenon
  <1>8. \A c \in Tx : status'[c] = "recording" =>
            \/ status[c] = "recording" /\ commit_seqno'[c] = commit_seqno[c]
            \/ commit_seqno'[c] = seqno
    BY <1>4, Zenon
  <1>9. ASSUME NEW u \in Tx, ReadOnlyDone(u)' PROVE \E s \in 1..seqno' : ReadAt(u, s)'
    <2>1. ReadOnlyDone(u) /\ observed'[u] = observed[u]
      BY <1>3, <1>4, <1>9, Zenon DEF ReadOnlyDone
    <2> QED
      BY <1>1, <1>6, <1>7, <1>8, <2>1, PlacedKept, Zenon
  <1> QED
    BY <1>9, Zenon DEF ReadOnlyPlaced

\* Steps that change neither batches nor observations of the committed.
LEMMA QuietPlaced ==
    ASSUME TxInv, ReadOnlyPlaced, seqno' \in Nat, seqno <= seqno',
           Committed' = Committed, UNCHANGED <<memtable, observed, commit_seqno>>,
           \A u \in Tx : status'[u] = "recording" => status[u] = "recording",
           \A u \in Tx : ReadOnlyDone(u)' => ReadOnlyDone(u)
    PROVE  ReadOnlyPlaced'
  <1>1. seqno \in Nat
    BY OptBoundsAssumption DEF TxInv, Types
  <1>2. \A k : \A s \in 1..seqno : Before(k, s)' = Before(k, s)
    BY Zenon DEF Before
  <1>3. \A c \in Committed : commit_seqno'[c] = commit_seqno[c]
    BY Zenon
  <1>4. \A c \in Tx : status'[c] = "recording" => status[c] = "recording" /\ commit_seqno'[c] = commit_seqno[c]
    BY Zenon
  <1>5. ASSUME NEW u \in Tx, ReadOnlyDone(u)' PROVE \E s \in 1..seqno' : ReadAt(u, s)'
    BY <1>1, <1>2, <1>3, <1>4, <1>5, PlacedKept, Zenon
  <1> QED
    BY <1>5, Zenon DEF ReadOnlyPlaced

\* Every step between two collections keeps the places of read-only transactions.
LEMMA StepPlaced ==
    ASSUME TxInv, ReadOnlyPlaced, [TxNext \/ OtherNext]_vars
    PROVE  ReadOnlyPlaced'
  <1>1. /\ status \in [Tx -> {"new", "active", "applying", "recording", "closing",
                              "committed", "conflicted", "failed", "rolled_back"}]
        /\ memtable \in [Tx -> SUBSET Key] /\ observed = [u \in Tx |-> observed[u]]
        /\ seqno \in Nat
    BY OptBoundsAssumption DEF TxInv, Types
  <1>2. ASSUME NEW t \in Tx, (\E r \in workload.ranges : Scan(t, r[1], r[2])) \/ \E k \in Key : Get(t, k)
        PROVE  ReadOnlyPlaced'
    <2>1. /\ status[t] = "active" /\ status' = status /\ memtable' = memtable
          /\ commit_seqno' = commit_seqno /\ seqno' = seqno
          /\ \E new : observed' = [observed EXCEPT ![t] = @ \cup new]
      BY <1>2, Zenon DEF Scan, Get, Active, store
    <2>2. \A u \in Tx : u # t => observed'[u] = observed[u]
      BY <1>1, <2>1
    <2> QED
      BY <2>1, <2>2, OpenStepPlaced
  <1>3. ASSUME NEW t \in Tx, NEW k \in Key, Insert(t, k) \/ \E changed \in BOOLEAN : UpdateFetch(t, k, changed)
        PROVE  ReadOnlyPlaced'
    <2>1. /\ status[t] = "active" /\ status' = status
          /\ commit_seqno' = commit_seqno /\ seqno' = seqno
          /\ \E new : memtable' = [memtable EXCEPT ![t] = new]
          /\ \E new : observed' = [observed EXCEPT ![t] = new]
      <3>1. CASE Insert(t, k)
        <4>1. observed' = [observed EXCEPT ![t] = observed[t]]
          BY <1>1, <3>1 DEF Insert
        <4> QED
          BY <3>1, <4>1, Zenon DEF Insert, Active, store
      <3>2. CASE \E changed \in BOOLEAN : UpdateFetch(t, k, changed)
        BY <3>2, Zenon DEF UpdateFetch, Active, store
      <3> QED
        BY <1>3, <3>1, <3>2
    <2>2. \A u \in Tx : u # t => observed'[u] = observed[u] /\ memtable'[u] = memtable[u]
      BY <1>1, <2>1
    <2> QED
      BY <2>1, <2>2, OpenStepPlaced
  <1>4. ASSUME NEW t \in Tx, WriteTx(t) \/ WithCommit(t) \/ Retry(t) PROVE ReadOnlyPlaced'
    <2>1. /\ status[t] \in {"new", "active", "conflicted"}
          /\ \E x \in {"active", "closing", "applying", "new"} : status' = [status EXCEPT ![t] = x]
          /\ memtable' = memtable /\ observed' = observed /\ commit_seqno' = commit_seqno /\ seqno' = seqno
      BY <1>4, Zenon DEF WriteTx, WithCommit, Retry, store, local
    <2>2. /\ \A u \in Tx : u # t => status'[u] = status[u]
          /\ status'[t] \in {"active", "closing", "applying", "new"}
      BY <1>1, <2>1
    <2> QED
      BY <2>1, <2>2, OpenStepPlaced
  <1>5. ASSUME NEW t \in Tx, Rollback(t) \/ DropConflicted(t) \/ ApplyFails(t) PROVE ReadOnlyPlaced'
    <2>1. /\ status[t] \in {"active", "closing", "applying"}
          /\ \E x \in {"rolled_back", "conflicted", "failed"} : status' = [status EXCEPT ![t] = x]
          /\ memtable' = [memtable EXCEPT ![t] = {}]
          /\ \E x : observed' = [observed EXCEPT ![t] = x]
          /\ commit_seqno' = commit_seqno /\ seqno' = seqno
      BY <1>5, Zenon DEF Rollback, DropConflicted, ApplyFails, Forget, store
    <2>2. /\ \A u \in Tx : u # t => /\ status'[u] = status[u] /\ memtable'[u] = memtable[u]
                                    /\ observed'[u] = observed[u]
          /\ status'[t] \in {"rolled_back", "conflicted", "failed"}
      BY <1>1, <2>1
    <2> QED
      BY <2>1, <2>2, OpenStepPlaced
  <1>6. ASSUME NEW t \in Tx, Record(t) PROVE ReadOnlyPlaced'
    <2>1. /\ status[t] = "recording" /\ status' = [status EXCEPT ![t] = "committed"]
          /\ UNCHANGED <<memtable, observed, commit_seqno>> /\ seqno' = seqno
      BY <1>6, Zenon DEF Record, local, store
    <2>2. \A u \in Tx : status'[u] = IF u = t THEN "committed" ELSE status[u]
      BY <1>1, <2>1
    <2>3. Committed' = Committed
      BY <2>1, <2>2, Zenon DEF Committed
    <2>4. memtable[t] # {}
      BY <2>1, Zenon DEF TxInv, RecordingNewest
    <2>5. \A u \in Tx : status'[u] = "recording" => status[u] = "recording"
      BY <2>2
    <2>6. \A u \in Tx : ReadOnlyDone(u)' => ReadOnlyDone(u)
      BY <2>1, <2>2, <2>4, Zenon DEF ReadOnlyDone
    <2>7. seqno' \in Nat /\ seqno <= seqno'
      BY <1>1, <2>1
    <2> QED
      BY <2>1, <2>3, <2>5, <2>6, <2>7, QuietPlaced
  <1>7. CASE PublishKeyspace \/ UNCHANGED vars
    <2>1. seqno' \in Nat /\ seqno <= seqno'
      BY <1>1, <1>7 DEF PublishKeyspace, vars, store
    <2>2. UNCHANGED <<status, memtable, observed, commit_seqno>>
      BY <1>7, Zenon DEF PublishKeyspace, vars, local
    <2>3. Committed' = Committed /\ \A u \in Tx : ReadOnlyDone(u)' => ReadOnlyDone(u)
      BY <2>2, Zenon DEF Committed, ReadOnlyDone
    <2> QED
      BY <2>1, <2>2, <2>3, QuietPlaced
  <1> QED
    BY <1>2, <1>3, <1>4, <1>5, <1>6, <1>7, CommitReadOnlyPlaced, ApplyPlaced, Zenon DEF TxNext, OtherNext

\* The members of a finite set with a number each can be put in an order that follows
\* the numbers.
LEMMA Ranking ==
    ASSUME NEW D, IsFiniteSet(D), NEW at \in [D -> Nat]
    PROVE  \E place \in [D -> 1..Cardinality(D)] :
              /\ \A t, u \in D : place[t] = place[u] => t = u
              /\ \A t, u \in D : at[u] < at[t] => place[u] < place[t]
  <1>1. PICK n \in Nat : n = Cardinality(D) /\ ExistsBijection(1..n, D)
    BY FS_CardinalityType, Zenon
  <1>2. PICK f \in [1..n -> D] : \A t \in D : \E i \in 1..n : f[i] = t
    BY <1>1, Zenon DEF ExistsBijection, Bijection, Surjection
  <1> DEFINE id == [t \in D |-> CHOOSE i \in 1..n : f[i] = t]
             Less(u, t) == at[u] < at[t] \/ (at[u] = at[t] /\ id[u] < id[t])
             Down(t) == {u \in D : u = t \/ Less(u, t)}
             place == [t \in D |-> Cardinality(Down(t))]
  <1>3. \A t \in D : id[t] \in 1..n /\ f[id[t]] = t
    BY <1>2, Zenon
  <1>4. \A t \in D : id[t] \in Nat /\ at[t] \in Nat
    BY <1>1, <1>3
  <1>5. \A t, u \in D : id[t] = id[u] => t = u
    BY <1>3, Zenon
  <1> HIDE DEF id
  <1>6. \A t, u \in D : t = u \/ Less(t, u) \/ Less(u, t)
    BY <1>4, <1>5
  <1>7. \A t, u, w \in D : Less(t, u) /\ Less(u, w) => Less(t, w)
    BY <1>4
  <1>8. \A t, u \in D : Less(t, u) => ~Less(u, t) /\ t # u
    BY <1>4
  <1>9. \A t, u \in D : at[u] < at[t] => Less(u, t)
    OBVIOUS
  <1> HIDE DEF Less
  <1>10. \A t \in D : /\ Down(t) \in SUBSET D /\ IsFiniteSet(Down(t)) /\ Cardinality(Down(t)) \in Nat
                      /\ Cardinality(Down(t)) <= n /\ Cardinality(Down(t)) # 0
    <2> SUFFICES ASSUME NEW t \in D
                 PROVE  /\ Down(t) \in SUBSET D /\ IsFiniteSet(Down(t)) /\ Cardinality(Down(t)) \in Nat
                        /\ Cardinality(Down(t)) <= n /\ Cardinality(Down(t)) # 0
      OBVIOUS
    <2>1. Down(t) \in SUBSET D /\ Down(t) # {}
      OBVIOUS
    <2> HIDE DEF Down
    <2>2. IsFiniteSet(Down(t)) /\ Cardinality(Down(t)) <= n
      BY <1>1, <2>1, FS_Subset, Zenon
    <2> QED
      BY <2>1, <2>2, FS_CardinalityType, FS_EmptySet, Zenon
  <1>11. ASSUME NEW t \in D, NEW u \in D, Less(u, t)
         PROVE  Cardinality(Down(u)) < Cardinality(Down(t))
    <2>1. Down(u) \in SUBSET Down(t)
      BY <1>7, <1>11, Zenon
    <2>2. t \in Down(t) /\ t \notin Down(u)
      BY <1>8, <1>11, Zenon
    <2>3. Down(u) # Down(t)
      BY <2>2, Zenon
    <2> HIDE DEF Down
    <2>4. Cardinality(Down(u)) <= Cardinality(Down(t)) /\ Cardinality(Down(u)) # Cardinality(Down(t))
      BY <1>10, <2>1, <2>3, FS_Subset, Zenon
    <2>5. Cardinality(Down(u)) \in Nat /\ Cardinality(Down(t)) \in Nat
      BY <1>10, Zenon
    <2> QED
      BY <2>4, <2>5
  <1>12. \A t \in D : Cardinality(Down(t)) \in 1..n
    <2> HIDE DEF Down
    <2> QED
      BY <1>10
  <1> HIDE DEF Down
  <1>13. place \in [D -> 1..n]
    BY <1>12, Zenon
  <1>14. \A t \in D : place[t] = Cardinality(Down(t)) /\ place[t] \in Nat
    BY <1>10, Zenon
  <1> HIDE DEF place
  <1>15. \A t, u \in D : Less(u, t) => place[u] < place[t]
    BY <1>11, <1>14, Zenon
  <1>16. \A t, u \in D : place[t] = place[u] => t = u
    BY <1>6, <1>14, <1>15
  <1>17. \A t, u \in D : at[u] < at[t] => place[u] < place[t]
    BY <1>9, <1>15, Zenon
  <1> QED
    BY <1>1, <1>13, <1>16, <1>17, Zenon

\* Where a committed transaction stands among the batches: reads and batch agree with it.
Stands(t, m) ==
    /\ \A o \in observed[t] : o[1] \in Key /\ IsLast(o[1], m, o[2])
    /\ \A c \in Tx : status[c] = "recording" => m <= commit_seqno[c]
    /\ memtable[t] # {} => m = commit_seqno[t]

\* Every committed transaction has such a number.
LEMMA EachStands ==
    ASSUME TxInv, ReadOnlyPlaced, NEW t \in Tx, status[t] = "committed"
    PROVE  \E m \in Nat : Stands(t, m)
  <1>1. seqno \in Nat /\ \A c \in Tx : commit_seqno[c] \in Nat
    BY OptBoundsAssumption DEF TxInv, Types, SeqNo
  <1>2. CASE memtable[t] = {}
    <2>1. PICK s \in 1..seqno : ReadAt(t, s)
      BY <1>2, Zenon DEF ReadOnlyPlaced, ReadOnlyDone
    <2>2. s \in Nat
      BY <1>1
    <2> QED
      BY <1>2, <2>1, <2>2, Zenon DEF ReadAt, Stands
  <1>3. CASE memtable[t] # {}
    <2>1. Updater(t)
      BY <1>3, Zenon DEF Updater, Committed
    <2>2. \A o \in observed[t] : o[1] \in Key /\ IsLast(o[1], commit_seqno[t], o[2])
      BY <2>1, Zenon DEF TxInv, Progress
    <2>3. PICK e \in committed_txns : commit_seqno[t] < e[1]
      BY <1>3, Zenon DEF TxInv, UpdatersEntered
    <2>4. ASSUME NEW c \in Tx, status[c] = "recording" PROVE commit_seqno[t] <= commit_seqno[c]
      <3>1. e[1] <= commit_seqno[c] /\ e[1] \in 1..seqno
        BY <2>4, Zenon DEF TxInv, EntriesBounded
      <3>2. PICK a, b, d : a = commit_seqno[t] /\ b = e[1] /\ d = commit_seqno[c]
        OBVIOUS
      <3> QED
        BY <1>1, <2>3, <3>1, <3>2
    <2> QED
      BY <1>1, <2>2, <2>4, Zenon DEF Stands
  <1> QED
    BY <1>2, <1>3

\* Twice a number, and one more for a batch: even places for readers, odd ones for writers.
LEMMA Doubled ==
  /\ \A a, b \in Nat : 2 * a + 1 < 2 * b <=> a < b
  /\ \A a, b \in Nat : 2 * a + 1 < 2 * b + 1 <=> a < b
  /\ \A a, b \in Nat : 2 * a + 1 # 2 * b
  /\ \A a, b \in Nat : 2 * a + 1 = 2 * b + 1 => a = b
  /\ \A a \in Nat : 2 * a \in Nat /\ 2 * a + 1 \in Nat
  OBVIOUS

\* The order of those numbers, batches after the readers at the same number, is serial.
LEMMA SerialOrder ==
    ASSUME TxInv, ReadOnlyPlaced
    PROVE  Serializable
  <1> DEFINE D == {t \in Tx : status[t] = "committed"}
             num == [t \in D |-> CHOOSE m \in Nat : Stands(t, m)]
             at == [t \in D |-> IF memtable[t] = {} THEN 2 * num[t] ELSE 2 * num[t] + 1]
  <1>1. Types /\ CommitOrder /\ \A c \in Tx : commit_seqno[c] \in Nat
    BY OptBoundsAssumption DEF TxInv, Types, SeqNo
  <1>2. IsFiniteSet(D)
    BY TxAssumption, FS_Subset
  <1>3. \A t \in D : t \in Tx /\ status[t] = "committed" /\ t \in Committed
    BY Zenon DEF Committed
  <1> HIDE DEF D
  <1>4. \A t \in D : num[t] \in Nat /\ Stands(t, num[t])
    BY <1>3, EachStands, Zenon
  <1>5. \A t \in D : memtable[t] # {} => num[t] = commit_seqno[t]
    BY <1>4, Zenon DEF Stands
  <1> HIDE DEF num
  <1>6. at \in [D -> Nat]
    BY <1>4, Doubled, Zenon
  <1>7. \A t \in D : at[t] \in Nat /\ at[t] = IF memtable[t] = {} THEN 2 * num[t] ELSE 2 * num[t] + 1
    BY <1>6, Zenon
  <1> HIDE DEF at
  <1>8. PICK place \in [D -> 1..Cardinality(D)] :
            /\ \A t, u \in D : place[t] = place[u] => t = u
            /\ \A t, u \in D : at[u] < at[t] => place[u] < place[t]
    BY <1>2, <1>6, Ranking, Zenon
  <1>9. \A t \in D : place[t] \in Int
    BY <1>8
  <1>10. \A t, u \in D : memtable[u] # {} => (at[u] < at[t] <=> num[u] < num[t])
    BY <1>4, <1>7, Doubled, Zenon
  <1>11. \A t, u \in D : memtable[u] # {} /\ at[u] = at[t] => u = t
    <2> SUFFICES ASSUME NEW t \in D, NEW u \in D, memtable[u] # {}, at[u] = at[t] PROVE u = t
      OBVIOUS
    <2>1. memtable[t] # {} /\ num[u] = num[t]
      <3>1. PICK a, b \in Nat : a = num[u] /\ b = num[t]
        BY <1>4, Zenon
      <3>2. at[u] = 2 * a + 1 /\ at[t] = IF memtable[t] = {} THEN 2 * b ELSE 2 * b + 1
        BY <1>7, <3>1, Zenon
      <3>3. memtable[t] # {}
        BY <3>2, Doubled, Zenon
      <3>4. 2 * a + 1 = 2 * b + 1
        BY <3>2, <3>3, Zenon
      <3>5. a = b
        BY <3>4, Doubled, Zenon
      <3> QED
        BY <3>1, <3>3, <3>5, Zenon
    <2>2. Updater(t) /\ Updater(u) /\ commit_seqno[t] = commit_seqno[u] /\ t \in Tx /\ u \in Tx
      BY <1>3, <1>5, <2>1, Zenon DEF Updater
    <2> QED
      BY <1>1, <2>2, Zenon DEF CommitOrder
  <1>12. \A t, u \in D : memtable[u] # {} => (place[u] < place[t] <=> num[u] < num[t])
    <2> SUFFICES ASSUME NEW t \in D, NEW u \in D, memtable[u] # {} PROVE place[u] < place[t] <=> at[u] < at[t]
      BY <1>10, Zenon
    <2>1. u = t \/ at[u] < at[t] \/ at[t] < at[u]
      BY <1>7, <1>11
    <2>2. at[u] < at[t] => place[u] < place[t]
      BY <1>8, Zenon
    <2>3. at[t] < at[u] => place[t] < place[u]
      BY <1>8, Zenon
    <2>4. place[t] \in Int /\ place[u] \in Int /\ at[t] \in Nat /\ at[u] \in Nat
      BY <1>7, <1>9, Zenon
    <2> QED
      BY <2>1, <2>2, <2>3, <2>4
  <1>13. ASSUME NEW t \in D, NEW o \in observed[t] PROVE o[2] = SerialWriter(place, t, o[1])
    <2>1. PICK k, x, m : k = o[1] /\ x = o[2] /\ m = num[t]
      OBVIOUS
    <2>2. m \in Nat /\ IsLast(k, m, x) /\ \A c \in Tx : status[c] = "recording" => m <= commit_seqno[c]
      BY <1>4, <1>13, <2>1, Zenon DEF Stands
    <2> DEFINE before == {u \in DOMAIN place : k \in Wrote(u) /\ place[u] < place[t]}
    <2>3. \A u \in D : k \in Wrote(u) <=> k \in memtable[u]
      BY <1>3, Zenon DEF Wrote
    <2>4. \A u \in D : k \in memtable[u] => (place[u] < place[t] <=> commit_seqno[u] < m)
      <3>1. \A u \in D : k \in memtable[u] => memtable[u] # {}
        BY Zenon
      <3> QED
        BY <1>5, <1>12, <2>1, <3>1, Zenon
    <2>5. \A u \in Before(k, m) : u \in D
      <3> SUFFICES ASSUME NEW u \in Before(k, m) PROVE u \in D
        OBVIOUS
      <3>1. u \in Tx /\ status[u] \in {"recording", "committed"} /\ commit_seqno[u] < m
        BY Zenon DEF Before, Committed
      <3>2. status[u] # "recording"
        <4>1. PICK a : a = commit_seqno[u]
          OBVIOUS
        <4>2. a \in Nat /\ a < m
          BY <1>1, <3>1, <4>1, Zenon
        <4>3. ~(m <= a)
          BY <2>2, <4>2
        <4> QED
          BY <2>2, <3>1, <4>1, <4>3, Zenon
      <3> QED
        BY <3>1, <3>2, Zenon DEF D
    <2>6. DOMAIN place = D
      BY <1>8
    <2>7. \A u : u \in before <=> u \in Before(k, m)
      BY <1>3, <2>3, <2>4, <2>5, <2>6, Zenon DEF Before
    <2>8. before = Before(k, m)
      BY <2>7, Zenon
    <2>9. SerialWriter(place, t, k) = IF before = {} THEN Initial
                                      ELSE CHOOSE u \in before : \A w \in before : place[w] <= place[u]
      BY Zenon DEF SerialWriter
    <2> HIDE DEF before
    <2>10. \A u, w \in before : place[w] <= place[u] <=> commit_seqno[w] <= commit_seqno[u]
      <3> SUFFICES ASSUME NEW u \in before, NEW w \in before
                   PROVE  place[w] <= place[u] <=> commit_seqno[w] <= commit_seqno[u]
        OBVIOUS
      <3>1. u \in D /\ w \in D /\ memtable[u] # {} /\ memtable[w] # {}
        BY <2>5, <2>8, Zenon DEF Before
      <3>2. place[u] < place[w] <=> commit_seqno[u] < commit_seqno[w]
        BY <1>5, <1>12, <3>1, Zenon
      <3>3. place[u] \in Int /\ place[w] \in Int /\ commit_seqno[u] \in Nat /\ commit_seqno[w] \in Nat
        BY <1>1, <1>3, <1>9, <3>1, Zenon
      <3> QED
        BY <3>2, <3>3
    <2>11. CASE before = {}
      BY <2>1, <2>2, <2>8, <2>9, <2>11, Zenon DEF IsLast
    <2>12. CASE before # {}
      <3>1. x \in before /\ \A w \in before : place[w] <= place[x]
        BY <2>2, <2>8, <2>10, <2>12, Zenon DEF IsLast
      <3>2. ASSUME NEW u \in before, \A w \in before : place[w] <= place[u] PROVE u = x
        <4>1. IsLast(k, m, u)
          BY <2>8, <2>10, <3>2, Zenon DEF IsLast
        <4>2. m \in Int
          BY <2>2
        <4> QED
          BY <1>1, <2>2, <4>1, <4>2, LastUnique, Zenon
      <3> QED
        BY <2>1, <2>9, <2>12, <3>1, <3>2, Zenon
    <2> QED
      BY <2>11, <2>12
  <1>14. \A t \in D : \A o \in observed[t] : o[2] = SerialWriter(place, t, o[1])
    BY <1>13, Zenon
  <1> QED
    BY <1>8, <1>14, Zenon DEF Serializable, D

\* For any transactions, keys and workloads: the committed transactions, the read-only
\* ones included, that were checked by Oracle::with_commit or not at all, read what they
\* would have read one after another, in the order of their batches and snapshots, as long
\* as the tracker does not collect.
THEOREM CommittedSerializable == Spec => []Serializable
  <1>1. Init => ReadOnlyPlaced
    BY Zenon DEF Init, ReadOnlyPlaced, ReadOnlyDone
  <1>2. TxInv /\ ReadOnlyPlaced /\ [TxNext \/ OtherNext]_vars => ReadOnlyPlaced'
    BY StepPlaced
  <1>3. TxInv /\ ReadOnlyPlaced => Serializable
    BY SerialOrder
  <1> QED
    BY <1>1, <1>2, <1>3, Inductive, PTL DEF Spec
=============================================================================
