--------------------------- MODULE DurabilityProofs ---------------------------
(***************************************************************************)
(* What was persisted survives every crash: the inductive invariant of     *)
(* Durability, for any keyspaces, workers, bounds and workloads that keep  *)
(* clears apart from ingestions and from a second crash.                   *)
(***************************************************************************)
EXTENDS Durability, NaturalMaximum

\* Clears with ingestions, or with a second crash, lose data or fail to recover
\* (README, further disagreements).
ClearsApart == \A w \in Workloads : w.clears => ~w.ingests /\ w.crashes <= 1

\* The operations in journal file n, and in any of them.
Entries(n) == {files[n][p] : p \in 1..Len(files[n])}
Journaled == UNION {Entries(n) : n \in 1..Len(files)}

\* Operation c empties k; operation i has put something into k that no clear has removed.
Empties(c, k) == ops[c].kind = "clear" /\ k \in ops[c].kss
Alive(i, k) ==
    /\ ops[i].kind # "clear" /\ k \in ops[i].kss
    /\ \A c \in 1..Len(ops) : Empties(c, k) => c < i

\* Cleared, crashed and recovered: no crash follows, and the journals are not read again.
Final == workload.clears /\ crashes # 0 /\ phase = "up"

Op == [kind : {"write", "clear", "ingest"}, kss : (SUBSET Keyspace) \ {{}}, seqno : Nat]

OpsShape ==
    /\ ops \in Seq(Op)
    /\ \A i \in 1..Len(ops) : ops[i].seqno < i
    /\ log \subseteq 1..Len(ops) /\ seqno \in 0..Len(ops)

TreesShape ==
    /\ active \in [Keyspace -> SUBSET (1..Len(ops))]
    /\ sealed \in [Keyspace -> SUBSET (1..Len(ops))]
    /\ tables \in [Keyspace -> SUBSET (1..Len(ops))]

FilesShape ==
    /\ files \in Seq(Seq(1..Len(ops))) /\ files # <<>>
    /\ durable \in 0..Len(ActiveFile)
    /\ items \in Seq([Keyspace -> Int])

RunShape ==
    /\ workload \in Workloads
    /\ phase \in {"up", "recovering"}
    /\ replayed \in Nat /\ crashes \in Nat /\ crashes <= workload.crashes
    /\ DOMAIN pc = Worker /\ ks \in [Worker -> Keyspace \cup {NoKeyspace}]

Shape == OpsShape /\ TreesShape /\ FilesShape /\ RunShape

\* The steps of recovery, and which files have their watermarks.
Phases ==
    /\ phase = "recovering" =>
        /\ crashes # 0 /\ Len(items) = replayed /\ replayed < Len(files)
        /\ \A k \in Keyspace : active[k] = {}
        /\ \A w \in Worker : pc[w] = "idle"
    /\ phase = "up" => Len(files) = Len(items) + 1
    /\ \A w \in Worker : pc[w] = "flushing" => ks[w] \in Keyspace

\* What the workload leaves out does not happen.
Kinds ==
    \A i \in 1..Len(ops) :
        /\ ops[i].kind = "clear" => workload.clears /\ i \in log
        /\ ops[i].kind = "ingest" => workload.ingests

\* Journals hold operations in the order they were issued; those still there were not lost.
FilesOrdered ==
    /\ \A n \in 1..Len(files) : \A p, q \in 1..Len(files[n]) : p < q => files[n][p] < files[n][q]
    /\ \A m, n \in 1..Len(files) : m < n => \A i \in Entries(m), j \in Entries(n) : i < j
    /\ Journaled \subseteq log
    /\ \A p \in 1..Len(ActiveFile) : ops[ActiveFile[p]].kind = "clear" => p <= durable

\* Sequence numbers grow with the operations that count.
Counted(i) == (~Final /\ i \in Journaled) \/ \E k \in Keyspace : i \in Contents(k)
Numbered ==
    /\ \A i, j \in 1..Len(ops) : Counted(i) /\ Counted(j) /\ i < j => ops[i].seqno < ops[j].seqno
    /\ phase = "up" => \A i \in 1..Len(ops) : Counted(i) => ops[i].seqno < seqno

\* Trees hold nothing that was cleared.
OnlyAlive ==
    \A k \in Keyspace :
        /\ \A i \in tables[k] : Alive(i, k)
        /\ phase = "up" => \A i \in active[k] \cup sealed[k] : Alive(i, k)

\* What was not lost is in the trees, and in tables or journals.
Kept ==
    \A k \in Keyspace : \A i \in log : Alive(i, k) =>
        /\ phase = "up" => i \in Contents(k)
        /\ ~Final => i \in tables[k] \/ i \in Journaled

\* Older journaled operations were flushed before, or with, newer ones.
Layered ==
    ~Final => \A k \in Keyspace : \A i \in Journaled : Alive(i, k) =>
        /\ \A j \in tables[k] : i < j => i \in tables[k]
        /\ phase = "up" => \A j \in sealed[k] : i < j => i \in tables[k] \cup sealed[k]

\* A sealed journal's watermarks cover what it holds and the tables do not.
Watermarked ==
    ~Final => \A n \in 1..Len(items) : \A k \in Keyspace : \A i \in Entries(n) :
        Alive(i, k) => i \in tables[k] \/ ops[i].seqno <= items[n][k]

\* Recovery has restored the journals it has replayed, and no more.
Replaying ==
    phase = "recovering" => \A k \in Keyspace :
        /\ \A n \in 1..replayed : \A i \in Entries(n) : Alive(i, k) => i \in tables[k] \cup sealed[k]
        /\ \A j \in sealed[k] :
            /\ ops[j].kind # "clear" /\ k \in ops[j].kss
            /\ \E n \in 1..replayed : j \in Entries(n)
            /\ \A n \in 1..replayed : \A c \in Entries(n) : Empties(c, k) => c < j

\* The journals that are left have everything issued since their first entry.
Contiguous ==
    ~Final => \A i \in Journaled : \A j \in log :
        i < j /\ (workload.clears \/ ops[j].kind = "clear") => j \in Journaled

\* When every write is persisted, nothing is ever lost.
AllPersisted ==
    workload.persisted = {TRUE} =>
        durable = Len(ActiveFile) /\ \A k \in Keyspace : Contents(k) \subseteq log

IInv ==
    /\ Shape /\ Phases /\ Kinds /\ FilesOrdered /\ Numbered /\ OnlyAlive /\ Kept
    /\ Layered /\ Watermarked /\ Replaying /\ Contiguous /\ AllPersisted

-----------------------------------------------------------------------------
\* What Append does, for any elements.
LEMMA AppendMeans ==
  ASSUME NEW S, NEW q \in Seq(S), NEW x \in S
  PROVE  /\ Append(q, x) \in Seq(S) /\ Append(q, x) # <<>> /\ Len(Append(q, x)) = Len(q) + 1
         /\ Append(q, x)[Len(q) + 1] = x /\ \A n \in 1..Len(q) : Append(q, x)[n] = q[n]
  OBVIOUS

\* Max finds the greatest of some numbers up to a bound.
LEMMA MaxMeans ==
  ASSUME NEW n \in Nat, NEW S \in SUBSET (0..n), S # {}
  PROVE  Max(S) \in S /\ \A x \in S : x <= Max(S)
<1>1. PICK m \in S : \A y \in S : y <= m
  BY GreatestUpTo
<1>2. \A y \in S : m >= y
  BY <1>1
<1>3. Max(S) \in S /\ \A y \in S : Max(S) >= y
  BY <1>2, Zenon DEF Max
<1> QED
  BY <1>3

\* An operation has a number and touches some keyspaces.
LEMMA OpFields ==
  ASSUME OpsShape
  PROVE  /\ Len(ops) \in Nat
         /\ \A i \in 1..Len(ops) : ops[i].seqno \in Nat /\ ops[i].kss \subseteq Keyspace /\ ops[i].kss # {}
<1>1. Len(ops) \in Nat /\ \A i \in 1..Len(ops) : ops[i] \in Op
  BY DEF OpsShape
<1>2. \A o \in Op : o.seqno \in Nat /\ o.kss \subseteq Keyspace /\ o.kss # {}
  BY DEF Op
<1> QED
  BY <1>1, <1>2, Zenon

\* The highest number among operations bounds theirs, and is one of theirs.
LEMMA HighestMeans ==
  ASSUME OpsShape, NEW S \in SUBSET (1..Len(ops))
  PROVE  /\ Highest(S) \in -1..(Len(ops) - 1)
         /\ \A i \in S : ops[i].seqno <= Highest(S)
         /\ S = {} => Highest(S) = -1
         /\ S # {} => \E i \in S : ops[i].seqno = Highest(S)
<1>1. Len(ops) \in Nat /\ \A i \in 1..Len(ops) : ops[i].seqno \in 0..(Len(ops) - 1)
  BY OpFields DEF OpsShape
<1>2. CASE S = {}
  BY <1>1, <1>2 DEF Highest, None
<1>3. CASE S # {}
  <2> DEFINE N == {ops[i].seqno : i \in S}
  <2>1. N \in SUBSET (0..Len(ops)) /\ N # {}
    <3>1. \A i \in S : ops[i].seqno \in 0..Len(ops)
      BY <1>1
    <3> QED
      BY <3>1, <1>3, Zenon
  <2>2. Max(N) \in N /\ \A x \in N : x <= Max(N)
    <3> HIDE DEF N
    <3> QED
      BY <1>1, <2>1, MaxMeans
  <2>3. Highest(S) = Max(N)
    BY <1>3, Zenon DEF Highest
  <2>4. PICK i \in S : ops[i].seqno = Highest(S)
    BY <2>2, <2>3, Zenon
  <2>5. \A j \in S : ops[j].seqno <= Highest(S)
    BY <2>2, <2>3, Zenon
  <2> QED
    BY <1>1, <1>3, <2>4, <2>5
<1> QED
  BY <1>2, <1>3

\* What the shape of the journals says of their entries.
LEMMA EntriesMeans ==
  ASSUME FilesShape
  PROVE  /\ Len(files) \in Nat \ {0} /\ ActiveFile = files[Len(files)]
         /\ \A n \in 1..Len(files) : files[n] \in Seq(1..Len(ops)) /\ Len(files[n]) \in Nat
         /\ \A n \in 1..Len(files) : Entries(n) \subseteq 1..Len(ops)
         /\ \A i : i \in Journaled <=> \E n \in 1..Len(files) : i \in Entries(n)
<1>1. Len(files) \in Nat \ {0} /\ ActiveFile = files[Len(files)]
  BY DEF FilesShape, ActiveFile
<1>2. \A n \in 1..Len(files) : files[n] \in Seq(1..Len(ops))
  BY DEF FilesShape
<1>3. ASSUME NEW n \in 1..Len(files)
      PROVE  Len(files[n]) \in Nat /\ \A p \in 1..Len(files[n]) : files[n][p] \in 1..Len(ops)
  <2>1. files[n] \in Seq(1..Len(ops))
    BY <1>2
  <2> DEFINE f == files[n]
             S == 1..Len(ops)
  <2>2. f \in Seq(S)
    BY <2>1
  <2> HIDE DEF f, S
  <2>3. Len(f) \in Nat /\ \A p \in 1..Len(f) : f[p] \in S
    BY <2>2
  <2> QED
    BY <2>3 DEF f, S
<1>4. \A i : i \in Journaled <=> \E n \in 1..Len(files) : i \in Entries(n)
  BY Zenon DEF Journaled
<1>5. \A n \in 1..Len(files) : Entries(n) \subseteq 1..Len(ops)
  BY <1>3, Zenon DEF Entries
<1> QED
  BY <1>1, <1>2, <1>3, <1>4, <1>5, Zenon

\* What replaying one file does, in terms of its entries alone.
LEMMA ReplayMeans ==
  ASSUME FilesShape, FilesOrdered, NEW n \in 1..Len(files), NEW k \in Keyspace
  PROVE  /\ \A i : i \in LeftIn(files[n], k) <=>
                /\ i \in Entries(n) /\ ops[i].kind # "clear" /\ k \in ops[i].kss
                /\ \A c \in Entries(n) : Empties(c, k) => c < i
         /\ \A i : i \in Touching(files[n], k) <=> i \in Entries(n) /\ k \in ops[i].kss
         /\ k \in Cleared(files[n]) <=> \E c \in Entries(n) : Empties(c, k)
<1> DEFINE f == files[n]
           D == 1..Len(f)
<1>1. f \in Seq(1..Len(ops)) /\ Len(f) \in Nat
  BY EntriesMeans, Zenon
<1>2. DOMAIN f = D
  BY <1>1
<1>3. Entries(n) = {f[p] : p \in D}
  BY Zenon DEF Entries
<1>4. \A p, q \in D : p < q <=> f[p] < f[q]
  <2>1. \A p, q \in D : p < q => f[p] < f[q]
    BY Zenon DEF FilesOrdered
  <2>2. \A p \in D : f[p] \in Nat /\ p \in Nat
    BY <1>1
  <2> HIDE DEF D, f
  <2>3. \A p, q \in D : p < q \/ p = q \/ q < p
    BY <2>2
  <2>4. ASSUME NEW p \in D, NEW q \in D, f[p] < f[q] PROVE p < q
    <3>1. ~(q < p)
      BY <2>1, <2>2, <2>4
    <3>2. p # q
      BY <2>2, <2>4
    <3> QED
      BY <2>3, <3>1, <3>2, Zenon
  <2> QED
    BY <2>1, <2>4, Zenon
<1> HIDE DEF D
<1>5. \A i : i \in LeftIn(f, k) <=>
            /\ i \in {f[p] : p \in D} /\ ops[i].kind # "clear" /\ k \in ops[i].kss
            /\ \A c \in {f[p] : p \in D} : Empties(c, k) => c < i
  <2> HIDE DEF f
  <2>1. LeftIn(f, k) = {f[p] : p \in {q \in D : /\ ops[f[q]].kind # "clear" /\ k \in ops[f[q]].kss
                                               /\ \A c \in D : Empties(f[c], k) => c < q}}
    BY <1>2, Zenon DEF LeftIn, ClearsOf, Empties
  <2>2. ASSUME NEW q \in D
        PROVE  (\A c \in D : Empties(f[c], k) => c < q) <=> (\A c \in {f[p] : p \in D} : Empties(c, k) => c < f[q])
    <3>1. (\A c \in {f[p] : p \in D} : Empties(c, k) => c < f[q]) <=> (\A p \in D : Empties(f[p], k) => f[p] < f[q])
      BY Zenon
    <3> QED
      BY <1>4, <3>1, Zenon
  <2> QED
    BY <2>1, <2>2, Zenon
<1>6. \A i : i \in Touching(f, k) <=> i \in {f[p] : p \in D} /\ k \in ops[i].kss
  BY <1>2, Zenon DEF Touching
<1>7. k \in Cleared(f) <=> \E c \in {f[p] : p \in D} : Empties(c, k)
  <2>1. k \in Cleared(f) <=> ClearsOf(f, k) # {}
    BY Zenon DEF Cleared
  <2>2. ClearsOf(f, k) # {} <=> \E p \in D : Empties(f[p], k)
    BY <1>2, Zenon DEF ClearsOf, Empties
  <2> QED
    BY <2>1, <2>2, Zenon
<1> QED
  BY <1>3, <1>5, <1>6, <1>7, Zenon

\* Without new operations nothing dies.
LEMMA SameOps ==
  ASSUME ops' = ops
  PROVE  \A i, k : (Alive(i, k)' <=> Alive(i, k)) /\ (Empties(i, k)' <=> Empties(i, k))
  BY Zenon DEF Alive, Empties

\* What was journaled depends on the journal files alone.
LEMMA SameFiles ==
  ASSUME files' = files
  PROVE  Journaled' = Journaled /\ \A n : Entries(n)' = Entries(n)
<1>1. \A n : Entries(n)' = Entries(n)
  BY Zenon DEF Entries
<1> QED
  BY <1>1, Zenon DEF Journaled

\* The invariant holds in a new database.
LEMMA InitIInv == Init => IInv
<1> SUFFICES ASSUME Init PROVE IInv
  OBVIOUS
<1>1. /\ workload \in Workloads /\ ops = <<>> /\ log = {} /\ seqno = 0
      /\ files = <<<<>>>> /\ durable = 0 /\ items = <<>> /\ phase = "up" /\ replayed = 0 /\ crashes = 0
      /\ active = [k \in Keyspace |-> {}] /\ sealed = [k \in Keyspace |-> {}] /\ tables = [k \in Keyspace |-> {}]
      /\ pc = [w \in Worker |-> "idle"] /\ ks = [w \in Worker |-> NoKeyspace]
  BY Zenon DEF Init
<1>2. /\ Len(ops) = 0 /\ Len(files) = 1 /\ files[1] = <<>> /\ ActiveFile = <<>> /\ Len(items) = 0
      /\ \A k \in Keyspace : active[k] = {} /\ sealed[k] = {} /\ tables[k] = {} /\ Contents(k) = {}
  BY <1>1 DEF ActiveFile, Contents
<1>3. 1..0 = {}
  OBVIOUS
<1>4. Entries(1) = {} /\ Journaled = {}
  BY <1>2, <1>3 DEF Entries, Journaled
<1>5. OpsShape /\ TreesShape
  BY <1>1, <1>2 DEF OpsShape, TreesShape
<1>6. FilesShape
  BY <1>1, <1>2 DEF FilesShape
<1>7. RunShape
  <2>1. workload.crashes \in Nat
    BY <1>1, WorkloadsAssumption
  <2> QED
    BY <1>1, <2>1 DEF RunShape
<1>8. Phases
  BY <1>1, <1>2 DEF Phases
<1>9. Kinds /\ Numbered
  BY <1>2, <1>3 DEF Kinds, Numbered
<1>10. FilesOrdered
  BY <1>1, <1>2, <1>3, <1>4 DEF FilesOrdered
<1>11. OnlyAlive /\ Kept /\ Layered /\ Replaying /\ Contiguous
  BY <1>1, <1>2, <1>4, Zenon DEF OnlyAlive, Kept, Layered, Replaying, Contiguous
<1>12. Watermarked
  BY <1>2, <1>3 DEF Watermarked
<1>13. AllPersisted
  BY <1>1, <1>2 DEF AllPersisted
<1> QED
  BY <1>5, <1>6, <1>7, <1>8, <1>9, <1>10, <1>11, <1>12, <1>13, Zenon DEF IInv, Shape

\* A step of a worker: operations move to older places of their trees, and a
\* journal goes only when the tables have what it holds.
LEMMA WorkerStep ==
  ASSUME IInv, phase = "up",
         UNCHANGED <<workload, ops, log, seqno, phase, replayed, crashes>>,
         Journaled' \subseteq Journaled,
         \A i \in Journaled' : \A j \in Journaled : i < j => j \in Journaled',
         ~Final => \A k \in Keyspace : \A i \in Journaled : Alive(i, k) => i \in Journaled' \/ i \in tables'[k],
         \A k \in Keyspace : Contents(k)' = Contents(k) /\ tables[k] \subseteq tables'[k]
  PROVE  Kinds' /\ Numbered' /\ OnlyAlive' /\ Kept' /\ Replaying' /\ Contiguous'
<1>1. \A i, k : Alive(i, k)' <=> Alive(i, k)
  BY SameOps, Zenon
<1>2. Final' <=> Final
  BY Zenon DEF Final
<1>3. \A i : Counted(i)' => Counted(i)
  BY <1>2, Zenon DEF Counted
<1>4. Kinds'
  BY Zenon DEF IInv, Kinds
<1>5. Numbered'
  BY <1>3, Zenon DEF IInv, Numbered
<1>6. \A k \in Keyspace : \A i \in Contents(k) : Alive(i, k)
  BY Zenon DEF IInv, OnlyAlive, Contents
<1>7. OnlyAlive'
  <2>1. \A k \in Keyspace : \A i \in tables'[k] \cup (active'[k] \cup sealed'[k]) : i \in Contents(k)'
    BY Zenon DEF Contents
  <2> QED
    BY <1>1, <1>6, <2>1, Zenon DEF OnlyAlive
<1>8. Kept'
  <2> SUFFICES ASSUME NEW k \in Keyspace, NEW i \in log', Alive(i, k)'
               PROVE  i \in Contents(k)' /\ (~Final' => i \in tables'[k] \/ i \in Journaled')
    BY Zenon DEF Kept
  <2>1. i \in Contents(k) /\ (~Final => i \in tables[k] \/ i \in Journaled)
    BY <1>1, Zenon DEF IInv, Kept
  <2>2. Alive(i, k)
    BY <1>1, Zenon
  <2> QED
    BY <1>2, <2>1, <2>2, Zenon
<1>9. Replaying'
  <2>1. phase # "recovering"
    OBVIOUS
  <2> QED
    BY <2>1, Zenon DEF Replaying
<1>10. Contiguous'
  BY <1>2, Zenon DEF IInv, Contiguous
<1> QED
  BY <1>4, <1>5, <1>7, <1>8, <1>9, <1>10, Zenon

\* What the types of an unchanged part say stays.
LEMMA SameShapes ==
  /\ OpsShape /\ UNCHANGED <<ops, log, seqno>> => OpsShape'
  /\ FilesShape /\ UNCHANGED <<ops, files, durable, items>> => FilesShape'
  /\ FilesOrdered /\ UNCHANGED <<ops, log, files, durable>> => FilesOrdered'
  /\ TreesShape /\ UNCHANGED <<ops, trees>> => TreesShape'
<1>1. OpsShape /\ UNCHANGED <<ops, log, seqno>> => OpsShape'
  BY Zenon DEF OpsShape, Op
<1>2. FilesShape /\ UNCHANGED <<ops, files, durable, items>> => FilesShape'
  BY Zenon DEF FilesShape, ActiveFile
<1>3. FilesOrdered /\ UNCHANGED <<ops, log, files, durable>> => FilesOrdered'
  <2> SUFFICES ASSUME FilesOrdered, UNCHANGED <<ops, log, files, durable>> PROVE FilesOrdered'
    BY Zenon
  <2>1. Journaled' = Journaled /\ \A n : Entries(n)' = Entries(n)
    BY SameFiles, Zenon
  <2>2. ActiveFile' = ActiveFile
    BY Zenon DEF ActiveFile
  <2> QED
    BY <2>1, <2>2, Zenon DEF FilesOrdered
<1>4. TreesShape /\ UNCHANGED <<ops, trees>> => TreesShape'
  BY Zenon DEF TreesShape, trees
<1> QED
  BY <1>1, <1>2, <1>3, <1>4, Zenon

\* When memtables are sealed or flushed, the journals stay.
LEMMA TreeStep ==
  ASSUME IInv, phase = "up",
         UNCHANGED <<workload, ops, log, seqno, journal, items, phase, replayed, crashes>>,
         TreesShape', RunShape', Phases',
         \A k \in Keyspace : Contents(k)' = Contents(k) /\ tables[k] \subseteq tables'[k],
         Layered'
  PROVE  IInv'
<1>1. Journaled' = Journaled /\ \A n : Entries(n)' = Entries(n)
  BY SameFiles, Zenon DEF journal
<1>2. Kinds' /\ Numbered' /\ OnlyAlive' /\ Kept' /\ Replaying' /\ Contiguous'
  BY <1>1, WorkerStep, Zenon
<1>3. OpsShape' /\ FilesShape' /\ FilesOrdered'
  BY SameShapes, Zenon DEF IInv, Shape, journal
<1>4. \A i, k : Alive(i, k)' <=> Alive(i, k)
  BY SameOps, Zenon
<1>5. Final' <=> Final
  BY Zenon DEF Final
<1>6. Watermarked'
  BY <1>1, <1>4, <1>5, Zenon DEF IInv, Watermarked
<1>7. AllPersisted'
  BY Zenon DEF IInv, AllPersisted, ActiveFile, journal
<1> QED
  BY <1>2, <1>3, <1>6, <1>7, Zenon DEF IInv, Shape

\* Everything journaled and alive is in the trees of an open database.
LEMMA JournaledKept ==
  ASSUME IInv, phase = "up", NEW k \in Keyspace, NEW i \in Journaled, Alive(i, k)
  PROVE  i \in Contents(k)
  BY Zenon DEF IInv, Kept, FilesOrdered

\* A worker goes on, not to a flush.
LEMMA PcStep ==
  ASSUME RunShape, Phases, phase = "up", NEW w \in Worker, NEW x, x # "flushing",
         pc' = [pc EXCEPT ![w] = x],
         UNCHANGED <<workload, phase, replayed, crashes, ks>>,
         Len(files)' = Len(items)' + 1
  PROVE  RunShape' /\ Phases'
<1>1. RunShape'
  BY Zenon DEF RunShape
<1>2. DOMAIN pc = Worker
  BY Zenon DEF RunShape
<1>3. \A v \in Worker : pc'[v] = "flushing" => ks'[v] \in Keyspace
  BY <1>2, Zenon DEF Phases
<1>4. phase' # "recovering"
  OBVIOUS
<1> QED
  BY <1>1, <1>3, <1>4, Zenon DEF Phases

\* inner_rotate_memtable moves operations within a tree.
LEMMA RotateMemtableInv ==
  ASSUME IInv, NEW w \in Worker, NEW k \in Keyspace, RotateMemtable(w, k) PROVE IInv'
<1>1. /\ phase = "up"
      /\ UNCHANGED <<workload, ops, log, seqno, tables, journal, items, ks, phase, replayed, crashes>>
      /\ sealed' = [sealed EXCEPT ![k] = @ \cup active[k]]
      /\ active' = [active EXCEPT ![k] = {}]
      /\ pc' = [pc EXCEPT ![w] = "maintaining"]
  BY Zenon DEF RotateMemtable
<1>2. TreesShape /\ RunShape /\ Phases
  BY Zenon DEF IInv, Shape
<1>3. /\ sealed'[k] = sealed[k] \cup active[k] /\ active'[k] = {}
      /\ \A l \in Keyspace \ {k} : sealed'[l] = sealed[l] /\ active'[l] = active[l]
  BY <1>1, <1>2, Zenon DEF TreesShape
<1>4. TreesShape'
  BY <1>1, <1>2 DEF TreesShape
<1>5. RunShape' /\ Phases'
  <2>1. Len(files)' = Len(items)' + 1
    BY <1>1, <1>2, Zenon DEF Phases, journal
  <2>2. "maintaining" # "flushing"
    OBVIOUS
  <2> QED
    BY <1>1, <1>2, <2>1, <2>2, PcStep, Zenon
<1>6. \A l \in Keyspace : Contents(l)' = Contents(l) /\ tables[l] \subseteq tables'[l]
  <2>1. Contents(k)' = Contents(k)
    BY <1>1, <1>3 DEF Contents
  <2> QED
    BY <1>1, <1>3, <2>1, Zenon DEF Contents
<1>7. Layered'
  <2>1. Journaled' = Journaled
    BY <1>1, SameFiles, Zenon DEF journal
  <2>2. \A i, l : Alive(i, l)' <=> Alive(i, l)
    BY <1>1, SameOps, Zenon
  <2>3. Final' <=> Final
    BY <1>1, Zenon DEF Final
  <2>4. \A i \in Journaled : Alive(i, k) => i \in tables[k] \cup sealed'[k]
    BY <1>1, <1>3, JournaledKept, Zenon DEF Contents
  <2>5. Layered
    BY Zenon DEF IInv
  <2> QED
    BY <1>1, <1>3, <2>1, <2>2, <2>3, <2>4, <2>5, Zenon DEF Layered
<1> QED
  BY <1>1, <1>4, <1>5, <1>6, <1>7, TreeStep, Zenon

\* A flush moves a keyspace's sealed operations into its tables, all of them: Layered.
LEMMA RunFlushInv ==
  ASSUME IInv, NEW w \in Worker, RunFlush(w) PROVE IInv'
<1>0. PICK k : k = ks[w]
  OBVIOUS
<1>1. /\ pc[w] = "flushing"
      /\ UNCHANGED <<workload, ops, log, seqno, active, journal, items, ks, phase, replayed, crashes>>
      /\ tables' = [tables EXCEPT ![k] = @ \cup sealed[k]]
      /\ sealed' = [sealed EXCEPT ![k] = {}]
      /\ pc' = [pc EXCEPT ![w] = "maintaining"]
  BY <1>0, Zenon DEF RunFlush
<1>2. TreesShape /\ RunShape /\ Phases
  BY Zenon DEF IInv, Shape
<1>3. k \in Keyspace /\ phase = "up"
  <2>1. k \in Keyspace /\ phase # "recovering"
    BY <1>0, <1>1, <1>2 DEF Phases
  <2> QED
    BY <1>2, <2>1 DEF RunShape
<1>4. /\ tables'[k] = tables[k] \cup sealed[k] /\ sealed'[k] = {}
      /\ \A l \in Keyspace \ {k} : sealed'[l] = sealed[l] /\ tables'[l] = tables[l]
  BY <1>1, <1>2, <1>3, Zenon DEF TreesShape
<1>5. TreesShape'
  BY <1>1, <1>2, <1>3 DEF TreesShape
<1>6. RunShape' /\ Phases'
  <2>1. Len(files)' = Len(items)' + 1
    BY <1>1, <1>2, <1>3, Zenon DEF Phases, journal
  <2>2. "maintaining" # "flushing"
    OBVIOUS
  <2> QED
    BY <1>1, <1>2, <1>3, <2>1, <2>2, PcStep, Zenon
<1>7. \A l \in Keyspace : Contents(l)' = Contents(l) /\ tables[l] \subseteq tables'[l]
  <2>1. Contents(k)' = Contents(k)
    BY <1>1, <1>4 DEF Contents
  <2> QED
    BY <1>1, <1>4, <2>1, Zenon DEF Contents
<1>8. Layered'
  <2>1. Journaled' = Journaled
    BY <1>1, SameFiles, Zenon DEF journal
  <2>2. \A i, l : Alive(i, l)' <=> Alive(i, l)
    BY <1>1, SameOps, Zenon
  <2>3. Final' <=> Final
    BY <1>1, Zenon DEF Final
  <2>4. Layered
    BY Zenon DEF IInv
  <2> QED
    BY <1>1, <1>3, <1>4, <2>1, <2>2, <2>3, <2>4, Zenon DEF Layered
<1> QED
  BY <1>1, <1>3, <1>5, <1>6, <1>7, <1>8, TreeStep, Zenon

\* A failed flush leaves everything where it was.
LEMMA FlushFailsInv ==
  ASSUME IInv, NEW w \in Worker, FlushFails(w) PROVE IInv'
<1>1. /\ pc[w] = "flushing"
      /\ UNCHANGED <<workload, ops, log, seqno, trees, journal, items, ks, phase, replayed, crashes>>
      /\ pc' = [pc EXCEPT ![w] = "dead"]
  BY Zenon DEF FlushFails
<1>2. TreesShape /\ RunShape /\ Phases /\ Layered
  BY Zenon DEF IInv, Shape
<1>3. phase = "up"
  BY <1>1, <1>2 DEF Phases, RunShape
<1>4. TreesShape'
  BY <1>1, <1>2, SameShapes, Zenon
<1>5. RunShape' /\ Phases'
  <2>1. Len(files)' = Len(items)' + 1
    BY <1>1, <1>2, <1>3, Zenon DEF Phases, journal
  <2>2. "dead" # "flushing"
    OBVIOUS
  <2> QED
    BY <1>1, <1>2, <1>3, <2>1, <2>2, PcStep, Zenon
<1>6. \A l \in Keyspace : Contents(l)' = Contents(l) /\ tables[l] \subseteq tables'[l]
  BY <1>1, Zenon DEF Contents, trees
<1>7. Layered'
  <2>1. Journaled' = Journaled
    BY <1>1, SameFiles, Zenon DEF journal
  <2>2. \A i, l : Alive(i, l)' <=> Alive(i, l)
    BY <1>1, SameOps, Zenon
  <2> QED
    BY <1>1, <1>2, <2>1, <2>2, Zenon DEF Layered, Final, trees
<1> QED
  BY <1>1, <1>3, <1>4, <1>5, <1>6, <1>7, TreeStep, Zenon

\* Database::persist makes the active journal durable.
LEMMA PersistInv == ASSUME IInv, Persist PROVE IInv'
<1>1. /\ phase = "up" /\ durable' = Len(ActiveFile)
      /\ UNCHANGED <<workload, ops, log, seqno, trees, files, items, workers, phase, replayed, crashes>>
  BY Zenon DEF Persist, Quiet
<1>2. UNCHANGED <<active, sealed, tables, pc, ks>>
  BY <1>1, Zenon DEF trees, workers
<1>3. Journaled' = Journaled /\ (\A n : Entries(n)' = Entries(n)) /\ ActiveFile' = ActiveFile
  BY <1>1, SameFiles, Zenon DEF ActiveFile
<1>4. \A k \in Keyspace : Contents(k)' = Contents(k) /\ tables[k] \subseteq tables'[k]
  BY <1>2, Zenon DEF Contents
<1>5. Kinds' /\ Numbered' /\ OnlyAlive' /\ Kept' /\ Replaying' /\ Contiguous'
  BY <1>1, <1>3, <1>4, WorkerStep, Zenon
<1>6. OpsShape' /\ TreesShape'
  BY <1>1, SameShapes, Zenon DEF IInv, Shape
<1>7. FilesShape /\ FilesOrdered /\ RunShape /\ Phases /\ Layered /\ Watermarked /\ AllPersisted
  BY Zenon DEF IInv, Shape
<1>8. RunShape' /\ Phases'
  BY <1>1, <1>2, <1>7, Zenon DEF RunShape, Phases
<1>9. Len(ActiveFile) \in Nat
  <2>1. Len(files) \in 1..Len(files)
    BY <1>7, EntriesMeans
  <2> QED
    BY <1>7, <2>1, EntriesMeans, Zenon
<1>10. FilesShape'
  <2>1. durable' \in 0..Len(ActiveFile')
    BY <1>1, <1>3, <1>9
  <2> QED
    BY <1>1, <1>7, <2>1, Zenon DEF FilesShape
<1>11. FilesOrdered'
  <2>1. \A p \in 1..Len(ActiveFile) : p <= Len(ActiveFile)
    BY <1>9
  <2> QED
    BY <1>1, <1>3, <1>7, <2>1, Zenon DEF FilesOrdered
<1>12. \A i, k : Alive(i, k)' <=> Alive(i, k)
  BY <1>1, SameOps, Zenon
<1>13. Layered' /\ Watermarked'
  BY <1>1, <1>2, <1>3, <1>7, <1>12, Zenon DEF Layered, Watermarked, Final
<1>14. AllPersisted'
  BY <1>1, <1>3, <1>4, <1>7, Zenon DEF AllPersisted
<1> QED
  BY <1>5, <1>6, <1>8, <1>10, <1>11, <1>13, <1>14, Zenon DEF IInv, Shape

\* A new, empty journal file.
LEMMA NewFile ==
  ASSUME FilesShape, files' = Append(files, <<>>)
  PROVE  /\ Len(files)' = Len(files) + 1 /\ ActiveFile' = <<>>
         /\ \A n \in 1..Len(files) : files'[n] = files[n] /\ Entries(n)' = Entries(n)
         /\ \A n : n = Len(files) + 1 => Entries(n)' = {}
         /\ Journaled' = Journaled
<1>1. Len(files) \in Nat \ {0}
  BY EntriesMeans, Zenon
<1>2. Len(files') = Len(files) + 1 /\ files'[Len(files) + 1] = <<>> /\ \A n \in 1..Len(files) : files'[n] = files[n]
  BY DEF FilesShape
<1>3. \A n \in 1..Len(files) : Entries(n)' = Entries(n)
  BY <1>2, Zenon DEF Entries
<1>4. PICK m : m = Len(files) + 1
  OBVIOUS
<1>5. Entries(m)' = {}
  <2>1. files'[m] = <<>>
    BY <1>2, <1>4, Zenon
  <2>2. Len(<<>>) = 0 /\ 1..0 = {}
    OBVIOUS
  <2> QED
    BY <2>1, <2>2, Zenon DEF Entries
<1>6. 1..Len(files') = 1..Len(files) \cup {m}
  BY <1>1, <1>2, <1>4
<1>7. Journaled' = Journaled
  <2>1. \A i : i \in Journaled' <=> \E n \in 1..Len(files') : i \in Entries(n)'
    BY Zenon DEF Journaled
  <2>2. \A i : i \in Journaled <=> \E n \in 1..Len(files) : i \in Entries(n)
    BY Zenon DEF Journaled
  <2>3. \A i : (\E n \in 1..Len(files') : i \in Entries(n)') <=> (\E n \in 1..Len(files) : i \in Entries(n)')
    BY <1>5, <1>6
  <2>4. \A i : i \in Journaled' <=> i \in Journaled
    BY <1>3, <2>1, <2>2, <2>3
  <2> QED
    BY <2>4, Zenon
<1>8. ActiveFile' = <<>>
  BY <1>2, Zenon DEF ActiveFile
<1> QED
  BY <1>2, <1>3, <1>4, <1>5, <1>7, <1>8, Zenon

\* A flush is taken up, and the journal is perhaps sealed with the watermarks of
\* the memtables.
LEMMA TakeFlushInv ==
  ASSUME IInv, NEW w \in Worker, NEW k \in Keyspace, TakeFlush(w, k) PROVE IInv'
<1>1. /\ phase = "up"
      /\ pc' = [pc EXCEPT ![w] = "flushing"] /\ ks' = [ks EXCEPT ![w] = k]
      /\ UNCHANGED <<workload, ops, log, seqno, trees, phase, replayed, crashes>>
      /\ RotateJournal \/ UNCHANGED <<items, journal>>
  BY Zenon DEF TakeFlush
<1>2. UNCHANGED <<active, sealed, tables>>
  BY <1>1, Zenon DEF trees
<1>3. OpsShape /\ TreesShape /\ FilesShape /\ FilesOrdered /\ RunShape /\ Phases /\ Layered /\ Watermarked /\ AllPersisted
  BY Zenon DEF IInv, Shape
<1>4. \A l \in Keyspace : Contents(l)' = Contents(l) /\ tables[l] \subseteq tables'[l]
  BY <1>2, Zenon DEF Contents
<1>5. \A i, l : Alive(i, l)' <=> Alive(i, l)
  BY <1>1, SameOps, Zenon
<1>6. Final' <=> Final
  BY <1>1, Zenon DEF Final
<1>7. OpsShape' /\ TreesShape'
  BY <1>1, <1>3, SameShapes, Zenon
<1>8. RunShape'
  BY <1>1, <1>3, Zenon DEF RunShape
<1>9. \A v \in Worker : pc'[v] = "flushing" => ks'[v] \in Keyspace
  BY <1>1, <1>3, Zenon DEF RunShape, Phases
<1>10. phase' = "up" /\ phase' # "recovering"
  BY <1>1
<1>11. CASE UNCHANGED <<items, journal>>
  <2>1. Journaled' = Journaled /\ (\A n : Entries(n)' = Entries(n)) /\ ActiveFile' = ActiveFile
    BY <1>11, SameFiles, Zenon DEF journal, ActiveFile
  <2>2. FilesShape' /\ FilesOrdered'
    BY <1>1, <1>3, <1>11, SameShapes, Zenon DEF journal
  <2>3. Phases'
    BY <1>1, <1>3, <1>9, <1>10, <1>11, Zenon DEF Phases, journal
  <2>4. Kinds' /\ Numbered' /\ OnlyAlive' /\ Kept' /\ Replaying' /\ Contiguous'
    BY <1>1, <1>4, <2>1, WorkerStep, Zenon
  <2>5. Layered' /\ Watermarked'
    BY <1>1, <1>2, <1>3, <1>5, <1>6, <1>11, <2>1, Zenon DEF Layered, Watermarked
  <2>6. AllPersisted'
    BY <1>1, <1>3, <1>4, <1>11, <2>1, Zenon DEF AllPersisted, journal
  <2> QED
    BY <1>7, <1>8, <2>2, <2>3, <2>4, <2>5, <2>6, Zenon DEF IInv, Shape
<1>12. CASE RotateJournal
  <2>1. /\ items' = Append(items, [l \in Keyspace |-> MemtableSeqno(l)])
        /\ files' = Append(files, <<>>) /\ durable' = 0
    BY <1>12, Zenon DEF RotateJournal
  <2>2. /\ Len(files)' = Len(files) + 1 /\ ActiveFile' = <<>>
        /\ \A n \in 1..Len(files) : files'[n] = files[n] /\ Entries(n)' = Entries(n)
        /\ \A n : n = Len(files) + 1 => Entries(n)' = {}
        /\ Journaled' = Journaled
    BY <1>3, <2>1, NewFile, Zenon
  <2>3. Len(files) \in Nat \ {0} /\ Len(items) \in Nat /\ Len(files) = Len(items) + 1
    BY <1>1, <1>3, EntriesMeans DEF Phases, FilesShape
  <2>4. /\ Len(items)' = Len(items) + 1 /\ \A n \in 1..Len(items) : items'[n] = items[n]
        /\ items'[Len(items) + 1] = [l \in Keyspace |-> MemtableSeqno(l)]
    BY <1>3, <2>1 DEF FilesShape
  <2>5. ASSUME NEW l \in Keyspace
        PROVE  MemtableSeqno(l) \in Int /\ \A i \in active[l] \cup sealed[l] : ops[i].seqno <= MemtableSeqno(l)
    <3>1. (active[l] \cup sealed[l]) \in SUBSET (1..Len(ops))
      BY <1>3, Zenon DEF TreesShape
    <3>2. MemtableSeqno(l) \in -1..(Len(ops) - 1)
      BY <1>3, <3>1, HighestMeans, Zenon DEF MemtableSeqno
    <3>3. \A i \in active[l] \cup sealed[l] : ops[i].seqno <= MemtableSeqno(l)
      BY <1>3, <3>1, HighestMeans, Zenon DEF MemtableSeqno
    <3> QED
      BY <3>2, <3>3
  <2>6. FilesShape'
    <3>1. items' \in Seq([Keyspace -> Int])
      <4>1. [l \in Keyspace |-> MemtableSeqno(l)] \in [Keyspace -> Int]
        BY <2>5, Zenon
      <4> HIDE DEF MemtableSeqno
      <4> QED
        BY <1>3, <2>1, <4>1 DEF FilesShape
    <3>2. files' \in Seq(Seq(1..Len(ops))) /\ files' # <<>>
      <4> DEFINE S == Seq(1..Len(ops))
      <4>1. <<>> \in S /\ files \in Seq(S)
        BY <1>3 DEF FilesShape
      <4> HIDE DEF S
      <4>2. Append(files, <<>>) \in Seq(S) /\ Append(files, <<>>) # <<>>
        BY <4>1, AppendMeans, Zenon
      <4> QED
        BY <2>1, <4>2 DEF S
    <3>3. durable' \in 0..Len(ActiveFile')
      BY <2>1, <2>2
    <3> QED
      BY <1>1, <3>1, <3>2, <3>3, Zenon DEF FilesShape
  <2>7. FilesOrdered'
    <3>1. ASSUME NEW n \in 1..Len(files') PROVE n \in 1..Len(files) \/ (Entries(n)' = {} /\ n = Len(files) + 1)
      BY <2>2, <2>3
    <3>2. ASSUME NEW m \in 1..Len(files'), NEW n \in 1..Len(files'), m < n PROVE m \in 1..Len(files)
      BY <2>2, <2>3, <3>2
    <3>3. \A m, n \in 1..Len(files') : m < n => \A i \in Entries(m)', j \in Entries(n)' : i < j
      <4> SUFFICES ASSUME NEW m \in 1..Len(files'), NEW n \in 1..Len(files'), m < n,
                          NEW i \in Entries(m)', NEW j \in Entries(n)'
                   PROVE  i < j
        BY Zenon
      <4>1. m \in 1..Len(files) /\ n \in 1..Len(files)
        BY <3>1, <3>2
      <4>2. i \in Entries(m) /\ j \in Entries(n)
        BY <2>2, <4>1
      <4> QED
        BY <1>3, <4>1, <4>2, Zenon DEF FilesOrdered
    <3>4. \A n \in 1..Len(files') : \A p, q \in 1..Len(files'[n]) : p < q => files'[n][p] < files'[n][q]
      <4>1. files'[Len(files) + 1] = <<>> /\ 1..Len(<<>>) = {}
        BY <1>3, <2>1 DEF FilesShape
      <4> QED
        BY <1>3, <2>2, <3>1, <4>1, Zenon DEF FilesOrdered
    <3>5. 1..Len(ActiveFile') = {}
      BY <2>2
    <3> QED
      BY <1>1, <1>3, <2>2, <3>3, <3>4, <3>5, Zenon DEF FilesOrdered
  <2>8. Phases'
    BY <1>9, <1>10, <2>2, <2>3, <2>4, Zenon DEF Phases
  <2>9. Kinds' /\ Numbered' /\ OnlyAlive' /\ Kept' /\ Replaying' /\ Contiguous'
    BY <1>1, <1>4, <2>2, WorkerStep, Zenon
  <2>10. Layered'
    BY <1>1, <1>2, <1>3, <1>5, <1>6, <2>2, Zenon DEF Layered
  <2>11. Watermarked'
    <3> SUFFICES ASSUME ~Final, NEW n \in 1..Len(items'), NEW l \in Keyspace, NEW i \in Entries(n)', Alive(i, l)
                 PROVE  i \in tables[l] \/ ops[i].seqno <= items'[n][l]
      BY <1>1, <1>2, <1>5, <1>6, Zenon DEF Watermarked
    <3>1. n \in 1..Len(files) /\ (n \in 1..Len(items) \/ n = Len(items) + 1)
      BY <2>3, <2>4
    <3>2. i \in Entries(n)
      BY <2>2, <3>1, Zenon
    <3>3. CASE n \in 1..Len(items)
      BY <1>3, <2>4, <3>2, <3>3, Zenon DEF Watermarked
    <3>4. CASE n = Len(items) + 1
      <4>1. items'[n][l] = MemtableSeqno(l)
        BY <2>4, <3>4, Zenon
      <4>2. i \in Journaled
        BY <1>3, <3>1, <3>2, EntriesMeans, Zenon
      <4>3. i \in Contents(l)
        BY <1>1, <4>2, JournaledKept, Zenon
      <4> QED
        BY <2>5, <4>1, <4>3, Zenon DEF Contents
    <3> QED
      BY <3>1, <3>3, <3>4, Zenon
  <2>12. AllPersisted'
    <3>1. durable' = Len(ActiveFile')
      BY <2>1, <2>2
    <3> QED
      BY <1>1, <1>3, <1>4, <3>1, Zenon DEF AllPersisted
  <2> QED
    BY <1>7, <1>8, <2>6, <2>7, <2>8, <2>9, <2>10, <2>11, <2>12, Zenon DEF IInv, Shape
<1> QED
  BY <1>1, <1>11, <1>12, Zenon

\* What Tail does, for any elements.
LEMMA TailMeans ==
  ASSUME NEW S, NEW q \in Seq(S), q # <<>>
  PROVE  /\ Tail(q) \in Seq(S) /\ Len(Tail(q)) = Len(q) - 1
         /\ \A n \in 1..(Len(q) - 1) : Tail(q)[n] = q[n + 1]
  OBVIOUS

\* The oldest file is removed.
LEMMA FileRemoved ==
  ASSUME FilesShape, FilesOrdered, files' = Tail(files), Len(files) > 1
  PROVE  /\ Len(files)' = Len(files) - 1 /\ files' \in Seq(Seq(1..Len(ops))) /\ files' # <<>>
         /\ ActiveFile' = ActiveFile
         /\ \A n \in 1..(Len(files) - 1) : files'[n] = files[n + 1] /\ Entries(n)' = Entries(n + 1)
         /\ Journaled' \subseteq Journaled
         /\ \A i \in Journaled : i \in Journaled' \/ i \in Entries(1)
         /\ \A i \in Journaled' : \A j \in Journaled : i < j => j \in Journaled'
<1> DEFINE L == Len(files)
<1>1. L \in Nat /\ L > 1 /\ files # <<>>
  BY EntriesMeans DEF FilesShape
<1>2. /\ files' \in Seq(Seq(1..Len(ops))) /\ Len(files') = L - 1
      /\ \A n \in 1..(L - 1) : files'[n] = files[n + 1]
  BY TailMeans, <1>1, Zenon DEF FilesShape
<1>3. files' # <<>>
  <2>1. Len(<<>>) = 0
    OBVIOUS
  <2>2. Len(files') = L - 1
    BY <1>2, Zenon
  <2>3. L - 1 # 0
    BY <1>1
  <2> QED
    BY <2>1, <2>2, <2>3, Zenon
<1>4. ActiveFile' = ActiveFile
  <2>1. L - 1 \in 1..(L - 1) /\ (L - 1) + 1 = L
    BY <1>1
  <2>2. ActiveFile' = files'[L - 1]
    BY <1>2, Zenon DEF ActiveFile
  <2>3. ActiveFile = files[L]
    BY Zenon DEF ActiveFile
  <2> QED
    BY <1>2, <2>1, <2>2, <2>3, Zenon
<1>5. \A n \in 1..(L - 1) : Entries(n)' = Entries(n + 1)
  BY <1>2, Zenon DEF Entries
<1>6. \A i : i \in Journaled' <=> \E n \in 1..(L - 1) : i \in Entries(n + 1)
  <2>1. \A i : i \in Journaled' <=> \E n \in 1..(L - 1) : i \in Entries(n)'
    BY <1>2, Zenon DEF Journaled
  <2> QED
    BY <1>5, <2>1
<1>7. \A i : i \in Journaled <=> \E n \in 1..L : i \in Entries(n)
  BY Zenon DEF Journaled
<1>8. \A n \in 1..(L - 1) : n + 1 \in 1..L
  BY <1>1
<1>9. \A n \in 1..L : n = 1 \/ (n - 1 \in 1..(L - 1) /\ (n - 1) + 1 = n)
  BY <1>1
<1>10. \A i \in Journaled : i \in Journaled' \/ i \in Entries(1)
  BY <1>6, <1>7, <1>9, Zenon
<1>11. ASSUME NEW i \in Journaled', NEW j \in Journaled, i < j PROVE j \in Journaled'
  <2>1. PICK n \in 1..(L - 1) : i \in Entries(n + 1)
    BY <1>6
  <2>2. 1 \in 1..L /\ n + 1 \in 1..L /\ 1 < n + 1
    BY <1>1
  <2>3. j \notin Entries(1)
    <3>1. ASSUME j \in Entries(1) PROVE FALSE
      <4>1. j < i
        BY <2>1, <2>2, <3>1, Zenon DEF FilesOrdered
      <4>2. i \in Nat /\ j \in Nat
        BY <2>1, <2>2, <3>1, EntriesMeans
      <4> QED
        BY <1>11, <4>1, <4>2
    <3> QED
      BY <3>1, Zenon
  <2> QED
    BY <1>10, <2>3, Zenon
<1> QED
  BY <1>2, <1>3, <1>4, <1>5, <1>6, <1>7, <1>8, <1>10, <1>11, Zenon

\* Tables that reach the number of a journaled operation have it.
LEMMA ReachedMeans ==
  ASSUME IInv, ~Final, NEW k \in Keyspace, NEW i \in Journaled, Alive(i, k), Highest(tables[k]) >= ops[i].seqno
  PROVE  i \in tables[k]
<1>1. OpsShape /\ TreesShape /\ FilesOrdered /\ Numbered /\ Layered
  BY Zenon DEF IInv, Shape
<1>2. i \in 1..Len(ops) /\ Len(ops) \in Nat /\ \A n \in 1..Len(ops) : ops[n].seqno \in Nat
  <2>1. i \in 1..Len(ops)
    BY <1>1, Zenon DEF FilesOrdered, OpsShape
  <2> QED
    BY <1>1, <2>1, OpFields, Zenon
<1>3. tables[k] \in SUBSET (1..Len(ops))
  BY <1>1, Zenon DEF TreesShape
<1>4. Highest(tables[k]) \in Int
  <2>1. Highest(tables[k]) \in -1..(Len(ops) - 1)
    BY <1>1, <1>3, HighestMeans, Zenon
  <2> QED
    BY <1>2, <2>1
<1>5. tables[k] # {}
  <2>1. Highest(tables[k]) # -1
    BY <1>2, <1>4
  <2> QED
    BY <1>1, <1>3, <2>1, HighestMeans, Zenon
<1>6. PICK j \in tables[k] : ops[j].seqno = Highest(tables[k])
  BY <1>1, <1>3, <1>5, HighestMeans, Zenon
<1>7. Counted(i) /\ Counted(j)
  BY <1>6, Zenon DEF Counted, Contents
<1>8. j < i => ops[j].seqno < ops[i].seqno
  BY <1>1, <1>2, <1>3, <1>7, Zenon DEF Numbered
<1>9. i = j \/ i < j
  BY <1>2, <1>3, <1>6, <1>8
<1> QED
  BY <1>1, <1>6, <1>9, Zenon DEF Layered

\* A file whose watermarks the tables have reached holds nothing that is not in them.
LEMMA FlushedMeans ==
  ASSUME IInv, ~Final, items # <<>>, Flushed(items[1]), Len(files) > 1,
         NEW k \in Keyspace, NEW i \in Entries(1), Alive(i, k)
  PROVE  i \in tables[k]
<1>1. OpsShape /\ TreesShape /\ FilesShape /\ Watermarked
  BY Zenon DEF IInv, Shape
<1>2. Len(items) \in Nat /\ 1 \in 1..Len(items) /\ 1 \in 1..Len(files) /\ items[1][k] \in Int
  BY <1>1, EntriesMeans DEF FilesShape
<1>3. i \in Journaled /\ i \in 1..Len(ops)
  BY <1>1, <1>2, EntriesMeans, Zenon
<1>4. i \in tables[k] \/ ops[i].seqno <= items[1][k]
  BY <1>1, <1>2, Zenon DEF Watermarked
<1>5. Highest(tables[k]) >= items[1][k]
  BY Zenon DEF Flushed
<1>6. Highest(tables[k]) \in Int /\ ops[i].seqno \in Nat
  <2>1. tables[k] \in SUBSET (1..Len(ops)) /\ Len(ops) \in Nat /\ ops[i].seqno \in Nat
    BY <1>1, <1>3, OpFields, Zenon DEF TreesShape
  <2>2. Highest(tables[k]) \in -1..(Len(ops) - 1)
    BY <1>1, <2>1, HighestMeans, Zenon
  <2> QED
    BY <2>1, <2>2
<1>7. CASE ops[i].seqno <= items[1][k]
  <2>1. Highest(tables[k]) >= ops[i].seqno
    BY <1>2, <1>5, <1>6, <1>7
  <2> QED
    BY <1>3, <2>1, ReachedMeans, Zenon
<1> QED
  BY <1>4, <1>7, Zenon

\* An evicted journal was needed by no keyspace: its watermarks were reached, so by
\* Watermarked and Layered everything in it that is not cleared is in tables.
LEMMA MaintainInv ==
  ASSUME IInv, NEW w \in Worker, Maintain(w) PROVE IInv'
<1>1. /\ pc[w] = "maintaining"
      /\ UNCHANGED <<workload, ops, log, seqno, trees, durable, ks, phase, replayed, crashes>>
      /\ \/ /\ items # <<>> /\ Flushed(items[1])
            /\ files' = Tail(files) /\ items' = Tail(items) /\ pc' = pc
         \/ pc' = [pc EXCEPT ![w] = "idle"] /\ UNCHANGED <<files, items>>
  BY Zenon DEF Maintain
<1>2. OpsShape /\ TreesShape /\ FilesShape /\ FilesOrdered /\ RunShape /\ Phases /\ Layered /\ Watermarked /\ AllPersisted
  BY Zenon DEF IInv, Shape
<1>3. phase = "up"
  BY <1>1, <1>2 DEF Phases, RunShape
<1>4. UNCHANGED <<active, sealed, tables>>
  BY <1>1, Zenon DEF trees
<1>5. \A k \in Keyspace : Contents(k)' = Contents(k) /\ tables[k] \subseteq tables'[k]
  BY <1>4, Zenon DEF Contents
<1>6. \A i, k : Alive(i, k)' <=> Alive(i, k)
  BY <1>1, SameOps, Zenon
<1>7. Final' <=> Final
  BY <1>1, Zenon DEF Final
<1>8. CASE pc' = [pc EXCEPT ![w] = "idle"] /\ UNCHANGED <<files, items>>
  <2>1. RunShape' /\ Phases'
    <3>1. Len(files)' = Len(items)' + 1
      BY <1>2, <1>3, <1>8, Zenon DEF Phases
    <3>2. "idle" # "flushing"
      OBVIOUS
    <3> QED
      BY <1>1, <1>2, <1>3, <1>8, <3>1, <3>2, PcStep, Zenon
  <2>2. Layered'
    <3>1. Journaled' = Journaled
      BY <1>8, SameFiles, Zenon
    <3> QED
      BY <1>1, <1>2, <1>4, <1>6, <1>7, <3>1, Zenon DEF Layered
  <2>3. TreesShape'
    BY <1>1, <1>2, SameShapes, Zenon
  <2> QED
    BY <1>1, <1>3, <1>5, <1>8, <2>1, <2>2, <2>3, TreeStep, Zenon DEF journal
<1>9. CASE items # <<>> /\ Flushed(items[1]) /\ files' = Tail(files) /\ items' = Tail(items) /\ pc' = pc
  <2>1. /\ Len(items) \in Nat \ {0} /\ Len(files) = Len(items) + 1 /\ Len(files) > 1 /\ Len(files) \in Nat
        /\ items' \in Seq([Keyspace -> Int]) /\ Len(items') = Len(items) - 1
        /\ \A n \in 1..(Len(items) - 1) : items'[n] = items[n + 1]
    <3>1. items \in Seq([Keyspace -> Int]) /\ Len(files) = Len(items) + 1 /\ Len(files) \in Nat
      BY <1>2, <1>3, EntriesMeans, Zenon DEF FilesShape, Phases
    <3>2. Len(items) \in Nat \ {0} /\ Len(files) > 1
      BY <1>9, <3>1
    <3> QED
      BY <1>9, <3>1, <3>2, TailMeans, Zenon
  <2>2. /\ Len(files)' = Len(files) - 1 /\ files' \in Seq(Seq(1..Len(ops))) /\ files' # <<>>
        /\ ActiveFile' = ActiveFile
        /\ \A n \in 1..(Len(files) - 1) : files'[n] = files[n + 1] /\ Entries(n)' = Entries(n + 1)
        /\ Journaled' \subseteq Journaled
        /\ \A i \in Journaled : i \in Journaled' \/ i \in Entries(1)
        /\ \A i \in Journaled' : \A j \in Journaled : i < j => j \in Journaled'
    BY <1>2, <1>9, <2>1, FileRemoved, Zenon
  <2>3. ~Final => \A k \in Keyspace : \A i \in Journaled : Alive(i, k) => i \in Journaled' \/ i \in tables'[k]
    BY <1>4, <1>9, <2>1, <2>2, FlushedMeans, Zenon
  <2>4. Kinds' /\ Numbered' /\ OnlyAlive' /\ Kept' /\ Replaying' /\ Contiguous'
    BY <1>1, <1>3, <1>5, <2>2, <2>3, WorkerStep, Zenon
  <2>5. OpsShape' /\ TreesShape'
    BY <1>1, <1>2, SameShapes, Zenon
  <2>6. FilesShape'
    BY <1>1, <1>2, <2>1, <2>2, Zenon DEF FilesShape
  <2>7. FilesOrdered'
    <3>1. \A n \in 1..Len(files') : n \in 1..(Len(files) - 1) /\ n + 1 \in 1..Len(files)
      BY <2>1, <2>2
    <3>2. \A m, n \in 1..Len(files') : m < n => m + 1 < n + 1
      BY <2>1, <2>2
    <3>3. \A n \in 1..Len(files') : \A p, q \in 1..Len(files'[n]) : p < q => files'[n][p] < files'[n][q]
      BY <1>2, <2>2, <3>1, Zenon DEF FilesOrdered
    <3>4. \A m, n \in 1..Len(files') : m < n => \A i \in Entries(m + 1), j \in Entries(n + 1) : i < j
      BY <1>2, <3>1, <3>2, Zenon DEF FilesOrdered
    <3>5. \A m, n \in 1..Len(files') : m < n => \A i \in Entries(m)', j \in Entries(n)' : i < j
      BY <2>2, <3>1, <3>4
    <3> QED
      BY <1>1, <1>2, <2>2, <3>3, <3>5, Zenon DEF FilesOrdered
  <2>8. RunShape' /\ Phases'
    <3>1. Len(files)' = Len(items)' + 1
      BY <2>1, <2>2
    <3>2. phase' # "recovering"
      BY <1>1, <1>3
    <3> QED
      BY <1>1, <1>2, <1>9, <3>1, <3>2, Zenon DEF RunShape, Phases
  <2>9. Layered'
    BY <1>1, <1>2, <1>4, <1>6, <1>7, <2>2, Zenon DEF Layered
  <2>10. Watermarked'
    <3>1. \A n \in 1..Len(items') : n \in 1..(Len(items) - 1) /\ n \in 1..(Len(files) - 1) /\ n + 1 \in 1..Len(items)
      BY <2>1
    <3> SUFFICES ASSUME ~Final, NEW n \in 1..Len(items'), NEW k \in Keyspace, NEW i \in Entries(n)', Alive(i, k)
                 PROVE  i \in tables[k] \/ ops[i].seqno <= items'[n][k]
      BY <1>1, <1>4, <1>6, <1>7, Zenon DEF Watermarked
    <3>2. i \in Entries(n + 1) /\ items'[n] = items[n + 1] /\ n + 1 \in 1..Len(items)
      BY <2>1, <2>2, <3>1, Zenon
    <3> QED
      BY <1>2, <3>2, Zenon DEF Watermarked
  <2>11. AllPersisted'
    BY <1>1, <1>2, <1>5, <2>2, Zenon DEF AllPersisted
  <2> QED
    BY <2>4, <2>5, <2>6, <2>7, <2>8, <2>9, <2>10, <2>11, Zenon DEF IInv, Shape
<1> QED
  BY <1>1, <1>8, <1>9, Zenon

\* What a new operation x adds to the history.
LEMMA NewOp ==
  ASSUME OpsShape, NEW kind \in {"write", "clear", "ingest"}, NEW kss \in (SUBSET Keyspace) \ {{}},
         Issue(kind, kss), NEW x, x = Len(ops) + 1
  PROVE  /\ phase = "up" /\ seqno' = seqno + 1 /\ log' = log \cup {x}
         /\ Len(ops)' = x /\ 1..Len(ops') = 1..Len(ops) \cup {x} /\ x \notin 1..Len(ops)
         /\ \A i \in 1..Len(ops) : i < x /\ ~(x < i) /\ ops'[i] = ops[i]
         /\ ops'[x].kind = kind /\ ops'[x].kss = kss /\ ops'[x].seqno = seqno
         /\ OpsShape'
         /\ \A k : \A i \in 1..Len(ops) : Alive(i, k)' <=> Alive(i, k) /\ ~(kind = "clear" /\ k \in kss)
         /\ \A k : Alive(x, k)' <=> kind # "clear" /\ k \in kss
         /\ ~(x < x)
<1> DEFINE o == [kind |-> kind, kss |-> kss, seqno |-> seqno]
<1>1. phase = "up" /\ ops' = Append(ops, o) /\ log' = log \cup {x} /\ seqno' = seqno + 1
  BY Zenon DEF Issue
<1>2. ops \in Seq(Op) /\ seqno \in 0..Len(ops) /\ Len(ops) \in Nat
  BY OpFields DEF OpsShape
<1>3. o \in Op /\ o.kind = kind /\ o.kss = kss /\ o.seqno = seqno
  BY <1>2 DEF Op
<1> HIDE DEF o
<1>4. /\ ops' \in Seq(Op) /\ Len(ops') = x /\ ops'[x] = o
      /\ \A i \in 1..Len(ops) : ops'[i] = ops[i]
  <2>1. /\ Append(ops, o) \in Seq(Op) /\ Len(Append(ops, o)) = Len(ops) + 1 /\ Append(ops, o)[Len(ops) + 1] = o
        /\ \A i \in 1..Len(ops) : Append(ops, o)[i] = ops[i]
    BY <1>2, <1>3, AppendMeans
  <2> QED
    BY <1>1, <2>1, Zenon
<1>5. /\ 1..Len(ops') = 1..Len(ops) \cup {x} /\ x \notin 1..Len(ops) /\ ~(x < x)
      /\ \A i \in 1..Len(ops) : i < x /\ ~(x < i)
  BY <1>2, <1>4
<1>6. OpsShape'
  <2>1. \A i \in 1..Len(ops') : ops'[i].seqno < i
    <3>1. seqno < x
      BY <1>2
    <3>2. \A i \in 1..Len(ops) : ops[i].seqno < i
      BY Zenon DEF OpsShape
    <3> QED
      BY <1>3, <1>4, <1>5, <3>1, <3>2, Zenon
  <2>2. seqno' \in 0..Len(ops')
    BY <1>1, <1>2, <1>4
  <2>3. log' \subseteq 1..Len(ops')
    BY <1>1, <1>5, Zenon DEF OpsShape
  <2> QED
    BY <1>4, <2>1, <2>2, <2>3, Zenon DEF OpsShape
<1>7. \A k : \A c \in 1..Len(ops) : Empties(c, k)' <=> Empties(c, k)
  BY <1>4, Zenon DEF Empties
<1>8. \A k : Empties(x, k)' <=> kind = "clear" /\ k \in kss
  BY <1>3, <1>4, Zenon DEF Empties
<1>9. ASSUME NEW k, NEW i \in 1..Len(ops)
      PROVE  Alive(i, k)' <=> Alive(i, k) /\ ~(kind = "clear" /\ k \in kss)
  <2>1. (\A c \in 1..Len(ops') : Empties(c, k)' => c < i)
        <=> (\A c \in 1..Len(ops) : Empties(c, k) => c < i) /\ ~(kind = "clear" /\ k \in kss)
    BY <1>5, <1>7, <1>8
  <2>2. Alive(i, k)' <=> (ops'[i].kind # "clear" /\ k \in ops'[i].kss /\ \A c \in 1..Len(ops') : Empties(c, k)' => c < i)
    BY Zenon DEF Alive
  <2> QED
    BY <1>4, <2>1, <2>2, Zenon DEF Alive
<1>10. ASSUME NEW k PROVE Alive(x, k)' <=> kind # "clear" /\ k \in kss
  <2>1. Alive(x, k)' <=> (ops'[x].kind # "clear" /\ k \in ops'[x].kss /\ \A c \in 1..Len(ops') : Empties(c, k)' => c < x)
    BY Zenon DEF Alive
  <2>2. kind # "clear" => \A c \in 1..Len(ops') : Empties(c, k)' => c < x
    BY <1>5, <1>8
  <2> QED
    BY <1>3, <1>4, <2>1, <2>2, Zenon
<1> QED
  BY <1>1, <1>3, <1>4, <1>5, <1>6, <1>9, <1>10, Zenon

\* A new operation: what it puts into the trees is alive, and what is still alive stays.
LEMMA IssueStep ==
  ASSUME IInv, NEW kind \in {"write", "clear", "ingest"}, NEW kss \in (SUBSET Keyspace) \ {{}},
         Issue(kind, kss), Quiet, NEW x, x = Len(ops) + 1,
         kind = "clear" => workload.clears, kind = "ingest" => workload.ingests,
         Journaled \subseteq Journaled', Journaled' \subseteq Journaled \cup {x},
         x \in Journaled' \/ (~workload.clears /\ kind # "clear"),
         \A n \in 1..Len(items) : Entries(n)' = Entries(n),
         \A k \in Keyspace :
            /\ Contents(k)' \subseteq Contents(k) \cup {x}
            /\ \A i \in Contents(k)' : Alive(i, k)'
            /\ \A i \in Contents(k) : Alive(i, k)' => i \in Contents(k)'
            /\ \A i \in tables[k] : Alive(i, k)' => i \in tables'[k]
            /\ Alive(x, k)' => x \in Contents(k)' /\ (x \in tables'[k] \/ x \in Journaled'),
         TreesShape', FilesShape', FilesOrdered', Len(files)' = Len(files), Layered',
         workload.persisted = {TRUE} => durable' = Len(ActiveFile)'
  PROVE  IInv'
<1>1. /\ OpsShape /\ TreesShape /\ FilesShape /\ FilesOrdered /\ RunShape /\ Phases /\ Kinds /\ Numbered
      /\ OnlyAlive /\ Kept /\ Watermarked /\ Contiguous /\ AllPersisted
  BY Zenon DEF IInv, Shape
<1>2. /\ phase = "up" /\ seqno' = seqno + 1 /\ log' = log \cup {x}
      /\ Len(ops)' = x /\ 1..Len(ops') = 1..Len(ops) \cup {x} /\ x \notin 1..Len(ops)
      /\ \A i \in 1..Len(ops) : i < x /\ ~(x < i) /\ ops'[i] = ops[i]
      /\ ops'[x].kind = kind /\ ops'[x].kss = kss /\ ops'[x].seqno = seqno
      /\ OpsShape'
      /\ \A k : \A i \in 1..Len(ops) : Alive(i, k)' <=> Alive(i, k) /\ ~(kind = "clear" /\ k \in kss)
      /\ \A k : Alive(x, k)' <=> kind # "clear" /\ k \in kss
      /\ ~(x < x)
  BY <1>1, NewOp
<1>0. \A j \in 1..Len(ops) \cup {x} : ~(x < j)
  BY <1>2, Zenon
<1>3. UNCHANGED <<items, pc, ks, phase, replayed, crashes, workload>>
  BY Zenon DEF Quiet, workers
<1>4. phase' # "recovering"
  BY <1>2, <1>3
<1>5. Final' <=> Final
  BY <1>3, Zenon DEF Final
<1>6. \A k \in Keyspace : Contents(k) \subseteq 1..Len(ops)
  BY <1>1, Zenon DEF TreesShape, Contents
<1>7. log \subseteq 1..Len(ops) /\ Journaled \subseteq 1..Len(ops)
  BY <1>1, Zenon DEF OpsShape, FilesOrdered
<1>8. RunShape' /\ Phases'
  BY <1>1, <1>3, <1>4, Zenon DEF RunShape, Phases
<1>9. Kinds'
  BY <1>1, <1>2, <1>3, Zenon DEF Kinds
<1>10. \A i : Counted(i)' => i = x \/ Counted(i)
  BY <1>5, Zenon DEF Counted
<1>11. \A i \in 1..Len(ops) : Counted(i) => ops[i].seqno < seqno
  BY <1>1, <1>2, Zenon DEF Numbered
<1>12. Numbered'
  <2>1. \A i \in 1..Len(ops) : Counted(i) => ops[i].seqno < seqno + 1
    <3>1. seqno \in Nat /\ \A i \in 1..Len(ops) : ops[i].seqno \in Nat
      BY <1>1, OpFields DEF OpsShape
    <3> QED
      BY <1>11, <3>1
  <2>2. seqno < seqno + 1
    BY <1>1 DEF OpsShape
  <2>3. \A i \in 1..Len(ops') : Counted(i)' => ops'[i].seqno < seqno'
    BY <1>2, <1>10, <2>1, <2>2, Zenon
  <2>4. ASSUME NEW i \in 1..Len(ops'), NEW j \in 1..Len(ops'), Counted(i)', Counted(j)', i < j
        PROVE  ops'[i].seqno < ops'[j].seqno
    <3>1. i \in 1..Len(ops) /\ Counted(i)
      <4>1. i # x /\ i \in 1..Len(ops) \cup {x}
        <5>1. 1..Len(ops') = 1..Len(ops) \cup {x}
          BY <1>2, Zenon
        <5> QED
          BY <1>0, <2>4, <5>1
      <4> QED
        BY <1>10, <2>4, <4>1, Zenon
    <3>2. CASE j = x
      BY <1>2, <1>11, <3>1, <3>2, Zenon
    <3>3. CASE j \in 1..Len(ops) /\ Counted(j)
      BY <1>1, <1>2, <2>4, <3>1, <3>3, Zenon DEF Numbered
    <3> QED
      BY <1>2, <1>10, <2>4, <3>2, <3>3, Zenon
  <2> QED
    BY <2>3, <2>4, Zenon DEF Numbered
<1>13. OnlyAlive'
  <2>1. \A k \in Keyspace : \A i \in tables'[k] \cup (active'[k] \cup sealed'[k]) : i \in Contents(k)'
    BY Zenon DEF Contents
  <2> QED
    BY <2>1, Zenon DEF OnlyAlive
<1>14. Kept'
  <2> SUFFICES ASSUME NEW k \in Keyspace, NEW i \in log', Alive(i, k)'
               PROVE  i \in Contents(k)' /\ (~Final' => i \in tables'[k] \/ i \in Journaled')
    BY Zenon DEF Kept
  <2>1. CASE i = x
    BY <2>1, Zenon
  <2>2. CASE i \in log
    <3>1. Alive(i, k)
      BY <1>2, <1>7, <2>2, Zenon
    <3>2. i \in Contents(k) /\ (~Final => i \in tables[k] \/ i \in Journaled)
      BY <1>1, <1>2, <2>2, <3>1, Zenon DEF Kept
    <3> QED
      BY <1>5, <3>2, Zenon
  <2> QED
    BY <1>2, <2>1, <2>2, Zenon
<1>15. Watermarked'
  <2> SUFFICES ASSUME ~Final, NEW n \in 1..Len(items), NEW k \in Keyspace, NEW i \in Entries(n), Alive(i, k)'
               PROVE  i \in tables'[k] \/ ops'[i].seqno <= items[n][k]
    BY <1>3, <1>5, Zenon DEF Watermarked
  <2>1. n \in 1..Len(files)
    <3>1. Len(files) = Len(items) + 1 /\ Len(items) \in Nat
      BY <1>1, <1>2, SMTT(30) DEF Phases, FilesShape
    <3> QED
      BY <3>1
  <2>2. i \in 1..Len(ops)
    BY <1>1, <2>1, EntriesMeans, Zenon
  <2>3. Alive(i, k)
    BY <1>2, <2>2, Zenon
  <2>4. i \in tables[k] \/ ops[i].seqno <= items[n][k]
    BY <1>1, <2>3, Zenon DEF Watermarked
  <2> QED
    BY <1>2, <2>2, <2>4, Zenon
<1>16. Replaying'
  BY <1>4, Zenon DEF Replaying
<1>17. Contiguous'
  <2> SUFFICES ASSUME ~Final, NEW i \in Journaled', NEW j \in log', i < j, workload.clears \/ ops'[j].kind = "clear"
               PROVE  j \in Journaled'
    BY <1>3, <1>5, Zenon DEF Contiguous
  <2>1. CASE j = x
    BY <1>2, <2>1, Zenon
  <2>2. CASE j \in log
    <3>1. i \in Journaled /\ ops'[j] = ops[j]
      <4>1. i # x /\ j \in 1..Len(ops)
        BY <1>0, <1>7, <2>2, Zenon
      <4> QED
        BY <1>2, <4>1, Zenon
    <3> QED
      BY <1>1, <2>2, <3>1, Zenon DEF Contiguous
  <2> QED
    BY <1>2, <2>1, <2>2, Zenon
<1>18. AllPersisted'
  BY <1>1, <1>2, <1>3, Zenon DEF AllPersisted
<1> QED
  BY <1>2, <1>8, <1>9, <1>12, <1>13, <1>14, <1>15, <1>16, <1>17, <1>18, Zenon DEF IInv, Shape

\* Sequences over a set are sequences over a larger one.
LEMMA SeqMonotonic == ASSUME NEW S, NEW T, S \subseteq T PROVE Seq(S) \subseteq Seq(T)
<1> SUFFICES ASSUME NEW q \in Seq(S) PROVE q \in Seq(T)
  OBVIOUS
<1>1. q = [n \in 1..Len(q) |-> q[n]] /\ Len(q) \in Nat /\ \A n \in 1..Len(q) : q[n] \in T
  OBVIOUS
<1> QED
  BY <1>1

\* The active file changes.
LEMMA FileReplaced ==
  ASSUME FilesShape, NEW S, 1..Len(ops) \subseteq S, NEW f \in Seq(S), files' = [files EXCEPT ![Len(files)] = f]
  PROVE  /\ files' \in Seq(Seq(S)) /\ files' # <<>> /\ Len(files)' = Len(files) /\ ActiveFile' = f
         /\ \A n \in 1..Len(files) : n # Len(files) => files'[n] = files[n] /\ Entries(n)' = Entries(n)
         /\ \A n : n = Len(files) => files'[n] = f /\ Entries(n)' = {f[p] : p \in 1..Len(f)}
<1>1. Len(files) \in Nat \ {0} /\ Len(files) \in 1..Len(files)
  BY EntriesMeans
<1>2. files \in Seq(Seq(S)) /\ files # <<>>
  <2>1. Seq(1..Len(ops)) \subseteq Seq(S)
    BY SeqMonotonic, Zenon
  <2>2. Seq(Seq(1..Len(ops))) \subseteq Seq(Seq(S))
    BY <2>1, SeqMonotonic, Zenon
  <2> QED
    BY <2>2, Zenon DEF FilesShape
<1>3. /\ files' \in Seq(Seq(S)) /\ Len(files') = Len(files) /\ files'[Len(files)] = f
      /\ \A n \in 1..Len(files) : n # Len(files) => files'[n] = files[n]
  <2> DEFINE G == Seq(S)
             m == Len(files)
             r == [files EXCEPT ![m] = f]
  <2>1. files \in Seq(G) /\ m \in 1..Len(files) /\ f \in G
    BY <1>1, <1>2, Zenon
  <2> HIDE DEF G, m
  <2>2. r \in Seq(G) /\ Len(r) = Len(files) /\ r[m] = f /\ \A n \in 1..Len(files) : n # m => r[n] = files[n]
    BY <2>1
  <2> QED
    BY <2>2, Zenon DEF G, m
<1>4. files' # <<>>
  <2>1. Len(<<>>) = 0
    OBVIOUS
  <2>2. Len(files') # 0
    <3>1. Len(files') = Len(files)
      BY <1>3, Zenon
    <3> QED
      BY <1>1, <3>1
  <2> QED
    BY <2>1, <2>2, Zenon
<1>5. ActiveFile' = f
  BY <1>3, Zenon DEF ActiveFile
<1>6. \A n \in 1..Len(files) : n # Len(files) => Entries(n)' = Entries(n)
  BY <1>3, Zenon DEF Entries
<1>7. \A n : n = Len(files) => Entries(n)' = {f[p] : p \in 1..Len(f)}
  BY <1>3, Zenon DEF Entries
<1> QED
  BY <1>3, <1>4, <1>5, <1>6, <1>7, Zenon

\* A new operation goes to the end of the active journal.
LEMMA EntryAdded ==
  ASSUME IInv, NEW kind \in {"write", "clear", "ingest"}, NEW kss \in (SUBSET Keyspace) \ {{}},
         Issue(kind, kss), NEW x, x = Len(ops) + 1, NEW p \in BOOLEAN, kind = "clear" => p,
         Journal(x, p), items' = items
  PROVE  /\ FilesShape' /\ FilesOrdered' /\ Len(files)' = Len(files)
         /\ Journaled' = Journaled \cup {x}
         /\ \A n \in 1..Len(items) : Entries(n)' = Entries(n)
         /\ p => durable' = Len(ActiveFile)'
<1> DEFINE L == Len(files)
           g == ActiveFile
           f == Append(g, x)
           S == 1..Len(ops')
<1>1. OpsShape /\ FilesShape /\ FilesOrdered /\ Phases
  BY Zenon DEF IInv, Shape
<1>2. /\ phase = "up" /\ log' = log \cup {x} /\ S = 1..Len(ops) \cup {x}
      /\ \A i \in 1..Len(ops) : i < x /\ ~(x < i) /\ ops'[i] = ops[i]
      /\ ops'[x].kind = kind
  BY <1>1, NewOp
<1>3. files' = [files EXCEPT ![L] = f] /\ durable' = IF p THEN Len(g) + 1 ELSE durable
  BY Zenon DEF Journal, ActiveFile
<1>4. L \in Nat \ {0} /\ g = files[L] /\ L \in 1..L
  BY <1>1, EntriesMeans
<1>5. g \in Seq(1..Len(ops)) /\ Len(g) \in Nat
  BY <1>1, <1>4, EntriesMeans, Zenon
<1>6. /\ f \in Seq(S) /\ Len(f) = Len(g) + 1 /\ f[Len(g) + 1] = x
      /\ \A q \in 1..Len(g) : f[q] = g[q]
  <2>1. 1..Len(ops) \subseteq S /\ x \in S
    BY <1>2, Zenon
  <2>2. g \in Seq(S)
    BY <1>5, <2>1, SeqMonotonic, Zenon
  <2> HIDE DEF S, g
  <2> QED
    BY <2>1, <2>2
<1>7. 1..Len(f) = 1..Len(g) \cup {Len(g) + 1}
  BY <1>5, <1>6
<1>8. /\ files' \in Seq(Seq(S)) /\ files' # <<>> /\ Len(files)' = L /\ ActiveFile' = f
      /\ \A n \in 1..L : n # L => files'[n] = files[n] /\ Entries(n)' = Entries(n)
      /\ \A n : n = L => files'[n] = f /\ Entries(n)' = {f[q] : q \in 1..Len(f)}
  <2>1. 1..Len(ops) \subseteq S
    BY <1>2, Zenon
  <2> HIDE DEF S, f
  <2> QED
    BY <1>1, <1>3, <1>6, <2>1, FileReplaced, Zenon
<1>9. \A n : n = L => Entries(n)' = Entries(n) \cup {x}
  <2>1. Entries(L) = {g[q] : q \in 1..Len(g)}
    BY <1>4, Zenon DEF Entries
  <2>2. {f[q] : q \in 1..Len(f)} = {g[q] : q \in 1..Len(g)} \cup {x}
    <3> HIDE DEF f, g
    <3> QED
      BY <1>6, <1>7
  <2> QED
    BY <1>8, <2>1, <2>2, Zenon
<1> HIDE DEF L, g, f, S
<1>10. \A n \in 1..L : Entries(n) \subseteq Entries(n)' /\ Entries(n)' \subseteq Entries(n) \cup {x}
                      /\ (x \in Entries(n)' => n = L \/ x \in Entries(n))
  BY <1>8, <1>9
<1>11. Journaled' = Journaled \cup {x}
  <2>1. \A i : i \in Journaled' <=> \E n \in 1..L : i \in Entries(n)'
    BY <1>8, Zenon DEF Journaled
  <2>2. \A i : i \in Journaled <=> \E n \in 1..L : i \in Entries(n)
    BY Zenon DEF Journaled, L
  <2>3. \E n \in 1..L : x \in Entries(n)'
    BY <1>4, <1>9
  <2> QED
    BY <1>10, <2>1, <2>2, <2>3
<1>12. \A n \in 1..L : x \notin Entries(n) /\ \A i \in Entries(n) : i \in 1..Len(ops)
  <2>1. x \notin 1..Len(ops)
    BY <1>1, OpFields
  <2> QED
    BY <1>1, <2>1, EntriesMeans, Zenon DEF L
<1>13. FilesShape'
  <2>1. durable' \in 0..Len(ActiveFile')
    <3>1. durable \in 0..Len(g)
      BY <1>1, Zenon DEF FilesShape, g
    <3> QED
      BY <1>3, <1>5, <1>6, <1>8, <3>1
  <2> QED
    BY <1>1, <1>8, <2>1, Zenon DEF FilesShape, S
<1>14. \A m, n \in 1..L : m < n => \A i \in Entries(m)', j \in Entries(n)' : i < j
  <2> SUFFICES ASSUME NEW m \in 1..L, NEW n \in 1..L, m < n, NEW i \in Entries(m)', NEW j \in Entries(n)'
               PROVE  i < j
    BY Zenon
  <2>1. m # L
    BY <1>4
  <2>2. i \in Entries(m) /\ i < x
    BY <1>2, <1>8, <1>12, <2>1, Zenon
  <2>3. j \in Entries(n) \/ j = x
    BY <1>10, Zenon
  <2> QED
    BY <1>1, <2>2, <2>3, Zenon DEF FilesOrdered, L
<1>15. \A n \in 1..L : \A q, r \in 1..Len(files'[n]) : q < r => files'[n][q] < files'[n][r]
  <2>1. \A q, r \in 1..Len(g) : q < r => g[q] < g[r]
    BY <1>1, <1>4, Zenon DEF FilesOrdered, L
  <2>2. \A q \in 1..Len(g) : g[q] < x
    BY <1>2, <1>5
  <2>3. \A q \in 1..Len(f) : ~(Len(g) + 1 < q)
    BY <1>5, <1>7
  <2>4. ASSUME NEW q \in 1..Len(f), NEW r \in 1..Len(f), q < r PROVE f[q] < f[r]
    <3>1. q \in 1..Len(g)
      BY <1>7, <2>3, <2>4, Zenon
    <3> QED
      BY <1>6, <1>7, <2>1, <2>2, <2>4, <3>1, Zenon
  <2> QED
    BY <1>1, <1>8, <2>4, Zenon DEF FilesOrdered, L
<1>16. \A q \in 1..Len(f) : ops'[f[q]].kind = "clear" => q <= durable'
  <2>1. durable \in 0..Len(g)
    BY <1>1, Zenon DEF FilesShape, g
  <2>2. durable <= durable' /\ durable' \in Nat /\ (p => durable' = Len(g) + 1)
    BY <1>3, <1>5, <2>1
  <2>3. ASSUME NEW q \in 1..Len(g), ops'[f[q]].kind = "clear" PROVE q <= durable'
    <3>1. f[q] = g[q] /\ ops'[g[q]] = ops[g[q]]
      <4>1. g[q] \in 1..Len(ops)
        BY <1>5
      <4> QED
        BY <1>2, <1>6, <4>1, Zenon
    <3>2. q <= durable
      BY <1>1, <2>3, <3>1, Zenon DEF FilesOrdered, g
    <3> QED
      BY <2>1, <2>2, <3>2, <1>5
  <2>4. ASSUME ops'[f[Len(g) + 1]].kind = "clear" PROVE Len(g) + 1 <= durable'
    <3>1. p
      BY <1>2, <1>6, <2>4, Zenon
    <3> QED
      BY <1>5, <2>2, <3>1
  <2> QED
    BY <1>7, <2>3, <2>4, Zenon
<1>17. FilesOrdered'
  <2>1. Journaled' \subseteq log'
    BY <1>1, <1>2, <1>11, Zenon DEF FilesOrdered
  <2> QED
    BY <1>8, <1>14, <1>15, <1>16, <2>1, Zenon DEF FilesOrdered
<1>18. \A n \in 1..Len(items) : Entries(n)' = Entries(n)
  <2>1. L = Len(items) + 1 /\ Len(items) \in Nat
    BY <1>1, <1>2 DEF Phases, FilesShape, L
  <2>2. \A n \in 1..Len(items) : n \in 1..L /\ n # L
    BY <2>1
  <2> QED
    BY <1>8, <2>2, Zenon
<1>19. p => durable' = Len(ActiveFile)'
  BY <1>3, <1>6, <1>8, Zenon
<1> QED
  BY <1>8, <1>11, <1>13, <1>17, <1>18, <1>19, Zenon DEF L

\* A write or batch is journaled and applied to all its keyspaces.
LEMMA WriteInv ==
  ASSUME IInv, NEW kss \in (SUBSET Keyspace) \ {{}}, NEW p \in workload.persisted, Write(kss, p)
  PROVE  IInv'
<1>1. /\ Issue("write", kss) /\ Quiet /\ Journal(Len(ops) + 1, p) /\ UNCHANGED <<sealed, tables>>
      /\ active' = [k \in Keyspace |-> IF k \in kss THEN active[k] \cup {Len(ops) + 1} ELSE active[k]]
  BY Zenon DEF Write
<1>2. PICK x : x = Len(ops) + 1
  OBVIOUS
<1>3. OpsShape /\ TreesShape /\ RunShape /\ OnlyAlive /\ Layered
  BY Zenon DEF IInv, Shape
<1>4. p \in BOOLEAN
  <2>1. workload \in [persisted : SUBSET BOOLEAN, clears : BOOLEAN, ingests : BOOLEAN, workers : Nat, crashes : Nat]
    BY <1>3, WorkloadsAssumption, Zenon DEF RunShape
  <2>2. workload.persisted \in SUBSET BOOLEAN
    BY <2>1, Zenon
  <2> QED
    BY <2>2, Zenon
<1>5. "write" # "clear" /\ "write" # "ingest" /\ "write" \in {"write", "clear", "ingest"}
  OBVIOUS
<1>6. /\ phase = "up" /\ 1..Len(ops') = 1..Len(ops) \cup {x} /\ x \notin 1..Len(ops)
      /\ \A i \in 1..Len(ops) : ~(x < i)
      /\ \A k : \A i \in 1..Len(ops) : Alive(i, k)' <=> Alive(i, k)
      /\ \A k : Alive(x, k)' <=> k \in kss
  BY <1>1, <1>2, <1>3, <1>5, NewOp
<1>7. UNCHANGED <<items, workload, crashes, phase>>
  BY <1>1, Zenon DEF Quiet
<1>8. /\ FilesShape' /\ FilesOrdered' /\ Len(files)' = Len(files)
      /\ Journaled' = Journaled \cup {x}
      /\ \A n \in 1..Len(items) : Entries(n)' = Entries(n)
      /\ p => durable' = Len(ActiveFile)'
  <2>1. Journal(x, p) /\ ("write" = "clear" => p)
    BY <1>1, <1>2, <1>5, Zenon
  <2> QED
    BY <1>1, <1>2, <1>4, <1>5, <1>7, <2>1, EntryAdded
<1>9. \A k \in Keyspace : /\ k \in kss => active'[k] = active[k] \cup {x}
                          /\ k \notin kss => active'[k] = active[k]
  BY <1>1, <1>2, Zenon
<1>10. TreesShape'
  <2>1. \A k \in Keyspace : active'[k] \in SUBSET (1..Len(ops'))
    <3>1. \A k \in Keyspace : active[k] \in SUBSET (1..Len(ops))
      BY <1>3, Zenon DEF TreesShape
    <3> QED
      BY <1>6, <1>9, <3>1
  <2>2. DOMAIN active' = Keyspace /\ active' = [k \in Keyspace |-> active'[k]]
    BY <1>1, Zenon
  <2>3. active' \in [Keyspace -> SUBSET (1..Len(ops'))]
    BY <2>1, <2>2, Zenon
  <2>4. SUBSET (1..Len(ops)) \subseteq SUBSET (1..Len(ops'))
    BY <1>6, Zenon
  <2>5. tables' \in [Keyspace -> SUBSET (1..Len(ops'))] /\ sealed' \in [Keyspace -> SUBSET (1..Len(ops'))]
    BY <1>1, <1>3, <2>4 DEF TreesShape
  <2> QED
    BY <2>3, <2>5, Zenon DEF TreesShape
<1>11. \A k \in Keyspace : Contents(k) \subseteq 1..Len(ops) /\ \A i \in Contents(k) : Alive(i, k)
  BY <1>3, <1>6, Zenon DEF TreesShape, Contents, OnlyAlive
<1>12. \A k \in Keyspace : /\ k \in kss => Contents(k)' = Contents(k) \cup {x}
                           /\ k \notin kss => Contents(k)' = Contents(k)
  BY <1>1, <1>9 DEF Contents
<1>13. \A k \in Keyspace :
            /\ Contents(k)' \subseteq Contents(k) \cup {x}
            /\ \A i \in Contents(k)' : Alive(i, k)'
            /\ \A i \in Contents(k) : Alive(i, k)' => i \in Contents(k)'
            /\ \A i \in tables[k] : Alive(i, k)' => i \in tables'[k]
            /\ Alive(x, k)' => x \in Contents(k)' /\ (x \in tables'[k] \/ x \in Journaled')
  <2> SUFFICES ASSUME NEW k \in Keyspace
               PROVE  /\ Contents(k)' \subseteq Contents(k) \cup {x}
                      /\ \A i \in Contents(k)' : Alive(i, k)'
                      /\ \A i \in Contents(k) : Alive(i, k)' => i \in Contents(k)'
                      /\ Alive(x, k)' => x \in Contents(k)'
    BY <1>1, <1>8, Zenon
  <2>1. CASE k \in kss
    BY <1>6, <1>11, <1>12, <2>1, Zenon
  <2>2. CASE k \notin kss
    BY <1>6, <1>11, <1>12, <2>2, Zenon
  <2> QED
    BY <2>1, <2>2, Zenon
<1>14. Layered'
  <2> SUFFICES ASSUME ~Final, NEW k \in Keyspace, NEW i \in Journaled', Alive(i, k)'
               PROVE  /\ \A j \in tables[k] : i < j => i \in tables[k]
                      /\ \A j \in sealed[k] : i < j => i \in tables[k] \cup sealed[k]
    BY <1>1, <1>7, Zenon DEF Layered, Final
  <2>1. \A j \in tables[k] \cup sealed[k] : ~(x < j)
    BY <1>3, <1>6, Zenon DEF TreesShape
  <2>2. CASE i = x
    BY <2>1, <2>2, Zenon
  <2>3. CASE i \in Journaled
    <3>1. Journaled \subseteq 1..Len(ops)
      BY Zenon DEF IInv, FilesOrdered, Shape, OpsShape
    <3>2. Alive(i, k)
      BY <1>6, <2>3, <3>1, Zenon
    <3> QED
      BY <1>3, <1>6, <2>3, <3>2, Zenon DEF Layered
  <2> QED
    BY <1>8, <2>2, <2>3, Zenon
<1>15. workload.persisted = {TRUE} => durable' = Len(ActiveFile)'
  <2>1. workload.persisted = {TRUE} => p = TRUE
    BY Zenon
  <2> QED
    BY <1>8, <2>1, Zenon
<1> QED
  BY <1>1, <1>2, <1>5, <1>8, <1>10, <1>13, <1>14, <1>15, IssueStep, Zenon

\* A clear is journaled, persisted, and empties its keyspace.
LEMMA ClearInv ==
  ASSUME IInv, workload.clears, NEW k \in Keyspace, Clear(k) PROVE IInv'
<1>1. /\ Issue("clear", {k}) /\ Quiet /\ Journal(Len(ops) + 1, TRUE)
      /\ active' = [active EXCEPT ![k] = {}] /\ sealed' = [sealed EXCEPT ![k] = {}]
      /\ tables' = [tables EXCEPT ![k] = {}]
  BY Zenon DEF Clear
<1>2. PICK x : x = Len(ops) + 1
  OBVIOUS
<1>3. OpsShape /\ TreesShape /\ OnlyAlive /\ Layered
  BY Zenon DEF IInv, Shape
<1>4. "clear" # "ingest" /\ "clear" \in {"write", "clear", "ingest"} /\ {k} \in (SUBSET Keyspace) \ {{}}
  OBVIOUS
<1>5. /\ phase = "up" /\ 1..Len(ops') = 1..Len(ops) \cup {x} /\ x \notin 1..Len(ops)
      /\ \A i \in 1..Len(ops) : ~(x < i)
      /\ \A l : \A i \in 1..Len(ops) : Alive(i, l)' <=> Alive(i, l) /\ l # k
      /\ \A l : ~Alive(x, l)'
  BY <1>1, <1>2, <1>3, <1>4, NewOp, SMTT(30)
<1>6. UNCHANGED <<items, workload, crashes, phase>>
  BY <1>1, Zenon DEF Quiet
<1>7. /\ FilesShape' /\ FilesOrdered' /\ Len(files)' = Len(files)
      /\ Journaled' = Journaled \cup {x}
      /\ \A n \in 1..Len(items) : Entries(n)' = Entries(n)
      /\ durable' = Len(ActiveFile)'
  BY <1>1, <1>2, <1>4, <1>6, EntryAdded, Zenon
<1>8. /\ active'[k] = {} /\ sealed'[k] = {} /\ tables'[k] = {}
      /\ \A l \in Keyspace \ {k} : active'[l] = active[l] /\ sealed'[l] = sealed[l] /\ tables'[l] = tables[l]
  BY <1>1, <1>3, Zenon DEF TreesShape
<1>9. TreesShape'
  <2>1. SUBSET (1..Len(ops)) \subseteq SUBSET (1..Len(ops')) /\ {} \in SUBSET (1..Len(ops'))
    BY <1>5, Zenon
  <2> DEFINE S == SUBSET (1..Len(ops))
             T == SUBSET (1..Len(ops'))
  <2>2. active \in [Keyspace -> S] /\ sealed \in [Keyspace -> S] /\ tables \in [Keyspace -> S] /\ S \subseteq T /\ {} \in T
    BY <1>3, <2>1, Zenon DEF TreesShape
  <2> HIDE DEF S, T
  <2>3. active' \in [Keyspace -> T] /\ sealed' \in [Keyspace -> T] /\ tables' \in [Keyspace -> T]
    BY <1>1, <2>2
  <2> QED
    BY <2>3, Zenon DEF TreesShape, T
<1>10. \A l \in Keyspace : Contents(l) \subseteq 1..Len(ops) /\ \A i \in Contents(l) : Alive(i, l)
  BY <1>3, <1>5, Zenon DEF TreesShape, Contents, OnlyAlive
<1>11. Contents(k)' = {} /\ \A l \in Keyspace \ {k} : Contents(l)' = Contents(l)
  <2>1. Contents(k)' = {}
    BY <1>8 DEF Contents
  <2> QED
    BY <1>8, <2>1, Zenon DEF Contents
<1>12. \A l \in Keyspace :
            /\ Contents(l)' \subseteq Contents(l) \cup {x}
            /\ \A i \in Contents(l)' : Alive(i, l)'
            /\ \A i \in Contents(l) : Alive(i, l)' => i \in Contents(l)'
            /\ \A i \in tables[l] : Alive(i, l)' => i \in tables'[l]
            /\ Alive(x, l)' => x \in Contents(l)' /\ (x \in tables'[l] \/ x \in Journaled')
  <2> SUFFICES ASSUME NEW l \in Keyspace
               PROVE  /\ Contents(l)' \subseteq Contents(l) \cup {x}
                      /\ \A i \in Contents(l)' : Alive(i, l)'
                      /\ \A i \in Contents(l) : Alive(i, l)' => i \in Contents(l)'
                      /\ \A i \in tables[l] : Alive(i, l)' => i \in tables'[l]
    BY <1>5, Zenon
  <2>1. tables[l] \subseteq Contents(l)
    BY Zenon DEF Contents
  <2>2. CASE l = k
    BY <1>5, <1>10, <1>11, <2>1, <2>2, Zenon
  <2>3. CASE l # k
    BY <1>5, <1>8, <1>10, <1>11, <2>3, Zenon
  <2> QED
    BY <2>2, <2>3, Zenon
<1>13. Layered'
  <2> SUFFICES ASSUME ~Final, NEW l \in Keyspace, NEW i \in Journaled', Alive(i, l)'
               PROVE  /\ \A j \in tables'[l] : i < j => i \in tables'[l]
                      /\ \A j \in sealed'[l] : i < j => i \in tables'[l] \cup sealed'[l]
    BY <1>6, Zenon DEF Layered, Final
  <2>1. Journaled \subseteq 1..Len(ops)
    BY Zenon DEF IInv, FilesOrdered, Shape, OpsShape
  <2>2. i \in Journaled
    BY <1>5, <1>7, Zenon
  <2>3. Alive(i, l) /\ l # k
    BY <1>5, <2>1, <2>2, Zenon
  <2> QED
    BY <1>3, <1>5, <1>8, <2>2, <2>3, Zenon DEF Layered
<1> QED
  BY <1>1, <1>2, <1>4, <1>7, <1>9, <1>12, <1>13, IssueStep, Zenon

\* An ingestion flushes the memtables before its tables are registered; it is not
\* journaled, which a workload without clears never notices.
LEMMA IngestInv ==
  ASSUME ClearsApart, IInv, workload.ingests, NEW k \in Keyspace, Ingest(k) PROVE IInv'
<1>1. /\ Issue("ingest", {k}) /\ Quiet /\ UNCHANGED journal
      /\ tables' = [tables EXCEPT ![k] = @ \cup active[k] \cup sealed[k] \cup {Len(ops) + 1}]
      /\ active' = [active EXCEPT ![k] = {}] /\ sealed' = [sealed EXCEPT ![k] = {}]
  BY Zenon DEF Ingest
<1>2. PICK x : x = Len(ops) + 1
  OBVIOUS
<1>3. OpsShape /\ TreesShape /\ FilesShape /\ FilesOrdered /\ RunShape /\ OnlyAlive /\ Layered /\ AllPersisted
  BY Zenon DEF IInv, Shape
<1>4. /\ "ingest" # "clear" /\ "ingest" \in {"write", "clear", "ingest"} /\ {k} \in (SUBSET Keyspace) \ {{}}
      /\ ~workload.clears
  BY <1>3 DEF ClearsApart, RunShape
<1>5. /\ phase = "up" /\ log' = log \cup {x} /\ 1..Len(ops') = 1..Len(ops) \cup {x} /\ x \notin 1..Len(ops)
      /\ \A i \in 1..Len(ops) : ops'[i] = ops[i]
      /\ \A l : \A i \in 1..Len(ops) : Alive(i, l)' <=> Alive(i, l)
      /\ \A l : Alive(x, l)' <=> l = k
  BY <1>1, <1>2, <1>3, <1>4, NewOp, SMTT(30)
<1>6. UNCHANGED <<items, workload, crashes, phase, files, durable>>
  BY <1>1, Zenon DEF Quiet, journal
<1>7. Journaled' = Journaled /\ (\A n : Entries(n)' = Entries(n)) /\ ActiveFile' = ActiveFile
  BY <1>6, SameFiles, Zenon DEF ActiveFile
<1>8. FilesShape'
  <2>1. Seq(1..Len(ops)) \subseteq Seq(1..Len(ops'))
    BY <1>5, SeqMonotonic, Zenon
  <2>2. Seq(Seq(1..Len(ops))) \subseteq Seq(Seq(1..Len(ops')))
    <3> DEFINE S == Seq(1..Len(ops))
               T == Seq(1..Len(ops'))
    <3>1. S \subseteq T
      BY <2>1
    <3> HIDE DEF S, T
    <3>2. Seq(S) \subseteq Seq(T)
      BY <3>1, SeqMonotonic, Zenon
    <3> QED
      BY <3>2 DEF S, T
  <2> QED
    BY <1>3, <1>6, <1>7, <2>2, Zenon DEF FilesShape
<1>9. FilesOrdered'
  <2>1. \A p \in 1..Len(ActiveFile) : ActiveFile[p] \in 1..Len(ops)
    <3>1. Len(files) \in 1..Len(files) /\ ActiveFile = files[Len(files)]
      BY <1>3, EntriesMeans
    <3>2. ActiveFile \in Seq(1..Len(ops))
      BY <1>3, <3>1, EntriesMeans, Zenon
    <3> QED
      BY <3>2
  <2> QED
    BY <1>3, <1>5, <1>6, <1>7, <2>1, Zenon DEF FilesOrdered
<1>10. /\ tables'[k] = tables[k] \cup active[k] \cup sealed[k] \cup {x} /\ active'[k] = {} /\ sealed'[k] = {}
       /\ \A l \in Keyspace \ {k} : active'[l] = active[l] /\ sealed'[l] = sealed[l] /\ tables'[l] = tables[l]
  BY <1>1, <1>2, <1>3, Zenon DEF TreesShape
<1>11. TreesShape'
  <2> DEFINE S == SUBSET (1..Len(ops))
             T == SUBSET (1..Len(ops'))
             t == tables[k] \cup active[k] \cup sealed[k] \cup {x}
  <2>1. S \subseteq T /\ {} \in T /\ x \in 1..Len(ops')
    BY <1>5, Zenon
  <2>2. active \in [Keyspace -> S] /\ sealed \in [Keyspace -> S] /\ tables \in [Keyspace -> S]
    BY <1>3, Zenon DEF TreesShape
  <2>3. t \in T
    <3>1. active[k] \in T /\ sealed[k] \in T /\ tables[k] \in T
      <4> HIDE DEF S, T
      <4> QED
        BY <2>1, <2>2
    <3> QED
      BY <2>1, <3>1, Zenon
  <2>4. tables' = [tables EXCEPT ![k] = t]
    BY <1>1, <1>2, Zenon
  <2> HIDE DEF S, T, t
  <2>5. active' \in [Keyspace -> T] /\ sealed' \in [Keyspace -> T] /\ tables' \in [Keyspace -> T]
    BY <1>1, <2>1, <2>2, <2>3, <2>4
  <2> QED
    BY <2>5, Zenon DEF TreesShape, T
<1>12. \A l \in Keyspace : Contents(l) \subseteq 1..Len(ops) /\ \A i \in Contents(l) : Alive(i, l)
  BY <1>3, <1>5, Zenon DEF TreesShape, Contents, OnlyAlive
<1>13. Contents(k)' = Contents(k) \cup {x} /\ \A l \in Keyspace \ {k} : Contents(l)' = Contents(l)
  <2>1. Contents(k)' = Contents(k) \cup {x}
    BY <1>10 DEF Contents
  <2> QED
    BY <1>10, <2>1, Zenon DEF Contents
<1>14. \A l \in Keyspace :
            /\ Contents(l)' \subseteq Contents(l) \cup {x}
            /\ \A i \in Contents(l)' : Alive(i, l)'
            /\ \A i \in Contents(l) : Alive(i, l)' => i \in Contents(l)'
            /\ \A i \in tables[l] : Alive(i, l)' => i \in tables'[l]
            /\ Alive(x, l)' => x \in Contents(l)' /\ (x \in tables'[l] \/ x \in Journaled')
  <2> SUFFICES ASSUME NEW l \in Keyspace
               PROVE  /\ Contents(l)' \subseteq Contents(l) \cup {x}
                      /\ \A i \in Contents(l)' : Alive(i, l)'
                      /\ \A i \in Contents(l) : i \in Contents(l)'
                      /\ \A i \in tables[l] : i \in tables'[l]
                      /\ Alive(x, l)' => x \in Contents(l)' /\ x \in tables'[l]
    BY Zenon
  <2>1. CASE l = k
    BY <1>5, <1>10, <1>12, <1>13, <2>1, Zenon
  <2>2. CASE l # k
    BY <1>5, <1>10, <1>12, <1>13, <2>2, Zenon
  <2> QED
    BY <2>1, <2>2, Zenon
<1>15. Layered'
  <2> SUFFICES ASSUME ~Final, NEW l \in Keyspace, NEW i \in Journaled, Alive(i, l)'
               PROVE  /\ \A j \in tables'[l] : i < j => i \in tables'[l]
                      /\ \A j \in sealed'[l] : i < j => i \in tables'[l] \cup sealed'[l]
    BY <1>6, <1>7, Zenon DEF Layered, Final
  <2>1. Journaled \subseteq 1..Len(ops)
    BY Zenon DEF IInv, FilesOrdered, Shape, OpsShape
  <2>2. Alive(i, l)
    BY <1>5, <2>1, Zenon
  <2>3. CASE l = k
    <3>1. i \in Contents(k)
      BY <1>5, <2>2, <2>3, JournaledKept, Zenon
    <3>2. i \in tables'[k]
      BY <1>10, <3>1, Zenon DEF Contents
    <3> QED
      BY <2>3, <3>2, Zenon
  <2>4. CASE l # k
    BY <1>3, <1>5, <1>10, <2>2, <2>4, Zenon DEF Layered
  <2> QED
    BY <2>3, <2>4, Zenon
<1>16. workload.persisted = {TRUE} => durable' = Len(ActiveFile)'
  BY <1>3, <1>6, <1>7, Zenon DEF AllPersisted
<1> QED
  BY <1>1, <1>2, <1>4, <1>6, <1>7, <1>8, <1>9, <1>11, <1>14, <1>15, <1>16, IssueStep

-----------------------------------------------------------------------------
\* A crash and the steps of recovery keep the invariant too; what follows from it.

\* A crash cuts off the end of the active journal, behind what was persisted.
LEMMA FileCut ==
  ASSUME FilesShape, FilesOrdered, NEW n \in durable..Len(ActiveFile), NEW cut,
         cut = {ActiveFile[p] : p \in (n + 1)..Len(ActiveFile)},
         NEW f, f = SubSeq(ActiveFile, 1, n), files' = [files EXCEPT ![Len(files)] = f], durable' = n
  PROVE  /\ files' \in Seq(Seq(1..Len(ops))) /\ files' # <<>> /\ Len(files)' = Len(files)
         /\ n \in 0..Len(ActiveFile') /\ Len(ActiveFile') = n
         /\ \A m \in 1..Len(files) : Entries(m)' \subseteq Entries(m)
         /\ \A i : i \in Journaled' <=> i \in Journaled /\ i \notin cut
         /\ \A i \in cut : ops[i].kind # "clear"
         /\ \A m \in 1..Len(files) : \A p, q \in 1..Len(files'[m]) : p < q => files'[m][p] < files'[m][q]
         /\ \A p \in 1..Len(ActiveFile') : ops[ActiveFile'[p]].kind = "clear" => p <= n
         /\ n = Len(ActiveFile) => cut = {}
<1> DEFINE L == Len(files)
           g == ActiveFile
           S == 1..Len(ops)
<1>1. L \in Nat \ {0} /\ g = files[L] /\ L \in 1..L
  BY EntriesMeans
<1>2. g \in Seq(S) /\ Len(g) \in Nat /\ durable \in 0..Len(g) /\ n \in 0..Len(g)
  <2>1. g \in Seq(S) /\ Len(g) \in Nat
    BY <1>1, EntriesMeans, Zenon
  <2>2. durable \in 0..Len(g)
    BY Zenon DEF FilesShape
  <2> QED
    BY <2>1, <2>2
<1>3. f = SubSeq(g, 1, n)
  BY Zenon
<1>4. f \in Seq(S) /\ Len(f) = n /\ \A p \in 1..n : f[p] = g[p]
  <2> HIDE DEF S, g
  <2> QED
    BY <1>2, <1>3
<1>5. /\ files' \in Seq(Seq(S)) /\ files' # <<>> /\ Len(files)' = L /\ ActiveFile' = f
      /\ \A m \in 1..L : m # L => files'[m] = files[m] /\ Entries(m)' = Entries(m)
      /\ \A m : m = L => files'[m] = f /\ Entries(m)' = {f[p] : p \in 1..Len(f)}
  <2>1. 1..Len(ops) \subseteq S
    BY Zenon
  <2> HIDE DEF S
  <2> QED
    BY <1>4, <2>1, FileReplaced, ZenonT(30)
<1> HIDE DEF L, g, S
<1>6. \A p \in 1..Len(g) : p \in 1..n \/ p \in (n + 1)..Len(g)
  BY <1>2
<1>7. \A p \in 1..n : p \in 1..Len(g) /\ p <= n
  BY <1>2
<1>8. \A p \in (n + 1)..Len(g) : p \in 1..Len(g) /\ ~(p <= n) /\ ~(p <= durable) /\ \A q \in 1..n : q < p
  BY <1>2
<1>9. \A p, q \in 1..Len(g) : p < q => g[p] < g[q]
  BY <1>1, Zenon DEF FilesOrdered, L
<1>10. \A p \in 1..Len(g) : g[p] \in Nat
  BY <1>2 DEF S
<1>11. cut = {g[p] : p \in (n + 1)..Len(g)}
  BY Zenon DEF g
<1>12. \A m : m = L => Entries(m) = {g[p] : p \in 1..Len(g)} /\ Entries(m)' = {g[p] : p \in 1..n}
  <2>1. {f[p] : p \in 1..Len(f)} = {g[p] : p \in 1..n}
    BY <1>4, Zenon
  <2>2. \A m : m = L => Entries(m) = {g[p] : p \in 1..Len(g)}
    BY <1>1, Zenon DEF Entries
  <2> QED
    BY <1>5, <2>1, <2>2, Zenon
<1>13. \A m \in 1..L : Entries(m)' \subseteq Entries(m)
  <2>1. {g[p] : p \in 1..n} \subseteq {g[p] : p \in 1..Len(g)}
    BY <1>7, Zenon
  <2> QED
    BY <1>5, <1>12, <2>1
<1>14. \A m \in 1..L : \A i \in Entries(m) : i \notin cut => i \in Entries(m)'
  <2>1. \A i \in {g[p] : p \in 1..Len(g)} : i \notin cut => i \in {g[p] : p \in 1..n}
    BY <1>6, <1>11, Zenon
  <2> QED
    BY <1>5, <1>12, <2>1, ZenonT(30)
<1>15. \A m \in 1..L : \A i \in Entries(m)' : i \notin cut
  <2>1. ASSUME NEW m \in 1..L, NEW i \in Entries(m)', i \in cut PROVE FALSE
    <3>1. PICK q \in (n + 1)..Len(g) : i = g[q]
      BY <1>11, <2>1, Zenon
    <3>2. q \in 1..Len(g)
      BY <1>8, Zenon
    <3>3. CASE m = L
      <4>1. PICK p \in 1..n : i = g[p]
        BY <1>12, <3>3, <2>1
      <4>2. p < q /\ p \in 1..Len(g)
        BY <1>7, <1>8, Zenon
      <4>3. g[p] < g[q] /\ g[p] \in Nat
        BY <1>9, <1>10, <3>2, <4>2, Zenon
      <4> QED
        BY <3>1, <4>1, <4>3
    <3>4. CASE m # L
      <4>1. m < L
        BY <1>1, <3>4
      <4>2. i \in Entries(m) /\ g[q] \in Entries(L)
        BY <1>5, <1>12, <3>2, <3>4, <2>1, Zenon
      <4>3. i < g[q] /\ g[q] \in Nat
        BY <1>1, <1>10, <3>2, <4>1, <4>2, Zenon DEF FilesOrdered, L
      <4> QED
        BY <3>1, <4>3
    <3> QED
      BY <3>3, <3>4, Zenon
  <2> QED
    BY <2>1, Zenon
<1>16. \A i : i \in Journaled' <=> i \in Journaled /\ i \notin cut
  <2>1. \A i : i \in Journaled' <=> \E m \in 1..L : i \in Entries(m)'
    BY <1>5, Zenon DEF Journaled
  <2>2. \A i : i \in Journaled <=> \E m \in 1..L : i \in Entries(m)
    BY Zenon DEF Journaled, L
  <2> QED
    BY <1>13, <1>14, <1>15, <2>1, <2>2
<1>17. \A i \in cut : ops[i].kind # "clear"
  BY <1>8, <1>11, Zenon DEF FilesOrdered, g
<1>18. \A m \in 1..L : \A p, q \in 1..Len(files'[m]) : p < q => files'[m][p] < files'[m][q]
  <2>1. \A p, q \in 1..Len(f) : p < q => f[p] < f[q]
    BY <1>4, <1>7, <1>9, Zenon
  <2> QED
    BY <1>5, <2>1, Zenon DEF FilesOrdered, L
<1>19. n = Len(g) => cut = {}
  <2>1. n = Len(g) => (n + 1)..Len(g) = {}
    BY <1>2
  <2> QED
    BY <1>11, <2>1, Zenon
<1>20. n \in 0..Len(ActiveFile') /\ Len(ActiveFile') = n /\ \A p \in 1..Len(ActiveFile') : p <= n
  BY <1>2, <1>4, <1>5
<1> QED
  BY <1>5, <1>13, <1>16, <1>17, <1>18, <1>19, <1>20, Zenon DEF S, L, g

\* A crash takes the memtables and what was not persisted of the active journal; what
\* is left is in tables and journals (Kept).
LEMMA CrashInv == ASSUME ClearsApart, IInv, Crash PROVE IInv'
<1>1. /\ crashes < workload.crashes
      /\ active' = [k \in Keyspace |-> {}] /\ sealed' = [k \in Keyspace |-> {}] /\ tables' = tables
      /\ items' = <<>> /\ pc' = [w \in Worker |-> "idle"] /\ ks' = [w \in Worker |-> NoKeyspace]
      /\ phase' = "recovering" /\ replayed' = 0 /\ seqno' = 0 /\ crashes' = crashes + 1
      /\ ops' = ops /\ workload' = workload
  BY Zenon DEF Crash
<1>2. PICK n \in durable..Len(ActiveFile) :
         LET cut == {ActiveFile[p] : p \in (n + 1)..Len(ActiveFile)}
         IN  /\ files' = [files EXCEPT ![Len(files)] = SubSeq(@, 1, n)]
             /\ log' = log \ cut
             /\ durable' = n
  BY Zenon DEF Crash
<1>3. PICK cut : cut = {ActiveFile[p] : p \in (n + 1)..Len(ActiveFile)}
  OBVIOUS
<1>4. log' = log \ cut /\ durable' = n
  BY <1>2, <1>3, Zenon
<1>5. /\ OpsShape /\ TreesShape /\ FilesShape /\ FilesOrdered /\ RunShape /\ Kinds /\ Numbered
      /\ OnlyAlive /\ Kept /\ Layered /\ Contiguous /\ AllPersisted
  BY Zenon DEF IInv, Shape
<1>6. /\ files' \in Seq(Seq(1..Len(ops))) /\ files' # <<>> /\ Len(files)' = Len(files)
      /\ n \in 0..Len(ActiveFile') /\ Len(ActiveFile') = n
      /\ \A m \in 1..Len(files) : Entries(m)' \subseteq Entries(m)
      /\ \A i : i \in Journaled' <=> i \in Journaled /\ i \notin cut
      /\ \A i \in cut : ops[i].kind # "clear"
      /\ \A m \in 1..Len(files) : \A p, q \in 1..Len(files'[m]) : p < q => files'[m][p] < files'[m][q]
      /\ \A p \in 1..Len(ActiveFile') : ops[ActiveFile'[p]].kind = "clear" => p <= n
      /\ n = Len(ActiveFile) => cut = {}
  <2>1. PICK f : f = SubSeq(ActiveFile, 1, n)
    OBVIOUS
  <2>2. files' = [files EXCEPT ![Len(files)] = f]
    BY <1>2, <2>1, Zenon DEF ActiveFile
  <2> QED
    BY <1>3, <1>4, <1>5, <2>1, <2>2, FileCut, Zenon
<1>7. ~Final /\ ~Final'
  <2>1. workload.crashes \in Nat /\ crashes \in Nat /\ workload \in Workloads
    BY <1>5, WorkloadsAssumption DEF RunShape
  <2>2. ~Final
    BY <1>1, <2>1 DEF ClearsApart, Final
  <2> QED
    BY <1>1, <2>2 DEF Final
<1>8. phase' # "up" /\ \A k \in Keyspace : active'[k] = {} /\ sealed'[k] = {}
  BY <1>1
<1>9. \A i, k : (Alive(i, k)' <=> Alive(i, k)) /\ (Empties(i, k)' <=> Empties(i, k))
  BY <1>1, SameOps, Zenon
<1>10. OpsShape'
  <2>1. seqno' \in 0..Len(ops')
    BY <1>1, <1>5, OpFields
  <2> QED
    BY <1>1, <1>4, <1>5, <2>1, Zenon DEF OpsShape, Op
<1>11. TreesShape'
  BY <1>1, <1>5 DEF TreesShape
<1>12. FilesShape'
  BY <1>1, <1>4, <1>6 DEF FilesShape
<1>13. RunShape'
  <2>1. workload.crashes \in Nat /\ crashes \in Nat
    BY <1>5, WorkloadsAssumption DEF RunShape
  <2>2. crashes' \in Nat /\ crashes' <= workload'.crashes
    BY <1>1, <2>1
  <2>3. DOMAIN pc' = Worker /\ ks' \in [Worker -> Keyspace \cup {NoKeyspace}] /\ phase' \in {"up", "recovering"} /\ replayed' \in Nat
    BY <1>1
  <2> QED
    BY <1>1, <1>5, <2>2, <2>3, Zenon DEF RunShape
<1>14. Phases'
  <2>1. crashes' # 0 /\ Len(items') = 0 /\ 0 < Len(files')
    BY <1>1, <1>5, <1>6, EntriesMeans DEF RunShape
  <2>2. \A w \in Worker : pc'[w] = "idle" /\ pc'[w] # "flushing"
    BY <1>1
  <2> QED
    BY <1>1, <1>8, <2>1, <2>2, Zenon DEF Phases
<1>15. Kinds'
  BY <1>1, <1>4, <1>5, <1>6, Zenon DEF Kinds
<1>16. FilesOrdered'
  <2>1. \A m, l \in 1..Len(files) : m < l => \A i \in Entries(m)', j \in Entries(l)' : i < j
    BY <1>5, <1>6, Zenon DEF FilesOrdered
  <2>2. Journaled' \subseteq log'
    BY <1>4, <1>5, <1>6, Zenon DEF FilesOrdered
  <2> QED
    BY <1>1, <1>4, <1>6, <2>1, <2>2, Zenon DEF FilesOrdered
<1>17. Numbered'
  <2>1. \A i : Counted(i)' => Counted(i)
    BY <1>1, <1>6, <1>7, <1>8, Zenon DEF Counted, Contents
  <2> QED
    BY <1>1, <1>5, <1>8, <2>1, Zenon DEF Numbered
<1>18. OnlyAlive'
  BY <1>1, <1>5, <1>8, <1>9, Zenon DEF OnlyAlive
<1>19. Kept'
  BY <1>1, <1>4, <1>5, <1>6, <1>7, <1>8, <1>9, Zenon DEF Kept
<1>20. Layered'
  BY <1>1, <1>5, <1>6, <1>7, <1>8, <1>9, Zenon DEF Layered
<1>21. Watermarked' /\ Replaying'
  <2>1. 1..Len(items') = {} /\ 1..replayed' = {}
    BY <1>1
  <2>2. Watermarked'
    BY <2>1, Zenon DEF Watermarked
  <2>3. Replaying'
    BY <1>8, <2>1, Zenon DEF Replaying
  <2> QED
    BY <2>2, <2>3
<1>22. Contiguous'
  BY <1>1, <1>4, <1>5, <1>6, <1>7, Zenon DEF Contiguous
<1>23. AllPersisted'
  <2> SUFFICES ASSUME workload.persisted = {TRUE}
               PROVE  durable' = Len(ActiveFile') /\ \A k \in Keyspace : Contents(k)' \subseteq log'
    BY <1>1, Zenon DEF AllPersisted
  <2>1. durable = Len(ActiveFile) /\ \A k \in Keyspace : Contents(k) \subseteq log
    BY <1>5, Zenon DEF AllPersisted
  <2>2. n = Len(ActiveFile)
    <3>1. Len(ActiveFile) \in Int
      BY <1>5, <2>1 DEF FilesShape
    <3> QED
      BY <2>1, <3>1
  <2>3. log' = log
    BY <1>4, <1>6, <2>2
  <2>4. \A k \in Keyspace : Contents(k)' \subseteq Contents(k)
    BY <1>1, <1>8, Zenon DEF Contents
  <2> QED
    BY <1>4, <1>6, <2>1, <2>3, <2>4, Zenon
<1> QED
  BY <1>10, <1>11, <1>12, <1>13, <1>14, <1>15, <1>16, <1>17, <1>18, <1>19, <1>20, <1>21, <1>22, <1>23, Zenon DEF IInv, Shape

\* Replaying file r empties the keyspaces it clears, and what it clears was
\* dead or comes from a later place in the journals.
LEMMA ClearReplayed ==
  ASSUME IInv, ~Final, NEW r \in 1..Len(files), NEW k \in Keyspace
  PROVE  /\ \A x : Trees(files[r], x)[k] = IF k \in Cleared(files[r]) THEN {} ELSE x[k]
         /\ k \in Cleared(files[r]) => \A n \in 1..Len(files) : n < r => \A i \in Entries(n) : ~Alive(i, k)
         /\ k \in Cleared(files[r]) => \A i \in log : Alive(i, k) => i \in Journaled
<1>1. FilesShape /\ FilesOrdered /\ Kinds /\ Contiguous
  BY Zenon DEF IInv, Shape
<1>2. \A x : Trees(files[r], x)[k] = IF k \in Cleared(files[r]) THEN {} ELSE x[k]
  BY Zenon DEF Trees
<1>3. ASSUME k \in Cleared(files[r])
      PROVE  /\ \A n \in 1..Len(files) : n < r => \A i \in Entries(n) : ~Alive(i, k)
             /\ \A i \in log : Alive(i, k) => i \in Journaled
  <2>1. PICK c \in Entries(r) : Empties(c, k)
    BY <1>1, <1>3, ReplayMeans, Zenon
  <2>2. c \in 1..Len(ops) /\ c \in Journaled
    BY <1>1, EntriesMeans, Zenon
  <2>3. \A i : Alive(i, k) => c < i
    BY <2>1, <2>2, Zenon DEF Alive
  <2>4. ASSUME NEW n \in 1..Len(files), n < r, NEW i \in Entries(n), Alive(i, k) PROVE FALSE
    <3>1. i < c /\ c < i
      BY <1>1, <2>3, <2>4, Zenon DEF FilesOrdered
    <3>2. i \in 1..Len(ops)
      BY <1>1, EntriesMeans, Zenon
    <3> QED
      BY <2>2, <3>1, <3>2
  <2>5. workload.clears
    BY <1>1, <2>1, <2>2, Zenon DEF Kinds, Empties
  <2>6. \A i \in log : Alive(i, k) => i \in Journaled
    BY <1>1, <2>2, <2>3, <2>5, Zenon DEF Contiguous
  <2> QED
    BY <2>4, <2>6, Zenon
<1> QED
  BY <1>2, <1>3, Zenon

\* What a file still holds, in terms of the trees.
LEMMA LeftMeans ==
  ASSUME IInv, NEW r \in 1..Len(files), NEW k \in Keyspace
  PROVE  /\ LeftIn(files[r], k) \in SUBSET (1..Len(ops)) /\ LeftIn(files[r], k) \subseteq Entries(r)
         /\ Touching(files[r], k) \in SUBSET (1..Len(ops)) /\ LeftIn(files[r], k) \subseteq Touching(files[r], k)
         /\ \A i \in Entries(r) : Alive(i, k) => i \in LeftIn(files[r], k)
         /\ Watermarks(files[r])[k] \in -1..(Len(ops) - 1)
         /\ \A i \in Touching(files[r], k) : ops[i].seqno <= Watermarks(files[r])[k]
<1>1. OpsShape /\ FilesShape /\ FilesOrdered
  BY Zenon DEF IInv, Shape
<1>2. Entries(r) \subseteq 1..Len(ops)
  BY <1>1, EntriesMeans, Zenon
<1>3. /\ LeftIn(files[r], k) \in SUBSET (1..Len(ops)) /\ LeftIn(files[r], k) \subseteq Entries(r)
      /\ Touching(files[r], k) \in SUBSET (1..Len(ops)) /\ LeftIn(files[r], k) \subseteq Touching(files[r], k)
  BY <1>1, <1>2, ReplayMeans, Zenon
<1>4. \A i \in Entries(r) : Alive(i, k) => i \in LeftIn(files[r], k)
  BY <1>1, <1>2, ReplayMeans, Zenon DEF Alive
<1>5. Watermarks(files[r])[k] = Highest(Touching(files[r], k))
  BY Zenon DEF Watermarks
<1>6. /\ Highest(Touching(files[r], k)) \in -1..(Len(ops) - 1)
      /\ \A i \in Touching(files[r], k) : ops[i].seqno <= Highest(Touching(files[r], k))
  BY <1>1, <1>3, HighestMeans, Zenon
<1> QED
  BY <1>3, <1>4, <1>5, <1>6, Zenon

\* The last operation of a file on a keyspace that it leaves something in is left: recovery does
\* not trip over its own check.
LEMMA LeftHighest ==
  ASSUME IInv, ~Final, NEW r \in 1..Len(files), NEW k \in Keyspace, LeftIn(files[r], k) # {}
  PROVE  Highest(LeftIn(files[r], k)) = Watermarks(files[r])[k]
<1> DEFINE A == LeftIn(files[r], k)
           B == Touching(files[r], k)
<1>1. OpsShape /\ FilesShape /\ FilesOrdered /\ Numbered
  BY Zenon DEF IInv, Shape
<1>2. A \in SUBSET (1..Len(ops)) /\ A \subseteq Entries(r) /\ B \in SUBSET (1..Len(ops)) /\ A \subseteq B
  BY LeftMeans, Zenon
<1>3. Watermarks(files[r])[k] = Highest(B)
  BY Zenon DEF Watermarks
<1>4. PICK i \in A : ops[i].seqno = Highest(A)
  BY <1>1, <1>2, HighestMeans, Zenon
<1>5. PICK j \in B : ops[j].seqno = Highest(B)
  <2>1. B # {}
    BY <1>2, Zenon
  <2> QED
    BY <1>1, <1>2, <2>1, HighestMeans, Zenon
<1>6. (\A a \in A : ops[a].seqno <= Highest(A)) /\ (\A b \in B : ops[b].seqno <= Highest(B))
  BY <1>1, <1>2, HighestMeans, Zenon
<1>7. j \in A \/ j < i
  <2>1. i \in Entries(r) /\ j \in Entries(r) /\ k \in ops[j].kss
    BY <1>1, ReplayMeans, Zenon
  <2>2. \A c \in Entries(r) : Empties(c, k) => c < i
    BY <1>1, ReplayMeans, Zenon
  <2>3. CASE ops[j].kind = "clear"
    BY <2>1, <2>2, <2>3, Zenon DEF Empties
  <2>4. CASE \E c \in Entries(r) : Empties(c, k) /\ ~(c < j)
    <3>1. PICK c \in Entries(r) : Empties(c, k) /\ ~(c < j)
      BY <2>4
    <3>2. c < i
      BY <2>2, <3>1, Zenon
    <3>3. c \in Nat /\ j \in Nat /\ i \in Nat
      BY <1>1, <1>2, EntriesMeans
    <3> QED
      BY <3>1, <3>2, <3>3
  <2>5. CASE ops[j].kind # "clear" /\ \A c \in Entries(r) : Empties(c, k) => c < j
    BY <1>1, <2>1, <2>5, ReplayMeans, Zenon
  <2> QED
    BY <2>3, <2>4, <2>5, Zenon
<1>8. ops[i].seqno \in Nat /\ ops[j].seqno \in Nat
  BY <1>1, <1>2, OpFields, Zenon
<1>9. j < i => ops[j].seqno < ops[i].seqno
  <2>1. i \in Journaled /\ j \in Journaled
    BY <1>1, ReplayMeans, EntriesMeans, Zenon
  <2> QED
    BY <1>1, <1>2, <2>1, Zenon DEF Numbered, Counted
<1>10. i \in B
  BY <1>2, Zenon
<1> HIDE DEF A, B
<1>11. ops[i].seqno <= ops[j].seqno
  BY <1>5, <1>6, <1>10, Zenon
<1>12. ops[j].seqno <= ops[i].seqno
  <2>1. j \in A => ops[j].seqno <= ops[i].seqno
    BY <1>4, <1>6, Zenon
  <2> QED
    BY <1>7, <1>8, <1>9, <2>1
<1>13. Highest(A) = Highest(B)
  BY <1>4, <1>5, <1>8, <1>11, <1>12
<1> QED
  BY <1>3, <1>13, Zenon DEF A

\* One sealed journal is replayed.
LEMMA RecoverSealedInv == ASSUME IInv, RecoverSealed PROVE IInv'
<1>1. PICK r : r = replayed + 1
  OBVIOUS
<1>2. PICK f : f = files[r]
  OBVIOUS
<1>3. /\ phase = "recovering" /\ replayed < Len(files) - 1 /\ replayed' = r
      /\ tables' = Trees(f, tables)
      /\ sealed' = [k \in Keyspace |-> Trees(f, sealed)[k] \cup (IF k \in ToSeal(f) THEN LeftIn(f, k) ELSE {})]
      /\ items' = Append(items, Watermarks(f))
      /\ phase' = IF \A k \in ToSeal(f) : Highest(LeftIn(f, k)) = Watermarks(f)[k] THEN "recovering" ELSE "panicked"
      /\ seqno' = Max({seqno} \cup {Highest(tables'[k] \cup sealed'[k]) + 1 : k \in ToSeal(f)})
      /\ UNCHANGED <<ops, log, active, journal, pc, ks, crashes, workload>>
  BY <1>1, <1>2, Zenon DEF RecoverSealed, workers
<1>4. /\ OpsShape /\ TreesShape /\ FilesShape /\ FilesOrdered /\ RunShape /\ Phases /\ Kinds /\ Numbered
      /\ OnlyAlive /\ Kept /\ Layered /\ Watermarked /\ Replaying /\ Contiguous /\ AllPersisted
  BY Zenon DEF IInv, Shape
<1>5. UNCHANGED <<files, durable>> /\ ActiveFile' = ActiveFile
  BY <1>3, Zenon DEF journal, ActiveFile
<1>6. Journaled' = Journaled /\ \A n : Entries(n)' = Entries(n)
  BY <1>5, SameFiles, Zenon
<1>7. \A i, k : (Alive(i, k)' <=> Alive(i, k)) /\ (Empties(i, k)' <=> Empties(i, k))
  BY <1>3, SameOps, Zenon
<1>8. /\ replayed \in Nat /\ Len(files) \in Nat /\ r \in 1..Len(files) /\ r < Len(files)
      /\ 1..r = 1..replayed \cup {r} /\ \A n \in 1..replayed : n \in 1..Len(files) /\ n < r
  BY <1>1, <1>3, <1>4, EntriesMeans DEF RunShape
<1>9. ~Final
  BY <1>3, Zenon DEF Final
<1>10. phase' = "recovering"
  <2>1. \A k \in ToSeal(f) : k \in Keyspace /\ LeftIn(f, k) # {}
    BY Zenon DEF ToSeal
  <2>2. \A k \in ToSeal(f) : Highest(LeftIn(f, k)) = Watermarks(f)[k]
    BY <1>2, <1>8, <1>9, <2>1, LeftHighest, Zenon
  <2> QED
    BY <1>3, <2>2, Zenon
<1>11. ~Final' /\ phase' # "up"
  BY <1>10 DEF Final
<1>12. \A k \in Keyspace :
          /\ k \in Cleared(f) => tables'[k] = {} /\ Trees(f, sealed)[k] = {}
          /\ k \notin Cleared(f) => tables'[k] = tables[k] /\ Trees(f, sealed)[k] = sealed[k]
          /\ k \in Cleared(f) => \A n \in 1..replayed : \A i \in Entries(n) : ~Alive(i, k)
          /\ k \in Cleared(f) => \A i \in log : Alive(i, k) => i \in Journaled
  BY <1>2, <1>3, <1>8, <1>9, ClearReplayed, Zenon
<1>13. \A k \in Keyspace :
          /\ LeftIn(f, k) \in SUBSET (1..Len(ops)) /\ LeftIn(f, k) \subseteq Entries(r)
          /\ Touching(f, k) \in SUBSET (1..Len(ops)) /\ LeftIn(f, k) \subseteq Touching(f, k)
          /\ \A i \in Entries(r) : Alive(i, k) => i \in LeftIn(f, k)
          /\ Watermarks(f)[k] \in -1..(Len(ops) - 1)
          /\ \A i \in Touching(f, k) : ops[i].seqno <= Watermarks(f)[k]
  BY <1>2, <1>8, LeftMeans, Zenon
<1>14. \A k \in Keyspace :
          /\ tables'[k] \subseteq tables[k]
          /\ \A i \in sealed'[k] : (i \in sealed[k] /\ k \notin Cleared(f)) \/ i \in LeftIn(f, k)
          /\ k \notin Cleared(f) => sealed[k] \subseteq sealed'[k]
          /\ k \in ToSeal(f) => LeftIn(f, k) \subseteq sealed'[k]
  <2> SUFFICES ASSUME NEW k \in Keyspace
               PROVE  /\ tables'[k] \subseteq tables[k]
                      /\ \A i \in sealed'[k] : (i \in sealed[k] /\ k \notin Cleared(f)) \/ i \in LeftIn(f, k)
                      /\ k \notin Cleared(f) => sealed[k] \subseteq sealed'[k]
                      /\ k \in ToSeal(f) => LeftIn(f, k) \subseteq sealed'[k]
    BY Zenon
  <2>1. sealed'[k] = Trees(f, sealed)[k] \cup (IF k \in ToSeal(f) THEN LeftIn(f, k) ELSE {})
    BY <1>3, Zenon
  <2>2. CASE k \in Cleared(f)
    BY <1>12, <2>1, <2>2, Zenon
  <2>3. CASE k \notin Cleared(f)
    BY <1>12, <2>1, <2>3, Zenon
  <2> QED
    BY <2>2, <2>3, Zenon
<1>15. TreesShape'
  <2>1. \A k \in Keyspace : tables[k] \in SUBSET (1..Len(ops)) /\ sealed[k] \in SUBSET (1..Len(ops))
    BY <1>4, Zenon DEF TreesShape
  <2>2. \A k \in Keyspace : tables'[k] \in SUBSET (1..Len(ops')) /\ sealed'[k] \in SUBSET (1..Len(ops'))
    BY <1>3, <1>13, <1>14, <2>1, Zenon
  <2>3. tables' = [k \in Keyspace |-> tables'[k]] /\ sealed' = [k \in Keyspace |-> sealed'[k]]
    BY <1>3, Zenon DEF Trees
  <2>4. tables' \in [Keyspace -> SUBSET (1..Len(ops'))] /\ sealed' \in [Keyspace -> SUBSET (1..Len(ops'))]
    BY <2>2, <2>3, Zenon
  <2> QED
    BY <1>3, <1>4, <2>4, Zenon DEF TreesShape
<1>16. OpsShape'
  <2> DEFINE S == {seqno} \cup {Highest(tables'[k] \cup sealed'[k]) + 1 : k \in ToSeal(f)}
  <2>1. Len(ops) \in Nat /\ seqno \in 0..Len(ops)
    BY <1>4, OpFields, Zenon DEF OpsShape
  <2>2. ASSUME NEW k \in ToSeal(f) PROVE Highest(tables'[k] \cup sealed'[k]) + 1 \in 0..Len(ops)
    <3>1. k \in Keyspace
      BY Zenon DEF ToSeal
    <3>2. (tables'[k] \cup sealed'[k]) \in SUBSET (1..Len(ops))
      BY <1>3, <1>15, <3>1, Zenon DEF TreesShape
    <3>3. Highest(tables'[k] \cup sealed'[k]) \in -1..(Len(ops) - 1)
      BY <1>4, <3>2, HighestMeans, Zenon
    <3> QED
      BY <2>1, <3>3
  <2>3. S \in SUBSET (0..Len(ops)) /\ S # {}
    BY <2>1, <2>2, Zenon
  <2>4. Max(S) \in S
    <3> HIDE DEF S
    <3> QED
      BY <2>1, <2>3, MaxMeans, Zenon
  <2>5. seqno' \in 0..Len(ops)
    BY <1>3, <2>3, <2>4, Zenon
  <2> QED
    BY <1>3, <1>4, <2>5, Zenon DEF OpsShape, Op
<1>17. /\ items' \in Seq([Keyspace -> Int]) /\ Len(items') = r /\ items'[r] = Watermarks(f)
       /\ \A n \in 1..replayed : items'[n] = items[n]
  <2>1. Watermarks(f) \in [Keyspace -> Int]
    <3>1. Watermarks(f) = [k \in Keyspace |-> Watermarks(f)[k]]
      BY Zenon DEF Watermarks
    <3>2. \A k \in Keyspace : Watermarks(f)[k] \in Int
      BY <1>13
    <3> QED
      BY <3>1, <3>2, Zenon
  <2>2. items \in Seq([Keyspace -> Int]) /\ Len(items) = replayed
    BY <1>3, <1>4, Zenon DEF FilesShape, Phases
  <2> QED
    BY <1>1, <1>3, <2>1, <2>2, AppendMeans
<1>18. FilesShape' /\ FilesOrdered'
  BY <1>3, <1>4, <1>5, <1>6, <1>17, Zenon DEF FilesShape, FilesOrdered
<1>19. RunShape' /\ Phases'
  <2>1. r \in Nat /\ r < Len(files')
    BY <1>5, <1>8
  <2>2. RunShape'
    BY <1>3, <1>4, <1>10, <2>1, Zenon DEF RunShape
  <2> QED
    BY <1>3, <1>4, <1>11, <1>17, <2>1, <2>2, Zenon DEF Phases
<1>20. Kinds' /\ Contiguous'
  BY <1>3, <1>4, <1>6, <1>9, <1>11, Zenon DEF Kinds, Contiguous
<1>21. \A i, k : k \in Keyspace /\ i \in Contents(k)' => i \in Journaled \/ i \in Contents(k)
  <2>1. Entries(r) \subseteq Journaled
    BY <1>4, <1>8, EntriesMeans, Zenon
  <2> QED
    BY <1>3, <1>13, <1>14, <2>1, Zenon DEF Contents
<1>22. Numbered'
  <2>1. \A i : Counted(i)' => Counted(i)
    BY <1>6, <1>9, <1>21, Zenon DEF Counted
  <2> QED
    BY <1>3, <1>4, <1>11, <2>1, Zenon DEF Numbered
<1>23. OnlyAlive'
  BY <1>4, <1>7, <1>11, <1>14, Zenon DEF OnlyAlive
<1>24. Kept'
  BY <1>3, <1>4, <1>6, <1>7, <1>9, <1>11, <1>12, Zenon DEF Kept
<1>25. Layered'
  BY <1>4, <1>6, <1>7, <1>9, <1>11, <1>12, Zenon DEF Layered
<1>26. Watermarked'
  <2> SUFFICES ASSUME NEW n \in 1..r, NEW k \in Keyspace, NEW i \in Entries(n), Alive(i, k)
               PROVE  i \in tables'[k] \/ ops[i].seqno <= items'[n][k]
    BY <1>3, <1>6, <1>7, <1>17, Zenon DEF Watermarked
  <2>1. CASE n \in 1..replayed
    <3>1. i \in tables[k] \/ ops[i].seqno <= items[n][k]
      BY <1>3, <1>4, <1>9, <2>1, Zenon DEF Watermarked, Phases
    <3> QED
      BY <1>12, <1>17, <2>1, <3>1, Zenon
  <2>2. CASE n = r
    <3>1. i \in Touching(f, k)
      BY <1>13, <2>2, Zenon
    <3> QED
      BY <1>13, <1>17, <2>2, <3>1, Zenon
  <2> QED
    BY <1>8, <2>1, <2>2, Zenon
<1>27. ASSUME NEW k \in Keyspace, NEW n \in 1..r, NEW i \in Entries(n), Alive(i, k)
       PROVE  i \in tables'[k] \cup sealed'[k]
  <2>1. CASE n \in 1..replayed
    <3>1. i \in tables[k] \cup sealed[k]
      BY <1>3, <1>4, <1>27, <2>1, Zenon DEF Replaying
    <3>2. k \notin Cleared(f)
      BY <1>12, <1>27, <2>1, Zenon
    <3> QED
      BY <1>12, <1>14, <3>1, <3>2, Zenon
  <2>2. CASE n = r /\ k \in ToSeal(f)
    BY <1>13, <1>14, <1>27, <2>2, Zenon
  <2>3. CASE n = r /\ k \notin ToSeal(f)
    <3>1. i \in LeftIn(f, k) /\ i \in Touching(f, k)
      BY <1>13, <1>27, <2>3, Zenon
    <3>2. ~(Highest(Trees(f, tables)[k]) < Watermarks(f)[k])
      BY <2>3, <3>1, Zenon DEF ToSeal
    <3>3. Highest(tables'[k]) \in -1..(Len(ops) - 1) /\ (tables'[k] = {} => Highest(tables'[k]) = -1)
      <4>1. tables'[k] \in SUBSET (1..Len(ops))
        BY <1>3, <1>15, Zenon DEF TreesShape
      <4> QED
        BY <1>4, <4>1, HighestMeans, Zenon
    <3>4. Watermarks(f)[k] \in -1..(Len(ops) - 1) /\ ops[i].seqno <= Watermarks(f)[k] /\ ops[i].seqno \in Nat /\ Len(ops) \in Nat
      BY <1>4, <1>13, <3>1, OpFields, Zenon
    <3>5. Highest(tables'[k]) >= ops[i].seqno /\ Highest(tables'[k]) # -1
      <4>1. ~(Highest(tables'[k]) < Watermarks(f)[k])
        BY <1>3, <3>2, Zenon
      <4> QED
        BY <3>3, <3>4, <4>1
    <3>6. tables'[k] = tables[k]
      BY <1>12, <3>3, <3>5, Zenon
    <3>7. i \in Journaled
      BY <1>4, <1>8, <1>27, <2>3, EntriesMeans, Zenon
    <3>8. i \in tables[k]
      BY <1>9, <1>27, <3>5, <3>6, <3>7, ReachedMeans, Zenon
    <3> QED
      BY <3>6, <3>8, Zenon
  <2> QED
    BY <1>8, <2>1, <2>2, <2>3, Zenon
<1>28. ASSUME NEW k \in Keyspace, NEW j \in sealed'[k]
       PROVE  /\ ops[j].kind # "clear" /\ k \in ops[j].kss
              /\ \E n \in 1..r : j \in Entries(n)
              /\ \A n \in 1..r : \A c \in Entries(n) : Empties(c, k) => c < j
  <2>1. CASE j \in LeftIn(f, k)
    <3>1. /\ j \in Entries(r) /\ ops[j].kind # "clear" /\ k \in ops[j].kss
          /\ \A c \in Entries(r) : Empties(c, k) => c < j
      BY <1>2, <1>4, <1>8, <2>1, ReplayMeans, Zenon
    <3>2. \A n \in 1..replayed : \A c \in Entries(n) : c < j
      BY <1>4, <1>8, <3>1, Zenon DEF FilesOrdered
    <3> QED
      BY <1>8, <3>1, <3>2, Zenon
  <2>2. CASE j \in sealed[k] /\ k \notin Cleared(f)
    <3>1. /\ ops[j].kind # "clear" /\ k \in ops[j].kss
          /\ \E n \in 1..replayed : j \in Entries(n)
          /\ \A n \in 1..replayed : \A c \in Entries(n) : Empties(c, k) => c < j
      BY <1>3, <1>4, <2>2, Zenon DEF Replaying
    <3>2. \A c \in Entries(r) : ~Empties(c, k)
      BY <1>2, <1>4, <1>8, <2>2, ReplayMeans, Zenon
    <3> QED
      BY <1>8, <3>1, <3>2, Zenon
  <2> QED
    BY <1>14, <1>28, <2>1, <2>2, Zenon
<1>29. Replaying'
  BY <1>3, <1>6, <1>7, <1>27, <1>28, Zenon DEF Replaying
<1>30. AllPersisted'
  <2>1. Journaled \subseteq log
    BY <1>4, Zenon DEF FilesOrdered
  <2> QED
    BY <1>3, <1>4, <1>5, <1>21, <2>1, Zenon DEF AllPersisted
<1> QED
  BY <1>15, <1>16, <1>18, <1>19, <1>20, <1>22, <1>23, <1>24, <1>25, <1>26, <1>29, <1>30, Zenon DEF IInv, Shape

\* The active journal is replayed, and the database is open.
LEMMA RecoverActiveInv == ASSUME IInv, RecoverActive PROVE IInv'
<1>1. PICK r : r = Len(files)
  OBVIOUS
<1>2. PICK f : f = files[r]
  OBVIOUS
<1>3. /\ phase = "recovering" /\ replayed = Len(files) - 1 /\ durable' = Len(f)
      /\ tables' = Trees(f, tables) /\ sealed' = Trees(f, sealed)
      /\ active' = [k \in Keyspace |-> LeftIn(f, k)]
      /\ seqno' = Max({seqno, NextSeqno(active', sealed', tables')})
      /\ phase' = "up"
      /\ UNCHANGED <<ops, log, files, items, pc, ks, replayed, crashes, workload>>
  BY <1>1, <1>2, Zenon DEF RecoverActive, workers, ActiveFile
<1>4. /\ OpsShape /\ TreesShape /\ FilesShape /\ FilesOrdered /\ RunShape /\ Phases /\ Kinds /\ Numbered
      /\ OnlyAlive /\ Kept /\ Layered /\ Watermarked /\ Replaying /\ Contiguous /\ AllPersisted
  BY Zenon DEF IInv, Shape
<1>5. f = ActiveFile /\ ActiveFile' = ActiveFile
  BY <1>1, <1>2, <1>3, Zenon DEF ActiveFile
<1>6. Journaled' = Journaled /\ \A n : Entries(n)' = Entries(n)
  BY <1>3, SameFiles, Zenon
<1>7. \A i, k : (Alive(i, k)' <=> Alive(i, k)) /\ (Empties(i, k)' <=> Empties(i, k))
  BY <1>3, SameOps, Zenon
<1>8. /\ replayed \in Nat /\ Len(files) \in Nat /\ r \in 1..Len(files) /\ replayed + 1 = r
      /\ 1..Len(files) = 1..replayed \cup {r} /\ \A n \in 1..replayed : n \in 1..Len(files) /\ n < r
  BY <1>1, <1>3, <1>4, EntriesMeans DEF RunShape
<1>9. ~Final /\ crashes # 0
  BY <1>3, <1>4, Zenon DEF Final, Phases
<1>10. Final' <=> workload.clears
  BY <1>3, <1>9, Zenon DEF Final
<1>12. \A k \in Keyspace :
          /\ k \in Cleared(f) => tables'[k] = {} /\ sealed'[k] = {}
          /\ k \notin Cleared(f) => tables'[k] = tables[k] /\ sealed'[k] = sealed[k]
          /\ k \in Cleared(f) => \A n \in 1..replayed : \A i \in Entries(n) : ~Alive(i, k)
          /\ k \in Cleared(f) => \A i \in log : Alive(i, k) => i \in Journaled
          /\ k \notin Cleared(f) => \A c \in Entries(r) : ~Empties(c, k)
  <2>1. \A k \in Keyspace :
          /\ \A x : Trees(f, x)[k] = IF k \in Cleared(f) THEN {} ELSE x[k]
          /\ k \in Cleared(f) => \A n \in 1..Len(files) : n < r => \A i \in Entries(n) : ~Alive(i, k)
          /\ k \in Cleared(f) => \A i \in log : Alive(i, k) => i \in Journaled
    BY <1>2, <1>8, <1>9, ClearReplayed, Zenon
  <2>2. \A k \in Keyspace : k \notin Cleared(f) => \A c \in Entries(r) : ~Empties(c, k)
    BY <1>2, <1>4, <1>8, ReplayMeans, Zenon
  <2>3. \A k \in Keyspace :
          /\ k \in Cleared(f) => tables'[k] = {} /\ sealed'[k] = {}
          /\ k \notin Cleared(f) => tables'[k] = tables[k] /\ sealed'[k] = sealed[k]
    BY <1>3, <2>1, Zenon
  <2> QED
    BY <1>8, <2>1, <2>2, <2>3, Zenon
<1>13. \A k \in Keyspace :
          /\ active'[k] \in SUBSET (1..Len(ops)) /\ active'[k] \subseteq Entries(r)
          /\ \A i \in Entries(r) : Alive(i, k) => i \in active'[k]
          /\ \A j \in active'[k] : /\ ops[j].kind # "clear" /\ k \in ops[j].kss
                                   /\ \A c \in Entries(r) : Empties(c, k) => c < j
  BY <1>2, <1>3, <1>4, <1>8, LeftMeans, ReplayMeans, Zenon
<1>14. Journaled \subseteq log /\ Journaled \subseteq 1..Len(ops) /\ Entries(r) \subseteq Journaled
       /\ \A i : i \in Journaled <=> i \in Entries(r) \/ \E n \in 1..replayed : i \in Entries(n)
  <2>1. \A i : i \in Journaled <=> \E n \in 1..Len(files) : i \in Entries(n)
    BY Zenon DEF Journaled
  <2> QED
    BY <1>4, <1>8, <2>1, EntriesMeans, Zenon DEF FilesOrdered
<1>15. TreesShape'
  <2>1. \A k \in Keyspace : tables[k] \in SUBSET (1..Len(ops)) /\ sealed[k] \in SUBSET (1..Len(ops))
    BY <1>4, Zenon DEF TreesShape
  <2>2. \A k \in Keyspace : tables'[k] \in SUBSET (1..Len(ops')) /\ sealed'[k] \in SUBSET (1..Len(ops'))
                            /\ active'[k] \in SUBSET (1..Len(ops'))
    BY <1>3, <1>12, <1>13, <2>1, Zenon
  <2>3. tables' = [k \in Keyspace |-> tables'[k]] /\ sealed' = [k \in Keyspace |-> sealed'[k]]
        /\ active' = [k \in Keyspace |-> active'[k]]
    BY <1>3, Zenon DEF Trees
  <2>4. tables' \in [Keyspace -> SUBSET (1..Len(ops'))] /\ sealed' \in [Keyspace -> SUBSET (1..Len(ops'))]
        /\ active' \in [Keyspace -> SUBSET (1..Len(ops'))]
    BY <2>2, <2>3, Zenon
  <2> QED
    BY <2>4, Zenon DEF TreesShape
<1>16. OpsShape' /\ \A k \in Keyspace : \A i \in Contents(k)' : ops[i].seqno < seqno'
  <2> DEFINE U == UNION {active'[k] \cup sealed'[k] \cup tables'[k] : k \in Keyspace}
  <2>1. Len(ops) \in Nat /\ seqno \in 0..Len(ops)
    BY <1>4, OpFields, Zenon DEF OpsShape
  <2>2. U \in SUBSET (1..Len(ops))
    BY <1>3, <1>15, Zenon DEF TreesShape
  <2>3. NextSeqno(active', sealed', tables') = Highest(U) + 1
    BY Zenon DEF NextSeqno
  <2>4. Highest(U) \in -1..(Len(ops) - 1) /\ \A i \in U : ops[i].seqno <= Highest(U)
    <3> HIDE DEF U
    <3> QED
      BY <1>4, <2>2, HighestMeans, Zenon
  <2> DEFINE N == NextSeqno(active', sealed', tables')
  <2> HIDE DEF U, N
  <2>5. N = Highest(U) + 1
    BY <2>3, Zenon DEF N
  <2>6. N \in 0..Len(ops)
    BY <2>1, <2>4, <2>5
  <2>7. {seqno, N} \in SUBSET (0..Len(ops)) /\ {seqno, N} # {}
    BY <2>1, <2>6, Zenon
  <2>8. seqno' = Max({seqno, N})
    BY <1>3, Zenon DEF N
  <2>9. seqno' \in 0..Len(ops) /\ N <= seqno'
    <3>1. seqno' \in {seqno, N} /\ \A x \in {seqno, N} : x <= seqno'
      BY <2>1, <2>7, <2>8, MaxMeans, Zenon
    <3> QED
      BY <2>7, <3>1, Zenon
  <2>10. OpsShape'
    BY <1>3, <1>4, <2>9, Zenon DEF OpsShape, Op
  <2>11. \A i \in U : ops[i].seqno < seqno'
    <3> SUFFICES ASSUME NEW i \in U PROVE ops[i].seqno < seqno'
      BY Zenon
    <3>1. ops[i].seqno <= Highest(U) /\ ops[i].seqno \in Nat
      BY <1>4, <2>2, <2>4, OpFields, Zenon
    <3> QED
      BY <2>1, <2>4, <2>5, <2>9, <3>1
  <2>12. \A k \in Keyspace : \A i \in Contents(k)' : i \in U
    BY Zenon DEF Contents, U
  <2> QED
    BY <2>10, <2>11, <2>12, Zenon
<1>18. FilesShape' /\ FilesOrdered'
  <2>1. files \in Seq(Seq(1..Len(ops))) /\ Len(f) \in Nat
    BY <1>2, <1>4, <1>8, EntriesMeans DEF FilesShape
  <2>2. Len(f) \in 0..Len(f) /\ \A p \in 1..Len(f) : p <= Len(f)
    BY <2>1
  <2> QED
    BY <1>3, <1>4, <1>5, <1>6, <2>2, Zenon DEF FilesShape, FilesOrdered
<1>19. RunShape' /\ Phases'
  <2>1. Len(files) = Len(items) + 1
    BY <1>1, <1>3, <1>4, <1>8, Zenon DEF Phases
  <2> QED
    BY <1>3, <1>4, <2>1 DEF Phases, RunShape
<1>20. Kinds' /\ Contiguous'
  BY <1>3, <1>4, <1>6, <1>9, Zenon DEF Kinds, Contiguous
<1>21. \A k \in Keyspace : \A i \in Contents(k)' : i \in Entries(r) \/ i \in Contents(k)
  BY <1>12, <1>13, Zenon DEF Contents
<1>22. ASSUME NEW k \in Keyspace, NEW i \in log, Alive(i, k) PROVE i \in Contents(k)'
  <2>1. CASE i \in Journaled
    <3>1. CASE i \in Entries(r)
      BY <1>13, <1>22, <3>1, Zenon DEF Contents
    <3>2. CASE \E n \in 1..replayed : i \in Entries(n)
      <4>1. i \in tables[k] \cup sealed[k]
        BY <1>3, <1>4, <1>22, <3>2, Zenon DEF Replaying
      <4>2. k \notin Cleared(f)
        BY <1>12, <1>22, <3>2, Zenon
      <4> QED
        BY <1>12, <4>1, <4>2, Zenon DEF Contents
    <3> QED
      BY <1>14, <2>1, <3>1, <3>2, Zenon
  <2>2. CASE i \notin Journaled
    <3>1. i \in tables[k]
      BY <1>4, <1>9, <1>22, <2>2, Zenon DEF Kept
    <3>2. k \notin Cleared(f)
      BY <1>12, <1>22, <2>2, Zenon
    <3> QED
      BY <1>12, <3>1, <3>2, Zenon DEF Contents
  <2> QED
    BY <2>1, <2>2, Zenon
<1>23. ASSUME ~workload.clears
       PROVE  /\ \A k \in Keyspace : tables'[k] = tables[k] /\ sealed'[k] = sealed[k]
              /\ \A i \in Journaled : \E k \in Keyspace : Alive(i, k)
  <2>1. \A i \in 1..Len(ops) : ops[i].kind # "clear"
    BY <1>4, <1>23, Zenon DEF Kinds
  <2>2. \A k \in Keyspace : k \notin Cleared(f)
    <3>1. \A k : \A c \in Entries(r) : ~Empties(c, k)
      BY <1>14, <2>1, Zenon DEF Empties
    <3>2. \A k \in Keyspace : k \in Cleared(f) => \E c \in Entries(r) : Empties(c, k)
      BY <1>2, <1>4, <1>8, ReplayMeans, Zenon
    <3> QED
      BY <3>1, <3>2, Zenon
  <2>3. \A i \in Journaled : \E k \in Keyspace : k \in ops[i].kss
    BY <1>4, <1>14, OpFields, Zenon
  <2>4. \A i \in Journaled : \A k \in ops[i].kss : Alive(i, k)
    BY <1>14, <2>1, Zenon DEF Alive, Empties
  <2> QED
    BY <1>12, <2>2, <2>3, <2>4, Zenon
<1>24. Numbered'
  <2>1. \A i : Counted(i)' => Counted(i)
    BY <1>6, <1>9, <1>14, <1>21, Zenon DEF Counted
  <2>2. \A i : Counted(i)' => \E k \in Keyspace : i \in Contents(k)'
    BY <1>6, <1>10, <1>14, <1>22, <1>23, Zenon DEF Counted
  <2>3. \A i : Counted(i)' => ops[i].seqno < seqno'
    BY <1>16, <2>2, Zenon
  <2> QED
    BY <1>3, <1>4, <2>1, <2>3, Zenon DEF Numbered
<1>25. Kept'
  BY <1>3, <1>4, <1>6, <1>7, <1>9, <1>10, <1>22, <1>23, Zenon DEF Kept
<1>26. ASSUME NEW k \in Keyspace, NEW c \in 1..Len(ops), NEW j \in Journaled, Empties(c, k),
              ops[j].kind # "clear", ~(c < j)
       PROVE  \E n \in 1..Len(files) : c \in Entries(n)
  <2>1. c # j /\ c \in log /\ ops[c].kind = "clear"
    BY <1>4, <1>26, Zenon DEF Kinds, Empties
  <2>2. j < c
    <3>1. j \in 1..Len(ops)
      BY <1>14, Zenon
    <3> QED
      BY <1>26, <2>1, <3>1
  <2>3. c \in Journaled
    BY <1>4, <1>9, <2>1, <2>2, Zenon DEF Contiguous
  <2> QED
    BY <2>3, Zenon DEF Journaled
<1>27. ASSUME NEW k \in Keyspace, NEW j \in active'[k] PROVE Alive(j, k)
  <2>1. j \in Entries(r) /\ j \in Journaled /\ ops[j].kind # "clear" /\ k \in ops[j].kss
    BY <1>13, <1>14, <1>27, Zenon
  <2>2. ASSUME NEW c \in 1..Len(ops), Empties(c, k), ~(c < j) PROVE FALSE
    <3>1. PICK n \in 1..Len(files) : c \in Entries(n)
      BY <1>26, <2>1, <2>2, Zenon
    <3>2. n \in 1..replayed => c < j
      BY <1>4, <1>8, <2>1, <3>1, Zenon DEF FilesOrdered
    <3>3. n = r => c < j
      BY <1>13, <2>2, <3>1, Zenon
    <3> QED
      BY <1>8, <2>2, <3>2, <3>3, Zenon
  <2> QED
    BY <2>1, <2>2, Zenon DEF Alive
<1>28. ASSUME NEW k \in Keyspace, NEW j \in sealed'[k] PROVE Alive(j, k)
  <2>1. j \in sealed[k] /\ k \notin Cleared(f)
    BY <1>12, <1>28, Zenon
  <2>2. /\ ops[j].kind # "clear" /\ k \in ops[j].kss
        /\ \E n \in 1..replayed : j \in Entries(n)
        /\ \A n \in 1..replayed : \A c \in Entries(n) : Empties(c, k) => c < j
    BY <1>3, <1>4, <2>1, Zenon DEF Replaying
  <2>3. j \in Journaled
    BY <1>14, <2>2, Zenon
  <2>4. ASSUME NEW c \in 1..Len(ops), Empties(c, k), ~(c < j) PROVE FALSE
    <3>1. PICK n \in 1..Len(files) : c \in Entries(n)
      BY <1>26, <2>2, <2>3, <2>4, Zenon
    <3>2. n = r => FALSE
      BY <1>12, <2>1, <2>4, <3>1, Zenon
    <3> QED
      BY <1>8, <2>2, <2>4, <3>1, <3>2, Zenon
  <2> QED
    BY <2>2, <2>4, Zenon DEF Alive
<1>29. OnlyAlive'
  <2>1. \A k \in Keyspace : \A i \in tables'[k] : Alive(i, k)
    BY <1>4, <1>12, Zenon DEF OnlyAlive
  <2> QED
    BY <1>7, <1>27, <1>28, <2>1, Zenon DEF OnlyAlive
<1>30. Layered'
  <2>1. ASSUME NEW k \in Keyspace, NEW i \in Journaled, Alive(i, k), NEW j \in sealed[k], i < j
        PROVE  i \in tables[k] \cup sealed[k]
    <3>1. PICK m \in 1..replayed : j \in Entries(m)
      BY <1>3, <1>4, <2>1, Zenon DEF Replaying
    <3>2. i \notin Entries(r)
      <4>1. ASSUME i \in Entries(r) PROVE FALSE
        <5>1. j < i
          BY <1>4, <1>8, <3>1, <4>1, Zenon DEF FilesOrdered
        <5>2. i \in 1..Len(ops) /\ j \in 1..Len(ops)
          BY <1>14, <3>1, Zenon
        <5> QED
          BY <2>1, <5>1, <5>2
      <4> QED
        BY <4>1, Zenon
    <3>3. PICK n \in 1..replayed : i \in Entries(n)
      BY <1>14, <3>2, Zenon
    <3> QED
      BY <1>3, <1>4, <2>1, <3>3, Zenon DEF Replaying
  <2> SUFFICES ASSUME ~workload.clears, NEW k \in Keyspace, NEW i \in Journaled, Alive(i, k)
               PROVE  /\ \A j \in tables'[k] : i < j => i \in tables'[k]
                      /\ \A j \in sealed'[k] : i < j => i \in tables'[k] \cup sealed'[k]
    BY <1>6, <1>7, <1>10, Zenon DEF Layered
  <2>2. tables'[k] = tables[k] /\ sealed'[k] = sealed[k]
    BY <1>23, Zenon
  <2>3. \A j \in tables[k] : i < j => i \in tables[k]
    BY <1>4, <1>9, Zenon DEF Layered
  <2> QED
    BY <2>1, <2>2, <2>3, Zenon
<1>31. Watermarked'
  BY <1>3, <1>4, <1>6, <1>7, <1>9, <1>10, <1>23, Zenon DEF Watermarked
<1>32. Replaying'
  BY <1>3, Zenon DEF Replaying
<1>33. AllPersisted'
  BY <1>3, <1>4, <1>5, <1>14, <1>21, Zenon DEF AllPersisted
<1> QED
  BY <1>15, <1>16, <1>18, <1>19, <1>20, <1>24, <1>25, <1>29, <1>30, <1>31, <1>32, <1>33, Zenon DEF IInv, Shape

\* Steps that change nothing.
LEMMA StutterInv == ASSUME IInv, UNCHANGED vars PROVE IInv'
<1>1. UNCHANGED <<workload, ops, log, seqno, active, sealed, tables, files, durable, items, pc, ks, phase, replayed, crashes>>
  BY Zenon DEF vars, trees, journal, workers
<1>2. Journaled' = Journaled /\ (\A n : Entries(n)' = Entries(n)) /\ ActiveFile' = ActiveFile
  BY <1>1, SameFiles, Zenon DEF ActiveFile
<1>3. \A i, k : (Alive(i, k)' <=> Alive(i, k)) /\ (Empties(i, k)' <=> Empties(i, k))
  BY <1>1, SameOps, Zenon
<1>4. (Final' <=> Final) /\ (\A k : Contents(k)' = Contents(k)) /\ \A i : Counted(i)' <=> Counted(i)
  BY <1>1, <1>2, Zenon DEF Final, Contents, Counted
<1>5. Shape' /\ Phases' /\ Kinds'
  BY <1>1, <1>2, Zenon DEF IInv, Shape, OpsShape, TreesShape, FilesShape, RunShape, Phases, Kinds, Op
<1>6. FilesOrdered' /\ Numbered' /\ AllPersisted' /\ Contiguous'
  BY <1>1, <1>2, <1>4, Zenon DEF IInv, FilesOrdered, Numbered, AllPersisted, Contiguous
<1>7. OnlyAlive' /\ Kept' /\ Layered'
  BY <1>1, <1>2, <1>3, <1>4, Zenon DEF IInv, OnlyAlive, Kept, Layered
<1>8. Watermarked' /\ Replaying'
  BY <1>1, <1>2, <1>3, <1>4, Zenon DEF IInv, Watermarked, Replaying
<1> QED
  BY <1>5, <1>6, <1>7, <1>8, Zenon DEF IInv

\* Every step of the application, the workers, a crash and recovery keeps the invariant.
LEMMA NextIInv == ASSUME ClearsApart, IInv, [Next]_vars PROVE IInv'
<1>1. CASE Writes
  BY <1>1, WriteInv, Zenon DEF Writes
<1>2. CASE Clears
  BY <1>2, ClearInv, Zenon DEF Clears
<1>3. CASE Ingests
  BY <1>3, IngestInv, Zenon DEF Ingests
<1>4. CASE Persist
  BY <1>4, PersistInv, Zenon
<1>5. CASE WorkerNext
  BY <1>5, RotateMemtableInv, TakeFlushInv, RunFlushInv, FlushFailsInv, MaintainInv, Zenon DEF WorkerNext
<1>6. CASE CrashNext
  BY <1>6, CrashInv, RecoverSealedInv, RecoverActiveInv, Zenon DEF CrashNext
<1>7. CASE UNCHANGED vars
  BY <1>7, StutterInv, Zenon
<1> QED
  BY <1>1, <1>2, <1>3, <1>4, <1>5, <1>6, <1>7, Zenon DEF Next

\* The invariant holds in every reachable state.
THEOREM Inductive == ASSUME ClearsApart PROVE Spec => []IInv
<1>1. IInv /\ [Next]_vars => IInv'
  BY NextIInv, Zenon
<1> QED
  BY InitIInv, <1>1, PTL DEF Spec

\* What was not lost and not cleared.
LEMMA RemainingMeans ==
  ASSUME IInv, NEW k \in Keyspace PROVE \A i : i \in Remaining(k) <=> i \in log /\ Alive(i, k)
<1>1. log \subseteq 1..Len(ops) /\ \A c \in 1..Len(ops) : ops[c].kind = "clear" => c \in log
  BY Zenon DEF IInv, Shape, OpsShape, Kinds
<1> QED
  BY <1>1, Zenon DEF Remaining, Alive, Empties

\* Whatever step a crash hits, flushes, evictions and an earlier recovery included: what
\* was not lost with the unpersisted end of the active journal, and not cleared, is in the
\* trees once recover is done.
THEOREM DurableKept == ASSUME ClearsApart PROVE Spec => []NothingDurableLost
<1>1. IInv => NothingDurableLost
  BY RemainingMeans, Zenon DEF IInv, Kept, NothingDurableLost
<1> QED
  BY <1>1, Inductive, PTL

\* When writes are persisted before they return, the trees hold after every crash and
\* recovery exactly what the operations left: recover replays what the tables miss, and
\* drops what a journaled clear removed.
THEOREM ExactlyRecovered == ASSUME ClearsApart PROVE Spec => []RecoveredExactly
<1>1. ASSUME IInv PROVE RecoveredExactly
  <2> SUFFICES ASSUME workload.persisted = {TRUE}, phase = "up", NEW k \in Keyspace
               PROVE  Contents(k) = Remaining(k)
    BY Zenon DEF RecoveredExactly
  <2>1. \A i \in Contents(k) : i \in log /\ Alive(i, k)
    BY <1>1, Zenon DEF IInv, AllPersisted, OnlyAlive, Contents
  <2>2. \A i \in log : Alive(i, k) => i \in Contents(k)
    BY <1>1, Zenon DEF IInv, Kept
  <2>3. \A i : i \in Remaining(k) <=> i \in log /\ Alive(i, k)
    BY <1>1, RemainingMeans, Zenon
  <2> QED
    BY <2>1, <2>2, <2>3, Zenon
<1> QED
  BY <1>1, Inductive, PTL

\* The assertion of recover_sealed_memtables ("memtable lsn does not match what was
\* recovered") never fails.
THEOREM RecoveryNeverPanics == ASSUME ClearsApart PROVE Spec => []RecoveryCompletes
<1>1. IInv => RecoveryCompletes
  BY DEF IInv, Shape, RunShape, RecoveryCompletes
<1> QED
  BY <1>1, Inductive, PTL

\* The sequence number recovered from the trees is above all of theirs, so that newer
\* operations stay newer across crashes.
THEOREM NewerStaysNewer == ASSUME ClearsApart PROVE Spec => []NewestWins
<1>1. ASSUME IInv PROVE NewestWins
  <2>1. \A k \in Keyspace : \A i \in Contents(k) : i \in 1..Len(ops) /\ Counted(i)
    BY <1>1, Zenon DEF IInv, Shape, TreesShape, Contents, Counted
  <2> QED
    BY <1>1, <2>1, Zenon DEF IInv, Numbered, NewestWins
<1> QED
  BY <1>1, Inductive, PTL
=============================================================================
