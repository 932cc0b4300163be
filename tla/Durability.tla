------------------------------ MODULE Durability ------------------------------
(***************************************************************************)
(* What survives a crash: the write-ahead journal (src/src/journal/), the  *)
(* memtables and their flush (src/src/worker_pool.rs, src/src/flush/), the *)
(* eviction of sealed journals (src/src/journal/manager.rs) and recovery   *)
(* (src/src/db.rs, src/src/recovery.rs).                                   *)
(*                                                                         *)
(* An operation is known by its place in ops; trees and journals hold such *)
(* numbers.  A tree is three sets: its active memtable, its sealed         *)
(* memtables and its tables; only the tables outlive a crash.  Writers     *)
(* hold the journal mutex from the journal to the memtables, and a crash   *)
(* discards the memtables, so a write is one step.                         *)
(***************************************************************************)
EXTENDS Integers, Sequences, FiniteSetsExt

CONSTANTS
    Keyspace,
    Worker,      \* threads that rotate memtables, flush and evict journals
    MaxOps,      \* bound on the operations issued
    MaxJournals, \* bound on the journal files at one time
    Workloads    \* what the application does: whether its writes are persisted
                 \* before they return, whether it clears and ingests; with
                 \* bounds on the busy workers and the crashes (or closes)

ASSUME KeyspaceAssumption == IsFiniteSet(Keyspace)
ASSUME DurBoundsAssumption == MaxOps \in Nat /\ MaxJournals \in Nat \ {0}
ASSUME WorkloadsAssumption ==
    Workloads \subseteq [persisted : SUBSET BOOLEAN, clears : BOOLEAN, ingests : BOOLEAN,
                         workers : Nat, crashes : Nat]

None == -1          \* no sequence number
NoKeyspace == "none"

VARIABLES
    workload,
    ops,        \* history: every operation, with its kind, keyspaces and number
    log,        \* history: the operations not lost
    seqno,      \* Supervisor.seqno
    active, sealed, tables, \* per keyspace: the operations its tree holds there
    files,      \* the journal files, oldest first; the last is the active one
    durable,    \* how much of the active file is sure to survive a crash
    items,      \* JournalManager.items: per sealed file, its watermarks
    tasks,      \* per keyspace: its tasks in the flush manager
    pc, ks,     \* per worker: its step and the keyspace it works on
    poisoned,
    phase,      \* up, recovering, or panicked in recovery
    replayed,   \* journal files replayed so far
    crashes

trees == <<active, sealed, tables>>
journal == <<files, durable>>
workers == <<pc, ks>>
vars == <<workload, ops, log, seqno, trees, journal, items, tasks, workers, poisoned, phase, replayed, crashes>>

\* A new database with its keyspaces created and nothing written.
Init ==
    /\ workload \in Workloads
    /\ ops = <<>> /\ log = {} /\ seqno = 0
    /\ active = [k \in Keyspace |-> {}]
    /\ sealed = [k \in Keyspace |-> {}]
    /\ tables = [k \in Keyspace |-> {}]
    /\ files = <<<<>>>> /\ durable = 0
    /\ items = <<>>
    /\ tasks = [k \in Keyspace |-> 0]
    /\ pc = [w \in Worker |-> "idle"]
    /\ ks = [w \in Worker |-> NoKeyspace]
    /\ poisoned = FALSE
    /\ phase = "up" /\ replayed = 0 /\ crashes = 0

-----------------------------------------------------------------------------
\* The highest sequence number among some operations.
Highest(S) == IF S = {} THEN None ELSE Max({ops[i].seqno : i \in S})

\* What a sequence of operations leaves in an empty keyspace k.
ClearsOf(s, k) == {p \in DOMAIN s : ops[s[p]].kind = "clear" /\ k \in ops[s[p]].kss}
LeftIn(s, k) ==
    {s[p] : p \in {q \in DOMAIN s : /\ ops[s[q]].kind # "clear" /\ k \in ops[s[q]].kss
                                    /\ \A c \in ClearsOf(s, k) : c < q}}

\* The operations that touch k.
Touching(s, k) == {s[p] : p \in {q \in DOMAIN s : k \in ops[s[q]].kss}}

ActiveFile == files[Len(files)]

\* Append to the active journal; persisted says whether it is flushed or synced
\* as far as the coming crash requires.
Journal(entry, persisted) ==
    /\ files' = [files EXCEPT ![Len(files)] = Append(@, entry)]
    /\ durable' = IF persisted THEN Len(ActiveFile) + 1 ELSE durable

\* An operation gets its number and its place in the histories.
Issue(kind, kss) ==
    /\ phase = "up" /\ Len(ops) < MaxOps
    /\ ops' = Append(ops, [kind |-> kind, kss |-> kss, seqno |-> seqno])
    /\ log' = log \cup {Len(ops) + 1}
    /\ seqno' = seqno + 1

Quiet == UNCHANGED <<items, tasks, workers, poisoned, phase, replayed, crashes, workload>>

\* insert, remove, or a batch over several keyspaces.
Write(kss, persisted) ==
    /\ ~poisoned
    /\ Issue("write", kss)
    /\ Journal(Len(ops) + 1, persisted)
    /\ active' = [k \in Keyspace |-> IF k \in kss THEN active[k] \cup {Len(ops) + 1} ELSE active[k]]
    /\ UNCHANGED <<sealed, tables>> /\ Quiet

\* Keyspace::clear.
Clear(k) ==
    /\ ~poisoned
    /\ Issue("clear", {k})
    /\ Journal(Len(ops) + 1, TRUE)
    /\ active' = [active EXCEPT ![k] = {}]
    /\ sealed' = [sealed EXCEPT ![k] = {}]
    /\ tables' = [tables EXCEPT ![k] = {}]
    /\ Quiet

\* Mutant: the memtables are not flushed first.
IngestUnflushed(k) ==
    /\ Issue("ingest", {k})
    /\ tables' = [tables EXCEPT ![k] = @ \cup {Len(ops) + 1}]
    /\ UNCHANGED <<active, sealed, journal>> /\ Quiet

\* Ingestion::finish: flush the memtables, register the new tables.  Nothing is
\* journaled.
Ingest(k) ==
    /\ Issue("ingest", {k})
    /\ tables' = [tables EXCEPT ![k] = @ \cup active[k] \cup sealed[k] \cup {Len(ops) + 1}]
    /\ active' = [active EXCEPT ![k] = {}]
    /\ sealed' = [sealed EXCEPT ![k] = {}]
    /\ UNCHANGED journal /\ Quiet

\* Database::persist.
Persist ==
    /\ phase = "up" /\ ~poisoned
    /\ durable' = Len(ActiveFile)
    /\ UNCHANGED <<ops, log, seqno, trees, files>> /\ Quiet

-----------------------------------------------------------------------------
\* The worker is free, and the workload has it.
CanWork(w) == pc[w] = "idle" /\ Cardinality({v \in Worker : pc[v] # "idle"}) < workload.workers

\* Keyspace::inner_rotate_memtable, on a worker's or the caller's thread: seal
\* the active memtable under the journal mutex, queue its flush, then run the
\* journal manager's maintenance.
RotateMemtable(w, k) ==
    /\ phase = "up" /\ CanWork(w)
    /\ active[k] # {}
    /\ sealed' = [sealed EXCEPT ![k] = @ \cup active[k]]
    /\ active' = [active EXCEPT ![k] = {}]
    /\ tasks' = [tasks EXCEPT ![k] = @ + 1]
    /\ pc' = [pc EXCEPT ![w] = "maintaining"]
    /\ UNCHANGED <<ops, log, seqno, tables, journal, items, ks, poisoned, phase, replayed, crashes, workload>>

\* AbstractTree::get_highest_memtable_seqno
MemtableSeqno(k) == Highest(active[k] \cup sealed[k])

\* JournalManager::rotate_journal: sync and seal the active journal, note per
\* keyspace how far it must be flushed before the file may go.
RotateJournal ==
    /\ ActiveFile # <<>> /\ Len(files) < MaxJournals
    /\ items' = Append(items, [k \in Keyspace |-> MemtableSeqno(k)])
    /\ files' = Append(files, <<>>)
    /\ durable' = 0

\* WorkerMessage::Flush, first part: take a task, maybe rotate the journal.
TakeFlush(w, k) ==
    /\ phase = "up" /\ CanWork(w)
    /\ tasks[k] > 0
    /\ tasks' = [tasks EXCEPT ![k] = @ - 1]
    /\ pc' = [pc EXCEPT ![w] = "flushing"]
    /\ ks' = [ks EXCEPT ![w] = k]
    /\ RotateJournal \/ UNCHANGED <<items, journal>>
    /\ UNCHANGED <<ops, log, seqno, trees, poisoned, phase, replayed, crashes, workload>>

\* Second part: write the sealed memtables of the keyspace into a table.
RunFlush(w) ==
    /\ pc[w] = "flushing"
    /\ tables' = [tables EXCEPT ![ks[w]] = @ \cup sealed[ks[w]]]
    /\ sealed' = [sealed EXCEPT ![ks[w]] = {}]
    /\ pc' = [pc EXCEPT ![w] = "maintaining"]
    /\ UNCHANGED <<ops, log, seqno, active, journal, items, tasks, ks, poisoned, phase, replayed, crashes, workload>>

\* The flush fails: the worker ends, the database is poisoned.
FlushFails(w) ==
    /\ pc[w] = "flushing"
    /\ pc' = [pc EXCEPT ![w] = "dead"]
    /\ poisoned' = TRUE
    /\ UNCHANGED <<ops, log, seqno, trees, journal, items, tasks, ks, phase, replayed, crashes, workload>>

\* Mutant: one flushed keyspace is enough.
FlushedSome(wm) == \E k \in Keyspace : Highest(tables[k]) >= wm[k]

\* Every keyspace's tables have reached the watermark; a keyspace without one
\* is not waited for.
Flushed(wm) == \A k \in Keyspace : Highest(tables[k]) >= wm[k]

\* JournalManager::maintenance: remove the oldest sealed journals while they
\* are flushed, one file at a time.
Maintain(w) ==
    /\ pc[w] = "maintaining"
    /\ IF items # <<>> /\ Flushed(items[1])
       THEN /\ files' = Tail(files)
            /\ items' = Tail(items)
            /\ UNCHANGED pc
       ELSE /\ pc' = [pc EXCEPT ![w] = "idle"]
            /\ UNCHANGED <<files, items>>
    /\ UNCHANGED <<ops, log, seqno, trees, durable, tasks, ks, poisoned, phase, replayed, crashes, workload>>

-----------------------------------------------------------------------------
\* The process dies, or the database is closed: memtables and queues are gone,
\* and of the active journal some whole batches are left that include what was
\* persisted (the batch reader cuts off a torn one).  The rest is lost from the log.
Crash ==
    /\ crashes < workload.crashes /\ phase \in {"up", "recovering"}
    /\ \E n \in durable..Len(ActiveFile) :
          LET cut == {ActiveFile[p] : p \in (n + 1)..Len(ActiveFile)}
          IN  /\ files' = [files EXCEPT ![Len(files)] = SubSeq(@, 1, n)]
              /\ log' = log \ cut
              /\ durable' = n
    /\ active' = [k \in Keyspace |-> {}]
    /\ sealed' = [k \in Keyspace |-> {}]
    /\ items' = <<>>
    /\ tasks' = [k \in Keyspace |-> 0]
    /\ pc' = [w \in Worker |-> "idle"]
    /\ ks' = [w \in Worker |-> NoKeyspace]
    /\ poisoned' = FALSE
    /\ phase' = "recovering" /\ replayed' = 0 /\ seqno' = 0
    /\ crashes' = crashes + 1
    /\ UNCHANGED <<ops, tables, workload>>

\* Replaying a clear empties the tree, tables included.
Cleared(f) == {k \in Keyspace : ClearsOf(f, k) # {}}

Trees(f, tree) == [k \in Keyspace |-> IF k \in Cleared(f) THEN {} ELSE tree[k]]

\* Mutant: one watermark for the whole journal.
WatermarkOfFile(f) == [k \in Keyspace |-> Highest({f[p] : p \in DOMAIN f})]

\* The watermarks recovery computes from what it read.
Watermarks(f) == [k \in Keyspace |-> Highest(Touching(f, k))]

\* The keyspaces whose memtable recovered from f is sealed; the others have
\* flushed it already, or are empty.
ToSeal(f) ==
    {k \in Keyspace : LeftIn(f, k) # {} /\ Highest(Trees(f, tables)[k]) < Watermarks(f)[k]}

\* recover_sealed_memtables, one sealed journal.
RecoverSealed ==
    /\ phase = "recovering" /\ replayed < Len(files) - 1
    /\ LET f == files[replayed + 1]
       IN  /\ tables' = Trees(f, tables)
           /\ sealed' = [k \in Keyspace |-> Trees(f, sealed)[k] \cup
                                            (IF k \in ToSeal(f) THEN LeftIn(f, k) ELSE {})]
           /\ items' = Append(items, Watermarks(f))
           /\ phase' = IF \A k \in ToSeal(f) : Highest(LeftIn(f, k)) = Watermarks(f)[k]
                       THEN "recovering" ELSE "panicked"
           /\ seqno' = Max({seqno} \cup {Highest(tables'[k] \cup sealed'[k]) + 1 : k \in ToSeal(f)})
    /\ replayed' = replayed + 1
    /\ UNCHANGED <<ops, log, active, journal, tasks, workers, poisoned, crashes, workload>>

\* Mutant: the sequence number is recovered from the active memtables only.
NextSeqnoActive(a, s, t) == Highest(UNION {a[k] : k \in Keyspace}) + 1

\* One above every number the trees hold.
NextSeqno(a, s, t) == Highest(UNION {a[k] \cup s[k] \cup t[k] : k \in Keyspace}) + 1

\* The rest of recover: the active journal, the sequence number, the flushes.
RecoverActive ==
    /\ phase = "recovering" /\ replayed = Len(files) - 1
    /\ LET f == ActiveFile
       IN  /\ durable' = Len(f)
           /\ tables' = Trees(f, tables)
           /\ sealed' = Trees(f, sealed)
           /\ active' = [k \in Keyspace |-> LeftIn(f, k)]
           /\ tasks' = [k \in Keyspace |-> IF sealed'[k] # {} THEN 1 ELSE 0]
           /\ seqno' = Max({seqno, NextSeqno(active', sealed', tables')})
    /\ phase' = "up"
    /\ UNCHANGED <<ops, log, files, items, workers, poisoned, replayed, crashes, workload>>

-----------------------------------------------------------------------------
Writes == \E kss \in (SUBSET Keyspace) \ {{}} : \E p \in workload.persisted : Write(kss, p)
Clears == workload.clears /\ \E k \in Keyspace : Clear(k)
Ingests == workload.ingests /\ \E k \in Keyspace : Ingest(k)

WorkerNext ==
    \/ \E w \in Worker, k \in Keyspace : RotateMemtable(w, k) \/ TakeFlush(w, k)
    \/ \E w \in Worker : RunFlush(w) \/ FlushFails(w) \/ Maintain(w)

CrashNext == Crash \/ RecoverSealed \/ RecoverActive

Next ==
    \/ Writes \/ Clears \/ Ingests \/ (FALSE \in workload.persisted /\ Persist)
    \/ WorkerNext \/ CrashNext

Spec == Init /\ [][Next]_vars

-----------------------------------------------------------------------------
Contents(k) == active[k] \cup sealed[k] \cup tables[k]

\* What the operations that were not lost leave in keyspace k.
Remaining(k) ==
    {i \in log : /\ ops[i].kind # "clear" /\ k \in ops[i].kss
                 /\ \A c \in log : ops[c].kind = "clear" /\ k \in ops[c].kss => c < i}

\* No journal is evicted, and none skipped in recovery, while a keyspace still
\* needs it: everything that was persisted and not cleared is in the trees,
\* whenever crashes hit the flushes, evictions or an earlier recovery.
NothingDurableLost ==
    phase = "up" => \A k \in Keyspace : Remaining(k) \subseteq Contents(k)

\* When writes are persisted before they return, recovery restores exactly what
\* the operations left: nothing is missing, nothing cleared comes back, and
\* every batch is there in all its keyspaces.
RecoveredExactly ==
    workload.persisted = {TRUE} /\ phase = "up" => \A k \in Keyspace : Contents(k) = Remaining(k)

\* Recovery never trips over "memtable lsn does not match what was recovered".
RecoveryCompletes == phase # "panicked"

\* Sequence numbers recovered from the trees keep newer operations newer: in a
\* keyspace no later operation is hidden by an earlier one, and the next number
\* is above all.
NewestWins ==
    phase = "up" => \A k \in Keyspace : \A i \in Contents(k) :
        /\ ops[i].seqno < seqno
        /\ \A j \in Contents(k) : i < j => ops[i].seqno < ops[j].seqno
=============================================================================
