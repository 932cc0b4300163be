------------------------------ MODULE WorkerPool ------------------------------
(***************************************************************************)
(* The background workers (src/src/worker_pool.rs) with everything they    *)
(* wait for: the bounded message queue they read and also send to, the     *)
(* flush tasks, memtable rotation and back-pressure on the writers         *)
(* (keyspace/mod.rs), sealed journals and their eviction                   *)
(* (journal/manager.rs), and the drop of the database (db.rs).             *)
(*                                                                         *)
(* An item has size 1, and a memtable is the set of the sequence numbers   *)
(* of its items.  A tree (lsm_tree, external) is its active memtable, the  *)
(* sealed ones, the runs of level 0 and the highest number in its tables;  *)
(* one flush writes all sealed memtables as one run.                       *)
(***************************************************************************)
EXTENDS Integers, Sequences, FiniteSetsExt

CONSTANTS
    Keyspaces, Users,
    Droppable,     \* the keyspaces that users may clear or delete
    PoolSize,      \* worker_threads
    QueueCap,      \* bound of the message queue and of the flush tasks, 1000 in the code
    MemtableLimit, \* max_memtable_size
    SealedLimit,   \* sealed memtables that halt writes, 4 in the code
    L0Halt,        \* runs in level 0 that halt writes, 30 in the code
    L0Trigger,     \* runs in level 0 that a compaction strategy takes on
    JournalLimit,  \* items in a journal that make a flush rotate it, 64 MB in the code
    MaxJournals,   \* sealed journals that reach max_journaling_size
    MaxWrites,     \* bound on the writes
    MaxRestored,   \* bound on the memtables restored by a recovery
    MaxDrops,      \* bound on the keyspaces cleared and deleted
    MaxFailures    \* bound on the steps of a worker that fail

ASSUME WorkerPoolBounds ==
    /\ IsFiniteSet(Keyspaces) /\ Droppable \subseteq Keyspaces
    /\ IsFiniteSet(Users) /\ Users \cap Nat = {}
    /\ {PoolSize, QueueCap, SealedLimit, L0Halt, MaxJournals} \subseteq Nat \ {0}
    /\ {MemtableLimit, L0Trigger, JournalLimit, MaxWrites, MaxRestored, MaxDrops, MaxFailures} \subseteq Nat

Workers == 0..(PoolSize - 1)
Procs == Workers \cup Users

VARIABLES
    phase,     \* opening, running, dropped, closing, closed
    tree,      \* per keyspace: the active memtable and its id, the sealed memtables,
               \* the runs in level 0, the highest number in the tables (0: none)
    deleted,   \* keyspaces whose handle is marked is_deleted
    queue,     \* WorkerPool's channel
    tasks,     \* FlushManager's channel
    proc,      \* per thread: where it is, and the keyspace and memtable it works on
    counter,   \* active_thread_counter
    poisoned,  \* is_poisoned
    seqno, pos,\* the last number taken; items in the active journal
    items,     \* JournalManager's sealed journals: number and watermarks
    sealedNo,  \* number of journals sealed so far
    buffer,    \* write_buffer_size
    asked,     \* history: journals for whose eviction the stragglers were all asked to rotate
    cleared,   \* history: keyspaces that were cleared
    failures

vars == <<phase, tree, deleted, queue, tasks, proc, counter, poisoned, seqno, pos, items,
          sealedNo, buffer, asked, cleared, failures>>
journals == <<pos, items, sealedNo, asked>>
store == <<tree, deleted, seqno, buffer, cleared>>

-----------------------------------------------------------------------------
Idle == [at |-> "idle", ks |-> "none", id |-> 0]
At(p, pc) == proc[p].at = pc
Goto(p, pc) == proc' = [proc EXCEPT ![p] = [@ EXCEPT !.at = pc, !.id = 0]]
Leave(p, pc) == proc' = [proc EXCEPT ![p] = [Idle EXCEPT !.at = pc]]
Done(p) == Leave(p, "idle")
Ks(p) == proc[p].ks

Flush == [kind |-> "flush", ks |-> "none", id |-> 0]
Close == [kind |-> "close", ks |-> "none", id |-> 0]
Compact(k) == [kind |-> "compact", ks |-> k, id |-> 0]
RotateMemtable(k, i) == [kind |-> "rotate", ks |-> k, id |-> i]

\* flume's try_send, message after message: what does not fit is dropped.
TrySend(q, msgs) == q \o SubSeq(msgs, 1, Min({Len(msgs), QueueCap - Len(q)}))

Sealed(k) == UNION Range(tree[k].sealed)
HighestMemtable(k) == Max({0} \cup tree[k].active \cup Sealed(k))

\* The state keeps its type; active_thread_counter counts the workers that have
\* not ended by a Close message.
TypeOK ==
    /\ phase \in {"opening", "running", "dropped", "closing", "closed"}
    /\ \A k \in Keyspaces : tree[k].active \cup Sealed(k) \subseteq 1..seqno /\ tree[k].table \in 0..seqno
    /\ deleted \subseteq Keyspaces /\ cleared \subseteq Keyspaces
    /\ Len(queue) <= QueueCap /\ Len(tasks) <= QueueCap
    /\ \A i \in DOMAIN queue : queue[i].kind \in {"flush", "close", "compact", "rotate"}
    /\ counter = IF phase = "opening" THEN 0
                 ELSE Cardinality({w \in Workers : ~At(w, "closed")})
    /\ poisoned \in BOOLEAN
    /\ seqno \in Nat /\ pos \in 0..seqno /\ buffer \in Nat
    /\ failures \in 0..MaxFailures
    /\ \A i \in DOMAIN items : items[i].no \in 1..sealedNo

NewTree(memtables) == [id |-> 0, active |-> {}, l0 |-> 0, table |-> 0, sealed |-> memtables]

\* Database::create_new, or Database::recover with a memtable restored from a
\* sealed journal for some keyspaces: recover_sealed_memtables has counted it in
\* the write buffer and enqueued the journal with its watermarks.
Init ==
    /\ \E some \in SUBSET Keyspaces :
         /\ Cardinality(some) <= MaxRestored
         /\ tree = [k \in Keyspaces |-> NewTree(IF k \in some THEN <<{1}>> ELSE <<>>)]
         /\ items = IF some = {} THEN <<>> ELSE <<[no |-> 1, marks |-> [k \in some |-> 1]]>>
         /\ seqno = (IF some = {} THEN 0 ELSE 1) /\ sealedNo = seqno
         /\ buffer = Cardinality(some)
         /\ proc = [p \in Procs |-> IF p \in Workers THEN [Idle EXCEPT !.at = "new"] ELSE Idle]
    /\ phase = "opening" /\ pos = 0
    /\ queue = <<>> /\ tasks = <<>> /\ counter = 0
    /\ deleted = {} /\ poisoned = FALSE /\ asked = {} /\ cleared = {} /\ failures = 0

-----------------------------------------------------------------------------
\* The end of Database::recover: a flush task and a message for every keyspace
\* with sealed memtables, sent while no worker runs yet.
OpenEnqueue(k) ==
    /\ phase = "opening" /\ tree[k].sealed # <<>> /\ k \notin Range(tasks)
    /\ Len(tasks) < QueueCap /\ Len(queue) < QueueCap
    /\ tasks' = Append(tasks, k)
    /\ queue' = Append(queue, Flush)
    /\ UNCHANGED <<phase, proc, counter, poisoned, store, journals, failures>>

\* WorkerPool::start: the counter is raised by the size of the pool, then the
\* threads are spawned in turn.
Start ==
    /\ phase = "opening"
    /\ \A k \in Keyspaces : tree[k].sealed # <<>> => k \in Range(tasks)
    /\ counter' = PoolSize
    /\ proc' = [p \in Procs |-> Idle]
    /\ phase' = "running"
    /\ UNCHANGED <<queue, tasks, poisoned, store, journals, failures>>

\* Mutant: the counter is not lowered for the thread that could not be spawned.
StartFailsUncounted(w) ==
    /\ phase = "opening" /\ failures < MaxFailures
    /\ \A k \in Keyspaces : tree[k].sealed # <<>> => k \in Range(tasks)
    /\ counter' = PoolSize
    /\ proc' = [p \in Procs |-> IF p \in Users \/ p < w THEN Idle
                                ELSE IF p = w THEN [Idle EXCEPT !.at = "closed"] ELSE proc[p]]
    /\ phase' = "dropped"
    /\ failures' = failures + 1
    /\ UNCHANGED <<queue, tasks, poisoned, store, journals>>

\* Spawning thread w fails: the counter is lowered by one, no thread is spawned
\* after w, and opening returns the error, which drops the database.
StartFails(w) ==
    /\ phase = "opening" /\ failures < MaxFailures
    /\ \A k \in Keyspaces : tree[k].sealed # <<>> => k \in Range(tasks)
    /\ counter' = PoolSize - 1
    /\ proc' = [p \in Procs |-> IF p \in Users \/ p < w THEN Idle
                                ELSE IF p = w THEN [Idle EXCEPT !.at = "closed"] ELSE proc[p]]
    /\ phase' = "dropped"
    /\ failures' = failures + 1
    /\ UNCHANGED <<queue, tasks, poisoned, store, journals>>

-----------------------------------------------------------------------------
\* insert, remove or a batch, up to the release of the journal mutex.
Write(u, k) ==
    /\ phase = "running" /\ At(u, "idle") /\ seqno < MaxWrites
    /\ k \notin deleted /\ ~poisoned
    /\ seqno' = seqno + 1 /\ pos' = pos + 1
    /\ tree' = [tree EXCEPT ![k].active = @ \cup {seqno + 1}]
    /\ proc' = [proc EXCEPT ![u] = [at |-> "written", ks |-> k, id |-> Cardinality(tree[k].active) + 1]]
    /\ UNCHANGED <<phase, deleted, queue, tasks, counter, poisoned, items, sealedNo, buffer, asked, cleared, failures>>

\* Mutant: the counter of the write buffer is not raised.
MaintenanceUncounted(u) ==
    /\ At(u, "written")
    /\ queue' = IF proc[u].id > MemtableLimit
                THEN TrySend(queue, <<RotateMemtable(Ks(u), tree[Ks(u)].id)>>) ELSE queue
    /\ Goto(u, "stalled")
    /\ UNCHANGED <<phase, tree, deleted, tasks, counter, poisoned, seqno, journals, buffer, cleared, failures>>

\* After the mutex is released: count the item, and ask for a rotation when the
\* memtable was over its limit; the request names the memtable active by now.
Maintenance(u) ==
    /\ At(u, "written")
    /\ buffer' = buffer + 1
    /\ queue' = IF proc[u].id > MemtableLimit
                THEN TrySend(queue, <<RotateMemtable(Ks(u), tree[Ks(u)].id)>>) ELSE queue
    /\ Goto(u, "stalled")
    /\ UNCHANGED <<phase, tree, deleted, tasks, counter, poisoned, seqno, journals, cleared, failures>>

\* local_backpressure: wait for level 0, then for the sealed memtables.
CheckWriteHalt(u) ==
    /\ At(u, "stalled") /\ tree[Ks(u)].l0 < L0Halt
    /\ Goto(u, "sealed")
    /\ UNCHANGED <<phase, queue, tasks, counter, poisoned, store, journals, failures>>

Backpressure(u) ==
    /\ At(u, "sealed") /\ Len(tree[Ks(u)].sealed) < SealedLimit
    /\ Done(u)
    /\ UNCHANGED <<phase, queue, tasks, counter, poisoned, store, journals, failures>>

\* Keyspace::clear empties memtables and tables.
Clear(u, k) ==
    /\ phase = "running" /\ At(u, "idle") /\ seqno < MaxWrites /\ ~poisoned
    /\ Cardinality(cleared) + Cardinality(deleted) < MaxDrops
    /\ seqno' = seqno + 1 /\ pos' = pos + 1
    /\ tree' = [tree EXCEPT ![k] = [NewTree(<<>>) EXCEPT !.id = tree[k].id + 1]]
    /\ cleared' = cleared \cup {k}
    /\ UNCHANGED <<phase, deleted, queue, tasks, proc, counter, poisoned, items, sealedNo, buffer, asked, failures>>

\* Database::delete_keyspace.
Delete(u, k) ==
    /\ phase = "running" /\ At(u, "idle") /\ k \notin deleted
    /\ Cardinality(cleared) + Cardinality(deleted) < MaxDrops
    /\ deleted' = deleted \cup {k}
    /\ UNCHANGED <<phase, tree, queue, tasks, proc, counter, poisoned, seqno, journals, buffer, cleared, failures>>

-----------------------------------------------------------------------------
\* WorkerMessage::RotateMemtable: inner_rotate_memtable up to the release of the
\* journal mutex.  Unless someone else has rotated the memtable asked for, or it is
\* empty, seal it and go on to its flush.
Rotate(w) ==
    /\ At(w, "rotate")
    /\ LET k == Ks(w)
           t == tree[k]
       IN  IF t.id = proc[w].id /\ t.active # {}
           THEN /\ tree' = [tree EXCEPT ![k] = [t EXCEPT !.id = @ + 1, !.active = {},
                                                         !.sealed = Append(@, t.active)]]
                /\ Goto(w, "enqueue")
           ELSE Done(w) /\ UNCHANGED tree
    /\ UNCHANGED <<phase, deleted, queue, tasks, counter, poisoned, seqno, journals, buffer, cleared, failures>>

\* Mutant: no message follows the flush task.
EnqueueSilently(w) ==
    /\ At(w, "enqueue") /\ Len(tasks) < QueueCap
    /\ tasks' = Append(tasks, Ks(w))
    /\ Leave(w, "tidy")
    /\ UNCHANGED <<phase, queue, counter, poisoned, store, journals, failures>>

\* FlushManager::enqueue blocks while the tasks are full.
Enqueue(w) ==
    /\ At(w, "enqueue") /\ Len(tasks) < QueueCap
    /\ tasks' = Append(tasks, Ks(w))
    /\ Goto(w, "send")
    /\ UNCHANGED <<phase, queue, counter, poisoned, store, journals, failures>>

\* Mutant: the message is sent like the others, and dropped when it does not fit.
SendFlushTry(w) ==
    /\ At(w, "send")
    /\ queue' = TrySend(queue, <<Flush>>)
    /\ Leave(w, "tidy")
    /\ UNCHANGED <<phase, tasks, counter, poisoned, store, journals, failures>>

\* Sending Flush blocks while the queue is full.
SendFlush(w) ==
    /\ At(w, "send") /\ Len(queue) < QueueCap
    /\ queue' = Append(queue, Flush)
    /\ Leave(w, "tidy")
    /\ UNCHANGED <<phase, tasks, counter, poisoned, store, journals, failures>>

\* A watermark that JournalManager::maintenance has to wait for: the keyspace is
\* not deleted and its tables do not reach it.
Unflushed(item) == {k \in DOMAIN item.marks : k \notin deleted /\ tree[k].table < item.marks[k]}

\* JournalManager::maintenance: journals are removed, oldest first, up to one that
\* some keyspace still needs.
Evicted(s) ==
    LET kept == {i \in DOMAIN s : Unflushed(s[i]) # {}}
    IN  IF kept = {} THEN <<>> ELSE SubSeq(s, Min(kept), Len(s))

\* The rest of inner_rotate_memtable, and the end of a flush.
JournalMaintenance(w) ==
    /\ At(w, "tidy")
    /\ items' = Evicted(items)
    /\ Done(w)
    /\ UNCHANGED <<phase, queue, tasks, counter, poisoned, store, pos, sealedNo, asked, failures>>

-----------------------------------------------------------------------------
\* worker_tick receives a message.  Flush takes a task at once, if there is one;
\* Close ends the thread and lowers the counter.
Receive(w) ==
    /\ At(w, "idle") /\ queue # <<>>
    /\ queue' = Tail(queue)
    /\ LET m == Head(queue)
       IN  IF m = Flush
           THEN /\ proc' = [proc EXCEPT ![w] = IF tasks = <<>> THEN Idle
                                               ELSE [at |-> "journal", ks |-> Head(tasks), id |-> 0]]
                /\ tasks' = SubSeq(tasks, 2, Len(tasks))
                /\ UNCHANGED counter
           ELSE /\ proc' = [proc EXCEPT ![w] = [at |-> IF m = Close THEN "closed" ELSE m.kind,
                                               ks |-> m.ks, id |-> m.id]]
                /\ counter' = IF m = Close THEN counter - 1 ELSE counter
                /\ UNCHANGED tasks
    /\ UNCHANGED <<phase, poisoned, store, journals, failures>>

\* A flush of a large journal seals it with the highest memtable number of every
\* keyspace; at the size limit, the keyspaces that hold the oldest journal back
\* (get_keyspaces_to_flush_for_oldest_journal_eviction, deleted ones included) are
\* asked to rotate.
RotateJournal(w) ==
    /\ At(w, "journal")
    /\ IF pos <= JournalLimit THEN UNCHANGED <<queue, journals>>
       ELSE LET live == {k \in Keyspaces \ deleted : HighestMemtable(k) > 0}
                new == Append(items, [no |-> sealedNo + 1, marks |-> [k \in live |-> HighestMemtable(k)]])
                old == Head(new)
                late == {k \in DOMAIN old.marks : tree[k].table < old.marks[k]}
            IN  /\ items' = new /\ sealedNo' = sealedNo + 1 /\ pos' = 0
                /\ IF Len(new) < MaxJournals THEN UNCHANGED <<queue, asked>>
                   ELSE \E stragglers \in Bijection(1..Cardinality(late), late) :
                        LET asks == [i \in DOMAIN stragglers |-> RotateMemtable(stragglers[i], tree[stragglers[i]].id)]
                        IN  /\ queue' = TrySend(queue, asks)
                            /\ asked' = IF Len(queue) + Len(asks) <= QueueCap THEN asked \cup {old.no} ELSE asked
    /\ Goto(w, "run_flush")
    /\ UNCHANGED <<phase, tasks, counter, poisoned, store, failures>>

\* Mutant: a flush does not run journal maintenance.
RunFlushOnly(w) ==
    /\ At(w, "run_flush")
    /\ LET k == Ks(w)
       IN  IF tree[k].sealed = <<>> THEN UNCHANGED <<tree, buffer>>
           ELSE /\ tree' = [tree EXCEPT ![k].sealed = <<>>, ![k].l0 = @ + 1,
                                        ![k].table = Max({@} \cup Sealed(k))]
                /\ buffer' = Max({0, buffer - Cardinality(Sealed(k))})
    /\ queue' = TrySend(queue, [i \in 1..PoolSize |-> Compact(Ks(w))])
    /\ Done(w)
    /\ UNCHANGED <<phase, deleted, tasks, counter, poisoned, seqno, journals, cleared, failures>>

\* flush::worker::run: what is sealed becomes a run of level 0; its size is freed
\* from the write buffer, down to 0.  Then one
\* Compact is sent for every worker, as far as they fit.
RunFlush(w) ==
    /\ At(w, "run_flush")
    /\ LET k == Ks(w)
       IN  IF tree[k].sealed = <<>> THEN UNCHANGED <<tree, buffer>>
           ELSE /\ tree' = [tree EXCEPT ![k].sealed = <<>>, ![k].l0 = @ + 1,
                                        ![k].table = Max({@} \cup Sealed(k))]
                /\ buffer' = Max({0, buffer - Cardinality(Sealed(k))})
    /\ queue' = TrySend(queue, [i \in 1..PoolSize |-> Compact(Ks(w))])
    /\ Leave(w, "tidy")
    /\ UNCHANGED <<phase, deleted, tasks, counter, poisoned, seqno, journals, cleared, failures>>

\* WorkerMessage::Compact: of several workers the first leaves it to the others and
\* sends it again, blocking; the others compact, if the keyspace is not deleted.
RunCompaction(w) ==
    /\ At(w, "compact")
    /\ IF PoolSize > 1 /\ w = 0
       THEN /\ Len(queue) < QueueCap
            /\ queue' = Append(queue, Compact(Ks(w)))
            /\ UNCHANGED tree
       ELSE /\ tree' = IF Ks(w) \in deleted \/ tree[Ks(w)].l0 < L0Trigger THEN tree
                       ELSE [tree EXCEPT ![Ks(w)].l0 = 0]
            /\ UNCHANGED queue
    /\ Done(w)
    /\ UNCHANGED <<phase, deleted, tasks, counter, poisoned, seqno, journals, buffer, cleared, failures>>

\* A step of a worker returns an error: the database is poisoned and the thread
\* ends; the counter stays.
Fail(w) ==
    /\ failures < MaxFailures
    /\ \/ At(w, "run_flush") \/ At(w, "tidy")
       \/ At(w, "compact") /\ ~(PoolSize > 1 /\ w = 0)
    /\ poisoned' = TRUE
    /\ Leave(w, "failed")
    /\ failures' = failures + 1
    /\ UNCHANGED <<phase, queue, tasks, counter, store, journals>>

-----------------------------------------------------------------------------
\* Drop for DatabaseInner starts, once no call is under way: the queue is drained.
Drop ==
    /\ \/ phase = "dropped"
       \/ phase = "running" /\ \A u \in Users : At(u, "idle")
    /\ phase' = "closing"
    /\ queue' = <<>>
    /\ UNCHANGED <<tasks, proc, counter, poisoned, store, journals, failures>>

\* Mutant: the last worker is not told to close.
SendCloseToAllButOne ==
    /\ phase = "closing" /\ counter > 1 /\ Len(queue) < QueueCap
    /\ queue' = Append(queue, Close)
    /\ UNCHANGED <<phase, tasks, proc, counter, poisoned, store, journals, failures>>

\* While the counter is above 0, send Close, blocking.
SendClose ==
    /\ phase = "closing" /\ counter > 0 /\ Len(queue) < QueueCap
    /\ queue' = Append(queue, Close)
    /\ UNCHANGED <<phase, tasks, proc, counter, poisoned, store, journals, failures>>

\* Then drain again, and clear the flush tasks and the journal manager.
DropEnds ==
    /\ phase = "closing" /\ counter = 0
    /\ phase' = "closed"
    /\ queue' = <<>> /\ tasks' = <<>> /\ items' = <<>>
    /\ UNCHANGED <<proc, counter, poisoned, store, pos, sealedNo, asked, failures>>

UserStep(u) == Maintenance(u) \/ CheckWriteHalt(u) \/ Backpressure(u)
WorkerStep(w) ==
    \/ Receive(w) \/ Rotate(w) \/ Enqueue(w) \/ SendFlush(w) \/ JournalMaintenance(w)
    \/ RotateJournal(w) \/ RunFlush(w) \/ RunCompaction(w)

Next ==
    \/ \E k \in Keyspaces : OpenEnqueue(k)
    \/ Start \/ \E w \in Workers : StartFails(w)
    \/ \E u \in Users : \E k \in Keyspaces : Write(u, k)
    \/ \E u \in Users : \E k \in Droppable : Clear(u, k) \/ Delete(u, k)
    \/ \E u \in Users : UserStep(u)
    \/ \E w \in Workers : WorkerStep(w) \/ Fail(w)
    \/ Drop \/ SendClose \/ DropEnds

Spec == Init /\ [][Next]_vars

\* Every thread runs on; flume serves blocked senders and waiting receivers in the
\* order they came, so that each gets its turn.  Nobody has to write or to drop.
FairSpec ==
    /\ Spec
    /\ WF_vars(Start \/ \E k \in Keyspaces : OpenEnqueue(k))
    /\ \A u \in Users : WF_vars(UserStep(u))
    /\ \A w \in Workers : SF_vars(WorkerStep(w))
    /\ SF_vars((phase = "dropped" /\ Drop) \/ SendClose \/ DropEnds)

-----------------------------------------------------------------------------
\* Some worker is blocked sending to the full queue, and no worker is left that is
\* not: only workers receive.
Blocked(w) ==
    \/ At(w, "send")
    \/ At(w, "enqueue") /\ Len(tasks) = QueueCap
    \/ At(w, "compact") /\ w = 0 /\ PoolSize > 1
Gone(w) == proc[w].at \in {"new", "failed", "closed"}
Jammed ==
    /\ Len(queue) = QueueCap
    /\ \E w \in Workers : Blocked(w)
    /\ \A w \in Workers : Blocked(w) \/ Gone(w)
\* Level 0 of k halts writes and nothing is under way that would compact or flush it.
Starved(k) ==
    /\ tree[k].l0 >= L0Halt /\ tree[k].sealed = <<>>
    /\ Compact(k) \notin Range(queue) /\ \A w \in Workers : Ks(w) # k
Held(u) == At(u, "stalled") \/ At(u, "sealed")
\* The counter counts threads that are not there to be closed.
Stranded == counter > Cardinality({w \in Workers : ~Gone(w)})
Ended == poisoned \/ phase # "running"

\* A sealed memtable is never forgotten: a task for its keyspace is queued, about to
\* be queued or being flushed, and no task is without a message that makes a worker
\* take it, whichever rotations, requests and flushes overlap.
FlushScheduled ==
    Ended \/ /\ \A k \in Keyspaces : tree[k].sealed # <<>> =>
                  \/ k \in Range(tasks)
                  \/ \E p \in Procs : Ks(p) = k /\ proc[p].at \in {"enqueue", "journal", "run_flush"}
             /\ Len(tasks) <= Cardinality({i \in DOMAIN queue : queue[i] = Flush})
                              + Cardinality({p \in Procs : At(p, "send")})

\* write_buffer_size never reports less than the memtables hold, but for writes that
\* are still to be counted, although flushes free what they find at any time.
BufferCovers ==
    buffer + Cardinality({u \in Users : At(u, "written")}) >=
    Cardinality(UNION {{k} \X (tree[k].active \cup Sealed(k)) : k \in Keyspaces})

\* A write held by back-pressure returns: what it waits for is flushed and compacted,
\* unless a worker failed, the database is dropped, all workers are stuck sending to
\* the full queue, every request to compact the keyspace was dropped, or the keyspace
\* was deleted.
WritesReturn ==
    \A u \in Users : Held(u) ~>
        ~Held(u) \/ Ended \/ Jammed \/ (Held(u) /\ (Starved(Ks(u)) \/ Ks(u) \in deleted))

\* When the journals reach their limit and every keyspace that holds the oldest one
\* back could be asked to rotate, that journal is removed; a cleared keyspace has no
\* tables and may hold it back.
OldestEvicted ==
    (\E i \in DOMAIN items : items[i].no \in asked) ~>
        (\A i \in DOMAIN items : items[i].no \notin asked) \/ Ended \/ Jammed \/ cleared # {}

\* Dropping the database ends, unless the counter counts a thread that failed or was
\* never spawned, or the last worker is stuck sending to a queue full of Close.
CloseEnds == phase = "closing" ~> phase = "closed" \/ Stranded \/ Jammed
=============================================================================
