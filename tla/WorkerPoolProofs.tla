-------------------------- MODULE WorkerPoolProofs --------------------------
(***************************************************************************)
(* No sealed memtable is forgotten by the workers, and the write buffer    *)
(* and the running threads are counted right: for any keyspaces, users,    *)
(* pool, queue and limits.                                                 *)
(***************************************************************************)
EXTENDS WorkerPool, NaturalMaximum, FiniteSetTheorems

\* Messages as the channel carries them; those about a keyspace name one.
Message ==
    {m \in [kind : {"flush", "close", "compact", "rotate"}, ks : Keyspaces \cup {"none"}, id : Nat] :
        IF m.kind \in {"flush", "close"} THEN m.ks = "none" /\ m.id = 0 ELSE m.ks \in Keyspaces}

\* Steps at which a thread works on no keyspace.
Free == {"new", "idle", "closed", "failed", "tidy"}
\* Steps at which a thread is sure to flush what is sealed in its keyspace.
Flushing == {"enqueue", "journal", "run_flush"}

TreeShape ==
    /\ DOMAIN tree = Keyspaces
    /\ \A k \in Keyspaces : /\ DOMAIN tree[k] = {"id", "active", "l0", "table", "sealed"}
                            /\ tree[k].id \in Nat

ChannelShape ==
    /\ queue \in Seq(Message) /\ Len(queue) <= QueueCap
    /\ tasks \in Seq(Keyspaces)

\* A thread under way has a keyspace.
IsThread(x) == DOMAIN x = {"at", "ks", "id"} /\ (x.at \in Free \/ x.ks \in Keyspaces)
ThreadShape ==
    /\ DOMAIN proc = Procs
    /\ \A p \in Procs : IsThread(proc[p])

\* Sealed journals have watermarks for keyspaces.
JournalShape ==
    /\ items \in Seq(Range(items))
    /\ \A i \in 1..Len(items) : DOMAIN items[i].marks \subseteq Keyspaces

Shape == TreeShape /\ ChannelShape /\ ThreadShape /\ JournalShape

\* While the database is opened no thread does anything.
Opening == phase = "opening" => \A p \in Procs : proc[p].at = IF p \in Workers THEN "new" ELSE "idle"

\* Only workers send Flush.
WorkersSend == \A p \in Procs : proc[p].at = "send" => p \in Workers

Flushes == {i \in DOMAIN queue : queue[i] = Flush}
Senders == {p \in Procs : At(p, "send")}

\* A keyspace among the tasks.
Has(q, k) == \E i \in 1..Len(q) : q[i] = k

\* What is sealed has a task, or a thread that will flush it.
SealedHasTask ==
    \A k \in Keyspaces : tree[k].sealed # <<>> =>
        Has(tasks, k) \/ \E p \in Procs : proc[p].ks = k /\ proc[p].at \in Flushing

\* There are no more tasks than messages to take them, sent or about to be sent.
TasksHaveMessages == Len(tasks) <= Cardinality(Flushes) + Cardinality(Senders)

IInv ==
    /\ Shape /\ Opening /\ WorkersSend
    /\ ~Ended => SealedHasTask
    /\ ~Ended \/ phase = "opening" => TasksHaveMessages

-----------------------------------------------------------------------------
\* A sequence is a sequence of what it holds.
LEMMA SeqRange == ASSUME NEW S, NEW q \in Seq(S) PROVE q \in Seq(Range(q))
<1>1. Len(q) \in Nat /\ q = [i \in 1..Len(q) |-> q[i]] /\ DOMAIN q = 1..Len(q)
  OBVIOUS
<1> DEFINE R == Range(q)
<1>2. \A i \in 1..Len(q) : q[i] \in R
  BY <1>1, Zenon DEF Range
<1> HIDE DEF R
<1>3. q \in Seq(R)
  BY <1>1, <1>2
<1> QED
  BY <1>3 DEF R

\* Being in a sequence, by position.
LEMMA HasMeans == ASSUME NEW S, NEW q \in Seq(S), NEW k PROVE Has(q, k) <=> k \in Range(q)
<1>1. DOMAIN q = 1..Len(q)
  OBVIOUS
<1> QED
  BY <1>1, Zenon DEF Has, Range

\* What Append does, for any elements.
LEMMA AppendMeans ==
  ASSUME NEW S, NEW q \in Seq(S), NEW x \in S
  PROVE  /\ Append(q, x) \in Seq(S) /\ Append(q, x) # <<>> /\ Len(Append(q, x)) = Len(q) + 1
         /\ Append(q, x)[Len(q) + 1] = x /\ \A n \in 1..Len(q) : Append(q, x)[n] = q[n]
         /\ DOMAIN Append(q, x) = 1..(Len(q) + 1)
  OBVIOUS

\* What Tail does, for any elements.
LEMMA TailMeans ==
  ASSUME NEW S, NEW q \in Seq(S), q # <<>>
  PROVE  /\ Tail(q) \in Seq(S) /\ Len(q) \in Nat \ {0} /\ Len(Tail(q)) = Len(q) - 1
         /\ Head(q) = q[1] /\ Head(q) \in S /\ \A i \in 1..(Len(q) - 1) : Tail(q)[i] = q[i + 1]
         /\ DOMAIN Tail(q) = 1..(Len(q) - 1) /\ SubSeq(q, 2, Len(q)) = Tail(q)
  OBVIOUS

\* The lesser of two numbers.
LEMMA MinMeans ==
  ASSUME NEW a \in Int, NEW b \in Int
  PROVE  Min({a, b}) \in {a, b} /\ Min({a, b}) <= a /\ Min({a, b}) <= b
<1>1. \E x \in {a, b} : \A y \in {a, b} : x =< y
  <2>1. CASE a <= b
    BY <2>1
  <2>2. CASE b <= a
    BY <2>2
  <2> QED
    BY <2>1, <2>2
<1>2. Min({a, b}) \in {a, b} /\ \A y \in {a, b} : Min({a, b}) =< y
  BY <1>1, Zenon DEF Min
<1> QED
  BY <1>2

\* A message about a keyspace is none of those that make a worker flush or close.
LEMMA MessageKinds ==
  /\ Flush \in Message /\ Close \in Message /\ Flush.kind = "flush"
  /\ \A k \in Keyspaces : Compact(k) \in Message /\ Compact(k) # Flush
  /\ \A k \in Keyspaces, i \in Nat : RotateMemtable(k, i) \in Message /\ RotateMemtable(k, i) # Flush
  /\ Close # Flush
  /\ \A m \in Message : m # Flush /\ m # Close => m.kind \in {"compact", "rotate"} /\ m.ks \in Keyspaces
  BY DEF Flush, Close, Compact, RotateMemtable, Message

\* try_send keeps what is queued and adds no Flush.
LEMMA TrySendMeans ==
  ASSUME NEW q \in Seq(Message), Len(q) <= QueueCap, NEW msgs \in Seq(Message),
         \A i \in 1..Len(msgs) : msgs[i] # Flush
  PROVE  /\ TrySend(q, msgs) \in Seq(Message) /\ Len(TrySend(q, msgs)) <= QueueCap
         /\ {i \in DOMAIN TrySend(q, msgs) : TrySend(q, msgs)[i] = Flush} = {i \in DOMAIN q : q[i] = Flush}
<1> DEFINE M == Message
           n == Min({Len(msgs), QueueCap - Len(q)})
           s == SubSeq(msgs, 1, n)
           t == q \o s
<1>1. Len(msgs) \in Nat /\ Len(q) \in Nat /\ QueueCap \in Nat /\ q \in Seq(M) /\ msgs \in Seq(M)
  BY WorkerPoolBounds
<1>2. n \in 0..Len(msgs) /\ n <= QueueCap - Len(q)
  <2>1. QueueCap - Len(q) \in Nat /\ QueueCap - Len(q) \in Int /\ Len(msgs) \in Int
    BY <1>1
  <2>2. n \in {Len(msgs), QueueCap - Len(q)} /\ n <= Len(msgs) /\ n <= QueueCap - Len(q)
    BY <2>1, MinMeans, Zenon
  <2> HIDE DEF n
  <2> QED
    BY <1>1, <2>1, <2>2
<1> HIDE DEF M, n
<1>3. s \in Seq(M) /\ Len(s) = n /\ \A i \in 1..n : s[i] = msgs[i]
  BY <1>1, <1>2
<1> HIDE DEF s
<1>4. t \in Seq(M) /\ Len(t) = Len(q) + n /\ DOMAIN t = 1..(Len(q) + n) /\ DOMAIN q = 1..Len(q)
      /\ (\A i \in 1..Len(q) : t[i] = q[i]) /\ \A i \in (Len(q) + 1)..(Len(q) + n) : t[i] = s[i - Len(q)]
  BY <1>1, <1>2, <1>3
<1> HIDE DEF t
<1>5. \A i \in (Len(q) + 1)..(Len(q) + n) : t[i] # Flush
  <2> SUFFICES ASSUME NEW i \in (Len(q) + 1)..(Len(q) + n) PROVE t[i] # Flush
    OBVIOUS
  <2>1. i - Len(q) \in 1..n /\ i - Len(q) \in 1..Len(msgs)
    BY <1>1, <1>2
  <2> QED
    BY <1>3, <1>4, <2>1
<1>6. {i \in DOMAIN t : t[i] = Flush} = {i \in DOMAIN q : q[i] = Flush}
  <2>1. 1..(Len(q) + n) = 1..Len(q) \cup (Len(q) + 1)..(Len(q) + n)
    BY <1>1, <1>2
  <2> QED
    BY <1>4, <1>5, <2>1, Zenon
<1>7. Len(t) <= QueueCap
  BY <1>1, <1>2, <1>4
<1>8. TrySend(q, msgs) = t
  BY Zenon DEF TrySend, t, s, n
<1> QED
  BY <1>4, <1>6, <1>7, <1>8 DEF M

\* The Flush messages queued can be counted, and so can the senders, which are workers.
LEMMA Counts ==
  ASSUME ChannelShape, WorkersSend
  PROVE  /\ IsFiniteSet(Flushes) /\ Cardinality(Flushes) \in Nat
         /\ IsFiniteSet(Senders) /\ Cardinality(Senders) \in Nat
         /\ DOMAIN queue = 1..Len(queue) /\ Len(queue) \in Nat /\ Len(tasks) \in Nat
<1>1. DOMAIN queue = 1..Len(queue) /\ Len(queue) \in Nat /\ Len(tasks) \in Nat
  BY DEF ChannelShape
<1>2. IsFiniteSet(1..Len(queue))
  BY <1>1, FS_Interval
<1>3. Flushes \in SUBSET (1..Len(queue))
  BY <1>1, Zenon DEF Flushes
<1>4. IsFiniteSet(Workers)
  BY FS_Interval, WorkerPoolBounds DEF Workers
<1>5. Senders \in SUBSET Workers
  BY Zenon DEF Senders, WorkersSend, At
<1>6. IsFiniteSet(Flushes) /\ IsFiniteSet(Senders)
  BY <1>2, <1>3, <1>4, <1>5, FS_Subset, Zenon
<1> QED
  BY <1>1, <1>6, FS_CardinalityType, Zenon

\* Queueing a Flush adds one.
LEMMA FlushQueued ==
  ASSUME ChannelShape, WorkersSend, queue' = Append(queue, Flush)
  PROVE  Cardinality(Flushes') = Cardinality(Flushes) + 1
<1>1. IsFiniteSet(Flushes) /\ DOMAIN queue = 1..Len(queue) /\ Len(queue) \in Nat
  BY Counts
<1>2. queue \in Seq(Message) /\ Flush \in Message
  BY MessageKinds DEF ChannelShape
<1>3. DOMAIN queue' = 1..(Len(queue) + 1) /\ queue'[Len(queue) + 1] = Flush
      /\ \A i \in 1..Len(queue) : queue'[i] = queue[i]
  <2>1. PICK q : q = Append(queue, Flush)
    OBVIOUS
  <2>2. DOMAIN q = 1..(Len(queue) + 1) /\ q[Len(queue) + 1] = Flush /\ \A i \in 1..Len(queue) : q[i] = queue[i]
    BY <1>2, <2>1, AppendMeans
  <2> QED
    BY <2>1, <2>2, Zenon
<1>4. 1..(Len(queue) + 1) = 1..Len(queue) \cup {Len(queue) + 1} /\ Len(queue) + 1 \notin 1..Len(queue)
  BY <1>1
<1>5. Flushes' = Flushes \cup {Len(queue) + 1} /\ Len(queue) + 1 \notin Flushes
  <2>1. \A i : i \in Flushes' <=> i \in DOMAIN queue' /\ queue'[i] = Flush'
    BY Zenon DEF Flushes
  <2>2. \A i : i \in Flushes <=> i \in DOMAIN queue /\ queue[i] = Flush
    BY Zenon DEF Flushes
  <2>3. Flush' = Flush
    BY Zenon DEF Flush
  <2> QED
    BY <1>1, <1>3, <1>4, <2>1, <2>2, <2>3, Zenon
<1> QED
  BY <1>1, <1>5, FS_AddElement, Zenon

\* Receiving a message takes one from the count, if it is a Flush.
LEMMA MessageTaken ==
  ASSUME ChannelShape, WorkersSend, queue # <<>>, queue' = Tail(queue)
  PROVE  Cardinality(Flushes') = IF Head(queue) = Flush THEN Cardinality(Flushes) - 1 ELSE Cardinality(Flushes)
<1>1. IsFiniteSet(Flushes) /\ DOMAIN queue = 1..Len(queue) /\ Cardinality(Flushes) \in Nat
  BY Counts
<1>2. /\ Len(queue) \in Nat \ {0} /\ Head(queue) = queue[1]
      /\ DOMAIN queue' = 1..(Len(queue) - 1) /\ \A i \in 1..(Len(queue) - 1) : queue'[i] = queue[i + 1]
  BY TailMeans DEF ChannelShape
<1> DEFINE A == Flushes \ {1}
           B == Flushes'
           f == [i \in A |-> i - 1]
<1>3. A = {i \in 2..Len(queue) : queue[i] = Flush}
  BY <1>1, <1>2 DEF Flushes
<1>4. B = {i \in 1..(Len(queue) - 1) : queue[i + 1] = Flush}
  <2>1. Flush' = Flush
    BY Zenon DEF Flush
  <2> QED
    BY <1>2, <2>1, Zenon DEF Flushes
<1> HIDE DEF A, B
<1>5. f \in Bijection(A, B)
  <2>1. f \in [A -> B]
    BY <1>2, <1>3, <1>4
  <2>2. \A a, b \in DOMAIN f : f[a] = f[b] => a = b
    BY <1>3
  <2>3. \A t \in B : \E i \in A : f[i] = t
    <3> SUFFICES ASSUME NEW t \in B PROVE \E i \in A : f[i] = t
      OBVIOUS
    <3>1. t + 1 \in A /\ (t + 1) - 1 = t
      BY <1>2, <1>3, <1>4
    <3>2. f[t + 1] = t
      BY <3>1
    <3> QED
      BY <3>1, <3>2, Zenon
  <2> HIDE DEF f
  <2> QED
    BY <2>1, <2>2, <2>3, Zenon DEF Bijection, Injection, Surjection, IsInjective
<1>6. IsFiniteSet(A) /\ Cardinality(A) = IF 1 \in Flushes THEN Cardinality(Flushes) - 1 ELSE Cardinality(Flushes)
  BY <1>1, FS_RemoveElement, Zenon DEF A
<1>7. Cardinality(B) = Cardinality(A)
  <2>1. ExistsBijection(A, B)
    BY <1>5, Zenon DEF ExistsBijection
  <2> QED
    BY <1>6, <2>1, FS_Bijection, Zenon
<1>8. 1 \in Flushes <=> Head(queue) = Flush
  <2>1. 1 \in 1..Len(queue)
    BY <1>2
  <2> QED
    BY <1>1, <1>2, <2>1, Zenon DEF Flushes
<1> QED
  BY <1>6, <1>7, <1>8, Zenon DEF B

-----------------------------------------------------------------------------
\* A thread moves on and neither takes nor adds a task or a Flush: the invariant is kept
\* if a thread that was to flush still is, or has.
LEMMA ThreadStep ==
  ASSUME IInv, NEW p \in Procs, NEW x, proc' = [proc EXCEPT ![p] = x], phase # "opening",
         phase' = phase, poisoned' = poisoned, tasks' = tasks, Cardinality(Flushes') = Cardinality(Flushes),
         proc[p].at # "send", x.at # "send", IsThread(x),
         TreeShape', ChannelShape', JournalShape',
         \A k \in Keyspaces :
             /\ tree'[k].sealed # <<>>
             /\ tree[k].sealed = <<>> \/ (proc[p].ks = k /\ proc[p].at \in Flushing)
             => x.ks = k /\ x.at \in Flushing
  PROVE  IInv'
<1>1. ThreadShape /\ WorkersSend
  BY Zenon DEF IInv, Shape
<1>2. DOMAIN proc' = Procs /\ proc'[p] = x /\ \A q \in Procs : q # p => proc'[q] = proc[q]
  BY <1>1, Zenon DEF ThreadShape
<1>3. ThreadShape' /\ WorkersSend'
  <2>1. Procs' = Procs /\ Workers' = Workers
    BY Zenon DEF Procs, Workers
  <2> QED
    BY <1>1, <1>2, <2>1, Zenon DEF ThreadShape, WorkersSend, IsThread
<1>4. Senders' = Senders
  <2>1. \A q : q \in Senders' <=> q \in Procs /\ proc'[q].at = "send"
    BY Zenon DEF Senders, At, Procs, Workers
  <2>2. \A q : q \in Senders <=> q \in Procs /\ proc[q].at = "send"
    BY Zenon DEF Senders, At
  <2> QED
    BY <1>2, <2>1, <2>2, Zenon
<1>5. (Ended' <=> Ended) /\ phase' # "opening"
  BY Zenon DEF Ended
<1>6. ASSUME ~Ended PROVE SealedHasTask'
  <2> SUFFICES ASSUME NEW k \in Keyspaces, tree'[k].sealed # <<>>, ~Has(tasks, k)
               PROVE  \E q \in Procs : proc'[q].ks = k /\ proc'[q].at \in Flushing
    BY Zenon DEF SealedHasTask, Has, Procs, Workers
  <2>1. CASE tree[k].sealed = <<>> \/ (proc[p].ks = k /\ proc[p].at \in Flushing)
    BY <1>2, <2>1, Zenon
  <2>2. CASE tree[k].sealed # <<>> /\ ~(proc[p].ks = k /\ proc[p].at \in Flushing)
    <3>1. PICK q \in Procs : proc[q].ks = k /\ proc[q].at \in Flushing
      BY <1>6, <2>2, Zenon DEF IInv, SealedHasTask
    <3> QED
      BY <1>2, <2>2, <3>1, Zenon
  <2> QED
    BY <2>1, <2>2, Zenon
<1>7. ASSUME ~Ended PROVE TasksHaveMessages'
  BY <1>4, <1>7, Zenon DEF IInv, TasksHaveMessages
<1> QED
  BY <1>3, <1>5, <1>6, <1>7, Zenon DEF IInv, Shape, Opening

\* While the database is opened, only opening it goes on.
LEMMA NotOpening ==
  ASSUME IInv, NEW p \in Procs, proc[p].at \notin {"new", "idle"} \/ (p \in Workers /\ proc[p].at # "new")
  PROVE  phase # "opening"
  BY Zenon DEF IInv, Opening

\* What does not change keeps its shape.
LEMMA SameShapes ==
  /\ TreeShape /\ UNCHANGED tree => TreeShape'
  /\ ChannelShape /\ UNCHANGED <<queue, tasks>> => ChannelShape'
  /\ JournalShape /\ UNCHANGED items => JournalShape'
  /\ UNCHANGED queue => Flushes' = Flushes
<1>1. TreeShape /\ UNCHANGED tree => TreeShape'
  BY Zenon DEF TreeShape
<1>2. ChannelShape /\ UNCHANGED <<queue, tasks>> => ChannelShape'
  BY Zenon DEF ChannelShape, Message
<1>3. JournalShape /\ UNCHANGED items => JournalShape'
  BY Zenon DEF JournalShape, Range
<1>4. UNCHANGED queue => Flushes' = Flushes
  BY Zenon DEF Flushes, Flush
<1> QED
  BY <1>1, <1>2, <1>3, <1>4, Zenon

\* Messages sent with try_send leave the channel well formed and add no Flush.
LEMMA TrySent ==
  ASSUME ChannelShape, NEW msgs \in Seq(Message), \A i \in 1..Len(msgs) : msgs[i] # Flush,
         queue' = TrySend(queue, msgs), tasks' = tasks
  PROVE  ChannelShape' /\ Flushes' = Flushes
<1>1. /\ queue' \in Seq(Message) /\ Len(queue') <= QueueCap
      /\ {i \in DOMAIN queue' : queue'[i] = Flush} = {i \in DOMAIN queue : queue[i] = Flush}
  BY TrySendMeans, Zenon DEF ChannelShape
<1> QED
  BY <1>1, Zenon DEF ChannelShape, Flushes, Flush, Message

\* A thread that leaves trees, channels and journals alone.
LEMMA LoneStep ==
  ASSUME IInv, NEW p \in Procs, NEW x, proc' = [proc EXCEPT ![p] = x], phase # "opening",
         UNCHANGED <<phase, poisoned, tasks, queue, tree, items>>,
         proc[p].at \notin Flushing \cup {"send"}, x.at # "send", IsThread(x)
  PROVE  IInv'
<1>1. TreeShape' /\ ChannelShape' /\ JournalShape' /\ Flushes' = Flushes
  BY SameShapes, Zenon DEF IInv, Shape
<1>2. IInv /\ (\E q \in Procs : TRUE) /\ \A k \in Keyspaces :
             /\ tree'[k].sealed # <<>>
             /\ tree[k].sealed = <<>> \/ (proc[p].ks = k /\ proc[p].at \in Flushing)
             => x.ks = k /\ x.at \in Flushing
  BY Zenon
<1> QED
  BY <1>1, <1>2, ThreadStep, Zenon

\* What Goto and Leave make of a thread.
LEMMA Moves ==
  ASSUME ThreadShape, NEW p \in Procs, NEW pc
  PROVE  /\ Goto(p, pc) => \E x : /\ proc' = [proc EXCEPT ![p] = x] /\ x.at = pc /\ x.ks = proc[p].ks
                                  /\ DOMAIN x = {"at", "ks", "id"}
         /\ Leave(p, pc) => \E x : proc' = [proc EXCEPT ![p] = x] /\ x.at = pc /\ DOMAIN x = {"at", "ks", "id"}
<1>0. DOMAIN proc[p] = {"at", "ks", "id"}
  BY Zenon DEF ThreadShape, IsThread
<1>1. ASSUME Goto(p, pc)
      PROVE  \E x : proc' = [proc EXCEPT ![p] = x] /\ x.at = pc /\ x.ks = proc[p].ks /\ DOMAIN x = {"at", "ks", "id"}
  <2> DEFINE x == [proc[p] EXCEPT !.at = pc, !.id = 0]
  <2>1. proc' = [proc EXCEPT ![p] = x]
    BY <1>1 DEF Goto
  <2>2. x.at = pc /\ x.ks = proc[p].ks /\ DOMAIN x = {"at", "ks", "id"}
    BY <1>0
  <2> HIDE DEF x
  <2> QED
    BY <2>1, <2>2, Zenon
<1>2. ASSUME Leave(p, pc) PROVE \E x : proc' = [proc EXCEPT ![p] = x] /\ x.at = pc /\ DOMAIN x = {"at", "ks", "id"}
  <2> DEFINE x == [Idle EXCEPT !.at = pc]
  <2>1. proc' = [proc EXCEPT ![p] = x]
    BY <1>2, Zenon DEF Leave
  <2>2. x.at = pc /\ DOMAIN x = {"at", "ks", "id"}
    BY DEF Idle
  <2> HIDE DEF x
  <2> QED
    BY <2>1, <2>2, Zenon
<1> QED
  BY <1>1, <1>2, Zenon

LEMMA Moved ==
  ASSUME ThreadShape, NEW p \in Procs, NEW pc, Goto(p, pc) \/ Leave(p, pc)
  PROVE  \E x : proc' = [proc EXCEPT ![p] = x] /\ x.at = pc
<1>1. CASE Goto(p, pc)
  <2>1. PICK x : proc' = [proc EXCEPT ![p] = x] /\ x.at = pc /\ x.ks = proc[p].ks /\ DOMAIN x = {"at", "ks", "id"}
    BY <1>1, Moves, Zenon
  <2> QED
    BY <2>1, Zenon
<1>2. CASE Leave(p, pc)
  <2>1. PICK x : proc' = [proc EXCEPT ![p] = x] /\ x.at = pc /\ DOMAIN x = {"at", "ks", "id"}
    BY <1>2, Moves, Zenon
  <2> QED
    BY <2>1, Zenon
<1> QED
  BY <1>1, <1>2, Zenon

-----------------------------------------------------------------------------
\* insert, remove or a batch: no memtable is sealed.
LEMMA WriteIInv == ASSUME IInv, NEW u \in Users, NEW k \in Keyspaces, Write(u, k) PROVE IInv'
<1>1. /\ phase = "running" /\ proc[u].at = "idle"
      /\ tree' = [tree EXCEPT ![k].active = @ \cup {seqno + 1}]
      /\ proc' = [proc EXCEPT ![u] = [at |-> "written", ks |-> k, id |-> Cardinality(tree[k].active) + 1]]
      /\ UNCHANGED <<phase, queue, tasks, poisoned, items>>
  BY Zenon DEF Write, At
<1>2. TreeShape /\ ChannelShape /\ JournalShape
  BY Zenon DEF IInv, Shape
<1>3. DOMAIN tree' = Keyspaces /\ \A j \in Keyspaces :
        tree'[j].sealed = tree[j].sealed /\ tree'[j].id = tree[j].id /\ DOMAIN tree'[j] = DOMAIN tree[j]
  BY <1>1, <1>2 DEF TreeShape
<1>4. PICK x : x = [at |-> "written", ks |-> k, id |-> Cardinality(tree[k].active) + 1]
  OBVIOUS
<1>5. x.at = "written" /\ x.ks = k /\ DOMAIN x = {"at", "ks", "id"}
  BY <1>4
<1>6. u \in Procs /\ proc' = [proc EXCEPT ![u] = x]
  BY <1>1, <1>4, Zenon DEF Procs
<1>7. IsThread(x) /\ x.at # "send" /\ proc[u].at # "send" /\ proc[u].at \notin Flushing /\ phase # "opening"
  BY <1>1, <1>5 DEF IsThread, Flushing
<1>8. TreeShape' /\ ChannelShape' /\ JournalShape' /\ Flushes' = Flushes
  BY <1>1, <1>2, <1>3, SameShapes, Zenon DEF TreeShape
<1>9. \A j \in Keyspaces : tree'[j].sealed = tree[j].sealed
  BY <1>3, Zenon
<1> HIDE DEF IInv
<1> QED
  BY <1>1, <1>6, <1>7, <1>8, <1>9, ThreadStep, Zenon

\* check_memtable_rotate asks for a rotation; nothing else of a write's end is about flushes.
LEMMA UserStepIInv == ASSUME IInv, NEW u \in Users, UserStep(u) PROVE IInv'
<1>1. TreeShape /\ ChannelShape /\ JournalShape /\ ThreadShape /\ u \in Procs
  BY Zenon DEF IInv, Shape, Procs
<1>2. CASE Maintenance(u)
  <2>1. PICK x : /\ proc' = [proc EXCEPT ![u] = x] /\ x.at = "stalled" /\ x.ks = proc[u].ks
                 /\ DOMAIN x = {"at", "ks", "id"}
    BY <1>1, <1>2, Moves, Zenon DEF Maintenance
  <2>2. proc[u].at = "written" /\ UNCHANGED <<phase, tree, tasks, poisoned, items>>
    BY <1>2, Zenon DEF Maintenance, At, journals
  <2>3. proc[u].ks \in Keyspaces
    BY <1>1, <2>2 DEF ThreadShape, IsThread, Free
  <2>4. PICK m : m = RotateMemtable(proc[u].ks, tree[proc[u].ks].id)
    OBVIOUS
  <2>5. m \in Message /\ m # Flush
    BY <1>1, <2>3, <2>4, MessageKinds, Zenon DEF TreeShape
  <2>6. queue' = TrySend(queue, <<m>>) \/ queue' = queue
    BY <1>2, <2>4, Zenon DEF Maintenance, Ks
  <2>7. <<m>> \in Seq(Message) /\ \A i \in 1..Len(<<m>>) : <<m>>[i] # Flush
    BY <2>5
  <2>8. ChannelShape' /\ Flushes' = Flushes
    <3>1. CASE queue' = TrySend(queue, <<m>>)
      BY <1>1, <2>2, <2>7, <3>1, TrySent, Zenon
    <3>2. CASE queue' = queue
      BY <1>1, <2>2, <3>2, SameShapes, Zenon
    <3> QED
      BY <2>6, <3>1, <3>2, Zenon
  <2>9. IsThread(x) /\ x.at # "send" /\ proc[u].at # "send" /\ proc[u].at \notin Flushing
        /\ proc[u].at \notin {"new", "idle"}
    BY <2>1, <2>2, <2>3 DEF IsThread, Flushing
  <2>10. phase # "opening"
    BY <1>1, <2>9, NotOpening, Zenon
  <2>11. TreeShape' /\ JournalShape'
    BY <1>1, <2>2, SameShapes, Zenon
  <2> QED
    BY <1>1, <2>1, <2>2, <2>8, <2>9, <2>10, <2>11, ThreadStep, Zenon
<1>3. CASE CheckWriteHalt(u)
  <2>1. PICK x : /\ proc' = [proc EXCEPT ![u] = x] /\ x.at = "sealed" /\ x.ks = proc[u].ks
                 /\ DOMAIN x = {"at", "ks", "id"}
    BY <1>1, <1>3, Moves, Zenon DEF CheckWriteHalt
  <2>2. proc[u].at = "stalled" /\ UNCHANGED <<phase, tree, tasks, queue, poisoned, items>>
    BY <1>3, Zenon DEF CheckWriteHalt, At, journals, store
  <2>3. proc[u].ks \in Keyspaces
    BY <1>1, <2>2 DEF ThreadShape, IsThread, Free
  <2>4. IsThread(x) /\ x.at # "send" /\ proc[u].at \notin Flushing \cup {"send"}
        /\ proc[u].at \notin {"new", "idle"}
    BY <2>1, <2>2, <2>3 DEF IsThread, Flushing
  <2> QED
    BY <1>1, <2>1, <2>2, <2>4, NotOpening, LoneStep, Zenon
<1>4. CASE Backpressure(u)
  <2>1. PICK x : proc' = [proc EXCEPT ![u] = x] /\ x.at = "idle" /\ DOMAIN x = {"at", "ks", "id"}
    BY <1>1, <1>4, Moves, Zenon DEF Backpressure, Done
  <2>2. proc[u].at = "sealed" /\ UNCHANGED <<phase, tree, tasks, queue, poisoned, items>>
    BY <1>4, Zenon DEF Backpressure, At, journals, store
  <2>4. IsThread(x) /\ x.at # "send" /\ proc[u].at \notin Flushing \cup {"send"}
        /\ proc[u].at \notin {"new", "idle"}
    BY <2>1, <2>2 DEF IsThread, Flushing, Free
  <2> QED
    BY <1>1, <2>1, <2>2, <2>4, NotOpening, LoneStep, Zenon
<1> QED
  BY <1>2, <1>3, <1>4, Zenon DEF UserStep

\* No thread moves and nothing is sealed.
LEMMA RestStep ==
  ASSUME IInv, UNCHANGED <<proc, phase, poisoned, tasks, queue, items>>, TreeShape',
         \A k \in Keyspaces : tree'[k].sealed # <<>> => tree[k].sealed # <<>>
  PROVE  IInv'
<1>1. ChannelShape' /\ JournalShape' /\ Flushes' = Flushes
  BY SameShapes, Zenon DEF IInv, Shape
<1>2. Senders' = Senders /\ Procs' = Procs /\ Workers' = Workers
  BY Zenon DEF Senders, At, Procs, Workers
<1>3. ThreadShape' /\ WorkersSend' /\ Opening' /\ (Ended' <=> Ended)
  BY <1>2, Zenon DEF IInv, Shape, ThreadShape, WorkersSend, Opening, IsThread, Ended
<1>4. ~Ended => SealedHasTask'
  BY <1>2, Zenon DEF IInv, SealedHasTask, Has
<1>5. ~Ended \/ phase = "opening" => TasksHaveMessages'
  BY <1>1, <1>2, Zenon DEF IInv, TasksHaveMessages
<1> QED
  BY <1>1, <1>3, <1>4, <1>5, Zenon DEF IInv, Shape

\* Keyspace::clear drops what is sealed; delete_keyspace leaves trees alone.
LEMMA DropIInv == ASSUME IInv, NEW u \in Users, NEW k \in Droppable, Clear(u, k) \/ Delete(u, k) PROVE IInv'
<1>1. TreeShape /\ k \in Keyspaces
  BY WorkerPoolBounds, Zenon DEF IInv, Shape
<1>2. CASE Clear(u, k)
  <2>1. /\ tree' = [tree EXCEPT ![k] = [NewTree(<<>>) EXCEPT !.id = tree[k].id + 1]]
        /\ UNCHANGED <<proc, phase, poisoned, tasks, queue, items>>
    BY <1>2, Zenon DEF Clear
  <2>2. PICK t : t = [NewTree(<<>>) EXCEPT !.id = tree[k].id + 1]
    OBVIOUS
  <2>3. DOMAIN t = {"id", "active", "l0", "table", "sealed"} /\ t.id = tree[k].id + 1 /\ t.sealed = <<>>
    BY <2>2 DEF NewTree
  <2>4. t.id \in Nat
    BY <1>1, <2>3 DEF TreeShape
  <2>5. DOMAIN tree' = Keyspaces /\ tree'[k] = t /\ \A j \in Keyspaces : j # k => tree'[j] = tree[j]
    BY <1>1, <2>1, <2>2, Zenon DEF TreeShape
  <2>6. TreeShape'
    BY <1>1, <2>3, <2>4, <2>5, Zenon DEF TreeShape
  <2>7. \A j \in Keyspaces : tree'[j].sealed # <<>> => tree[j].sealed # <<>>
    BY <2>3, <2>5, Zenon
  <2> QED
    BY <2>1, <2>6, <2>7, RestStep, Zenon
<1>3. CASE Delete(u, k)
  <2>1. UNCHANGED <<tree, proc, phase, poisoned, tasks, queue, items>>
    BY <1>3, Zenon DEF Delete, journals
  <2> QED
    BY <1>1, <2>1, SameShapes, RestStep, Zenon
<1> QED
  BY <1>2, <1>3, Zenon

\* inner_rotate_memtable: who seals a memtable goes on to queue its flush.
LEMMA RotateIInv == ASSUME IInv, NEW w \in Workers, Rotate(w) PROVE IInv'
<1>1. TreeShape /\ ChannelShape /\ JournalShape /\ ThreadShape /\ w \in Procs
  BY Zenon DEF IInv, Shape, Procs
<1>2. proc[w].at = "rotate" /\ UNCHANGED <<phase, queue, tasks, poisoned, items>>
  BY Zenon DEF Rotate, At, journals
<1>3. PICK k : k = proc[w].ks
  OBVIOUS
<1>4. k \in Keyspaces
  BY <1>1, <1>2, <1>3 DEF ThreadShape, IsThread, Free
<1>5. /\ proc[w].at \notin Flushing \cup {"send"} /\ proc[w].at # "send" /\ proc[w].at \notin Flushing
      /\ proc[w].at \notin {"new", "idle"}
  BY <1>2 DEF Flushing
<1>6. phase # "opening"
  BY <1>1, <1>5, NotOpening, Zenon
<1>7. ChannelShape' /\ JournalShape' /\ Flushes' = Flushes
  BY <1>1, <1>2, SameShapes, Zenon
<1>8. CASE Done(w) /\ UNCHANGED tree
  <2>1. PICK x : proc' = [proc EXCEPT ![w] = x] /\ x.at = "idle" /\ DOMAIN x = {"at", "ks", "id"}
    BY <1>1, <1>8, Moves, Zenon DEF Done
  <2>2. IsThread(x) /\ x.at # "send"
    BY <2>1 DEF IsThread, Free
  <2> QED
    BY <1>1, <1>2, <1>5, <1>6, <1>8, <2>1, <2>2, LoneStep, Zenon
<1>9. CASE /\ tree' = [tree EXCEPT ![k] = [tree[k] EXCEPT !.id = @ + 1, !.active = {},
                                                          !.sealed = Append(@, tree[k].active)]]
           /\ Goto(w, "enqueue")
  <2>0. Goto(w, "enqueue")
    BY <1>9, Zenon
  <2>1. PICK x : /\ proc' = [proc EXCEPT ![w] = x] /\ x.at = "enqueue" /\ x.ks = proc[w].ks
                 /\ DOMAIN x = {"at", "ks", "id"}
    BY <1>1, <2>0, Moves, Zenon
  <2>2. IsThread(x) /\ x.at # "send" /\ x.at \in Flushing
    BY <1>3, <1>4, <2>1 DEF IsThread, Flushing
  <2>3. PICK t : t = [tree[k] EXCEPT !.id = @ + 1, !.active = {},
                                                          !.sealed = Append(@, tree[k].active)]
    OBVIOUS
  <2>4. DOMAIN tree[k] = {"id", "active", "l0", "table", "sealed"} /\ tree[k].id \in Nat
    BY <1>1, <1>4, Zenon DEF TreeShape
  <2>5. DOMAIN t = {"id", "active", "l0", "table", "sealed"} /\ t.id = tree[k].id + 1
    BY <2>3, <2>4
  <2>6. t.id \in Nat
    BY <2>4, <2>5
  <2>7. DOMAIN tree' = Keyspaces /\ tree'[k] = t /\ \A j \in Keyspaces : j # k => tree'[j] = tree[j]
    BY <1>1, <1>4, <1>9, <2>3, Zenon DEF TreeShape
  <2>8. TreeShape'
    BY <1>1, <2>5, <2>6, <2>7, Zenon DEF TreeShape
  <2>9. \A j \in Keyspaces : j # k => tree'[j].sealed = tree[j].sealed
    BY <2>7, Zenon
  <2>10. \A j \in Keyspaces :
             /\ tree'[j].sealed # <<>>
             /\ tree[j].sealed = <<>> \/ (proc[w].ks = j /\ proc[w].at \in Flushing)
             => x.ks = j /\ x.at \in Flushing
    BY <1>3, <1>5, <2>1, <2>2, <2>9, Zenon
  <2> QED
    BY <1>1, <1>2, <1>5, <1>6, <1>7, <2>1, <2>2, <2>8, <2>10, ThreadStep, Zenon
<1> QED
  BY <1>3, <1>8, <1>9, Zenon DEF Rotate, Ks

\* FlushManager::enqueue: the task is there, its message still to be sent.
LEMMA EnqueueIInv == ASSUME IInv, NEW w \in Workers, Enqueue(w) PROVE IInv'
<1>1. TreeShape /\ ChannelShape /\ JournalShape /\ ThreadShape /\ WorkersSend /\ w \in Procs
  BY Zenon DEF IInv, Shape, Procs
<1>2. /\ proc[w].at = "enqueue" /\ tasks' = Append(tasks, proc[w].ks) /\ Goto(w, "send")
      /\ UNCHANGED <<phase, queue, tree, poisoned, items>>
  BY Zenon DEF Enqueue, At, Ks, journals, store
<1>3. PICK x : /\ proc' = [proc EXCEPT ![w] = x] /\ x.at = "send" /\ x.ks = proc[w].ks
               /\ DOMAIN x = {"at", "ks", "id"}
  BY <1>1, <1>2, Moves, Zenon
<1>4. proc[w].ks \in Keyspaces /\ proc[w].at \notin {"new", "idle", "send"}
  BY <1>1, <1>2 DEF ThreadShape, IsThread, Free
<1>5. phase # "opening"
  BY <1>1, <1>4, NotOpening, Zenon
<1>6. DOMAIN proc' = Procs /\ proc'[w] = x /\ \A q \in Procs : q # w => proc'[q] = proc[q]
  BY <1>1, <1>3, Zenon DEF ThreadShape
<1>7. PICK n : n = Len(tasks)
  OBVIOUS
<1>8. /\ n \in Nat /\ tasks' \in Seq(Keyspaces) /\ Len(tasks') = n + 1
      /\ tasks'[n + 1] = proc[w].ks /\ \A i \in 1..n : tasks'[i] = tasks[i]
  BY <1>1, <1>2, <1>4, <1>7, AppendMeans DEF ChannelShape
<1>9. ChannelShape' /\ TreeShape' /\ JournalShape' /\ Flushes' = Flushes
  <2>1. TreeShape' /\ JournalShape' /\ Flushes' = Flushes
    BY <1>1, <1>2, SameShapes, Zenon
  <2> QED
    BY <1>1, <1>2, <1>8, <2>1, Zenon DEF ChannelShape, Message
<1>10. ThreadShape' /\ WorkersSend'
  <2>1. IsThread(x)
    BY <1>3, <1>4, Zenon DEF IsThread
  <2>2. Procs' = Procs /\ Workers' = Workers
    BY Zenon DEF Procs, Workers
  <2> QED
    BY <1>1, <1>6, <2>1, <2>2, Zenon DEF ThreadShape, WorkersSend, IsThread
<1>11. Senders' = Senders \cup {w} /\ w \notin Senders
  <2>1. \A q : q \in Senders' <=> q \in Procs /\ proc'[q].at = "send"
    BY Zenon DEF Senders, At, Procs, Workers
  <2>2. \A q : q \in Senders <=> q \in Procs /\ proc[q].at = "send"
    BY Zenon DEF Senders, At
  <2> QED
    BY <1>1, <1>3, <1>4, <1>6, <2>1, <2>2, Zenon
<1>12. ~Ended => TasksHaveMessages'
  <2>1. IsFiniteSet(Senders) /\ Cardinality(Senders) \in Nat /\ Cardinality(Flushes) \in Nat
    BY <1>1, Counts, Zenon
  <2>2. Cardinality(Senders') = Cardinality(Senders) + 1
    BY <1>11, <2>1, FS_AddElement, Zenon
  <2>3. ~Ended => n <= Cardinality(Flushes) + Cardinality(Senders)
    BY <1>7, Zenon DEF IInv, TasksHaveMessages
  <2>4. ~Ended => n + 1 <= Cardinality(Flushes) + (Cardinality(Senders) + 1)
    BY <1>8, <2>1, <2>3
  <2> QED
    BY <1>8, <1>9, <2>2, <2>4, Zenon DEF TasksHaveMessages
<1>13. ASSUME ~Ended PROVE SealedHasTask'
  <2> SUFFICES ASSUME NEW k \in Keyspaces, tree'[k].sealed # <<>>
               PROVE  Has(tasks', k) \/ \E q \in Procs : proc'[q].ks = k /\ proc'[q].at \in Flushing
    BY Zenon DEF SealedHasTask, Has, Procs, Workers
  <2>1. Has(tasks, k) \/ \E q \in Procs : proc[q].ks = k /\ proc[q].at \in Flushing
    BY <1>2, <1>13, Zenon DEF IInv, SealedHasTask
  <2>2. 1..(n + 1) = 1..n \cup {n + 1}
    BY <1>8
  <2>3. CASE Has(tasks, k)
    BY <1>7, <1>8, <2>2, <2>3, Zenon DEF Has
  <2>4. CASE proc[w].ks = k
    BY <1>8, <2>2, <2>4, Zenon DEF Has
  <2>5. CASE \E q \in Procs : q # w /\ proc[q].ks = k /\ proc[q].at \in Flushing
    BY <1>6, <2>5, Zenon
  <2> QED
    BY <2>1, <2>3, <2>4, <2>5, Zenon
<1>14. (Ended' <=> Ended) /\ phase' # "opening"
  BY <1>2, <1>5, Zenon DEF Ended
<1> QED
  BY <1>9, <1>10, <1>12, <1>13, <1>14, Zenon DEF IInv, Shape, Opening

\* The message follows its task.
LEMMA SendFlushIInv == ASSUME IInv, NEW w \in Workers, SendFlush(w) PROVE IInv'
<1>1. TreeShape /\ ChannelShape /\ JournalShape /\ ThreadShape /\ WorkersSend /\ w \in Procs
  BY Zenon DEF IInv, Shape, Procs
<1>2. /\ proc[w].at = "send" /\ Len(queue) < QueueCap /\ queue' = Append(queue, Flush) /\ Leave(w, "tidy")
      /\ UNCHANGED <<phase, tasks, tree, poisoned, items>>
  BY Zenon DEF SendFlush, At, journals, store
<1>3. PICK x : proc' = [proc EXCEPT ![w] = x] /\ x.at = "tidy" /\ DOMAIN x = {"at", "ks", "id"}
  BY <1>1, <1>2, Moves, Zenon
<1>4. IsThread(x) /\ x.at # "send" /\ proc[w].at \notin Flushing /\ proc[w].at \notin {"new", "idle"}
  BY <1>2, <1>3 DEF IsThread, Free, Flushing
<1>5. phase # "opening"
  BY <1>1, <1>4, NotOpening, Zenon
<1>6. DOMAIN proc' = Procs /\ proc'[w] = x /\ \A q \in Procs : q # w => proc'[q] = proc[q]
  BY <1>1, <1>3, Zenon DEF ThreadShape
<1>7. ChannelShape' /\ TreeShape' /\ JournalShape'
  <2>1. TreeShape' /\ JournalShape'
    BY <1>1, <1>2, SameShapes, Zenon
  <2>2. queue \in Seq(Message) /\ Flush \in Message /\ Len(queue) \in Nat
    BY <1>1, Counts, MessageKinds, Zenon DEF ChannelShape
  <2>3. PICK q : q = Append(queue, Flush)
    OBVIOUS
  <2>4. q \in Seq(Message) /\ Len(q) = Len(queue) + 1
    BY <2>2, <2>3, AppendMeans
  <2>5. Len(q) <= QueueCap
    BY <1>2, <2>2, <2>4, WorkerPoolBounds
  <2> QED
    BY <1>1, <1>2, <2>1, <2>3, <2>4, <2>5, Zenon DEF ChannelShape, Message
<1>8. ThreadShape' /\ WorkersSend'
  <2>1. Procs' = Procs /\ Workers' = Workers
    BY Zenon DEF Procs, Workers
  <2> QED
    BY <1>1, <1>4, <1>6, <2>1, Zenon DEF ThreadShape, WorkersSend, IsThread
<1>9. Senders' = Senders \ {w} /\ w \in Senders
  <2>1. \A q : q \in Senders' <=> q \in Procs /\ proc'[q].at = "send"
    BY Zenon DEF Senders, At, Procs, Workers
  <2>2. \A q : q \in Senders <=> q \in Procs /\ proc[q].at = "send"
    BY Zenon DEF Senders, At
  <2> QED
    BY <1>1, <1>2, <1>4, <1>6, <2>1, <2>2, ZenonT(30)
<1>10. ~Ended => TasksHaveMessages'
  <2>1. IsFiniteSet(Senders) /\ Cardinality(Senders) \in Nat /\ Cardinality(Flushes) \in Nat /\ Len(tasks) \in Nat
    BY <1>1, Counts, Zenon
  <2>2. Cardinality(Senders') = Cardinality(Senders) - 1 /\ Cardinality(Flushes') = Cardinality(Flushes) + 1
    BY <1>1, <1>2, <1>9, <2>1, FS_RemoveElement, FlushQueued, Zenon
  <2>3. ~Ended => Len(tasks) <= Cardinality(Flushes) + Cardinality(Senders)
    BY Zenon DEF IInv, TasksHaveMessages
  <2>4. ~Ended => Len(tasks) <= (Cardinality(Flushes) + 1) + (Cardinality(Senders) - 1)
    BY <2>1, <2>3
  <2> QED
    BY <1>2, <2>2, <2>4, Zenon DEF TasksHaveMessages
<1>11. ASSUME ~Ended PROVE SealedHasTask'
  <2> SUFFICES ASSUME NEW k \in Keyspaces, tree'[k].sealed # <<>>, ~Has(tasks, k)
               PROVE  \E q \in Procs : proc'[q].ks = k /\ proc'[q].at \in Flushing
    BY <1>2, Zenon DEF SealedHasTask, Has, Procs, Workers
  <2>1. PICK q \in Procs : proc[q].ks = k /\ proc[q].at \in Flushing
    BY <1>2, <1>11, Zenon DEF IInv, SealedHasTask
  <2> QED
    BY <1>4, <1>6, <2>1, Zenon
<1>12. (Ended' <=> Ended) /\ phase' # "opening"
  BY <1>2, <1>5, Zenon DEF Ended
<1> QED
  BY <1>7, <1>8, <1>10, <1>11, <1>12, Zenon DEF IInv, Shape, Opening

\* worker_tick: who takes a Flush takes a task too, if there is one.
LEMMA ReceiveIInv == ASSUME IInv, NEW w \in Workers, Receive(w) PROVE IInv'
<1>1. TreeShape /\ ChannelShape /\ JournalShape /\ ThreadShape /\ WorkersSend /\ w \in Procs
  BY Zenon DEF IInv, Shape, Procs
<1>2. proc[w].at = "idle" /\ queue # <<>> /\ queue' = Tail(queue) /\ UNCHANGED <<phase, tree, poisoned, items>>
  BY Zenon DEF Receive, At, journals, store
<1>3. PICK m : m = Head(queue)
  OBVIOUS
<1>4. /\ m \in Message /\ queue' \in Seq(Message) /\ Len(queue') <= QueueCap
      /\ Cardinality(Flushes') = IF m = Flush THEN Cardinality(Flushes) - 1 ELSE Cardinality(Flushes)
  <2>1. PICK q : q = Tail(queue)
    OBVIOUS
  <2>2. queue \in Seq(Message) /\ Len(queue) <= QueueCap
    BY <1>1, Zenon DEF ChannelShape
  <2>3. m \in Message /\ q \in Seq(Message) /\ Len(q) = Len(queue) - 1 /\ Len(queue) \in Nat
    BY <1>2, <1>3, <2>1, <2>2, TailMeans
  <2>4. Len(q) <= QueueCap
    BY <2>2, <2>3, WorkerPoolBounds, SMTT(30)
  <2> QED
    BY <1>1, <1>2, <1>3, <2>1, <2>3, <2>4, MessageTaken, Zenon
<1>5. TreeShape' /\ JournalShape'
  BY <1>1, <1>2, SameShapes, Zenon
<1>6. proc[w].at # "send" /\ proc[w].at \notin Flushing /\ proc[w].at # "new"
  BY <1>2 DEF Flushing
<1>7. phase # "opening"
  BY <1>1, <1>6, NotOpening, Zenon
<1>8. CASE m # Flush
  <2>1. PICK x : x = [at |-> IF m = Close THEN "closed" ELSE m.kind, ks |-> m.ks, id |-> m.id]
    OBVIOUS
  <2>2. proc' = [proc EXCEPT ![w] = x] /\ tasks' = tasks
    BY <1>3, <1>8, <2>1 DEF Receive
  <2>3. /\ DOMAIN x = {"at", "ks", "id"} /\ x.ks = m.ks
        /\ x.at = IF m = Close THEN "closed" ELSE m.kind
    BY <2>1
  <2>4. m # Close => m.kind \in {"compact", "rotate"} /\ m.ks \in Keyspaces
    BY <1>4, <1>8, MessageKinds, Zenon
  <2>5. IsThread(x) /\ x.at # "send"
    BY <2>3, <2>4 DEF IsThread, Free
  <2>6. ChannelShape'
    BY <1>1, <1>4, <2>2, Zenon DEF ChannelShape, Message
  <2>7. Cardinality(Flushes') = Cardinality(Flushes)
    BY <1>4, <1>8, Zenon
  <2> QED
    BY <1>1, <1>2, <1>5, <1>6, <1>7, <2>2, <2>5, <2>6, <2>7, ThreadStep, Zenon
<1>9. CASE m = Flush
  <2>1. PICK x : x = IF tasks = <<>> THEN Idle ELSE [at |-> "journal", ks |-> Head(tasks), id |-> 0]
    OBVIOUS
  <2>2. proc' = [proc EXCEPT ![w] = x] /\ tasks' = SubSeq(tasks, 2, Len(tasks))
    BY <1>3, <1>9, <2>1 DEF Receive
  <2>3. tasks \in Seq(Keyspaces) /\ Len(tasks) \in Nat
    BY <1>1, Counts, Zenon DEF ChannelShape
  <2>4. /\ DOMAIN x = {"at", "ks", "id"} /\ x.at # "send"
        /\ tasks = <<>> => x.at = "idle" /\ x.ks = "none"
        /\ tasks # <<>> => x.at = "journal" /\ x.ks = Head(tasks)
    BY <2>1 DEF Idle
  <2>5. DOMAIN proc' = Procs /\ proc'[w] = x /\ \A q \in Procs : q # w => proc'[q] = proc[q]
    BY <1>1, <2>2, Zenon DEF ThreadShape
  <2>6. Senders' = Senders
    <3>1. \A q : q \in Senders' <=> q \in Procs /\ proc'[q].at = "send"
      BY Zenon DEF Senders, At, Procs, Workers
    <3>2. \A q : q \in Senders <=> q \in Procs /\ proc[q].at = "send"
      BY Zenon DEF Senders, At
    <3> QED
      BY <1>6, <2>4, <2>5, <3>1, <3>2, ZenonT(30)
  <2>7. /\ Cardinality(Flushes) \in Nat /\ Cardinality(Senders) \in Nat
        /\ Cardinality(Flushes') = Cardinality(Flushes) - 1
    BY <1>1, <1>4, <1>9, Counts, Zenon
  <2>8. Procs' = Procs /\ Workers' = Workers
    BY Zenon DEF Procs, Workers
  <2>9. (Ended' <=> Ended) /\ phase' # "opening"
    BY <1>2, <1>7, Zenon DEF Ended
  <2>10. CASE tasks = <<>>
    <3>1. tasks' = <<>> /\ Len(tasks') = 0
      BY <2>2, <2>10
    <3>2. ChannelShape' /\ ThreadShape' /\ WorkersSend'
      <4>1. IsThread(x)
        BY <2>4, <2>10 DEF IsThread, Free
      <4>2. tasks' \in Seq(Keyspaces)
        BY <2>3, <2>10, <3>1, Zenon
      <4> QED
        BY <1>1, <1>4, <2>4, <2>5, <2>8, <4>1, <4>2, Zenon DEF ChannelShape, Message, ThreadShape, WorkersSend, IsThread
    <3>3. Cardinality(Flushes') \in Nat
      <4>1. ChannelShape' /\ WorkersSend' => Cardinality(Flushes') \in Nat
        <5>1. ASSUME ChannelShape', WorkersSend' PROVE IsFiniteSet(Flushes')
          <6>1. DOMAIN queue' = 1..Len(queue') /\ Len(queue') \in Nat
            BY <5>1 DEF ChannelShape
          <6>2. Flushes' \in SUBSET (1..Len(queue'))
            BY <6>1, Zenon DEF Flushes
          <6>3. IsFiniteSet(1..Len(queue'))
            BY <6>1, FS_Interval
          <6> QED
            BY <6>2, <6>3, FS_Subset, Zenon
        <5> QED
          BY <5>1, FS_CardinalityType, Zenon
      <4> QED
        BY <3>2, <4>1, Zenon
    <3>4. TasksHaveMessages'
      <4>1. 0 <= Cardinality(Flushes') + Cardinality(Senders)
        BY <2>7, <3>3
      <4> QED
        BY <2>6, <3>1, <4>1, Zenon DEF TasksHaveMessages
    <3>5. ~Ended => SealedHasTask'
      <4>1. \A k : ~Has(tasks, k)
        BY <2>10 DEF Has
      <4>2. \A q \in Procs : proc[q].at \in Flushing => proc'[q] = proc[q]
        BY <1>6, <2>5, Zenon
      <4>3. ~Ended => \A k \in Keyspaces : tree[k].sealed # <<>> =>
                         \E p \in Procs : proc[p].ks = k /\ proc[p].at \in Flushing
        BY <4>1, Zenon DEF IInv, SealedHasTask
      <4>4. tree' = tree /\ \A q \in Procs : proc[q].at \in Flushing =>
                              proc'[q].ks = proc[q].ks /\ proc'[q].at \in Flushing
        BY <1>2, <4>2, Zenon
      <4>5. ~Ended => \A k \in Keyspaces : tree'[k].sealed # <<>> =>
                         \E p \in Procs : proc'[p].ks = k /\ proc'[p].at \in Flushing
        BY <4>3, <4>4, ZenonT(30)
      <4> QED
        BY <2>8, <4>5, Zenon DEF SealedHasTask
    <3> QED
      BY <1>5, <2>9, <3>2, <3>4, <3>5, Zenon DEF IInv, Shape, Opening
  <2>11. CASE tasks # <<>>
    <3>1. PICK n : n = Len(tasks)
      OBVIOUS
    <3>2. /\ tasks' \in Seq(Keyspaces) /\ n \in Nat \ {0} /\ Len(tasks') = n - 1
          /\ Head(tasks) = tasks[1] /\ Head(tasks) \in Keyspaces
          /\ \A i \in 1..(n - 1) : tasks'[i] = tasks[i + 1]
      BY <2>2, <2>3, <2>11, <3>1, TailMeans
    <3>3. ChannelShape' /\ ThreadShape' /\ WorkersSend'
      <4>1. IsThread(x)
        BY <2>4, <2>11, <3>2, Zenon DEF IsThread
      <4> QED
        BY <1>1, <1>4, <2>4, <2>5, <2>8, <3>2, <4>1, Zenon DEF ChannelShape, Message, ThreadShape, WorkersSend, IsThread
    <3>4. ~Ended => TasksHaveMessages'
      <4>1. ~Ended => n <= Cardinality(Flushes) + Cardinality(Senders)
        BY <3>1, Zenon DEF IInv, TasksHaveMessages
      <4>2. ~Ended => n - 1 <= (Cardinality(Flushes) - 1) + Cardinality(Senders)
        BY <2>7, <3>2, <4>1
      <4> QED
        BY <2>6, <2>7, <3>2, <4>2, Zenon DEF TasksHaveMessages
    <3>5. ASSUME ~Ended PROVE SealedHasTask'
      <4> SUFFICES ASSUME NEW k \in Keyspaces, tree'[k].sealed # <<>>
                   PROVE  Has(tasks', k) \/ \E q \in Procs : proc'[q].ks = k /\ proc'[q].at \in Flushing
        BY Zenon DEF SealedHasTask, Has, Procs, Workers
      <4>1. Has(tasks, k) \/ \E q \in Procs : proc[q].ks = k /\ proc[q].at \in Flushing
        BY <1>2, <3>5, Zenon DEF IInv, SealedHasTask
      <4>2. CASE \E q \in Procs : proc[q].ks = k /\ proc[q].at \in Flushing
        BY <1>6, <2>5, <4>2, Zenon
      <4>3. CASE k = Head(tasks)
        <5>1. x.at \in Flushing
          BY <2>4, <2>11 DEF Flushing
        <5> QED
          BY <1>1, <2>4, <2>5, <2>11, <4>3, <5>1, Zenon
      <4>4. CASE Has(tasks, k) /\ k # Head(tasks)
        <5>1. PICK i \in 1..n : tasks[i] = k
          BY <3>1, <4>4, Zenon DEF Has
        <5>2. i - 1 \in 1..(n - 1) /\ (i - 1) + 1 = i
          <6>1. i # 1
            BY <3>2, <4>4, <5>1, Zenon
          <6> QED
            BY <3>2, <6>1
        <5>3. tasks'[i - 1] = k
          BY <3>2, <5>1, <5>2, Zenon
        <5> QED
          BY <3>2, <5>2, <5>3, Zenon DEF Has
      <4> QED
        BY <4>1, <4>2, <4>3, <4>4, Zenon
    <3> QED
      BY <1>5, <2>9, <3>3, <3>4, <3>5, Zenon DEF IInv, Shape, Opening
  <2> QED
    BY <2>10, <2>11, Zenon
<1> QED
  BY <1>8, <1>9, Zenon

\* The shape of the journals, for any list of them.
LEMMA JournalsMean ==
  ASSUME NEW S, NEW q \in Seq(S), \A i \in 1..Len(q) : DOMAIN q[i].marks \subseteq Keyspaces, items' = q
  PROVE  JournalShape'
<1>1. q \in Seq(Range(q))
  BY SeqRange, Zenon
<1>2. q \in Seq({q[i] : i \in DOMAIN q})
  BY <1>1, Zenon DEF Range
<1> QED
  BY <1>2, Zenon DEF JournalShape, Range

\* JournalManager::maintenance keeps a part of the sealed journals.
LEMMA EvictedMeans ==
  ASSUME JournalShape, NEW q, q = Evicted(items), NEW S, S = Range(items)
  PROVE  q \in Seq(S) /\ \A i \in 1..Len(q) : \E j \in 1..Len(items) : q[i] = items[j]
<1> DEFINE kept == {i \in DOMAIN items : Unflushed(items[i]) # {}}
<1>1. items \in Seq(S)
  BY Zenon DEF JournalShape
<1>2. DOMAIN items = 1..Len(items) /\ Len(items) \in Nat
  BY <1>1
<1>3. CASE kept = {}
  <2>1. q = <<>>
    BY <1>3, Zenon DEF Evicted
  <2> QED
    BY <2>1
<1>4. CASE kept # {}
  <2>1. kept \subseteq 1..Len(items) /\ kept \in SUBSET Nat
    BY <1>2
  <2>2. PICK m : m = Min(kept)
    OBVIOUS
  <2>3. m \in kept
    BY <1>4, <2>1, <2>2, LeastNatural, Zenon DEF Min
  <2>4. m \in 1..Len(items)
    BY <2>1, <2>3, Zenon
  <2>5. q = SubSeq(items, m, Len(items))
    BY <1>4, <2>2, Zenon DEF Evicted
  <2>6. /\ q \in Seq(S)
        /\ \A i \in 1..Len(q) : q[i] = items[m + i - 1] /\ m + i - 1 \in 1..Len(items)
    BY <1>1, <1>2, <2>4, <2>5
  <2> QED
    BY <2>6, Zenon
<1> QED
  BY <1>3, <1>4, Zenon

LEMMA EvictedKeeps == ASSUME JournalShape, items' = Evicted(items) PROVE JournalShape'
<1>1. PICK q, S : q = Evicted(items) /\ S = Range(items)
  OBVIOUS
<1>2. q \in Seq(S) /\ \A i \in 1..Len(q) : \E j \in 1..Len(items) : q[i] = items[j]
  BY <1>1, EvictedMeans, Zenon
<1>3. \A i \in 1..Len(q) : DOMAIN q[i].marks \subseteq Keyspaces
  BY <1>2, Zenon DEF JournalShape
<1> QED
  BY <1>1, <1>2, <1>3, JournalsMean, Zenon

\* Journals go; no thread waits for one.
LEMMA JournalMaintenanceIInv == ASSUME IInv, NEW w \in Workers, JournalMaintenance(w) PROVE IInv'
<1>1. TreeShape /\ ChannelShape /\ JournalShape /\ ThreadShape /\ w \in Procs
  BY Zenon DEF IInv, Shape, Procs
<1>2. /\ proc[w].at = "tidy" /\ items' = Evicted(items) /\ Done(w)
      /\ UNCHANGED <<phase, queue, tasks, tree, poisoned>>
  BY Zenon DEF JournalMaintenance, At, store
<1>3. PICK x : proc' = [proc EXCEPT ![w] = x] /\ x.at = "idle" /\ DOMAIN x = {"at", "ks", "id"}
  BY <1>1, <1>2, Moves, Zenon DEF Done
<1>4. IsThread(x) /\ x.at # "send" /\ proc[w].at \notin Flushing /\ proc[w].at \notin {"new", "idle"} /\ proc[w].at # "send"
  BY <1>2, <1>3 DEF IsThread, Free, Flushing
<1>5. phase # "opening"
  BY <1>1, <1>4, NotOpening, Zenon
<1>6. TreeShape' /\ ChannelShape' /\ JournalShape' /\ Flushes' = Flushes
  BY <1>1, <1>2, SameShapes, EvictedKeeps, Zenon
<1> QED
  BY <1>1, <1>2, <1>3, <1>4, <1>5, <1>6, ThreadStep, Zenon

\* The requests to rotate what holds the oldest journal back.
LEMMA AsksMean ==
  ASSUME TreeShape, NEW S \in SUBSET Keyspaces, NEW f \in Bijection(1..Cardinality(S), S), NEW asks,
         asks = [i \in DOMAIN f |-> RotateMemtable(f[i], tree[f[i]].id)]
  PROVE  asks \in Seq(Message) /\ \A i \in 1..Len(asks) : asks[i] # Flush
<1>1. IsFiniteSet(S)
  BY FS_Subset, WorkerPoolBounds, Zenon
<1>2. PICK n : n = Cardinality(S)
  OBVIOUS
<1>3. n \in Nat /\ f \in [1..n -> S] /\ DOMAIN f = 1..n
  BY <1>1, <1>2, FS_CardinalityType, Zenon DEF Bijection, Injection
<1>4. asks = [i \in 1..n |-> RotateMemtable(f[i], tree[f[i]].id)]
  BY <1>3, Zenon
<1>5. DOMAIN asks = 1..n /\ \A i \in 1..n : asks[i] = RotateMemtable(f[i], tree[f[i]].id)
  BY <1>4, Zenon
<1>6. \A i \in 1..n : asks[i] \in Message /\ asks[i] # Flush
  BY <1>3, <1>5, MessageKinds, Zenon DEF TreeShape
<1>7. PICK M : M = Message
  OBVIOUS
<1>8. asks \in [1..n -> M]
  BY <1>4, <1>5, <1>6, <1>7, Zenon
<1>9. asks \in Seq(M) /\ Len(asks) = n
  BY <1>3, <1>8
<1> QED
  BY <1>6, <1>7, <1>9, Zenon

\* A flush of a large journal: the task stays in hand, the requests are no Flush.
LEMMA RotateJournalIInv == ASSUME IInv, NEW w \in Workers, RotateJournal(w) PROVE IInv'
<1>1. TreeShape /\ ChannelShape /\ JournalShape /\ ThreadShape /\ w \in Procs
  BY Zenon DEF IInv, Shape, Procs
<1>2. proc[w].at = "journal" /\ Goto(w, "run_flush") /\ UNCHANGED <<phase, tasks, tree, poisoned>>
  BY Zenon DEF RotateJournal, At, store
<1>3. PICK x : /\ proc' = [proc EXCEPT ![w] = x] /\ x.at = "run_flush" /\ x.ks = proc[w].ks
               /\ DOMAIN x = {"at", "ks", "id"}
  BY <1>1, <1>2, Moves, Zenon
<1>4. proc[w].ks \in Keyspaces
  BY <1>1, <1>2 DEF ThreadShape, IsThread, Free
<1>5. /\ IsThread(x) /\ x.at # "send" /\ x.at \in Flushing
      /\ proc[w].at \notin {"new", "idle"} /\ proc[w].at # "send"
  BY <1>2, <1>3, <1>4 DEF IsThread, Flushing
<1>6. phase # "opening"
  BY <1>1, <1>5, NotOpening, Zenon
<1>7. TreeShape'
  BY <1>1, <1>2, SameShapes, Zenon
<1>8. ChannelShape' /\ JournalShape' /\ Flushes' = Flushes
  <2>1. CASE UNCHANGED <<queue, items>>
    BY <1>1, <1>2, <2>1, SameShapes, Zenon
  <2>2. CASE ~(pos <= JournalLimit)
    <3> DEFINE live == {k \in Keyspaces \ deleted : HighestMemtable(k) > 0}
               new == Append(items, [no |-> sealedNo + 1, marks |-> [k \in live |-> HighestMemtable(k)]])
               late == {k \in DOMAIN Head(new).marks : tree[k].table < Head(new).marks[k]}
               asks(f) == [i \in DOMAIN f |-> RotateMemtable(f[i], tree[f[i]].id)]
    <3>1. /\ items' = new
          /\ queue' = queue \/ \E f \in Bijection(1..Cardinality(late), late) : queue' = TrySend(queue, asks(f))
      BY <2>2, Zenon DEF RotateJournal
    <3>2. PICK r : r = [no |-> sealedNo + 1, marks |-> [k \in live |-> HighestMemtable(k)]]
      OBVIOUS
    <3>3. DOMAIN r.marks \subseteq Keyspaces
      BY <3>2
    <3>4. PICK S : S = Range(items) \cup {r}
      OBVIOUS
    <3>5. items \in Seq(S) /\ r \in S /\ \A i \in 1..Len(items) : DOMAIN items[i].marks \subseteq Keyspaces
      <4>1. PICK R : R = Range(items)
        OBVIOUS
      <4>2. items \in Seq(R) /\ \A i \in 1..Len(items) : DOMAIN items[i].marks \subseteq Keyspaces
        BY <1>1, <4>1, Zenon DEF JournalShape
      <4>3. R \subseteq S /\ r \in S
        BY <3>4, <4>1, Zenon
      <4> QED
        BY <4>2, <4>3
    <3>6. PICK q : q = Append(items, r)
      OBVIOUS
    <3>7. /\ q \in Seq(S) /\ Len(q) = Len(items) + 1 /\ Len(items) \in Nat /\ q[Len(items) + 1] = r
          /\ \A i \in 1..Len(items) : q[i] = items[i]
      BY <3>5, <3>6, AppendMeans
    <3>8. \A i \in 1..Len(q) : DOMAIN q[i].marks \subseteq Keyspaces
      <4>1. 1..Len(q) = 1..Len(items) \cup {Len(items) + 1}
        BY <3>7
      <4> QED
        BY <3>3, <3>5, <3>7, <4>1, Zenon
    <3>9. new = q
      BY <3>2, <3>6, Zenon
    <3>10. JournalShape'
      BY <3>1, <3>7, <3>8, <3>9, JournalsMean, Zenon
    <3>11. late \in SUBSET Keyspaces
      <4>1. Head(q) = q[1] /\ 1 \in 1..Len(q)
        BY <3>7
      <4>2. DOMAIN Head(q).marks \subseteq Keyspaces
        BY <3>8, <4>1, Zenon
      <4> HIDE DEF new
      <4> QED
        BY <3>9, <4>2, Zenon
    <3> HIDE DEF late, new
    <3>12. CASE queue' = queue
      BY <1>1, <1>2, <3>10, <3>12, SameShapes, Zenon
    <3>13. ASSUME NEW f \in Bijection(1..Cardinality(late), late), queue' = TrySend(queue, asks(f))
           PROVE  ChannelShape' /\ Flushes' = Flushes
      <4>1. asks(f) \in Seq(Message) /\ \A i \in 1..Len(asks(f)) : asks(f)[i] # Flush
        BY <1>1, <3>11, AsksMean, Zenon
      <4> HIDE DEF asks
      <4> QED
        BY <1>1, <1>2, <3>13, <4>1, TrySent, Zenon
    <3> QED
      BY <3>1, <3>10, <3>12, <3>13, Zenon
  <2>3. pos <= JournalLimit => UNCHANGED <<queue, items>>
    BY Zenon DEF RotateJournal, journals
  <2> QED
    BY <2>1, <2>2, <2>3, Zenon
<1>9. \A k \in Keyspaces :
             /\ tree'[k].sealed # <<>>
             /\ tree[k].sealed = <<>> \/ (proc[w].ks = k /\ proc[w].at \in Flushing)
             => x.ks = k /\ x.at \in Flushing
  BY <1>2, <1>3, <1>5, Zenon
<1> QED
  BY <1>1, <1>2, <1>3, <1>5, <1>6, <1>7, <1>8, <1>9, ThreadStep, Zenon

\* flush::worker::run: nothing sealed is left of the keyspace; no Flush is sent.
LEMMA RunFlushIInv == ASSUME IInv, NEW w \in Workers, RunFlush(w) PROVE IInv'
<1>1. TreeShape /\ ChannelShape /\ JournalShape /\ ThreadShape /\ w \in Procs
  BY Zenon DEF IInv, Shape, Procs
<1>2. PICK k : k = proc[w].ks
  OBVIOUS
<1>3. PICK m : m = Compact(k)
  OBVIOUS
<1>4. PICK msgs : msgs = [i \in 1..PoolSize |-> m]
  OBVIOUS
<1>5. /\ proc[w].at = "run_flush" /\ Leave(w, "tidy") /\ queue' = TrySend(queue, msgs)
      /\ UNCHANGED <<phase, tasks, items, poisoned>>
  BY <1>2, <1>3, <1>4, Zenon DEF RunFlush, At, Ks, journals
<1>6. k \in Keyspaces
  BY <1>1, <1>2, <1>5 DEF ThreadShape, IsThread, Free
<1>7. PICK x : proc' = [proc EXCEPT ![w] = x] /\ x.at = "tidy" /\ DOMAIN x = {"at", "ks", "id"}
  BY <1>1, <1>5, Moves, Zenon
<1>8. IsThread(x) /\ x.at # "send" /\ proc[w].at \notin {"new", "idle"} /\ proc[w].at # "send"
  BY <1>5, <1>7 DEF IsThread, Free
<1>9. phase # "opening"
  BY <1>1, <1>8, NotOpening, Zenon
<1>10. /\ TreeShape' /\ tree'[k].sealed = <<>>
       /\ \A j \in Keyspaces : j # k => tree'[j].sealed = tree[j].sealed
  <2>1. CASE tree[k].sealed = <<>>
    <3>1. UNCHANGED tree
      BY <1>2, <2>1, Zenon DEF RunFlush, Ks
    <3> QED
      BY <1>1, <2>1, <3>1, SameShapes, Zenon
  <2>2. CASE tree[k].sealed # <<>>
    <3>1. PICK h : tree' = [tree EXCEPT ![k].sealed = <<>>, ![k].l0 = @ + 1, ![k].table = h]
      BY <1>2, <2>2 DEF RunFlush, Ks
    <3>2. DOMAIN tree = Keyspaces /\ DOMAIN tree[k] = {"id", "active", "l0", "table", "sealed"}
      BY <1>1, <1>6, Zenon DEF TreeShape
    <3>3. /\ DOMAIN tree' = Keyspaces /\ DOMAIN tree'[k] = DOMAIN tree[k]
          /\ tree'[k].sealed = <<>> /\ tree'[k].id = tree[k].id
          /\ \A j \in Keyspaces : j # k => tree'[j] = tree[j]
      BY <1>6, <3>1, <3>2
    <3> QED
      BY <1>1, <3>2, <3>3, Zenon DEF TreeShape
  <2> QED
    BY <2>1, <2>2, Zenon
<1>11. ChannelShape' /\ JournalShape' /\ Flushes' = Flushes
  <2>1. m \in Message /\ m # Flush
    BY <1>3, <1>6, MessageKinds, Zenon
  <2>2. PICK M : M = Message
    OBVIOUS
  <2>3. msgs \in Seq(M) /\ Len(msgs) = PoolSize /\ \A i \in 1..PoolSize : msgs[i] = m
    BY <1>4, <2>1, <2>2, WorkerPoolBounds
  <2>4. \A i \in 1..Len(msgs) : msgs[i] # Flush
    BY <2>1, <2>3, Zenon
  <2> QED
    BY <1>1, <1>5, <2>2, <2>3, <2>4, TrySent, SameShapes, Zenon
<1>12. \A j \in Keyspaces :
             /\ tree'[j].sealed # <<>>
             /\ tree[j].sealed = <<>> \/ (proc[w].ks = j /\ proc[w].at \in Flushing)
             => x.ks = j /\ x.at \in Flushing
  BY <1>2, <1>10, Zenon
<1> QED
  BY <1>1, <1>5, <1>7, <1>8, <1>9, <1>10, <1>11, <1>12, ThreadStep, Zenon

\* A compaction seals nothing; the first worker sends the message again.
LEMMA RunCompactionIInv == ASSUME IInv, NEW w \in Workers, RunCompaction(w) PROVE IInv'
<1>1. TreeShape /\ ChannelShape /\ JournalShape /\ ThreadShape /\ WorkersSend /\ w \in Procs
  BY Zenon DEF IInv, Shape, Procs
<1>2. proc[w].at = "compact" /\ Done(w) /\ UNCHANGED <<phase, tasks, items, poisoned>>
  BY Zenon DEF RunCompaction, At, journals
<1>3. PICK k : k = proc[w].ks
  OBVIOUS
<1>4. k \in Keyspaces
  BY <1>1, <1>2, <1>3 DEF ThreadShape, IsThread, Free
<1>5. PICK x : proc' = [proc EXCEPT ![w] = x] /\ x.at = "idle" /\ DOMAIN x = {"at", "ks", "id"}
  BY <1>1, <1>2, Moves, Zenon DEF Done
<1>6. /\ IsThread(x) /\ x.at # "send" /\ proc[w].at \notin {"new", "idle"} /\ proc[w].at # "send"
      /\ proc[w].at \notin Flushing
  BY <1>2, <1>5 DEF IsThread, Free, Flushing
<1>7. phase # "opening"
  BY <1>1, <1>6, NotOpening, Zenon
<1>8. CASE Len(queue) < QueueCap /\ queue' = Append(queue, Compact(k)) /\ UNCHANGED tree
  <2>1. PICK m : m = Compact(k)
    OBVIOUS
  <2>2. m \in Message /\ m # Flush /\ queue \in Seq(Message)
    BY <1>1, <1>4, <2>1, MessageKinds, Zenon DEF ChannelShape
  <2>3. PICK M : M = Message
    OBVIOUS
  <2>4. Len(queue) \in Nat /\ DOMAIN queue = 1..Len(queue)
    BY <1>1, Counts, Zenon
  <2>5. PICK q : q = Append(queue, m)
    OBVIOUS
  <2>6. /\ q \in Seq(M) /\ Len(q) = Len(queue) + 1 /\ DOMAIN q = 1..(Len(queue) + 1)
        /\ q[Len(queue) + 1] = m /\ \A i \in 1..Len(queue) : q[i] = queue[i]
    BY <2>2, <2>3, <2>5, AppendMeans
  <2>7. Len(q) <= QueueCap /\ 1..(Len(queue) + 1) = 1..Len(queue) \cup {Len(queue) + 1}
    <3>1. PICK l : l = Len(queue)
      BY Zenon
    <3>2. l \in Nat /\ l < QueueCap /\ Len(q) = l + 1
      BY <1>8, <2>4, <2>6, <3>1, Zenon
    <3>3. QueueCap \in Nat
      BY WorkerPoolBounds
    <3>4. Len(q) <= QueueCap
      BY <3>2, <3>3
    <3>5. 1..(l + 1) = 1..l \cup {l + 1}
      BY <3>2
    <3> QED
      BY <3>1, <3>4, <3>5, Zenon
  <2>8. queue' = q
    BY <1>8, <2>1, <2>5, Zenon
  <2>9. Flushes' = Flushes
    <3>1. \A i : i \in Flushes' <=> i \in DOMAIN q /\ q[i] = Flush
      BY <2>8, Zenon DEF Flushes, Flush
    <3>2. \A i : i \in Flushes <=> i \in DOMAIN queue /\ queue[i] = Flush
      BY Zenon DEF Flushes
    <3> QED
      BY <2>2, <2>4, <2>6, <2>7, <3>1, <3>2, Zenon
  <2>10. ChannelShape'
    BY <1>1, <1>2, <2>3, <2>6, <2>7, <2>8, Zenon DEF ChannelShape, Message
  <2>11. TreeShape' /\ JournalShape'
    BY <1>1, <1>2, <1>8, SameShapes, Zenon
  <2> QED
    BY <1>1, <1>2, <1>5, <1>6, <1>7, <1>8, <2>9, <2>10, <2>11, ThreadStep, Zenon
<1>9. CASE UNCHANGED queue /\ (tree' = tree \/ tree' = [tree EXCEPT ![k].l0 = 0])
  <2>1. TreeShape' /\ \A j \in Keyspaces : tree'[j].sealed = tree[j].sealed
    <3>1. CASE tree' = tree
      BY <1>1, <3>1, SameShapes, Zenon
    <3>2. CASE tree' = [tree EXCEPT ![k].l0 = 0]
      <4>1. DOMAIN tree = Keyspaces /\ DOMAIN tree[k] = {"id", "active", "l0", "table", "sealed"}
        BY <1>1, <1>4, Zenon DEF TreeShape
      <4>2. /\ DOMAIN tree' = Keyspaces /\ DOMAIN tree'[k] = DOMAIN tree[k]
            /\ tree'[k].sealed = tree[k].sealed /\ tree'[k].id = tree[k].id
            /\ \A j \in Keyspaces : j # k => tree'[j] = tree[j]
        BY <1>4, <3>2, <4>1
      <4> QED
        BY <1>1, <4>1, <4>2, Zenon DEF TreeShape
    <3> QED
      BY <1>9, <3>1, <3>2, Zenon
  <2>2. ChannelShape' /\ JournalShape' /\ Flushes' = Flushes
    BY <1>1, <1>2, <1>9, SameShapes, Zenon
  <2> QED
    BY <1>1, <1>2, <1>5, <1>6, <1>7, <2>1, <2>2, ThreadStep, Zenon
<1> QED
  BY <1>3, <1>8, <1>9, Zenon DEF RunCompaction, Ks

\* Once a worker has failed or the database is being dropped, only the shape is promised.
LEMMA EndedIInv ==
  ASSUME Ended', phase' # "opening", TreeShape', ChannelShape', ThreadShape', JournalShape', WorkersSend'
  PROVE  IInv'
  BY Zenon DEF IInv, Shape, Opening

\* A step of a worker fails: the database is poisoned.
LEMMA FailIInv == ASSUME IInv, NEW w \in Workers, Fail(w) PROVE IInv'
<1>1. TreeShape /\ ChannelShape /\ JournalShape /\ ThreadShape /\ WorkersSend /\ w \in Procs
  BY Zenon DEF IInv, Shape, Procs
<1>2. /\ proc[w].at \in {"run_flush", "tidy", "compact"} /\ poisoned' = TRUE /\ Leave(w, "failed")
      /\ UNCHANGED <<phase, queue, tasks, tree, items>>
  BY Zenon DEF Fail, At, store, journals
<1>3. PICK x : proc' = [proc EXCEPT ![w] = x] /\ x.at = "failed" /\ DOMAIN x = {"at", "ks", "id"}
  BY <1>1, <1>2, Moves, Zenon
<1>4. IsThread(x) /\ x.at # "send" /\ proc[w].at \notin {"new", "idle"}
  BY <1>2, <1>3 DEF IsThread, Free
<1>5. phase' # "opening" /\ Ended'
  BY <1>1, <1>2, <1>4, NotOpening, Zenon DEF Ended
<1>6. DOMAIN proc' = Procs /\ proc'[w] = x /\ \A q \in Procs : q # w => proc'[q] = proc[q]
  BY <1>1, <1>3, Zenon DEF ThreadShape
<1>7. ThreadShape' /\ WorkersSend'
  <2>1. Procs' = Procs /\ Workers' = Workers
    BY Zenon DEF Procs, Workers
  <2> QED
    BY <1>1, <1>4, <1>6, <2>1, Zenon DEF ThreadShape, WorkersSend, IsThread
<1>8. TreeShape' /\ ChannelShape' /\ JournalShape'
  BY <1>1, <1>2, SameShapes, Zenon
<1> QED
  BY <1>5, <1>7, <1>8, EndedIInv, Zenon

\* The end of Database::recover: every task comes with its message.
LEMMA OpenEnqueueIInv == ASSUME IInv, NEW k \in Keyspaces, OpenEnqueue(k) PROVE IInv'
<1>1. TreeShape /\ ChannelShape /\ JournalShape /\ ThreadShape /\ WorkersSend /\ Opening
  BY Zenon DEF IInv, Shape
<1>2. /\ phase = "opening" /\ Len(queue) < QueueCap /\ tasks' = Append(tasks, k) /\ queue' = Append(queue, Flush)
      /\ UNCHANGED <<phase, proc, tree, items>>
  BY Zenon DEF OpenEnqueue, store, journals
<1>3. PICK n : n = Len(tasks)
  OBVIOUS
<1>4. n \in Nat /\ tasks' \in Seq(Keyspaces) /\ Len(tasks') = n + 1
  BY <1>1, <1>2, <1>3, AppendMeans DEF ChannelShape
<1>5. ChannelShape'
  <2>1. queue \in Seq(Message) /\ Flush \in Message /\ Len(queue) \in Nat
    BY <1>1, Counts, MessageKinds, Zenon DEF ChannelShape
  <2>2. PICK q : q = Append(queue, Flush)
    OBVIOUS
  <2>3. q \in Seq(Message) /\ Len(q) = Len(queue) + 1
    BY <2>1, <2>2, AppendMeans
  <2>4. Len(q) <= QueueCap
    BY <1>2, <2>1, <2>3, WorkerPoolBounds
  <2> QED
    BY <1>1, <1>2, <1>4, <2>2, <2>3, <2>4, Zenon DEF ChannelShape, Message
<1>6. TreeShape' /\ JournalShape'
  BY <1>1, <1>2, SameShapes, Zenon
<1>7. Senders' = Senders /\ Procs' = Procs /\ Workers' = Workers
  BY <1>2, Zenon DEF Senders, At, Procs, Workers
<1>8. ThreadShape' /\ WorkersSend' /\ Opening' /\ Ended'
  BY <1>1, <1>2, <1>7, Zenon DEF ThreadShape, WorkersSend, Opening, IsThread, Ended
<1>9. TasksHaveMessages'
  <2>1. Cardinality(Senders) \in Nat /\ Cardinality(Flushes) \in Nat /\ Cardinality(Flushes') = Cardinality(Flushes) + 1
    BY <1>1, <1>2, Counts, FlushQueued, Zenon
  <2>2. n <= Cardinality(Flushes) + Cardinality(Senders)
    BY <1>2, <1>3, Zenon DEF IInv, TasksHaveMessages
  <2>3. n + 1 <= (Cardinality(Flushes) + 1) + Cardinality(Senders)
    BY <1>4, <2>1, <2>2
  <2> QED
    BY <1>4, <1>7, <2>1, <2>3, Zenon DEF TasksHaveMessages
<1> QED
  BY <1>5, <1>6, <1>8, <1>9, Zenon DEF IInv, Shape

\* WorkerPool::start, when a task is queued for all that is sealed.
LEMMA StartIInv == ASSUME IInv, Start PROVE IInv'
<1>1. TreeShape /\ ChannelShape /\ JournalShape /\ ThreadShape /\ Opening
  BY Zenon DEF IInv, Shape
<1>2. /\ phase = "opening" /\ phase' = "running" /\ proc' = [p \in Procs |-> Idle]
      /\ \A k \in Keyspaces : tree[k].sealed # <<>> => k \in Range(tasks)
      /\ UNCHANGED <<queue, tasks, tree, items>>
  BY Zenon DEF Start, store, journals
<1>3. Idle.at = "idle" /\ DOMAIN Idle = {"at", "ks", "id"} /\ IsThread(Idle)
  BY DEF Idle, IsThread, Free
<1>4. Procs' = Procs /\ Workers' = Workers /\ DOMAIN proc' = Procs /\ \A p \in Procs : proc'[p] = Idle
  BY <1>2, Zenon DEF Procs, Workers
<1>5. "idle" # "send" /\ "new" # "send" /\ phase' # "opening"
  BY <1>2
<1>6. ThreadShape' /\ WorkersSend'
  BY <1>3, <1>4, <1>5, Zenon DEF ThreadShape, WorkersSend, IsThread
<1>7. TreeShape' /\ ChannelShape' /\ JournalShape' /\ Flushes' = Flushes
  BY <1>1, <1>2, SameShapes, Zenon
<1>8. Senders' = {} /\ Senders = {}
  <2>1. \A q \in Procs : proc'[q].at # "send"
    BY <1>3, <1>4, <1>5, Zenon
  <2>2. \A q \in Procs : proc[q].at # "send"
    BY <1>1, <1>2, <1>5, Zenon DEF Opening
  <2> QED
    BY <1>4, <2>1, <2>2, Zenon DEF Senders, At
<1>9. TasksHaveMessages'
  BY <1>2, <1>7, <1>8, Zenon DEF IInv, TasksHaveMessages
<1>10. SealedHasTask'
  <2>1. \A k \in Keyspaces : tree[k].sealed # <<>> => Has(tasks, k)
    BY <1>1, <1>2, HasMeans, Zenon DEF ChannelShape
  <2> QED
    BY <1>2, <2>1, Zenon DEF SealedHasTask, Has
<1> QED
  BY <1>5, <1>6, <1>7, <1>9, <1>10, Zenon DEF IInv, Shape, Opening

\* A thread cannot be spawned: opening fails, and the database is dropped.
LEMMA StartFailsIInv == ASSUME IInv, NEW w \in Workers, StartFails(w) PROVE IInv'
<1>1. TreeShape /\ ChannelShape /\ JournalShape /\ ThreadShape /\ WorkersSend
  BY Zenon DEF IInv, Shape
<1>2. PICK c : c = [Idle EXCEPT !.at = "closed"]
  OBVIOUS
<1>3. /\ phase' = "dropped" /\ UNCHANGED <<queue, tasks, tree, items>>
      /\ proc' = [p \in Procs |-> IF p \in Users \/ p < w THEN Idle ELSE IF p = w THEN c ELSE proc[p]]
  BY <1>2, Zenon DEF StartFails, store, journals
<1>4. IsThread(Idle) /\ IsThread(c) /\ Idle.at # "send" /\ c.at # "send"
  BY <1>2 DEF Idle, IsThread, Free
<1>5. /\ Procs' = Procs /\ Workers' = Workers /\ DOMAIN proc' = Procs
      /\ \A p \in Procs : proc'[p] = Idle \/ proc'[p] = c \/ proc'[p] = proc[p]
  BY <1>3, Zenon DEF Procs, Workers
<1>6. ThreadShape' /\ WorkersSend'
  BY <1>1, <1>4, <1>5, Zenon DEF ThreadShape, WorkersSend, IsThread
<1>7. TreeShape' /\ ChannelShape' /\ JournalShape'
  BY <1>1, <1>3, SameShapes, Zenon
<1>8. Ended' /\ phase' # "opening"
  BY <1>3 DEF Ended
<1> QED
  BY <1>6, <1>7, <1>8, EndedIInv, Zenon

\* Dropping the database drains the channel, sends Close, and forgets tasks and journals.
LEMMA CloseIInv == ASSUME IInv, Drop \/ SendClose \/ DropEnds PROVE IInv'
<1>1. TreeShape /\ ChannelShape /\ JournalShape /\ ThreadShape /\ WorkersSend
  BY Zenon DEF IInv, Shape
<1>2. /\ phase' \in {"closing", "closed"} /\ UNCHANGED <<proc, tree>>
      /\ tasks' = tasks \/ tasks' = <<>>
      /\ items' = items \/ items' = <<>>
      /\ queue' = <<>> \/ (Len(queue) < QueueCap /\ queue' = Append(queue, Close))
  BY Zenon DEF Drop, SendClose, DropEnds, store, journals
<1>3. TreeShape'
  BY <1>1, <1>2, SameShapes, Zenon
<1>4. ThreadShape' /\ WorkersSend'
  BY <1>1, <1>2, Zenon DEF ThreadShape, WorkersSend, IsThread, Procs, Workers
<1>5. JournalShape'
  <2>1. <<>> \in Seq({}) /\ \A i \in 1..Len(<<>>) : DOMAIN <<>>[i].marks \subseteq Keyspaces
    OBVIOUS
  <2>2. CASE items' = <<>>
    BY <2>1, <2>2, JournalsMean, Zenon
  <2> QED
    BY <1>1, <1>2, <2>2, SameShapes, Zenon
<1>6. ChannelShape'
  <2>0. <<>> \in Seq(Keyspaces)
    OBVIOUS
  <2>1. tasks' \in Seq(Keyspaces)
    BY <1>1, <1>2, <2>0, Zenon DEF ChannelShape
  <2>2. PICK M : M = Message
    OBVIOUS
  <2>3. queue \in Seq(M) /\ Close \in M /\ Len(queue) \in Nat
    BY <1>1, <2>2, Counts, MessageKinds, Zenon DEF ChannelShape
  <2>4. PICK q : q = Append(queue, Close)
    OBVIOUS
  <2>5. q \in Seq(M) /\ Len(q) = Len(queue) + 1
    BY <2>3, <2>4, AppendMeans
  <2>6. Len(queue) < QueueCap => Len(q) <= QueueCap
    BY <2>3, <2>5, WorkerPoolBounds
  <2>7. <<>> \in Seq(M) /\ Len(<<>>) <= QueueCap
    BY WorkerPoolBounds
  <2>8. queue' \in Seq(M) /\ Len(queue') <= QueueCap
    BY <1>2, <2>4, <2>5, <2>6, <2>7, Zenon
  <2> QED
    BY <2>1, <2>2, <2>8, Zenon DEF ChannelShape, Message
<1>7. Ended' /\ phase' # "opening"
  BY <1>2 DEF Ended
<1> QED
  BY <1>3, <1>4, <1>5, <1>6, <1>7, EndedIInv, Zenon

-----------------------------------------------------------------------------
\* Nothing is queued while the database is opened.
LEMMA InitIInv == Init => IInv
<1> SUFFICES ASSUME Init PROVE IInv
  OBVIOUS
<1>1. PICK some \in SUBSET Keyspaces :
        /\ tree = [k \in Keyspaces |-> NewTree(IF k \in some THEN <<{1}>> ELSE <<>>)]
        /\ items = IF some = {} THEN <<>> ELSE <<[no |-> 1, marks |-> [k \in some |-> 1]]>>
        /\ proc = [p \in Procs |-> IF p \in Workers THEN [Idle EXCEPT !.at = "new"] ELSE Idle]
  BY Zenon DEF Init
<1>2. phase = "opening" /\ queue = <<>> /\ tasks = <<>>
  BY Zenon DEF Init
<1>3. TreeShape
  <2>1. \A n : DOMAIN NewTree(n) = {"id", "active", "l0", "table", "sealed"} /\ NewTree(n).id = 0
    BY DEF NewTree
  <2>2. DOMAIN tree = Keyspaces /\ \A k \in Keyspaces : \E n : tree[k] = NewTree(n)
    BY <1>1, Zenon
  <2>3. 0 \in Nat
    OBVIOUS
  <2> QED
    BY <2>1, <2>2, <2>3, Zenon DEF TreeShape
<1>4. ChannelShape
  <2>1. <<>> \in Seq(Message) /\ <<>> \in Seq(Keyspaces) /\ Len(<<>>) <= QueueCap
    BY WorkerPoolBounds
  <2> QED
    BY <1>2, <2>1, Zenon DEF ChannelShape
<1>5. PICK n : n = [Idle EXCEPT !.at = "new"]
  OBVIOUS
<1>6. n.at = "new" /\ Idle.at = "idle" /\ IsThread(n) /\ IsThread(Idle)
  BY <1>5 DEF Idle, IsThread, Free
<1>7. DOMAIN proc = Procs /\ \A p \in Procs : proc[p] = IF p \in Workers THEN n ELSE Idle
  BY <1>1, <1>5, Zenon
<1>8. ThreadShape /\ Opening
  BY <1>6, <1>7, Zenon DEF ThreadShape, Opening
<1>9. \A p \in Procs : proc[p].at # "send"
  <2>1. "new" # "send" /\ "idle" # "send"
    OBVIOUS
  <2> QED
    BY <1>6, <1>7, <2>1, Zenon
<1>10. JournalShape
  <2>1. CASE some = {}
    <3>1. items = <<>>
      BY <1>1, <2>1, Zenon
    <3> QED
      BY <3>1 DEF JournalShape
  <2>2. CASE some # {}
    <3>1. PICK r : r = [no |-> 1, marks |-> [k \in some |-> 1]]
      OBVIOUS
    <3>2. items = <<r>>
      BY <1>1, <2>2, <3>1, Zenon
    <3>3. DOMAIN r.marks \subseteq Keyspaces
      BY <3>1
    <3>4. items \in Seq({r}) /\ \A i \in 1..Len(items) : items[i] = r
      BY <3>2
    <3> QED
      BY <3>3, <3>4, SeqRange, Zenon DEF JournalShape
  <2> QED
    BY <2>1, <2>2
<1>11. WorkersSend /\ Ended
  BY <1>2, <1>9 DEF WorkersSend, Ended
<1>12. TasksHaveMessages
  <2>1. Cardinality(Flushes) \in Nat /\ Cardinality(Senders) \in Nat
    BY <1>4, <1>11, Counts, Zenon
  <2>2. Len(tasks) = 0
    BY <1>2
  <2> QED
    BY <2>1, <2>2 DEF TasksHaveMessages
<1> QED
  BY <1>3, <1>4, <1>8, <1>10, <1>11, <1>12, Zenon DEF IInv, Shape

\* Every step of users, workers, opening and closing keeps the invariant.
LEMMA StepIInv == ASSUME IInv, [Next]_vars PROVE IInv'
<1>1. CASE \E k \in Keyspaces : OpenEnqueue(k)
  BY <1>1, OpenEnqueueIInv, Zenon
<1>2. CASE Start \/ \E w \in Workers : StartFails(w)
  BY <1>2, StartIInv, StartFailsIInv, Zenon
<1>3. CASE \E u \in Users : \E k \in Keyspaces : Write(u, k)
  BY <1>3, WriteIInv, Zenon
<1>4. CASE \E u \in Users : \E k \in Droppable : Clear(u, k) \/ Delete(u, k)
  BY <1>4, DropIInv, Zenon
<1>5. CASE \E u \in Users : UserStep(u)
  BY <1>5, UserStepIInv, Zenon
<1>6. CASE \E w \in Workers : WorkerStep(w)
  <2>1. PICK w \in Workers : WorkerStep(w)
    BY <1>6, Zenon
  <2> QED
    BY <2>1, ReceiveIInv, RotateIInv, EnqueueIInv, SendFlushIInv, JournalMaintenanceIInv, RotateJournalIInv,
       RunFlushIInv, RunCompactionIInv, Zenon DEF WorkerStep
<1>7. CASE \E w \in Workers : Fail(w)
  BY <1>7, FailIInv, Zenon
<1>8. CASE Drop \/ SendClose \/ DropEnds
  BY <1>8, CloseIInv, Zenon
<1>9. CASE UNCHANGED vars
  <2>1. UNCHANGED <<tree, proc, phase, poisoned, tasks, queue, items>>
    BY <1>9, Zenon DEF vars
  <2>2. TreeShape'
    BY <2>1, SameShapes, Zenon DEF IInv, Shape
  <2> QED
    BY <2>1, <2>2, RestStep, Zenon
<1> QED
  BY <1>1, <1>2, <1>3, <1>4, <1>5, <1>6, <1>7, <1>8, <1>9, Zenon DEF Next

\* The invariant holds of every database.
THEOREM Inductive == Spec => []IInv
  BY InitIInv, StepIInv, PTL DEF Spec

\* Whatever rotations, requests, flushes and back-pressure overlap, as long as no
\* worker has failed and the database is open, every sealed memtable has a flush task
\* or a thread at work on it, and no task is without the Flush message that makes a
\* worker take it: FlushManager::enqueue and the blocking send of worker_pool.rs.
THEOREM SealedIsFlushed == Spec => []FlushScheduled
<1>1. IInv => FlushScheduled
  <2>1. IInv => \A k : Has(tasks, k) <=> k \in Range(tasks)
    BY HasMeans, Zenon DEF IInv, Shape, ChannelShape
  <2> QED
    BY <2>1, Zenon DEF IInv, FlushScheduled, SealedHasTask, TasksHaveMessages, Flushes, Senders, Flushing, Ks
<1> QED
  BY <1>1, Inductive, PTL

-----------------------------------------------------------------------------
(***************************************************************************)
(* What is counted: threads, and the items of the memtables.               *)
(***************************************************************************)

\* A tree all of whose numbers have been handed out; no item is in two memtables that
\* a flush tells apart.
IsStored(t, n) ==
    /\ t.sealed \in Seq(SUBSET (1..n)) /\ t.active \in SUBSET (1..n) /\ t.table \in 0..n
    /\ \A i \in 1..Len(t.sealed) : t.sealed[i] \cap t.active = {}
Trees == \A k \in Keyspaces : IsStored(tree[k], seqno)

Scalars ==
    /\ phase \in {"opening", "running", "dropped", "closing", "closed"} /\ poisoned \in BOOLEAN
    /\ seqno \in Nat /\ pos \in 0..seqno /\ failures \in 0..MaxFailures
    /\ deleted \subseteq Keyspaces /\ cleared \subseteq Keyspaces
    /\ Len(tasks) <= QueueCap
Numbered == sealedNo \in Nat /\ \A i \in 1..Len(items) : items[i].no \in 1..sealedNo

Running == {w \in Workers : ~At(w, "closed")}
Counted == counter = IF phase = "opening" THEN 0 ELSE Cardinality(Running)

Uncounted == {u \in Users : At(u, "written")}
Items == UNION {{k} \X (tree[k].active \cup Sealed(k)) : k \in Keyspaces}
Covered == buffer \in Nat /\ buffer + Cardinality(Uncounted) >= Cardinality(Items)

Accounts == Trees /\ Scalars /\ Numbered /\ Counted /\ Covered

\* The items by keyspace and number.
LEMMA ItemsMean == \A k, n : <<k, n>> \in Items <=> k \in Keyspaces /\ n \in tree[k].active \cup Sealed(k)
<1> SUFFICES ASSUME NEW k, NEW n
             PROVE  <<k, n>> \in Items <=> k \in Keyspaces /\ n \in tree[k].active \cup Sealed(k)
  OBVIOUS
<1>1. \A j : <<k, n>> \in {j} \X (tree[j].active \cup Sealed(j)) <=> k = j /\ n \in tree[j].active \cup Sealed(j)
  OBVIOUS
<1> QED
  BY <1>1, Zenon DEF Items
LEMMA ItemsArePairs == \A x \in Items : x = <<x[1], x[2]>>
<1> SUFFICES ASSUME NEW x \in Items PROVE x = <<x[1], x[2]>>
  OBVIOUS
<1>1. PICK k \in Keyspaces : x \in {k} \X (tree[k].active \cup Sealed(k))
  BY Zenon DEF Items
<1> QED
  BY <1>1

\* What is sealed in a tree has been handed out a number, and is not active.
LEMMA SealedMean ==
  ASSUME NEW t, NEW n \in Nat, IsStored(t, n), NEW S, S = UNION Range(t.sealed)
  PROVE  /\ S \in SUBSET (1..n) /\ S \cap t.active = {}
         /\ \A i : i \in S <=> \E j \in 1..Len(t.sealed) : i \in t.sealed[j]
<1>1. PICK s, P : s = t.sealed /\ P = SUBSET (1..n)
  OBVIOUS
<1>2. s \in Seq(P)
  BY <1>1, Zenon DEF IsStored
<1>3. DOMAIN s = 1..Len(s) /\ \A i \in 1..Len(s) : s[i] \in P
  BY <1>2
<1>4. Range(s) = {s[i] : i \in 1..Len(s)}
  BY <1>3, Zenon DEF Range
<1>5. \A i : i \in S <=> \E j \in 1..Len(s) : i \in s[j]
  <2>1. S = UNION {s[i] : i \in 1..Len(s)}
    BY <1>1, <1>4, Zenon
  <2> QED
    BY <2>1
<1>6. \A j \in 1..Len(s) : s[j] \in SUBSET (1..n) /\ s[j] \cap t.active = {}
  BY <1>1, <1>3, Zenon DEF IsStored
<1> QED
  BY <1>1, <1>5, <1>6, Zenon

\* The items can be counted, and so can the threads.
LEMMA ItemsFinite == ASSUME Trees, seqno \in Nat PROVE IsFiniteSet(Items) /\ Cardinality(Items) \in Nat
<1>1. \A k \in Keyspaces : tree[k].active \cup Sealed(k) \in SUBSET (1..seqno)
  <2> SUFFICES ASSUME NEW k \in Keyspaces PROVE tree[k].active \cup Sealed(k) \in SUBSET (1..seqno)
    OBVIOUS
  <2>0. IsStored(tree[k], seqno) /\ Sealed(k) = UNION Range(tree[k].sealed)
    BY Zenon DEF Trees, Sealed
  <2>1. Sealed(k) \in SUBSET (1..seqno) /\ tree[k].active \in SUBSET (1..seqno)
    BY <2>0, SealedMean, Zenon DEF IsStored
  <2> QED
    BY <2>1, Zenon
<1>2. IsFiniteSet(1..seqno) /\ IsFiniteSet(Keyspaces)
  BY FS_Interval, WorkerPoolBounds
<1>3. PICK P : P = Keyspaces \X (1..seqno)
  OBVIOUS
<1>4. IsFiniteSet(P)
  BY <1>2, <1>3, FS_Product, Zenon
<1>5. Items \in SUBSET P
  <2> SUFFICES ASSUME NEW x \in Items PROVE x \in P
    BY Zenon
  <2>1. x[1] \in Keyspaces /\ x[2] \in 1..seqno /\ x = <<x[1], x[2]>>
    BY <1>1, ItemsMean, ItemsArePairs, Zenon
  <2> QED
    BY <1>3, <2>1
<1> QED
  BY <1>4, <1>5, FS_Subset, FS_CardinalityType, Zenon

LEMMA ThreadsFinite ==
  /\ IsFiniteSet(Running) /\ Cardinality(Running) \in Nat
  /\ IsFiniteSet(Uncounted) /\ Cardinality(Uncounted) \in Nat
  /\ IsFiniteSet(Workers) /\ Cardinality(Workers) = PoolSize /\ \A u \in Users : u \notin Workers
<1>1. IsFiniteSet(Workers) /\ Cardinality(Workers) = PoolSize /\ Workers \subseteq Nat
  <2>1. 0 \in Int /\ PoolSize - 1 \in Int /\ ~(0 > PoolSize - 1) /\ (PoolSize - 1) - 0 + 1 = PoolSize
    BY WorkerPoolBounds
  <2>2. Workers = 0..(PoolSize - 1) /\ 0..(PoolSize - 1) \subseteq Nat
    BY <2>1 DEF Workers
  <2> QED
    BY <2>1, <2>2, FS_Interval, Zenon
<1>2. IsFiniteSet(Users) /\ \A u \in Users : u \notin Workers
  BY <1>1, WorkerPoolBounds, Zenon
<1>3. Running \in SUBSET Workers /\ Uncounted \in SUBSET Users
  BY Zenon DEF Running, Uncounted
<1>4. IsFiniteSet(Running) /\ IsFiniteSet(Uncounted)
  BY <1>1, <1>2, <1>3, FS_Subset, Zenon
<1> QED
  BY <1>1, <1>2, <1>4, FS_CardinalityType, Zenon

\* A thread moves on: who is closed and whose item is to be counted.
LEMMA ThreadAccounts ==
  ASSUME ThreadShape, NEW p \in Procs, NEW x, proc' = [proc EXCEPT ![p] = x]
  PROVE  /\ p \in Users \/ (proc[p].at # "closed" /\ x.at # "closed") => Running' = Running
         /\ p \in Workers \/ (proc[p].at # "written" /\ x.at # "written") => Uncounted' = Uncounted
         /\ p \in Workers /\ proc[p].at # "closed" /\ x.at = "closed" => p \in Running /\ Running' = Running \ {p}
         /\ p \in Users /\ proc[p].at # "written" /\ x.at = "written"
               => p \notin Uncounted /\ Uncounted' = Uncounted \cup {p}
         /\ p \in Users /\ proc[p].at = "written" /\ x.at # "written"
               => p \in Uncounted /\ Uncounted' = Uncounted \ {p}
<1>1. proc'[p] = x /\ \A q \in Procs : q # p => proc'[q] = proc[q]
  BY Zenon DEF ThreadShape
<1>2. /\ \A q : q \in Running' <=> q \in Workers /\ proc'[q].at # "closed"
      /\ \A q : q \in Running <=> q \in Workers /\ proc[q].at # "closed"
  BY Zenon DEF Running, At, Workers
<1>9. /\ \A q : q \in Uncounted' <=> q \in Users /\ proc'[q].at = "written"
      /\ \A q : q \in Uncounted <=> q \in Users /\ proc[q].at = "written"
  BY Zenon DEF Uncounted, At
<1>3. (\A q \in Workers : q \in Procs /\ q \notin Users) /\ \A q \in Users : q \in Procs /\ q \notin Workers
  BY ThreadsFinite, Zenon DEF Procs
<1>4. p \in Users \/ (proc[p].at # "closed" /\ x.at # "closed") => Running' = Running
  BY <1>1, <1>2, <1>3
<1>5. p \in Workers \/ (proc[p].at # "written" /\ x.at # "written") => Uncounted' = Uncounted
  BY <1>1, <1>9, <1>3
<1>6. p \in Workers /\ proc[p].at # "closed" /\ x.at = "closed" => p \in Running /\ Running' = Running \ {p}
  BY <1>1, <1>2, <1>3
<1>7. p \in Users /\ proc[p].at # "written" /\ x.at = "written"
        => p \notin Uncounted /\ Uncounted' = Uncounted \cup {p}
  BY <1>1, <1>9, <1>3
<1>8. p \in Users /\ proc[p].at = "written" /\ x.at # "written"
        => p \in Uncounted /\ Uncounted' = Uncounted \ {p}
  BY <1>1, <1>9, <1>3
<1> QED
  BY <1>4, <1>5, <1>6, <1>7, <1>8, Zenon

\* The items of the next state.
LEMMA ItemsNext ==
  /\ \A k, n : <<k, n>> \in Items' <=> k \in Keyspaces /\ n \in tree'[k].active \cup UNION Range(tree'[k].sealed)
  /\ \A x \in Items' : x = <<x[1], x[2]>>
<1> SUFFICES /\ \A k, n : <<k, n>> \in Items' <=> k \in Keyspaces /\ n \in tree'[k].active \cup Sealed(k)'
             /\ \A x \in Items' : x = <<x[1], x[2]>>
  BY Zenon DEF Sealed, Range
<1>1. (\A k, n : <<k, n>> \in Items <=> k \in Keyspaces /\ n \in tree[k].active \cup Sealed(k))'
  BY ItemsMean, PTL
<1>2. (\A x \in Items : x = <<x[1], x[2]>>)'
  BY ItemsArePairs, PTL
<1> QED
  BY <1>1, <1>2, Zenon

\* The same items in all trees.
LEMMA SameItems ==
  ASSUME \A k \in Keyspaces : tree'[k].active \cup UNION Range(tree'[k].sealed) = tree[k].active \cup Sealed(k)
  PROVE  Items' = Items
<1>1. \A k, n : <<k, n>> \in Items' <=> <<k, n>> \in Items
  BY ItemsNext, ItemsMean, Zenon
<1>2. ASSUME NEW x \in Items' PROVE x \in Items
  <2>1. PICK k, n : x = <<k, n>>
    BY <1>2, ItemsNext, Zenon
  <2> QED
    BY <1>1, <1>2, <2>1, Zenon
<1>3. ASSUME NEW x \in Items PROVE x \in Items'
  <2>1. PICK k, n : x = <<k, n>>
    BY <1>3, ItemsArePairs, Zenon
  <2> QED
    BY <1>1, <1>3, <2>1, Zenon
<1> QED
  BY <1>2, <1>3, Zenon

\* Steps that leave the trees alone.
LEMMA SameTrees == ASSUME UNCHANGED tree PROVE Items' = Items /\ (Trees /\ seqno' = seqno => Trees')
<1>1. Items' = Items
  BY SameItems, Zenon DEF Sealed, Range
<1>2. Trees /\ seqno' = seqno => Trees'
  BY Zenon DEF Trees, IsStored
<1> QED
  BY <1>1, <1>2, Zenon

\* A step of a thread that leaves the trees alone.
LEMMA QuietAccounts ==
  ASSUME IInv, Accounts, NEW p \in Procs, NEW x, proc' = [proc EXCEPT ![p] = x],
         p \in Users \/ (proc[p].at # "closed" /\ x.at # "closed"),
         p \in Workers \/ (proc[p].at # "written" /\ x.at # "written"),
         UNCHANGED <<phase, counter, tree, deleted, seqno, buffer, cleared>>,
         pos' \in 0..seqno, poisoned' \in BOOLEAN, failures' \in 0..MaxFailures, Len(tasks') <= QueueCap, Numbered'
  PROVE  Accounts'
<1>1. ThreadShape /\ Trees /\ Scalars /\ Counted /\ Covered
  BY Zenon DEF IInv, Shape, Accounts
<1>2. Running' = Running /\ Uncounted' = Uncounted /\ Items' = Items /\ Trees'
  BY <1>1, ThreadAccounts, SameTrees, Zenon
<1>3. Counted' /\ Covered'
  BY <1>1, <1>2, Zenon DEF Counted, Covered
<1>4. Scalars'
  BY <1>1, Zenon DEF Scalars
<1> QED
  BY <1>2, <1>3, <1>4, Zenon DEF Accounts

\* The same journals are numbered the same.
LEMMA SameNumbers == ASSUME Accounts, UNCHANGED <<items, sealedNo>> PROVE Numbered'
  BY Zenon DEF Accounts, Numbered

\* A write adds one item, which is still to be counted.
LEMMA WriteAccounts == ASSUME IInv, Accounts, NEW u \in Users, NEW k \in Keyspaces, Write(u, k) PROVE Accounts'
<1>1. TreeShape /\ ThreadShape /\ Trees /\ Scalars /\ Counted /\ Covered /\ u \in Procs
  BY Zenon DEF IInv, Shape, Accounts, Procs
<1>2. /\ proc[u].at = "idle" /\ seqno' = seqno + 1 /\ pos' = pos + 1
      /\ tree' = [tree EXCEPT ![k].active = @ \cup {seqno + 1}]
      /\ proc' = [proc EXCEPT ![u] = [at |-> "written", ks |-> k, id |-> Cardinality(tree[k].active) + 1]]
      /\ UNCHANGED <<phase, deleted, tasks, counter, poisoned, items, sealedNo, buffer, cleared, failures>>
  BY Zenon DEF Write, At
<1>3. PICK x : x = [at |-> "written", ks |-> k, id |-> Cardinality(tree[k].active) + 1]
  OBVIOUS
<1>4. proc' = [proc EXCEPT ![u] = x] /\ x.at = "written" /\ proc[u].at # "written"
  BY <1>2, <1>3
<1>5. Running' = Running /\ u \notin Uncounted /\ Uncounted' = Uncounted \cup {u}
  BY <1>1, <1>4, ThreadAccounts, Zenon
<1>6. seqno \in Nat /\ pos \in 0..seqno /\ seqno + 1 \in Nat
  BY <1>1 DEF Scalars
<1>7. Scalars'
  <2>1. pos' \in 0..seqno' /\ seqno' \in Nat
    BY <1>2, <1>6
  <2> QED
    BY <1>1, <1>2, <2>1, Zenon DEF Scalars
<1>8. PICK t : t = [tree[k] EXCEPT !.active = @ \cup {seqno + 1}]
  OBVIOUS
<1>9. /\ t.active = tree[k].active \cup {seqno + 1} /\ t.sealed = tree[k].sealed /\ t.table = tree[k].table
      /\ DOMAIN tree = Keyspaces
  <2>1. DOMAIN tree = Keyspaces /\ DOMAIN tree[k] = {"id", "active", "l0", "table", "sealed"}
    BY <1>1, Zenon DEF TreeShape
  <2> QED
    BY <1>8, <2>1
<1>10. tree'[k] = t /\ \A j \in Keyspaces : j # k => tree'[j] = tree[j]
  BY <1>2, <1>8, <1>9
<1>11. ASSUME NEW s, IsStored(s, seqno) PROVE IsStored(s, seqno + 1) /\ \A i \in 1..Len(s.sealed) : seqno + 1 \notin s.sealed[i]
  <2>1. PICK q, P, Q : q = s.sealed /\ P = SUBSET (1..seqno) /\ Q = SUBSET (1..(seqno + 1))
    OBVIOUS
  <2>2. q \in Seq(P) /\ s.active \in P /\ s.table \in 0..seqno
    BY <1>11, <2>1, Zenon DEF IsStored
  <2>3. P \subseteq Q /\ \A m \in P : seqno + 1 \notin m
    BY <1>6, <2>1
  <2>4. q \in Seq(Q) /\ s.active \in Q /\ \A i \in 1..Len(q) : q[i] \in P
    BY <2>2, <2>3
  <2>5. s.table \in 0..(seqno + 1)
    BY <1>6, <2>2
  <2> QED
    BY <1>11, <2>1, <2>3, <2>4, <2>5, Zenon DEF IsStored
<1>12. Trees'
  <2>1. IsStored(t, seqno + 1)
    <3>1. IsStored(tree[k], seqno)
      BY <1>1, Zenon DEF Trees
    <3>2. IsStored(tree[k], seqno + 1) /\ \A i \in 1..Len(t.sealed) : seqno + 1 \notin t.sealed[i]
      BY <1>9, <1>11, <3>1, Zenon
    <3>3. seqno + 1 \in 1..(seqno + 1)
      BY <1>6
    <3>4. /\ t.sealed \in Seq(SUBSET (1..(seqno + 1))) /\ t.table \in 0..(seqno + 1)
          /\ tree[k].active \in SUBSET (1..(seqno + 1))
          /\ \A i \in 1..Len(t.sealed) : t.sealed[i] \cap tree[k].active = {}
      BY <1>9, <3>2, Zenon DEF IsStored
    <3>5. t.active \in SUBSET (1..(seqno + 1))
      BY <1>9, <3>3, <3>4, Zenon
    <3>6. \A i \in 1..Len(t.sealed) : t.sealed[i] \cap t.active = {}
      BY <1>9, <3>2, <3>4
    <3> QED
      BY <3>4, <3>5, <3>6, Zenon DEF IsStored
  <2>2. \A j \in Keyspaces : IsStored(tree'[j], seqno')
    BY <1>1, <1>2, <1>10, <1>11, <2>1, Zenon DEF Trees
  <2> QED
    BY <2>2, Zenon DEF Trees, IsStored
<1>13. Items' = Items \cup {<<k, seqno + 1>>}
  <2>1. \A j, n : <<j, n>> \in Items' <=> <<j, n>> \in Items \/ (j = k /\ n = seqno + 1)
    <3>1. \A j \in Keyspaces : \A n : n \in tree'[j].active \cup UNION Range(tree'[j].sealed)
                          <=> n \in tree[j].active \cup Sealed(j) \/ (j = k /\ n = seqno + 1)
      BY <1>9, <1>10, Zenon DEF Sealed
    <3> QED
      BY <3>1, ItemsNext, ItemsMean, Zenon
  <2>2. ASSUME NEW y \in Items' PROVE y \in Items \cup {<<k, seqno + 1>>}
    <3>1. PICK j, n : y = <<j, n>>
      BY <2>2, ItemsNext, Zenon
    <3> QED
      BY <2>1, <2>2, <3>1, Zenon
  <2>3. ASSUME NEW y \in Items \cup {<<k, seqno + 1>>} PROVE y \in Items'
    <3>1. PICK j, n : y = <<j, n>>
      BY <2>3, ItemsArePairs, Zenon
    <3>2. <<j, n>> = <<k, seqno + 1>> => j = k /\ n = seqno + 1
      OBVIOUS
    <3> QED
      BY <2>1, <2>3, <3>1, <3>2, Zenon
  <2> QED
    BY <2>2, <2>3, Zenon
<1>14. Covered'
  <2>1. IsFiniteSet(Items) /\ Cardinality(Items) \in Nat /\ IsFiniteSet(Uncounted) /\ Cardinality(Uncounted) \in Nat
    BY <1>1, <1>6, ItemsFinite, ThreadsFinite, Zenon
  <2>2. Cardinality(Items') = Cardinality(Items) + 1 \/ Cardinality(Items') = Cardinality(Items)
    BY <1>13, <2>1, FS_AddElement, Zenon
  <2>3. Cardinality(Uncounted') = Cardinality(Uncounted) + 1
    BY <1>5, <2>1, FS_AddElement, Zenon
  <2>4. PICK a, b, a1, b1 : a = Cardinality(Items) /\ b = Cardinality(Uncounted) /\ a1 = Cardinality(Items') /\ b1 = Cardinality(Uncounted')
    OBVIOUS
  <2>5. buffer \in Nat /\ buffer + b >= a
    BY <1>1, <2>4, Zenon DEF Covered
  <2>6. buffer + b1 >= a1
    BY <2>1, <2>2, <2>3, <2>4, <2>5
  <2> QED
    BY <1>2, <2>4, <2>5, <2>6, Zenon DEF Covered
<1>15. Counted' /\ Numbered'
  BY <1>1, <1>2, <1>5, SameNumbers, Zenon DEF Counted
<1> QED
  BY <1>7, <1>12, <1>14, <1>15, Zenon DEF Accounts

\* The item is counted; then the write waits.
LEMMA UserStepAccounts == ASSUME IInv, Accounts, NEW u \in Users, UserStep(u) PROVE Accounts'
<1>1. ThreadShape /\ Trees /\ Scalars /\ Counted /\ Covered /\ u \in Procs
  BY Zenon DEF IInv, Shape, Accounts, Procs
<1>2. CASE Maintenance(u)
  <2>1. /\ proc[u].at = "written" /\ buffer' = buffer + 1 /\ Goto(u, "stalled")
        /\ UNCHANGED <<phase, tree, deleted, tasks, counter, poisoned, seqno, pos, items, sealedNo, cleared, failures>>
    BY <1>2, Zenon DEF Maintenance, At, journals
  <2>2. PICK x : proc' = [proc EXCEPT ![u] = x] /\ x.at = "stalled"
    BY <1>1, <2>1, Moved, Zenon
  <2>3. x.at # "written"
    BY <2>2
  <2>4. Running' = Running /\ u \in Uncounted /\ Uncounted' = Uncounted \ {u} /\ Items' = Items /\ Trees'
    BY <1>1, <2>1, <2>2, <2>3, ThreadAccounts, SameTrees, Zenon
  <2>5. Covered'
    <3>1. IsFiniteSet(Uncounted) /\ Cardinality(Uncounted) \in Nat /\ Cardinality(Items) \in Nat
      BY <1>1, ItemsFinite, ThreadsFinite, Zenon DEF Scalars
    <3>2. Cardinality(Uncounted') = Cardinality(Uncounted) - 1
      BY <2>4, <3>1, FS_RemoveElement, Zenon
    <3>3. PICK a, b, b1 : a = Cardinality(Items) /\ b = Cardinality(Uncounted) /\ b1 = Cardinality(Uncounted')
      OBVIOUS
    <3>4. buffer \in Nat /\ buffer + b >= a
      BY <1>1, <3>3, Zenon DEF Covered
    <3>5. buffer + 1 \in Nat /\ (buffer + 1) + b1 >= a
      BY <3>1, <3>2, <3>3, <3>4
    <3> QED
      BY <2>1, <2>4, <3>3, <3>5, Zenon DEF Covered
  <2>6. Counted' /\ Numbered' /\ Scalars'
    BY <1>1, <2>1, <2>4, SameNumbers, Zenon DEF Counted, Scalars
  <2> QED
    BY <2>4, <2>5, <2>6, Zenon DEF Accounts
<1>3. CASE CheckWriteHalt(u) \/ Backpressure(u)
  <2>1. /\ proc[u].at \in {"stalled", "sealed"} /\ (Goto(u, "sealed") \/ Leave(u, "idle"))
        /\ UNCHANGED <<phase, tree, deleted, tasks, counter, poisoned, seqno, pos, items, sealedNo, buffer, cleared, failures>>
    BY <1>3, Zenon DEF CheckWriteHalt, Backpressure, Done, At, journals, store
  <2>2. PICK x : proc' = [proc EXCEPT ![u] = x] /\ x.at \in {"sealed", "idle"}
    <3>1. CASE Goto(u, "sealed")
      BY <1>1, <3>1, Moved, Zenon
    <3>2. CASE Leave(u, "idle")
      BY <1>1, <3>2, Moved, Zenon
    <3> QED
      BY <2>1, <3>1, <3>2, Zenon
  <2>3. proc[u].at # "written" /\ x.at # "written"
    BY <2>1, <2>2
  <2>4. /\ pos' \in 0..seqno /\ poisoned' \in BOOLEAN /\ failures' \in 0..MaxFailures /\ Len(tasks') <= QueueCap
        /\ Numbered'
    BY <1>1, <2>1, SameNumbers, Zenon DEF Scalars
  <2> QED
    BY <1>1, <2>1, <2>2, <2>3, <2>4, QuietAccounts, Zenon
<1> QED
  BY <1>2, <1>3, Zenon DEF UserStep

\* No more items than before, while the count stays.
LEMMA FewerItems ==
  ASSUME Trees, seqno \in Nat, Covered, Items' \subseteq Items, UNCHANGED buffer, Uncounted' = Uncounted
  PROVE  Covered'
<1>1. IsFiniteSet(Items) /\ Cardinality(Items) \in Nat /\ Cardinality(Uncounted) \in Nat
  BY ItemsFinite, ThreadsFinite, Zenon
<1>2. PICK A : A = Items'
  OBVIOUS
<1>3. IsFiniteSet(A) /\ Cardinality(A) <= Cardinality(Items)
  BY <1>1, <1>2, FS_Subset, Zenon
<1>4. Cardinality(A) \in Nat
  BY <1>3, FS_CardinalityType, Zenon
<1>5. buffer \in Nat /\ buffer + Cardinality(Uncounted) >= Cardinality(Items)
  BY Zenon DEF Covered
<1>6. buffer + Cardinality(Uncounted) >= Cardinality(A)
  BY <1>1, <1>3, <1>4, <1>5
<1> QED
  BY <1>2, <1>5, <1>6, Zenon DEF Covered

\* Keyspace::clear leaves nothing in the memtables; the count stays as it is.
LEMMA DropAccounts ==
  ASSUME IInv, Accounts, NEW u \in Users, NEW k \in Droppable, Clear(u, k) \/ Delete(u, k)
  PROVE  Accounts'
<1>1. TreeShape /\ Trees /\ Scalars /\ Counted /\ Covered /\ k \in Keyspaces
  BY WorkerPoolBounds, Zenon DEF IInv, Shape, Accounts
<1>2. proc' = proc /\ UNCHANGED <<phase, counter, buffer, items, sealedNo, tasks, poisoned, failures>>
  BY Zenon DEF Clear, Delete, journals
<1>3. Running' = Running /\ Uncounted' = Uncounted
  BY <1>2, Zenon DEF Running, Uncounted, At, Workers
<1>4. Counted' /\ Numbered'
  BY <1>1, <1>2, <1>3, SameNumbers, Zenon DEF Counted
<1>5. CASE Clear(u, k)
  <2>1. /\ seqno' = seqno + 1 /\ pos' = pos + 1 /\ cleared' = cleared \cup {k} /\ UNCHANGED deleted
        /\ tree' = [tree EXCEPT ![k] = [NewTree(<<>>) EXCEPT !.id = tree[k].id + 1]]
    BY <1>5, Zenon DEF Clear
  <2>2. PICK t : t = [NewTree(<<>>) EXCEPT !.id = tree[k].id + 1]
    OBVIOUS
  <2>3. t.active = {} /\ t.sealed = <<>> /\ t.table = 0
    BY <2>2 DEF NewTree
  <2>4. tree'[k] = t /\ \A j \in Keyspaces : j # k => tree'[j] = tree[j]
    BY <1>1, <2>1, <2>2, Zenon DEF TreeShape
  <2>5. seqno \in Nat /\ pos \in 0..seqno /\ seqno + 1 \in Nat
    BY <1>1 DEF Scalars
  <2>6. Scalars'
    <3>1. pos' \in 0..seqno' /\ seqno' \in Nat
      BY <2>1, <2>5
    <3> QED
      BY <1>1, <1>2, <2>1, <3>1, Zenon DEF Scalars
  <2>7. ASSUME NEW s, IsStored(s, seqno) PROVE IsStored(s, seqno + 1)
    <3>1. PICK q, P, Q : q = s.sealed /\ P = SUBSET (1..seqno) /\ Q = SUBSET (1..(seqno + 1))
      OBVIOUS
    <3>2. q \in Seq(P) /\ s.active \in P /\ s.table \in 0..seqno
      BY <2>7, <3>1, Zenon DEF IsStored
    <3>3. P \subseteq Q
      BY <2>5, <3>1
    <3>4. q \in Seq(Q) /\ s.active \in Q
      BY <3>2, <3>3
    <3>5. s.table \in 0..(seqno + 1)
      BY <2>5, <3>2
    <3> QED
      BY <2>7, <3>1, <3>4, <3>5, Zenon DEF IsStored
  <2>8. IsStored(t, seqno + 1)
    BY <2>3, <2>5 DEF IsStored
  <2>9. Trees'
    <3>1. \A j \in Keyspaces : IsStored(tree'[j], seqno')
      BY <1>1, <2>1, <2>4, <2>7, <2>8, Zenon DEF Trees
    <3> QED
      BY <3>1, Zenon DEF Trees, IsStored
  <2>10. Items' \subseteq Items
    <3> SUFFICES ASSUME NEW x \in Items' PROVE x \in Items
      BY Zenon
    <3>1. PICK j, n : x = <<j, n>>
      BY ItemsNext, Zenon
    <3>2. j \in Keyspaces /\ n \in tree'[j].active \cup UNION Range(tree'[j].sealed)
      BY <3>1, ItemsNext, Zenon
    <3>3. UNION Range(<<>>) = {}
      BY DEF Range
    <3>4. j # k
      BY <2>3, <2>4, <3>2, <3>3, Zenon
    <3>5. n \in tree[j].active \cup Sealed(j)
      BY <2>4, <3>2, <3>4, Zenon DEF Sealed
    <3> QED
      BY <3>1, <3>2, <3>5, ItemsMean, Zenon
  <2>11. Covered'
    BY <1>1, <1>2, <1>3, <2>5, <2>10, FewerItems, Zenon
  <2> QED
    BY <1>4, <2>6, <2>9, <2>11, Zenon DEF Accounts
<1>6. CASE Delete(u, k)
  <2>1. deleted' = deleted \cup {k} /\ UNCHANGED <<tree, seqno, pos, cleared>>
    BY <1>6, Zenon DEF Delete, journals
  <2>2. Items' = Items /\ Trees'
    BY <1>1, <2>1, SameTrees, Zenon
  <2>3. Covered' /\ Scalars'
    BY <1>1, <1>2, <1>3, <2>1, <2>2, Zenon DEF Covered, Scalars
  <2> QED
    BY <1>4, <2>2, <2>3, Zenon DEF Accounts
<1> QED
  BY <1>5, <1>6, Zenon

\* Workers that leave the trees alone: tasks, messages, journals.
LEMMA WorkerQuietAccounts ==
  ASSUME IInv, Accounts, NEW w \in Workers,
         Enqueue(w) \/ SendFlush(w) \/ JournalMaintenance(w) \/ RotateJournal(w) \/ Fail(w)
  PROVE  Accounts'
<1>1. ThreadShape /\ ChannelShape /\ JournalShape /\ Scalars /\ Numbered /\ w \in Procs
  BY Zenon DEF IInv, Shape, Accounts, Procs
<1>2. /\ proc[w].at # "closed" /\ \E pc : pc # "closed" /\ (Goto(w, pc) \/ Leave(w, pc))
      /\ UNCHANGED <<phase, counter, tree, deleted, seqno, buffer, cleared>>
  <2>1. CASE Enqueue(w)
    <3>1. /\ proc[w].at = "enqueue" /\ Goto(w, "send")
          /\ UNCHANGED <<phase, counter, tree, deleted, seqno, buffer, cleared>>
      BY <2>1, Zenon DEF Enqueue, At, store
    <3>2. "enqueue" # "closed" /\ "send" # "closed"
      OBVIOUS
    <3> QED
      BY <3>1, <3>2, Zenon
  <2>2. CASE SendFlush(w)
    <3>1. /\ proc[w].at = "send" /\ Leave(w, "tidy")
          /\ UNCHANGED <<phase, counter, tree, deleted, seqno, buffer, cleared>>
      BY <2>2, Zenon DEF SendFlush, At, store
    <3>2. "tidy" # "closed" /\ "send" # "closed"
      OBVIOUS
    <3> QED
      BY <3>1, <3>2, Zenon
  <2>3. CASE JournalMaintenance(w)
    <3>1. /\ proc[w].at = "tidy" /\ Leave(w, "idle")
          /\ UNCHANGED <<phase, counter, tree, deleted, seqno, buffer, cleared>>
      BY <2>3, Zenon DEF JournalMaintenance, Done, At, store
    <3>2. "tidy" # "closed" /\ "idle" # "closed"
      OBVIOUS
    <3> QED
      BY <3>1, <3>2, Zenon
  <2>4. CASE RotateJournal(w)
    <3>1. /\ proc[w].at = "journal" /\ Goto(w, "run_flush")
          /\ UNCHANGED <<phase, counter, tree, deleted, seqno, buffer, cleared>>
      BY <2>4, Zenon DEF RotateJournal, At, store
    <3>2. "journal" # "closed" /\ "run_flush" # "closed"
      OBVIOUS
    <3> QED
      BY <3>1, <3>2, Zenon
  <2>5. CASE Fail(w)
    <3>1. /\ proc[w].at \in {"run_flush", "tidy", "compact"} /\ Leave(w, "failed")
          /\ UNCHANGED <<phase, counter, tree, deleted, seqno, buffer, cleared>>
      BY <2>5, Zenon DEF Fail, At, store
    <3>2. "failed" # "closed" /\ "closed" \notin {"run_flush", "tidy", "compact"}
      OBVIOUS
    <3> QED
      BY <3>1, <3>2, Zenon
  <2> QED
    BY <2>1, <2>2, <2>3, <2>4, <2>5, Zenon
<1>3. PICK x : proc' = [proc EXCEPT ![w] = x] /\ x.at # "closed"
  <2>1. PICK pc : pc # "closed" /\ (Goto(w, pc) \/ Leave(w, pc))
    BY <1>2, Zenon
  <2> QED
    BY <1>1, <2>1, Moved, Zenon
<1>4. Len(tasks') <= QueueCap
  <2>1. CASE Enqueue(w)
    <3>1. Len(tasks) < QueueCap /\ tasks' = Append(tasks, proc[w].ks) /\ proc[w].at = "enqueue"
      BY <2>1, Zenon DEF Enqueue, Ks, At
    <3>2. proc[w].ks \in Keyspaces /\ tasks \in Seq(Keyspaces)
      BY <1>1, <3>1 DEF ThreadShape, ChannelShape, IsThread, Free
    <3>3. PICK k : k = proc[w].ks
      OBVIOUS
    <3>4. Len(Append(tasks, k)) = Len(tasks) + 1 /\ Len(tasks) \in Nat
      BY <3>2, <3>3
    <3> QED
      BY <3>1, <3>3, <3>4, WorkerPoolBounds
  <2>2. CASE ~Enqueue(w)
    <3>1. tasks' = tasks
      BY <2>2, Zenon DEF SendFlush, JournalMaintenance, RotateJournal, Fail
    <3> QED
      BY <1>1, <3>1, Zenon DEF Scalars
  <2> QED
    BY <2>1, <2>2
<1>5. poisoned' \in BOOLEAN /\ failures' \in 0..MaxFailures
  <2>1. CASE Fail(w)
    <3>1. poisoned' = TRUE /\ failures' = failures + 1 /\ failures < MaxFailures
      BY <2>1, Zenon DEF Fail
    <3> QED
      BY <1>1, <3>1, WorkerPoolBounds DEF Scalars
  <2>2. CASE ~Fail(w)
    <3>1. UNCHANGED <<poisoned, failures>>
      BY <2>2, Zenon DEF Enqueue, SendFlush, JournalMaintenance, RotateJournal
    <3> QED
      BY <1>1, <3>1, Zenon DEF Scalars
  <2> QED
    BY <2>1, <2>2
<1>6. pos' \in 0..seqno /\ Numbered'
  <2>0. seqno \in Nat /\ pos \in 0..seqno /\ 0 \in 0..seqno
    BY <1>1 DEF Scalars
  <2>1. CASE JournalMaintenance(w)
    <3>1. items' = Evicted(items) /\ UNCHANGED <<pos, sealedNo>>
      BY <2>1, Zenon DEF JournalMaintenance
    <3>2. PICK q, S : q = Evicted(items) /\ S = Range(items)
      OBVIOUS
    <3>3. \A i \in 1..Len(q) : \E j \in 1..Len(items) : q[i] = items[j]
      BY <1>1, <3>2, EvictedMeans, Zenon
    <3>4. sealedNo \in Nat /\ \A i \in 1..Len(q) : q[i].no \in 1..sealedNo
      BY <1>1, <3>3, Zenon DEF Numbered
    <3> QED
      BY <2>0, <3>1, <3>2, <3>4, Zenon DEF Numbered
  <2>2. CASE RotateJournal(w) /\ ~(pos <= JournalLimit)
    <3>1. PICK r : r.no = sealedNo + 1 /\ items' = Append(items, r) /\ sealedNo' = sealedNo + 1 /\ pos' = 0
      <4> DEFINE live == {k \in Keyspaces \ deleted : HighestMemtable(k) > 0}
                 new == [no |-> sealedNo + 1, marks |-> [k \in live |-> HighestMemtable(k)]]
      <4>1. items' = Append(items, new) /\ sealedNo' = sealedNo + 1 /\ pos' = 0
        BY <2>2, Zenon DEF RotateJournal
      <4>2. new.no = sealedNo + 1
        OBVIOUS
      <4> QED
        BY <4>1, <4>2, Zenon
    <3>2. PICK q, S : q = Append(items, r) /\ S = Range(items) \cup {r}
      OBVIOUS
    <3>3. Len(q) = Len(items) + 1 /\ Len(items) \in Nat /\ q[Len(items) + 1] = r
          /\ \A i \in 1..Len(items) : q[i] = items[i]
      <4>1. PICK R : R = Range(items)
        OBVIOUS
      <4>2. items \in Seq(R) /\ R \subseteq S /\ r \in S
        BY <1>1, <3>2, <4>1, Zenon DEF JournalShape
      <4> QED
        BY <3>2, <4>2
    <3>4. sealedNo \in Nat /\ \A i \in 1..Len(items) : items[i].no \in 1..sealedNo
      BY <1>1, Zenon DEF Numbered
    <3>5. sealedNo + 1 \in Nat /\ \A n \in 1..sealedNo : n \in 1..(sealedNo + 1)
      BY <3>4
    <3>6. \A i \in 1..Len(q) : i \in 1..Len(items) \/ i = Len(items) + 1
      BY <3>3
    <3>7. sealedNo + 1 \in 1..(sealedNo + 1)
      BY <3>4
    <3>8. \A i \in 1..Len(q) : q[i].no \in 1..(sealedNo + 1)
      BY <3>1, <3>3, <3>4, <3>5, <3>6, <3>7, Zenon
    <3> QED
      BY <2>0, <3>1, <3>2, <3>5, <3>8, Zenon DEF Numbered
  <2>3. CASE ~JournalMaintenance(w) /\ ~(RotateJournal(w) /\ ~(pos <= JournalLimit))
    <3>1. UNCHANGED <<pos, items, sealedNo>>
      BY <2>3, Zenon DEF Enqueue, SendFlush, RotateJournal, Fail, journals
    <3> QED
      BY <2>0, <3>1, SameNumbers, Zenon
  <2> QED
    BY <2>1, <2>2, <2>3
<1> QED
  BY <1>1, <1>2, <1>3, <1>4, <1>5, <1>6, QuietAccounts, Zenon

\* A worker takes a message: Close ends the thread and takes it off the count.
LEMMA ReceiveAccounts == ASSUME IInv, Accounts, NEW w \in Workers, Receive(w) PROVE Accounts'
<1>1. ThreadShape /\ ChannelShape /\ Trees /\ Scalars /\ Counted /\ Covered /\ w \in Procs
  BY Zenon DEF IInv, Shape, Accounts, Procs
<1>2. /\ proc[w].at = "idle" /\ queue # <<>>
      /\ UNCHANGED <<phase, tree, deleted, seqno, buffer, cleared, poisoned, pos, items, sealedNo, failures>>
  BY Zenon DEF Receive, At, journals, store
<1>3. PICK m : m = Head(queue)
  OBVIOUS
<1>4. m \in Message
  <2>1. queue \in Seq(Message)
    BY <1>1, Zenon DEF ChannelShape
  <2> QED
    BY <1>2, <1>3, <2>1, TailMeans
<1>5. proc[w].at # "closed" /\ proc[w].at # "new"
  BY <1>2
<1>6. pos' \in 0..seqno /\ poisoned' \in BOOLEAN /\ failures' \in 0..MaxFailures /\ Numbered'
  BY <1>1, <1>2, SameNumbers, Zenon DEF Scalars
<1>7. Len(tasks') <= QueueCap
  <2>1. tasks' = tasks \/ tasks' = SubSeq(tasks, 2, Len(tasks))
    BY Zenon DEF Receive
  <2>2. tasks \in Seq(Keyspaces) /\ Len(tasks) <= QueueCap
    BY <1>1, Zenon DEF ChannelShape, Scalars
  <2>3. PICK q : q = SubSeq(tasks, 2, Len(tasks))
    OBVIOUS
  <2>4. Len(q) <= Len(tasks) /\ Len(tasks) \in Nat /\ Len(q) \in Nat
    BY <2>2, <2>3
  <2>5. Len(q) <= QueueCap
    BY <2>2, <2>4, WorkerPoolBounds
  <2> QED
    BY <2>1, <2>2, <2>3, <2>5, Zenon
<1>8. CASE m # Close
  <2>1. PICK x : proc' = [proc EXCEPT ![w] = x] /\ x.at # "closed"
    <3>1. CASE m = Flush
      <4>1. PICK x : x = IF tasks = <<>> THEN Idle ELSE [at |-> "journal", ks |-> Head(tasks), id |-> 0]
        OBVIOUS
      <4>2. proc' = [proc EXCEPT ![w] = x]
        BY <1>3, <3>1, <4>1 DEF Receive
      <4>3. x.at # "closed"
        BY <4>1 DEF Idle
      <4> QED
        BY <4>2, <4>3, Zenon
    <3>2. CASE m # Flush
      <4>1. PICK x : x = [at |-> m.kind, ks |-> m.ks, id |-> m.id]
        OBVIOUS
      <4>2. proc' = [proc EXCEPT ![w] = x]
        BY <1>3, <1>8, <3>2, <4>1 DEF Receive
      <4>3. m.kind \in {"compact", "rotate"} /\ x.at = m.kind
        BY <1>4, <1>8, <3>2, <4>1, MessageKinds, Zenon
      <4>4. x.at # "closed"
        BY <4>3
      <4> QED
        BY <4>2, <4>4, Zenon
    <3> QED
      BY <3>1, <3>2
  <2>2. counter' = counter
    BY <1>3, <1>8 DEF Receive
  <2> QED
    BY <1>1, <1>2, <1>5, <1>6, <1>7, <2>1, <2>2, QuietAccounts, Zenon
<1>9. CASE m = Close
  <2>1. PICK x : x = [at |-> "closed", ks |-> m.ks, id |-> m.id]
    OBVIOUS
  <2>2. m # Flush /\ x.at = "closed"
    BY <1>9, <2>1, MessageKinds
  <2>3. proc' = [proc EXCEPT ![w] = x] /\ counter' = counter - 1
    BY <1>3, <1>9, <2>1, <2>2 DEF Receive
  <2>4. w \in Running /\ Running' = Running \ {w} /\ Uncounted' = Uncounted /\ Items' = Items /\ Trees'
    BY <1>1, <1>2, <1>5, <2>2, <2>3, ThreadAccounts, SameTrees, Zenon
  <2>5. phase # "opening"
    <3>1. proc[w].at # "new" /\ w \in Workers
      BY <1>5
    <3> QED
      BY <1>1, <3>1, Zenon DEF IInv, Opening
  <2>6. Counted'
    <3>1. IsFiniteSet(Running)
      BY ThreadsFinite, Zenon
    <3>2. Cardinality(Running') = Cardinality(Running) - 1
      BY <2>4, <3>1, FS_RemoveElement, Zenon
    <3> QED
      BY <1>1, <1>2, <2>3, <2>5, <3>2, Zenon DEF Counted
  <2>7. Covered' /\ Scalars'
    BY <1>1, <1>2, <1>6, <1>7, <2>4, Zenon DEF Covered, Scalars
  <2> QED
    BY <1>6, <2>4, <2>6, <2>7, Zenon DEF Accounts
<1> QED
  BY <1>8, <1>9

\* A worker's step that keeps the items where they are counted.
LEMMA KeptItemsAccounts ==
  ASSUME IInv, Accounts, NEW w \in Workers, NEW x, proc' = [proc EXCEPT ![w] = x],
         proc[w].at # "closed", x.at # "closed", Trees', Items' = Items,
         UNCHANGED <<phase, counter, deleted, seqno, buffer, cleared, tasks, poisoned, pos, items, sealedNo, failures>>
  PROVE  Accounts'
<1>1. ThreadShape /\ Scalars /\ Counted /\ Covered /\ w \in Procs
  BY Zenon DEF IInv, Shape, Accounts, Procs
<1>2. Running' = Running /\ Uncounted' = Uncounted
  BY <1>1, ThreadAccounts, Zenon
<1>3. Counted' /\ Covered' /\ Scalars' /\ Numbered'
  BY <1>1, <1>2, SameNumbers, Zenon DEF Counted, Covered, Scalars
<1> QED
  BY <1>3, Zenon DEF Accounts

\* A memtable is sealed: the same items.
LEMMA RotateAccounts == ASSUME IInv, Accounts, NEW w \in Workers, Rotate(w) PROVE Accounts'
<1>1. TreeShape /\ ThreadShape /\ Trees /\ Scalars /\ w \in Procs
  BY Zenon DEF IInv, Shape, Accounts, Procs
<1>2. /\ proc[w].at = "rotate"
      /\ UNCHANGED <<phase, counter, deleted, seqno, buffer, cleared, tasks, poisoned, pos, items, sealedNo, failures>>
  BY Zenon DEF Rotate, At, journals
<1>3. PICK k : k = proc[w].ks
  OBVIOUS
<1>4. k \in Keyspaces /\ proc[w].at # "closed"
  BY <1>1, <1>2, <1>3 DEF ThreadShape, IsThread, Free
<1>5. CASE Done(w) /\ UNCHANGED tree
  <2>1. Leave(w, "idle") /\ "idle" # "closed"
    BY <1>5 DEF Done
  <2>2. PICK x : proc' = [proc EXCEPT ![w] = x] /\ x.at = "idle"
    BY <1>1, <2>1, Moved, Zenon
  <2> QED
    BY <1>1, <1>2, <1>4, <1>5, <2>1, <2>2, KeptItemsAccounts, SameTrees, Zenon
<1>6. CASE /\ tree' = [tree EXCEPT ![k] = [tree[k] EXCEPT !.id = @ + 1, !.active = {},
                                                          !.sealed = Append(@, tree[k].active)]]
           /\ Goto(w, "enqueue")
  <2>1. Goto(w, "enqueue") /\ "enqueue" # "closed"
    BY <1>6
  <2>2. PICK x : proc' = [proc EXCEPT ![w] = x] /\ x.at = "enqueue"
    BY <1>1, <2>1, Moved, Zenon
  <2>3. PICK t : t = [tree[k] EXCEPT !.id = @ + 1, !.active = {}, !.sealed = Append(@, tree[k].active)]
    OBVIOUS
  <2>4. tree'[k] = t /\ \A j \in Keyspaces : j # k => tree'[j] = tree[j]
    BY <1>1, <1>4, <1>6, <2>3, Zenon DEF TreeShape
  <2>5. PICK a, s : a = tree[k].active /\ s = tree[k].sealed
    OBVIOUS
  <2>6. DOMAIN tree[k] = {"id", "active", "l0", "table", "sealed"} /\ IsStored(tree[k], seqno) /\ seqno \in Nat
    BY <1>1, <1>4, Zenon DEF TreeShape, Trees, Scalars
  <2>7. t.active = {} /\ t.table = tree[k].table /\ t.sealed = Append(s, a)
    BY <2>3, <2>5, <2>6
  <2>8. PICK P : P = SUBSET (1..seqno)
    OBVIOUS
  <2>9. s \in Seq(P) /\ a \in P /\ tree[k].table \in 0..seqno
    BY <2>5, <2>6, <2>8, Zenon DEF IsStored
  <2>10. PICK q : q = Append(s, a)
    OBVIOUS
  <2>11. /\ q \in Seq(P) /\ Len(q) = Len(s) + 1 /\ Len(s) \in Nat /\ q[Len(s) + 1] = a
         /\ \A i \in 1..Len(s) : q[i] = s[i]
    BY <2>9, <2>10
  <2>12. IsStored(t, seqno)
    <3>1. {} \in SUBSET (1..seqno) /\ \A i \in 1..Len(q) : q[i] \cap {} = {}
      OBVIOUS
    <3> QED
      BY <2>7, <2>8, <2>9, <2>10, <2>11, <3>1, Zenon DEF IsStored
  <2>13. Trees'
    <3>1. \A j \in Keyspaces : IsStored(tree'[j], seqno')
      BY <1>1, <1>2, <2>4, <2>12, Zenon DEF Trees
    <3> QED
      BY <3>1, Zenon DEF Trees, IsStored
  <2>14. Items' = Items
    <3>1. PICK A, B : A = UNION Range(q) /\ B = UNION Range(s)
      OBVIOUS
    <3>2. /\ \A i : i \in B <=> \E j \in 1..Len(s) : i \in s[j]
          /\ \A i : i \in A <=> \E j \in 1..Len(q) : i \in q[j]
      <4>1. A = UNION Range(t.sealed) /\ B = UNION Range(tree[k].sealed)
        BY <2>5, <2>7, <2>10, <3>1, Zenon
      <4>0. PICK r, n : r = tree[k] /\ n = seqno
        OBVIOUS
      <4>2. \A i : i \in B <=> \E j \in 1..Len(r.sealed) : i \in r.sealed[j]
        <5>1. IsStored(r, n) /\ n \in Nat /\ B = UNION Range(r.sealed)
          BY <2>6, <4>0, <4>1, Zenon
        <5> QED
          BY <5>1, SealedMean, Zenon
      <4>3. \A i : i \in A <=> \E j \in 1..Len(t.sealed) : i \in t.sealed[j]
        BY <2>6, <2>12, <4>1, SealedMean, Zenon
      <4> QED
        BY <2>5, <2>7, <2>10, <4>0, <4>2, <4>3, Zenon
    <3>3. 1..Len(q) = 1..Len(s) \cup {Len(s) + 1}
      BY <2>11
    <3>4. \A i : i \in A <=> i \in a \/ i \in B
      BY <2>11, <3>2, <3>3, Zenon
    <3>5. {} \cup A = a \cup B
      BY <3>4, Zenon
    <3>6. tree'[k].active \cup UNION Range(tree'[k].sealed) = tree[k].active \cup Sealed(k)
      BY <2>4, <2>5, <2>7, <2>10, <3>1, <3>5, Zenon DEF Sealed
    <3>7. \A j \in Keyspaces : j # k =>
             tree'[j].active \cup UNION Range(tree'[j].sealed) = tree[j].active \cup Sealed(j)
      BY <2>4, Zenon DEF Sealed
    <3> QED
      BY <3>6, <3>7, SameItems, Zenon
  <2>15. x.at # "closed"
    BY <2>2
  <2> QED
    BY <1>2, <1>4, <2>2, <2>13, <2>14, <2>15, KeptItemsAccounts, Zenon
<1> QED
  BY <1>3, <1>5, <1>6, Zenon DEF Rotate, Ks

\* The greater of 0 and a number.
LEMMA MaxMeans == ASSUME NEW b \in Int PROVE Max({0, b}) \in Nat /\ Max({0, b}) >= b
<1>1. \E x \in {0, b} : \A y \in {0, b} : x >= y
  <2>1. CASE b <= 0
    BY <2>1
  <2>2. CASE 0 <= b
    BY <2>2
  <2> QED
    BY <2>1, <2>2
<1>2. Max({0, b}) \in {0, b} /\ \A y \in {0, b} : Max({0, b}) >= y
  BY <1>1, Zenon DEF Max
<1> QED
  BY <1>2

\* A compaction changes level 0 only.
LEMMA RunCompactionAccounts == ASSUME IInv, Accounts, NEW w \in Workers, RunCompaction(w) PROVE Accounts'
<1>1. TreeShape /\ ThreadShape /\ Trees /\ Scalars /\ w \in Procs
  BY Zenon DEF IInv, Shape, Accounts, Procs
<1>2. /\ proc[w].at = "compact" /\ Leave(w, "idle")
      /\ UNCHANGED <<phase, counter, deleted, seqno, buffer, cleared, tasks, poisoned, pos, items, sealedNo, failures>>
  BY Zenon DEF RunCompaction, Done, At, journals
<1>3. PICK k : k = proc[w].ks
  OBVIOUS
<1>4. k \in Keyspaces /\ proc[w].at # "closed" /\ "idle" # "closed"
  BY <1>1, <1>2, <1>3 DEF ThreadShape, IsThread, Free
<1>5. PICK x : proc' = [proc EXCEPT ![w] = x] /\ x.at = "idle"
  BY <1>1, <1>2, Moved, Zenon
<1>6. CASE UNCHANGED tree
  BY <1>1, <1>2, <1>4, <1>5, <1>6, KeptItemsAccounts, SameTrees, Zenon
<1>7. CASE tree' = [tree EXCEPT ![k].l0 = 0]
  <2>1. DOMAIN tree = Keyspaces /\ DOMAIN tree[k] = {"id", "active", "l0", "table", "sealed"}
    BY <1>1, <1>4, Zenon DEF TreeShape
  <2>2. \A j \in Keyspaces : /\ tree'[j].sealed = tree[j].sealed /\ tree'[j].active = tree[j].active
                             /\ tree'[j].table = tree[j].table
    BY <1>4, <1>7, <2>1
  <2>3. Trees'
    BY <1>1, <1>2, <2>2, Zenon DEF Trees, IsStored
  <2>4. \A j \in Keyspaces : tree'[j].active \cup UNION Range(tree'[j].sealed) = tree[j].active \cup Sealed(j)
    BY <2>2, Zenon DEF Sealed
  <2>5. Items' = Items
    BY <2>4, SameItems, Zenon
  <2> QED
    BY <1>2, <1>4, <1>5, <2>3, <2>5, KeptItemsAccounts, Zenon
<1> QED
  BY <1>3, <1>6, <1>7, Zenon DEF RunCompaction, Ks

\* A flush takes what is sealed out of the memtables and off the count.
LEMMA RunFlushAccounts == ASSUME IInv, Accounts, NEW w \in Workers, RunFlush(w) PROVE Accounts'
<1>1. TreeShape /\ ThreadShape /\ Trees /\ Scalars /\ Counted /\ Covered /\ w \in Procs
  BY Zenon DEF IInv, Shape, Accounts, Procs
<1>2. /\ proc[w].at = "run_flush" /\ Leave(w, "tidy")
      /\ UNCHANGED <<phase, counter, deleted, seqno, cleared, tasks, poisoned, pos, items, sealedNo, failures>>
  BY Zenon DEF RunFlush, At, journals
<1>3. PICK k : k = proc[w].ks
  OBVIOUS
<1>4. k \in Keyspaces /\ proc[w].at # "closed" /\ "tidy" # "closed"
  BY <1>1, <1>2, <1>3 DEF ThreadShape, IsThread, Free
<1>5. PICK x : proc' = [proc EXCEPT ![w] = x] /\ x.at = "tidy"
  BY <1>1, <1>2, Moved, Zenon
<1>6. CASE UNCHANGED <<tree, buffer>>
  BY <1>1, <1>2, <1>4, <1>5, <1>6, KeptItemsAccounts, SameTrees, Zenon
<1>7. CASE tree[k].sealed # <<>>
  <2>1. PICK S, h : S = Sealed(k) /\ h = Max({tree[k].table} \cup S)
    OBVIOUS
  <2>2. /\ tree' = [tree EXCEPT ![k].sealed = <<>>, ![k].l0 = @ + 1, ![k].table = h]
        /\ buffer' = Max({0, buffer - Cardinality(S)})
    BY <1>3, <1>7, <2>1 DEF RunFlush, Ks
  <2>3. DOMAIN tree = Keyspaces /\ DOMAIN tree[k] = {"id", "active", "l0", "table", "sealed"}
    BY <1>1, <1>4, Zenon DEF TreeShape
  <2>4. PICK t : t = tree'[k]
    OBVIOUS
  <2>5. /\ t.sealed = <<>> /\ t.active = tree[k].active /\ t.table = h
        /\ \A j \in Keyspaces : j # k => tree'[j] = tree[j]
    BY <1>4, <2>2, <2>3, <2>4
  <2>6. IsStored(tree[k], seqno) /\ seqno \in Nat /\ S = UNION Range(tree[k].sealed)
    BY <1>1, <1>4, <2>1, Zenon DEF Trees, Scalars, Sealed
  <2>7. S \in SUBSET (1..seqno) /\ S \cap tree[k].active = {} /\ tree[k].table \in 0..seqno
        /\ tree[k].active \in SUBSET (1..seqno)
    <3>0. PICK r, n : r = tree[k] /\ n = seqno
      OBVIOUS
    <3>1. IsStored(r, n) /\ n \in Nat /\ S = UNION Range(r.sealed)
      BY <2>6, <3>0, Zenon
    <3>2. S \in SUBSET (1..n) /\ S \cap r.active = {}
      BY <3>1, SealedMean, Zenon
    <3> QED
      BY <3>0, <3>1, <3>2, Zenon DEF IsStored
  <2>8. h \in 0..seqno
    <3>1. PICK T : T = {tree[k].table} \cup S
      OBVIOUS
    <3>2. T \in SUBSET (0..seqno) /\ T # {}
      BY <2>6, <2>7, <3>1
    <3>3. PICK m \in T : \A y \in T : y <= m
      BY <2>6, <3>2, GreatestUpTo, Zenon
    <3>4. \A y \in T : m >= y
      BY <2>6, <3>2, <3>3
    <3>5. Max(T) \in T
      BY <3>3, <3>4, Zenon DEF Max
    <3> QED
      BY <2>1, <3>1, <3>2, <3>5, Zenon
  <2>9. Trees'
    <3>1. <<>> \in Seq(SUBSET (1..seqno)) /\ 1..Len(<<>>) = {}
      OBVIOUS
    <3>2. IsStored(t, seqno)
      BY <2>5, <2>7, <2>8, <3>1, Zenon DEF IsStored
    <3>3. \A j \in Keyspaces : IsStored(tree'[j], seqno')
      BY <1>1, <1>2, <2>4, <2>5, <3>2, Zenon DEF Trees
    <3> QED
      BY <3>3, Zenon DEF Trees, IsStored
  <2>10. PICK F : F = {k} \X S
    OBVIOUS
  <2>11. Items' = Items \ F /\ F \subseteq Items
    <3>0. \A j, n : <<j, n>> \in F <=> j = k /\ n \in S
      BY <2>10
    <3>1. UNION Range(<<>>) = {}
      BY DEF Range
    <3>2. \A j \in Keyspaces : \A n : n \in tree'[j].active \cup UNION Range(tree'[j].sealed)
                          <=> n \in tree[j].active \cup Sealed(j) /\ ~(j = k /\ n \in S)
      <4>1. ASSUME NEW n
            PROVE  n \in t.active \cup UNION Range(t.sealed) <=> n \in tree[k].active \cup S /\ n \notin S
        BY <2>5, <2>7, <3>1, Zenon
      <4> QED
        BY <2>1, <2>4, <2>5, <4>1, Zenon DEF Sealed
    <3>3. \A j, n : <<j, n>> \in Items' <=> <<j, n>> \in Items /\ <<j, n>> \notin F
      BY <3>0, <3>2, ItemsNext, ItemsMean, Zenon
    <3>4. \A j, n : <<j, n>> \in F => <<j, n>> \in Items
      BY <1>4, <2>1, <3>0, ItemsMean, Zenon
    <3>5. \A y \in F : \E j, n : y = <<j, n>>
      BY <2>10
    <3>6. \A y \in Items : \E j, n : y = <<j, n>>
      BY ItemsArePairs, Zenon
    <3>7. \A y \in Items' : \E j, n : y = <<j, n>>
      BY ItemsNext, Zenon
    <3>8. ASSUME NEW y \in F PROVE y \in Items
      <4>1. PICK j, n : y = <<j, n>>
        BY <3>5, Zenon
      <4> QED
        BY <3>4, <4>1, Zenon
    <3>9. ASSUME NEW y \in Items' PROVE y \in Items \ F
      <4>1. PICK j, n : y = <<j, n>>
        BY <3>7, Zenon
      <4> QED
        BY <3>3, <3>9, <4>1, Zenon
    <3>10. ASSUME NEW y \in Items, y \notin F PROVE y \in Items'
      <4>1. PICK j, n : y = <<j, n>>
        BY <3>6, Zenon
      <4> QED
        BY <3>3, <3>10, <4>1, Zenon
    <3> QED
      BY <3>8, <3>9, <3>10, Zenon
  <2>12. Cardinality(Items') = Cardinality(Items) - Cardinality(S) /\ Cardinality(S) \in Nat
    <3>1. IsFiniteSet(Items) /\ IsFiniteSet(1..seqno)
      <4>1. IsFiniteSet(1..seqno)
        BY <2>6, FS_Interval
      <4> QED
        BY <1>1, <2>6, <4>1, ItemsFinite, Zenon
    <3>2. IsFiniteSet(S) /\ IsFiniteSet({k}) /\ Cardinality({k}) = 1
      BY <2>7, <3>1, FS_Subset, FS_Singleton, Zenon
    <3>3. Cardinality(F) = 1 * Cardinality(S) /\ Cardinality(S) \in Nat
      BY <2>10, <3>2, FS_Product, FS_CardinalityType, Zenon
    <3>4. Cardinality(F) = Cardinality(S)
      BY <3>3
    <3>5. Items \cap F = F
      BY <2>11, Zenon
    <3>6. Cardinality(Items \ F) = Cardinality(Items) - Cardinality(Items \cap F)
      BY <3>1, FS_Difference, Zenon
    <3>7. Cardinality(Items \ F) = Cardinality(Items) - Cardinality(S)
      BY <3>4, <3>5, <3>6, Zenon
    <3> QED
      BY <2>11, <3>3, <3>7, Zenon
  <2>13. Running' = Running /\ Uncounted' = Uncounted
    BY <1>1, <1>4, <1>5, ThreadAccounts, Zenon
  <2>14. Covered'
    <3>1. PICK a, a1, b, n : a = Cardinality(Items) /\ a1 = Cardinality(Items') /\ b = Cardinality(Uncounted) /\ n = Cardinality(S)
      OBVIOUS
    <3>2. a \in Nat /\ b \in Nat /\ n \in Nat /\ a1 = a - n
      BY <1>1, <2>6, <2>12, <3>1, ItemsFinite, ThreadsFinite, Zenon
    <3>3. buffer \in Nat /\ buffer + b >= a
      BY <1>1, <3>1, Zenon DEF Covered
    <3>4. buffer - n \in Int
      BY <3>2, <3>3
    <3>5. buffer' \in Nat /\ buffer' >= buffer - n
      BY <2>2, <3>1, <3>4, MaxMeans, Zenon
    <3>6. buffer' + b >= a1
      <4>1. PICK c : c = buffer'
        OBVIOUS
      <4>2. c \in Nat /\ c >= buffer - n
        BY <3>5, <4>1, Zenon
      <4>3. c + b >= a1
        BY <3>2, <3>3, <4>2
      <4> QED
        BY <4>1, <4>3, Zenon
    <3> QED
      BY <2>13, <3>1, <3>5, <3>6, Zenon DEF Covered
  <2>15. Counted' /\ Scalars' /\ Numbered'
    BY <1>1, <1>2, <2>13, SameNumbers, Zenon DEF Counted, Scalars
  <2> QED
    BY <2>9, <2>14, <2>15, Zenon DEF Accounts
<1> QED
  BY <1>3, <1>6, <1>7, Zenon DEF RunFlush, Ks

\* A database that is opened: tasks, and then the threads.
LEMMA OpenEnqueueAccounts == ASSUME IInv, Accounts, NEW k \in Keyspaces, OpenEnqueue(k) PROVE Accounts'
<1>1. ChannelShape /\ Trees /\ Scalars /\ Counted /\ Covered
  BY Zenon DEF IInv, Shape, Accounts
<1>2. /\ Len(tasks) < QueueCap /\ tasks' = Append(tasks, k)
      /\ UNCHANGED <<phase, proc, counter, tree, deleted, seqno, buffer, cleared, poisoned, pos, items, sealedNo, failures>>
  BY Zenon DEF OpenEnqueue, store, journals
<1>3. Running' = Running /\ Uncounted' = Uncounted /\ Items' = Items /\ Trees'
  BY <1>1, <1>2, SameTrees, Zenon DEF Running, Uncounted, At, Workers
<1>4. Len(tasks') <= QueueCap
  <2>1. tasks \in Seq(Keyspaces)
    BY <1>1, Zenon DEF ChannelShape
  <2>2. Len(Append(tasks, k)) = Len(tasks) + 1 /\ Len(tasks) \in Nat
    BY <2>1
  <2> QED
    BY <1>2, <2>2, WorkerPoolBounds
<1>5. Scalars' /\ Numbered' /\ Counted' /\ Covered'
  BY <1>1, <1>2, <1>3, <1>4, SameNumbers, Zenon DEF Scalars, Counted, Covered
<1> QED
  BY <1>3, <1>5, Zenon DEF Accounts

LEMMA StartAccounts == ASSUME IInv, Accounts, Start \/ \E w \in Workers : StartFails(w) PROVE Accounts'
<1>1. ThreadShape /\ Opening /\ Trees /\ Scalars /\ Counted /\ Covered
  BY Zenon DEF IInv, Shape, Accounts
<1>2. /\ phase = "opening" /\ phase' \in {"running", "dropped"}
      /\ UNCHANGED <<tree, deleted, tasks, poisoned, seqno, pos, items, sealedNo, buffer, cleared>>
  BY Zenon DEF Start, StartFails, store, journals
<1>3. Items' = Items /\ Trees' /\ Numbered'
  BY <1>1, <1>2, SameTrees, SameNumbers, Zenon
<1>4. /\ \A q : q \in Running' <=> q \in Workers /\ proc'[q].at # "closed"
      /\ \A q : q \in Uncounted' <=> q \in Users /\ proc'[q].at = "written"
      /\ \A q : q \in Uncounted <=> q \in Users /\ proc[q].at = "written"
  BY Zenon DEF Running, Uncounted, At, Workers
<1>5. /\ \A q \in Workers : q \in Procs /\ q \notin Users
      /\ \A q \in Users : q \in Procs /\ q \notin Workers
      /\ IsFiniteSet(Workers) /\ Cardinality(Workers) = PoolSize
  BY ThreadsFinite, Zenon DEF Procs
<1>6. Idle.at = "idle" /\ "idle" # "written" /\ "idle" # "closed" /\ "new" # "closed"
  BY DEF Idle
<1>7. /\ counter' = Cardinality(Running') /\ \A q \in Users : proc'[q] = Idle
      /\ failures' \in 0..MaxFailures
  <2>1. CASE Start
    <3>1. counter' = PoolSize /\ proc' = [p \in Procs |-> Idle] /\ failures' = failures
      BY <2>1, Zenon DEF Start
    <3>2. \A q \in Procs : proc'[q] = Idle
      BY <3>1, Zenon
    <3>3. Running' = Workers
      BY <1>4, <1>5, <1>6, <3>2
    <3> QED
      BY <1>1, <1>5, <3>1, <3>2, <3>3, Zenon DEF Scalars
  <2>2. ASSUME NEW w \in Workers, StartFails(w)
        PROVE  /\ counter' = Cardinality(Running') /\ \A q \in Users : proc'[q] = Idle
               /\ failures' \in 0..MaxFailures
    <3>1. PICK c : c = [Idle EXCEPT !.at = "closed"]
      OBVIOUS
    <3>2. /\ counter' = PoolSize - 1 /\ failures < MaxFailures /\ failures' = failures + 1
          /\ proc' = [p \in Procs |-> IF p \in Users \/ p < w THEN Idle ELSE IF p = w THEN c ELSE proc[p]]
      BY <2>2, <3>1, Zenon DEF StartFails
    <3>3. c.at = "closed" /\ ~(w < w)
      BY <3>1 DEF Idle, Workers
    <3>4. \A q \in Procs : proc'[q] = IF q \in Users \/ q < w THEN Idle ELSE IF q = w THEN c ELSE proc[q]
      BY <3>2, Zenon
    <3>5. \A q \in Workers : proc[q].at = "new"
      BY <1>1, <1>2, <1>5, Zenon DEF Opening
    <3>6. \A q \in Workers : proc'[q].at # "closed" <=> q # w
      BY <1>5, <1>6, <3>3, <3>4, <3>5, Zenon
    <3>7. Running' = Workers \ {w}
      BY <1>4, <3>6
    <3>8. Cardinality(Workers \ {w}) = PoolSize - 1
      BY <1>5, FS_RemoveElement, Zenon
    <3>9. failures' \in 0..MaxFailures
      BY <1>1, <3>2, WorkerPoolBounds DEF Scalars
    <3> QED
      BY <1>5, <3>2, <3>4, <3>7, <3>8, <3>9, Zenon
  <2> QED
    BY <2>1, <2>2, Zenon
<1>8. Uncounted' = Uncounted
  <2>1. \A q \in Users : proc[q].at = "idle"
    BY <1>1, <1>2, <1>5, Zenon DEF Opening
  <2> QED
    BY <1>4, <1>6, <1>7, <2>1
<1>9. phase' # "opening" /\ phase' \in {"opening", "running", "dropped", "closing", "closed"}
  BY <1>2
<1>10. Scalars' /\ Counted' /\ Covered'
  BY <1>1, <1>2, <1>3, <1>7, <1>8, <1>9, Zenon DEF Scalars, Counted, Covered
<1> QED
  BY <1>3, <1>10, Zenon DEF Accounts

\* Steps that leave threads and trees as they are: those of closing.
LEMMA CloseAccounts == ASSUME IInv, Accounts, Drop \/ SendClose \/ DropEnds \/ UNCHANGED vars PROVE Accounts'
<1>1. Trees /\ Scalars /\ Numbered /\ Counted /\ Covered
  BY Zenon DEF IInv, Shape, Accounts
<1>2. /\ UNCHANGED <<proc, counter, tree, deleted, seqno, buffer, cleared, poisoned, pos, sealedNo, failures>>
      /\ tasks' = tasks \/ tasks' = <<>>
      /\ items' = items \/ items' = <<>>
      /\ phase' = phase \/ (phase # "opening" /\ phase' \in {"closing", "closed"})
  <2>1. CASE Drop
    <3>1. phase \in {"dropped", "running"} /\ phase' = "closing"
      BY <2>1, Zenon DEF Drop
    <3>2. phase # "opening" /\ phase' \in {"closing", "closed"}
      BY <3>1
    <3> QED
      BY <2>1, <3>2, Zenon DEF Drop, store, journals
  <2>2. CASE DropEnds
    <3>1. phase = "closing" /\ phase' = "closed"
      BY <2>2, Zenon DEF DropEnds
    <3>2. phase # "opening" /\ phase' \in {"closing", "closed"}
      BY <3>1
    <3> QED
      BY <2>2, <3>2, Zenon DEF DropEnds, store, journals
  <2>3. CASE SendClose \/ UNCHANGED vars
    BY <2>3, Zenon DEF SendClose, vars, store, journals
  <2> QED
    BY <2>1, <2>2, <2>3, Zenon
<1>3. Running' = Running /\ Uncounted' = Uncounted /\ Items' = Items /\ Trees'
  BY <1>1, <1>2, SameTrees, Zenon DEF Running, Uncounted, At, Workers
<1>4. Len(<<>>) <= QueueCap /\ 1..Len(<<>>) = {}
  BY WorkerPoolBounds
<1>5. Numbered' /\ Covered'
  BY <1>1, <1>2, <1>3, <1>4, Zenon DEF Numbered, Covered
<1>6. /\ phase' \in {"opening", "running", "dropped", "closing", "closed"}
      /\ phase' = phase \/ (phase # "opening" /\ phase' # "opening")
  BY <1>1, <1>2 DEF Scalars
<1>7. Scalars' /\ Counted'
  BY <1>1, <1>2, <1>3, <1>4, <1>6, Zenon DEF Scalars, Counted
<1> QED
  BY <1>3, <1>5, <1>7, Zenon DEF Accounts

\* A recovered database has counted the memtables it restored.
LEMMA InitAccounts == Init => Accounts
<1> SUFFICES ASSUME Init PROVE Accounts
  OBVIOUS
<1>1. PICK some \in SUBSET Keyspaces :
        /\ tree = [k \in Keyspaces |-> NewTree(IF k \in some THEN <<{1}>> ELSE <<>>)]
        /\ items = IF some = {} THEN <<>> ELSE <<[no |-> 1, marks |-> [k \in some |-> 1]]>>
        /\ seqno = (IF some = {} THEN 0 ELSE 1) /\ sealedNo = seqno
        /\ buffer = Cardinality(some)
  BY Zenon DEF Init
<1>2. /\ phase = "opening" /\ pos = 0 /\ tasks = <<>> /\ counter = 0
      /\ deleted = {} /\ poisoned = FALSE /\ cleared = {} /\ failures = 0
  BY Zenon DEF Init
<1>3. Scalars /\ Counted
  <2>1. seqno \in Nat /\ 0 \in 0..seqno /\ 0 \in 0..MaxFailures /\ Len(<<>>) <= QueueCap
    BY <1>1, WorkerPoolBounds, SMTT(30)
  <2>2. "opening" \in {"opening", "running", "dropped", "closing", "closed"} /\ FALSE \in BOOLEAN
    OBVIOUS
  <2> QED
    BY <1>2, <2>1, <2>2, Zenon DEF Scalars, Counted
<1>4. Numbered
  <2>1. CASE some = {}
    <3>1. items = <<>> /\ sealedNo = 0
      BY <1>1, <2>1, Zenon
    <3> QED
      BY <3>1 DEF Numbered
  <2>2. CASE some # {}
    <3>1. PICK r : r = [no |-> 1, marks |-> [k \in some |-> 1]]
      OBVIOUS
    <3>2. items = <<r>> /\ sealedNo = 1
      BY <1>1, <2>2, <3>1, Zenon
    <3>3. r.no = 1
      BY <3>1
    <3> QED
      BY <3>2, <3>3 DEF Numbered
  <2> QED
    BY <2>1, <2>2
<1>5. /\ \A k \in some : tree[k].sealed = <<{1}>> /\ tree[k].active = {} /\ tree[k].table = 0
      /\ \A k \in Keyspaces : k \notin some => tree[k].sealed = <<>> /\ tree[k].active = {} /\ tree[k].table = 0
  <2>1. \A m : NewTree(m).sealed = m /\ NewTree(m).active = {} /\ NewTree(m).table = 0
    BY DEF NewTree
  <2>2. \A k \in Keyspaces : tree[k] = NewTree(IF k \in some THEN <<{1}>> ELSE <<>>)
    BY <1>1, Zenon
  <2> QED
    BY <2>1, <2>2, Zenon
<1>6. seqno \in Nat /\ \A k \in some : seqno = 1
  BY <1>1
<1>7. Trees
  <2>1. ASSUME NEW k \in some PROVE IsStored(tree[k], seqno)
    <3>1. seqno = 1 /\ {1} \in SUBSET (1..seqno)
      BY <1>6
    <3>2. <<{1}>> \in Seq(SUBSET (1..seqno)) /\ 0 \in 0..seqno /\ {} \in SUBSET (1..seqno)
          /\ \A i \in 1..Len(<<{1}>>) : <<{1}>>[i] \cap {} = {}
      BY <3>1
    <3> QED
      BY <1>5, <3>2, Zenon DEF IsStored
  <2>2. ASSUME NEW k \in Keyspaces, k \notin some PROVE IsStored(tree[k], seqno)
    <3>1. <<>> \in Seq(SUBSET (1..seqno)) /\ 0 \in 0..seqno /\ {} \in SUBSET (1..seqno) /\ 1..Len(<<>>) = {}
      BY <1>6
    <3> QED
      BY <1>5, <2>2, <3>1, Zenon DEF IsStored
  <2> QED
    BY <2>1, <2>2, Zenon DEF Trees
<1>8. Covered
  <2>1. \A k \in some : tree[k].active \cup Sealed(k) = {1}
    <3>1. Range(<<{1}>>) = {{1}}
      BY DEF Range
    <3>2. UNION Range(<<{1}>>) = {1}
      BY <3>1
    <3>3. \A k \in some : Sealed(k) = {1}
      BY <1>5, <3>2, Zenon DEF Sealed
    <3> QED
      BY <1>5, <3>3
  <2>2. \A k \in Keyspaces : k \notin some => tree[k].active \cup Sealed(k) = {}
    <3>1. UNION Range(<<>>) = {}
      BY DEF Range
    <3>2. \A k \in Keyspaces : k \notin some => Sealed(k) = {}
      BY <1>5, <3>1, Zenon DEF Sealed
    <3> QED
      BY <1>5, <3>2
  <2>3. PICK P : P = some \X {1}
    OBVIOUS
  <2>4. Items \in SUBSET P
    <3> SUFFICES ASSUME NEW x \in Items PROVE x \in P
      BY Zenon
    <3>1. x[1] \in Keyspaces /\ x[2] \in tree[x[1]].active \cup Sealed(x[1]) /\ x = <<x[1], x[2]>>
      BY ItemsMean, ItemsArePairs, Zenon
    <3>2. x[1] \in some /\ x[2] \in {1}
      BY <2>1, <2>2, <3>1, Zenon
    <3> QED
      BY <2>3, <3>1, <3>2
  <2>5. IsFiniteSet(some) /\ Cardinality(some) \in Nat
    BY WorkerPoolBounds, FS_Subset, FS_CardinalityType, Zenon
  <2>6. IsFiniteSet(P) /\ Cardinality(P) = Cardinality(some) * 1
    <3>1. PICK one : one = {1}
      OBVIOUS
    <3>2. IsFiniteSet(one) /\ Cardinality(one) = 1
      BY <3>1, FS_Singleton
    <3> QED
      BY <2>3, <2>5, <3>1, <3>2, FS_Product
  <2>7. Cardinality(Items) <= Cardinality(P)
    BY <2>4, <2>6, FS_Subset, Zenon
  <2>8. Cardinality(Items) \in Nat /\ Cardinality(Uncounted) \in Nat
    BY <1>6, <1>7, ItemsFinite, ThreadsFinite, Zenon
  <2>9. PICK a, b, c, d : a = Cardinality(Items) /\ b = Cardinality(Uncounted) /\ c = Cardinality(some) /\ d = Cardinality(P)
    OBVIOUS
  <2>10. c + b >= a /\ c \in Nat
    BY <2>5, <2>6, <2>7, <2>8, <2>9
  <2> QED
    BY <1>1, <2>9, <2>10, Zenon DEF Covered
<1> QED
  BY <1>3, <1>4, <1>7, <1>8, Zenon DEF Accounts

\* Every step keeps the accounts.
LEMMA StepAccounts == ASSUME IInv, Accounts, [Next]_vars PROVE Accounts'
<1>1. CASE \E k \in Keyspaces : OpenEnqueue(k)
  BY <1>1, OpenEnqueueAccounts, Zenon
<1>2. CASE Start \/ \E w \in Workers : StartFails(w)
  BY <1>2, StartAccounts, Zenon
<1>3. CASE \E u \in Users : \E k \in Keyspaces : Write(u, k)
  BY <1>3, WriteAccounts, Zenon
<1>4. CASE \E u \in Users : \E k \in Droppable : Clear(u, k) \/ Delete(u, k)
  BY <1>4, DropAccounts, Zenon
<1>5. CASE \E u \in Users : UserStep(u)
  BY <1>5, UserStepAccounts, Zenon
<1>6. CASE \E w \in Workers : WorkerStep(w) \/ Fail(w)
  <2>1. PICK w \in Workers : WorkerStep(w) \/ Fail(w)
    BY <1>6, Zenon
  <2> QED
    BY <2>1, ReceiveAccounts, RotateAccounts, WorkerQuietAccounts, RunFlushAccounts, RunCompactionAccounts,
       Zenon DEF WorkerStep
<1>7. CASE Drop \/ SendClose \/ DropEnds \/ UNCHANGED vars
  BY <1>7, CloseAccounts, Zenon
<1> QED
  BY <1>1, <1>2, <1>3, <1>4, <1>5, <1>6, <1>7, Zenon DEF Next

\* The accounts hold of every database.
THEOREM Accounted == Spec => []Accounts
  BY InitAccounts, StepAccounts, Inductive, PTL DEF Spec

\* write_buffer_size never falls below what the memtables hold, but for writes still to
\* be counted: an insert counts its item after the journal mutex is released, while a
\* flush takes all that is sealed off the count, down to 0, and a cleared keyspace
\* leaves the count as it is.
THEOREM BufferNeverShort == Spec => []BufferCovers
<1>1. Accounts => BufferCovers
  BY Zenon DEF Accounts, Covered, BufferCovers, Uncounted, Items
<1> QED
  BY <1>1, Accounted, PTL

\* Numbers in memtables and tables have been handed out, the channels stay within
\* their bound, and active_thread_counter counts the workers that have not ended by a
\* Close message, also after a thread could not be spawned.
THEOREM TypeCorrect == Spec => []TypeOK
<1>1. IInv /\ Accounts => TypeOK
  <2> SUFFICES ASSUME IInv, Accounts PROVE TypeOK
    OBVIOUS
  <2>1. ChannelShape /\ JournalShape /\ Trees /\ Scalars /\ Numbered /\ Counted /\ Covered
    BY Zenon DEF IInv, Shape, Accounts
  <2>2. \A k \in Keyspaces : tree[k].active \cup Sealed(k) \subseteq 1..seqno /\ tree[k].table \in 0..seqno
    <3> SUFFICES ASSUME NEW k \in Keyspaces
                 PROVE  tree[k].active \cup Sealed(k) \subseteq 1..seqno /\ tree[k].table \in 0..seqno
      OBVIOUS
    <3>1. PICK r, n, S : r = tree[k] /\ n = seqno /\ S = Sealed(k)
      OBVIOUS
    <3>2. IsStored(r, n) /\ n \in Nat /\ S = UNION Range(r.sealed)
      BY <2>1, <3>1, Zenon DEF Trees, Scalars, Sealed
    <3>3. S \in SUBSET (1..n)
      BY <3>2, SealedMean, Zenon
    <3>4. r.active \in SUBSET (1..n) /\ r.table \in 0..n
      BY <3>2, Zenon DEF IsStored
    <3> QED
      BY <3>1, <3>3, <3>4, Zenon
  <2>3. \A i \in DOMAIN queue : queue[i].kind \in {"flush", "close", "compact", "rotate"}
    <3>1. PICK M : M = Message
      OBVIOUS
    <3>2. queue \in Seq(M)
      BY <2>1, <3>1, Zenon DEF ChannelShape
    <3>3. \A i \in DOMAIN queue : queue[i] \in M
      BY <3>2
    <3>4. \A m \in M : m.kind \in {"flush", "close", "compact", "rotate"}
      BY <3>1 DEF Message
    <3> QED
      BY <3>3, <3>4, Zenon
  <2>4. DOMAIN items = 1..Len(items)
    <3>1. PICK R : R = Range(items)
      OBVIOUS
    <3>2. items \in Seq(R)
      BY <2>1, <3>1, Zenon DEF JournalShape
    <3> QED
      BY <3>2
  <2> QED
    BY <2>1, <2>2, <2>3, <2>4, Zenon DEF TypeOK, ChannelShape, Scalars, Numbered, Counted, Covered, Running
<1> QED
  BY <1>1, Accounted, Inductive, PTL
=============================================================================
