---------------------- MODULE KeyspaceLifecycleProofs ----------------------
(***************************************************************************)
(* The inductive invariant of KeyspaceLifecycle, the proof that every step *)
(* of users, workers, crashes and recovery keeps it, and what follows.     *)
(***************************************************************************)
EXTENDS KeyspaceLifecycle, TLAPS

\* Serial s was given to a folder with this id.
Own(s, id) == s \in 1..Made /\ hist.made[s].id = id

Flags == jnl \in BOOLEAN /\ refused \in BOOLEAN /\ \A i \in DOMAIN dirs : dirs[i].manifest \in BOOLEAN

Shape ==
    /\ marker \in {"none", "empty", "v3"}
    /\ phase \in {"down", "creating", "marking", "recovering", "up"}
    /\ counter \in Nat \ {0} /\ highest \in Nat \ {0} /\ lock \in Threads \cup {NoOne}
    /\ DOMAIN hist = {"made", "written", "deleted", "ready"}
    /\ hist.made \in Seq([id : Nat, opts : Options])
    /\ hist.written \subseteq 1..Made
    /\ DOMAIN refs = Threads /\ DOMAIN pc = Threads

\* Every folder has an id the counter has passed, and holds what was written under that id.
Folders ==
    \A i \in DOMAIN dirs :
        /\ i \in Nat /\ 0 < i /\ i < counter
        /\ DOMAIN dirs[i] = {"manifest", "data", "serial"}
        /\ Own(dirs[i].serial, i)
        /\ \A s \in dirs[i].data : Own(s, i)

\* A keyspace with a name has a folder with a manifest; no two have the same name.
Stored ==
    /\ \A i \in DOMAIN meta :
        /\ i \in DOMAIN dirs /\ dirs[i].manifest
        /\ DOMAIN meta[i] = {"name", "kvs"}
        /\ meta[i].name \in Names
    /\ \A i, j \in DOMAIN meta : meta[i].name = meta[j].name => i = j
    /\ \A e \in log : Own(e[2], e[1])

Objects ==
    \A i \in DOMAIN objs :
        /\ i \in DOMAIN dirs
        /\ DOMAIN objs[i] = {"name", "tree", "opts", "deleted", "mem", "closed"}
        /\ objs[i].name \in Names
        /\ objs[i].deleted => i \notin DOMAIN meta
        /\ phase # "down" => ~objs[i].closed
        /\ \A s \in objs[i].mem : Own(s, i)

\* A handle is to a keyspace that still has its name, or whose name was deleted.
Handles ==
    \A t \in Threads : \A i \in refs[t] :
        /\ i \in DOMAIN objs
        /\ i \in DOMAIN meta \/ dirs[i].serial \in hist.deleted
        /\ phase \in {"down", "up"}

\* What a thread in the middle of creating or deleting a keyspace can rely on.
Creating(t) ==
    /\ phase = "up" /\ lock = t
    /\ DOMAIN pc[t] = {"at", "id", "name", "opts"}
    /\ pc[t].id \in DOMAIN dirs /\ pc[t].id \notin DOMAIN meta
    /\ pc[t].name \in Names /\ pc[t].name \notin DOMAIN dict
    /\ \A u \in Threads : pc[t].id \notin refs[u]

Busy(t) ==
    /\ pc[t].at \in {"idle", "tree", "meta", "mark", "clean"}
    /\ phase \notin {"down", "up"} => pc[t].at = "idle"
    /\ pc[t].at \in {"tree", "meta"} => Creating(t)
    /\ pc[t].at = "tree" => pc[t].id \notin DOMAIN objs
    /\ pc[t].at = "meta" =>
        /\ pc[t].id \in DOMAIN objs /\ objs[pc[t].id].name = pc[t].name
        /\ ~objs[pc[t].id].deleted /\ dirs[pc[t].id].manifest
    /\ pc[t].at = "mark" => phase = "up" /\ pc[t].id \in refs[t] /\ pc[t].id \notin DOMAIN meta
    /\ pc[t].at = "clean" =>
        /\ pc[t].id \in DOMAIN dirs /\ pc[t].id \notin DOMAIN meta /\ pc[t].id \notin DOMAIN objs
        /\ \A u \in Threads : u # t /\ pc[u].at \in {"tree", "clean"} => pc[u].id # pc[t].id

Working == \A t \in Threads : Busy(t)

\* The dictionary agrees with the meta keyspace; recovery has gone through all folders but todo.
Dictionary ==
    /\ \A n \in DOMAIN dict :
        /\ n \in Names
        /\ dict[n] \in DOMAIN meta /\ meta[dict[n]].name = n
        /\ dict[n] \in DOMAIN objs /\ objs[dict[n]].name = n
    /\ phase \in {"up", "recovering"} =>
        \A i \in DOMAIN meta : i \in todo \/ (meta[i].name \in DOMAIN dict /\ dict[meta[i].name] = i)
    /\ todo \subseteq DOMAIN dirs
    /\ phase # "recovering" => todo = {}
    /\ phase \notin {"up", "recovering"} => DOMAIN dict = {}
    /\ phase = "recovering" =>
        /\ \A i \in DOMAIN objs : i \notin todo
        /\ \A i \in DOMAIN dirs : i \in todo \/ i <= highest

\* What was accepted and not deleted is in the folder, or in the journal and
\* in the live object.
Safe(s, id) ==
    /\ id \in DOMAIN meta /\ dirs[id].serial = s
    /\ s \in dirs[id].data \/ <<id, s>> \in log
    /\ id \in DOMAIN objs /\ phase # "recovering" => s \in dirs[id].data \/ s \in objs[id].mem

Durable == \A s \in hist.written : s \notin hist.deleted => Safe(s, hist.made[s].id)

Opening ==
    /\ marker # "v3" => DOMAIN dirs = {} /\ ~hist.ready
    /\ phase = "creating" => marker = "none" /\ ~refused
    /\ phase = "marking" => marker = "empty" /\ ~refused
    /\ phase \in {"up", "recovering"} => marker = "v3"
    /\ marker = "v3" => ~refused
    /\ phase = "creating" \/ phase = "marking" => DOMAIN objs = {}

IInv ==
    /\ Flags /\ Shape /\ Folders /\ Stored /\ Objects /\ Handles /\ Working
    /\ Dictionary /\ Durable /\ Opening

-----------------------------------------------------------------------------
\* What keeps a keyspace's object alive: an entry of the dictionary, a handle, a running creation.
LEMMA RegisteredMeans ==
  ASSUME NEW d, NEW i PROVE i \in Registered(d) <=> \E n \in DOMAIN d : d[n] = i
  BY Zenon DEF Registered

LEMMA HeldMeans ==
  ASSUME NEW r, NEW i
  PROVE  i \in Held(r) <=> \E u \in Threads : i \in r[u] \/ (pc[u].at = "meta" /\ pc[u].id = i)
<1> DEFINE A == UNION {r[t] : t \in Threads}
           B == {pc[t].id : t \in {u \in Threads : pc[u].at = "meta"}}
<1>1. Held(r) = A \cup B
  BY Zenon DEF Held
<1>2. i \in A <=> \E u \in Threads : i \in r[u]
  BY Zenon
<1>3. i \in B <=> \E u \in Threads : pc[u].at = "meta" /\ pc[u].id = i
  BY Zenon
<1> HIDE DEF A, B
<1> QED
  BY <1>1, <1>2, <1>3, Zenon

\* Serials stay with their folders while no folder is made.
LEMMA OwnKept == ASSUME hist'.made = hist.made PROVE \A s, i : Own(s, i)' <=> Own(s, i)
  BY Zenon DEF Own, Made

\* The invariant holds in an empty directory.
LEMMA InitIInv == Init => IInv
<1> SUFFICES ASSUME Init PROVE IInv
  BY Zenon
<1> USE DEF Init
<1>1. Shape
  <2>1. hist.made = <<>> /\ hist.written = {} /\ DOMAIN hist = {"made", "written", "deleted", "ready"}
    BY Zenon
  <2>2. <<>> \in Seq([id : Nat, opts : Options])
    OBVIOUS
  <2> QED
    BY <2>1, <2>2 DEF Shape
<1>2. Folders /\ Stored /\ Objects /\ Handles /\ Dictionary /\ Durable /\ Opening
  BY DEF Folders, Stored, Objects, Handles, Dictionary, Durable, Safe, Opening
<1>3. Working
  BY Zenon DEF Working, Busy, Idle
<1>4. Flags
  <2>1. DOMAIN dirs = {}
    OBVIOUS
  <2> QED
    BY <2>1, Zenon DEF Flags
<1> QED
  BY <1>1, <1>2, <1>3, <1>4, Zenon DEF IInv

\* An open that finds what it cannot use changes only refused, and there was no database.
LEMMA RefusedStep ==
  ASSUME IInv, marker # "v3", phase = "down", refused' = TRUE,
         UNCHANGED <<marker, jnl, dirs, meta, log, phase, todo, highest, counter, dict, objs, lock, refs,
                     pc, hist>>
  PROVE  IInv'
<1>1. Shape' /\ Folders' /\ Stored' /\ Objects' /\ Handles'
  BY OwnKept, Zenon DEF IInv, Shape, Folders, Stored, Objects, Handles, Made
<1>2. Working' /\ Dictionary' /\ Durable' /\ Opening'
  BY Zenon DEF IInv, Working, Busy, Creating, Dictionary, Durable, Safe, Opening
<1>3. Flags'
  BY Zenon DEF IInv, Flags
<1> QED
  BY <1>1, <1>2, <1>3, Zenon DEF IInv

\* While a database is being opened nobody has a handle and no keyspace is known.
LEMMA NobodyThere ==
  ASSUME IInv, (phase = "down" /\ LockFree) \/ phase = "creating" \/ phase = "marking"
  PROVE  /\ \A t \in Threads : pc[t].at = "idle" /\ refs[t] = {}
         /\ DOMAIN objs = {} /\ DOMAIN dict = {} /\ todo = {}
<1>1. DOMAIN objs = {} /\ DOMAIN dict = {} /\ todo = {}
  BY DEF IInv, LockFree, Dictionary, Opening
<1>2. \A t \in Threads : refs[t] = {}
  BY <1>1, Zenon DEF IInv, Handles
<1>3. \A t \in Threads : pc[t].at = "idle"
  BY <1>2, Zenon DEF IInv, Working, Busy, Creating, LockFree
<1> QED
  BY <1>1, <1>2, <1>3, Zenon

\* Creating the journal, the marker and its header, or beginning to recover.
LEMMA OpeningStep ==
  ASSUME IInv, CreateJournal \/ CreateMarker \/ WriteMarker \/ Recover
  PROVE  IInv'
<1>1. CASE phase = "down" /\ phase' = "down"
  BY <1>1, RefusedStep, Zenon DEF CreateJournal, CreateMarker, WriteMarker, Recover, disk
<1>2. CASE ~(phase = "down" /\ phase' = "down")
  <2>1. /\ UNCHANGED <<dirs, meta, log, dict, objs, lock, refs, pc>>
        /\ (phase = "down" /\ LockFree) \/ phase = "creating" \/ phase = "marking"
    BY <1>2, Zenon DEF CreateJournal, CreateMarker, WriteMarker, Recover, disk
  <2>2. /\ DOMAIN hist' = DOMAIN hist
        /\ hist'.made = hist.made /\ hist'.written = hist.written /\ hist'.deleted = hist.deleted
    BY Zenon DEF CreateJournal, CreateMarker, WriteMarker, Recover, IInv, Shape
  <2>3. /\ \A t \in Threads : pc[t].at = "idle" /\ refs[t] = {}
        /\ DOMAIN objs = {} /\ DOMAIN dict = {} /\ todo = {}
    BY <2>1, NobodyThere, Zenon
  <2>4. \/ phase' = "creating" /\ marker' = "none" /\ marker = "none" /\ counter' = counter /\ todo' = {}
           /\ hist' = hist /\ highest' = highest /\ jnl' = TRUE /\ refused' = FALSE
        \/ phase = "creating" /\ phase' = "marking" /\ marker' = "empty" /\ counter' = counter
           /\ todo' = {} /\ hist' = hist /\ highest' = highest /\ jnl' = jnl /\ refused' = refused
        \/ phase = "marking" /\ phase' = "up" /\ marker' = "v3" /\ counter' = 1 /\ todo' = {}
           /\ highest' = highest /\ jnl' = jnl /\ refused' = refused
        \/ phase' = "recovering" /\ marker' = "v3" /\ marker = "v3" /\ counter' = counter
           /\ todo' = DOMAIN dirs /\ hist' = hist /\ highest' = 1 /\ jnl' = jnl /\ refused' = FALSE
    BY <1>2, <2>3, Zenon DEF CreateJournal, CreateMarker, WriteMarker, Recover, disk
  <2>5. Shape'
    BY <2>1, <2>2, <2>4 DEF IInv, Shape, Opening, Made
  <2>6. Folders' /\ Stored'
    BY OwnKept, <2>1, <2>2, <2>4 DEF IInv, Folders, Stored, Opening
  <2>7. Objects' /\ Handles' /\ Working'
    BY <2>1, <2>3, Zenon DEF IInv, Objects, Handles, Working, Busy
  <2>8. Dictionary'
    BY <2>1, <2>3, <2>4, Zenon DEF IInv, Dictionary, Stored, Opening
  <2>9. Durable'
    BY <2>1, <2>2, <2>3, Zenon DEF IInv, Durable, Safe
  <2>10. Opening'
    BY <2>1, <2>3, <2>4 DEF IInv, Opening
  <2>11. Flags'
    BY <2>1, <2>4, Zenon DEF IInv, Flags
  <2> QED
    BY <2>5, <2>6, <2>7, <2>8, <2>9, <2>10, <2>11, Zenon DEF IInv
<1> QED
  BY <1>1, <1>2, Zenon

\* Recovery looks at one folder.
LEMMA RecoverDirInv == ASSUME IInv, RecoverDir PROVE IInv'
<1>1. PICK id \in todo :
        /\ todo' = todo \ {id} /\ highest' = IF id > highest THEN id ELSE highest
        /\ IF id \notin DOMAIN meta \/ ~dirs[id].manifest
           THEN dirs' = Without(dirs, id) /\ UNCHANGED <<dict, objs>>
           ELSE /\ dict' = Put(dict, meta[id].name, id)
                /\ objs' = Put(objs, id, Object(meta[id].name, Decode(meta[id].kvs)))
                /\ UNCHANGED dirs
  BY Zenon DEF RecoverDir
<1>2. /\ phase = "recovering"
      /\ UNCHANGED <<marker, jnl, meta, log, phase, refused, counter, lock, refs, pc, hist>>
  BY Zenon DEF RecoverDir
<1>3. /\ id \in DOMAIN dirs /\ id \in Nat /\ highest \in Nat /\ 0 < highest
      /\ \A t \in Threads : pc[t].at = "idle" /\ refs[t] = {}
      /\ id \in DOMAIN meta => dirs[id].manifest
      /\ id \notin DOMAIN objs
  BY <1>2 DEF IInv, Shape, Folders, Stored, Handles, Working, Busy, Dictionary
<1>4. highest' \in Nat /\ highest <= highest' /\ id <= highest'
  BY <1>1, <1>3
<1>5. Handles' /\ Working'
  BY <1>2, <1>3, Zenon DEF IInv, Handles, Working, Busy
<1>6. Shape'
  BY <1>2, <1>3, <1>4 DEF IInv, Shape, Made
<1>7. CASE id \notin DOMAIN meta
  <2>1. /\ DOMAIN dirs' = DOMAIN dirs \ {id} /\ \A i \in DOMAIN dirs' : dirs'[i] = dirs[i]
        /\ UNCHANGED <<dict, objs>>
    BY <1>1, <1>7, Zenon DEF Without
  <2>2. Folders' /\ Stored'
    BY OwnKept, <1>2, <1>7, <2>1, Zenon DEF IInv, Folders, Stored
  <2>3. Objects' /\ Opening'
    BY OwnKept, <1>2, <1>3, <1>7, <2>1, Zenon DEF IInv, Objects, Opening
  <2>4. Dictionary'
    BY <1>1, <1>2, <1>3, <1>4, <1>7, <2>1 DEF IInv, Dictionary, Folders
  <2>5. Durable' /\ Flags'
    BY <1>2, <1>7, <2>1 DEF IInv, Durable, Safe, Stored, Flags
  <2> QED
    BY <1>5, <1>6, <2>2, <2>3, <2>4, <2>5, Zenon DEF IInv
<1>8. CASE id \in DOMAIN meta
  <2> DEFINE n == meta[id].name
  <2>1. /\ UNCHANGED dirs
        /\ DOMAIN dict' = DOMAIN dict \cup {n} /\ dict'[n] = id
        /\ \A m \in DOMAIN dict : m # n => dict'[m] = dict[m]
        /\ DOMAIN objs' = DOMAIN objs \cup {id} /\ \A i \in DOMAIN objs : objs'[i] = objs[i]
    BY <1>1, <1>3, <1>8, Zenon DEF Put
  <2>2. /\ DOMAIN objs'[id] = {"name", "tree", "opts", "deleted", "mem", "closed"}
        /\ objs'[id].name = n /\ objs'[id].deleted = FALSE /\ objs'[id].closed = FALSE
        /\ objs'[id].mem = {}
    BY <1>1, <1>3, <1>8 DEF Put, Object
  <2>3. n \in Names /\ \A i \in DOMAIN meta : meta[i].name = n => i = id
    BY <1>8, Zenon DEF IInv, Stored
  <2> HIDE DEF n
  <2>4. Folders' /\ Stored'
    BY OwnKept, <1>2, <2>1, Zenon DEF IInv, Folders, Stored
  <2>5. Opening' /\ Objects'
    BY OwnKept, <1>2, <1>3, <2>1, <2>2, <2>3, ZenonT(30) DEF IInv, Opening, Objects
  <2>6. Dictionary'
    BY <1>1, <1>2, <1>3, <1>4, <1>8, <2>1, <2>2, <2>3 DEF IInv, Dictionary, Folders, n
  <2>7. Durable' /\ Flags'
    BY <1>2, <2>1, Zenon DEF IInv, Durable, Safe, Flags
  <2> QED
    BY <1>5, <1>6, <2>4, <2>5, <2>6, <2>7, Zenon DEF IInv
<1> QED
  BY <1>7, <1>8, Zenon

\* The journal is replayed and the database is open.
LEMMA RecoverEndInv == ASSUME IInv, RecoverEnd PROVE IInv'
<1>1. /\ phase = "recovering" /\ todo = {} /\ phase' = "up" /\ counter' = highest + 1 /\ highest' = 1
      /\ UNCHANGED <<marker, jnl, dirs, meta, log, todo, refused, dict, lock, refs, pc, hist>>
      /\ objs' = Replayed
  BY Zenon DEF RecoverEnd, disk
<1>2. /\ highest \in Nat /\ 0 < highest
      /\ \A t \in Threads : pc[t].at = "idle" /\ refs[t] = {}
      /\ \A i \in DOMAIN dirs : i <= highest
  BY <1>1 DEF IInv, Shape, Handles, Working, Busy, Dictionary
<1>3. /\ DOMAIN objs' = DOMAIN objs
      /\ \A i \in DOMAIN objs :
            /\ DOMAIN objs'[i] = DOMAIN objs[i] /\ objs'[i].name = objs[i].name
            /\ objs'[i].deleted = objs[i].deleted /\ objs'[i].closed = objs[i].closed
  BY <1>1, Zenon DEF IInv, Objects, Replayed
<1>4. \A i \in DOMAIN objs : \A e \in log :
        e[1] \in DOMAIN meta /\ meta[e[1]].name \in DOMAIN dict /\ dict[meta[e[1]].name] = i
        <=> e[1] = i /\ i \in DOMAIN meta
  BY <1>1 DEF IInv, Stored, Dictionary
<1>5. \A i \in DOMAIN objs : \A s : s \in objs'[i].mem <=> \E e \in log : e[2] = s /\ e[1] = i /\ i \in DOMAIN meta
  BY <1>1, <1>4 DEF IInv, Objects, Replayed
<1>6. Flags' /\ Handles' /\ Working'
  BY <1>1, <1>2, Zenon DEF IInv, Flags, Handles, Working, Busy
<1>7. Shape'
  BY <1>1, <1>2 DEF IInv, Shape, Made
<1>8. Folders' /\ Stored'
  BY OwnKept, <1>1, <1>2 DEF IInv, Folders, Stored
<1>9. Objects' /\ Opening'
  BY OwnKept, <1>1, <1>3, <1>5 DEF IInv, Objects, Opening, Stored
<1>10. Dictionary'
  BY <1>1, <1>3, Zenon DEF IInv, Dictionary
<1>11. Durable'
  BY <1>1, <1>3, <1>5, SMTT(30) DEF IInv, Durable, Safe
<1> QED
  BY <1>6, <1>7, <1>8, <1>9, <1>10, <1>11, Zenon DEF IInv

\* The database is dropped: only what users hold remains, and is closed.
LEMMA CloseInv == ASSUME IInv, Close PROVE IInv'
<1>1. /\ phase = "up" /\ phase' = "down" /\ DOMAIN dict' = {}
      /\ UNCHANGED <<marker, jnl, dirs, meta, log, todo, highest, refused, counter, lock, refs, pc, hist>>
      /\ \A t \in Threads : pc[t].at \in {"idle", "clean"}
  BY DEF Close, disk
<1>2. \A i : i \in DOMAIN objs' <=> i \in DOMAIN objs /\ \E t \in Threads : i \in refs[t]
  BY <1>1, Zenon DEF Close, Held
<1>3. \A i \in DOMAIN objs' :
        /\ DOMAIN objs'[i] = DOMAIN objs[i] /\ objs'[i].name = objs[i].name
        /\ objs'[i].deleted = objs[i].deleted /\ objs'[i].mem = objs[i].mem
  BY Zenon DEF Close, IInv, Objects
<1>4. Flags' /\ Shape' /\ Folders' /\ Stored'
  BY OwnKept, <1>1, Zenon DEF IInv, Flags, Shape, Folders, Stored, Made
<1>5. Objects' /\ Handles' /\ Opening'
  BY OwnKept, <1>1, <1>2, <1>3, Zenon DEF IInv, Objects, Handles, Opening
<1>6. Working' /\ Dictionary'
  BY <1>1, <1>2, <1>3, Zenon DEF IInv, Working, Busy, Dictionary
<1>7. Durable'
  BY <1>1, <1>2, <1>3, Zenon DEF IInv, Durable, Safe
<1> QED
  BY <1>4, <1>5, <1>6, <1>7, Zenon DEF IInv

\* A crash leaves the disk.
LEMMA CrashInv == ASSUME IInv, Crash PROVE IInv'
<1>1. /\ phase' = "down" /\ todo' = {} /\ highest' = 1 /\ DOMAIN dict' = {} /\ DOMAIN objs' = {}
      /\ lock' = NoOne /\ DOMAIN refs' = Threads /\ DOMAIN pc' = Threads
      /\ \A t \in Threads : refs'[t] = {} /\ pc'[t].at = "idle"
      /\ UNCHANGED <<marker, jnl, dirs, meta, log, refused, counter, hist>>
  BY DEF Crash, disk, Idle
<1>2. Flags' /\ Shape'
  BY <1>1 DEF IInv, Flags, Shape, Made
<1>3. Folders' /\ Stored'
  BY OwnKept, <1>1, Zenon DEF IInv, Folders, Stored
<1>4. Objects' /\ Handles' /\ Working' /\ Dictionary' /\ Durable'
  BY <1>1, Zenon DEF IInv, Objects, Handles, Working, Busy, Dictionary, Durable, Safe
<1>5. Opening'
  BY <1>1, Zenon DEF IInv, Opening
<1> QED
  BY <1>2, <1>3, <1>4, <1>5, Zenon DEF IInv

\* Another handle to a registered keyspace.
LEMMA OpenKeyspaceInv == ASSUME IInv, NEW t \in Threads, OpenKeyspace(t) PROVE IInv'
<1>1. PICK n \in DOMAIN dict : refs' = [refs EXCEPT ![t] = @ \cup {dict[n]}]
  BY Zenon DEF OpenKeyspace
<1>2. /\ phase = "up" /\ lock = NoOne /\ pc[t].at = "idle"
      /\ UNCHANGED <<marker, jnl, dirs, meta, log, phase, todo, highest, refused, counter, dict, objs, lock,
                     pc, hist>>
  BY Zenon DEF OpenKeyspace, disk, opening, At
<1>3. /\ DOMAIN refs' = Threads
      /\ \A u \in Threads : \A i : i \in refs'[u] => i \in refs[u] \/ i = dict[n]
      /\ \A u \in Threads : refs[u] \subseteq refs'[u]
  BY <1>1, Zenon DEF IInv, Shape
<1>4. \A u \in Threads : pc[u].at \notin {"tree", "meta"}
  BY <1>2, ThreadsAssumption, Zenon DEF IInv, Working, Busy, Creating
<1>5. dict[n] \in DOMAIN meta /\ dict[n] \in DOMAIN objs
  BY Zenon DEF IInv, Dictionary
<1>6. Flags' /\ Shape'
  BY <1>2, <1>3, Zenon DEF IInv, Flags, Shape, Made
<1>7. Folders' /\ Stored' /\ Objects'
  BY OwnKept, <1>2, Zenon DEF IInv, Folders, Stored, Objects
<1>8. Opening' /\ Dictionary' /\ Durable'
  BY <1>2, Zenon DEF IInv, Opening, Dictionary, Durable, Safe
<1>9. Handles'
  BY <1>2, <1>3, <1>5, Zenon DEF IInv, Handles
<1>10. Working'
  BY <1>2, <1>3, <1>4 DEF IInv, Working, Busy
<1> QED
  BY <1>6, <1>7, <1>8, <1>9, <1>10, Zenon DEF IInv

\* Creating fails: the folder stays, without a name.
LEMMA CreateFailsInv == ASSUME IInv, NEW t \in Threads, CreateFails(t) PROVE IInv'
<1> DEFINE k == pc[t].id
<1>1. /\ objs' = Without(objs, k) /\ pc' = [pc EXCEPT ![t] = Idle] /\ lock' = NoOne
      /\ pc[t].at \in {"tree", "meta"}
  BY Zenon DEF CreateFails, Goto
<1>2. UNCHANGED <<marker, jnl, dirs, meta, log, phase, todo, highest, refused, counter, dict, refs, hist>>
  BY Zenon DEF CreateFails, disk, opening
<1>3. /\ phase = "up" /\ lock = t /\ k \notin DOMAIN meta
      /\ \A u \in Threads : k \notin refs[u]
  BY <1>1, Zenon DEF IInv, Working, Busy, Creating
<1>4. DOMAIN objs' = DOMAIN objs \ {k} /\ \A i \in DOMAIN objs' : objs'[i] = objs[i]
  BY <1>1, Zenon DEF Without
<1>5. /\ DOMAIN pc' = Threads /\ \A u \in Threads : u # t => pc'[u] = pc[u]
      /\ pc'[t].at = "idle"
  BY <1>1, Zenon DEF IInv, Shape, Idle
<1> HIDE DEF k
<1>6. Flags' /\ Shape'
  BY <1>1, <1>2, <1>5, Zenon DEF IInv, Flags, Shape, Made
<1>7. Folders' /\ Stored' /\ Objects'
  BY OwnKept, <1>2, <1>4, Zenon DEF IInv, Folders, Stored, Objects
<1>8. Handles' /\ Opening' /\ Dictionary' /\ Durable'
  BY <1>2, <1>3, <1>4, SMTT(30) DEF IInv, Handles, Opening, Dictionary, Durable, Safe
<1>9. Working'
  <2>1. \A u \in Threads : u # t => pc[u].at \notin {"tree", "meta"}
    BY <1>3, Zenon DEF IInv, Working, Busy, Creating
  <2> QED
    BY <1>2, <1>4, <1>5, <2>1, SMTT(30) DEF IInv, Working, Busy
<1> QED
  BY <1>6, <1>7, <1>8, <1>9, Zenon DEF IInv

\* A memtable becomes part of the tables.
LEMMA FlushInv == ASSUME IInv, Flush PROVE IInv'
<1>1. PICK k \in DOMAIN objs :
        /\ dirs' = [dirs EXCEPT ![k].data = @ \cup objs[k].mem]
        /\ objs' = [objs EXCEPT ![k].mem = {}]
  BY Zenon DEF Flush
<1>2. UNCHANGED <<marker, jnl, meta, log, phase, todo, highest, refused, counter, dict, lock, refs, pc, hist>>
  BY Zenon DEF Flush, opening
<1>3. k \in DOMAIN dirs /\ \A s \in objs[k].mem : Own(s, k)
  BY Zenon DEF IInv, Objects
<1>4. /\ DOMAIN objs' = DOMAIN objs /\ \A i \in DOMAIN objs : i # k => objs'[i] = objs[i]
      /\ DOMAIN objs'[k] = DOMAIN objs[k] /\ objs'[k].name = objs[k].name
      /\ objs'[k].deleted = objs[k].deleted /\ objs'[k].closed = objs[k].closed /\ objs'[k].mem = {}
  BY <1>1, Zenon DEF IInv, Objects
<1>5. /\ DOMAIN dirs' = DOMAIN dirs /\ \A i \in DOMAIN dirs : i # k => dirs'[i] = dirs[i]
      /\ DOMAIN dirs'[k] = DOMAIN dirs[k] /\ dirs'[k].manifest = dirs[k].manifest
      /\ dirs'[k].serial = dirs[k].serial /\ dirs'[k].data = dirs[k].data \cup objs[k].mem
  BY <1>1, <1>3, Zenon DEF IInv, Folders
<1>6. \A r, i : Own(r, i)' <=> Own(r, i)
  BY <1>2, Zenon DEF Own, Made
<1>7. Flags' /\ Shape'
  BY <1>2, <1>5, Zenon DEF IInv, Flags, Shape, Made
<1>8. Folders'
  BY <1>2, <1>3, <1>5, <1>6, Zenon DEF IInv, Folders
<1>9. Stored' /\ Objects'
  BY <1>2, <1>4, <1>5, <1>6, Zenon DEF IInv, Stored, Objects
<1>10. Handles' /\ Opening' /\ Dictionary'
  BY <1>2, <1>3, <1>4, <1>5, SMTT(30) DEF IInv, Handles, Objects, Opening, Dictionary
<1>11. Working'
  BY <1>2, <1>4, <1>5 DEF IInv, Working, Busy, Creating
<1>12. Durable'
  <2>1. \A i \in DOMAIN meta :
          /\ dirs'[i].serial = dirs[i].serial /\ dirs[i].data \subseteq dirs'[i].data
          /\ i \in DOMAIN objs =>
                dirs'[i].data \cup objs'[i].mem = dirs[i].data \cup objs[i].mem
    BY <1>3, <1>4, <1>5, Zenon DEF IInv, Stored
  <2>2. \A s, i : Safe(s, i) => Safe(s, i)'
    BY <1>2, <1>4, <2>1, Zenon DEF Safe
  <2> QED
    BY <1>2, <2>2, Zenon DEF IInv, Durable
<1> QED
  BY <1>7, <1>8, <1>9, <1>10, <1>11, <1>12, Zenon DEF IInv

\* The journal goes when no keyspace with a name has anything in memory.
LEMMA EvictInv == ASSUME IInv, Evict PROVE IInv'
<1>1. /\ phase = "up" /\ log' = {}
      /\ \A e \in log : e[1] \in DOMAIN objs => objs[e[1]].deleted \/ objs[e[1]].mem = {}
  BY Zenon DEF Evict
<1>2. UNCHANGED <<marker, jnl, dirs, meta, phase, todo, highest, refused, counter, dict, objs, lock, refs, pc,
                  hist>>
  BY Zenon DEF Evict, opening
<1>3. Flags' /\ Shape' /\ Folders' /\ Stored'
  BY OwnKept, <1>1, <1>2, Zenon DEF IInv, Flags, Shape, Folders, Stored, Made
<1>4. Objects' /\ Handles' /\ Opening' /\ Dictionary' /\ Working'
  <2>1. Objects' /\ Handles' /\ Opening'
    BY OwnKept, <1>2, Zenon DEF IInv, Objects, Handles, Opening
  <2>2. Dictionary' /\ Working'
    BY <1>2 DEF IInv, Dictionary, Working, Busy, Creating
  <2> QED
    BY <2>1, <2>2, Zenon
<1>5. Durable'
  <2>1. \A i \in DOMAIN meta : i \in DOMAIN objs /\ ~objs[i].deleted
    BY <1>1 DEF IInv, Dictionary, Objects
  <2>2. \A i, s : <<i, s>> \in log /\ i \in DOMAIN meta => objs[i].mem = {}
    BY <1>1, <2>1, Zenon
  <2>3. \A s \in hist.written : s \notin hist.deleted =>
          /\ hist.made[s].id \in DOMAIN meta /\ dirs[hist.made[s].id].serial = s
          /\ s \in dirs[hist.made[s].id].data
    BY <1>1, <2>1, <2>2, Zenon DEF IInv, Durable, Safe
  <2> QED
    BY <1>2, <2>3 DEF Durable, Safe
<1> QED
  BY <1>3, <1>4, <1>5, Zenon DEF IInv

\* The folder of a deleted keyspace is removed.
LEMMA RemoveDirInv == ASSUME IInv, NEW t \in Threads, RemoveDir(t) PROVE IInv'
<1> DEFINE k == pc[t].id
<1>1. pc[t].at = "clean" /\ dirs' = Without(dirs, k) /\ pc' = [pc EXCEPT ![t] = Idle]
  BY Zenon DEF RemoveDir, At, Goto
<1>2. UNCHANGED <<marker, jnl, meta, log, phase, todo, highest, refused, counter, dict, objs, lock, refs, hist>>
  BY Zenon DEF RemoveDir, opening
<1>3. /\ k \notin DOMAIN meta /\ k \notin DOMAIN objs
      /\ \A u \in Threads : u # t /\ pc[u].at \in {"tree", "meta", "clean"} => pc[u].id # k
      /\ todo = {} /\ phase \in {"down", "up"}
  BY <1>1, Zenon DEF IInv, Working, Busy, Dictionary, Shape
<1>4. DOMAIN dirs' = DOMAIN dirs \ {k} /\ \A i \in DOMAIN dirs' : dirs'[i] = dirs[i]
  BY <1>1, Zenon DEF Without
<1>5. /\ DOMAIN pc' = Threads /\ \A u \in Threads : u # t => pc'[u] = pc[u]
      /\ pc'[t].at = "idle"
  BY <1>1, Zenon DEF IInv, Shape, Idle
<1> HIDE DEF k
<1>6. Flags' /\ Shape'
  BY <1>2, <1>4, <1>5, Zenon DEF IInv, Flags, Shape, Made
<1>7. Folders' /\ Stored' /\ Objects'
  BY OwnKept, <1>2, <1>3, <1>4, Zenon DEF IInv, Folders, Stored, Objects
<1>8. Handles' /\ Opening' /\ Dictionary'
  BY <1>2, <1>3, <1>4, Zenon DEF IInv, Handles, Objects, Opening, Dictionary
<1>9. Durable'
  <2>1. \A i \in DOMAIN meta : i \in DOMAIN dirs' /\ dirs'[i] = dirs[i]
    BY <1>3, <1>4, Zenon DEF IInv, Stored
  <2>2. \A s, i : Safe(s, i) => Safe(s, i)'
    BY <1>2, <2>1 DEF Safe
  <2> QED
    BY <1>2, <2>2, Zenon DEF IInv, Durable
<1>10. Working'
  BY <1>2, <1>3, <1>4, <1>5, SMTT(30) DEF IInv, Working, Busy, Creating
<1> QED
  BY <1>6, <1>7, <1>8, <1>9, <1>10, Zenon DEF IInv

\* A write is accepted: in the journal and the memtable.
LEMMA WriteInv == ASSUME IInv, NEW t \in Threads, Write(t) PROVE IInv'
<1>1. PICK k \in refs[t] :
        /\ ~objs[k].deleted /\ dirs[k].serial \notin hist.written
        /\ log' = log \cup {<<k, dirs[k].serial>>}
        /\ objs' = [objs EXCEPT ![k].mem = @ \cup {dirs[k].serial}]
        /\ hist' = [hist EXCEPT !.written = @ \cup {dirs[k].serial}]
  BY Zenon DEF Write
<1> DEFINE s == dirs[k].serial
<1>2. /\ pc[t].at = "idle"
      /\ UNCHANGED <<marker, jnl, dirs, meta, phase, todo, highest, refused, counter, dict, lock, refs, pc>>
  BY Zenon DEF Write, At, opening
<1>3. /\ k \in DOMAIN objs /\ k \in DOMAIN dirs
      /\ k \in DOMAIN meta \/ s \in hist.deleted
      /\ Own(s, k) /\ phase \in {"down", "up"}
  BY Zenon DEF IInv, Handles, Objects, Folders
<1>4. /\ DOMAIN objs' = DOMAIN objs /\ \A i \in DOMAIN objs : i # k => objs'[i] = objs[i]
      /\ DOMAIN objs'[k] = DOMAIN objs[k] /\ objs'[k].name = objs[k].name
      /\ objs'[k].deleted = objs[k].deleted /\ objs'[k].closed = objs[k].closed
      /\ objs'[k].mem = objs[k].mem \cup {s}
  BY <1>1, <1>3, Zenon DEF IInv, Objects
<1>5. /\ DOMAIN hist' = DOMAIN hist /\ hist'.made = hist.made /\ hist'.deleted = hist.deleted
      /\ hist'.ready = hist.ready /\ hist'.written = hist.written \cup {s}
  BY <1>1, Zenon DEF IInv, Shape
<1>6. \A e : e \in log' <=> e \in log \/ e = <<k, s>>
  BY <1>1, Zenon
<1> HIDE DEF s
<1>7. \A r, i : Own(r, i)' <=> Own(r, i)
  BY <1>5, Zenon DEF Own, Made
<1>8. Flags' /\ Shape'
  BY <1>2, <1>3, <1>5, Zenon DEF IInv, Flags, Shape, Own, Made
<1>9. Folders'
  BY OwnKept, <1>2, <1>5, Zenon DEF IInv, Folders
<1>10. Stored'
  BY <1>2, <1>3, <1>5, <1>6, <1>7 DEF IInv, Stored
<1>11. Objects'
  BY <1>2, <1>3, <1>4, <1>5, <1>7, Zenon DEF IInv, Objects
<1>12. Handles' /\ Opening'
  BY <1>2, <1>4, <1>5, Zenon DEF IInv, Handles, Opening
<1>13. Dictionary'
  BY <1>2, <1>4, Zenon DEF IInv, Dictionary
<1>14. Working'
  BY <1>2, <1>4, SMTT(30) DEF IInv, Working, Busy, Creating
<1>15. Durable'
  <2>1. hist.made[s].id = k /\ dirs[k].serial = s
    BY <1>3, Zenon DEF Own, s
  <2>2. \A i : i \in DOMAIN objs => objs[i].mem \subseteq objs'[i].mem
    BY <1>4, Zenon
  <2> QED
    BY <1>2, <1>3, <1>4, <1>5, <1>6, <2>1, <2>2, Zenon DEF IInv, Durable, Safe
<1> QED
  BY <1>8, <1>9, <1>10, <1>11, <1>12, <1>13, <1>14, <1>15, Zenon DEF IInv

-----------------------------------------------------------------------------
\* The next id gets a folder; its serial is the next one.
LEMMA CreateDirInv == ASSUME IInv, NEW t \in Threads, CreateDir(t) PROVE IInv'
<1>1. PICK n \in Names \ DOMAIN dict, o \in Options :
        /\ lock' = t
        /\ counter' = counter + 1
        /\ dirs' = Put(dirs, counter, [manifest |-> FALSE, data |-> {}, serial |-> Made + 1])
        /\ hist' = [hist EXCEPT !.made = Append(@, [id |-> counter, opts |-> o])]
        /\ pc' = [pc EXCEPT ![t] = [at |-> "tree", id |-> counter, name |-> n, opts |-> o]]
  BY Zenon DEF CreateDir, Goto
<1>2. /\ phase = "up" /\ lock = NoOne /\ pc[t].at = "idle"
      /\ UNCHANGED <<marker, jnl, meta, log, phase, todo, highest, refused, dict, objs, refs>>
  BY Zenon DEF CreateDir, opening, At
<1>3. /\ counter \in Nat /\ 0 < counter /\ counter \notin DOMAIN dirs
      /\ hist.made \in Seq([id : Nat, opts : Options])
  <2>1. \A i \in DOMAIN dirs : i \in Nat /\ i < counter
    BY Zenon DEF IInv, Folders
  <2> QED
    BY <2>1 DEF IInv, Shape
<1>4. /\ DOMAIN hist' = DOMAIN hist /\ hist'.written = hist.written /\ hist'.deleted = hist.deleted
      /\ hist'.ready = hist.ready /\ hist'.made = Append(hist.made, [id |-> counter, opts |-> o])
  BY <1>1, Zenon DEF IInv, Shape
<1>5. /\ hist'.made \in Seq([id : Nat, opts : Options]) /\ Made' = Made + 1 /\ Made \in Nat
      /\ \A s \in 1..Made : hist'.made[s] = hist.made[s]
      /\ hist'.made[Made + 1].id = counter
  BY <1>3, <1>4 DEF Made
<1>6. /\ DOMAIN dirs' = DOMAIN dirs \cup {counter} /\ \A i \in DOMAIN dirs : dirs'[i] = dirs[i]
      /\ DOMAIN dirs'[counter] = {"manifest", "data", "serial"} /\ dirs'[counter].manifest = FALSE
      /\ dirs'[counter].data = {} /\ dirs'[counter].serial = Made + 1
  BY <1>1, <1>3, Zenon DEF Put
<1>7. /\ DOMAIN pc' = Threads /\ \A u \in Threads : u # t => pc'[u] = pc[u]
      /\ DOMAIN pc'[t] = {"at", "id", "name", "opts"}
      /\ pc'[t].at = "tree" /\ pc'[t].id = counter /\ pc'[t].name = n
  BY <1>1, Zenon DEF IInv, Shape
<1>8. \A s, i : Own(s, i) => Own(s, i)'
  BY <1>5 DEF Own
<1>9. \A s, i : s = Made + 1 /\ i = counter => Own(s, i)'
  BY <1>3, <1>5 DEF Own
<1>10. \A u \in Threads : pc[u].at \notin {"tree", "meta"}
  BY <1>2, ThreadsAssumption, Zenon DEF IInv, Working, Busy, Creating
<1>11. \A i : i \in DOMAIN meta \/ i \in DOMAIN objs => i \in DOMAIN dirs /\ i # counter
  BY <1>3, Zenon DEF IInv, Stored, Objects
<1>12. Flags' /\ Shape'
  <2>1. Flags'
    BY <1>2, <1>6, Zenon DEF IInv, Flags
  <2> QED
    BY <1>1, <1>2, <1>3, <1>4, <1>5, <1>7, <2>1 DEF IInv, Shape
<1>13. Folders'
  <2>2. counter < counter' /\ \A i \in DOMAIN dirs : i < counter'
    BY <1>1, <1>3 DEF IInv, Folders
  <2>3. \A i \in DOMAIN dirs : \A s : s = dirs[i].serial \/ s \in dirs[i].data => Own(s, i)'
    BY <1>8, Zenon DEF IInv, Folders
  <2> QED
    BY <1>3, <1>6, <1>9, <2>2, <2>3, Zenon DEF IInv, Folders
<1>14. Stored' /\ Objects'
  BY <1>2, <1>6, <1>8, <1>11, Zenon DEF IInv, Stored, Objects
<1>15. Handles' /\ Opening'
  BY <1>2, <1>4, <1>6, <1>11, Zenon DEF IInv, Handles, Opening
<1>16. Working'
  <2>1. ASSUME NEW u \in Threads, u # t PROVE Busy(u)'
    <3>1. Busy(u) /\ pc[u].at \notin {"tree", "meta"} /\ (pc[u].at = "clean" => pc[u].id # counter)
      BY <1>3, <1>10, Zenon DEF IInv, Working, Busy
    <3> QED
      BY <1>1, <1>2, <1>3, <1>6, <1>7, <2>1, <3>1, Zenon DEF Busy
  <2>2. Busy(t)'
    <3>1. Creating(t)'
      BY <1>1, <1>2, <1>3, <1>6, <1>7, <1>11, Zenon DEF IInv, Creating, Handles
    <3> QED
      BY <1>1, <1>2, <1>7, <1>11, <3>1 DEF Busy
  <2> QED
    BY <2>1, <2>2, Zenon DEF Working
<1>17. Dictionary'
  BY <1>2, <1>6, <1>11, Zenon DEF IInv, Dictionary
<1>18. Durable'
  <2>1. \A s \in hist.written : hist'.made[s].id = hist.made[s].id
    BY <1>5, Zenon DEF IInv, Shape
  <2>2. \A s, i : Safe(s, i) => Safe(s, i)'
    BY <1>2, <1>6, <1>11, Zenon DEF Safe
  <2> QED
    BY <1>4, <2>1, <2>2, Zenon DEF IInv, Durable
<1> QED
  BY <1>12, <1>13, <1>14, <1>15, <1>16, <1>17, <1>18, Zenon DEF IInv

\* The tree is opened: the folder has its manifest and the keyspace its object.
LEMMA CreateTreeInv == ASSUME IInv, NEW t \in Threads, CreateTree(t) PROVE IInv'
<1> DEFINE k == pc[t].id
<1>1. /\ dirs' = [dirs EXCEPT ![k].manifest = TRUE]
      /\ objs' = Put(objs, k, Object(pc[t].name, pc[t].opts))
      /\ pc' = [pc EXCEPT ![t] = [pc[t] EXCEPT !.at = "meta"]]
      /\ pc[t].at = "tree"
      /\ UNCHANGED <<marker, jnl, meta, log, phase, todo, highest, refused, counter, dict, lock, refs, hist>>
  BY Zenon DEF CreateTree, Goto, At, opening
<1>2. /\ phase = "up" /\ lock = t /\ DOMAIN pc[t] = {"at", "id", "name", "opts"}
      /\ k \in DOMAIN dirs /\ k \notin DOMAIN meta /\ k \notin DOMAIN objs
      /\ pc[t].name \in Names /\ pc[t].name \notin DOMAIN dict
      /\ \A u \in Threads : k \notin refs[u]
  BY <1>1, Zenon DEF IInv, Working, Busy, Creating
<1>3. /\ DOMAIN dirs' = DOMAIN dirs /\ \A i \in DOMAIN dirs : i # k => dirs'[i] = dirs[i]
      /\ DOMAIN dirs'[k] = DOMAIN dirs[k] /\ dirs'[k].manifest = TRUE
      /\ dirs'[k].data = dirs[k].data /\ dirs'[k].serial = dirs[k].serial
  BY <1>1, <1>2, Zenon DEF IInv, Folders
<1>4. /\ DOMAIN objs' = DOMAIN objs \cup {k} /\ \A i \in DOMAIN objs : objs'[i] = objs[i]
      /\ DOMAIN objs'[k] = {"name", "tree", "opts", "deleted", "mem", "closed"}
      /\ objs'[k].name = pc[t].name /\ objs'[k].mem = {}
      /\ ~objs'[k].deleted /\ ~objs'[k].closed
  BY <1>1, <1>2, Zenon DEF Put, Object
<1>6. /\ DOMAIN pc' = Threads /\ \A u \in Threads : u # t => pc'[u] = pc[u]
      /\ DOMAIN pc'[t] = DOMAIN pc[t] /\ pc'[t].at = "meta"
      /\ pc'[t].id = k /\ pc'[t].name = pc[t].name
  BY <1>1, <1>2, Zenon DEF IInv, Shape
<1> HIDE DEF k
<1>7. Flags' /\ Shape'
  <2>1. Flags'
    BY <1>1, <1>3, Zenon DEF IInv, Flags
  <2> QED
    BY <1>1, <1>6, <2>1, Zenon DEF IInv, Shape, Made
<1>8. Folders' /\ Stored'
  <2>1. Folders'
    BY OwnKept, <1>1, <1>2, <1>3 DEF IInv, Folders
  <2>2. \A i \in DOMAIN meta : dirs'[i] = dirs[i]
    BY <1>2, <1>3, Zenon DEF IInv, Stored
  <2> QED
    BY OwnKept, <1>1, <1>3, <2>1, <2>2, Zenon DEF IInv, Stored
<1>9. Objects'
  BY OwnKept, <1>1, <1>2, <1>3, <1>4, SMTT(30) DEF IInv, Objects
<1>10. Handles' /\ Opening' /\ Dictionary'
  BY <1>1, <1>2, <1>3, <1>4, SMTT(30) DEF IInv, Handles, Opening, Dictionary
<1>11. Working'
  <2>1. \A u \in Threads : u # t => pc[u].at \notin {"tree", "meta"} /\ (pc[u].at = "clean" => pc[u].id # k)
    BY <1>1, <1>2, Zenon DEF IInv, Working, Busy, Creating, k
  <2> QED
    BY <1>1, <1>2, <1>3, <1>4, <1>6, <2>1, SMTT(30) DEF IInv, Working, Busy, Creating
<1>12. Durable'
  BY <1>1, <1>2, <1>3, <1>4, SMTT(30) DEF IInv, Durable, Safe
<1> QED
  BY <1>7, <1>8, <1>9, <1>10, <1>11, <1>12, Zenon DEF IInv

\* The keyspace gets its name.
LEMMA CreateMetaInv == ASSUME IInv, NEW t \in Threads, CreateMeta(t) PROVE IInv'
<1> DEFINE k == pc[t].id
           n == pc[t].name
<1>1. /\ meta' = Put(meta, k, [name |-> n, kvs |-> Encode(objs[k].opts)])
      /\ dict' = Put(dict, n, k)
      /\ refs' = [refs EXCEPT ![t] = @ \cup {k}]
      /\ pc' = [pc EXCEPT ![t] = Idle] /\ lock' = NoOne
      /\ pc[t].at = "meta"
      /\ UNCHANGED <<marker, jnl, dirs, log, phase, todo, highest, refused, counter, objs, hist>>
  BY Zenon DEF CreateMeta, Goto, At, opening
<1>2. /\ phase = "up" /\ lock = t
      /\ k \in DOMAIN dirs /\ k \notin DOMAIN meta /\ k \in DOMAIN objs
      /\ n \in Names /\ n \notin DOMAIN dict /\ objs[k].name = n
      /\ ~objs[k].deleted /\ dirs[k].manifest
  BY <1>1, Zenon DEF IInv, Working, Busy, Creating
<1>3. /\ DOMAIN meta' = DOMAIN meta \cup {k} /\ \A i \in DOMAIN meta : meta'[i] = meta[i]
      /\ DOMAIN meta'[k] = {"name", "kvs"} /\ meta'[k].name = n
      /\ DOMAIN dict' = DOMAIN dict \cup {n} /\ \A m \in DOMAIN dict : dict'[m] = dict[m]
      /\ dict'[n] = k
  BY <1>1, <1>2, Zenon DEF Put
<1>4. /\ DOMAIN refs' = Threads
      /\ \A u \in Threads : \A i : i \in refs'[u] <=> i \in refs[u] \/ (u = t /\ i = k)
  BY <1>1, Zenon DEF IInv, Shape
<1>5. /\ DOMAIN pc' = Threads /\ \A u \in Threads : u # t => pc'[u] = pc[u]
      /\ pc'[t].at = "idle"
  BY <1>1, Zenon DEF IInv, Shape, Idle
<1> HIDE DEF k, n
<1>6. Flags' /\ Shape'
  BY <1>1, <1>4, <1>5, Zenon DEF IInv, Flags, Shape, Made
<1>7. Folders' /\ Objects'
  BY OwnKept, <1>1, <1>2, <1>3, Zenon DEF IInv, Folders, Objects
<1>8. Stored'
  <2>1. \A i \in DOMAIN meta : meta[i].name # n
    BY <1>2, Zenon DEF IInv, Dictionary
  <2>2. \A i, j \in DOMAIN meta' : meta'[i].name = meta'[j].name => i = j
    BY <1>3, <2>1, Zenon DEF IInv, Stored
  <2>3. \A e \in log : Own(e[2], e[1])'
    BY OwnKept, <1>1, Zenon DEF IInv, Stored
  <2>4. UNCHANGED <<dirs, log>>
    BY <1>1, Zenon
  <2>5. \A i \in DOMAIN meta' :
          /\ i \in DOMAIN dirs /\ dirs[i].manifest /\ DOMAIN meta'[i] = {"name", "kvs"}
          /\ meta'[i].name \in Names
    BY <1>2, <1>3, Zenon DEF IInv, Stored
  <2> QED
    BY <2>2, <2>3, <2>4, <2>5, Zenon DEF Stored
<1>9. Handles' /\ Opening'
  BY <1>1, <1>2, <1>3, <1>4, ZenonT(30) DEF IInv, Handles, Opening
<1>10. Dictionary'
  BY <1>1, <1>2, <1>3, SMTT(30) DEF IInv, Dictionary
<1>11. Working'
  <2>1. \A u \in Threads : u # t => pc[u].at \notin {"tree", "meta"}
                                   /\ (pc[u].at \in {"clean", "mark"} => pc[u].id # k)
    <3>1. \A u \in Threads : k \notin refs[u]
      BY <1>1, Zenon DEF IInv, Working, Busy, Creating, k
    <3> QED
      BY <1>1, <1>2, <3>1, Zenon DEF IInv, Working, Busy, Creating
  <2> QED
    BY <1>1, <1>2, <1>3, <1>4, <1>5, <2>1, SMTT(30) DEF IInv, Working, Busy
<1>12. Durable'
  BY <1>1, <1>2, <1>3, Zenon DEF IInv, Durable, Safe
<1> QED
  BY <1>6, <1>7, <1>8, <1>9, <1>10, <1>11, <1>12, Zenon DEF IInv

\* delete_keyspace takes the name away.
LEMMA DeleteMetaInv == ASSUME IInv, NEW t \in Threads, DeleteMeta(t) PROVE IInv'
<1>1. PICK k \in refs[t] :
        /\ pc' = [pc EXCEPT ![t] = [at |-> "mark", id |-> k]]
        /\ IF objs[k].name \in DOMAIN dict
           THEN LET gone == dict[objs[k].name] IN
                /\ meta' = Without(meta, gone)
                /\ dict' = Without(dict, objs[k].name)
                /\ objs' = Kept(objs, Registered(dict') \cup Held(refs))
                /\ hist' = [hist EXCEPT !.deleted = @ \cup {dirs[gone].serial}]
           ELSE UNCHANGED <<meta, dict, objs, hist>>
  BY Zenon DEF DeleteMeta, Goto
<1>2. /\ phase = "up" /\ pc[t].at = "idle" /\ lock = NoOne
      /\ UNCHANGED <<marker, jnl, dirs, log, phase, todo, highest, refused, counter, lock, refs>>
  BY Zenon DEF DeleteMeta, At, opening
<1>3. /\ DOMAIN pc' = Threads /\ \A u \in Threads : u # t => pc'[u] = pc[u]
      /\ pc'[t].at = "mark" /\ pc'[t].id = k
  BY <1>1, Zenon DEF IInv, Shape
<1>4. \A u \in Threads : pc[u].at \notin {"tree", "meta"}
  BY <1>2, ThreadsAssumption, Zenon DEF IInv, Working, Busy, Creating
<1>5. k \in DOMAIN objs /\ (k \in DOMAIN meta => objs[k].name \in DOMAIN dict /\ dict[objs[k].name] = k)
  BY <1>2 DEF IInv, Handles, Dictionary
<1>6. CASE objs[k].name \notin DOMAIN dict
  <2>1. UNCHANGED <<meta, dict, objs, hist>>
    BY <1>1, <1>6, Zenon
  <2>2. Flags' /\ Shape' /\ Folders' /\ Stored'
    BY OwnKept, <1>2, <1>3, <2>1, Zenon DEF IInv, Flags, Shape, Folders, Stored, Made
  <2>3. Objects' /\ Handles' /\ Dictionary' /\ Durable' /\ Opening'
    BY OwnKept, <1>2, <2>1, Zenon DEF IInv, Objects, Handles, Dictionary, Durable, Safe, Opening
  <2>4. Working'
    BY <1>2, <1>3, <1>4, <1>5, <1>6, <2>1, SMTT(30) DEF IInv, Working, Busy
  <2> QED
    BY <2>2, <2>3, <2>4, Zenon DEF IInv
<1>7. CASE objs[k].name \in DOMAIN dict
  <2> DEFINE n == objs[k].name
             gone == dict[n]
  <2>1. /\ gone \in DOMAIN meta /\ meta[gone].name = n
        /\ \A m \in DOMAIN dict : dict[m] = gone => m = n
        /\ k \in DOMAIN meta => k = gone
    BY <1>5, <1>7, Zenon DEF IInv, Dictionary
  <2>2. /\ DOMAIN meta' = DOMAIN meta \ {gone} /\ \A i \in DOMAIN meta' : meta'[i] = meta[i]
        /\ DOMAIN dict' = DOMAIN dict \ {n} /\ \A m \in DOMAIN dict' : dict'[m] = dict[m]
    BY <1>1, <1>7, Zenon DEF Without
  <2>3. /\ \A i \in DOMAIN objs' : i \in DOMAIN objs /\ objs'[i] = objs[i]
        /\ \A m \in DOMAIN dict' : dict[m] \in DOMAIN objs'
        /\ \A u \in Threads : \A i \in refs[u] : i \in DOMAIN objs'
    <3>1. objs' = Kept(objs, Registered(dict') \cup Held(refs))
      BY <1>1, <1>7, Zenon
    <3>2. \A m \in DOMAIN dict' : dict[m] \in DOMAIN objs /\ dict[m] \in Registered(dict')
      BY <2>2 DEF Registered, IInv, Dictionary
    <3>3. \A u \in Threads : \A i \in refs[u] : i \in DOMAIN objs /\ i \in Held(refs)
      BY Zenon DEF Held, IInv, Handles
    <3> QED
      BY <3>1, <3>2, <3>3, Zenon DEF Kept
  <2>4. /\ DOMAIN hist' = DOMAIN hist /\ hist'.made = hist.made /\ hist'.written = hist.written
        /\ hist'.ready = hist.ready /\ hist'.deleted = hist.deleted \cup {dirs[gone].serial}
    BY <1>1, <1>7, Zenon DEF IInv, Shape
  <2> HIDE DEF n, gone
  <2>6. Flags' /\ Shape' /\ Opening'
    BY <1>2, <1>3, <2>3, <2>4, Zenon DEF IInv, Flags, Shape, Opening, Made
  <2>7. Folders' /\ Stored' /\ Objects'
    BY OwnKept, <1>2, <2>2, <2>3, <2>4, SMTT(30) DEF IInv, Folders, Stored, Objects
  <2>8. Handles'
    BY <1>2, <2>2, <2>3, <2>4, Zenon DEF IInv, Handles
  <2>9. Dictionary'
    BY <1>2, <2>1, <2>2, <2>3 DEF IInv, Dictionary, gone
  <2>10. Working'
    BY <1>2, <1>3, <1>4, <2>1, <2>2, <2>3, SMTT(30) DEF IInv, Working, Busy
  <2>11. Durable'
    BY <1>2, <2>1, <2>2, <2>3, <2>4, SMTT(30) DEF IInv, Durable, Safe
  <2> QED
    BY <2>6, <2>7, <2>8, <2>9, <2>10, <2>11, Zenon DEF IInv
<1> QED
  BY <1>6, <1>7, Zenon

\* A thread lets go of a handle; the last one to a deleted keyspace starts the clean-up.
LEMMA LetGoInv ==
  ASSUME IInv, NEW t \in Threads, pc[t].at \in {"idle", "mark"}, NEW k \in refs[t],
         NEW os, DOMAIN os = DOMAIN objs, \A i \in DOMAIN objs : i # k => os[i] = objs[i],
         DOMAIN os[k] = DOMAIN objs[k], os[k].name = objs[k].name, os[k].mem = objs[k].mem,
         os[k].closed = objs[k].closed, os[k].deleted => k \notin DOMAIN meta,
         LetGo(t, k, os),
         UNCHANGED <<marker, jnl, meta, log, opening, counter, dict, lock, hist>>
  PROVE  IInv'
<1>1. UNCHANGED <<marker, jnl, meta, log, phase, todo, highest, refused, counter, dict, lock, hist>>
  BY Zenon DEF opening
<1>2. /\ k \in DOMAIN objs /\ k \in DOMAIN dirs /\ phase \in {"down", "up"}
      /\ \A u \in Threads : pc[u].at \in {"tree", "meta", "clean"} => pc[u].id # k
  BY SMTT(30) DEF IInv, Handles, Objects, Working, Busy, Creating
<1>3. /\ DOMAIN refs' = Threads /\ refs'[t] = refs[t] \ {k}
      /\ \A u \in Threads : u # t => refs'[u] = refs[u]
  BY Zenon DEF LetGo, IInv, Shape
<1>4. /\ \A i \in DOMAIN objs' : i \in DOMAIN objs /\ objs'[i] = os[i]
      /\ \A m \in DOMAIN dict : dict[m] \in DOMAIN objs'
      /\ \A u \in Threads : \A i \in refs'[u] : i \in DOMAIN objs'
      /\ \A u \in Threads : pc[u].at = "meta" => pc[u].id \in DOMAIN objs'
  <2>1. objs' = Kept(os, Registered(dict) \cup Held(refs'))
    BY Zenon DEF LetGo
  <2>2. \A m \in DOMAIN dict : dict[m] \in DOMAIN os /\ dict[m] \in Registered(dict)
    BY Zenon DEF Registered, IInv, Dictionary
  <2>3. \A u \in Threads : \A i \in refs'[u] : i \in DOMAIN os /\ i \in Held(refs')
    BY <1>3, Zenon DEF Held, IInv, Handles
  <2>4. \A u \in Threads : pc[u].at = "meta" => pc[u].id \in DOMAIN os /\ pc[u].id \in Held(refs')
    BY HeldMeans, Zenon DEF IInv, Working, Busy
  <2> QED
    BY <2>1, <2>2, <2>3, <2>4, Zenon DEF Kept
<1>5. \/ UNCHANGED dirs /\ pc' = [pc EXCEPT ![t] = Idle]
      \/ /\ k \notin DOMAIN objs' /\ k \notin DOMAIN meta
         /\ dirs' = [dirs EXCEPT ![k].manifest = FALSE]
         /\ pc' = [pc EXCEPT ![t] = [at |-> "clean", id |-> k]]
  BY Zenon DEF LetGo, Goto
<1>6. /\ DOMAIN dirs' = DOMAIN dirs
      /\ \A i \in DOMAIN dirs :
            /\ DOMAIN dirs'[i] = DOMAIN dirs[i] /\ dirs'[i].data = dirs[i].data
            /\ dirs'[i].serial = dirs[i].serial
            /\ i # k \/ k \in DOMAIN meta => dirs'[i].manifest = dirs[i].manifest
  BY <1>2, <1>5 DEF IInv, Folders
<1>7. /\ DOMAIN pc' = Threads /\ \A u \in Threads : u # t => pc'[u] = pc[u]
      /\ \/ pc'[t].at = "idle"
         \/ pc'[t].at = "clean" /\ pc'[t].id = k /\ k \notin DOMAIN objs' /\ k \notin DOMAIN meta
  BY <1>5 DEF IInv, Shape, Idle
<1>8. /\ \A i \in DOMAIN objs' :
            /\ DOMAIN objs'[i] = DOMAIN objs[i] /\ objs'[i].name = objs[i].name
            /\ objs'[i].mem = objs[i].mem /\ objs'[i].closed = objs[i].closed
            /\ i # k => objs'[i].deleted = objs[i].deleted
      /\ k \in DOMAIN objs' /\ objs'[k].deleted => k \notin DOMAIN meta
  BY <1>4, Zenon
<1>9. Flags'
  BY <1>1, <1>5, <1>2, Zenon DEF IInv, Flags, Folders
<1>10. Shape'
  BY <1>1, <1>3, <1>7, Zenon DEF IInv, Shape, Made
<1>11. Folders' /\ Stored'
  BY OwnKept, <1>1, <1>6 DEF IInv, Folders, Stored
<1>12. Objects'
  BY OwnKept, <1>1, <1>4, <1>6, <1>8, Zenon DEF IInv, Objects
<1>13. Handles' /\ Opening' /\ Dictionary'
  BY <1>1, <1>3, <1>4, <1>6, <1>8, SMTT(30) DEF IInv, Handles, Objects, Opening, Dictionary
<1>14. Working'
  <2>1. ASSUME NEW u \in Threads, u # t PROVE Busy(u)'
    <3>1. Busy(u)
      BY Zenon DEF IInv, Working
    <3> QED
      BY <1>1, <1>2, <1>3, <1>4, <1>6, <1>7, <1>8, <2>1, <3>1, SMTT(30) DEF Busy, Creating
  <2>2. Busy(t)'
    BY <1>1, <1>2, <1>6, <1>7, Zenon DEF Busy
  <2> QED
    BY <2>1, <2>2, Zenon DEF Working
<1>15. Durable'
  BY <1>1, <1>4, <1>6, <1>8, SMTT(30) DEF IInv, Durable, Safe, Stored
<1> QED
  BY <1>9, <1>10, <1>11, <1>12, <1>13, <1>14, <1>15, Zenon DEF IInv

LEMMA DropHandleInv == ASSUME IInv, NEW t \in Threads, DropHandle(t) PROVE IInv'
<1>1. PICK k \in refs[t] : LetGo(t, k, objs)
  BY Zenon DEF DropHandle
<1>2. /\ pc[t].at = "idle"
      /\ UNCHANGED <<marker, jnl, meta, log, opening, counter, dict, lock, hist>>
  BY Zenon DEF DropHandle, At
<1>3. objs[k].deleted => k \notin DOMAIN meta
  BY Zenon DEF IInv, Handles, Objects
<1> QED
  BY <1>1, <1>2, <1>3, LetGoInv, Zenon

LEMMA MarkDeletedInv == ASSUME IInv, NEW t \in Threads, MarkDeleted(t) PROVE IInv'
<1> DEFINE k == pc[t].id
           os == [objs EXCEPT ![k].deleted = TRUE]
<1>1. /\ pc[t].at = "mark" /\ LetGo(t, k, os)
      /\ UNCHANGED <<marker, jnl, meta, log, opening, counter, dict, lock, hist>>
  BY Zenon DEF MarkDeleted, At
<1>2. k \in refs[t] /\ k \notin DOMAIN meta /\ k \in DOMAIN objs
  BY <1>1, Zenon DEF IInv, Working, Busy, Handles
<1>3. /\ DOMAIN os = DOMAIN objs /\ \A i \in DOMAIN objs : i # k => os[i] = objs[i]
      /\ DOMAIN os[k] = DOMAIN objs[k] /\ os[k].name = objs[k].name /\ os[k].mem = objs[k].mem
      /\ os[k].closed = objs[k].closed
  BY <1>2, Zenon DEF IInv, Objects
<1> HIDE DEF k, os
<1> QED
  BY <1>1, <1>2, <1>3, LetGoInv, Zenon

-----------------------------------------------------------------------------

\* Every step keeps the invariant.
LEMMA NextIInv == IInv /\ [Next]_vars => IInv'
<1> SUFFICES ASSUME IInv, [Next]_vars PROVE IInv'
  BY Zenon
<1>1. CASE Next
  BY <1>1, OpeningStep, RecoverDirInv, RecoverEndInv, CloseInv, CrashInv, FlushInv, EvictInv,
     OpenKeyspaceInv, CreateDirInv, CreateTreeInv, CreateMetaInv, CreateFailsInv, WriteInv,
     DeleteMetaInv, MarkDeletedInv, DropHandleInv, RemoveDirInv DEF Next
<1>2. CASE UNCHANGED vars
  <2>1. UNCHANGED <<marker, jnl, dirs, meta, log, phase, todo, highest, refused, counter, dict, objs, lock, refs,
                    pc, hist>>
    BY <1>2, Zenon DEF vars, disk, opening
  <2>2. Flags' /\ Shape' /\ Folders' /\ Stored'
    BY OwnKept, <2>1, Zenon DEF IInv, Flags, Shape, Folders, Stored, Made
  <2>3. Objects' /\ Handles' /\ Opening' /\ Dictionary'
    BY OwnKept, <2>1, Zenon DEF IInv, Objects, Handles, Opening, Dictionary
  <2>4. Working' /\ Durable'
    BY <2>1, SMTT(30) DEF IInv, Working, Busy, Creating, Durable, Safe
  <2> QED
    BY <2>2, <2>3, <2>4, Zenon DEF IInv
<1> QED
  BY <1>1, <1>2, Zenon

THEOREM Inductive == Spec => []IInv
  BY InitIInv, NextIInv, PTL DEF Spec

\* For any number of threads, names, keyspaces, crashes, closes and failures the state keeps its type.
THEOREM TypesKept == Spec => []TypeOK
<1>1. IInv => TypeOK
  <2> SUFFICES ASSUME IInv PROVE TypeOK
    BY Zenon
  <2>1. /\ marker \in {"none", "empty", "v3"}
        /\ phase \in {"down", "creating", "marking", "recovering", "up"}
        /\ lock \in Threads \cup {NoOne} /\ todo \subseteq DOMAIN dirs /\ DOMAIN dict \subseteq Names
    BY Zenon DEF IInv, Shape, Dictionary
  <2>2. jnl \in BOOLEAN /\ refused \in BOOLEAN
    BY Zenon DEF IInv, Flags
  <2>3. \A i \in DOMAIN dirs : dirs[i].manifest \in BOOLEAN /\ dirs[i].data \subseteq 1..Made
    BY Zenon DEF IInv, Flags, Folders, Own
  <2>4. DOMAIN meta \subseteq 1..counter
    BY DEF IInv, Shape, Stored, Folders
  <2>5. Registered(dict) \cup Held(refs) \subseteq DOMAIN objs
    BY RegisteredMeans, HeldMeans DEF IInv, Dictionary, Handles, Working, Busy
  <2> QED
    BY <2>1, <2>2, <2>3, <2>4, <2>5, Zenon DEF TypeOK
<1> QED
  BY <1>1, Inductive, PTL

\* For any number of crashes, failed creations and deletions, the dictionary of an open database and
\* its meta keyspace agree (create_keyspace, remove_keyspace, recover_keyspaces).
THEOREM NamesAgree == Spec => []MetaMatchesDictionary
<1>1. IInv => MetaMatchesDictionary
  <2> SUFFICES ASSUME IInv, phase = "up" PROVE MetaMatchesDictionary
    BY Zenon DEF MetaMatchesDictionary
  <2>1. \A i : i \in Registered(dict) <=> i \in DOMAIN meta
    BY RegisteredMeans DEF IInv, Dictionary
  <2>2. \A n \in DOMAIN dict :
          /\ meta[dict[n]].name = n /\ objs[dict[n]].name = n
          /\ dict[n] \in DOMAIN dirs /\ dirs[dict[n]].manifest /\ ~objs[dict[n]].closed
    BY Zenon DEF IInv, Dictionary, Stored, Objects
  <2> QED
    BY <2>1, <2>2, Zenon DEF MetaMatchesDictionary
<1> QED
  BY <1>1, Inductive, PTL

\* For any number of crashes and any reuse of ids, data accepted by a keyspace stays in it until a
\* keyspace of its name is deleted (keyspace_id_counter, Drop of KeyspaceInner).
THEOREM AcceptedDataKept == Spec => []DataKept
<1>1. IInv => DataKept
  <2> SUFFICES ASSUME IInv, phase = "up" PROVE DataKept
    BY Zenon DEF DataKept
  <2>1. \A i \in DOMAIN meta : i \in Registered(dict) /\ i \in DOMAIN objs
    BY RegisteredMeans, Zenon DEF IInv, Dictionary
  <2> QED
    BY <2>1, Zenon DEF IInv, Durable, Safe, Contents, DataKept
<1> QED
  BY <1>1, Inductive, PTL

\* Data is only ever found under the id it was written to, however ids and names are reused.
THEOREM DataUnderOwnId == Spec => []OwnId
<1>1. IInv => OwnId
  BY Zenon DEF IInv, Objects, Folders, Own, Contents, OwnId
<1> QED
  BY <1>1, Inductive, PTL

\* No database is opened while a handle of an earlier opening lives (LockedFileGuard).
THEOREM OneOpening == Spec => []ExclusiveAccess
<1>1. IInv => ExclusiveAccess
  BY Zenon DEF IInv, Objects, ExclusiveAccess
<1> QED
  BY <1>1, Inductive, PTL

\* No sequence of crashes makes a created database refuse to open (create_or_recover).
THEOREM CreatedOpensAgain == Spec => []OpensAgain
<1>1. IInv => OpensAgain
  BY Zenon DEF IInv, Opening, OpensAgain
<1> QED
  BY <1>1, Inductive, PTL

-----------------------------------------------------------------------------
\* What is stored of options is enough to read them back: a fact of the codecs of KeyspaceOptions,
\* which holds of policies whose length fits its field.
RoundTrip == \A o \in Options : Decode(Encode(o)) = o

\* Live objects, stored options and creations under way all have the options of the folder's serial.
Optioned ==
    /\ \A i \in DOMAIN objs :
        /\ objs[i].opts = hist.made[dirs[i].serial].opts
        /\ objs[i].tree = TreeOf(hist.made[dirs[i].serial].opts)
    /\ \A i \in DOMAIN meta : meta[i].kvs = Encode(hist.made[dirs[i].serial].opts)
    /\ \A t \in Threads : pc[t].at = "tree" => pc[t].opts = hist.made[dirs[pc[t].id].serial].opts

\* A step that adds no object, no name and no creation.
LEMMA OptionedFrame ==
  ASSUME IInv, IInv', Optioned,
         \A i \in DOMAIN objs' : i \in DOMAIN objs /\ objs'[i].opts = objs[i].opts /\ objs'[i].tree = objs[i].tree,
         \A i \in DOMAIN meta' : i \in DOMAIN meta /\ meta'[i] = meta[i],
         \A i \in DOMAIN dirs' : i \in DOMAIN dirs /\ dirs'[i].serial = dirs[i].serial,
         hist'.made = hist.made,
         \A t \in Threads : pc'[t].at = "tree" => pc'[t] = pc[t]
  PROVE  Optioned'
<1>1. /\ \A i \in DOMAIN objs' : i \in DOMAIN dirs'
      /\ \A i \in DOMAIN meta' : i \in DOMAIN dirs'
      /\ \A t \in Threads : pc'[t].at = "tree" => pc'[t].id \in DOMAIN dirs'
  BY Zenon DEF IInv, Objects, Stored, Working, Busy, Creating
<1> QED
  BY <1>1, SMTT(30) DEF Optioned

LEMMA LetGoOptioned ==
  ASSUME IInv, IInv', Optioned, NEW t \in Threads, DropHandle(t) \/ MarkDeleted(t)
  PROVE  Optioned'
<1>1. PICK k, os :
        /\ k \in refs[t]
        /\ LetGo(t, k, os) /\ DOMAIN os = DOMAIN objs
        /\ \A i \in DOMAIN objs : os[i].opts = objs[i].opts /\ os[i].tree = objs[i].tree
  <2>1. CASE DropHandle(t)
    BY <2>1, Zenon DEF DropHandle
  <2>2. CASE MarkDeleted(t)
    <3> DEFINE os == [objs EXCEPT ![pc[t].id].deleted = TRUE]
    <3>1. LetGo(t, pc[t].id, os) /\ pc[t].id \in refs[t]
      BY <2>2, Zenon DEF MarkDeleted, At, IInv, Working, Busy
    <3>2. /\ DOMAIN os = DOMAIN objs
          /\ \A i \in DOMAIN objs : os[i].opts = objs[i].opts /\ os[i].tree = objs[i].tree
      BY Zenon DEF IInv, Objects
    <3> HIDE DEF os
    <3> QED
      BY <3>1, <3>2, Zenon
  <2> QED
    BY <2>1, <2>2, Zenon
<1>2. UNCHANGED <<meta, hist>>
  BY Zenon DEF DropHandle, MarkDeleted
<1>3. \A i \in DOMAIN objs' : i \in DOMAIN objs /\ objs'[i].opts = objs[i].opts /\ objs'[i].tree = objs[i].tree
  BY <1>1, Zenon DEF LetGo, Kept
<1>4. \A i \in DOMAIN dirs' : i \in DOMAIN dirs /\ dirs'[i].serial = dirs[i].serial
  BY <1>1 DEF LetGo, IInv, Folders
<1>5. \A u \in Threads : pc'[u].at = "tree" => pc'[u] = pc[u]
  BY <1>1 DEF LetGo, Goto, Idle, IInv, Shape
<1> QED
  BY <1>2, <1>3, <1>4, <1>5, OptionedFrame, Zenon

LEMMA SeqElement == ASSUME NEW S, NEW q \in Seq(S), NEW n \in 1..Len(q) PROVE q[n] \in S
  OBVIOUS

\* A folder that recovery keeps gets the options that were stored for it.
LEMMA RecoverDirOptioned == ASSUME RoundTrip, IInv, Optioned, RecoverDir PROVE Optioned'
<1>1. PICK id \in todo :
        IF id \notin DOMAIN meta \/ ~dirs[id].manifest
        THEN dirs' = Without(dirs, id) /\ UNCHANGED objs
        ELSE /\ objs' = Put(objs, id, Object(meta[id].name, Decode(meta[id].kvs)))
             /\ UNCHANGED dirs
  BY Zenon DEF RecoverDir
<1>2. UNCHANGED <<meta, pc, hist>> /\ phase = "recovering"
  BY Zenon DEF RecoverDir
<1>3. /\ \A t \in Threads : pc[t].at = "idle"
      /\ \A i \in DOMAIN meta : i \in DOMAIN dirs /\ dirs[i].manifest
      /\ \A i \in DOMAIN objs : i # id /\ i \in DOMAIN dirs
  BY <1>2, Zenon DEF IInv, Working, Busy, Stored, Dictionary, Objects
<1>4. CASE id \notin DOMAIN meta
  <2>1. /\ UNCHANGED objs /\ \A i \in DOMAIN dirs : i # id => dirs'[i] = dirs[i]
    BY <1>1, <1>4, Zenon DEF Without
  <2> QED
    BY <1>2, <1>3, <1>4, <2>1, SMTT(30) DEF Optioned
<1>5. CASE id \in DOMAIN meta
  <2> DEFINE o == hist.made[dirs[id].serial].opts
  <2>1. o \in Options
    <3>1. dirs[id].serial \in 1..Len(hist.made)
      BY <1>3, <1>5, Zenon DEF IInv, Folders, Own, Made
    <3>2. hist.made[dirs[id].serial] \in [id : Nat, opts : Options]
      BY <3>1, SeqElement, Zenon DEF IInv, Shape
    <3> QED
      BY <3>2, Zenon
  <2>2. Decode(meta[id].kvs) = o
    BY <1>5, <2>1, Zenon DEF Optioned, RoundTrip
  <2>3. /\ UNCHANGED dirs /\ DOMAIN objs' = DOMAIN objs \cup {id} /\ \A i \in DOMAIN objs : objs'[i] = objs[i]
        /\ objs'[id].opts = o /\ objs'[id].tree = TreeOf(o)
    BY <1>1, <1>3, <1>5, <2>2 DEF Put, Object
  <2> QED
    BY <1>2, <1>3, <2>3 DEF Optioned
<1> QED
  BY <1>4, <1>5, Zenon

\* A new folder is made for the options asked for.
LEMMA CreateDirOptioned == ASSUME IInv, Optioned, NEW t \in Threads, CreateDir(t) PROVE Optioned'
<1>1. PICK n \in Names, o \in Options :
        /\ dirs' = Put(dirs, counter, [manifest |-> FALSE, data |-> {}, serial |-> Made + 1])
        /\ hist' = [hist EXCEPT !.made = Append(@, [id |-> counter, opts |-> o])]
        /\ pc' = [pc EXCEPT ![t] = [at |-> "tree", id |-> counter, name |-> n, opts |-> o]]
  BY Zenon DEF CreateDir, Goto
<1>2. UNCHANGED <<meta, objs>>
  BY Zenon DEF CreateDir
<1>3. \A i \in DOMAIN dirs : i # counter /\ dirs[i].serial \in 1..Made
  BY DEF IInv, Shape, Folders, Own
<1>4. /\ \A s \in 1..Made : hist'.made[s] = hist.made[s]
      /\ hist'.made[Made + 1].opts = o
  <2>1. hist'.made = Append(hist.made, [id |-> counter, opts |-> o])
    BY <1>1, Zenon DEF IInv, Shape
  <2>2. hist.made \in Seq([id : Nat, opts : Options]) /\ counter \in Nat
    BY Zenon DEF IInv, Shape
  <2> QED
    BY <2>1, <2>2, SMTT(30) DEF Made
<1>5. dirs'[counter].serial = Made + 1 /\ \A i \in DOMAIN dirs : dirs'[i] = dirs[i]
  BY <1>1, <1>3, Zenon DEF Put
<1>6. /\ \A u \in Threads : u # t => pc'[u] = pc[u]
      /\ pc'[t].id = counter /\ pc'[t].opts = o
  BY <1>1, Zenon DEF IInv, Shape
<1>7. /\ \A i \in DOMAIN objs : i \in DOMAIN dirs
      /\ \A i \in DOMAIN meta : i \in DOMAIN dirs
      /\ \A u \in Threads : pc[u].at = "tree" => pc[u].id \in DOMAIN dirs
  BY Zenon DEF IInv, Objects, Stored, Working, Busy, Creating
<1> QED
  BY <1>2, <1>3, <1>4, <1>5, <1>6, <1>7, SMTT(30) DEF Optioned

LEMMA CreateTreeOptioned == ASSUME IInv, Optioned, NEW t \in Threads, CreateTree(t) PROVE Optioned'
<1> DEFINE k == pc[t].id
<1>1. /\ dirs' = [dirs EXCEPT ![k].manifest = TRUE]
      /\ objs' = Put(objs, k, Object(pc[t].name, pc[t].opts))
      /\ pc' = [pc EXCEPT ![t] = [pc[t] EXCEPT !.at = "meta"]]
      /\ pc[t].at = "tree" /\ UNCHANGED <<meta, hist>>
  BY Zenon DEF CreateTree, Goto, At
<1>2. /\ DOMAIN pc[t] = {"at", "id", "name", "opts"} /\ k \in DOMAIN dirs
      /\ \A u \in Threads : pc[u].at = "tree" => pc[u].id \in DOMAIN dirs
      /\ \A i \in DOMAIN objs : i # k /\ i \in DOMAIN dirs
      /\ \A i \in DOMAIN meta : i \in DOMAIN dirs
  BY <1>1, Zenon DEF IInv, Working, Busy, Creating, Objects, Stored
<1>3. \A i \in DOMAIN dirs : dirs'[i].serial = dirs[i].serial
  BY <1>1, Zenon DEF IInv, Folders
<1>4. /\ DOMAIN objs' = DOMAIN objs \cup {k} /\ \A i \in DOMAIN objs : objs'[i] = objs[i]
      /\ objs'[k].opts = pc[t].opts /\ objs'[k].tree = TreeOf(pc[t].opts)
  BY <1>1, <1>2, Zenon DEF Put, Object
<1>5. pc'[t].at = "meta" /\ \A u \in Threads : u # t => pc'[u] = pc[u]
  BY <1>1, <1>2, Zenon DEF IInv, Shape
<1>6. pc[t].opts = hist.made[dirs[k].serial].opts
  BY <1>1, Zenon DEF Optioned
<1> HIDE DEF k
<1>7. \A i \in DOMAIN objs' :
        /\ objs'[i].opts = hist.made[dirs'[i].serial].opts
        /\ objs'[i].tree = TreeOf(hist.made[dirs'[i].serial].opts)
  BY <1>2, <1>3, <1>4, <1>6, Zenon DEF Optioned
<1>8. \A u \in Threads : pc'[u].at = "tree" => pc'[u].opts = hist.made[dirs'[pc'[u].id].serial].opts
  BY <1>2, <1>3, <1>5, SMTT(30) DEF Optioned
<1>9. \A i \in DOMAIN meta : meta[i].kvs = Encode(hist.made[dirs'[i].serial].opts)
  BY <1>2, <1>3, Zenon DEF Optioned
<1> QED
  BY <1>1, <1>7, <1>8, <1>9 DEF Optioned

LEMMA CreateMetaOptioned == ASSUME IInv, Optioned, NEW t \in Threads, CreateMeta(t) PROVE Optioned'
<1> DEFINE k == pc[t].id
<1>1. /\ meta' = Put(meta, k, [name |-> pc[t].name, kvs |-> Encode(objs[k].opts)])
      /\ pc' = [pc EXCEPT ![t] = Idle] /\ pc[t].at = "meta" /\ UNCHANGED <<dirs, objs, hist>>
  BY Zenon DEF CreateMeta, Goto, At
<1>2. k \in DOMAIN objs /\ k \notin DOMAIN meta
  BY <1>1, Zenon DEF IInv, Working, Busy, Creating
<1>3. /\ DOMAIN meta' = DOMAIN meta \cup {k} /\ \A i \in DOMAIN meta : meta'[i] = meta[i]
      /\ meta'[k].kvs = Encode(objs[k].opts)
  BY <1>1, <1>2, Zenon DEF Put
<1>4. pc'[t].at = "idle" /\ \A u \in Threads : u # t => pc'[u] = pc[u]
  BY <1>1, Zenon DEF IInv, Shape, Idle
<1> HIDE DEF k
<1> QED
  BY <1>1, <1>2, <1>3, <1>4, ZenonT(30) DEF Optioned

\* The other steps only take away, or change other parts of an object.
LEMMA OtherOptioned ==
  ASSUME IInv, IInv', Optioned,
         \/ CreateJournal \/ CreateMarker \/ WriteMarker \/ Recover \/ RecoverEnd
         \/ \E t \in Threads : OpenKeyspace(t) \/ CreateFails(t) \/ Write(t) \/ DeleteMeta(t) \/ RemoveDir(t)
         \/ Flush \/ Evict \/ Close \/ Crash \/ UNCHANGED vars
  PROVE  Optioned'
<1>1. \A i \in DOMAIN objs' : i \in DOMAIN objs /\ objs'[i].opts = objs[i].opts /\ objs'[i].tree = objs[i].tree
  <2>1. CASE Flush \/ (\E t \in Threads : Write(t))
    BY <2>1 DEF Flush, Write, IInv, Objects
  <2>2. CASE RecoverEnd \/ Close \/ Crash
    BY <2>2 DEF RecoverEnd, Replayed, Close, Crash, IInv, Objects
  <2>3. CASE \E t \in Threads : CreateFails(t) \/ DeleteMeta(t)
    BY <2>3, ZenonT(30) DEF CreateFails, DeleteMeta, Without, Kept
  <2>4. CASE UNCHANGED objs
    BY <2>4, Zenon
  <2> QED
    BY <2>1, <2>2, <2>3, <2>4, Zenon
    DEF CreateJournal, CreateMarker, WriteMarker, Recover, OpenKeyspace, RemoveDir, Evict, vars
<1>2. \A i \in DOMAIN meta' : i \in DOMAIN meta /\ meta'[i] = meta[i]
  BY ZenonT(30) DEF CreateJournal, CreateMarker, WriteMarker, Recover, RecoverEnd, OpenKeyspace, CreateFails, Write,
         DeleteMeta, RemoveDir, Flush, Evict, Close, Crash, vars, disk, Without
<1>3. \A i \in DOMAIN dirs' : i \in DOMAIN dirs /\ dirs'[i].serial = dirs[i].serial
  <2>1. CASE Flush
    BY <2>1 DEF Flush, IInv, Folders
  <2>2. CASE \E t \in Threads : RemoveDir(t)
    BY <2>2, Zenon DEF RemoveDir, Without
  <2>3. CASE UNCHANGED dirs
    BY <2>3, Zenon
  <2> QED
    BY <2>1, <2>2, <2>3, Zenon
    DEF CreateJournal, CreateMarker, WriteMarker, Recover, RecoverEnd, OpenKeyspace, CreateFails, Write,
        DeleteMeta, Evict, Close, Crash, vars, disk
<1>4. hist'.made = hist.made
  BY Zenon DEF CreateJournal, CreateMarker, WriteMarker, Recover, RecoverEnd, OpenKeyspace, CreateFails, Write,
         DeleteMeta, RemoveDir, Flush, Evict, Close, Crash, vars, IInv, Shape
<1>5. \A t \in Threads : pc'[t].at = "tree" => pc'[t] = pc[t]
  BY SMTT(30) DEF CreateJournal, CreateMarker, WriteMarker, Recover, RecoverEnd, OpenKeyspace, CreateFails, Write,
         DeleteMeta, RemoveDir, Flush, Evict, Close, Crash, vars, Goto, Idle, IInv, Shape
<1> QED
  BY <1>1, <1>2, <1>3, <1>4, <1>5, OptionedFrame, Zenon

\* When what is stored of options can be read back, a keyspace comes back from any number of
\* recoveries with the options and tree configuration it was created with (encode_kvs, from_kvs).
THEOREM OptionsComeBack == ASSUME RoundTrip PROVE Spec => []OptionsSurvive
<1>1. Init => Optioned
  BY DEF Init, Optioned, Idle
<1>2. IInv /\ IInv' /\ Optioned /\ [Next]_vars => Optioned'
  BY RoundTrip, LetGoOptioned, RecoverDirOptioned, CreateDirOptioned, CreateTreeOptioned, CreateMetaOptioned,
     OtherOptioned DEF Next
<1>3. Optioned => OptionsSurvive
  BY Zenon DEF Optioned, OptionsSurvive
<1> QED
  BY <1>1, <1>2, <1>3, Inductive, PTL DEF Spec
=============================================================================
