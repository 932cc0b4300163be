--------------------------- MODULE KeyspaceLifecycle ---------------------------
(***************************************************************************)
(* How a database and its keyspaces come into being, are deleted, and are  *)
(* found again: Database::create_new, recover, keyspace and               *)
(* delete_keyspace (src/src/db.rs), the meta keyspace that maps ids to     *)
(* names and options (src/src/meta_keyspace.rs), recover_keyspaces         *)
(* (src/src/recovery.rs), the removal of a deleted keyspace's folder when  *)
(* its last handle goes (Drop of KeyspaceInner, src/src/keyspace/mod.rs)   *)
(* and the lock file that every handle keeps (src/src/locked_file.rs).     *)
(* The process may stop between any two changes of the disk.               *)
(*                                                                         *)
(* A keyspace is given a serial number when its folder is made; the number *)
(* stands for the data written to it, so that data can be recognised       *)
(* wherever it turns up.  What of the journal is lost in a crash is the    *)
(* subject of Durability; here every accepted write is durable.            *)
(***************************************************************************)
EXTENDS Integers, Sequences

CONSTANTS Threads,        \* users of the database
          Names,          \* keyspace names
          Options,        \* the options keyspaces are created with
          Encode(_),      \* CreateOptions::encode_kvs, see KeyspaceOptions
          Decode(_),      \* CreateOptions::from_kvs
          TreeOf(_),      \* apply_to_base_config: what the tree is opened with
          MaxKeyspaces,   \* bound: keyspaces ever created
          MaxStops,       \* bound: crashes and orderly closes
          MaxFailures     \* bound: failed file operations in creating a keyspace

NoOne == "no one"

ASSUME ThreadsAssumption == NoOne \notin Threads

VARIABLES
    marker,    \* the version marker: none, empty (header not yet written), v3
    jnl,       \* does 0.jnl exist
    dirs,      \* folders under keyspaces/: id -> manifest?, data of its tables, serial
    meta,      \* the meta keyspace: id -> name and stored options
    log,       \* the journal: pairs of keyspace id and data
    phase,     \* down, creating, marking, recovering, up
    todo,      \* folders recovery still has to look at
    highest,   \* recovery's highest_id
    counter,   \* keyspace_id_counter
    dict,      \* supervisor.keyspaces: name -> id
    objs,      \* the live KeyspaceInner: id -> name, options, is_deleted, memtable, closed?
    lock,      \* the thread that holds the keyspaces write lock
    refs,      \* thread -> ids of the handles it holds
    pc,        \* thread -> where it is and the keyspace it works on
    refused,   \* did the last open fail for what it found on disk
    hist,      \* serials made, with their id and options; written; deleted; database made?
    budget     \* crashes, closes and failures so far

disk == <<marker, jnl, dirs, meta, log>>
opening == <<phase, todo, highest, refused>>
vars == <<disk, opening, counter, dict, objs, lock, refs, pc, hist, budget>>

Idle == [at |-> "idle"]
Made == Len(hist.made)
Registered(d) == {d[n] : n \in DOMAIN d}
Held(r) == (UNION {r[t] : t \in Threads}) \cup {pc[t].id : t \in {u \in Threads : pc[u].at = "meta"}}
\* KeyspaceInner lives as long as the dictionary, a user's handle or a running creation has it.
Kept(os, ids) == [i \in DOMAIN os \cap ids |-> os[i]]
Without(f, k) == [x \in DOMAIN f \ {k} |-> f[x]]
Put(f, k, v) == [x \in DOMAIN f \cup {k} |-> IF x = k THEN v ELSE f[x]]

\* Keyspace::create_new and from_database: a new KeyspaceInner.
Object(name, o) ==
    [name |-> name, opts |-> o, tree |-> TreeOf(o), deleted |-> FALSE, mem |-> {}, closed |-> FALSE]

Init ==
    /\ marker = "none" /\ jnl = FALSE /\ dirs = <<>> /\ meta = <<>> /\ log = {}
    /\ phase = "down" /\ todo = {} /\ highest = 1 /\ refused = FALSE
    /\ counter = 1 /\ dict = <<>> /\ objs = <<>> /\ lock = NoOne
    /\ refs = [t \in Threads |-> {}] /\ pc = [t \in Threads |-> Idle]
    /\ hist = [made |-> <<>>, written |-> {}, deleted |-> {}, ready |-> FALSE]
    /\ budget = [stops |-> 0, failures |-> 0]

-----------------------------------------------------------------------------
(* Opening a database.                                                     *)

\* Mutant: only the database holds the lock, not the handles.
LockOfDatabase == phase = "down"

\* LockedFileGuard: the lock is free once the database and every keyspace handle is gone.
LockFree == objs = <<>> /\ \A t \in Threads : pc[t].at # "clean"

\* create_or_recover finds no version marker: create_new takes the lock and makes the first journal,
\* which must not exist.
CreateJournal ==
    /\ phase = "down" /\ marker = "none" /\ LockFree
    /\ IF jnl THEN refused' = TRUE /\ UNCHANGED <<jnl, phase>>
       ELSE jnl' = TRUE /\ phase' = "creating" /\ refused' = FALSE
    /\ UNCHANGED <<marker, dirs, meta, log, todo, highest, counter, dict, objs, lock, refs, pc, hist, budget>>

\* ... then the marker, in two steps: the file, and the header in it.
CreateMarker ==
    /\ phase = "creating"
    /\ marker' = "empty" /\ phase' = "marking"
    /\ UNCHANGED <<jnl, dirs, meta, log, todo, highest, refused, counter, dict, objs, lock, refs, pc, hist, budget>>

\* Mutant: create_new returns with the header still unwritten.
WriteMarkerLater ==
    /\ phase = "marking"
    /\ phase' = "up" /\ counter' = 1 /\ hist' = [hist EXCEPT !.ready = TRUE]
    /\ UNCHANGED <<disk, todo, highest, refused, dict, objs, lock, refs, pc, budget>>

\* ... and opens the meta keyspace; ids start at 1.
WriteMarker ==
    /\ phase = "marking"
    /\ marker' = "v3" /\ phase' = "up" /\ counter' = 1 /\ hist' = [hist EXCEPT !.ready = TRUE]
    /\ UNCHANGED <<jnl, dirs, meta, log, todo, highest, refused, dict, objs, lock, refs, pc, budget>>

\* create_or_recover finds the marker: check_version, then the lock.
Recover ==
    /\ phase = "down" /\ marker # "none"
    /\ IF marker # "v3" THEN refused' = TRUE /\ UNCHANGED <<phase, todo, highest>>
       ELSE /\ LockFree
            /\ phase' = "recovering" /\ todo' = DOMAIN dirs /\ highest' = 1 /\ refused' = FALSE
    /\ UNCHANGED <<disk, counter, dict, objs, lock, refs, pc, hist, budget>>

\* One turn of recover_keyspaces, in whatever order the folders are listed: a folder
\* without a name, or without a manifest, is removed.
RecoverDir ==
    /\ phase = "recovering"
    /\ \E id \in todo :
        /\ todo' = todo \ {id}
        /\ highest' = IF id > highest THEN id ELSE highest
        /\ IF id \notin DOMAIN meta \/ ~dirs[id].manifest
           THEN dirs' = Without(dirs, id) /\ UNCHANGED <<dict, objs>>
           ELSE /\ dict' = Put(dict, meta[id].name, id)
                /\ objs' = Put(objs, id, Object(meta[id].name, Decode(meta[id].kvs)))
                /\ UNCHANGED dirs
    /\ UNCHANGED <<marker, jnl, meta, log, phase, refused, counter, lock, refs, pc, hist, budget>>

\* Mutant: the replay does not look which keyspace an item belongs to.
ReplayedEverywhere ==
    [i \in DOMAIN objs |-> [objs[i] EXCEPT !.mem = {e[2] : e \in {x \in log : x[1] \in DOMAIN meta}}]]

\* The journal is replayed into the keyspaces whose ids still have a name.
Replayed ==
    [i \in DOMAIN objs |->
        [objs[i] EXCEPT !.mem = {e[2] : e \in {x \in log : /\ x[1] \in DOMAIN meta
                                                           /\ meta[x[1]].name \in DOMAIN dict
                                                           /\ dict[meta[x[1]].name] = i}}]]

\* The end of recover.
RecoverEnd ==
    /\ phase = "recovering" /\ todo = {}
    /\ counter' = highest + 1
    /\ objs' = Replayed
    /\ phase' = "up" /\ highest' = 1
    /\ UNCHANGED <<disk, todo, refused, dict, lock, refs, pc, hist, budget>>

-----------------------------------------------------------------------------
(* Creating and opening a keyspace: raw_keyspace, under the write lock.    *)

At(t, place) == pc[t].at = place
Goto(t, p) == pc' = [pc EXCEPT ![t] = p]

\* The keyspace exists: another handle to it.
OpenKeyspace(t) ==
    /\ phase = "up" /\ At(t, "idle") /\ lock = NoOne
    /\ \E n \in DOMAIN dict : refs' = [refs EXCEPT ![t] = @ \cup {dict[n]}]
    /\ UNCHANGED <<disk, opening, counter, dict, objs, lock, pc, hist, budget>>

\* It does not: the next id, and a folder for it.
CreateDir(t) ==
    /\ phase = "up" /\ At(t, "idle") /\ lock = NoOne /\ Made < MaxKeyspaces
    /\ \E n \in Names \ DOMAIN dict, o \in Options :
        /\ lock' = t
        /\ counter' = counter + 1
        /\ dirs' = Put(dirs, counter, [manifest |-> FALSE, data |-> {}, serial |-> Made + 1])
        /\ hist' = [hist EXCEPT !.made = Append(@, [id |-> counter, opts |-> o])]
        /\ Goto(t, [at |-> "tree", id |-> counter, name |-> n, opts |-> o])
    /\ UNCHANGED <<marker, jnl, meta, log, opening, dict, objs, refs, budget>>

\* The tree is opened in the folder, which gives it its manifest.
CreateTree(t) ==
    /\ At(t, "tree")
    /\ LET p == pc[t] IN
        /\ dirs' = [dirs EXCEPT ![p.id].manifest = TRUE]
        /\ objs' = Put(objs, p.id, Object(p.name, p.opts))
        /\ Goto(t, [p EXCEPT !.at = "meta"])
    /\ UNCHANGED <<marker, jnl, meta, log, opening, counter, dict, lock, refs, hist, budget>>

\* MetaKeyspace::create_keyspace: name and options in one ingestion, then the dictionary.
CreateMeta(t) ==
    /\ At(t, "meta")
    /\ LET p == pc[t] IN
        /\ meta' = Put(meta, p.id, [name |-> p.name, kvs |-> Encode(objs[p.id].opts)])
        /\ dict' = Put(dict, p.name, p.id)
        /\ refs' = [refs EXCEPT ![t] = @ \cup {p.id}]
    /\ lock' = NoOne /\ Goto(t, Idle)
    /\ UNCHANGED <<marker, jnl, dirs, log, opening, counter, objs, hist, budget>>

\* A file operation fails: the error is returned and what was made stays behind.
CreateFails(t) ==
    /\ pc[t].at \in {"tree", "meta"} /\ budget.failures < MaxFailures
    /\ objs' = Without(objs, pc[t].id)
    /\ lock' = NoOne /\ Goto(t, Idle)
    /\ budget' = [budget EXCEPT !.failures = @ + 1]
    /\ UNCHANGED <<disk, opening, counter, dict, refs, hist>>

-----------------------------------------------------------------------------
(* Using, deleting and dropping handles.                                   *)

\* An insert through a handle is accepted unless the keyspace is marked deleted.
Write(t) ==
    /\ At(t, "idle")
    /\ \E id \in refs[t] :
        /\ ~objs[id].deleted /\ dirs[id].serial \notin hist.written
        /\ log' = log \cup {<<id, dirs[id].serial>>}
        /\ objs' = [objs EXCEPT ![id].mem = @ \cup {dirs[id].serial}]
        /\ hist' = [hist EXCEPT !.written = @ \cup {dirs[id].serial}]
    /\ UNCHANGED <<marker, jnl, dirs, meta, opening, counter, dict, lock, refs, pc, budget>>

\* A worker flushes the memtable of a keyspace.
Flush ==
    /\ phase = "up"
    /\ \E id \in DOMAIN objs :
        /\ objs[id].mem # {} /\ dirs[id].manifest
        /\ dirs' = [dirs EXCEPT ![id].data = @ \cup objs[id].mem]
        /\ objs' = [objs EXCEPT ![id].mem = {}]
    /\ UNCHANGED <<marker, jnl, meta, log, opening, counter, dict, lock, refs, pc, hist, budget>>

\* Mutant: the journal is removed when one keyspace has been flushed.
EvictEarly ==
    /\ phase = "up" /\ log # {}
    /\ \E e \in log : e[1] \in DOMAIN objs => objs[e[1]].deleted \/ objs[e[1]].mem = {}
    /\ log' = {}
    /\ UNCHANGED <<marker, jnl, dirs, meta, opening, counter, dict, objs, lock, refs, pc, hist, budget>>

\* Once nothing in it is needed, a journal is rotated away and removed.
Evict ==
    /\ phase = "up" /\ log # {}
    /\ \A e \in log : e[1] \in DOMAIN objs => objs[e[1]].deleted \/ objs[e[1]].mem = {}
    /\ log' = {}
    /\ UNCHANGED <<marker, jnl, dirs, meta, opening, counter, dict, objs, lock, refs, pc, hist, budget>>

\* Mutant: the name is only removed from the dictionary.
DeleteFromDictionary(t) ==
    /\ phase = "up" /\ At(t, "idle") /\ lock = NoOne
    /\ \E id \in refs[t] :
        /\ Goto(t, [at |-> "mark", id |-> id])
        /\ dict' = [n \in DOMAIN dict \ {objs[id].name} |-> dict[n]]
        /\ objs' = Kept(objs, Registered(dict') \cup Held(refs))
    /\ UNCHANGED <<disk, opening, counter, lock, refs, hist, budget>>

\* delete_keyspace, first half: remove_keyspace, by the name of the handle.
DeleteMeta(t) ==
    /\ phase = "up" /\ At(t, "idle") /\ lock = NoOne
    /\ \E id \in refs[t] :
        /\ Goto(t, [at |-> "mark", id |-> id])
        /\ IF objs[id].name \in DOMAIN dict
           THEN LET gone == dict[objs[id].name] IN
                /\ meta' = Without(meta, gone)
                /\ dict' = Without(dict, objs[id].name)
                /\ objs' = Kept(objs, Registered(dict') \cup Held(refs))
                /\ hist' = [hist EXCEPT !.deleted = @ \cup {dirs[gone].serial}]
           ELSE UNCHANGED <<meta, dict, objs, hist>>
    /\ UNCHANGED <<marker, jnl, dirs, log, opening, counter, lock, refs, budget>>

\* Mutant: the first handle to go takes the keyspace with it.
LetGoFirst(t, id, os) ==
    /\ refs' = [refs EXCEPT ![t] = @ \ {id}]
    /\ objs' = Without(os, id)
    /\ UNCHANGED dirs /\ Goto(t, Idle)

\* Drop of KeyspaceInner, when thread t lets go of its handle to id.
LetGo(t, id, os) ==
    /\ refs' = [refs EXCEPT ![t] = @ \ {id}]
    /\ objs' = Kept(os, Registered(dict) \cup Held(refs'))
    /\ IF id \notin DOMAIN objs' /\ os[id].deleted /\ dirs[id].manifest
       THEN dirs' = [dirs EXCEPT ![id].manifest = FALSE] /\ Goto(t, [at |-> "clean", id |-> id])
       ELSE UNCHANGED dirs /\ Goto(t, Idle)

\* delete_keyspace, second half: the handle is marked and dropped.
MarkDeleted(t) ==
    /\ At(t, "mark")
    /\ LetGo(t, pc[t].id, [objs EXCEPT ![pc[t].id].deleted = TRUE])
    /\ UNCHANGED <<marker, jnl, meta, log, opening, counter, dict, lock, hist, budget>>

DropHandle(t) ==
    /\ At(t, "idle")
    /\ \E id \in refs[t] : LetGo(t, id, objs)
    /\ UNCHANGED <<marker, jnl, meta, log, opening, counter, dict, lock, hist, budget>>

\* The manifest is gone, the folder follows.
RemoveDir(t) ==
    /\ At(t, "clean")
    /\ dirs' = Without(dirs, pc[t].id) /\ Goto(t, Idle)
    /\ UNCHANGED <<marker, jnl, meta, log, opening, counter, dict, objs, lock, refs, hist, budget>>

-----------------------------------------------------------------------------
\* The Database is dropped: the dictionary is cleared, but handles that users keep live on.
Close ==
    /\ phase = "up" /\ budget.stops < MaxStops
    /\ \A t \in Threads : pc[t].at \in {"idle", "clean"}
    /\ phase' = "down" /\ dict' = <<>>
    /\ objs' = [i \in DOMAIN objs \cap Held(refs) |-> [objs[i] EXCEPT !.closed = TRUE]]
    /\ budget' = [budget EXCEPT !.stops = @ + 1]
    /\ UNCHANGED <<disk, todo, highest, refused, counter, lock, refs, pc, hist>>

Crash ==
    /\ phase # "down" /\ budget.stops < MaxStops
    /\ phase' = "down" /\ todo' = {} /\ highest' = 1 /\ dict' = <<>> /\ objs' = <<>> /\ lock' = NoOne
    /\ refs' = [t \in Threads |-> {}] /\ pc' = [t \in Threads |-> Idle]
    /\ budget' = [budget EXCEPT !.stops = @ + 1]
    /\ UNCHANGED <<disk, refused, counter, hist>>

Next ==
    \/ CreateJournal \/ CreateMarker \/ WriteMarker
    \/ Recover \/ RecoverDir \/ RecoverEnd
    \/ \E t \in Threads :
        \/ OpenKeyspace(t) \/ CreateDir(t) \/ CreateTree(t) \/ CreateMeta(t) \/ CreateFails(t)
        \/ Write(t) \/ DeleteMeta(t) \/ MarkDeleted(t) \/ DropHandle(t) \/ RemoveDir(t)
    \/ Flush \/ Evict \/ Close \/ Crash

Spec == Init /\ [][Next]_vars

-----------------------------------------------------------------------------
\* The state keeps its type; every keyspace registered, or held by a handle, has
\* its object.
TypeOK ==
    /\ marker \in {"none", "empty", "v3"} /\ jnl \in BOOLEAN /\ refused \in BOOLEAN
    /\ phase \in {"down", "creating", "marking", "recovering", "up"}
    /\ \A i \in DOMAIN dirs : dirs[i].manifest \in BOOLEAN /\ dirs[i].data \subseteq 1..Made
    /\ DOMAIN meta \subseteq 1..counter /\ todo \subseteq DOMAIN dirs
    /\ DOMAIN dict \subseteq Names
    /\ Registered(dict) \cup Held(refs) \subseteq DOMAIN objs
    /\ lock \in Threads \cup {NoOne}

\* What keyspace id holds, in its tables and its memtable.
Contents(id) == dirs[id].data \cup objs[id].mem

\* While the database is open the dictionary and the meta keyspace name the same
\* keyspaces with the same ids, and each has its folder, its manifest and a live
\* object: after any crash, failed creation or deletion (create_keyspace,
\* remove_keyspace, recover_keyspaces).
MetaMatchesDictionary ==
    phase = "up" =>
        /\ Registered(dict) = DOMAIN meta
        /\ \A n \in DOMAIN dict :
            /\ meta[dict[n]].name = n /\ objs[dict[n]].name = n
            /\ dict[n] \in DOMAIN dirs /\ dirs[dict[n]].manifest
            /\ ~objs[dict[n]].closed

\* Data accepted by a keyspace is in that keyspace, under its own id, until
\* a keyspace of that name is deleted: no crash, no reuse of an id, no clean-up of folders
\* and no removal of a journal loses it (keyspace_id_counter, Drop of KeyspaceInner).
DataKept ==
    phase = "up" =>
        \A s \in hist.written \ hist.deleted :
            LET id == hist.made[s].id
            IN  id \in Registered(dict) /\ dirs[id].serial = s /\ s \in Contents(id)

\* Data never appears under an id other than the one it was written to: what the
\* journal holds for a keyspace is replayed into the keyspace that has its id.
OwnId == \A id \in DOMAIN objs : \A s \in Contents(id) : hist.made[s].id = id

\* A keyspace comes back from recovery with the options it was created with, and its
\* tree is opened with the same configuration (encode_kvs, from_kvs).
OptionsSurvive ==
    \A id \in DOMAIN objs :
        LET o == hist.made[dirs[id].serial].opts
        IN  objs[id].opts = o /\ objs[id].tree = TreeOf(o)

\* A database is never recovered or open while a handle of an earlier opening is
\* alive, or the folder of one is still being removed (every KeyspaceInner holds lock_file).
ExclusiveAccess ==
    phase # "down" => \A id \in DOMAIN objs : ~objs[id].closed

\* Once a database has been created, no crash makes it refuse to open again
\* (create_or_recover, check_version).
OpensAgain == hist.ready => ~refused

\* A keyspace holds only what was written to it: deleting a keyspace removes all
\* data associated with it (delete_keyspace).
DeletedDataGone == \A id \in DOMAIN objs : Contents(id) \subseteq {dirs[id].serial}
=============================================================================
