----------------------------- MODULE SecureStore -----------------------------
(***************************************************************************)
(* Secure keyspaces (src/src/secure/): sessions, permissions and audit in  *)
(* front of versioned cells, directly or in transactions, over a keyspace  *)
(* whose compactions apply a retention policy.                             *)
(*                                                                         *)
(* The keyspace is its memtable and its tables, newest first, by encoded   *)
(* key.  A stored value is the number of the write that produced it, with  *)
(* the key it was encrypted for if encryption is on.                       *)
(***************************************************************************)
EXTENDS Visibility, CompositeKey, WriteTx, FiniteSetsExt

CONSTANTS
    Sessions,
    Early,        \* the sessions authenticated in the beginning
    Permissions,  \* per session: the permissions of its identity
    Labels,       \* per session: the labels the authorizor grants it
    Configs,      \* the ways the application opens the database, each with
                  \* bounds: inserts and deletes, tables, seconds on the clock,
                  \* failures of the audit sink, reads in a transaction
    Texts,        \* visibility texts tried on the expression type alone
    Cells(_),     \* the cells used when the visibility text is given
    Timestamps,
    Queries(_),   \* the prefixes and bounds used in scans
    Retention,    \* [max, ttl]: the retention policy
    None

VARIABLES
    conf,         \* how the database was opened: api, encrypted, audit
    text,         \* the visibility text the application uses
    codec,        \* what the encodings make of the versions used with it
    session,      \* per session: what authenticate returned, or None
    mem, tables,  \* the keyspace, by layer
    filter,       \* whether the tree has the retention filter
    clock,
    poisoned,
    lock,         \* holder of single_writer_lock, or None
    tx,           \* per session: its open transaction, or None
    committed,    \* the oracle: the keys written by each transaction committed
    purge,        \* the delete_versions_older_than in progress, or None
    failures,     \* of the audit sink
    count,        \* the inserts and deletes accepted so far
    ref,          \* history: per version ever changed, the write that produced
                  \* its value, or Deleted
    written,      \* history: the versions ever written
    changed,      \* history: per version, the operation that last changed it
    stale         \* history: a transaction committed on an outdated read

Deleted == 0

fixed == <<conf, text, codec>>
keyspace == <<mem, tables, filter, clock, poisoned>>
txs == <<lock, tx, committed>>
history == <<count, ref, written, changed, stale>>
vars == <<fixed, session, keyspace, txs, purge, failures, history>>

-----------------------------------------------------------------------------
(* Versions and their keys.                                                *)

\* as_bytes and from_utf8: characters are the bytes above the escape byte.
AsBytes(t) == [i \in DOMAIN t |-> t[i] + 1]
FromUtf8(bytes) == [i \in DOMAIN bytes |-> bytes[i] - 1]
IsUtf8(bytes) == \A i \in DOMAIN bytes : bytes[i] - 1 \in 1..9

Version(c, t) ==
    [row |-> c.row, family |-> c.family, qualifier |-> c.qualifier, visibility |-> c.visibility,
     timestamp |-> t]

CellFields(c) == <<c.row, c.family, c.qualifier, c.visibility>>

\* canonicalize_cell: writes require canonical visibility expressions.
Canonicalizes(v) ==
    /\ IsUtf8(v.visibility)
    /\ Parse(FromUtf8(v.visibility)).ok
    /\ Parse(FromUtf8(v.visibility)).canonical = FromUtf8(v.visibility)

\* is_visible.
IsVisible(bytes, auths) == Evaluate(Parse(FromUtf8(bytes)).expr, auths)

\* All of this for the versions and queries that go with a visibility text.
Codec(t) ==
    LET versions == {Version(c, ts) : c \in Cells(AsBytes(t)), ts \in Timestamps}
        keys == {Encode(v) : v \in versions}
        ranges == {q.fields : q \in Queries(AsBytes(t))} \cup {CellFields(v) : v \in versions}
    IN  [versions |-> versions,
         key |-> [v \in versions |-> Encode(v)],
         cell |-> [k \in keys |-> Decode(k)],
         order |-> InOrder(keys, LexLess),
         encodes |-> {v \in versions : Encodes(v)},
         canonical |-> {v \in versions : Canonicalizes(v)},
         under |-> [fields \in ranges |-> {k \in keys : InRange(k, PrefixRange(fields))}],
         sees |-> {<<s, v>> \in Sessions \X versions : IsVisible(v.visibility, Labels[s])}]

InKeyOrder(ks) == SelectSeq(codec.order, LAMBDA k : k \in ks)

\* maybe_encrypt_value and maybe_decrypt_entry: a ciphertext can be read back
\* for the key it was made for.
Encrypted(key, value) == [value |-> value, for |-> IF conf.encrypted THEN key ELSE <<>>]
Decrypted(key, stored) == IF conf.encrypted /\ stored.for # key THEN Absent ELSE stored.value

-----------------------------------------------------------------------------
(* Reading.                                                                *)

\* The whole keyspace.
Content == FoldLeft(LAMBDA acc, t : acc @@ t, mem, tables)

Includes(scan, t) ==
    /\ scan.min # {} => \A m \in scan.min : t >= m
    /\ scan.max # {} => \A m \in scan.max : t <= m
IsSatisfiedBy(scan, n) == \E m \in scan.limit : n >= m

\* scan_versioned_prefix: walk the range in key order, keep what fits the
\* bounds and the session may see, stop once the limit is reached.
ScanVersionedPrefix(store, s, q) ==
    LET step(acc, k) ==
            LET cell == codec.cell[k].key
                hit == Includes(q, cell.timestamp) /\ <<s, cell>> \in codec.sees
                entries == IF hit THEN Append(acc.entries, [cell |-> cell, value |-> Decrypted(k, store[k])])
                           ELSE acc.entries
            IN  IF acc.done THEN acc
                ELSE [entries |-> entries, done |-> IsSatisfiedBy(q, Len(entries))]
    IN  FoldLeft(step, [entries |-> <<>>, done |-> FALSE], InKeyOrder(Live(store) \cap codec.under[q.fields])).entries

\* get_version: one exact version, if visible.
GetVersion(store, s, v) ==
    LET stored == Lookup(store, codec.key[v])
    IN  IF <<s, v>> \notin codec.sees \/ stored = Absent THEN Absent ELSE Decrypted(codec.key[v], stored)

-----------------------------------------------------------------------------
(* Security providers.                                                     *)

\* AuditConfig::record: whether the caller goes on, and whether the event is
\* recorded.
AuditOutcomes ==
    {[ok |-> TRUE, recorded |-> conf.audit # "none"]} \cup
    (IF conf.audit = "none" \/ failures = conf.failures THEN {}
     ELSE {[ok |-> conf.audit = "best_effort", recorded |-> FALSE]})

Sink(o) == failures' = IF conf.audit # "none" /\ ~o.recorded THEN failures + 1 ELSE failures

\* SecurityProviders::authenticate: the session keeps the labels it was given.
Authenticate(s) ==
    /\ conf.api \notin {"expr", "raw"} /\ session[s] = None
    /\ \E o \in AuditOutcomes :
        /\ Sink(o)
        /\ session' = IF o.ok THEN [session EXCEPT ![s] = [auths |-> Labels[s]]] ELSE session
    /\ UNCHANGED <<fixed, keyspace, txs, purge, history>>

\* Mutant: deleting asks for no permission.
PermittedDelete(s, permission) == permission = "delete" \/ permission \in Permissions[s]

\* PermissionHandler::has_keyspace_permission.
Permitted(s, permission) == permission \in Permissions[s]

Operation(s, permission, v, recorded) ==
    [number |-> count + 1, by |-> s, permission |-> permission, version |-> v, recorded |-> recorded]

\* An operation of a session starts with check_keyspace_permission, which
\* records an event before the answer counts.  It goes on if it is permitted,
\* audited as far as required, and the cell has a canonical visibility and a
\* short enough key.
Accepted(s, permission, v, o) == Permitted(s, permission) /\ o.ok /\ v \in codec.canonical /\ v \in codec.encodes

-----------------------------------------------------------------------------
(* Writing.                                                                *)

\* The values by version after an operation.
RefAfter(r, op) ==
    (op.version :> IF op.permission = "write" THEN op.number ELSE Deleted) @@ r

\* A batch reaches the memtable; ops are the operations it stands for.
Apply(items, ops) ==
    /\ mem' = items @@ mem
    /\ ref' = FoldLeft(RefAfter, ref, ops)
    /\ written' = written \cup {op.version : op \in {p \in ToSet(ops) : p.permission = "write"}}
    /\ changed' = FoldLeft(LAMBDA c, op : (op.version :> op) @@ c, changed, ops)
    /\ UNCHANGED <<tables, filter, clock, poisoned>>

Stored(op) == IF op.permission = "write" THEN Encrypted(codec.key[op.version], op.number) ELSE Tomb

\* SecureKeyspace::insert_version and delete_version.
Change(s, permission, v) ==
    /\ conf.api = "plain" /\ session[s] # None /\ count < conf.writes
    /\ \E o \in AuditOutcomes :
        LET op == Operation(s, permission, v, o.recorded)
        IN  /\ Sink(o)
            /\ IF Accepted(s, permission, v, o) /\ ~poisoned
               THEN Apply(codec.key[v] :> Stored(op), <<op>>) /\ count' = count + 1
               ELSE UNCHANGED <<keyspace, count, ref, written, changed>>
    /\ UNCHANGED <<fixed, session, txs, purge, stale>>

-----------------------------------------------------------------------------
(* Transactions of a session.                                              *)

NewSecureTx(s) ==
    [base |-> NewTx(Content), auths |-> session[s].auths, reads |-> {}, since |-> Len(committed),
     looked |-> {}, seen |-> changed, from |-> ref, ops |-> <<>>]

\* Mutant: the snapshot is opened before the lock is held.
BeginUnlocked(s) ==
    /\ conf.api = "single" /\ session[s] # None /\ tx[s] = None
    /\ tx' = [tx EXCEPT ![s] = NewSecureTx(s)]
    /\ lock' = s
    /\ UNCHANGED <<fixed, session, keyspace, committed, purge, failures, history>>

\* TxDatabase::write_tx: the lock, then the snapshot.
BeginSingle(s) ==
    /\ conf.api = "single" /\ session[s] # None /\ tx[s] = None
    /\ lock = None /\ lock' = s
    /\ tx' = [tx EXCEPT ![s] = NewSecureTx(s)]
    /\ UNCHANGED <<fixed, session, keyspace, committed, purge, failures, history>>

\* OptimisticTxDatabase::write_tx: a snapshot.
BeginOptimistic(s) ==
    /\ conf.api = "optimistic" /\ session[s] # None /\ tx[s] = None
    /\ tx' = [tx EXCEPT ![s] = NewSecureTx(s)]
    /\ UNCHANGED <<fixed, session, keyspace, lock, committed, purge, failures, history>>

\* insert_version and delete_version in a transaction: into its memtable.
TxChange(s, permission, v) ==
    /\ tx[s] # None /\ count < conf.writes
    /\ \E o \in AuditOutcomes :
        LET op == Operation(s, permission, v, o.recorded)
            base == IF permission = "write" THEN TxInsert(tx[s].base, codec.key[v], Stored(op))
                    ELSE TxRemove(tx[s].base, codec.key[v])
        IN  /\ Sink(o)
            /\ IF Accepted(s, permission, v, o)
               THEN /\ tx' = [tx EXCEPT ![s].base = base, ![s].ops = Append(@, op)]
                    /\ count' = count + 1
               ELSE UNCHANGED <<tx, count>>
    /\ UNCHANGED <<fixed, session, keyspace, lock, committed, purge, ref, written, changed, stale>>

\* get_version in a transaction: the read is noted whether or not the session
\* may see the cell.
TxRead(s, v) ==
    /\ tx[s] # None /\ Cardinality(tx[s].looked) < conf.reads
    /\ \E o \in AuditOutcomes :
        /\ Sink(o)
        /\ tx' = IF Permitted(s, "read") /\ o.ok /\ v \in codec.encodes
                 THEN [tx EXCEPT ![s].reads = @ \cup {codec.key[v]}, ![s].looked = @ \cup {v}]
                 ELSE tx
    /\ UNCHANGED <<fixed, session, keyspace, lock, committed, purge, history>>

\* The versions a transaction read have been changed by others since.
Outdated(t) ==
    \E v \in t.looked :
        v \in DOMAIN changed /\ (v \notin DOMAIN t.seen \/ changed[v] # t.seen[v])

\* Mutant: the lock stays held.
ReleaseKeepsLock(s) ==
    /\ lock' = lock
    /\ tx' = [tx EXCEPT ![s] = None]

\* The transaction is dropped, and its lock guard with it.
Release(s) ==
    /\ lock' = IF lock = s THEN None ELSE lock
    /\ tx' = [tx EXCEPT ![s] = None]

\* WriteTransaction::commit: one batch, then the lock is dropped.
CommitSingle(s) ==
    /\ conf.api = "single" /\ tx[s] # None
    /\ IF tx[s].ops # <<>> /\ ~poisoned
       THEN /\ UNCHANGED count
            /\ Apply(CommitItems(tx[s].base), tx[s].ops)
            /\ stale' = (stale \/ Outdated(tx[s]))
       ELSE UNCHANGED <<keyspace, history>>
    /\ Release(s)
    /\ UNCHANGED <<fixed, session, committed, purge, failures>>

\* A transaction that committed since this one began wrote what it read.
Conflicts(t) ==
    \E i \in (t.since + 1)..Len(committed) : committed[i] \cap t.reads # {}

\* OptimisticTxDatabase's commit: with a conflict nothing happens.
CommitOptimistic(s) ==
    /\ conf.api = "optimistic" /\ tx[s] # None
    /\ IF tx[s].ops # <<>> /\ ~poisoned /\ ~Conflicts(tx[s])
       THEN /\ UNCHANGED count
            /\ Apply(CommitItems(tx[s].base), tx[s].ops)
            /\ committed' = Append(committed, DOMAIN CommitItems(tx[s].base))
            /\ stale' = (stale \/ Outdated(tx[s]))
       ELSE UNCHANGED <<keyspace, history, committed>>
    /\ Release(s)
    /\ UNCHANGED <<fixed, session, purge, failures>>

Rollback(s) ==
    /\ tx[s] # None
    /\ Release(s)
    /\ UNCHANGED <<fixed, session, keyspace, committed, purge, failures, history>>

-----------------------------------------------------------------------------
(* Versioned cells on a raw keyspace, without sessions.                    *)

\* VersionedCellKeyspaceExt::insert_version and delete_version.
RawChange(permission, v) ==
    /\ conf.api = "raw" /\ count < conf.writes
    /\ v \in codec.encodes /\ ~poisoned
    /\ Apply(codec.key[v] :> Stored(Operation(None, permission, v, FALSE)), <<Operation(None, permission, v, FALSE)>>)
    /\ count' = count + 1
    /\ UNCHANGED <<fixed, session, txs, purge, failures, stale>>

\* delete_versions_older_than, and delete_versions with a cutoff above all:
\* collect the keys ...
PurgeStart(c, cutoff) ==
    /\ conf.api = "raw" /\ purge = None
    /\ purge' = [keys |-> {k \in Live(Content) : /\ k \in codec.under[CellFields(c)]
                                                 /\ codec.cell[k].key.timestamp < cutoff},
                 cell |-> c, cutoff |-> cutoff]
    /\ UNCHANGED <<fixed, session, keyspace, txs, failures, history>>

\* ... then remove them one at a time, oldest last; others may write meanwhile.
PurgeStep ==
    /\ purge # None
    /\ IF purge.keys = {} \/ poisoned
       THEN purge' = None /\ UNCHANGED <<keyspace, ref>>
       ELSE LET k == CHOOSE k \in purge.keys : \A other \in purge.keys \ {k} : LexLess(k, other)
                old == {v \in DOMAIN ref : /\ [v EXCEPT !.timestamp = 0] = Version(purge.cell, 0)
                                           /\ v.timestamp < purge.cutoff}
            IN  /\ purge' = [purge EXCEPT !.keys = @ \ {k}]
                /\ mem' = (k :> Tomb) @@ mem
                /\ ref' = [v \in DOMAIN ref |-> IF v \in old /\ codec.key[v] = k THEN Deleted ELSE ref[v]]
                /\ UNCHANGED <<tables, filter, clock, poisoned>>
    /\ UNCHANGED <<fixed, session, txs, failures, count, written, changed, stale>>

-----------------------------------------------------------------------------
(* Flushes and compactions.                                                *)

Flush ==
    /\ mem # Empty /\ Len(tables) < conf.tables
    /\ tables' = <<mem>> \o tables
    /\ mem' = Empty
    /\ UNCHANGED <<fixed, session, filter, clock, poisoned, txs, purge, failures, history>>

\* SecureRetentionFilter::is_expired.
IsExpired(t) == Retention.ttl # {} /\ \A ttl \in Retention.ttl : t <= clock - ttl

\* Mutant: the count goes on from one version group to the next.
VerdictsUngrouped(keys) ==
    LET step(acc, k) ==
            LET v == codec.cell[k].key
                seen == acc.seen + 1
                remove == (\E max \in Retention.max : seen > max) \/ IsExpired(v.timestamp)
            IN  [group |-> acc.group, seen |-> seen, removed |-> IF remove THEN acc.removed \cup {k} ELSE acc.removed]
    IN  FoldLeft(step, [group |-> <<>>, seen |-> 0, removed |-> {}], keys).removed

\* filter_item over the items of a compaction, in key order: the versions of a
\* group are counted; one beyond the limit, or expired, is removed.
Verdicts(keys) ==
    LET step(acc, k) ==
            LET v == codec.cell[k].key
                group == <<v.row, v.family, v.qualifier, v.visibility>>
                seen == IF group = acc.group THEN acc.seen + 1 ELSE 1
                remove == (\E max \in Retention.max : seen > max) \/ IsExpired(v.timestamp)
            IN  [group |-> group, seen |-> seen, removed |-> IF remove THEN acc.removed \cup {k} ELSE acc.removed]
    IN  FoldLeft(step, [group |-> <<>>, seen |-> 0, removed |-> {}], keys).removed

\* What a compaction makes of the items it merged: removed ones become
\* tombstones, and the last level keeps none.
Compacted(merged, removed, last) ==
    LET kept == IF last THEN Live(merged) \ removed ELSE DOMAIN merged
    IN  [k \in kept |-> IF k \in removed THEN Tomb ELSE merged[k]]

\* A compaction of the tables from the i-th to the j-th.  Its deletions are
\* audited; when that fails and must not, the compaction fails and with it the
\* worker, which poisons the database.
Compact(i, j) ==
    /\ conf.api # "expr" /\ i <= j
    /\ \E o \in AuditOutcomes :
        LET merged == FoldLeft(LAMBDA acc, t : acc @@ t, Empty, SubSeq(tables, i, j))
            keys == InKeyOrder(Live(merged))
            removed == IF filter /\ conf.api # "raw" THEN Verdicts(keys) ELSE {}
            result == Compacted(merged, removed, j = Len(tables))
        IN  IF removed = {} \/ o.ok
            THEN /\ IF removed = {} THEN UNCHANGED failures ELSE Sink(o)
                 /\ tables' = SubSeq(tables, 1, i - 1) \o (IF result = Empty THEN <<>> ELSE <<result>>)
                              \o SubSeq(tables, j + 1, Len(tables))
                 /\ UNCHANGED poisoned
            ELSE Sink(o) /\ poisoned' = TRUE /\ UNCHANGED tables
    /\ UNCHANGED <<fixed, session, mem, filter, clock, txs, purge, history>>

Tick ==
    /\ conf.api \notin {"expr", "raw"} /\ clock < conf.seconds
    /\ clock' = clock + 1
    /\ UNCHANGED <<fixed, session, mem, tables, filter, poisoned, txs, purge, failures, history>>

\* The database is closed and opened again: raw_keyspace finds the keyspace
\* recovered, and the options with the filter are not used.
Reopen ==
    /\ conf.api # "expr" /\ filter
    /\ \A s \in Sessions : tx[s] = None
    /\ purge = None
    /\ filter' = FALSE /\ poisoned' = FALSE
    /\ committed' = <<>>
    /\ UNCHANGED <<fixed, session, mem, tables, clock, lock, tx, purge, failures, history>>

-----------------------------------------------------------------------------
Init ==
    /\ conf \in Configs
    /\ text \in (IF conf.api = "expr" THEN Texts ELSE conf.texts)
    /\ codec = Codec(text)
    /\ session = [s \in Sessions |-> IF s \in Early THEN [auths |-> Labels[s]] ELSE None]
    /\ mem = Empty /\ tables = <<>> /\ filter = (conf.api # "raw")
    /\ clock = 0 /\ poisoned = FALSE
    /\ lock = None /\ tx = [s \in Sessions |-> None] /\ committed = <<>>
    /\ purge = None /\ failures = 0
    /\ count = 0 /\ ref = Empty /\ written = {} /\ changed = Empty /\ stale = FALSE

Next ==
    \/ \E s \in Sessions :
        \/ Authenticate(s)
        \/ BeginSingle(s) \/ BeginOptimistic(s)
        \/ CommitSingle(s) \/ CommitOptimistic(s) \/ Rollback(s)
        \/ \E v \in codec.versions :
            \/ TxRead(s, v)
            \/ \E permission \in {"write", "delete"} : Change(s, permission, v) \/ TxChange(s, permission, v)
    \/ \E v \in codec.versions, permission \in {"write", "delete"} : RawChange(permission, v)
    \/ \E c \in Cells(AsBytes(text)), cutoff \in Timestamps \cup {Modulus \div 2} : PurgeStart(c, cutoff)
    \/ PurgeStep
    \/ Flush \/ (\E i, j \in DOMAIN tables : Compact(i, j)) \/ Tick \/ Reopen

Spec == Init /\ [][Next]_vars

-----------------------------------------------------------------------------
(* Properties.                                                             *)

\* The state keeps its type; every stored key decodes, and single_writer_lock is
\* held only by a session with a transaction.
TypeOK ==
    /\ conf \in Configs
    /\ text \in Texts \cup conf.texts
    /\ \A k \in DOMAIN Content : codec.cell[k].ok
    /\ Len(tables) <= conf.tables /\ clock \in 0..conf.seconds /\ failures \in 0..conf.failures
    /\ {filter, poisoned, stale} \subseteq BOOLEAN
    /\ lock \in Sessions \cup {None}
    /\ \A s \in Sessions : lock = s => tx[s] # None
    /\ ref \in [DOMAIN changed -> 0..count] /\ written \subseteq DOMAIN changed

RECURSIVE Mirrored(_)
Mirrored(e) == [e EXCEPT !.children = Reverse([i \in DOMAIN e.children |-> Mirrored(e.children[i])])]

LabelsOf(t) == {SubSeq(t, i, j) : i, j \in DOMAIN t} \cap {<<c>> : c \in LabelChar}

\* Canonicalizing an expression never changes who sees a cell: the normal form
\* evaluates as the expression that was written, its canonical text parses back
\* to it, and writing the operands in another order gives the same text, so
\* that equal visibilities share one version group.
VisibilityMeaning ==
    LET p == Parse(text)
        raw == IF text = <<>> THEN Public ELSE ParseOr(text).expr
    IN  conf.api = "expr" /\ p.ok =>
        /\ Parse(p.canonical) = p
        /\ Canonical(Normalized(Mirrored(raw))) = p.canonical
        /\ \A auths \in SUBSET LabelsOf(text) : Evaluate(p.expr, auths) = Evaluate(raw, auths)

\* The order of versions that the documentation of CompositeKey gives: fields
\* ascending, then timestamps descending.
VersionLess(v, w) ==
    \/ LexLess(v.row, w.row)
    \/ v.row = w.row /\ LexLess(v.family, w.family)
    \/ <<v.row, v.family>> = <<w.row, w.family>> /\ LexLess(v.qualifier, w.qualifier)
    \/ <<v.row, v.family, v.qualifier>> = <<w.row, w.family, w.qualifier>> /\ LexLess(v.visibility, w.visibility)
    \/ CellFields(v) = CellFields(w) /\ v.timestamp > w.timestamp

\* What a scan has to return of the versions in a reference.
Expected(r, kept, s, q) ==
    LET fit == {v \in kept : /\ \A i \in DOMAIN q.fields : CellFields(v)[i] = q.fields[i]
                             /\ Includes(q, v.timestamp)
                             /\ <<s, v>> \in codec.sees}
        order == InOrder(fit, VersionLess)
    IN  [i \in 1..Min({Len(order)} \cup q.limit) |-> [cell |-> order[i], value |-> r[order[i]]]]

\* The versions of a reference that no compaction has retired.
Kept(r, store) == {v \in DOMAIN r : r[v] # Deleted /\ Lookup(store, codec.key[v]) # Absent}

OwnRef(t) == FoldLeft(RefAfter, t.from, t.ops)

\* The byte order of the encoded keys, the prefix range and the filters answer
\* a read or a scan as the cells themselves would: everything under the prefix, nothing
\* of a neighbouring row, newest first, within the bounds, up to the limit,
\* and only what the session may see; in a transaction with its own writes.
ReadsExact ==
    LET exact(store, r) ==
            LET kept == Kept(r, store)
            IN  \A s \in Sessions :
                    /\ \A v \in codec.versions :
                        GetVersion(store, s, v)
                         = IF v \in kept /\ <<s, v>> \in codec.sees THEN r[v] ELSE Absent
                    /\ \A q \in Queries(AsBytes(text)) :
                        ScanVersionedPrefix(store, s, q) = Expected(r, kept, s, q)
    IN  conf.api # "expr" =>
        /\ exact(Content, ref)
        /\ \A s \in Sessions : tx[s] # None => exact(TxView(tx[s].base), OwnRef(tx[s]))

\* A version may go once it is expired, or once the limit of newer versions of
\* its group has been written.
Retired(v) ==
    LET newer == {w \in written : CellFields(w) = CellFields(v) /\ w.timestamp > v.timestamp}
    IN  conf.api # "raw" /\ (IsExpired(v.timestamp) \/ \E max \in Retention.max : Cardinality(newer) >= max)

\* Whatever tables a compaction happens to see, the retention filter removes
\* no version the policy keeps, a removed one never exposes an older value,
\* and nothing else is lost or comes back through flushes, compactions, purges
\* and reopening.
RetentionSound ==
    /\ \A v \in DOMAIN ref :
        LET stored == Lookup(Content, codec.key[v])
        IN  IF stored = Absent THEN ref[v] = Deleted \/ Retired(v) ELSE stored.value = ref[v]
    /\ \A k \in Live(Content) : codec.cell[k].key \in DOMAIN ref

\* Every change that reached the keyspace was made by a session permitted to
\* make it, through whatever transaction and however often the sink failed;
\* with a sink that fails closed, it was recorded before.
Mediated ==
    conf.api \notin {"raw", "expr"} =>
        \A v \in DOMAIN changed :
            LET op == changed[v]
            IN  /\ op.permission \in Permissions[op.by]
                /\ conf.audit = "fail_closed" => op.recorded

\* No transaction commits after another changed what it read: single-writer
\* transactions because their snapshot is opened under the lock, optimistic
\* ones because the read is noted even when the session may not see the cell.
CommittedReadsCurrent == ~stale
=============================================================================
