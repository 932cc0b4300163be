-------------------------------- MODULE Journal --------------------------------
(***************************************************************************)
(* The write-ahead journal, entry by entry: the writer                     *)
(* (src/src/journal/writer.rs), the reader that ends at the first entry it *)
(* cannot decode (reader.rs), the batch reader that only hands out whole   *)
(* batches (batch_reader.rs), and the choice of the active file at         *)
(* recovery (recovery.rs).  Writes may fail half way, and a crash may tear *)
(* or damage what was not persisted.                                       *)
(*                                                                         *)
(* A position in a file is a number of entries.  A new file is filled with *)
(* zeroes, which decode to no entry; a file opened again is appended to.   *)
(* The checksum of a batch is the sequence of entries hashed.              *)
(***************************************************************************)
EXTENDS Integers, Sequences, FiniteSetsExt

CONSTANTS
    MaxWrites,   \* bound on the write operations begun
    MaxItems,    \* bound on the items of a batch
    MaxFiles,    \* bound on the journal files
    MaxCrashes,  \* bound on the crashes
    MaxFailures  \* bound on the writes and flushes that fail

ASSUME JournalBounds ==
    {MaxWrites, MaxItems, MaxFiles, MaxCrashes, MaxFailures} \subseteq Nat /\ MaxFiles > 0

VARIABLES
    files,      \* the journal files, oldest first; the last is the active one
    append,     \* the active file was opened for appending
    flushed,    \* entries of the active file handed to the operating system
    synced,     \* entries of the active file on the disk
    op,         \* the write under way, or NoOp; it holds the journal mutex
    todo,       \* entries it has yet to write
    poisoned,   \* is_poisoned
    phase,      \* up, down, reading, or failed to recover
    rd,         \* the reader and the batch reader
    delivered,  \* batches handed out by the current recovery
    written,    \* history: batches written whole, in order, as far as a crash left them
    kept,       \* history: how many of them a process crash / a power loss must spare
    expect,     \* history: how many of them the last crash had to spare
    sound,      \* history: how many of them came before a write that failed half way
    damaged,    \* history: a crash damaged an entry instead of cutting the tail off
    begun, crashes, failures

file == <<files, append, flushed, synced>>
counts == <<begun, crashes, failures>>
history == <<written, kept, expect, sound, damaged>>
vars == <<file, op, todo, poisoned, phase, rd, delivered, history, counts>>

-----------------------------------------------------------------------------
\* Entry::encode_into and decode_from: tag and contents.  Nothing decodes Torn.
Start(n, s) == [tag |-> "start", count |-> n, seqno |-> s]
Item(s, i) == [tag |-> "item", seqno |-> s, at |-> i]
Clear(s) == [tag |-> "clear", seqno |-> s, at |-> 0]
End(sum) == [tag |-> "end", checksum |-> sum]
Torn == [tag |-> "torn"]
Garbled == Item(0, 0)

NoOp == [kind |-> "none", seqno |-> 0, items |-> <<>>]
NewFile == [entries |-> <<>>, padded |-> TRUE]
NewReader(f) ==
    [file |-> f, pos |-> 0, inBatch |-> FALSE, counter |-> 0, seqno |-> 0,
     items |-> <<>>, sum |-> <<>>, lastValid |-> 0]

Active == files[Len(files)]

\* Database::create_new, with Journal::create_new for the first file.
Init ==
    /\ files = <<NewFile>> /\ append = FALSE /\ flushed = 0 /\ synced = 0
    /\ op = NoOp /\ todo = <<>> /\ poisoned = FALSE
    /\ phase = "up" /\ rd = NewReader(1) /\ delivered = <<>>
    /\ written = <<>> /\ kept = [buffer |-> 0, sync |-> 0] /\ expect = 0
    /\ sound = MaxWrites /\ damaged = FALSE
    /\ begun = 0 /\ crashes = 0 /\ failures = 0

-----------------------------------------------------------------------------
\* The entries of a batch: a start with the item count, the items, and an end
\* with the checksum of the items.
Encoded(s, items) == <<Start(Len(items), s)>> \o items \o <<End(items)>>

\* What the three operations write: write_raw one item, write_clear one clear
\* marker, write_batch n items.
Payload(kind, s, n) == IF kind = "clear" THEN <<Clear(s)>> ELSE [i \in 1..n |-> Item(s, i)]

\* insert, remove, clear or a batch commit takes the journal mutex.
Begin(kind, n) ==
    /\ phase = "up" /\ op = NoOp /\ ~poisoned
    /\ begun < MaxWrites
    /\ op' = [kind |-> kind, seqno |-> begun + 1, items |-> Payload(kind, begun + 1, n)]
    /\ todo' = Encoded(begun + 1, Payload(kind, begun + 1, n))
    /\ begun' = begun + 1
    /\ UNCHANGED <<file, poisoned, phase, rd, delivered, history, crashes, failures>>

\* A file in append mode is written at its end, behind any zeroes it has.
Written(f, e) ==
    [entries |-> f.entries \o (IF append /\ f.padded THEN <<Torn, e>> ELSE <<e>>),
     padded |-> f.padded /\ ~append]

\* One write_all of write_raw, write_clear or write_batch.
WriteEntry ==
    /\ phase = "up" /\ todo # <<>>
    /\ files' = [files EXCEPT ![Len(files)] = Written(@, Head(todo))]
    /\ todo' = Tail(todo)
    /\ written' = IF Len(todo) = 1
                  THEN Append(written, [seqno |-> op.seqno, items |-> op.items]) ELSE written
    /\ UNCHANGED <<append, flushed, synced, op, poisoned, phase, rd, delivered, kept, expect, sound, damaged, counts>>

\* A write_all fails, with part of the entry in the file or none.  insert, remove
\* and clear return the error and do not poison; WriteBatch::commit ignores it.
WriteFails ==
    /\ phase = "up" /\ todo # <<>> /\ failures < MaxFailures
    /\ \/ files' = [files EXCEPT ![Len(files)] = Written(@, Torn)]
       \/ UNCHANGED files
    /\ todo' = <<>>
    /\ op' = IF op.kind = "batch" THEN op ELSE NoOp
    /\ sound' = Min({sound, Len(written)})
    /\ failures' = failures + 1
    /\ UNCHANGED <<append, flushed, synced, poisoned, phase, rd, delivered, written, kept, expect, damaged, begun, crashes>>

\* Writer::persist: flush the buffer, then sync if the mode says so.
Persisted(mode) ==
    /\ flushed' = IF mode = "none" THEN flushed ELSE Len(Active.entries)
    /\ synced' = IF mode = "sync" THEN Len(Active.entries) ELSE synced
    /\ kept' = [buffer |-> IF mode = "none" THEN kept.buffer ELSE Len(written),
                sync |-> IF mode = "sync" THEN Len(written) ELSE kept.sync]

\* The operation persists as its keyspace or batch is configured, and returns.
Finish(mode) ==
    /\ phase = "up" /\ op # NoOp /\ todo = <<>>
    /\ Persisted(mode)
    /\ op' = NoOp
    /\ UNCHANGED <<files, append, todo, poisoned, phase, rd, delivered, written, expect, sound, damaged, counts>>

\* Persisting fails: the database is poisoned and the operation returns an error.
FinishFails ==
    /\ phase = "up" /\ op # NoOp /\ todo = <<>> /\ failures < MaxFailures
    /\ poisoned' = TRUE /\ op' = NoOp
    /\ failures' = failures + 1
    /\ UNCHANGED <<file, todo, phase, rd, delivered, history, begun, crashes>>

\* Writer::rotate, under the journal mutex: sync, then go on in a new file.
Rotate ==
    /\ phase = "up" /\ op = NoOp /\ Len(files) < MaxFiles /\ Active.entries # <<>>
    /\ files' = Append(files, NewFile)
    /\ append' = FALSE /\ flushed' = 0 /\ synced' = 0
    /\ kept' = [buffer |-> Len(written), sync |-> Len(written)]
    /\ UNCHANGED <<op, todo, poisoned, phase, rd, delivered, written, expect, sound, damaged, counts>>

-----------------------------------------------------------------------------
\* What may be left of entries e of which the first safe are sure to survive:
\* a prefix, behind it a torn entry, or in the prefix one damaged entry.
Cut(e, n) == {SubSeq(e, 1, n)} \cup (IF n < Len(e) THEN {Append(SubSeq(e, 1, n), Torn)} ELSE {})
Damages(e, safe, n) ==
    {[SubSeq(e, 1, n) EXCEPT ![i] = d] : i \in {j \in (safe + 1)..n : e[j].tag = "item"}, d \in {Garbled, Torn}}

\* The process dies (what was flushed stays) or the power fails (what was synced stays).
Crash(kind) ==
    /\ phase \in {"up", "reading"} /\ crashes < MaxCrashes
    /\ LET safe == IF kind = "process" THEN flushed ELSE synced
           e == Active.entries
       IN  \E n \in safe..Len(e) :
             \/ /\ \E left \in Cut(e, n) : files' = [files EXCEPT ![Len(files)].entries = left]
                /\ UNCHANGED damaged
             \/ /\ kind = "power"
                /\ \E left \in Damages(e, safe, n) : files' = [files EXCEPT ![Len(files)].entries = left]
                /\ damaged' = TRUE
    /\ expect' = Min({sound, IF kind = "process" THEN kept.buffer ELSE kept.sync})
    /\ sound' = MaxWrites
    /\ flushed' = 0 /\ synced' = 0
    /\ op' = NoOp /\ todo' = <<>> /\ poisoned' = FALSE
    /\ phase' = "down" /\ delivered' = <<>> /\ rd' = NewReader(1)
    /\ kept' = [buffer |-> 0, sync |-> 0]
    /\ crashes' = crashes + 1
    /\ UNCHANGED <<append, written, begun, failures>>

\* recover_journals and the start of Database::recover: the file with the highest
\* number is the active one, it is opened for appending and synced.
Recover ==
    /\ phase = "down"
    /\ phase' = "reading"
    /\ append' = TRUE
    /\ flushed' = Len(Active.entries) /\ synced' = Len(Active.entries)
    /\ UNCHANGED <<files, op, todo, poisoned, rd, delivered, history, counts>>

\* The reader of a file is done and has cut it to its first n entries; go on with
\* the next file, or with the database open.
Close(n) ==
    LET f == files[rd.file]
        new == [entries |-> SubSeq(f.entries, 1, n), padded |-> FALSE]
        last == rd.file = Len(files)
    IN  /\ files' = [files EXCEPT ![rd.file] = new]
        /\ IF last
           THEN /\ phase' = "up" /\ UNCHANGED rd
                /\ flushed' = n /\ synced' = n
                /\ written' = delivered
                /\ kept' = [buffer |-> Len(delivered), sync |-> Len(delivered)]
           ELSE /\ rd' = NewReader(rd.file + 1)
                /\ UNCHANGED <<phase, flushed, synced, written, kept>>
        /\ UNCHANGED <<append, delivered>>

Step(new) == rd' = [new EXCEPT !.pos = @ + 1] /\ UNCHANGED <<file, phase, delivered, written, kept>>
Error == phase' = "failed" /\ UNCHANGED <<file, rd, delivered, written, kept>>
ReadFrame == UNCHANGED <<op, todo, poisoned, expect, sound, damaged, counts>>
AtEntry(tags) ==
    /\ phase = "reading"
    /\ rd.pos < Len(files[rd.file].entries)
    /\ files[rd.file].entries[rd.pos + 1].tag \in tags
Entry == files[rd.file].entries[rd.pos + 1]

\* Mutant: an unfinished batch at the end is not cut off.
ReadTailKeeps ==
    /\ phase = "reading"
    /\ rd.pos = Len(files[rd.file].entries) \/ AtEntry({"torn"})
    /\ Close(rd.pos)
    /\ ReadFrame

\* JournalReader::next finds nothing to decode and cuts the file there; on_close
\* cuts an unfinished batch off as well.
ReadTail ==
    /\ phase = "reading"
    /\ rd.pos = Len(files[rd.file].entries) \/ AtEntry({"torn"})
    /\ Close(IF rd.inBatch THEN rd.lastValid ELSE rd.pos)
    /\ ReadFrame

\* Mutant: a start inside a batch is taken as the start of the next one.
ReadStartNested ==
    /\ AtEntry({"start"})
    /\ Step([rd EXCEPT !.inBatch = TRUE, !.counter = Entry.count, !.seqno = Entry.seqno])
    /\ ReadFrame

\* Mutant: the reader does not leave a batch that a start interrupts.
ReadStartWaits ==
    /\ AtEntry({"start"}) /\ ~rd.inBatch
    /\ Step([rd EXCEPT !.inBatch = TRUE, !.counter = Entry.count, !.seqno = Entry.seqno])
    /\ ReadFrame

\* Entry::Start in JournalBatchReader::next.
ReadStart ==
    /\ AtEntry({"start"})
    /\ IF rd.inBatch
       THEN Close(rd.lastValid)
       ELSE Step([rd EXCEPT !.inBatch = TRUE, !.counter = Entry.count, !.seqno = Entry.seqno])
    /\ ReadFrame

\* Entry::Item and Entry::Clear.
ReadItem ==
    /\ AtEntry({"item", "clear"})
    /\ IF ~rd.inBatch THEN Close(rd.lastValid)
       ELSE IF rd.counter = 0 THEN Error
       ELSE Step([rd EXCEPT !.counter = @ - 1, !.items = Append(@, Entry), !.sum = Append(@, Entry)])
    /\ ReadFrame

Deliver ==
    /\ rd' = [rd EXCEPT !.inBatch = FALSE, !.counter = 0, !.items = <<>>, !.sum = <<>>,
                        !.pos = @ + 1, !.lastValid = rd.pos + 1]
    /\ delivered' = Append(delivered, [seqno |-> rd.seqno, items |-> rd.items])
    /\ UNCHANGED <<file, phase, written, kept>>

\* Mutant: the checksum is not compared.
ReadEndUnchecked ==
    /\ AtEntry({"end"})
    /\ IF rd.counter > 0 THEN Error
       ELSE IF ~rd.inBatch THEN Close(rd.lastValid)
       ELSE Deliver
    /\ ReadFrame

\* Entry::End: the counts and the checksum must agree, then the batch is handed out.
ReadEnd ==
    /\ AtEntry({"end"})
    /\ IF rd.counter > 0 THEN Error
       ELSE IF ~rd.inBatch THEN Close(rd.lastValid)
       ELSE IF rd.sum # Entry.checksum THEN Error
       ELSE Deliver
    /\ ReadFrame

Next ==
    \/ \E kind \in {"raw", "clear", "batch"} : \E n \in 1..MaxItems :
          (kind # "batch" => n = 1) /\ Begin(kind, n)
    \/ WriteEntry \/ WriteFails
    \/ \E mode \in {"none", "buffer", "sync"} : Finish(mode)
    \/ FinishFails \/ Rotate
    \/ \E kind \in {"process", "power"} : Crash(kind)
    \/ Recover \/ ReadTail \/ ReadStart \/ ReadItem \/ ReadEnd

Spec == Init /\ [][Next]_vars

\* The thread that recovers runs on; nothing obliges anyone to write.
FairSpec == Spec /\ WF_vars(Recover \/ ReadTail \/ ReadStart \/ ReadItem \/ ReadEnd)

-----------------------------------------------------------------------------
\* JournalBatchReader hands out only batches that were written whole, unchanged
\* and in order, whatever was torn, damaged or left half written; and no gap
\* among those persisted before any write failed half way.
ReadsWholeBatches ==
    /\ Range(delivered) \subseteq Range(written)
    /\ \A i, j \in DOMAIN delivered : i < j => delivered[i].seqno < delivered[j].seqno
    /\ \A i \in DOMAIN delivered : i <= expect => delivered[i] = written[i]

\* Whatever persist returned for, before any write failed half way, is read back
\* after every later crash: cutting a file never takes a persisted batch, and what
\* is appended after a recovery can be read by the next one.
PersistedReadBack == phase = "up" => Len(written) >= expect

\* A recovery fails only over an entry damaged in place; a torn or unfinished
\* tail is cut off without an error.
TailTolerated == phase = "failed" => damaged

\* Recovery comes to an end, in as many steps as it takes to read the files.
RecoveryEnds == phase = "down" ~> phase \in {"up", "failed"}
=============================================================================
