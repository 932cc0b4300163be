---------------------------- MODULE JournalProofs ----------------------------
(***************************************************************************)
(* What is read back from the journal after a crash: only whole batches,   *)
(* in order, none missing among those persisted, and an error only over a  *)
(* damaged entry.  For any number of writes, items, files, crashes and     *)
(* failures.                                                               *)
(***************************************************************************)
EXTENDS Journal, TLAPS

-----------------------------------------------------------------------------
\* What a journal file holds.
ItemEntry == [tag : {"item", "clear"}, seqno : Nat, at : Nat]
StartEntry == [tag : {"start"}, count : Nat, seqno : Nat]
EndEntry == [tag : {"end"}, checksum : Seq(ItemEntry)]
Entries == ItemEntry \cup StartEntry \cup EndEntry \cup {Torn}
Batch == [seqno : Nat, items : Seq(ItemEntry)]

\* A whole batch lies at the places q to x.
Whole(e, q, x) ==
    /\ e[q].tag = "start" /\ e[x].tag = "end" /\ x = q + e[q].count + 1
    /\ Len(e[x].checksum) = e[q].count
    /\ \A j \in 1..e[q].count : e[q + j] \in ItemEntry /\ e[q + j] = e[x].checksum[j]

\* The first b entries are whole batches, one after the other.
Clean(e, b) == \A r \in 1..b : \E q \in 1..r : \E x \in r..b : Whole(e, q, x)

\* What the writer leaves behind, whatever write failed: items follow the start that
\* announces them, and an end closes a whole batch.
Grammar(e) ==
    \A p \in 1..Len(e) :
        /\ e[p].tag \in {"item", "clear"} =>
              \E q \in 1..(p - 1) : /\ e[q].tag = "start" /\ p - q <= e[q].count
                                    /\ \A j \in (q + 1)..p : e[j].tag \in {"item", "clear"}
        /\ e[p].tag = "end" => \E q \in 1..(p - 1) : Whole(e, q, p)

\* The item behind a start has the batch's number, unless it was damaged.
Paired(e) ==
    \A p \in 1..(Len(e) - 1) :
        e[p].tag = "start" /\ e[p + 1].tag \in {"item", "clear"} => e[p + 1].seqno \in {0, e[p].seqno}

Ent(f) == files[f].entries
IsEnd(f, p) == f \in 1..Len(files) /\ p \in 1..Len(Ent(f)) /\ Ent(f)[p].tag = "end"
Sum(f, p) == Ent(f)[p].checksum
Before(f, p, g, q) == f < g \/ (f = g /\ p < q)

-----------------------------------------------------------------------------
FileShape == files \in Seq([entries : Seq(Entries), padded : BOOLEAN]) /\ files # <<>>
WriterShape ==
    /\ op \in [kind : {"none", "raw", "clear", "batch"}, seqno : Nat, items : Seq(ItemEntry)]
    /\ todo \in Seq(Entries)
    /\ flushed \in Nat /\ synced \in Nat
ReaderShape ==
    /\ DOMAIN rd = {"file", "pos", "inBatch", "counter", "seqno", "items", "sum", "lastValid"}
    /\ rd.file \in Nat /\ rd.pos \in Nat /\ rd.inBatch \in BOOLEAN /\ rd.counter \in Nat
    /\ rd.seqno \in Nat /\ rd.items \in Seq(ItemEntry) /\ rd.lastValid \in Nat
HistoryShape ==
    /\ written \in Seq(Batch) /\ delivered \in Seq(Batch)
    /\ kept \in [buffer : Nat, sync : Nat] /\ expect \in Nat /\ sound \in Nat /\ begun \in Nat
    /\ damaged \in BOOLEAN

Files == \A f \in 1..Len(files) : Paired(Ent(f)) /\ (~damaged => Grammar(Ent(f)))

\* Every end closes a batch that was written, and they are in order.
EndsWritten == \A f, p : IsEnd(f, p) => \E i \in 1..Len(written) : written[i].items = Sum(f, p)
EndsOrdered ==
    \A f, p, g, q : IsEnd(f, p) /\ IsEnd(g, q) /\ Before(f, p, g, q) => Sum(f, p)[1].seqno < Sum(g, q)[1].seqno

\* Batches have items, which carry the number.
IsBatch(b) == Len(b.items) >= 1 /\ b.seqno = b.items[1].seqno /\ b.seqno \in 1..begun
Batches ==
    /\ \A i \in 1..Len(written) : IsBatch(written[i])
    /\ \A i, j \in 1..Len(written) : i < j => written[i].seqno < written[j].seqno

\* The entry at place j of the batch under way.
PartOf(o, j) ==
    IF j = 1 THEN Start(Len(o.items), o.seqno)
    ELSE IF j = Len(o.items) + 2 THEN End(o.items) ELSE o.items[j - 1]
\* How much of it is in the file.
Done(o, t) == Len(o.items) + 2 - Len(t)
Pending ==
    todo # <<>> =>
        /\ phase = "up" /\ op.seqno \in 1..begun /\ Len(op.items) >= 1 /\ Len(todo) <= Len(op.items) + 2
        /\ \A j \in 1..Len(op.items) : op.items[j].seqno = op.seqno
        /\ \A i \in 1..Len(written) : written[i].seqno < op.seqno
        /\ \A j \in 1..Len(todo) : todo[j] = PartOf(op, Done(op, todo) + j)
        /\ Done(op, todo) <= Len(Active.entries)
        /\ \A j \in 1..Done(op, todo) :
              Active.entries[Len(Active.entries) - Done(op, todo) + j] = PartOf(op, j)

\* The entries of the active file before the batch under way.
Base == IF todo = <<>> THEN Len(Active.entries) ELSE Len(Active.entries) - Done(op, todo)
Tidy ==
    /\ \A f \in 1..(Len(files) - 1) : Clean(Ent(f), Len(Ent(f)))
    /\ Clean(Active.entries, Base)

\* Before any write failed half way every batch is where it can be read back, and
\* what was persisted is where the next crash does not reach.
Up ==
    /\ append => ~Active.padded
    /\ sound > Len(written) => Tidy
    /\ kept.buffer <= Len(written) /\ kept.sync <= Len(written)
    /\ Len(written) >= expect
    /\ \A i \in 1..Len(written) : i <= sound =>
         \E f, p :
            /\ IsEnd(f, p) /\ Sum(f, p) = written[i].items /\ Clean(Ent(f), p)
            /\ i <= kept.buffer => f < Len(files) \/ p <= flushed
            /\ i <= kept.sync => f < Len(files) \/ p <= synced

\* The batch reader stands behind a whole batch or inside one, which it has followed.
Reader ==
    LET e == Ent(rd.file)
    IN  /\ rd.file \in 1..Len(files) /\ rd.pos <= Len(e) /\ rd.sum = rd.items
        /\ rd.lastValid = 0 \/ e[rd.lastValid].tag = "end"
        /\ ~rd.inBatch => rd.items = <<>> /\ rd.counter = 0 /\ rd.lastValid = rd.pos
        /\ rd.inBatch => /\ rd.pos = rd.lastValid + 1 + Len(rd.items)
                         /\ e[rd.lastValid + 1].tag = "start"
                         /\ e[rd.lastValid + 1].count = rd.counter + Len(rd.items)
                         /\ e[rd.lastValid + 1].seqno = rd.seqno
                         /\ \A j \in 1..Len(rd.items) : e[rd.lastValid + 1 + j] = rd.items[j]

\* The ends that the reader has passed.
Passed(f, p) == f < rd.file \/ (f = rd.file /\ p <= rd.lastValid)
ReadSoFar ==
    /\ \A f \in 1..(rd.file - 1) : Clean(Ent(f), Len(Ent(f)))
    /\ Clean(Ent(rd.file), rd.lastValid)
    /\ \A f, p : IsEnd(f, p) /\ Passed(f, p) => \E i \in 1..Len(delivered) : delivered[i].items = Sum(f, p)
    /\ \A i \in 1..Len(delivered) :
          \E f, p : IsEnd(f, p) /\ Passed(f, p) /\ Sum(f, p) = delivered[i].items /\ Clean(Ent(f), p)
\* What has to be read back and was not is still ahead, and can be read.
Ahead ==
    \A i \in 1..Len(written) : Len(delivered) < i /\ i <= expect =>
        \E f, p : IsEnd(f, p) /\ ~Passed(f, p) /\ Sum(f, p) = written[i].items /\ Clean(Ent(f), p)
Reading ==
    /\ Reader /\ ReadSoFar /\ Ahead
    /\ todo = <<>> /\ kept.buffer = 0 /\ kept.sync = 0 /\ expect <= Len(written)

\* What was handed out.
Handed ==
    /\ \A i \in 1..Len(delivered) : \E j \in 1..Len(written) : delivered[i] = written[j]
    /\ \A i \in 1..Len(delivered) : i <= expect => i <= Len(written) /\ delivered[i] = written[i]
    /\ \A i, j \in 1..Len(delivered) : i < j => delivered[i].seqno < delivered[j].seqno

IInv ==
    /\ FileShape /\ WriterShape /\ ReaderShape /\ HistoryShape
    /\ Files /\ EndsWritten /\ EndsOrdered /\ Batches /\ Pending /\ Handed
    /\ phase \in {"up", "down", "reading", "failed"}
    /\ phase = "up" => Up
    /\ phase \in {"down", "reading"} => Reading
    /\ phase = "failed" => damaged

-----------------------------------------------------------------------------
\* Entries by their tag.
LEMMA EntryKinds ==
  /\ \A x \in Entries : /\ x.tag \in {"item", "clear"} <=> x \in ItemEntry
                        /\ x.tag = "start" => x.count \in Nat /\ x.seqno \in Nat
                        /\ x.tag = "end" => x.checksum \in Seq(ItemEntry)
  /\ \A x \in ItemEntry : x.tag \in {"item", "clear"} /\ x.seqno \in Nat /\ x \in Entries
  /\ Torn \in Entries /\ Torn.tag = "torn" /\ Garbled \in ItemEntry /\ Garbled.seqno = 0
  BY DEF Entries, ItemEntry, StartEntry, EndEntry, Torn, Garbled, Item

\* Sequences with the same elements.
LEMMA SameSeq ==
  ASSUME NEW S, NEW s \in Seq(S), NEW t \in Seq(S), Len(s) = Len(t), \A j \in 1..Len(s) : s[j] = t[j]
  PROVE  s = t
  OBVIOUS

\* A whole batch lies within what two files share.
LEMMA WholeSame ==
  ASSUME NEW e \in Seq(Entries), NEW d, NEW q \in 1..Len(e), NEW x \in 1..Len(e), Whole(e, q, x),
         \A j \in 1..x : d[j] = e[j]
  PROVE  Whole(d, q, x) /\ q < x
<1>1. e[q] \in Entries /\ e[q].tag = "start"
  BY DEF Whole
<1>2. PICK n : n = e[q].count
  OBVIOUS
<1>3. n \in Nat
  BY <1>1, <1>2, EntryKinds, Zenon
<1>4. x = q + n + 1 /\ \A j \in 1..n : e[q + j] \in ItemEntry /\ e[q + j] = e[x].checksum[j]
  BY <1>2, Zenon DEF Whole
<1>5. q < x /\ q \in 1..x /\ x \in 1..x /\ \A j \in 1..n : q + j \in 1..x
  BY <1>3, <1>4
<1>6. d[q] = e[q] /\ d[x] = e[x] /\ \A j \in 1..n : d[q + j] = e[q + j]
  BY <1>5, Zenon
<1> QED
  BY <1>2, <1>4, <1>5, <1>6, Zenon DEF Whole

\* A file that shares whole batches with another begins with whole batches too.
LEMMA CleanSame ==
  ASSUME NEW e \in Seq(Entries), NEW d, NEW b \in 0..Len(e), Clean(e, b), \A j \in 1..b : d[j] = e[j]
  PROVE  Clean(d, b)
<1> SUFFICES ASSUME NEW r \in 1..b PROVE \E q \in 1..r : \E x \in r..b : Whole(d, q, x)
  BY Zenon DEF Clean
<1>1. PICK q \in 1..r, x \in r..b : Whole(e, q, x)
  BY Zenon DEF Clean
<1>2. q \in 1..Len(e) /\ x \in 1..Len(e) /\ \A j \in 1..x : j \in 1..b
  OBVIOUS
<1>3. \A j \in 1..x : d[j] = e[j]
  BY <1>2, Zenon
<1>4. Whole(d, q, x)
  BY <1>1, <1>2, <1>3, WholeSame, Zenon
<1> QED
  BY <1>4, Zenon

\* One more whole batch.
LEMMA CleanGrows ==
  ASSUME NEW e, NEW b \in Nat, NEW x \in Nat, b < x, Clean(e, b), Whole(e, b + 1, x)
  PROVE  Clean(e, x)
<1> SUFFICES ASSUME NEW r \in 1..x PROVE \E q \in 1..r : \E y \in r..x : Whole(e, q, y)
  BY Zenon DEF Clean
<1>1. CASE r <= b
  <2>1. r \in 1..b
    BY <1>1
  <2>2. PICK q \in 1..r, y \in r..b : Whole(e, q, y)
    BY <2>1, Zenon DEF Clean
  <2>3. y \in r..x
    OBVIOUS
  <2> QED
    BY <2>2, <2>3, Zenon
<1>2. CASE r > b
  <2>1. b + 1 \in 1..r /\ x \in r..x
    BY <1>2
  <2> QED
    BY <2>1, Zenon
<1> QED
  BY <1>1, <1>2

\* What is left of a file when it is cut.
LEMMA CutFile ==
  ASSUME NEW e \in Seq(Entries), NEW d \in Seq(Entries), Len(d) <= Len(e), \A j \in 1..Len(d) : d[j] = e[j]
  PROVE  (Grammar(e) => Grammar(d)) /\ (Paired(e) => Paired(d))
<1>1. ASSUME Grammar(e) PROVE Grammar(d)
  <2> SUFFICES ASSUME NEW p \in 1..Len(d)
               PROVE  /\ d[p].tag \in {"item", "clear"} =>
                            \E q \in 1..(p - 1) : /\ d[q].tag = "start" /\ p - q <= d[q].count
                                                  /\ \A j \in (q + 1)..p : d[j].tag \in {"item", "clear"}
                      /\ d[p].tag = "end" => \E q \in 1..(p - 1) : Whole(d, q, p)
    BY Zenon DEF Grammar
  <2>1. p \in 1..Len(e) /\ d[p] = e[p] /\ \A j \in 1..p : j \in 1..Len(d) /\ d[j] = e[j]
    OBVIOUS
  <2>2. CASE d[p].tag \in {"item", "clear"}
    <3>1. PICK q \in 1..(p - 1) : /\ e[q].tag = "start" /\ p - q <= e[q].count
                                  /\ \A j \in (q + 1)..p : e[j].tag \in {"item", "clear"}
      BY <1>1, <2>1, <2>2, Zenon DEF Grammar
    <3>2. q \in 1..p /\ \A j \in (q + 1)..p : j \in 1..p
      OBVIOUS
    <3>3. d[q] = e[q] /\ \A j \in (q + 1)..p : d[j] = e[j]
      BY <2>1, <3>2, Zenon
    <3>4. /\ d[q].tag = "start" /\ p - q <= d[q].count
          /\ \A j \in (q + 1)..p : d[j].tag \in {"item", "clear"}
      BY <3>1, <3>3, Zenon
    <3>5. d[p].tag # "end"
      BY <2>2
    <3> QED
      BY <3>4, <3>5, Zenon
  <2>3. CASE d[p].tag = "end"
    <3>1. PICK q \in 1..(p - 1) : Whole(e, q, p)
      BY <1>1, <2>1, <2>3, Zenon DEF Grammar
    <3>2. q \in 1..Len(e)
      BY <2>1
    <3>3. Whole(d, q, p)
      BY <2>1, <3>1, <3>2, WholeSame, Zenon
    <3>4. d[p].tag \notin {"item", "clear"}
      BY <2>3
    <3> QED
      BY <3>3, <3>4, Zenon
  <2> QED
    BY <2>2, <2>3
<1>2. ASSUME Paired(e) PROVE Paired(d)
  <2> SUFFICES ASSUME NEW p \in 1..(Len(d) - 1), d[p].tag = "start", d[p + 1].tag \in {"item", "clear"}
               PROVE  d[p + 1].seqno \in {0, d[p].seqno}
    BY Zenon DEF Paired
  <2>1. p \in 1..(Len(e) - 1) /\ d[p] = e[p] /\ d[p + 1] = e[p + 1]
    OBVIOUS
  <2> QED
    BY <1>2, <2>1, Zenon DEF Paired
<1> QED
  BY <1>1, <1>2

\* One more entry in a file.
\* An entry z that may stand behind the first n of a file.
Fits(d, n, z) ==
    /\ z.tag \in {"item", "clear"} =>
          \E q \in 1..n : /\ d[q].tag = "start" /\ n + 1 - q <= d[q].count
                          /\ \A j \in (q + 1)..(n + 1) : d[j].tag \in {"item", "clear"}
    /\ z.tag = "end" => \E q \in 1..n : Whole(d, q, n + 1)
Follows(e, n, z) ==
    \A p \in 1..n : p = n /\ e[p].tag = "start" /\ z.tag \in {"item", "clear"} => z.seqno \in {0, e[p].seqno}

\* A file stays well formed when an entry that fits is appended.
LEMMA LongerFile ==
  ASSUME NEW e \in Seq(Entries), NEW d \in Seq(Entries), Len(d) = Len(e) + 1, \A j \in 1..Len(e) : d[j] = e[j],
         NEW z, z = d[Len(e) + 1]
  PROVE  /\ Grammar(e) /\ Fits(d, Len(e), z) => Grammar(d)
         /\ Paired(e) /\ Follows(e, Len(e), z) => Paired(d)
<1>0. Len(e) \in Nat
  OBVIOUS
<1>1. ASSUME Grammar(e), Fits(d, Len(e), z) PROVE Grammar(d)
  <2> SUFFICES ASSUME NEW p \in 1..Len(d)
               PROVE  /\ d[p].tag \in {"item", "clear"} =>
                            \E q \in 1..(p - 1) : /\ d[q].tag = "start" /\ p - q <= d[q].count
                                                  /\ \A j \in (q + 1)..p : d[j].tag \in {"item", "clear"}
                      /\ d[p].tag = "end" => \E q \in 1..(p - 1) : Whole(d, q, p)
    BY Zenon DEF Grammar
  <2>1. CASE p = Len(e) + 1
    <3>1. p - 1 = Len(e) /\ d[p] = z
      BY <1>0, <2>1
    <3>2. ASSUME d[p].tag \in {"item", "clear"}
          PROVE  \E q \in 1..(p - 1) : /\ d[q].tag = "start" /\ p - q <= d[q].count
                                        /\ \A j \in (q + 1)..p : d[j].tag \in {"item", "clear"}
      <4>1. PICK q \in 1..Len(e) : /\ d[q].tag = "start" /\ Len(e) + 1 - q <= d[q].count
                                   /\ \A j \in (q + 1)..(Len(e) + 1) : d[j].tag \in {"item", "clear"}
        BY <1>1, <3>1, <3>2, Zenon DEF Fits
      <4>2. p - q <= d[q].count /\ \A j \in (q + 1)..p : d[j].tag \in {"item", "clear"}
        BY <2>1, <4>1
      <4>3. q \in 1..(p - 1)
        BY <3>1
      <4> QED
        BY <4>1, <4>2, <4>3, Zenon
    <3>3. ASSUME d[p].tag = "end" PROVE \E q \in 1..(p - 1) : Whole(d, q, p)
      <4>1. PICK q \in 1..Len(e) : Whole(d, q, Len(e) + 1)
        BY <1>1, <3>1, <3>3, Zenon DEF Fits
      <4>2. q \in 1..(p - 1) /\ Whole(d, q, p)
        BY <2>1, <3>1, <4>1
      <4> QED
        BY <4>2, Zenon
    <3> QED
      BY <3>2, <3>3, Zenon
  <2>2. CASE p # Len(e) + 1
    <3>1. p \in 1..Len(e) /\ \A j \in 1..p : d[j] = e[j]
      BY <2>2
    <3>2. PICK c : c = SubSeq(e, 1, p)
      OBVIOUS
    <3>3. c \in Seq(Entries) /\ Len(c) = p /\ \A j \in 1..p : c[j] = e[j]
      BY <3>1, <3>2
    <3>4. Len(c) <= Len(e) /\ p \in 1..Len(c)
      BY <3>1, <3>3
    <3>5. Grammar(c)
      BY <1>1, <3>3, <3>4, CutFile, Zenon
    <3>6. /\ c[p].tag \in {"item", "clear"} =>
                \E q \in 1..(p - 1) : /\ c[q].tag = "start" /\ p - q <= c[q].count
                                      /\ \A j \in (q + 1)..p : c[j].tag \in {"item", "clear"}
          /\ c[p].tag = "end" => \E q \in 1..(p - 1) : Whole(c, q, p)
      BY <3>4, <3>5, Zenon DEF Grammar
    <3>7. \A j \in 1..p : d[j] = c[j]
      BY <3>1, <3>3, Zenon
    <3>8. ASSUME NEW q \in 1..(p - 1), Whole(c, q, p) PROVE Whole(d, q, p)
      <4>1. q \in 1..Len(c)
        BY <3>3
      <4> QED
        BY <3>3, <3>4, <3>7, <3>8, <4>1, WholeSame, Zenon
    <3>9. p \in 1..p /\ \A q \in 1..(p - 1) : q \in 1..p /\ \A j \in (q + 1)..p : j \in 1..p
      OBVIOUS
    <3> QED
      BY <3>6, <3>7, <3>8, <3>9, Zenon
  <2> QED
    BY <2>1, <2>2
<1>2. ASSUME Paired(e), Follows(e, Len(e), z) PROVE Paired(d)
  <2> SUFFICES ASSUME NEW p \in 1..(Len(d) - 1), d[p].tag = "start", d[p + 1].tag \in {"item", "clear"}
               PROVE  d[p + 1].seqno \in {0, d[p].seqno}
    BY Zenon DEF Paired
  <2>1. p \in 1..Len(e) /\ d[p] = e[p]
    BY <1>0
  <2>2. CASE p = Len(e)
    BY <1>2, <2>1, <2>2, Zenon DEF Follows
  <2>3. CASE p # Len(e)
    <3>1. p \in 1..(Len(e) - 1) /\ d[p + 1] = e[p + 1]
      BY <1>0, <2>1, <2>3
    <3> QED
      BY <1>2, <2>1, <3>1, Zenon DEF Paired
  <2> QED
    BY <2>2, <2>3
<1> QED
  BY <1>1, <1>2, Zenon

\* The files one by one.
LEMMA FileTypes ==
  ASSUME FileShape
  PROVE  /\ Len(files) \in Nat /\ Len(files) \in 1..Len(files) /\ DOMAIN files = 1..Len(files)
         /\ \A f \in 1..Len(files) : /\ Ent(f) \in Seq(Entries) /\ Len(Ent(f)) \in Nat
                                     /\ files[f].padded \in BOOLEAN /\ DOMAIN files[f] = {"entries", "padded"}
         /\ Active.entries = Ent(Len(files))
<1> DEFINE R == [entries : Seq(Entries), padded : BOOLEAN]
<1>1. files \in Seq(R) /\ files # <<>>
  BY Zenon DEF FileShape
<1>2. \A r \in R : r.entries \in Seq(Entries) /\ r.padded \in BOOLEAN /\ DOMAIN r = {"entries", "padded"}
  BY Zenon
<1>3. \A s \in Seq(Entries) : Len(s) \in Nat
  OBVIOUS
<1> HIDE DEF R
<1>4. Len(files) \in Nat /\ Len(files) \in 1..Len(files) /\ DOMAIN files = 1..Len(files) /\ \A f \in 1..Len(files) : files[f] \in R
  BY <1>1
<1> QED
  BY <1>2, <1>3, <1>4, Zenon DEF Ent, Active

\* The files after a step, one by one.
LEMMA NextFileTypes ==
  ASSUME FileShape'
  PROVE  /\ Len(files') \in Nat /\ Len(files') \in 1..Len(files')
         /\ \A f \in 1..Len(files') : Ent(f)' \in Seq(Entries) /\ Len(Ent(f)') \in Nat
<1> DEFINE R == [entries : Seq(Entries), padded : BOOLEAN]
<1>1. files' \in Seq(R) /\ files' # <<>>
  BY Zenon DEF FileShape
<1>2. \A r \in R : r.entries \in Seq(Entries)
  BY Zenon
<1>3. \A s \in Seq(Entries) : Len(s) \in Nat
  OBVIOUS
<1> HIDE DEF R
<1>4. Len(files') \in Nat /\ Len(files') \in 1..Len(files') /\ \A f \in 1..Len(files') : files'[f] \in R
  BY <1>1
<1> QED
  BY <1>2, <1>3, <1>4, Zenon DEF Ent

\* One file changes.
LEMMA OneFile ==
  ASSUME FileShape, NEW g \in 1..Len(files), NEW r \in [entries : Seq(Entries), padded : BOOLEAN],
         files' = [files EXCEPT ![g] = r]
  PROVE  /\ FileShape' /\ Len(files') = Len(files) /\ files'[g] = r /\ Ent(g)' = r.entries
         /\ \A f \in 1..Len(files) : f # g => files'[f] = files[f] /\ Ent(f)' = Ent(f)
<1> DEFINE R == [entries : Seq(Entries), padded : BOOLEAN]
<1>1. files \in Seq(R) /\ files # <<>> /\ r \in R
  BY Zenon DEF FileShape
<1>2. Ent(g)' = files'[g].entries /\ \A f : Ent(f)' = files'[f].entries /\ Ent(f) = files[f].entries
  BY Zenon DEF Ent
<1> HIDE DEF R
<1>3. files' \in Seq(R) /\ files' # <<>> /\ Len(files') = Len(files) /\ files'[g] = r
  BY <1>1
<1>4. \A f \in 1..Len(files) : f # g => files'[f] = files[f]
  BY <1>1
<1>5. FileShape'
  BY <1>3, Zenon DEF FileShape, R
<1> QED
  BY <1>2, <1>3, <1>4, <1>5, Zenon

\* The ends of the file g are ends it had.
LEMMA NoNewEnds ==
  ASSUME NEW g, Len(files') = Len(files), \A f \in 1..Len(files) : f # g => Ent(f)' = Ent(f),
         \A p \in 1..Len(Ent(g)') : Ent(g)'[p].tag = "end" => p \in 1..Len(Ent(g)) /\ Ent(g)'[p] = Ent(g)[p]
  PROVE  \A f, p : IsEnd(f, p)' => IsEnd(f, p) /\ Sum(f, p)' = Sum(f, p)
<1> SUFFICES ASSUME NEW f, NEW p, IsEnd(f, p)' PROVE IsEnd(f, p) /\ Sum(f, p)' = Sum(f, p)
  BY Zenon
<1>1. f \in 1..Len(files) /\ p \in 1..Len(Ent(f)') /\ Ent(f)'[p].tag = "end" /\ Sum(f, p)' = Ent(f)'[p].checksum
  BY Zenon DEF IsEnd, Sum
<1>2. CASE f = g
  BY <1>1, <1>2, Zenon DEF IsEnd, Sum
<1>3. CASE f # g
  BY <1>1, <1>3, Zenon DEF IsEnd, Sum
<1> QED
  BY <1>2, <1>3, Zenon

\* Ends stay in order when none appears.
LEMMA OrderKept ==
  ASSUME EndsOrdered, \A f, p : IsEnd(f, p)' => IsEnd(f, p) /\ Sum(f, p)' = Sum(f, p)
  PROVE  EndsOrdered'
<1> SUFFICES ASSUME NEW f, NEW p, NEW g, NEW q, IsEnd(f, p)', IsEnd(g, q)', Before(f, p, g, q)
             PROVE  Sum(f, p)'[1].seqno < Sum(g, q)'[1].seqno
  BY Zenon DEF EndsOrdered
<1>1. IsEnd(f, p) /\ Sum(f, p)' = Sum(f, p) /\ IsEnd(g, q) /\ Sum(g, q)' = Sum(g, q)
  BY Zenon
<1>2. Sum(f, p)[1].seqno < Sum(g, q)[1].seqno
  BY <1>1, Zenon DEF EndsOrdered
<1> QED
  BY <1>1, <1>2, Zenon

\* Nor does one appear that was not written.
LEMMA EndsKept ==
  ASSUME EndsWritten, EndsOrdered, Len(written) \in Nat, Len(written') \in Nat, Len(written) <= Len(written'),
         \A i \in 1..Len(written) : written'[i] = written[i],
         \A f, p : IsEnd(f, p)' => IsEnd(f, p) /\ Sum(f, p)' = Sum(f, p)
  PROVE  EndsWritten' /\ EndsOrdered'
<1>1. \A i \in 1..Len(written) : i \in 1..Len(written')
  OBVIOUS
<1> SUFFICES ASSUME NEW f, NEW p, IsEnd(f, p)' PROVE \E i \in 1..Len(written') : written'[i].items = Sum(f, p)'
  BY OrderKept, Zenon DEF EndsWritten
<1>2. IsEnd(f, p) /\ Sum(f, p)' = Sum(f, p)
  BY Zenon
<1>3. PICK i \in 1..Len(written) : written[i].items = Sum(f, p)
  BY <1>2, Zenon DEF EndsWritten
<1> QED
  BY <1>1, <1>2, <1>3, Zenon

\* An end that can be read stays where the file keeps its first n entries.
LEMMA EndStays ==
  ASSUME FileShape, NEW g \in 1..Len(files), Len(files') = Len(files),
         \A f \in 1..Len(files) : f # g => Ent(f)' = Ent(f),
         NEW n \in Nat, n <= Len(Ent(g)'), Len(Ent(g)') \in Nat,
         \A j \in 1..n : j <= Len(Ent(g)) => Ent(g)'[j] = Ent(g)[j],
         NEW f, NEW p, IsEnd(f, p), Clean(Ent(f), p), f # g \/ p <= n
  PROVE  IsEnd(f, p)' /\ Sum(f, p)' = Sum(f, p) /\ Clean(Ent(f)', p)
<1>1. f \in 1..Len(files) /\ p \in 1..Len(Ent(f)) /\ Ent(f)[p].tag = "end" /\ Sum(f, p) = Ent(f)[p].checksum
  BY Zenon DEF IsEnd, Sum
<1>2. IsEnd(f, p)' <=> f \in 1..Len(files) /\ p \in 1..Len(Ent(f)') /\ Ent(f)'[p].tag = "end"
  BY Zenon DEF IsEnd
<1>3. Sum(f, p)' = Ent(f)'[p].checksum
  BY Zenon DEF Sum
<1>4. CASE f # g
  BY <1>1, <1>2, <1>3, <1>4, Zenon
<1>5. CASE f = g
  <2>1. p <= n /\ p \in 1..Len(Ent(g)) /\ Ent(g) \in Seq(Entries) /\ Len(Ent(g)) \in Nat
    BY <1>1, <1>5, FileTypes, Zenon
  <2>2. p \in 1..Len(Ent(g)') /\ p \in 0..Len(Ent(g)) /\ p \in 1..p /\ \A j \in 1..p : j \in 1..n /\ j <= Len(Ent(g))
    BY <2>1
  <2>3. \A j \in 1..p : Ent(g)'[j] = Ent(g)[j]
    BY <2>2, Zenon
  <2>4. PICK e, d : e = Ent(g) /\ d = Ent(g)'
    BY Zenon
  <2>5. Clean(e, p)
    BY <1>5, <2>4, Zenon
  <2>6. Clean(d, p)
    BY <2>1, <2>2, <2>3, <2>4, <2>5, CleanSame, Zenon
  <2> QED
    BY <1>1, <1>2, <1>3, <1>5, <2>2, <2>3, <2>4, <2>6, Zenon
<1> QED
  BY <1>4, <1>5, Zenon

\* The smaller of two numbers.
LEMMA MinMeans ==
  ASSUME NEW a \in Nat, NEW b \in Nat
  PROVE  Min({a, b}) \in {a, b} /\ Min({a, b}) <= a /\ Min({a, b}) <= b /\ Min({a, b}) \in Nat
<1>1. \E x \in {a, b} : \A y \in {a, b} : x <= y
  OBVIOUS
<1>2. Min({a, b}) = CHOOSE x \in {a, b} : \A y \in {a, b} : x <= y
  BY Zenon DEF Min
<1>3. Min({a, b}) \in {a, b} /\ \A y \in {a, b} : Min({a, b}) <= y
  BY <1>1, <1>2, Zenon
<1> QED
  BY <1>3

\* An element of a sequence.
LEMMA SeqElement == ASSUME NEW S, NEW q \in Seq(S), NEW n \in 1..Len(q) PROVE q[n] \in S
  OBVIOUS

\* Behind the end of a batch the next one starts, if an end that can be read follows.
LEMMA NextBatch ==
  ASSUME NEW e \in Seq(Entries), NEW v \in Nat, v = 0 \/ e[v].tag = "end",
         NEW p \in 1..Len(e), v < p, Clean(e, p)
  PROVE  \E x \in 1..p : v + 1 < x /\ Whole(e, v + 1, x)
<1>1. v + 1 \in 1..p /\ Len(e) \in Nat
  OBVIOUS
<1>2. PICK q \in 1..(v + 1), x \in (v + 1)..p : Whole(e, q, x)
  BY <1>1, Zenon DEF Clean
<1>3. q \in 1..Len(e) /\ x \in 1..Len(e) /\ x \in 1..p
  BY <1>1
<1>4. q < x
  BY <1>2, <1>3, WholeSame, Zenon
<1>5. PICK n : n = e[q].count
  OBVIOUS
<1>6. e[q].tag = "start" /\ x = q + n + 1 /\ \A j \in 1..n : e[q + j] \in ItemEntry
  BY <1>2, <1>5, Zenon DEF Whole
<1>7. n \in Nat
  BY <1>3, <1>5, <1>6, EntryKinds, SeqElement, Zenon
<1>8. q = v + 1
  <2> SUFFICES ASSUME q # v + 1 PROVE FALSE
    OBVIOUS
  <2>1. q <= v /\ v < x /\ v # 0
    BY <1>2
  <2>2. e[v].tag = "end"
    BY <2>1, Zenon
  <2>3. v # q
    BY <1>6, <2>2
  <2>4. v - q \in 1..n /\ q + (v - q) = v
    BY <1>6, <1>7, <2>1, <2>3
  <2>5. e[v] \in ItemEntry
    BY <1>6, <2>4
  <2> QED
    BY <2>2, <2>5, EntryKinds
<1> QED
  BY <1>2, <1>3, <1>4, <1>8, Zenon

\* The start behind which only items follow is the last one.
LEMMA LastStart ==
  ASSUME NEW e, NEW s \in Nat, NEW q \in Nat, NEW n \in Nat, s <= n, q <= n,
         e[s].tag = "start", \A j \in (s + 1)..n : e[j].tag \in {"item", "clear"},
         e[q].tag = "start", \A j \in (q + 1)..n : e[j].tag \in {"item", "clear"}
  PROVE  q = s
<1>1. CASE q < s
  <2>1. s \in (q + 1)..n
    BY <1>1
  <2> QED
    BY <2>1
<1>2. CASE q > s
  <2>1. q \in (s + 1)..n
    BY <1>2
  <2> QED
    BY <2>1
<1> QED
  BY <1>1, <1>2

\* The reader's place in its file.
LEMMA ReaderFlat ==
  ASSUME FileShape, ReaderShape, Reader
  PROVE  /\ rd.file \in 1..Len(files) /\ Ent(rd.file) \in Seq(Entries) /\ Len(Ent(rd.file)) \in Nat
         /\ rd.pos \in Nat /\ rd.counter \in Nat /\ rd.lastValid \in Nat /\ rd.seqno \in Nat
         /\ rd.inBatch \in BOOLEAN /\ rd.items \in Seq(ItemEntry) /\ Len(rd.items) \in Nat /\ rd.sum = rd.items
         /\ rd.lastValid <= rd.pos /\ rd.pos <= Len(Ent(rd.file))
         /\ rd.lastValid = 0 \/ Ent(rd.file)[rd.lastValid].tag = "end"
         /\ ~rd.inBatch => rd.items = <<>> /\ rd.counter = 0 /\ rd.lastValid = rd.pos
         /\ rd.inBatch => /\ rd.pos = rd.lastValid + 1 + Len(rd.items)
                          /\ Ent(rd.file)[rd.lastValid + 1].tag = "start"
                          /\ Ent(rd.file)[rd.lastValid + 1].count = rd.counter + Len(rd.items)
                          /\ Ent(rd.file)[rd.lastValid + 1].seqno = rd.seqno
                          /\ \A j \in 1..Len(rd.items) : Ent(rd.file)[rd.lastValid + 1 + j] = rd.items[j]
                          /\ \A j \in (rd.lastValid + 2)..rd.pos : Ent(rd.file)[j].tag \in {"item", "clear"}
<1>1. /\ rd.file \in 1..Len(files) /\ rd.pos <= Len(Ent(rd.file)) /\ rd.sum = rd.items
      /\ rd.lastValid = 0 \/ Ent(rd.file)[rd.lastValid].tag = "end"
      /\ ~rd.inBatch => rd.items = <<>> /\ rd.counter = 0 /\ rd.lastValid = rd.pos
      /\ rd.inBatch => /\ rd.pos = rd.lastValid + 1 + Len(rd.items)
                       /\ Ent(rd.file)[rd.lastValid + 1].tag = "start"
                       /\ Ent(rd.file)[rd.lastValid + 1].count = rd.counter + Len(rd.items)
                       /\ Ent(rd.file)[rd.lastValid + 1].seqno = rd.seqno
                       /\ \A j \in 1..Len(rd.items) : Ent(rd.file)[rd.lastValid + 1 + j] = rd.items[j]
  BY Zenon DEF Reader
<1>2. Ent(rd.file) \in Seq(Entries) /\ Len(Ent(rd.file)) \in Nat
  BY <1>1, FileTypes, Zenon
<1>3. /\ rd.pos \in Nat /\ rd.counter \in Nat /\ rd.lastValid \in Nat /\ rd.seqno \in Nat
      /\ rd.inBatch \in BOOLEAN /\ rd.items \in Seq(ItemEntry)
  BY Zenon DEF ReaderShape
<1>4. Len(rd.items) \in Nat /\ \A j \in 1..Len(rd.items) : rd.items[j] \in ItemEntry
  BY <1>3
<1>5. rd.lastValid <= rd.pos
  <2>1. CASE rd.inBatch
    BY <1>1, <1>3, <1>4, <2>1
  <2>2. CASE ~rd.inBatch
    BY <1>1, <1>3, <2>2
  <2> QED
    BY <2>1, <2>2, Zenon
<1>6. ASSUME rd.inBatch PROVE \A j \in (rd.lastValid + 2)..rd.pos : Ent(rd.file)[j].tag \in {"item", "clear"}
  <2> SUFFICES ASSUME NEW j \in (rd.lastValid + 2)..rd.pos PROVE Ent(rd.file)[j].tag \in {"item", "clear"}
    BY Zenon
  <2>1. rd.pos = rd.lastValid + 1 + Len(rd.items)
    BY <1>1, <1>6, Zenon
  <2>2. PICK v, m, w : v = rd.lastValid /\ m = Len(rd.items) /\ w = rd.pos
    BY Zenon
  <2> DEFINE i == j - v - 1
  <2>3. i \in 1..Len(rd.items) /\ j = rd.lastValid + 1 + i
    <3>1. v \in Nat /\ m \in Nat /\ w = v + 1 + m /\ j \in (v + 2)..w
      BY <1>3, <1>4, <2>1, <2>2, Zenon
    <3>2. i \in 1..m /\ j = v + 1 + i
      BY <3>1
    <3> QED
      BY <2>2, <3>2, Zenon
  <2> HIDE DEF i
  <2>4. Ent(rd.file)[j] = rd.items[i] /\ rd.items[i] \in ItemEntry
    BY <1>1, <1>4, <1>6, <2>3, Zenon
  <2> QED
    BY <2>4, EntryKinds, Zenon
<1> QED
  BY <1>1, <1>2, <1>3, <1>4, <1>5, <1>6, Zenon

\* No end lies between the last batch and the reader.
LEMMA EndsAhead ==
  ASSUME FileShape, ReaderShape, Reader, NEW p, IsEnd(rd.file, p), rd.lastValid < p
  PROVE  p \in 1..Len(Ent(rd.file)) /\ Ent(rd.file)[p].tag = "end" /\ rd.pos < p
<1>1. p \in 1..Len(Ent(rd.file)) /\ Ent(rd.file)[p].tag = "end"
  BY Zenon DEF IsEnd
<1>2. rd.pos \in Nat /\ rd.lastValid \in Nat /\ Len(Ent(rd.file)) \in Nat
  BY ReaderFlat, Zenon
<1>3. CASE ~rd.inBatch
  BY <1>1, <1>3, ReaderFlat, Zenon
<1>4. CASE rd.inBatch
  <2>1. /\ Ent(rd.file)[rd.lastValid + 1].tag = "start"
        /\ \A j \in (rd.lastValid + 2)..rd.pos : Ent(rd.file)[j].tag \in {"item", "clear"}
    BY <1>4, ReaderFlat, Zenon
  <2>2. p # rd.lastValid + 1
    BY <1>1, <2>1
  <2>3. p \notin (rd.lastValid + 2)..rd.pos
    BY <1>1, <2>1
  <2> QED
    BY <1>1, <1>2, <2>2, <2>3
<1> QED
  BY <1>3, <1>4, Zenon

\* While an end that can be read is ahead the reader goes on.
LEMMA GoesOn ==
  ASSUME FileShape, ReaderShape, Reader, NEW p, IsEnd(rd.file, p), rd.lastValid < p, Clean(Ent(rd.file), p)
  PROVE  /\ rd.pos < Len(Ent(rd.file))
         /\ rd.inBatch => Ent(rd.file)[rd.pos + 1].tag \in {"item", "clear", "end"}
         /\ ~rd.inBatch => Ent(rd.file)[rd.pos + 1].tag = "start"
<1>1. p \in 1..Len(Ent(rd.file)) /\ rd.pos < p
  BY EndsAhead, Zenon
<1>2. PICK e, v, m, c : e = Ent(rd.file) /\ v = rd.lastValid /\ m = Len(rd.items) /\ c = rd.counter
  BY Zenon
<1>3. /\ e \in Seq(Entries) /\ Len(e) \in Nat /\ v \in Nat /\ m \in Nat /\ c \in Nat /\ rd.pos \in Nat
      /\ (v = 0 \/ e[v].tag = "end") /\ p \in 1..Len(e) /\ v < p /\ Clean(e, p)
      /\ ~rd.inBatch => v = rd.pos
      /\ rd.inBatch => rd.pos = v + 1 + m /\ e[v + 1].count = c + m
  BY <1>1, <1>2, ReaderFlat, Zenon
<1>4. PICK x \in 1..p : v + 1 < x /\ Whole(e, v + 1, x)
  BY <1>3, NextBatch, Zenon
<1>5. PICK n : n = e[v + 1].count
  BY Zenon
<1>6. e[v + 1].tag = "start" /\ e[x].tag = "end" /\ x = v + 1 + n + 1 /\ \A j \in 1..n : e[v + 1 + j] \in ItemEntry
  BY <1>4, <1>5, Zenon DEF Whole
<1>7. rd.pos < Len(e)
  BY <1>1, <1>3
<1>8. ASSUME rd.inBatch PROVE e[rd.pos + 1].tag \in {"item", "clear", "end"}
  <2>1. n = c + m /\ rd.pos = v + 1 + m
    BY <1>3, <1>5, <1>8, Zenon
  <2>2. CASE c = 0
    <3>1. rd.pos + 1 = x
      BY <1>3, <1>6, <2>1, <2>2
    <3> QED
      BY <1>6, <3>1, Zenon
  <2>3. CASE c > 0
    <3>1. m + 1 \in 1..n /\ rd.pos + 1 = v + 1 + (m + 1)
      BY <1>3, <2>1, <2>3
    <3>2. e[rd.pos + 1] \in ItemEntry
      BY <1>6, <3>1, Zenon
    <3>3. e[rd.pos + 1].tag \in {"item", "clear"}
      BY <3>2, EntryKinds, Zenon
    <3> QED
      BY <3>3, Zenon
  <2> QED
    BY <1>3, <2>2, <2>3
<1> QED
  BY <1>2, <1>3, <1>6, <1>7, <1>8, Zenon

\* The rule for the entry at place p.
LEMMA GrammarAt ==
  ASSUME NEW e, NEW p \in 1..Len(e), NEW w, w = p - 1, Grammar(e)
  PROVE  /\ e[p].tag \in {"item", "clear"} =>
              \E q \in 1..w : /\ e[q].tag = "start" /\ p - q <= e[q].count
                              /\ \A j \in (q + 1)..p : e[j].tag \in {"item", "clear"}
         /\ e[p].tag = "end" => \E q \in 1..w : Whole(e, q, p)
  BY Zenon DEF Grammar

\* In a file that no crash damaged the items of a batch are as many as announced,
\* and an end closes the batch that the reader has followed.
LEMMA NoSurplus ==
  ASSUME FileShape, ReaderShape, Reader, Grammar(Ent(rd.file)), rd.inBatch, rd.pos < Len(Ent(rd.file))
  PROVE  /\ Ent(rd.file)[rd.pos + 1].tag \in {"item", "clear"} => rd.counter # 0
         /\ Ent(rd.file)[rd.pos + 1].tag = "end" => rd.counter = 0 /\ rd.sum = Ent(rd.file)[rd.pos + 1].checksum
<1>1. PICK e, v, m, c, w : e = Ent(rd.file) /\ v = rd.lastValid /\ m = Len(rd.items) /\ c = rd.counter /\ w = rd.pos
  BY Zenon
<1> DEFINE s == v + 1
<1>2. /\ e \in Seq(Entries) /\ Len(e) \in Nat /\ v \in Nat /\ m \in Nat /\ c \in Nat /\ w \in Nat
      /\ w = s + m /\ e[s].tag = "start" /\ e[s].count = c + m
      /\ \A j \in (v + 2)..w : e[j].tag \in {"item", "clear"}
      /\ \A j \in 1..m : e[s + j] = rd.items[j]
      /\ rd.items \in Seq(ItemEntry) /\ rd.sum = rd.items /\ w < Len(e) /\ Grammar(e)
  BY <1>1, ReaderFlat, Zenon
<1>3. s \in Nat /\ s >= 1 /\ s <= w /\ s + 1 = v + 2 /\ w + 1 \in 1..Len(e) /\ w + 1 - 1 = w
  <2>1. Len(e) \in Nat /\ v \in Nat /\ m \in Nat /\ w \in Nat /\ w = s + m /\ w < Len(e)
    BY <1>2, Zenon
  <2> QED
    BY <2>1
<1> HIDE DEF s
<1>4. \A j \in (s + 1)..w : e[j].tag \in {"item", "clear"}
  BY <1>2, <1>3, Zenon
<1>5. ASSUME e[w + 1].tag \in {"item", "clear"} PROVE c # 0
  <2>1. PICK p : p = w + 1
    BY Zenon
  <2>2. w = p - 1
    BY <1>2, <2>1
  <2>3. p \in 1..Len(e) /\ Grammar(e) /\ e[p].tag \in {"item", "clear"}
    BY <1>2, <1>3, <1>5, <2>1, Zenon
  <2>4. PICK q \in 1..w : /\ e[q].tag = "start" /\ p - q <= e[q].count
                          /\ \A j \in (q + 1)..p : e[j].tag \in {"item", "clear"}
    BY <2>2, <2>3, GrammarAt, Zenon
  <2>5. q \in Nat /\ q <= w /\ \A j \in (q + 1)..w : j \in (q + 1)..p
    BY <1>2, <2>1
  <2>6. \A j \in (q + 1)..w : e[j].tag \in {"item", "clear"}
    BY <2>4, <2>5, Zenon
  <2>7. q = s
    BY <1>2, <1>3, <1>4, <2>4, <2>5, <2>6, LastStart, Zenon
  <2>8. p - s <= c + m
    BY <1>2, <2>4, <2>7, Zenon
  <2> QED
    BY <1>2, <1>3, <2>1, <2>8
<1>6. ASSUME e[w + 1].tag = "end" PROVE c = 0 /\ rd.sum = e[w + 1].checksum
  <2>1. PICK q \in 1..w : Whole(e, q, w + 1)
    <3>1. PICK p : p = w + 1
      BY Zenon
    <3>2. w = p - 1
      BY <1>2, <3>1
    <3>3. p \in 1..Len(e) /\ Grammar(e) /\ e[p].tag = "end"
      BY <1>2, <1>3, <1>6, <3>1, Zenon
    <3>4. \E q \in 1..w : Whole(e, q, p)
      BY <3>2, <3>3, GrammarAt, Zenon
    <3> QED
      BY <3>1, <3>4, Zenon
  <2>2. PICK n, k : n = e[q].count /\ k = e[w + 1].checksum
    BY Zenon
  <2>3. /\ e[q].tag = "start" /\ w + 1 = q + n + 1 /\ Len(k) = n
        /\ \A j \in 1..n : e[q + j] \in ItemEntry /\ e[q + j] = k[j]
    BY <2>1, <2>2, Zenon DEF Whole
  <2>4. q \in 1..Len(e) /\ q \in Nat /\ q <= w
    BY <1>2
  <2>5. e[q] \in Entries /\ e[w + 1] \in Entries
    BY <1>2, <1>3, <2>4, SeqElement, Zenon
  <2>6. n \in Nat /\ k \in Seq(ItemEntry)
    BY <1>6, <2>2, <2>3, <2>5, EntryKinds, Zenon
  <2>7. ASSUME NEW j \in (q + 1)..w PROVE e[j].tag \in {"item", "clear"}
    <3>1. j - q \in 1..n /\ q + (j - q) = j
      BY <1>2, <2>3, <2>4, <2>6
    <3>2. e[q + (j - q)] \in ItemEntry
      BY <2>3, <3>1, Zenon
    <3>3. e[j] \in ItemEntry
      BY <3>1, <3>2, Zenon
    <3> QED
      BY <3>3, EntryKinds, Zenon
  <2>8. q = s
    BY <1>2, <1>3, <1>4, <2>3, <2>4, <2>7, LastStart, Zenon
  <2>9. n = m /\ c = 0
    <3>1. w + 1 = s + n + 1 /\ n = c + m
      BY <1>2, <2>2, <2>3, <2>8, Zenon
    <3> QED
      BY <1>2, <1>3, <2>6, <3>1
  <2>10. Len(rd.items) = Len(k) /\ \A j \in 1..Len(rd.items) : rd.items[j] = k[j]
    BY <1>1, <1>2, <2>3, <2>8, <2>9, Zenon
  <2>11. rd.items = k
    BY <1>2, <2>6, <2>10, SameSeq, Zenon
  <2> QED
    BY <1>2, <2>2, <2>9, <2>11, Zenon
<1> QED
  BY <1>1, <1>5, <1>6, Zenon

\* What a step that leaves the files and the writer alone keeps.
LEMMA FilesKept ==
  ASSUME IInv, UNCHANGED <<files, written, damaged>>
  PROVE  /\ FileShape' /\ Files' /\ EndsWritten' /\ EndsOrdered'
         /\ \A f, p : (IsEnd(f, p)' <=> IsEnd(f, p)) /\ Sum(f, p)' = Sum(f, p)
         /\ \A f : Ent(f)' = Ent(f)
<1>1. files' = files /\ written' = written /\ damaged' = damaged
  BY Zenon
<1>2. \A f : Ent(f)' = Ent(f)
  BY <1>1, Zenon DEF Ent
<1>3. \A f, p : (IsEnd(f, p)' <=> IsEnd(f, p)) /\ Sum(f, p)' = Sum(f, p)
  BY <1>1, <1>2, Zenon DEF IsEnd, Sum
<1>4. FileShape'
  BY <1>1, Zenon DEF FileShape, IInv
<1>5. Files'
  <2> SUFFICES ASSUME NEW f \in 1..Len(files') PROVE Paired(Ent(f)') /\ (~damaged' => Grammar(Ent(f)'))
    BY Zenon DEF Files
  <2>1. Paired(Ent(f)) /\ (~damaged => Grammar(Ent(f)))
    BY <1>1, Zenon DEF Files, IInv
  <2>2. Ent(f)' = Ent(f)
    BY <1>2, Zenon
  <2>3. Paired(Ent(f)')
    BY <2>1, <2>2, Zenon
  <2>4. damaged' <=> damaged
    BY <1>1
  <2>5. ~damaged' => Grammar(Ent(f)')
    BY <2>1, <2>2, <2>4, Zenon
  <2> QED
    BY <2>3, <2>5, Zenon
<1>6. EndsWritten'
  BY <1>1, <1>3, Zenon DEF EndsWritten, IInv
<1>7. EndsOrdered'
  BY <1>3, Zenon DEF EndsOrdered, IInv
<1> QED
  BY <1>2, <1>3, <1>4, <1>5, <1>6, <1>7, Zenon

\* A step of the reader within its file.
LEMMA ReaderMoves ==
  ASSUME IInv, phase = "reading",
         UNCHANGED <<files, append, flushed, synced, op, todo, phase, delivered, written, kept, expect, sound, damaged, begun>>,
         ReaderShape', Reader', rd'.file = rd.file, rd'.lastValid = rd.lastValid
  PROVE  IInv'
<1>1. /\ files' = files /\ op' = op /\ todo' = todo /\ flushed' = flushed /\ synced' = synced /\ phase' = phase
      /\ delivered' = delivered /\ written' = written /\ kept' = kept /\ expect' = expect /\ sound' = sound
      /\ damaged' = damaged /\ begun' = begun
  BY Zenon
<1>2. Reading /\ todo = <<>>
  BY Zenon DEF IInv, Reading
<1>3. WriterShape' /\ HistoryShape' /\ Batches' /\ Handed'
  <2>1. WriterShape /\ HistoryShape /\ Batches /\ Handed
    BY Zenon DEF IInv
  <2>2. WriterShape' /\ HistoryShape'
    BY <1>1, <2>1, Zenon DEF WriterShape, HistoryShape
  <2>3. Batches' /\ Handed'
    BY <1>1, <2>1, ZenonT(30) DEF Batches, IsBatch, Handed
  <2> QED
    BY <2>2, <2>3, Zenon
<1>4. Pending'
  BY <1>1, <1>2, Zenon DEF Pending
<1>5. /\ FileShape' /\ Files' /\ EndsWritten' /\ EndsOrdered'
      /\ \A f, p : (IsEnd(f, p)' <=> IsEnd(f, p)) /\ Sum(f, p)' = Sum(f, p)
      /\ \A f : Ent(f)' = Ent(f)
  BY <1>1, FilesKept, Zenon
<1>6. \A f, p : Passed(f, p)' <=> Passed(f, p)
  BY Zenon DEF Passed
<1>7. Ent(rd.file)' = Ent(rd.file)
  <2>1. PICK g : g = rd.file
    BY Zenon
  <2>2. rd'.file = g /\ Ent(g)' = Ent(g)
    BY <1>5, <2>1, Zenon
  <2> QED
    BY <2>1, <2>2, Zenon DEF Ent
<1>8. ReadSoFar'
  <2>1. /\ \A f \in 1..(rd.file - 1) : Clean(Ent(f), Len(Ent(f)))
        /\ Clean(Ent(rd.file), rd.lastValid)
    BY <1>2, Zenon DEF Reading, ReadSoFar
  <2>2. /\ \A f \in 1..(rd'.file - 1) : Clean(Ent(f)', Len(Ent(f)'))
        /\ Clean(Ent(rd.file)', rd'.lastValid)
    BY <1>5, <1>7, <2>1, Zenon
  <2>3. \A f, p : IsEnd(f, p)' /\ Passed(f, p)' => \E i \in 1..Len(delivered') : delivered'[i].items = Sum(f, p)'
    BY <1>1, <1>2, <1>5, <1>6, ZenonT(30) DEF Reading, ReadSoFar
  <2>4. \A i \in 1..Len(delivered') :
          \E f, p : IsEnd(f, p)' /\ Passed(f, p)' /\ Sum(f, p)' = delivered'[i].items /\ Clean(Ent(f)', p)
    BY <1>1, <1>2, <1>5, <1>6, Zenon DEF Reading, ReadSoFar
  <2> QED
    BY <2>2, <2>3, <2>4, Zenon DEF ReadSoFar
<1>9. Ahead'
  BY <1>1, <1>2, <1>5, <1>6, Zenon DEF Reading, Ahead
<1>10. Reading'
  BY <1>1, <1>2, <1>8, <1>9, Zenon DEF Reading
<1> QED
  BY <1>1, <1>3, <1>4, <1>5, <1>10 DEF IInv

\* The reader begins a batch.
LEMMA StartStep ==
  ASSUME IInv, AtEntry({"start"}), ~rd.inBatch, ReadFrame,
         Step([rd EXCEPT !.inBatch = TRUE, !.counter = Entry.count, !.seqno = Entry.seqno])
  PROVE  IInv'
<1>1. FileShape /\ ReaderShape /\ Reader /\ phase = "reading"
  BY Zenon DEF IInv, Reading, AtEntry
<1>2. PICK e, w, z : e = Ent(rd.file) /\ w = rd.pos /\ z = Entry
  BY Zenon
<1>3. /\ e \in Seq(Entries) /\ w \in Nat /\ Len(e) \in Nat /\ rd.lastValid = w /\ rd.items = <<>> /\ rd.sum = rd.items
      /\ w = 0 \/ e[w].tag = "end"
  BY <1>1, <1>2, ReaderFlat, Zenon
<1>4. w < Len(e) /\ z = e[w + 1] /\ z.tag = "start"
  BY <1>2, Zenon DEF AtEntry, Entry, Ent
<1>5. w + 1 \in 1..Len(e) /\ w + 1 \in Nat
  BY <1>3, <1>4
<1>6. z.count \in Nat /\ z.seqno \in Nat
  BY <1>3, <1>4, <1>5, SeqElement, EntryKinds, Zenon
<1>7. /\ rd' = [[rd EXCEPT !.inBatch = TRUE, !.counter = z.count, !.seqno = z.seqno] EXCEPT !.pos = @ + 1]
      /\ UNCHANGED <<files, append, flushed, synced, op, todo, phase, delivered, written, kept, expect, sound, damaged, begun>>
  BY <1>2, Zenon DEF Step, ReadFrame, file, counts
<1>8. /\ rd'.file = rd.file /\ rd'.pos = w + 1 /\ rd'.inBatch = TRUE /\ rd'.counter = z.count /\ rd'.seqno = z.seqno
      /\ rd'.items = rd.items /\ rd'.sum = rd.sum /\ rd'.lastValid = rd.lastValid
  BY <1>1, <1>2, <1>7, Zenon DEF ReaderShape
<1>9. ReaderShape'
  <2>1. DOMAIN rd' = DOMAIN rd /\ TRUE \in BOOLEAN
    BY <1>7, Zenon
  <2> QED
    BY <1>1, <1>5, <1>6, <1>8, <2>1, Zenon DEF ReaderShape
<1>10. Ent(rd.file)' = e /\ Len(files') = Len(files)
  BY <1>2, <1>7, <1>8, Zenon DEF Ent
<1>11. Reader'
  <2>1. rd.file \in 1..Len(files)
    BY <1>1, ReaderFlat, Zenon
  <2>2. Len(<<>>) = 0 /\ w + 1 <= Len(e) /\ w + 1 = w + 1 + 0 /\ z.count = z.count + 0 /\ 1..0 = {}
    BY <1>3, <1>4, <1>6
  <2> QED
    BY <1>3, <1>4, <1>7, <1>8, <1>10, <2>1, <2>2, Zenon DEF Reader
<1> QED
  BY <1>1, <1>7, <1>8, <1>9, <1>11, ReaderMoves, Zenon

\* The reader takes an item of its batch.
LEMMA ItemStep ==
  ASSUME IInv, AtEntry({"item", "clear"}), rd.inBatch, rd.counter # 0, ReadFrame,
         Step([rd EXCEPT !.counter = @ - 1, !.items = Append(@, Entry), !.sum = Append(@, Entry)])
  PROVE  IInv'
<1>1. FileShape /\ ReaderShape /\ Reader /\ phase = "reading"
  BY Zenon DEF IInv, Reading, AtEntry
<1>2. PICK e, w, z, c, v, t, u : /\ e = Ent(rd.file) /\ w = rd.pos /\ z = Entry /\ c = rd.counter /\ v = rd.lastValid
                               /\ t = rd.items /\ u = Append(t, z)
  BY Zenon
<1>3. /\ e \in Seq(Entries) /\ w \in Nat /\ Len(e) \in Nat /\ c \in Nat /\ v \in Nat /\ t \in Seq(ItemEntry)
      /\ v = 0 \/ e[v].tag = "end"
      /\ rd.sum = t /\ w = v + 1 + Len(t) /\ e[v + 1].tag = "start" /\ e[v + 1].count = c + Len(t)
      /\ e[v + 1].seqno = rd.seqno /\ \A j \in 1..Len(t) : e[v + 1 + j] = t[j]
  BY <1>1, <1>2, ReaderFlat, Zenon
<1>4. w < Len(e) /\ z = e[w + 1] /\ z.tag \in {"item", "clear"}
  BY <1>2, Zenon DEF AtEntry, Entry, Ent
<1>5. w + 1 \in 1..Len(e) /\ w + 1 \in Nat /\ c - 1 \in Nat /\ Len(t) \in Nat
  <2>1. c # 0
    BY <1>2, Zenon
  <2> QED
    BY <1>3, <1>4, <2>1
<1>6. z \in ItemEntry
  BY <1>3, <1>4, <1>5, SeqElement, EntryKinds, Zenon
<1>7. /\ rd' = [[rd EXCEPT !.counter = @ - 1, !.items = Append(@, z), !.sum = Append(@, z)] EXCEPT !.pos = @ + 1]
      /\ UNCHANGED <<files, append, flushed, synced, op, todo, phase, delivered, written, kept, expect, sound, damaged, begun>>
  BY <1>2, Zenon DEF Step, ReadFrame, file, counts
<1>8. /\ rd'.file = rd.file /\ rd'.pos = w + 1 /\ rd'.inBatch = rd.inBatch /\ rd'.counter = c - 1 /\ rd'.seqno = rd.seqno
      /\ rd'.items = u /\ rd'.sum = u /\ rd'.lastValid = v /\ DOMAIN rd' = DOMAIN rd
  BY <1>1, <1>2, <1>3, <1>7, Zenon DEF ReaderShape
<1>9. u \in Seq(ItemEntry) /\ Len(u) = Len(t) + 1 /\ u[Len(t) + 1] = z /\ \A j \in 1..Len(t) : u[j] = t[j]
  BY <1>2, <1>3, <1>6
<1>10. ReaderShape'
  BY <1>1, <1>2, <1>5, <1>8, <1>9, Zenon DEF ReaderShape
<1>11. Ent(rd.file)' = e /\ Len(files') = Len(files)
  BY <1>2, <1>7, <1>8, Zenon DEF Ent
<1>12. Reader'
  <2>1. rd.file \in 1..Len(files)
    BY <1>1, ReaderFlat, Zenon
  <2>2. w + 1 <= Len(e) /\ w + 1 = v + 1 + Len(u) /\ e[v + 1].count = (c - 1) + Len(u) /\ w + 1 = v + 1 + (Len(t) + 1)
    <3>1. PICK m, l, k : m = Len(t) /\ l = Len(u) /\ k = e[v + 1].count
      BY Zenon
    <3>2. m \in Nat /\ l = m + 1 /\ k = c + m /\ v \in Nat /\ c \in Nat /\ w = v + 1 + m /\ w + 1 \in 1..Len(e) /\ Len(e) \in Nat
      BY <1>3, <1>5, <1>9, <3>1, Zenon
    <3>3. w + 1 <= Len(e) /\ w + 1 = v + 1 + l /\ k = (c - 1) + l /\ w + 1 = v + 1 + (m + 1)
      BY <3>2
    <3> QED
      BY <3>1, <3>3, Zenon
  <2>3. ASSUME NEW j \in 1..Len(u) PROVE e[v + 1 + j] = u[j]
    <3>1. CASE j = Len(t) + 1
      BY <1>4, <1>9, <2>2, <3>1, Zenon
    <3>2. CASE j # Len(t) + 1
      <4>1. j \in 1..Len(t)
        BY <1>5, <1>9, <3>2
      <4> QED
        BY <1>3, <1>9, <4>1, Zenon
    <3> QED
      BY <3>1, <3>2, Zenon
  <2>4. rd'.inBatch
    BY <1>8
  <2>5. /\ rd'.file \in 1..Len(files') /\ rd'.pos <= Len(e) /\ rd'.sum = rd'.items
        /\ rd'.lastValid = 0 \/ e[rd'.lastValid].tag = "end"
        /\ rd'.pos = rd'.lastValid + 1 + Len(rd'.items)
        /\ e[rd'.lastValid + 1].tag = "start" /\ e[rd'.lastValid + 1].seqno = rd'.seqno
        /\ e[rd'.lastValid + 1].count = rd'.counter + Len(rd'.items)
    BY <1>3, <1>8, <1>11, <2>1, <2>2, Zenon
  <2>6. \A j \in 1..Len(rd'.items) : e[rd'.lastValid + 1 + j] = rd'.items[j]
    BY <1>8, <2>3, Zenon
  <2> QED
    BY <1>11, <2>4, <2>5, <2>6, Zenon DEF Reader
<1> QED
  BY <1>1, <1>2, <1>7, <1>8, <1>10, <1>12, ReaderMoves, Zenon

\* Recovery gives up.
LEMMA ErrorStep ==
  ASSUME IInv, phase = "reading", damaged, Error, ReadFrame
  PROVE  IInv'
<1>1. /\ files' = files /\ op' = op /\ todo' = todo /\ flushed' = flushed /\ synced' = synced /\ phase' = "failed"
      /\ delivered' = delivered /\ written' = written /\ kept' = kept /\ expect' = expect /\ sound' = sound
      /\ damaged' = damaged /\ begun' = begun /\ rd' = rd
  BY Zenon DEF Error, ReadFrame, file, counts
<1>2. todo = <<>>
  BY Zenon DEF IInv, Reading
<1>3. WriterShape' /\ ReaderShape' /\ HistoryShape' /\ Batches' /\ Handed'
  BY <1>1, Zenon DEF IInv, WriterShape, ReaderShape, HistoryShape, Batches, IsBatch, Handed
<1>4. Pending'
  BY <1>1, <1>2, Zenon DEF Pending
<1>5. FileShape' /\ Files' /\ EndsWritten' /\ EndsOrdered'
  BY <1>1, FilesKept, Zenon
<1>6. damaged'
  BY <1>1
<1> QED
  BY <1>1, <1>3, <1>4, <1>5, <1>6 DEF IInv

\* The batches written are told apart by their items.
LEMMA SameItems ==
  ASSUME IInv, NEW i \in 1..Len(written), NEW k \in 1..Len(written), written[i].items = written[k].items
  PROVE  i = k
<1>1. written[i].seqno = written[k].seqno /\ written[i].seqno \in 1..begun
  BY Zenon DEF IInv, Batches, IsBatch
<1>2. begun \in Nat
  BY Zenon DEF IInv, HistoryShape
<1>3. ~(i < k) /\ ~(k < i)
  <2>1. ASSUME i < k PROVE FALSE
    <3>1. written[i].seqno < written[k].seqno
      BY <2>1, Zenon DEF IInv, Batches
    <3> QED
      BY <1>1, <1>2, <3>1
  <2>2. ASSUME k < i PROVE FALSE
    <3>1. written[k].seqno < written[i].seqno
      BY <2>2, Zenon DEF IInv, Batches
    <3> QED
      BY <1>1, <1>2, <3>1
  <2> QED
    BY <2>1, <2>2, Zenon
<1> QED
  BY <1>3

\* The batch at whose end the reader stands is one that was written.
LEMMA BatchRead ==
  ASSUME IInv, AtEntry({"end"}), rd.inBatch, rd.counter = 0, rd.sum = Entry.checksum
  PROVE  /\ IsEnd(rd.file, rd.pos + 1) /\ Sum(rd.file, rd.pos + 1) = rd.items /\ Clean(Ent(rd.file), rd.pos + 1)
         /\ \E i \in 1..Len(written) : written[i].seqno = rd.seqno /\ written[i].items = rd.items
<1>1. FileShape /\ ReaderShape /\ Reader /\ ReadSoFar /\ EndsWritten /\ Files /\ Batches /\ HistoryShape
  BY Zenon DEF IInv, Reading, AtEntry
<1>2. PICK g, z : g = rd.file /\ z = Entry
  BY Zenon
<1>3. PICK e, w, v, t, m, c :
        /\ e = Ent(rd.file) /\ w = rd.pos /\ v = rd.lastValid /\ t = rd.items /\ m = Len(rd.items) /\ c = rd.counter
  BY Zenon
<1>14. /\ e \in Seq(Entries) /\ w \in Nat /\ Len(e) \in Nat /\ v \in Nat /\ t \in Seq(ItemEntry) /\ m \in Nat
      /\ rd.sum = t /\ w = v + 1 + m /\ e[v + 1].tag = "start" /\ e[v + 1].count = c + m
      /\ e[v + 1].seqno = rd.seqno
  BY <1>1, <1>3, ReaderFlat, Zenon
<1>15. \A j \in 1..m : e[v + 1 + j] = t[j]
  <2>1. \A j \in 1..Len(rd.items) : Ent(rd.file)[rd.lastValid + 1 + j] = rd.items[j]
    BY <1>1, ReaderFlat, Zenon
  <2> QED
    BY <1>3, <2>1, Zenon
<1>0. e = Ent(g) /\ g \in 1..Len(files)
  BY <1>1, <1>2, <1>3, <1>14, <1>15, ReaderFlat, Zenon
<1>4. w < Len(e) /\ z = e[w + 1] /\ z.tag = "end" /\ z.checksum = t
  BY <1>2, <1>3, <1>14, <1>15, Zenon DEF AtEntry, Entry, Ent
<1>5. w + 1 \in 1..Len(e) /\ w + 1 = v + 1 + m + 1 /\ v < w + 1 /\ w + 1 \in Nat /\ v + 1 \in 1..(Len(e) - 1)
  BY <1>3, <1>14, <1>15, <1>4
<1>6. IsEnd(g, w + 1) /\ Sum(g, w + 1) = t
  BY <1>0, <1>3, <1>14, <1>15, <1>4, <1>5, Zenon DEF IsEnd, Sum
<1>7. e[v + 1].count = m
  <2>1. c + m = m
    BY <1>2, <1>3, <1>14, <1>15
  <2> QED
    BY <1>3, <1>14, <1>15, <2>1, Zenon
<1>8. \A j \in 1..m : t[j] \in ItemEntry
  BY <1>2, <1>3, <1>14, <1>15
<1>9. Whole(e, v + 1, w + 1)
  <2>1. w + 1 = v + 1 + e[v + 1].count + 1 /\ Len(e[w + 1].checksum) = e[v + 1].count
    <3>1. m = Len(t)
      BY <1>3, Zenon
    <3> QED
      BY <1>4, <1>5, <1>7, <3>1, Zenon
  <2>2. e[w + 1].checksum = t
    BY <1>4, Zenon
  <2>3. \A j \in 1..m : e[v + 1 + j] \in ItemEntry /\ e[v + 1 + j] = e[w + 1].checksum[j]
    BY <1>3, <1>14, <1>15, <1>8, <2>2
  <2> QED
    BY <1>3, <1>14, <1>15, <1>4, <1>7, <2>1, <2>3, Zenon DEF Whole
<1>10. Clean(e, w + 1)
  <2>1. Clean(e, v)
    BY <1>1, <1>3, <1>14, <1>15, Zenon DEF ReadSoFar
  <2> QED
    BY <1>3, <1>14, <1>15, <1>5, <1>9, <2>1, CleanGrows, Zenon
<1>11. PICK i \in 1..Len(written) : written[i].items = t
  BY <1>1, <1>6, Zenon DEF EndsWritten
<1>12. Len(t) >= 1 /\ written[i].seqno = t[1].seqno /\ written[i].seqno \in 1..begun
  BY <1>1, <1>11, Zenon DEF Batches, IsBatch
<1>13. written[i].seqno = rd.seqno
  <2>1. 1 \in 1..m
    BY <1>2, <1>3, <1>14, <1>15, <1>12
  <2>2. e[v + 1 + 1] = t[1] /\ t[1] \in ItemEntry
    BY <1>3, <1>14, <1>15, <1>8, <2>1, Zenon
  <2>3. t[1].tag \in {"item", "clear"}
    BY <2>2, EntryKinds, Zenon
  <2>4. Paired(e)
    BY <1>0, <1>1, Zenon DEF Files
  <2>5. t[1].seqno \in {0, rd.seqno}
    BY <1>3, <1>14, <1>15, <1>5, <2>2, <2>3, <2>4, Zenon DEF Paired
  <2>6. begun \in Nat
    BY <1>1, Zenon DEF HistoryShape
  <2>7. t[1].seqno # 0
    BY <1>12, <2>6
  <2> QED
    BY <1>12, <2>5, <2>7, Zenon
<1> QED
  BY <1>2, <1>3, <1>14, <1>15, <1>6, <1>10, <1>11, <1>13, Zenon

\* It comes after those handed out, and is the next one where none may be missing.
LEMMA BatchNext ==
  ASSUME IInv, AtEntry({"end"}), rd.inBatch, rd.counter = 0, rd.sum = Entry.checksum,
         NEW i \in 1..Len(written), written[i].seqno = rd.seqno, written[i].items = rd.items
  PROVE  /\ \A d \in 1..Len(delivered) : delivered[d].seqno < rd.seqno
         /\ Len(delivered) + 1 <= expect => i = Len(delivered) + 1
<1>1. /\ FileShape /\ ReaderShape /\ Reader /\ ReadSoFar /\ EndsOrdered /\ Batches /\ HistoryShape /\ Handed /\ Ahead
      /\ expect <= Len(written)
  BY Zenon DEF IInv, Reading, AtEntry
<1>2. PICK g, x, v : g = rd.file /\ x = rd.pos + 1 /\ v = rd.lastValid
  BY Zenon
<1>3. IsEnd(g, x) /\ Sum(g, x) = rd.items
  BY <1>2, BatchRead, Zenon
<1>4. g \in Nat /\ x \in Nat /\ v \in Nat /\ v < x /\ rd.pos \in Nat
  <2>1. rd.file \in Nat /\ rd.pos \in Nat /\ rd.lastValid \in Nat /\ rd.lastValid <= rd.pos
    BY <1>1, ReaderFlat, Zenon DEF ReaderShape
  <2> QED
    BY <1>2, <2>1
<1>5. \A k \in 1..Len(written) : written[k].seqno = written[k].items[1].seqno
  BY <1>1, Zenon DEF Batches, IsBatch
<1>6. ASSUME NEW d \in 1..Len(delivered) PROVE delivered[d].seqno < rd.seqno
  <2>1. PICK f, p : IsEnd(f, p) /\ Passed(f, p) /\ Sum(f, p) = delivered[d].items /\ Clean(Ent(f), p)
    BY <1>1, Zenon DEF ReadSoFar
  <2>2. f < g \/ (f = g /\ p <= v)
    BY <1>2, <2>1, Zenon DEF Passed
  <2>3. p <= v => p < x
    <3>1. p \in Nat
      <4>1. f \in 1..Len(files) /\ p \in 1..Len(Ent(f))
        BY <2>1, Zenon DEF IsEnd
      <4>2. Len(Ent(f)) \in Nat
        BY <1>1, <4>1, FileTypes, Zenon
      <4> QED
        BY <4>1, <4>2
    <3> QED
      BY <1>4, <3>1
  <2>4. Before(f, p, g, x)
    BY <2>2, <2>3, Zenon DEF Before
  <2>5. delivered[d].items[1].seqno < rd.items[1].seqno
    BY <1>1, <1>3, <2>1, <2>4, Zenon DEF EndsOrdered
  <2>6. PICK k \in 1..Len(written) : delivered[d] = written[k]
    BY <1>1, Zenon DEF Handed
  <2> QED
    BY <1>5, <2>5, <2>6, Zenon
<1>7. ASSUME Len(delivered) + 1 <= expect PROVE i = Len(delivered) + 1
  <2>1. PICK n, k : n = Len(delivered) /\ k = n + 1
    BY Zenon
  <2>2. n \in Nat /\ Len(written) \in Nat /\ expect \in Nat /\ begun \in Nat
    BY <1>1, <2>1 DEF HistoryShape
  <2>3. k \in 1..Len(written) /\ Len(delivered) < k /\ k <= expect
    BY <1>1, <1>7, <2>1, <2>2
  <2>4. PICK f, p : IsEnd(f, p) /\ ~Passed(f, p) /\ Sum(f, p) = written[k].items
    BY <1>1, <2>3, Zenon DEF Ahead
  <2>5. CASE f = g /\ p = x
    <3>1. written[i].items = written[k].items
      BY <1>3, <2>4, <2>5, Zenon
    <3>2. i = k
      BY <2>3, <3>1, SameItems, Zenon
    <3> QED
      BY <2>1, <3>2, Zenon
  <2>6. CASE ~(f = g /\ p = x)
    <3>1. Before(g, x, f, p)
      <4>1. ~(f < g) /\ ~(f = g /\ p <= v)
        BY <1>2, <2>4, Zenon DEF Passed
      <4>2. f \in 1..Len(files) /\ p \in 1..Len(Ent(f))
        BY <2>4, Zenon DEF IsEnd
      <4>3. Len(files) \in Nat /\ Len(Ent(f)) \in Nat
        BY <1>1, <4>2, FileTypes, Zenon
      <4>4. ASSUME f = g PROVE x < p
        <5>1. IsEnd(rd.file, p) /\ rd.lastValid < p
          BY <1>2, <1>4, <2>4, <4>1, <4>2, <4>3, <4>4
        <5>2. rd.pos < p
          BY <1>1, <5>1, EndsAhead, Zenon
        <5>3. p # x
          BY <2>6, <4>4, Zenon
        <5> QED
          BY <1>2, <1>4, <4>2, <4>3, <5>2, <5>3
      <4>5. f # g => g < f
        BY <1>4, <4>1, <4>2, <4>3
      <4> QED
        BY <4>4, <4>5, Zenon DEF Before
    <3>2. rd.items[1].seqno < written[k].items[1].seqno
      BY <1>1, <1>3, <2>4, <3>1, Zenon DEF EndsOrdered
    <3>3. written[i].seqno < written[k].seqno
      BY <1>5, <2>3, <3>2, Zenon
    <3>4. /\ written[i].seqno \in 1..begun /\ written[k].seqno \in 1..begun
          /\ k < i => written[k].seqno < written[i].seqno
      BY <1>1, <2>3, Zenon DEF Batches, IsBatch
    <3>5. i \in 1..n
      <4>1. ~(k < i) /\ i # k
        BY <2>2, <3>3, <3>4
      <4> QED
        BY <2>1, <2>2, <2>3, <4>1
    <3>6. delivered[i].seqno < rd.seqno
      BY <1>6, <2>1, <3>5, Zenon
    <3>7. i <= expect
      BY <2>1, <2>2, <2>3, <3>5
    <3>8. delivered[i] = written[i]
      BY <1>1, <2>1, <3>5, <3>7, Zenon DEF Handed
    <3> QED
      BY <2>2, <3>4, <3>6, <3>8
  <2> QED
    BY <2>5, <2>6, Zenon
<1> QED
  BY <1>6, <1>7, Zenon

\* Batches as records.
LEMMA BatchMeans ==
  /\ \A b \in Batch : b.seqno \in Nat /\ b.items \in Seq(ItemEntry)
  /\ \A s \in Nat : \A t \in Seq(ItemEntry) : [seqno |-> s, items |-> t] \in Batch
  /\ \A b \in Batch : \A s, t : b.seqno = s /\ b.items = t => [seqno |-> s, items |-> t] = b
  BY DEF Batch

\* A batch more.
LEMMA BatchAppend ==
  ASSUME NEW s \in Seq(Batch), NEW b \in Batch, NEW r, r = Append(s, b), NEW n, n = Len(s)
  PROVE  r \in Seq(Batch) /\ n \in Nat /\ Len(r) = n + 1 /\ r[n + 1] = b /\ \A j \in 1..n : r[j] = s[j]
  OBVIOUS

\* A batch is handed out.
LEMMA DeliverStep ==
  ASSUME IInv, AtEntry({"end"}), rd.inBatch, rd.counter = 0, rd.sum = Entry.checksum, Deliver, ReadFrame
  PROVE  IInv'
<1>1. /\ FileShape /\ ReaderShape /\ Reader /\ ReadSoFar /\ HistoryShape /\ Handed /\ Ahead
      /\ todo = <<>> /\ phase = "reading" /\ kept.buffer = 0 /\ kept.sync = 0 /\ expect <= Len(written)
  BY Zenon DEF IInv, Reading, AtEntry
<1>2. PICK g, x, v, t, b, n : /\ g = rd.file /\ x = rd.pos + 1 /\ v = rd.lastValid /\ t = rd.items
                             /\ b = [seqno |-> rd.seqno, items |-> t] /\ n = Len(delivered)
  BY Zenon
<1>3. IsEnd(g, x) /\ Sum(g, x) = t /\ Clean(Ent(g), x)
  <2>1. IsEnd(rd.file, rd.pos + 1) /\ Sum(rd.file, rd.pos + 1) = rd.items /\ Clean(Ent(rd.file), rd.pos + 1)
    BY BatchRead, Zenon
  <2>2. Ent(g) = Ent(rd.file)
    BY <1>2, Zenon
  <2> QED
    BY <1>2, <2>1, <2>2, Zenon
<1>4. PICK i \in 1..Len(written) : written[i].seqno = rd.seqno /\ written[i].items = t
  BY <1>2, BatchRead, Zenon
<1>5. /\ \A d \in 1..Len(delivered) : delivered[d].seqno < rd.seqno
      /\ Len(delivered) + 1 <= expect => i = Len(delivered) + 1
  BY <1>2, <1>4, BatchNext, Zenon
<1>6. written[i] \in Batch /\ delivered \in Seq(Batch) /\ written \in Seq(Batch)
  BY <1>1, <1>4, SeqElement, Zenon DEF HistoryShape
<1>7. b = written[i] /\ b \in Batch /\ b.seqno = rd.seqno /\ b.items = t
  BY <1>2, <1>4, <1>6, BatchMeans, Zenon
<1>8. /\ rd' = [rd EXCEPT !.inBatch = FALSE, !.counter = 0, !.items = <<>>, !.sum = <<>>, !.pos = @ + 1, !.lastValid = rd.pos + 1]
      /\ delivered' = Append(delivered, b)
  BY <1>2, Zenon DEF Deliver
<1>9. /\ files' = files /\ op' = op /\ todo' = todo /\ flushed' = flushed /\ synced' = synced /\ phase' = phase
      /\ written' = written /\ kept' = kept /\ expect' = expect /\ sound' = sound /\ damaged' = damaged /\ begun' = begun
  BY Zenon DEF Deliver, ReadFrame, file, counts
<1>10. /\ rd'.file = g /\ rd'.pos = x /\ rd'.inBatch = FALSE /\ rd'.counter = 0 /\ rd'.seqno = rd.seqno
       /\ rd'.items = <<>> /\ rd'.sum = <<>> /\ rd'.lastValid = x /\ DOMAIN rd' = DOMAIN rd
  BY <1>1, <1>2, <1>8, Zenon DEF ReaderShape
<1>11. g \in 1..Len(files) /\ x \in Nat /\ v \in Nat /\ v < x /\ x <= Len(Ent(g)) /\ Ent(g)[x].tag = "end" /\ rd.pos \in Nat
  <2>1. rd.pos \in Nat /\ rd.lastValid \in Nat /\ rd.lastValid <= rd.pos /\ Len(Ent(rd.file)) \in Nat
    BY <1>1, ReaderFlat, Zenon
  <2>2. g \in 1..Len(files) /\ x \in 1..Len(Ent(g)) /\ Ent(g)[x].tag = "end"
    BY <1>3, Zenon DEF IsEnd
  <2>3. Len(Ent(g)) \in Nat
    BY <1>2, <2>1, Zenon
  <2> QED
    BY <1>2, <2>1, <2>2, <2>3
<1>12. ReaderShape'
  <2>1. FALSE \in BOOLEAN /\ 0 \in Nat /\ <<>> \in Seq(ItemEntry)
    OBVIOUS
  <2> QED
    BY <1>1, <1>2, <1>10, <1>11, <2>1, Zenon DEF ReaderShape
<1>13. /\ FileShape' /\ Files' /\ EndsWritten' /\ EndsOrdered'
       /\ \A f, p : (IsEnd(f, p)' <=> IsEnd(f, p)) /\ Sum(f, p)' = Sum(f, p)
       /\ \A f : Ent(f)' = Ent(f)
  BY <1>9, FilesKept, Zenon
<1>14. Ent(rd.file)' = Ent(g)
  <2>1. Ent(rd.file)' = files'[g].entries
    BY <1>10, Zenon DEF Ent
  <2> QED
    BY <1>9, <2>1, Zenon DEF Ent
<1>15. Reader'
  <2>1. ~rd'.inBatch
    BY <1>10
  <2> QED
    BY <1>9, <1>10, <1>11, <1>14, <2>1, Zenon DEF Reader
<1>16. WriterShape' /\ Batches' /\ Pending'
  BY <1>1, <1>9, Zenon DEF IInv, WriterShape, Batches, IsBatch, Pending
<1>17. /\ delivered' \in Seq(Batch) /\ n \in Nat /\ Len(delivered') = n + 1
       /\ delivered'[n + 1] = b /\ \A j \in 1..n : delivered'[j] = delivered[j]
       /\ \A j : j \in 1..(n + 1) <=> j \in 1..n \/ j = n + 1
       /\ \A j \in 1..n : j < n + 1 /\ ~(n + 1 < j)
  <2>1. delivered' = Append(delivered, b) /\ delivered \in Seq(Batch) /\ b \in Batch /\ n = Len(delivered)
    BY <1>2, <1>6, <1>7, <1>8, Zenon
  <2>2. /\ delivered' \in Seq(Batch) /\ n \in Nat /\ Len(delivered') = n + 1
        /\ delivered'[n + 1] = b /\ \A j \in 1..n : delivered'[j] = delivered[j]
    <3>1. PICK r, s : r = delivered' /\ s = delivered
      BY Zenon
    <3>2. r \in Seq(Batch) /\ n \in Nat /\ Len(r) = n + 1 /\ r[n + 1] = b /\ \A j \in 1..n : r[j] = s[j]
      <4>1. r = Append(s, b) /\ s \in Seq(Batch) /\ b \in Batch /\ n = Len(s)
        BY <2>1, <3>1, Zenon
      <4> QED
        BY <4>1, BatchAppend
    <3> QED
      BY <3>1, <3>2, Zenon
  <2>3. /\ \A j : j \in 1..(n + 1) <=> j \in 1..n \/ j = n + 1
        /\ \A j \in 1..n : j < n + 1 /\ ~(n + 1 < j)
    BY <2>2
  <2> QED
    BY <2>2, <2>3, Zenon
<1>18. HistoryShape'
  BY <1>1, <1>9, <1>17, Zenon DEF HistoryShape
<1>19. Handed'
  <2>1. ASSUME NEW d \in 1..Len(delivered') PROVE \E j \in 1..Len(written) : delivered'[d] = written[j]
    <3>1. CASE d \in 1..n
      BY <1>1, <1>2, <1>17, <3>1, Zenon DEF Handed
    <3>2. CASE d = n + 1
      BY <1>7, <1>17, <3>2, Zenon
    <3> QED
      BY <1>17, <3>1, <3>2, Zenon
  <2>2. ASSUME NEW d \in 1..Len(delivered'), d <= expect PROVE d <= Len(written) /\ delivered'[d] = written[d]
    <3>1. CASE d \in 1..n
      BY <1>1, <1>2, <1>17, <2>2, <3>1, Zenon DEF Handed
    <3>2. CASE d = n + 1
      <4>1. i = n + 1
        BY <1>2, <1>5, <2>2, <3>2, Zenon
      <4>2. i <= Len(written)
        OBVIOUS
      <4> QED
        BY <1>7, <1>17, <3>2, <4>1, <4>2, Zenon
    <3> QED
      BY <1>17, <3>1, <3>2, Zenon
  <2>3. ASSUME NEW c \in 1..Len(delivered'), NEW d \in 1..Len(delivered'), c < d
        PROVE  delivered'[c].seqno < delivered'[d].seqno
    <3>1. CASE c \in 1..n /\ d \in 1..n
      BY <1>1, <1>2, <1>17, <2>3, <3>1, Zenon DEF Handed
    <3>2. CASE c \in 1..n /\ d = n + 1
      BY <1>2, <1>5, <1>7, <1>17, <3>2, Zenon
    <3>3. c # n + 1
      BY <1>17, <2>3
    <3> QED
      BY <1>17, <3>1, <3>2, <3>3, Zenon
  <2> QED
    BY <1>9, <2>1, <2>2, <2>3, Zenon DEF Handed
<1>20. \A f, p : IsEnd(f, p) => (Passed(f, p)' <=> Passed(f, p) \/ (f = g /\ p = x))
  <2> SUFFICES ASSUME NEW f, NEW p, IsEnd(f, p) PROVE Passed(f, p)' <=> Passed(f, p) \/ (f = g /\ p = x)
    BY Zenon
  <2>1. Passed(f, p)' <=> f < g \/ (f = g /\ p <= x)
    BY <1>10, Zenon DEF Passed
  <2>2. Passed(f, p) <=> f < g \/ (f = g /\ p <= v)
    BY <1>2, Zenon DEF Passed
  <2>3. ASSUME f = g PROVE p <= x <=> p <= v \/ p = x
    <3>1. p \in Nat
      BY <1>1, <1>11, <2>3, FileTypes DEF IsEnd
    <3>2. ASSUME v < p PROVE x <= p
      <4>1. rd.pos < p
        BY <1>1, <1>2, <2>3, <3>2, EndsAhead, Zenon
      <4> QED
        BY <1>2, <1>11, <3>1, <4>1
    <3> QED
      BY <1>11, <3>1, <3>2
  <2> QED
    BY <2>1, <2>2, <2>3, Zenon
<1>21. ReadSoFar'
  <2>1. \A f \in 1..(g - 1) : Clean(Ent(f), Len(Ent(f)))
    BY <1>1, <1>2, Zenon DEF ReadSoFar
  <2>2. \A f \in 1..(rd'.file - 1) : Clean(Ent(f)', Len(Ent(f)'))
    BY <1>10, <1>13, <2>1, Zenon
  <2>3. Clean(Ent(rd.file)', rd'.lastValid)
    BY <1>3, <1>10, <1>14, Zenon
  <2>4. ASSUME NEW f, NEW p, IsEnd(f, p), Passed(f, p) \/ (f = g /\ p = x)
        PROVE  \E d \in 1..Len(delivered') : delivered'[d].items = Sum(f, p)
    <3>1. CASE Passed(f, p)
      <4>1. PICK d \in 1..Len(delivered) : delivered[d].items = Sum(f, p)
        BY <1>1, <2>4, <3>1, Zenon DEF ReadSoFar
      <4> QED
        BY <1>2, <1>17, <4>1, Zenon
    <3>2. CASE f = g /\ p = x
      BY <1>3, <1>7, <1>17, <3>2, Zenon
    <3> QED
      BY <2>4, <3>1, <3>2, Zenon
  <2>5. ASSUME NEW d \in 1..Len(delivered')
        PROVE  \E f, p : IsEnd(f, p) /\ Passed(f, p)' /\ Sum(f, p) = delivered'[d].items /\ Clean(Ent(f), p)
    <3>1. CASE d \in 1..n
      <4>1. PICK f, p : IsEnd(f, p) /\ Passed(f, p) /\ Sum(f, p) = delivered[d].items /\ Clean(Ent(f), p)
        BY <1>1, <1>2, <3>1, Zenon DEF ReadSoFar
      <4> QED
        BY <1>17, <1>20, <3>1, <4>1, Zenon
    <3>2. CASE d = n + 1
      <4>1. Passed(g, x)'
        BY <1>3, <1>20, Zenon
      <4> QED
        BY <1>3, <1>7, <1>17, <3>2, <4>1, Zenon
    <3> QED
      BY <1>17, <3>1, <3>2, Zenon
  <2>6. \A f, p : IsEnd(f, p)' /\ Passed(f, p)' => \E d \in 1..Len(delivered') : delivered'[d].items = Sum(f, p)'
    BY <1>13, <1>20, <2>4, Zenon
  <2>7. \A d \in 1..Len(delivered') :
          \E f, p : IsEnd(f, p)' /\ Passed(f, p)' /\ Sum(f, p)' = delivered'[d].items /\ Clean(Ent(f)', p)
    BY <1>13, <2>5, Zenon
  <2> QED
    BY <2>2, <2>3, <2>6, <2>7, Zenon DEF ReadSoFar
<1>22. Ahead'
  <2>1. ASSUME NEW k \in 1..Len(written), n + 1 < k, k <= expect
        PROVE  \E f, p : IsEnd(f, p) /\ ~Passed(f, p)' /\ Sum(f, p) = written[k].items /\ Clean(Ent(f), p)
    <3>1. Len(delivered) < k /\ n + 1 <= expect /\ k # n + 1
      BY <1>1, <1>2, <1>17, <2>1 DEF HistoryShape
    <3>2. PICK f, p : IsEnd(f, p) /\ ~Passed(f, p) /\ Sum(f, p) = written[k].items /\ Clean(Ent(f), p)
      BY <1>1, <2>1, <3>1, Zenon DEF Ahead
    <3>3. i = n + 1
      BY <1>2, <1>5, <3>1, Zenon
    <3>4. ~(f = g /\ p = x)
      <4> SUFFICES ASSUME f = g /\ p = x PROVE FALSE
        BY Zenon
      <4>1. written[k].items = written[i].items
        BY <1>3, <1>4, <3>2, Zenon
      <4>2. k = i
        BY <2>1, <4>1, SameItems, Zenon
      <4> QED
        BY <3>1, <3>3, <4>2, Zenon
    <3> QED
      BY <1>20, <3>2, <3>4, Zenon
  <2>2. \A k \in 1..Len(written') : Len(delivered') < k /\ k <= expect' =>
          \E f, p : IsEnd(f, p)' /\ ~Passed(f, p)' /\ Sum(f, p)' = written'[k].items /\ Clean(Ent(f)', p)
    BY <1>9, <1>13, <1>17, <2>1, Zenon
  <2> QED
    BY <2>2, Zenon DEF Ahead
<1>23. Reading'
  BY <1>1, <1>9, <1>15, <1>21, <1>22, Zenon DEF Reading
<1> QED
  BY <1>1, <1>9, <1>12, <1>13, <1>16, <1>18, <1>19, <1>23 DEF IInv

\* The file that is closed keeps the batches read, and nothing else.
LEMMA CloseFile ==
  ASSUME IInv, phase = "reading", Close(rd.lastValid), UNCHANGED damaged
  PROVE  /\ FileShape' /\ Files' /\ EndsOrdered' /\ Len(files') = Len(files)
         /\ files'[rd.file].padded = FALSE /\ Len(files'[rd.file].entries) = rd.lastValid
         /\ Clean(files'[rd.file].entries, rd.lastValid)
         /\ \A f \in 1..Len(files) : f # rd.file => Ent(f)' = Ent(f)
         /\ \A f, p : IsEnd(f, p)' => IsEnd(f, p) /\ Sum(f, p)' = Sum(f, p) /\ (f # rd.file \/ p <= rd.lastValid)
         /\ \A f, p : IsEnd(f, p) /\ Clean(Ent(f), p) /\ (f # rd.file \/ p <= rd.lastValid)
                         => IsEnd(f, p)' /\ Sum(f, p)' = Sum(f, p) /\ Clean(Ent(f)', p)
<1>1. FileShape /\ ReaderShape /\ Reader /\ ReadSoFar /\ Files /\ EndsOrdered
  BY Zenon DEF IInv, Reading
<1>2. PICK g, v, e, d, r : /\ g = rd.file /\ v = rd.lastValid /\ e = Ent(rd.file) /\ d = SubSeq(e, 1, v)
                          /\ r = [entries |-> d, padded |-> FALSE]
  BY Zenon
<1>3. /\ g \in 1..Len(files) /\ e \in Seq(Entries) /\ v \in Nat /\ Len(e) \in Nat /\ Clean(e, v) /\ e = Ent(g)
      /\ rd.pos \in Nat /\ rd.lastValid <= rd.pos /\ rd.pos <= Len(e)
  BY <1>1, <1>2, ReaderFlat, Zenon DEF ReadSoFar
<1>4. v <= Len(e) /\ v \in 0..Len(e)
  BY <1>2, <1>3
<1>5. d \in Seq(Entries) /\ Len(d) = v /\ \A j \in 1..v : d[j] = e[j]
  BY <1>2, <1>3, <1>4
<1>6. r \in [entries : Seq(Entries), padded : BOOLEAN] /\ r.entries = d /\ r.padded = FALSE
  BY <1>2, <1>5
<1>7. files' = [files EXCEPT ![g] = r]
  BY <1>2, Zenon DEF Close, Ent
<1>8. /\ FileShape' /\ Len(files') = Len(files) /\ files'[g] = r /\ Ent(g)' = d
      /\ \A f \in 1..Len(files) : f # g => files'[f] = files[f] /\ Ent(f)' = Ent(f)
  BY <1>1, <1>3, <1>6, <1>7, OneFile, Zenon
<1>9. Clean(d, v)
  BY <1>3, <1>4, <1>5, CleanSame, Zenon
<1>10. \A j \in 1..v : j \in 1..Len(e)
  BY <1>3, <1>4
<1>11. \A f, p : IsEnd(f, p)' => IsEnd(f, p) /\ Sum(f, p)' = Sum(f, p)
  <2>1. \A p \in 1..Len(Ent(g)') : Ent(g)'[p].tag = "end" => p \in 1..Len(Ent(g)) /\ Ent(g)'[p] = Ent(g)[p]
    BY <1>3, <1>5, <1>8, <1>10, Zenon
  <2>2. \A f \in 1..Len(files) : f # g => Ent(f)' = Ent(f)
    BY <1>8, Zenon
  <2> QED
    BY <1>8, <2>1, <2>2, NoNewEnds, Zenon
<1>12. \A f, p : IsEnd(f, p)' => f # g \/ p <= v
  <2>1. \A p \in 1..v : p <= v
    BY <1>3
  <2> QED
    BY <1>5, <1>8, <2>1, Zenon DEF IsEnd
<1>13. EndsOrdered'
  BY <1>1, <1>11, OrderKept, Zenon
<1>14. Files'
  <2> SUFFICES ASSUME NEW f \in 1..Len(files') PROVE Paired(Ent(f)') /\ (~damaged' => Grammar(Ent(f)'))
    BY Zenon DEF Files
  <2>1. f \in 1..Len(files)
    BY <1>8, Zenon
  <2>2. Paired(Ent(f)) /\ (~damaged => Grammar(Ent(f)))
    BY <1>1, <2>1, Zenon DEF Files
  <2>3. damaged' <=> damaged
    OBVIOUS
  <2>4. CASE f # g
    <3>1. Ent(f)' = Ent(f)
      BY <1>8, <2>1, <2>4, Zenon
    <3> QED
      BY <2>2, <2>3, <3>1, Zenon
  <2>5. CASE f = g
    <3>1. Paired(e) /\ (~damaged => Grammar(e)) /\ Ent(f)' = d
      BY <1>3, <1>8, <2>2, <2>5, Zenon
    <3>2. (Grammar(e) => Grammar(d)) /\ (Paired(e) => Paired(d))
      BY <1>3, <1>4, <1>5, CutFile, Zenon
    <3> QED
      BY <2>3, <3>1, <3>2, Zenon
  <2> QED
    BY <2>4, <2>5, Zenon
<1>15. ASSUME NEW f, NEW p, IsEnd(f, p), Clean(Ent(f), p), f # g \/ p <= v
       PROVE  IsEnd(f, p)' /\ Sum(f, p)' = Sum(f, p) /\ Clean(Ent(f)', p)
  <2>1. v <= Len(Ent(g)') /\ Len(Ent(g)') \in Nat
    BY <1>3, <1>5, <1>8
  <2>2. \A j \in 1..v : j <= Len(Ent(g)) => Ent(g)'[j] = Ent(g)[j]
    BY <1>3, <1>5, <1>8, Zenon
  <2>3. \A h \in 1..Len(files) : h # g => Ent(h)' = Ent(h)
    BY <1>8, Zenon
  <2> QED
    BY <1>1, <1>3, <1>8, <1>15, <2>1, <2>2, <2>3, EndStays, Zenon
<1> QED
  BY <1>2, <1>5, <1>6, <1>8, <1>9, <1>11, <1>12, <1>13, <1>14, <1>15, Zenon

\* The reader closes a file that is not the last one.
LEMMA CloseNext ==
  ASSUME IInv, phase = "reading", Close(rd.lastValid), ReadFrame, rd.file # Len(files),
         \A p : IsEnd(rd.file, p) /\ rd.lastValid < p => ~Clean(Ent(rd.file), p)
  PROVE  IInv'
<1>1. /\ FileShape /\ ReaderShape /\ Reader /\ ReadSoFar /\ HistoryShape /\ Handed /\ Ahead /\ EndsWritten /\ EndsOrdered
      /\ todo = <<>> /\ kept.buffer = 0 /\ kept.sync = 0 /\ expect <= Len(written)
  BY Zenon DEF IInv, Reading
<1>2. PICK g, v : g = rd.file /\ v = rd.lastValid
  BY Zenon
<1>3. /\ rd' = NewReader(g + 1) /\ op' = op /\ todo' = todo /\ flushed' = flushed /\ synced' = synced /\ phase' = phase
      /\ written' = written /\ kept' = kept /\ expect' = expect /\ sound' = sound /\ damaged' = damaged /\ begun' = begun
      /\ delivered' = delivered
  BY <1>2, Zenon DEF Close, ReadFrame, counts
<1>4. /\ FileShape' /\ Files' /\ EndsOrdered' /\ Len(files') = Len(files)
      /\ Len(Ent(g)') = v /\ Clean(Ent(g)', v)
      /\ \A f \in 1..Len(files) : f # g => Ent(f)' = Ent(f)
      /\ \A f, p : IsEnd(f, p)' => IsEnd(f, p) /\ Sum(f, p)' = Sum(f, p) /\ (f # g \/ p <= v)
      /\ \A f, p : IsEnd(f, p) /\ Clean(Ent(f), p) /\ (f # g \/ p <= v)
                      => IsEnd(f, p)' /\ Sum(f, p)' = Sum(f, p) /\ Clean(Ent(f)', p)
  <2>1. Ent(g)' = files'[rd.file].entries
    BY <1>2, Zenon DEF Ent
  <2> QED
    BY <1>2, <1>3, <2>1, CloseFile, Zenon
<1>5. g \in 1..Len(files) /\ v \in Nat /\ Len(files) \in Nat
  BY <1>1, <1>2, ReaderFlat, FileTypes, Zenon
<1>6. g + 1 \in 1..Len(files) /\ g + 1 \in Nat /\ g + 1 - 1 = g /\ g # Len(files)
  BY <1>2, <1>5
<1>7. /\ rd'.file = g + 1 /\ rd'.pos = 0 /\ rd'.inBatch = FALSE /\ rd'.counter = 0 /\ rd'.seqno = 0
      /\ rd'.items = <<>> /\ rd'.sum = <<>> /\ rd'.lastValid = 0
      /\ DOMAIN rd' = {"file", "pos", "inBatch", "counter", "seqno", "items", "sum", "lastValid"}
  BY <1>3 DEF NewReader
<1>8. ReaderShape'
  <2>1. FALSE \in BOOLEAN /\ 0 \in Nat /\ <<>> \in Seq(ItemEntry)
    OBVIOUS
  <2> QED
    BY <1>6, <1>7, <2>1, Zenon DEF ReaderShape
<1>9. Len(Ent(rd.file)') \in Nat
  <2>2. \A f \in 1..Len(files') : Len(Ent(f)') \in Nat
    BY <1>4, NextFileTypes, Zenon
  <2>3. PICK h : h = g + 1
    BY Zenon
  <2>4. Len(Ent(h)') \in Nat
    BY <1>4, <1>6, <2>2, <2>3, Zenon
  <2>5. Ent(rd.file)' = Ent(h)'
    BY <1>7, <2>3, Zenon DEF Ent
  <2> QED
    BY <2>4, <2>5, Zenon
<1>10. Reader'
  <2>1. ~rd'.inBatch /\ 0 <= Len(Ent(rd.file)')
    BY <1>7, <1>9
  <2> QED
    BY <1>4, <1>6, <1>7, <2>1, Zenon DEF Reader
<1>11. WriterShape' /\ HistoryShape' /\ Batches' /\ Pending' /\ Handed'
  BY <1>1, <1>3, Zenon DEF IInv, WriterShape, HistoryShape, Batches, IsBatch, Pending, Handed
<1>12. EndsWritten'
  <2>1. Len(written) \in Nat /\ Len(written) <= Len(written)
    BY <1>1 DEF HistoryShape
  <2> QED
    BY <1>1, <1>3, <1>4, <2>1, EndsKept, Zenon
<1>13. \A f, p : IsEnd(f, p) => (Passed(f, p)' <=> f < g \/ f = g)
  <2> SUFFICES ASSUME NEW f, NEW p, IsEnd(f, p) PROVE Passed(f, p)' <=> f < g \/ f = g
    BY Zenon
  <2>1. Passed(f, p)' <=> f < g + 1 \/ (f = g + 1 /\ p <= 0)
    BY <1>7, Zenon DEF Passed
  <2>2. f \in 1..Len(files) /\ p \in 1..Len(Ent(f))
    BY Zenon DEF IsEnd
  <2>3. Len(Ent(f)) \in Nat
    BY <1>1, <2>2, FileTypes, Zenon
  <2>4. ~(p <= 0)
    BY <2>2, <2>3
  <2>5. f < g + 1 <=> f < g \/ f = g
    BY <1>5, <2>2
  <2> QED
    BY <2>1, <2>4, <2>5, Zenon
<1>14. \A f, p : Passed(f, p) <=> f < g \/ (f = g /\ p <= v)
  BY <1>2, Zenon DEF Passed
<1>15. ReadSoFar'
  <2>1. \A f \in 1..(g - 1) : f \in 1..Len(files) /\ f # g
    BY <1>5
  <2>2. \A f \in 1..(g - 1) : Clean(Ent(f)', Len(Ent(f)'))
    BY <1>1, <1>2, <1>4, <2>1, Zenon DEF ReadSoFar
  <2>3. \A f \in 1..g : f \in 1..(g - 1) \/ f = g
    BY <1>5
  <2>4. \A f \in 1..(rd'.file - 1) : Clean(Ent(f)', Len(Ent(f)'))
    <3>1. rd'.file - 1 = g
      BY <1>5, <1>7
    <3>2. \A f \in 1..g : Clean(Ent(f)', Len(Ent(f)'))
      BY <1>4, <2>2, <2>3, Zenon
    <3> QED
      BY <3>1, <3>2, Zenon
  <2>5. Clean(Ent(rd.file)', rd'.lastValid)
    <3>1. 1..0 = {}
      OBVIOUS
    <3> QED
      BY <1>7, <3>1, Zenon DEF Clean
  <2>6. ASSUME NEW f, NEW p, IsEnd(f, p)', Passed(f, p)'
        PROVE  \E i \in 1..Len(delivered) : delivered[i].items = Sum(f, p)'
    <3>1. IsEnd(f, p) /\ Sum(f, p)' = Sum(f, p) /\ (f # g \/ p <= v)
      BY <1>4, <2>6, Zenon
    <3>2. Passed(f, p)
      BY <1>13, <1>14, <2>6, <3>1, Zenon
    <3> QED
      BY <1>1, <3>1, <3>2, Zenon DEF ReadSoFar
  <2>7. ASSUME NEW i \in 1..Len(delivered)
        PROVE  \E f, p : IsEnd(f, p)' /\ Passed(f, p)' /\ Sum(f, p)' = delivered[i].items /\ Clean(Ent(f)', p)
    <3>1. PICK f, p : IsEnd(f, p) /\ Passed(f, p) /\ Sum(f, p) = delivered[i].items /\ Clean(Ent(f), p)
      BY <1>1, Zenon DEF ReadSoFar
    <3>2. f < g \/ (f = g /\ p <= v)
      BY <1>14, <3>1, Zenon
    <3>3. f # g \/ p <= v
      BY <1>5, <3>2
    <3> QED
      BY <1>4, <1>13, <3>1, <3>2, <3>3, Zenon
  <2> QED
    BY <1>3, <2>4, <2>5, <2>6, <2>7, Zenon DEF ReadSoFar
<1>16. Ahead'
  <2>1. ASSUME NEW i \in 1..Len(written), Len(delivered) < i, i <= expect
        PROVE  \E f, p : IsEnd(f, p)' /\ ~Passed(f, p)' /\ Sum(f, p)' = written[i].items /\ Clean(Ent(f)', p)
    <3>1. PICK f, p : IsEnd(f, p) /\ ~Passed(f, p) /\ Sum(f, p) = written[i].items /\ Clean(Ent(f), p)
      BY <1>1, <2>1, Zenon DEF Ahead
    <3>2. f # g
      <4> SUFFICES ASSUME f = g PROVE FALSE
        BY Zenon
      <4>1. p \in 1..Len(Ent(f)) /\ f \in 1..Len(files)
        BY <3>1, Zenon DEF IsEnd
      <4>2. Len(Ent(f)) \in Nat
        BY <1>1, <4>1, FileTypes, Zenon
      <4>3. ~(p <= v)
        BY <1>14, <3>1, Zenon
      <4>4. v < p
        BY <1>5, <4>1, <4>2, <4>3
      <4>5. Clean(Ent(rd.file), p) /\ IsEnd(rd.file, p)
        BY <1>2, <3>1, Zenon
      <4> QED
        BY <1>2, <4>4, <4>5, Zenon
    <3>3. ~Passed(f, p)'
      BY <1>13, <1>14, <3>1, <3>2, Zenon
    <3> QED
      BY <1>4, <3>1, <3>2, <3>3, Zenon
  <2> QED
    BY <1>3, <2>1, Zenon DEF Ahead
<1>17. Reading'
  BY <1>1, <1>3, <1>10, <1>15, <1>16, Zenon DEF Reading
<1> QED
  BY <1>3, <1>4, <1>8, <1>11, <1>12, <1>17 DEF IInv

\* The reader closes the last file, and the database is open.
LEMMA CloseLast ==
  ASSUME IInv, phase = "reading", Close(rd.lastValid), ReadFrame, rd.file = Len(files),
         \A p : IsEnd(rd.file, p) /\ rd.lastValid < p => ~Clean(Ent(rd.file), p)
  PROVE  IInv'
<1>1. /\ FileShape /\ ReaderShape /\ Reader /\ ReadSoFar /\ HistoryShape /\ Handed /\ Ahead /\ Batches /\ WriterShape
      /\ todo = <<>> /\ expect <= Len(written)
  BY Zenon DEF IInv, Reading
<1>2. PICK g, v, n : g = rd.file /\ v = rd.lastValid /\ n = Len(delivered)
  BY Zenon
<1>3. /\ rd' = rd /\ op' = op /\ todo' = todo /\ flushed' = v /\ synced' = v /\ phase' = "up"
      /\ written' = delivered /\ kept' = [buffer |-> n, sync |-> n] /\ expect' = expect /\ sound' = sound
      /\ damaged' = damaged /\ begun' = begun /\ delivered' = delivered
  BY <1>2, Zenon DEF Close, ReadFrame, counts
<1>4. /\ FileShape' /\ Files' /\ EndsOrdered' /\ Len(files') = Len(files) /\ files'[g].padded = FALSE
      /\ Len(Ent(g)') = v /\ Clean(Ent(g)', v)
      /\ \A f \in 1..Len(files) : f # g => Ent(f)' = Ent(f)
      /\ \A f, p : IsEnd(f, p)' => IsEnd(f, p) /\ Sum(f, p)' = Sum(f, p) /\ (f # g \/ p <= v)
      /\ \A f, p : IsEnd(f, p) /\ Clean(Ent(f), p) /\ (f # g \/ p <= v)
                      => IsEnd(f, p)' /\ Sum(f, p)' = Sum(f, p) /\ Clean(Ent(f)', p)
  <2>1. Ent(g)' = files'[rd.file].entries
    BY <1>2, Zenon DEF Ent
  <2> QED
    BY <1>2, <1>3, <2>1, CloseFile, Zenon
<1>5. g \in 1..Len(files) /\ v \in Nat /\ Len(files) \in Nat /\ g = Len(files)
  BY <1>1, <1>2, ReaderFlat, FileTypes, Zenon
<1>6. \A f, p : Passed(f, p) <=> f < g \/ (f = g /\ p <= v)
  BY <1>2, Zenon DEF Passed
<1>7. n \in Nat /\ expect \in Nat /\ Len(written) \in Nat /\ sound \in Nat
  BY <1>1, <1>2 DEF HistoryShape
<1>8. expect <= n
  <2> SUFFICES ASSUME n < expect PROVE FALSE
    BY <1>7
  <2>1. PICK k : k = n + 1
    BY Zenon
  <2>2. k \in 1..Len(written) /\ n < k /\ k <= expect
    BY <1>1, <1>7, <2>1
  <2>3. PICK f, p : IsEnd(f, p) /\ ~Passed(f, p) /\ Sum(f, p) = written[k].items /\ Clean(Ent(f), p)
    BY <1>1, <1>2, <2>2, Zenon DEF Ahead
  <2>4. p \in 1..Len(Ent(f)) /\ f \in 1..Len(files)
    BY <2>3, Zenon DEF IsEnd
  <2>5. Len(Ent(f)) \in Nat
    BY <1>1, <2>4, FileTypes, Zenon
  <2>6. ~(f < g) /\ ~(f = g /\ p <= v)
    BY <1>6, <2>3, Zenon
  <2>7. f = g /\ v < p
    BY <1>5, <2>4, <2>5, <2>6
  <2>8. Clean(Ent(rd.file), p) /\ IsEnd(rd.file, p)
    BY <1>2, <2>3, <2>7, Zenon
  <2> QED
    BY <1>2, <2>7, <2>8, Zenon
<1>9. WriterShape' /\ ReaderShape' /\ HistoryShape'
  <2>1. WriterShape'
    BY <1>1, <1>3, <1>5, Zenon DEF WriterShape
  <2>2. ReaderShape'
    BY <1>1, <1>3, Zenon DEF ReaderShape
  <2>3. kept' \in [buffer : Nat, sync : Nat]
    BY <1>3, <1>7
  <2>4. HistoryShape'
    BY <1>1, <1>3, <2>3, Zenon DEF HistoryShape
  <2> QED
    BY <2>1, <2>2, <2>4, Zenon
<1>10. Batches'
  BY <1>1, <1>3, ZenonT(30) DEF Batches, IsBatch, Handed
<1>11. Pending'
  BY <1>1, <1>3, Zenon DEF Pending
<1>12. Handed'
  <2>1. \A i \in 1..Len(delivered) : i <= Len(delivered)
    BY <1>2, <1>7
  <2> QED
    BY <1>1, <1>3, <2>1, Zenon DEF Handed
<1>13. EndsWritten'
  <2>1. ASSUME NEW f, NEW p, IsEnd(f, p)' PROVE \E i \in 1..Len(delivered) : delivered[i].items = Sum(f, p)'
    <3>1. IsEnd(f, p) /\ Sum(f, p)' = Sum(f, p) /\ (f # g \/ p <= v)
      BY <1>4, <2>1, Zenon
    <3>2. f \in 1..Len(files)
      BY <3>1, Zenon DEF IsEnd
    <3>3. f < g \/ f = g
      BY <1>5, <3>2
    <3>4. Passed(f, p)
      BY <1>6, <3>1, <3>3, Zenon
    <3> QED
      BY <1>1, <3>1, <3>4, Zenon DEF ReadSoFar
  <2> QED
    BY <1>3, <2>1, Zenon DEF EndsWritten
<1>14. Active' = files'[g]
  BY <1>4, <1>5, Zenon DEF Active
<1>15. Tidy'
  <2>1. \A f \in 1..(g - 1) : f \in 1..Len(files) /\ f # g
    BY <1>5
  <2>2. \A f \in 1..(g - 1) : Clean(Ent(f)', Len(Ent(f)'))
    BY <1>1, <1>2, <1>4, <2>1, Zenon DEF ReadSoFar
  <2>3. Base' = Len(Active'.entries) /\ Active'.entries = Ent(g)'
    BY <1>1, <1>3, <1>14, Zenon DEF Base, Ent
  <2> QED
    BY <1>4, <1>5, <2>2, <2>3, Zenon DEF Tidy
<1>16. ASSUME NEW i \in 1..Len(delivered)
       PROVE  \E f, p : /\ IsEnd(f, p)' /\ Sum(f, p)' = delivered[i].items /\ Clean(Ent(f)', p)
                        /\ f < Len(files) \/ p <= v
  <2>1. PICK f, p : IsEnd(f, p) /\ Passed(f, p) /\ Sum(f, p) = delivered[i].items /\ Clean(Ent(f), p)
    BY <1>1, Zenon DEF ReadSoFar
  <2>2. f < g \/ (f = g /\ p <= v)
    BY <1>6, <2>1, Zenon
  <2>3. f # g \/ p <= v
    BY <1>5, <2>2
  <2> QED
    BY <1>4, <1>5, <2>1, <2>2, <2>3, Zenon
<1>17. Up'
  <2>1. kept'.buffer = n /\ kept'.sync = n
    BY <1>3, Zenon
  <2>2. n <= n
    BY <1>7
  <2>3. ~Active'.padded
    BY <1>4, <1>14
  <2> QED
    BY <1>2, <1>3, <1>4, <1>8, <1>15, <1>16, <2>1, <2>2, <2>3, Zenon DEF Up
<1> QED
  BY <1>3, <1>4, <1>9, <1>10, <1>11, <1>12, <1>13, <1>17 DEF IInv

\* Closing a file is right where no whole batch can follow.
LEMMA CloseStep ==
  ASSUME IInv, phase = "reading", Close(rd.lastValid), ReadFrame,
         \A p : IsEnd(rd.file, p) /\ rd.lastValid < p => ~Clean(Ent(rd.file), p)
  PROVE  IInv'
  BY CloseNext, CloseLast, Zenon

\* The entry that the reader is about to decode.
LEMMA AtMeans ==
  ASSUME FileShape, ReaderShape, Reader, NEW T, AtEntry(T)
  PROVE  /\ phase = "reading" /\ rd.pos < Len(Ent(rd.file))
         /\ Ent(rd.file)[rd.pos + 1].tag \in T /\ Entry = Ent(rd.file)[rd.pos + 1]
  BY Zenon DEF AtEntry, Entry, Ent

\* JournalReader::next finds the end, or what does not decode.
LEMMA ReadTailIInv == IInv /\ ReadTail => IInv'
<1> SUFFICES ASSUME IInv, ReadTail PROVE IInv'
  OBVIOUS
<1>1. phase = "reading" /\ ReadFrame /\ Close(IF rd.inBatch THEN rd.lastValid ELSE rd.pos)
      /\ (rd.pos = Len(files[rd.file].entries) \/ AtEntry({"torn"}))
  BY Zenon DEF ReadTail
<1>2. FileShape /\ ReaderShape /\ Reader
  BY <1>1, Zenon DEF IInv, Reading
<1>3. (IF rd.inBatch THEN rd.lastValid ELSE rd.pos) = rd.lastValid
  BY <1>2, ReaderFlat, Zenon
<1>4. Close(rd.lastValid)
  BY <1>1, <1>3, Zenon
<1>5. ASSUME NEW p, IsEnd(rd.file, p), rd.lastValid < p, Clean(Ent(rd.file), p) PROVE FALSE
  <2>1. /\ rd.pos < Len(Ent(rd.file))
        /\ rd.inBatch => Ent(rd.file)[rd.pos + 1].tag \in {"item", "clear", "end"}
        /\ ~rd.inBatch => Ent(rd.file)[rd.pos + 1].tag = "start"
    BY <1>2, <1>5, GoesOn, Zenon
  <2>2. rd.pos # Len(Ent(rd.file))
    BY <1>2, <2>1, ReaderFlat
  <2>3. AtEntry({"torn"})
    BY <1>1, <2>2, Zenon DEF Ent
  <2>4. Ent(rd.file)[rd.pos + 1].tag = "torn"
    BY <2>3 DEF AtEntry, Ent
  <2> QED
    BY <2>1, <2>4, Zenon
<1> QED
  BY <1>1, <1>4, <1>5, CloseStep, Zenon

\* Entry::Start is read.
LEMMA ReadStartIInv == IInv /\ ReadStart => IInv'
<1> SUFFICES ASSUME IInv, ReadStart PROVE IInv'
  OBVIOUS
<1>1. AtEntry({"start"}) /\ ReadFrame /\ phase = "reading"
      /\ (rd.inBatch => Close(rd.lastValid))
      /\ (~rd.inBatch => Step([rd EXCEPT !.inBatch = TRUE, !.counter = Entry.count, !.seqno = Entry.seqno]))
  BY Zenon DEF ReadStart, AtEntry
<1>2. CASE ~rd.inBatch
  BY <1>1, <1>2, StartStep, Zenon
<1>3. CASE rd.inBatch
  <2>1. FileShape /\ ReaderShape /\ Reader
    BY <1>1, Zenon DEF IInv, Reading
  <2>2. Ent(rd.file)[rd.pos + 1].tag = "start"
    BY <1>1 DEF AtEntry, Ent
  <2>3. ASSUME NEW p, IsEnd(rd.file, p), rd.lastValid < p, Clean(Ent(rd.file), p) PROVE FALSE
    <3>1. Ent(rd.file)[rd.pos + 1].tag \in {"item", "clear", "end"}
      BY <1>3, <2>1, <2>3, GoesOn, Zenon
    <3> QED
      BY <2>2, <3>1, Zenon
  <2> QED
    BY <1>1, <1>3, <2>3, CloseStep, Zenon
<1> QED
  BY <1>2, <1>3, Zenon

\* Entry::Item or Entry::Clear is read.
LEMMA ReadItemIInv == IInv /\ ReadItem => IInv'
<1> SUFFICES ASSUME IInv, ReadItem PROVE IInv'
  OBVIOUS
<1>1. AtEntry({"item", "clear"}) /\ ReadFrame /\ phase = "reading"
      /\ (~rd.inBatch => Close(rd.lastValid))
      /\ (rd.inBatch /\ rd.counter = 0 => Error)
      /\ (rd.inBatch /\ rd.counter # 0 =>
            Step([rd EXCEPT !.counter = @ - 1, !.items = Append(@, Entry), !.sum = Append(@, Entry)]))
  BY Zenon DEF ReadItem, AtEntry
<1>2. FileShape /\ ReaderShape /\ Reader /\ Files
  BY <1>1, Zenon DEF IInv, Reading
<1>3. Ent(rd.file)[rd.pos + 1].tag \in {"item", "clear"} /\ rd.pos < Len(Ent(rd.file)) /\ rd.file \in 1..Len(files)
  BY <1>1, <1>2, AtMeans, ReaderFlat, Zenon
<1>4. CASE rd.inBatch /\ rd.counter # 0
  BY <1>1, <1>4, ItemStep, Zenon
<1>5. CASE rd.inBatch /\ rd.counter = 0
  <2>1. damaged
    BY <1>2, <1>3, <1>5, NoSurplus, Zenon DEF Files
  <2> QED
    BY <1>1, <1>5, <2>1, ErrorStep, Zenon
<1>6. CASE ~rd.inBatch
  <2>1. ASSUME NEW p, IsEnd(rd.file, p), rd.lastValid < p, Clean(Ent(rd.file), p) PROVE FALSE
    <3>1. Ent(rd.file)[rd.pos + 1].tag = "start"
      BY <1>2, <1>6, <2>1, GoesOn, Zenon
    <3> QED
      BY <1>3, <3>1, Zenon
  <2> QED
    BY <1>1, <1>6, <2>1, CloseStep, Zenon
<1> QED
  BY <1>4, <1>5, <1>6, Zenon

\* Entry::End is read.
LEMMA ReadEndIInv == IInv /\ ReadEnd => IInv'
<1> SUFFICES ASSUME IInv, ReadEnd PROVE IInv'
  OBVIOUS
<1>1. AtEntry({"end"}) /\ ReadFrame /\ phase = "reading"
      /\ (rd.counter > 0 => Error)
      /\ (~(rd.counter > 0) /\ ~rd.inBatch => Close(rd.lastValid))
      /\ (~(rd.counter > 0) /\ rd.inBatch /\ rd.sum # Entry.checksum => Error)
      /\ (~(rd.counter > 0) /\ rd.inBatch /\ rd.sum = Entry.checksum => Deliver)
  BY Zenon DEF ReadEnd, AtEntry
<1>2. FileShape /\ ReaderShape /\ Reader /\ Files
  BY <1>1, Zenon DEF IInv, Reading
<1>3. Ent(rd.file)[rd.pos + 1].tag = "end" /\ rd.pos < Len(Ent(rd.file)) /\ rd.file \in 1..Len(files)
      /\ Entry = Ent(rd.file)[rd.pos + 1]
  <2>1. Ent(rd.file)[rd.pos + 1].tag = "end"
    BY <1>1 DEF AtEntry, Ent
  <2> QED
    BY <1>1, <1>2, <2>1, AtMeans, ReaderFlat, Zenon
<1>4. ~(rd.counter > 0) <=> rd.counter = 0
  BY <1>2, ReaderFlat
<1>5. rd.counter > 0 => rd.inBatch
  BY <1>2, <1>4, ReaderFlat, Zenon
<1>6. CASE rd.inBatch /\ rd.counter = 0 /\ rd.sum = Entry.checksum
  BY <1>1, <1>4, <1>6, DeliverStep, Zenon
<1>7. CASE rd.inBatch /\ ~(rd.counter = 0 /\ rd.sum = Entry.checksum)
  <2>1. damaged
    BY <1>2, <1>3, <1>7, NoSurplus, Zenon DEF Files
  <2> QED
    BY <1>1, <1>4, <1>7, <2>1, ErrorStep, Zenon
<1>8. CASE ~rd.inBatch
  <2>1. ASSUME NEW p, IsEnd(rd.file, p), rd.lastValid < p, Clean(Ent(rd.file), p) PROVE FALSE
    <3>1. Ent(rd.file)[rd.pos + 1].tag = "start"
      BY <1>2, <1>8, <2>1, GoesOn, Zenon
    <3> QED
      BY <1>3, <3>1, Zenon
  <2> QED
    BY <1>1, <1>5, <1>8, <2>1, CloseStep, Zenon
<1> QED
  BY <1>6, <1>7, <1>8, Zenon

\* No operation and an empty file.
LEMMA OpTypes ==
  /\ NoOp \in [kind : {"none", "raw", "clear", "batch"}, seqno : Nat, items : Seq(ItemEntry)] /\ NoOp.items = <<>>
  /\ <<>> \in Seq(Entries)
  /\ NewFile \in [entries : Seq(Entries), padded : BOOLEAN] /\ NewFile.entries = <<>>
  /\ Len(<<>>) = 0 /\ \A e : Clean(e, 0)
<1>1. <<>> \in Seq(ItemEntry) /\ <<>> \in Seq(Entries) /\ Len(<<>>) = 0
  OBVIOUS
<1>2. NoOp \in [kind : {"none", "raw", "clear", "batch"}, seqno : Nat, items : Seq(ItemEntry)] /\ NoOp.items = <<>>
  BY <1>1 DEF NoOp
<1>3. NewFile \in [entries : Seq(Entries), padded : BOOLEAN] /\ NewFile.entries = <<>>
  BY <1>1 DEF NewFile
<1>4. \A e : Clean(e, 0)
  BY DEF Clean
<1> QED
  BY <1>1, <1>2, <1>3, <1>4, Zenon

\* Without an operation there is nothing to write.
LEMMA IdleHasNothing == ASSUME IInv, op = NoOp PROVE todo = <<>>
<1> SUFFICES ASSUME todo # <<>> PROVE FALSE
  OBVIOUS
<1>1. Len(NoOp.items) >= 1
  BY Zenon DEF IInv, Pending
<1>2. ~(0 >= 1)
  OBVIOUS
<1> QED
  BY <1>1, <1>2, OpTypes, Zenon

\* Nothing changes but what the writer has yet to do.
LEMMA QuietStep ==
  ASSUME IInv, phase = "up",
         UNCHANGED <<files, append, flushed, synced, phase, rd, delivered, written, kept, expect, sound, damaged>>,
         WriterShape', begun' \in Nat, begun <= begun', Pending', Base' = Base
  PROVE  IInv'
<1>1. /\ FileShape' /\ Files' /\ EndsWritten' /\ EndsOrdered'
      /\ \A f, p : (IsEnd(f, p)' <=> IsEnd(f, p)) /\ Sum(f, p)' = Sum(f, p)
      /\ \A f : Ent(f)' = Ent(f)
  BY FilesKept, Zenon
<1>2. ReaderShape /\ HistoryShape /\ Batches /\ Handed /\ Up
  BY Zenon DEF IInv
<1>3. ReaderShape' /\ HistoryShape' /\ Handed'
  BY <1>2, Zenon DEF ReaderShape, HistoryShape, Handed
<1>4. Batches'
  <2>1. \A b : b \in 1..begun => b \in 1..begun'
    BY <1>2 DEF HistoryShape
  <2> QED
    BY <1>2, <2>1, Zenon DEF Batches, IsBatch
<1>5. Active' = Active
  BY Zenon DEF Active
<1>6. Tidy => Tidy'
  BY <1>1, <1>5, Zenon DEF Tidy
<1>7. Up'
  BY <1>1, <1>2, <1>5, <1>6, Zenon DEF Up
<1> QED
  BY <1>1, <1>3, <1>4, <1>7 DEF IInv

\* Persisting fails.
LEMMA FinishFailsIInv == IInv /\ FinishFails => IInv'
<1> SUFFICES ASSUME IInv, FinishFails PROVE IInv'
  OBVIOUS
<1>1. /\ phase = "up" /\ todo = <<>> /\ op' = NoOp /\ todo' = todo
      /\ UNCHANGED <<files, append, flushed, synced, phase, rd, delivered, written, kept, expect, sound, damaged, begun>>
  BY Zenon DEF FinishFails, file, history
<1>2. WriterShape /\ HistoryShape
  BY Zenon DEF IInv
<1>3. WriterShape'
  BY <1>1, <1>2, OpTypes, Zenon DEF WriterShape
<1>4. Pending'
  BY <1>1, Zenon DEF Pending
<1>5. Base' = Base
  BY <1>1, Zenon DEF Base, Active
<1>6. begun' \in Nat /\ begun <= begun'
  BY <1>1, <1>2 DEF HistoryShape
<1> QED
  BY <1>1, <1>3, <1>4, <1>5, <1>6, QuietStep, Zenon

\* What an operation is about to write.
LEMMA PayloadMeans ==
  ASSUME NEW kind, NEW n \in Nat, n >= 1, NEW s \in Nat,
         NEW c, c = Payload(kind, s, n)
  PROVE  c \in Seq(ItemEntry) /\ Len(c) \in Nat /\ Len(c) >= 1 /\ \A j \in 1..Len(c) : c[j].seqno = s
<1>1. Clear(s) \in ItemEntry /\ Clear(s).seqno = s
  BY DEF Clear, ItemEntry
<1>2. \A i \in 1..n : Item(s, i) \in ItemEntry /\ Item(s, i).seqno = s
  BY DEF Item, ItemEntry
<1>3. CASE kind = "clear"
  <2>1. c = <<Clear(s)>>
    BY <1>3 DEF Payload
  <2> QED
    BY <1>1, <2>1
<1>4. CASE kind # "clear"
  <2>1. c = [i \in 1..n |-> Item(s, i)]
    BY <1>4 DEF Payload
  <2>2. c \in [1..n -> ItemEntry]
    BY <1>2, <2>1
  <2>3. c \in Seq(ItemEntry) /\ Len(c) = n
    BY <2>2
  <2> QED
    BY <1>2, <2>1, <2>3
<1> QED
  BY <1>3, <1>4

\* An operation takes the journal mutex.
LEMMA BeginIInv ==
  ASSUME NEW kind \in {"raw", "clear", "batch"}, NEW n \in 1..MaxItems, IInv, Begin(kind, n)
  PROVE  IInv'
<1>1. PICK s, c, t : s = begun + 1 /\ c = Payload(kind, s, n) /\ t = Encoded(s, c)
  BY Zenon
<1>2. /\ phase = "up" /\ op = NoOp /\ todo' = t /\ begun' = s
      /\ op' = [kind |-> kind, seqno |-> s, items |-> c]
      /\ UNCHANGED <<files, append, flushed, synced, phase, rd, delivered, written, kept, expect, sound, damaged>>
  BY <1>1, Zenon DEF Begin, file, history
<1>3. todo = <<>> /\ WriterShape /\ HistoryShape /\ FileShape /\ Batches
  BY <1>2, IdleHasNothing, Zenon DEF IInv
<1>4. s \in Nat /\ begun \in Nat /\ begun <= s /\ s \in 1..s /\ (\A b \in 1..begun : b < s) /\ n \in Nat /\ n >= 1
  BY <1>1, <1>3, JournalBounds DEF HistoryShape
<1>5. c \in Seq(ItemEntry) /\ Len(c) \in Nat /\ Len(c) >= 1 /\ \A j \in 1..Len(c) : c[j].seqno = s
  <2>1. c = Payload(kind, s, n)
    BY <1>1, Zenon
  <2>2. s \in Nat /\ n \in Nat /\ n >= 1
    BY <1>4, Zenon
  <2>3. c \in Seq(ItemEntry) /\ Len(c) \in Nat /\ Len(c) >= 1
    BY <2>1, <2>2, PayloadMeans, Zenon
  <2>4. ASSUME NEW j \in 1..Len(c) PROVE c[j].seqno = s
    BY <2>1, <2>2, PayloadMeans
  <2> QED
    BY <2>3, <2>4, Zenon
<1>6. PICK m, o : m = Len(c) /\ o = [kind |-> kind, seqno |-> s, items |-> c]
  BY Zenon
<1>7. o.items = c /\ o.seqno = s /\ op' = o
  BY <1>2, <1>6, Zenon
<1>8. t \in Seq(Entries) /\ Len(t) = m + 2 /\ t # <<>> /\ \A j \in 1..(m + 2) : t[j] = PartOf(o, j)
  <2>1. m \in Nat /\ c \in Seq(Entries)
    <3>1. ItemEntry \subseteq Entries
      BY EntryKinds, Zenon
    <3> QED
      BY <1>5, <1>6, <3>1
  <2>2. PICK a, z : a = Start(m, s) /\ z = End(c)
    BY Zenon
  <2>3. a \in Entries /\ z \in Entries
    <3>1. a \in StartEntry
      BY <1>4, <2>1, <2>2 DEF Start, StartEntry
    <3>2. z \in EndEntry
      BY <1>5, <2>2 DEF End, EndEntry
    <3> QED
      BY <3>1, <3>2, Zenon DEF Entries
  <2>4. t = <<a>> \o c \o <<z>>
    BY <1>1, <1>6, <2>2, Zenon DEF Encoded
  <2>5. t \in Seq(Entries) /\ Len(t) = m + 2 /\ t[1] = a /\ t[m + 2] = z /\ \A j \in 1..(m + 2) : j # 1 /\ j # m + 2 => t[j] = c[j - 1]
    BY <1>5, <1>6, <2>1, <2>3, <2>4
  <2>6. t # <<>>
    BY <2>1, <2>5
  <2> QED
    BY <1>6, <1>7, <2>2, <2>5, <2>6, Zenon DEF PartOf
<1>9. o \in [kind : {"none", "raw", "clear", "batch"}, seqno : Nat, items : Seq(ItemEntry)]
  BY <1>4, <1>5, <1>6
<1>10. WriterShape'
  BY <1>2, <1>3, <1>7, <1>8, <1>9, Zenon DEF WriterShape
<1>11. Done(o, t) = 0
  BY <1>5, <1>6, <1>7, <1>8 DEF Done
<1>12. Active' = Active /\ Len(Active.entries) \in Nat
  BY <1>2, <1>3, FileTypes, Zenon DEF Active
<1>13. Pending'
  <2>1. \A i \in 1..Len(written) : written[i].seqno < s
    BY <1>3, <1>4, Zenon DEF Batches, IsBatch
  <2>2. \A j \in 1..Len(t) : t[j] = PartOf(o, 0 + j)
    <3>1. \A j \in 1..(m + 2) : 0 + j = j
      BY <1>5, <1>6
    <3> QED
      BY <1>8, <3>1, Zenon
  <2>3. 0 <= Len(Active.entries) /\ 1..0 = {} /\ Len(t) <= m + 2
    BY <1>5, <1>6, <1>8, <1>12
  <2>4. \A j \in 1..0 : Active.entries[Len(Active.entries) - 0 + j] = PartOf(o, j)
    BY <2>3, Zenon
  <2>5. Done(op', todo') = 0
    BY <1>2, <1>7, <1>11, Zenon
  <2>6. /\ phase' = "up" /\ op'.seqno \in 1..begun' /\ Len(op'.items) >= 1 /\ Len(todo') <= Len(op'.items) + 2
        /\ \A j \in 1..Len(op'.items) : op'.items[j].seqno = op'.seqno
        /\ \A i \in 1..Len(written') : written'[i].seqno < op'.seqno
    BY <1>2, <1>4, <1>5, <1>6, <1>7, <2>1, <2>3, Zenon
  <2>7. /\ \A j \in 1..Len(todo') : todo'[j] = PartOf(op', 0 + j)
        /\ 0 <= Len(Active'.entries)
        /\ \A j \in 1..0 : Active'.entries[Len(Active'.entries) - 0 + j] = PartOf(op', j)
    BY <1>2, <1>7, <1>12, <2>2, <2>3, <2>4, Zenon
  <2> QED
    BY <2>5, <2>6, <2>7, Zenon DEF Pending
<1>14. Base' = Base
  <2>1. Len(Active.entries) - 0 = Len(Active.entries)
    BY <1>12
  <2> QED
    BY <1>2, <1>3, <1>7, <1>8, <1>11, <1>12, <2>1, Zenon DEF Base
<1> QED
  BY <1>2, <1>4, <1>10, <1>13, <1>14, QuietStep, Zenon

\* An operation persists and returns: everything written is where the crash it is kept from does not reach.
LEMMA FinishIInv ==
  ASSUME NEW mode \in {"none", "buffer", "sync"}, IInv, Finish(mode)
  PROVE  IInv'
<1>1. /\ phase = "up" /\ todo = <<>> /\ op' = NoOp /\ Persisted(mode)
      /\ UNCHANGED <<files, append, todo, phase, rd, delivered, written, expect, sound, damaged, begun>>
  BY Zenon DEF Finish, counts
<1>2. /\ FileShape' /\ Files' /\ EndsWritten' /\ EndsOrdered'
      /\ \A f, p : (IsEnd(f, p)' <=> IsEnd(f, p)) /\ Sum(f, p)' = Sum(f, p)
      /\ \A f : Ent(f)' = Ent(f)
  BY <1>1, FilesKept, Zenon
<1>3. FileShape /\ WriterShape /\ ReaderShape /\ HistoryShape /\ Batches /\ Handed /\ Up
  BY <1>1, Zenon DEF IInv
<1>4. PICK L, n, w : L = Len(files) /\ n = Len(Active.entries) /\ w = Len(written)
  BY Zenon
<1>5. L \in Nat /\ n \in Nat /\ w \in Nat /\ n = Len(Ent(L))
  <2>1. w \in Nat
    BY <1>3, <1>4 DEF HistoryShape
  <2> QED
    BY <1>3, <1>4, <2>1, FileTypes, Zenon
<1>6. kept \in [buffer : Nat, sync : Nat] /\ kept.buffer \in Nat /\ kept.sync \in Nat
  BY <1>3 DEF HistoryShape
<1>7. /\ flushed' \in {flushed, n} /\ synced' \in {synced, n}
      /\ kept' = [buffer |-> kept'.buffer, sync |-> kept'.sync]
      /\ (kept'.buffer = kept.buffer /\ flushed' = flushed) \/ (kept'.buffer = w /\ flushed' = n)
      /\ (kept'.sync = kept.sync /\ synced' = synced) \/ (kept'.sync = w /\ synced' = n)
  <2>1. /\ flushed' = IF mode = "none" THEN flushed ELSE n
        /\ synced' = IF mode = "sync" THEN n ELSE synced
        /\ kept' = [buffer |-> IF mode = "none" THEN kept.buffer ELSE w,
                    sync |-> IF mode = "sync" THEN w ELSE kept.sync]
    BY <1>1, <1>4, Zenon DEF Persisted
  <2>2. /\ kept'.buffer = IF mode = "none" THEN kept.buffer ELSE w
        /\ kept'.sync = IF mode = "sync" THEN w ELSE kept.sync
    BY <2>1, Zenon
  <2>3. kept' = [buffer |-> kept'.buffer, sync |-> kept'.sync]
    BY <2>1, <2>2, Zenon
  <2> QED
    BY <2>1, <2>2, <2>3, Zenon
<1>8. kept' \in [buffer : Nat, sync : Nat] /\ kept'.buffer \in Nat /\ kept'.sync \in Nat
      /\ flushed' \in Nat /\ synced' \in Nat
  <2>1. kept'.buffer \in Nat /\ kept'.sync \in Nat /\ flushed' \in Nat /\ synced' \in Nat
    BY <1>3, <1>5, <1>6, <1>7, Zenon DEF WriterShape
  <2> QED
    BY <1>7, <2>1
<1>9. WriterShape' /\ ReaderShape' /\ HistoryShape' /\ Handed' /\ Batches' /\ Pending'
  <2>1. WriterShape'
    BY <1>1, <1>3, <1>8, OpTypes, Zenon DEF WriterShape
  <2>2. ReaderShape'
    BY <1>1, <1>3, Zenon DEF ReaderShape
  <2>3. HistoryShape'
    BY <1>1, <1>3, <1>8, Zenon DEF HistoryShape
  <2>4. Handed' /\ Batches'
    BY <1>1, <1>3, Zenon DEF Handed, Batches, IsBatch
  <2>5. Pending'
    BY <1>1, Zenon DEF Pending
  <2> QED
    BY <2>1, <2>2, <2>3, <2>4, <2>5, Zenon
<1>10. Active' = Active /\ Base' = Base
  BY <1>1, Zenon DEF Active, Base
<1>11. Tidy => Tidy'
  BY <1>1, <1>2, <1>10, Zenon DEF Tidy
<1>12. kept'.buffer <= w /\ kept'.sync <= w
  <2>1. kept.buffer <= w /\ kept.sync <= w
    BY <1>3, <1>4, Zenon DEF Up
  <2> QED
    BY <1>5, <1>6, <1>7, <2>1
<1>13. ASSUME NEW i \in 1..Len(written), i <= sound
       PROVE  \E f, p : /\ IsEnd(f, p) /\ Sum(f, p) = written[i].items /\ Clean(Ent(f), p)
                        /\ i <= kept'.buffer => f < L \/ p <= flushed'
                        /\ i <= kept'.sync => f < L \/ p <= synced'
  <2>1. PICK f, p : /\ IsEnd(f, p) /\ Sum(f, p) = written[i].items /\ Clean(Ent(f), p)
                    /\ i <= kept.buffer => f < L \/ p <= flushed
                    /\ i <= kept.sync => f < L \/ p <= synced
    BY <1>3, <1>4, <1>13, Zenon DEF Up
  <2>2. f \in 1..L /\ p \in 1..Len(Ent(f))
    BY <1>4, <2>1, Zenon DEF IsEnd
  <2>3. f < L \/ f = L
    BY <1>5, <2>2
  <2>4. f = L => p \in 1..n
    BY <1>5, <2>2, Zenon
  <2>5. f < L \/ p <= n
    BY <1>5, <2>3, <2>4
  <2>6. (i <= kept'.buffer => f < L \/ p <= flushed') /\ (i <= kept'.sync => f < L \/ p <= synced')
    BY <1>7, <2>1, <2>5, Zenon
  <2> QED
    BY <2>1, <2>6, Zenon
<1>14. Up'
  <2>1. /\ append => ~Active.padded
        /\ sound > Len(written) => Tidy
        /\ Len(written) >= expect
    BY <1>3, Zenon DEF Up
  <2> QED
    BY <1>1, <1>2, <1>4, <1>10, <1>11, <1>12, <1>13, <2>1, Zenon DEF Up
<1> QED
  BY <1>1, <1>2, <1>9, <1>14 DEF IInv

\* Recovery begins.
LEMMA RecoverIInv == IInv /\ Recover => IInv'
<1> SUFFICES ASSUME IInv, Recover PROVE IInv'
  OBVIOUS
<1>1. /\ phase = "down" /\ phase' = "reading"
      /\ flushed' = Len(Active.entries) /\ synced' = Len(Active.entries)
      /\ UNCHANGED <<files, op, todo, rd, delivered, written, kept, expect, sound, damaged, begun>>
  BY Zenon DEF Recover, history, counts
<1>2. /\ FileShape' /\ Files' /\ EndsWritten' /\ EndsOrdered'
      /\ \A f, p : (IsEnd(f, p)' <=> IsEnd(f, p)) /\ Sum(f, p)' = Sum(f, p)
      /\ \A f : Ent(f)' = Ent(f)
  BY <1>1, FilesKept, Zenon
<1>3. FileShape /\ WriterShape /\ ReaderShape /\ HistoryShape /\ Batches /\ Handed
      /\ Reader /\ ReadSoFar /\ Ahead /\ todo = <<>> /\ kept.buffer = 0 /\ kept.sync = 0 /\ expect <= Len(written)
  BY <1>1, Zenon DEF IInv, Reading
<1>4. flushed' \in Nat /\ synced' \in Nat
  BY <1>1, <1>3, FileTypes, Zenon
<1>5. WriterShape' /\ ReaderShape' /\ HistoryShape' /\ Handed' /\ Batches' /\ Pending'
  BY <1>1, <1>3, <1>4, Zenon DEF WriterShape, ReaderShape, HistoryShape, Handed, Batches, IsBatch, Pending
<1>6. Ent(rd.file)' = Ent(rd.file)
  BY <1>1, Zenon DEF Ent
<1>7. Reader'
  BY <1>1, <1>3, Zenon DEF Reader, Ent
<1>8. \A f, p : Passed(f, p)' <=> Passed(f, p)
  BY <1>1, Zenon DEF Passed
<1>9. ReadSoFar'
  BY <1>1, <1>2, <1>3, <1>6, <1>8, Zenon DEF ReadSoFar
<1>10. Ahead'
  BY <1>1, <1>2, <1>3, <1>8, Zenon DEF Ahead
<1>11. Reading'
  BY <1>1, <1>3, <1>7, <1>9, <1>10, Zenon DEF Reading
<1> QED
  BY <1>1, <1>2, <1>5, <1>11 DEF IInv

\* A new journal.
LEMMA InitIInv == Init => IInv
<1> SUFFICES ASSUME Init PROVE IInv
  OBVIOUS
<1>1. /\ files = <<NewFile>> /\ append = FALSE /\ flushed = 0 /\ synced = 0 /\ op = NoOp /\ todo = <<>>
      /\ phase = "up" /\ rd = NewReader(1) /\ delivered = <<>> /\ written = <<>>
      /\ kept = [buffer |-> 0, sync |-> 0] /\ expect = 0 /\ sound = MaxWrites /\ damaged = FALSE /\ begun = 0
  BY Zenon DEF Init
<1>2. FileShape /\ Len(files) = 1 /\ files[1] = NewFile
  BY <1>1, OpTypes DEF FileShape
<1>3. Ent(1) = <<>> /\ Active.entries = <<>> /\ Len(<<>>) = 0
  BY <1>2, OpTypes, Zenon DEF Ent, Active
<1>4. WriterShape
  <2>1. 0 \in Nat
    OBVIOUS
  <2> QED
    BY <1>1, <2>1, OpTypes, Zenon DEF WriterShape
<1>5. ReaderShape
  BY <1>1 DEF ReaderShape, NewReader
<1>6. HistoryShape
  <2>1. written \in Seq(Batch) /\ delivered \in Seq(Batch)
    BY <1>1
  <2>2. kept \in [buffer : Nat, sync : Nat] /\ expect \in Nat /\ begun \in Nat
    BY <1>1
  <2>3. sound \in Nat /\ damaged \in BOOLEAN
    BY <1>1, JournalBounds
  <2> QED
    BY <2>1, <2>2, <2>3, Zenon DEF HistoryShape
<1>7. \A f : f \in 1..Len(files) => f = 1
  BY <1>2
<1>8. \A f, p : ~IsEnd(f, p)
  <2>1. \A p : p \notin 1..0
    OBVIOUS
  <2> QED
    BY <1>3, <1>7, <2>1, Zenon DEF IsEnd
<1>9. Files
  <2>1. Paired(<<>>) /\ Grammar(<<>>)
    BY DEF Paired, Grammar
  <2> QED
    BY <1>3, <1>7, <2>1, Zenon DEF Files
<1>10. EndsWritten /\ EndsOrdered
  BY <1>8, Zenon DEF EndsWritten, EndsOrdered
<1>11. \A i : i \notin 1..Len(written) /\ i \notin 1..Len(delivered)
  BY <1>1
<1>12. Batches /\ Handed
  BY <1>11, Zenon DEF Batches, Handed
<1>13. Pending
  BY <1>1, Zenon DEF Pending
<1>14. Tidy
  <2>1. \A f : f \notin 1..(Len(files) - 1)
    BY <1>2
  <2>2. Base = 0
    BY <1>1, <1>3, Zenon DEF Base
  <2> QED
    BY <2>1, <2>2, OpTypes, Zenon DEF Tidy
<1>15. Up
  <2>1. kept.buffer = 0 /\ kept.sync = 0 /\ expect = 0 /\ Len(written) = 0 /\ append = FALSE
    BY <1>1
  <2>2. 0 <= 0 /\ 0 >= 0
    OBVIOUS
  <2> QED
    BY <1>11, <1>14, <2>1, <2>2, Zenon DEF Up
<1> QED
  BY <1>1, <1>2, <1>4, <1>5, <1>6, <1>9, <1>10, <1>12, <1>13, <1>15, Zenon DEF IInv

\* Nothing happens.
LEMMA StutterIInv == IInv /\ UNCHANGED vars => IInv'
<1> SUFFICES ASSUME IInv, UNCHANGED vars PROVE IInv'
  OBVIOUS
<1>1. UNCHANGED <<files, append, flushed, synced, op, todo, phase, rd, delivered, written, kept, expect, sound, damaged, begun>>
  BY Zenon DEF vars, file, history, counts
<1>2. /\ FileShape' /\ Files' /\ EndsWritten' /\ EndsOrdered'
      /\ \A f, p : (IsEnd(f, p)' <=> IsEnd(f, p)) /\ Sum(f, p)' = Sum(f, p)
      /\ \A f : Ent(f)' = Ent(f)
  BY <1>1, FilesKept, Zenon
<1>3. WriterShape' /\ ReaderShape' /\ HistoryShape' /\ Handed' /\ Batches'
  BY <1>1, Zenon DEF IInv, WriterShape, ReaderShape, HistoryShape, Handed, Batches, IsBatch
<1>4. Active' = Active /\ Base' = Base
  BY <1>1, Zenon DEF Active, Base
<1>5. Pending'
  BY <1>1, <1>4, Zenon DEF IInv, Pending
<1>6. CASE phase = "up"
  <2>1. begun' \in Nat /\ begun <= begun'
    BY <1>1 DEF IInv, HistoryShape
  <2> QED
    BY <1>1, <1>3, <1>4, <1>5, <1>6, <2>1, QuietStep, Zenon
<1>7. CASE phase \in {"down", "reading"}
  <2>1. Reader /\ ReadSoFar /\ Ahead /\ todo = <<>> /\ kept.buffer = 0 /\ kept.sync = 0 /\ expect <= Len(written)
    BY <1>7, Zenon DEF IInv, Reading
  <2>2. Ent(rd.file)' = Ent(rd.file)
    BY <1>1, Zenon DEF Ent
  <2>3. Reader'
    BY <1>1, <2>1, Zenon DEF Reader, Ent
  <2>4. \A f, p : Passed(f, p)' <=> Passed(f, p)
    BY <1>1, Zenon DEF Passed
  <2>5. ReadSoFar'
    BY <1>1, <1>2, <2>1, <2>2, <2>4, Zenon DEF ReadSoFar
  <2>6. Ahead'
    BY <1>1, <1>2, <2>1, <2>4, Zenon DEF Ahead
  <2>7. Reading'
    BY <1>1, <2>1, <2>3, <2>5, <2>6, Zenon DEF Reading
  <2>8. phase' # "up" /\ phase' # "failed" /\ phase' \in {"up", "down", "reading", "failed"}
    BY <1>1, <1>7
  <2> QED
    BY <1>2, <1>3, <1>5, <2>7, <2>8, Zenon DEF IInv
<1>8. CASE phase = "failed"
  <2>1. damaged /\ phase' = "failed"
    BY <1>1, <1>8, Zenon DEF IInv
  <2>2. damaged'
    BY <1>1, <2>1
  <2> QED
    BY <1>2, <1>3, <1>5, <2>1, <2>2 DEF IInv
<1> QED
  BY <1>6, <1>7, <1>8, Zenon DEF IInv

\* A sequence with one element more.
LEMMA AppendMeans ==
  ASSUME NEW S, NEW q \in Seq(S), NEW z \in S, NEW r, r = Append(q, z), NEW n, n = Len(q), NEW m, m = n + 1
  PROVE  r \in Seq(S) /\ Len(r) = m /\ r[m] = z /\ \A j \in 1..n : r[j] = q[j]
  OBVIOUS

\* Writer::rotate: all that was written is in a file that is not active any more.
LEMMA RotateIInv == IInv /\ Rotate => IInv'
<1> SUFFICES ASSUME IInv, Rotate PROVE IInv'
  OBVIOUS
<1>1. /\ phase = "up" /\ op = NoOp /\ files' = Append(files, NewFile)
      /\ append' = FALSE /\ flushed' = 0 /\ synced' = 0 /\ kept' = [buffer |-> Len(written), sync |-> Len(written)]
      /\ UNCHANGED <<op, todo, phase, rd, delivered, written, expect, sound, damaged, begun>>
  BY Zenon DEF Rotate, counts
<1>2. todo = <<>>
  BY <1>1, IdleHasNothing, Zenon
<1>3. FileShape /\ WriterShape /\ ReaderShape /\ HistoryShape /\ Files /\ Batches /\ Handed /\ Up
      /\ EndsWritten /\ EndsOrdered
  BY <1>1, Zenon DEF IInv
<1>4. PICK L, M, w : L = Len(files) /\ M = L + 1 /\ w = Len(written)
  BY Zenon
<1>5. L \in Nat /\ L \in 1..L /\ w \in Nat /\ M \in 1..M /\ L = M - 1 /\ \A f \in 1..L : f < M /\ f \in 1..M
  <2>1. w \in Nat /\ L \in Nat /\ L \in 1..L
    BY <1>3, <1>4, FileTypes DEF HistoryShape
  <2> QED
    BY <1>4, <2>1
<1>6. FileShape' /\ Len(files') = M /\ files'[M] = NewFile /\ \A f \in 1..L : files'[f] = files[f]
  <2>1. files' \in Seq([entries : Seq(Entries), padded : BOOLEAN]) /\ Len(files') = M /\ files'[M] = NewFile
        /\ \A f \in 1..L : files'[f] = files[f]
    <3>1. PICK S, q, r, z : S = [entries : Seq(Entries), padded : BOOLEAN] /\ q = files /\ r = files' /\ z = NewFile
      BY Zenon
    <3>2. q \in Seq(S) /\ z \in S /\ r = Append(q, z) /\ L = Len(q)
      BY <1>1, <1>3, <1>4, <3>1, OpTypes, Zenon DEF FileShape
    <3>3. r \in Seq(S) /\ Len(r) = M /\ r[M] = z /\ \A j \in 1..L : r[j] = q[j]
      BY <1>4, <3>2, AppendMeans
    <3> QED
      BY <3>1, <3>3, Zenon
  <2>2. files' # <<>>
    BY <1>4, <1>5, <2>1
  <2> QED
    BY <2>1, <2>2, Zenon DEF FileShape
<1>7. /\ \A f \in 1..M : f \in 1..L \/ f = M
      /\ M \notin 1..L
  BY <1>4, <1>5
<1>8. (\A f \in 1..L : Ent(f)' = Ent(f)) /\ Ent(M)' = <<>> /\ Active' = NewFile
  BY <1>6, OpTypes, Zenon DEF Ent, Active
<1>9. \A f, p : (IsEnd(f, p)' <=> IsEnd(f, p)) /\ (IsEnd(f, p) => f < M /\ f \in 1..L /\ Sum(f, p)' = Sum(f, p))
  <2>1. \A p : p \notin 1..0
    OBVIOUS
  <2>2. \A f, p : IsEnd(f, p) <=> f \in 1..L /\ p \in 1..Len(Ent(f)) /\ Ent(f)[p].tag = "end"
    BY <1>4, Zenon DEF IsEnd
  <2>3. \A f, p : IsEnd(f, p)' <=> f \in 1..M /\ p \in 1..Len(Ent(f)') /\ Ent(f)'[p].tag = "end"
    BY <1>6, Zenon DEF IsEnd
  <2> QED
    BY <1>5, <1>7, <1>8, <2>1, <2>2, <2>3, OpTypes, Zenon DEF Sum
<1>10. WriterShape' /\ ReaderShape' /\ HistoryShape' /\ Handed' /\ Batches' /\ Pending'
  <2>1. kept' \in [buffer : Nat, sync : Nat] /\ 0 \in Nat
    BY <1>1, <1>4, <1>5
  <2> QED
    BY <1>1, <1>2, <1>3, <2>1, Zenon DEF WriterShape, ReaderShape, HistoryShape, Handed, Batches, IsBatch, Pending
<1>11. Files'
  <2>1. Paired(<<>>) /\ Grammar(<<>>)
    BY DEF Paired, Grammar
  <2>2. damaged' <=> damaged
    BY <1>1
  <2>3. ASSUME NEW f \in 1..M PROVE Paired(Ent(f)') /\ (~damaged => Grammar(Ent(f)'))
    BY <1>3, <1>4, <1>7, <1>8, <2>1, <2>3, Zenon DEF Files
  <2> QED
    BY <1>6, <2>2, <2>3, Zenon DEF Files
<1>12. EndsWritten' /\ EndsOrdered'
  <2>1. w <= w
    BY <1>5
  <2> QED
    BY <1>1, <1>3, <1>4, <1>5, <1>9, <2>1, EndsKept, Zenon
<1>13. Tidy => Tidy'
  <2> SUFFICES ASSUME Tidy PROVE Tidy'
    OBVIOUS
  <2>1. /\ \A f \in 1..(L - 1) : Clean(Ent(f), Len(Ent(f)))
        /\ Clean(Ent(L), Len(Ent(L)))
    BY <1>2, <1>3, <1>4, FileTypes, Zenon DEF Tidy, Base
  <2>2. \A f \in 1..L : f \in 1..(L - 1) \/ f = L
    BY <1>5
  <2>3. \A f \in 1..L : Clean(Ent(f)', Len(Ent(f)'))
    BY <1>8, <2>1, <2>2, Zenon
  <2>4. Base' = 0
    BY <1>1, <1>2, <1>8, OpTypes, Zenon DEF Base
  <2>5. \A f \in 1..(M - 1) : Clean(Ent(f)', Len(Ent(f)'))
    BY <1>5, <2>3, Zenon
  <2> QED
    BY <1>6, <2>4, <2>5, OpTypes, Zenon DEF Tidy
<1>14. ASSUME NEW i \in 1..Len(written), i <= sound
       PROVE  \E f, p : /\ IsEnd(f, p)' /\ Sum(f, p)' = written[i].items /\ Clean(Ent(f)', p) /\ f < M
  <2>1. PICK f, p : IsEnd(f, p) /\ Sum(f, p) = written[i].items /\ Clean(Ent(f), p)
    BY <1>3, <1>14, Zenon DEF Up
  <2> QED
    BY <1>8, <1>9, <2>1, Zenon
<1>15. Up'
  <2>1. /\ sound > Len(written) => Tidy
        /\ Len(written) >= expect
    BY <1>3, Zenon DEF Up
  <2>2. kept'.buffer = w /\ kept'.sync = w /\ w <= w
    BY <1>1, <1>4, <1>5
  <2> QED
    BY <1>1, <1>4, <1>6, <1>13, <1>14, <2>1, <2>2, Zenon DEF Up
<1> QED
  BY <1>1, <1>6, <1>10, <1>11, <1>12, <1>15 DEF IInv

\* The active file L, which held the n entries e, has z behind them.
OneEntryMore(L, e, n, z) ==
    /\ FileShape' /\ Len(files') = L /\ L \in 1..L /\ L \in Nat /\ n \in Nat /\ e \in Seq(Entries)
    /\ \A f \in 1..L : f # L => Ent(f)' = Ent(f)
    /\ Ent(L)' \in Seq(Entries) /\ Len(Ent(L)') = n + 1 /\ Ent(L)'[n + 1] = z
    /\ \A j \in 1..n : Ent(L)'[j] = e[j]
    /\ append' => ~Active'.padded
    /\ Active'.entries = Ent(L)' /\ Active.entries = e
    /\ \A f, p : IsEnd(f, p)' => (IsEnd(f, p) /\ Sum(f, p)' = Sum(f, p)) \/ (f = L /\ p = n + 1 /\ z.tag = "end")
    /\ \A f, p : IsEnd(f, p) /\ Clean(Ent(f), p) => IsEnd(f, p)' /\ Sum(f, p)' = Sum(f, p) /\ Clean(Ent(f)', p)

\* One write_all: the active file is never both padded and opened for appending.
LEMMA AppendEntry ==
  ASSUME IInv, phase = "up", NEW z \in Entries, NEW L, L = Len(files), NEW e, e = Ent(L), NEW n, n = Len(e),
         files' = [files EXCEPT ![Len(files)] = Written(@, z)], append' = append
  PROVE  OneEntryMore(L, e, n, z)
<1>1. FileShape /\ Up
  BY Zenon DEF IInv
<1>2. L \in 1..L /\ L \in Nat /\ n \in Nat /\ e \in Seq(Entries) /\ Active = files[L] /\ files[L].entries = e
      /\ files[L].padded \in BOOLEAN /\ DOMAIN files = 1..L
  BY <1>1, FileTypes, Zenon DEF Active, Ent
<1>3. ~(append /\ files[L].padded)
  BY <1>1, <1>2, Zenon DEF Up
<1>4. PICK r : r = Written(files[L], z)
  BY Zenon
<1>5. files' = [files EXCEPT ![L] = r]
  BY <1>2, <1>4
<1>6. r.entries = e \o <<z>> /\ r.padded = (files[L].padded /\ ~append)
      /\ r = [entries |-> e \o <<z>>, padded |-> (files[L].padded /\ ~append)]
  BY <1>2, <1>3, <1>4, Zenon DEF Written
<1>7. PICK d : d = e \o <<z>>
  BY Zenon
<1>8. d \in Seq(Entries) /\ Len(d) = n + 1 /\ d[n + 1] = z /\ \A j \in 1..n : d[j] = e[j]
  BY <1>2, <1>7
<1>9. r \in [entries : Seq(Entries), padded : BOOLEAN]
  BY <1>6, <1>7, <1>8
<1>10. /\ FileShape' /\ Len(files') = L /\ files'[L] = r /\ Ent(L)' = d
       /\ \A f \in 1..L : f # L => Ent(f)' = Ent(f)
  <2>1. L \in 1..Len(files)
    BY <1>2, Zenon
  <2>2. /\ FileShape' /\ Len(files') = Len(files) /\ files'[L] = r /\ Ent(L)' = r.entries
        /\ \A f \in 1..Len(files) : f # L => files'[f] = files[f] /\ Ent(f)' = Ent(f)
    BY <1>1, <1>5, <1>9, <2>1, OneFile
  <2> QED
    BY <1>6, <1>7, <2>2, Zenon
<1>11. Active' = r /\ Active'.entries = d /\ Active.entries = e
  BY <1>2, <1>6, <1>7, <1>10, Zenon DEF Active
<1>12. append' => ~Active'.padded
  BY <1>6, <1>11
<1>13. ASSUME NEW f, NEW p, IsEnd(f, p)'
       PROVE  (IsEnd(f, p) /\ Sum(f, p)' = Sum(f, p)) \/ (f = L /\ p = n + 1 /\ z.tag = "end")
  <2>1. f \in 1..L /\ p \in 1..Len(Ent(f)') /\ Ent(f)'[p].tag = "end"
    BY <1>10, <1>13, Zenon DEF IsEnd
  <2>2. CASE f # L
    BY <1>10, <2>1, <2>2, Zenon DEF IsEnd, Sum
  <2>3. CASE f = L
    <3>1. p \in 1..(n + 1) /\ d[p].tag = "end"
      BY <1>8, <1>10, <2>1, <2>3, Zenon
    <3>2. p = n + 1 \/ p \in 1..n
      BY <1>2, <3>1
    <3>3. p \in 1..n => d[p] = e[p] /\ IsEnd(f, p) /\ Sum(f, p)' = Sum(f, p)
      BY <1>8, <1>10, <2>1, <2>3, <3>1, Zenon DEF IsEnd, Sum
    <3>4. p = n + 1 => z.tag = "end"
      BY <1>8, <3>1, Zenon
    <3> QED
      BY <2>3, <3>2, <3>3, <3>4, Zenon
  <2> QED
    BY <2>2, <2>3, Zenon
<1>14. ASSUME NEW f, NEW p, IsEnd(f, p), Clean(Ent(f), p)
       PROVE  IsEnd(f, p)' /\ Sum(f, p)' = Sum(f, p) /\ Clean(Ent(f)', p)
  <2>1. n <= Len(Ent(L)') /\ Len(Ent(L)') \in Nat
    BY <1>2, <1>8, <1>10
  <2>2. \A j \in 1..n : j <= Len(Ent(L)) => Ent(L)'[j] = Ent(L)[j]
    BY <1>8, <1>10, Zenon
  <2>3. f # L \/ p <= n
    <3>1. p \in 1..Len(Ent(f))
      BY <1>14, Zenon DEF IsEnd
    <3>2. f = L => p \in 1..n
      BY <3>1, Zenon
    <3> QED
      BY <1>2, <3>2
  <2>4. Len(files') = Len(files) /\ \A h \in 1..Len(files) : h # L => Ent(h)' = Ent(h)
    BY <1>10, Zenon
  <2> QED
    BY <1>1, <1>2, <1>14, <2>1, <2>2, <2>3, <2>4, EndStays, Zenon
<1> QED
  BY <1>2, <1>8, <1>10, <1>11, <1>12, <1>13, <1>14, Zenon DEF OneEntryMore

\* A write_all fails: what follows is not sound.
LEMMA WriteFailsIInv == IInv /\ WriteFails => IInv'
<1> SUFFICES ASSUME IInv, WriteFails PROVE IInv'
  OBVIOUS
<1>1. /\ phase = "up" /\ todo' = <<>> /\ sound' = Min({sound, Len(written)})
      /\ op' = IF op.kind = "batch" THEN op ELSE NoOp
      /\ (files' = [files EXCEPT ![Len(files)] = Written(@, Torn)] \/ files' = files)
      /\ UNCHANGED <<append, flushed, synced, phase, rd, delivered, written, kept, expect, damaged, begun>>
  BY Zenon DEF WriteFails
<1>2. FileShape /\ WriterShape /\ ReaderShape /\ HistoryShape /\ Files /\ Batches /\ Handed /\ Up
      /\ EndsWritten /\ EndsOrdered
  BY <1>1, Zenon DEF IInv
<1>3. PICK L, e, n : L = Len(files) /\ e = Ent(L) /\ n = Len(e)
  BY Zenon
<1>4. sound' \in Nat /\ sound' <= sound /\ sound' <= Len(written) /\ Len(written) \in Nat
  <2>1. sound \in Nat /\ Len(written) \in Nat
    BY <1>2 DEF HistoryShape
  <2> QED
    BY <1>1, <2>1, MinMeans, Zenon
<1>5. WriterShape' /\ ReaderShape' /\ HistoryShape' /\ Handed' /\ Batches' /\ Pending'
  <2>1. op' \in [kind : {"none", "raw", "clear", "batch"}, seqno : Nat, items : Seq(ItemEntry)]
    BY <1>1, <1>2, OpTypes, Zenon DEF WriterShape
  <2>2. WriterShape'
    BY <1>1, <1>2, <2>1, OpTypes, Zenon DEF WriterShape
  <2>3. HistoryShape'
    BY <1>1, <1>2, <1>4, Zenon DEF HistoryShape
  <2> QED
    BY <1>1, <1>2, <2>2, <2>3, Zenon DEF ReaderShape, Handed, Batches, IsBatch, Pending
<1>6. /\ FileShape' /\ Files' /\ EndsWritten' /\ EndsOrdered' /\ Len(files') = Len(files) /\ (append' => ~Active'.padded)
      /\ \A f, p : IsEnd(f, p) /\ Clean(Ent(f), p) => IsEnd(f, p)' /\ Sum(f, p)' = Sum(f, p) /\ Clean(Ent(f)', p)
  <2>1. CASE files' = files
    <3>1. /\ FileShape' /\ Files' /\ EndsWritten' /\ EndsOrdered'
          /\ \A f, p : (IsEnd(f, p)' <=> IsEnd(f, p)) /\ Sum(f, p)' = Sum(f, p)
          /\ \A f : Ent(f)' = Ent(f)
      BY <1>1, <2>1, FilesKept, Zenon
    <3>2. Active' = Active
      BY <2>1, Zenon DEF Active
    <3> QED
      BY <1>1, <1>2, <2>1, <3>1, <3>2, Zenon DEF Up
  <2>2. CASE files' = [files EXCEPT ![Len(files)] = Written(@, Torn)]
    <3>1. Torn \in Entries /\ Torn.tag = "torn"
      BY EntryKinds, Zenon
    <3>2. /\ FileShape' /\ Len(files') = L /\ L \in 1..L /\ L \in Nat /\ n \in Nat /\ e \in Seq(Entries)
          /\ \A f \in 1..L : f # L => Ent(f)' = Ent(f)
          /\ Ent(L)' \in Seq(Entries) /\ Len(Ent(L)') = n + 1 /\ Ent(L)'[n + 1] = Torn
          /\ \A j \in 1..n : Ent(L)'[j] = e[j]
          /\ append' => ~Active'.padded
          /\ \A f, p : IsEnd(f, p)' => (IsEnd(f, p) /\ Sum(f, p)' = Sum(f, p)) \/ (f = L /\ p = n + 1 /\ Torn.tag = "end")
          /\ \A f, p : IsEnd(f, p) /\ Clean(Ent(f), p) => IsEnd(f, p)' /\ Sum(f, p)' = Sum(f, p) /\ Clean(Ent(f)', p)
      <4>1. OneEntryMore(L, e, n, Torn)
        BY <1>1, <1>3, <2>2, <3>1, AppendEntry, Zenon
      <4> QED
        BY <4>1, Zenon DEF OneEntryMore
    <3>3. \A f, p : IsEnd(f, p)' => IsEnd(f, p) /\ Sum(f, p)' = Sum(f, p)
      BY <3>1, <3>2, Zenon
    <3>4. Len(written) <= Len(written)
      BY <1>4
    <3>5. EndsWritten' /\ EndsOrdered'
      BY <1>1, <1>2, <1>4, <3>3, <3>4, EndsKept, Zenon
    <3>6. PICK d : d = Ent(L)'
      BY Zenon
    <3>7. Torn.tag \notin {"item", "clear"} /\ Torn.tag # "end"
      BY <3>1
    <3>8. (Grammar(e) => Grammar(d)) /\ (Paired(e) => Paired(d))
      <4>1. d \in Seq(Entries) /\ Len(d) = Len(e) + 1 /\ Torn = d[Len(e) + 1] /\ \A j \in 1..Len(e) : d[j] = e[j]
        BY <1>3, <3>2, <3>6, Zenon
      <4>2. Fits(d, Len(e), Torn) /\ Follows(e, Len(e), Torn)
        BY <3>7, Zenon DEF Fits, Follows
      <4> QED
        BY <3>2, <4>1, <4>2, LongerFile, Zenon
    <3>9. damaged' <=> damaged
      BY <1>1
    <3>10. ASSUME NEW f \in 1..L PROVE Paired(Ent(f)') /\ (~damaged => Grammar(Ent(f)'))
      BY <1>2, <1>3, <3>2, <3>6, <3>8, <3>10, Zenon DEF Files
    <3>11. Files'
      BY <3>2, <3>9, <3>10, Zenon DEF Files
    <3> QED
      BY <1>3, <3>2, <3>5, <3>11, Zenon
  <2> QED
    BY <1>1, <2>1, <2>2, Zenon
<1>7. Up'
  <2>1. ~(sound' > Len(written'))
    BY <1>1, <1>4
  <2>2. /\ kept.buffer <= Len(written) /\ kept.sync <= Len(written)
        /\ Len(written) >= expect
    BY <1>2, Zenon DEF Up
  <2>3. ASSUME NEW i \in 1..Len(written), i <= sound'
        PROVE  \E f, p : /\ IsEnd(f, p)' /\ Sum(f, p)' = written[i].items /\ Clean(Ent(f)', p)
                         /\ i <= kept.buffer => f < Len(files) \/ p <= flushed
                         /\ i <= kept.sync => f < Len(files) \/ p <= synced
    <3>1. i <= sound
      BY <1>2, <1>4, <2>3 DEF HistoryShape
    <3>2. PICK f, p : /\ IsEnd(f, p) /\ Sum(f, p) = written[i].items /\ Clean(Ent(f), p)
                      /\ i <= kept.buffer => f < Len(files) \/ p <= flushed
                      /\ i <= kept.sync => f < Len(files) \/ p <= synced
      BY <1>2, <3>1, Zenon DEF Up
    <3> QED
      BY <1>6, <3>2, Zenon
  <2> QED
    BY <1>1, <1>6, <2>1, <2>2, <2>3, Zenon DEF Up
<1> QED
  BY <1>1, <1>5, <1>6, <1>7 DEF IInv

\* The entries of the batch o: a start, the items, an end.
Parts(o, c, s, m) ==
    /\ m \in Nat
    /\ PartOf(o, 1).tag = "start" /\ PartOf(o, 1).count = m /\ PartOf(o, 1).seqno = s
    /\ PartOf(o, m + 2).tag = "end" /\ PartOf(o, m + 2).checksum = c
    /\ \A j \in 2..(m + 1) : PartOf(o, j) = c[j - 1] /\ PartOf(o, j) \in ItemEntry
                             /\ PartOf(o, j).tag \in {"item", "clear"}
    /\ \A j \in 1..(m + 2) : PartOf(o, j).tag = "start" => j = 1
    /\ \A j \in 1..(m + 2) : PartOf(o, j).tag = "end" => j = m + 2

\* The parts are what their places say.
LEMMA PartMeans ==
  ASSUME NEW o, NEW c \in Seq(ItemEntry), NEW s \in Nat, NEW m, c = o.items, s = o.seqno, m = Len(c), m >= 1
  PROVE  Parts(o, c, s, m)
<1>1. m \in Nat /\ 1 # m + 2
  OBVIOUS
<1>2. PartOf(o, 1) = Start(m, s) /\ PartOf(o, m + 2) = End(c)
  BY <1>1, Zenon DEF PartOf
<1>3. PartOf(o, 1).tag = "start" /\ PartOf(o, 1).count = m /\ PartOf(o, 1).seqno = s
  BY <1>2 DEF Start
<1>4. PartOf(o, m + 2).tag = "end" /\ PartOf(o, m + 2).checksum = c
  BY <1>2 DEF End
<1>5. ASSUME NEW j \in 2..(m + 1)
      PROVE  PartOf(o, j) = c[j - 1] /\ PartOf(o, j) \in ItemEntry /\ PartOf(o, j).tag \in {"item", "clear"}
  <2>1. j # 1 /\ j # m + 2 /\ j - 1 \in 1..Len(c)
    BY <1>1
  <2>2. PartOf(o, j) = c[j - 1]
    BY <2>1, Zenon DEF PartOf
  <2>3. PartOf(o, j) \in ItemEntry
    BY <2>1, <2>2, SeqElement, Zenon
  <2> QED
    BY <2>2, <2>3, EntryKinds, Zenon
<1>6. \A j \in 1..(m + 2) : j = 1 \/ j = m + 2 \/ j \in 2..(m + 1)
  BY <1>1
<1>7. \A x : x \in {"item", "clear"} => x # "start" /\ x # "end"
  OBVIOUS
<1>8. ASSUME NEW j \in 1..(m + 2) PROVE (PartOf(o, j).tag = "start" => j = 1) /\ (PartOf(o, j).tag = "end" => j = m + 2)
  <2>1. CASE j = 1
    BY <1>3, <2>1
  <2>2. CASE j = m + 2
    BY <1>4, <2>2
  <2>3. CASE j \in 2..(m + 1)
    BY <1>5, <1>7, <2>3, Zenon
  <2> QED
    BY <1>6, <2>1, <2>2, <2>3, Zenon
<1> QED
  BY <1>1, <1>3, <1>4, <1>5, <1>8, Zenon DEF Parts

\* One more of y + 2.
LEMMA CountUp == \A x, y \in Nat : x <= y + 1 => x + 1 \in 1..(y + 2) /\ (x + 1 = y + 2 <=> x = y + 1)
  OBVIOUS

\* Where a batch of m items ends.
LEMMA BatchPlaces == \A b, m \in Nat : (b + (m + 1)) + 1 = (b + 1) + m + 1
  OBVIOUS

Placed(o, c, s, m, k, b, e, n, d) ==
    /\ c \in Seq(ItemEntry) /\ s \in Nat /\ c = o.items /\ s = o.seqno /\ m = Len(c) /\ m >= 1
    /\ \A j \in 1..m : c[j].seqno = s
    /\ k \in 0..(m + 1) /\ b \in Nat
    /\ e \in Seq(Entries) /\ n = Len(e) /\ n = b + k
    /\ d \in Seq(Entries) /\ Len(d) = n + 1 /\ \A j \in 1..n : d[j] = e[j]
    /\ \A j \in 1..(k + 1) : d[b + j] = PartOf(o, j)
EntryFits(e, d, c, k, m, b, n) ==
    /\ k = m + 1 => Whole(d, b + 1, n + 1) /\ d[n + 1].checksum = c
    /\ d[n + 1].tag = "end" <=> k = m + 1
    /\ Grammar(e) => Grammar(d)
    /\ Paired(e) => Paired(d)

\* The file after one more entry of the batch under way, which begins behind place b.
LEMMA NewEntry ==
  ASSUME NEW o, NEW c, NEW s, NEW m, NEW k, NEW b, NEW e, NEW n, NEW d, Placed(o, c, s, m, k, b, e, n, d)
  PROVE  EntryFits(e, d, c, k, m, b, n)
<1> SUFFICES ASSUME c \in Seq(ItemEntry), s \in Nat, c = o.items, s = o.seqno, m = Len(c), m >= 1,
                    \A j \in 1..m : c[j].seqno = s, k \in 0..(m + 1), b \in Nat,
                    e \in Seq(Entries), n = Len(e), n = b + k,
                    d \in Seq(Entries), Len(d) = n + 1, \A j \in 1..n : d[j] = e[j],
                    \A j \in 1..(k + 1) : d[b + j] = PartOf(o, j)
             PROVE  EntryFits(e, d, c, k, m, b, n)
  BY Zenon DEF Placed
<1>1. /\ m \in Nat /\ n \in Nat /\ k \in Nat
  OBVIOUS
<1>2. PICK a, q, z : a = n + 1 /\ q = b + 1 /\ z = d[a]
  BY Zenon
<1>3. z = PartOf(o, k + 1) /\ d[q] = PartOf(o, 1) /\ a \in Nat /\ q \in Nat
  <2>1. a = b + (k + 1) /\ k + 1 \in 1..(k + 1) /\ 1 \in 1..(k + 1) /\ a \in Nat /\ q \in Nat
    BY <1>1, <1>2
  <2> QED
    BY <1>2, <2>1, Zenon
<1>0. Parts(o, c, s, m)
  BY PartMeans, Zenon
<1>4. /\ PartOf(o, 1).tag = "start" /\ PartOf(o, 1).count = m /\ PartOf(o, 1).seqno = s
      /\ PartOf(o, m + 2).tag = "end" /\ PartOf(o, m + 2).checksum = c
  BY <1>0, Zenon DEF Parts
<1>5. \A j \in 2..(m + 1) : PartOf(o, j) = c[j - 1] /\ PartOf(o, j) \in ItemEntry
                            /\ PartOf(o, j).tag \in {"item", "clear"}
  BY <1>0, Zenon DEF Parts
<1>6. \A j \in 1..(m + 2) : (PartOf(o, j).tag = "start" => j = 1) /\ (PartOf(o, j).tag = "end" => j = m + 2)
  BY <1>0, Zenon DEF Parts
<1>7. z.tag = "end" <=> k = m + 1
  <2>1. k + 1 \in 1..(m + 2) /\ (k + 1 = m + 2 <=> k = m + 1)
    <3>1. k \in Nat /\ m \in Nat /\ k <= m + 1
      BY <1>1
    <3> QED
      BY <3>1, CountUp, Zenon
  <2> QED
    BY <1>3, <1>4, <1>6, <2>1, Zenon
<1>8. ASSUME k = m + 1 PROVE Whole(d, q, a) /\ z.checksum = c
  <2>1. a = q + m + 1 /\ k + 1 = m + 2
    <3>1. n = b + (m + 1)
      BY <1>8, Zenon
    <3>2. a = q + m + 1
      BY <1>1, <1>2, <3>1, BatchPlaces, ZenonT(30)
    <3>3. (m + 1) + 1 = m + 2
      BY <1>1, SMTT(30)
    <3> QED
      BY <1>8, <3>2, <3>3, Zenon
  <2>2. z.checksum = c
    BY <1>3, <1>4, <2>1, Zenon
  <2>3. ASSUME NEW j \in 1..m PROVE d[q + j] \in ItemEntry /\ d[q + j] = c[j]
    <3>1. j + 1 \in 2..(m + 1) /\ j + 1 \in 1..(k + 1) /\ b + (j + 1) = q + j /\ (j + 1) - 1 = j
      BY <1>1, <1>2, <1>8
    <3>2. d[b + (j + 1)] = PartOf(o, j + 1)
      BY <3>1, Zenon
    <3>3. PartOf(o, j + 1) = c[(j + 1) - 1] /\ PartOf(o, j + 1) \in ItemEntry
      BY <1>5, <3>1, Zenon
    <3> QED
      BY <3>1, <3>2, <3>3, Zenon
  <2>4. d[q].tag = "start" /\ d[a].tag = "end" /\ d[q].count = m
    BY <1>2, <1>3, <1>4, <1>7, <1>8, Zenon
  <2> QED
    BY <1>2, <2>1, <2>2, <2>3, <2>4, Zenon DEF Whole
<1>9. z.tag \in {"item", "clear"} => k \in 1..m
  <2>1. k = 0 => k + 1 = 1
    OBVIOUS
  <2>2. k = 0 => z.tag = "start"
    BY <1>3, <1>4, <2>1, Zenon
  <2>3. z.tag \in {"item", "clear"} => z.tag # "start" /\ z.tag # "end"
    OBVIOUS
  <2>4. k = 0 \/ k = m + 1 \/ k \in 1..m
    BY <1>1
  <2> QED
    BY <1>7, <2>2, <2>3, <2>4, Zenon
<1>10. ASSUME k \in 1..m
       PROVE  /\ q \in 1..n /\ d[q].tag = "start" /\ a - q <= d[q].count
              /\ \A j \in (q + 1)..a : d[j].tag \in {"item", "clear"}
  <2>1. q \in 1..n /\ a - q <= m
    BY <1>1, <1>2, <1>10
  <2>2. d[q].tag = "start" /\ d[q].count = m
    BY <1>3, <1>4, Zenon
  <2>3. ASSUME NEW j \in (q + 1)..a PROVE d[j].tag \in {"item", "clear"}
    <3>1. PICK i : i = j - b
      BY Zenon
    <3>2. i \in 2..(m + 1) /\ i \in 1..(k + 1) /\ b + i = j
      BY <1>1, <1>2, <1>3, <1>10, <3>1, SMTT(30)
    <3> QED
      BY <1>5, <3>2, Zenon
  <2> QED
    BY <2>1, <2>2, <2>3, Zenon
<1>11. ASSUME e[n].tag = "start", n \in 1..n, z.tag \in {"item", "clear"} PROVE z.seqno = e[n].seqno
  <2>1. k \in 1..m
    BY <1>9, <1>11, Zenon
  <2>2. k \in 1..(k + 1) /\ b + k = n /\ k \in 1..(m + 2) /\ 1 \in 1..m
    BY <1>1, <2>1, SMTT(30)
  <2>3. e[n] = PartOf(o, k)
    BY <1>11, <2>2, Zenon
  <2>4. k = 1
    BY <1>6, <1>11, <2>2, <2>3, Zenon
  <2>5. k + 1 \in 2..(m + 1) /\ (k + 1) - 1 = 1
    BY <1>1, <2>1, <2>4
  <2>6. z = c[1]
    BY <1>3, <1>5, <2>5, Zenon
  <2> QED
    BY <1>4, <2>2, <2>3, <2>4, <2>6, Zenon
<1>12. Fits(d, n, z) /\ Follows(e, n, z)
  <2>1. k = m + 1 => k >= 1
    BY <1>1
  <2>2. k >= 1 => q \in 1..n
    BY <1>1, <1>2
  <2>3. z.tag = "end" => \E h \in 1..n : Whole(d, h, n + 1)
    BY <1>2, <1>7, <1>8, <2>1, <2>2, Zenon
  <2>4. ASSUME z.tag \in {"item", "clear"}
        PROVE  \E h \in 1..n : /\ d[h].tag = "start" /\ n + 1 - h <= d[h].count
                               /\ \A j \in (h + 1)..(n + 1) : d[j].tag \in {"item", "clear"}
    <3>1. n + 1 = a
      BY <1>2, Zenon
    <3>2. /\ q \in 1..n /\ d[q].tag = "start" /\ a - q <= d[q].count
          /\ \A j \in (q + 1)..a : d[j].tag \in {"item", "clear"}
      BY <1>9, <1>10, <2>4, Zenon
    <3>3. n + 1 - q <= d[q].count
      <4>1. n + 1 - q = a - q
        BY <1>1, <1>3, <3>1
      <4> QED
        BY <3>2, <4>1, Zenon
    <3>4. \A j \in (q + 1)..(n + 1) : d[j].tag \in {"item", "clear"}
      BY <3>1, <3>2, Zenon
    <3> QED
      BY <3>2, <3>3, <3>4, Zenon
  <2>5. Follows(e, n, z)
    BY <1>11, Zenon DEF Follows
  <2> QED
    BY <2>3, <2>4, <2>5, Zenon DEF Fits
<1>13. (Grammar(e) => Grammar(d)) /\ (Paired(e) => Paired(d))
  <2>1. Len(d) = Len(e) + 1 /\ z = d[Len(e) + 1] /\ (\A j \in 1..Len(e) : d[j] = e[j])
        /\ Fits(d, Len(e), z) /\ Follows(e, Len(e), z)
    BY <1>2, <1>12, Zenon
  <2> QED
    BY <2>1, LongerFile, Zenon
<1> QED
  BY <1>2, <1>7, <1>8, <1>13, Zenon DEF EntryFits

\* The batch o of which the first k entries stand behind place b of the active file.
Writing(o, c, s, m, k, t, e, n, b) ==
    /\ c \in Seq(ItemEntry) /\ s \in Nat /\ m \in Nat /\ m >= 1 /\ c = o.items /\ s = o.seqno /\ m = Len(c)
    /\ \A j \in 1..m : c[j].seqno = s
    /\ k \in 0..(m + 1) /\ b \in Nat /\ n \in Nat /\ n = b + k
    /\ t \in Seq(Entries) /\ Len(t) + k = m + 2 /\ Head(t) = PartOf(o, k + 1) /\ Head(t) \in Entries
    /\ Tail(t) \in Seq(Entries) /\ Len(Tail(t)) + (k + 1) = m + 2
    /\ \A j \in 1..Len(Tail(t)) : Tail(t)[j] = PartOf(o, (k + 1) + j)
    /\ \A j \in 1..k : e[b + j] = PartOf(o, j)
    /\ s \in 1..begun /\ \A i \in 1..Len(written) : written[i].seqno < s
    /\ Base = b

\* What an operation has written so far, and has yet to write.
LEMMA WritingMeans ==
  ASSUME IInv, todo # <<>>, NEW o, o = op, NEW c, c = o.items, NEW s, s = o.seqno, NEW m, m = Len(c),
         NEW t, t = todo, NEW k, k = Done(o, t), NEW e, e = Active.entries, NEW n, n = Len(e), NEW b, b = n - k
  PROVE  Writing(o, c, s, m, k, t, e, n, b)
<1>1. FileShape /\ WriterShape /\ Pending
  BY Zenon DEF IInv
<1>2. c \in Seq(ItemEntry) /\ s \in Nat /\ t \in Seq(Entries) /\ e \in Seq(Entries) /\ n \in Nat
  <2>1. e \in Seq(Entries) /\ n \in Nat
    BY <1>1, FileTypes, Zenon
  <2>2. o \in [kind : {"none", "raw", "clear", "batch"}, seqno : Nat, items : Seq(ItemEntry)]
    BY <1>1, Zenon DEF WriterShape
  <2>3. c \in Seq(ItemEntry) /\ s \in Nat
    BY <2>2
  <2> QED
    BY <1>1, <2>1, <2>3, Zenon DEF WriterShape
<1>3. m >= 1 /\ Len(t) <= m + 2 /\ s \in 1..begun
      /\ (\A j \in 1..m : c[j].seqno = s) /\ (\A i \in 1..Len(written) : written[i].seqno < s)
      /\ (\A j \in 1..Len(t) : t[j] = PartOf(o, k + j))
      /\ k <= n /\ (\A j \in 1..k : e[n - k + j] = PartOf(o, j))
  BY <1>1, Zenon DEF Pending
<1>4. m \in Nat /\ Len(t) \in Nat /\ Len(t) >= 1
  <2>1. t # <<>>
    BY Zenon
  <2>2. m \in Nat
    BY <1>2
  <2>3. Len(t) \in Nat /\ Len(t) >= 1
    BY <1>2, <2>1
  <2> QED
    BY <2>2, <2>3, Zenon
<1>5. k = m + 2 - Len(t)
  BY Zenon DEF Done
<1>6. PICK T : T = Len(t)
  BY Zenon
<1>7. k \in 0..(m + 1) /\ T + k = m + 2
  BY <1>3, <1>4, <1>5, <1>6
<1>8. b \in Nat /\ n = b + k
  BY <1>2, <1>3, <1>7
<1>9. Head(t) = t[1] /\ Tail(t) \in Seq(Entries) /\ Len(Tail(t)) = T - 1 /\ \A j \in 1..(T - 1) : Tail(t)[j] = t[j + 1]
  <2>1. t # <<>>
    BY Zenon
  <2> QED
    BY <1>2, <1>4, <1>6, <2>1
<1>10. Head(t) = PartOf(o, k + 1) /\ Head(t) \in Entries
  <2>1. 1 \in 1..Len(t)
    BY <1>4
  <2> QED
    BY <1>2, <1>3, <1>9, <2>1, SeqElement, Zenon
<1>11. Len(Tail(t)) + (k + 1) = m + 2
  BY <1>4, <1>6, <1>7, <1>9
<1>12. ASSUME NEW j \in 1..Len(Tail(t)) PROVE Tail(t)[j] = PartOf(o, (k + 1) + j)
  <2>1. j \in 1..(T - 1)
    BY <1>9, Zenon
  <2>2. j + 1 \in 1..T /\ k + (j + 1) = (k + 1) + j
    BY <1>4, <1>6, <1>7, <2>1
  <2>3. t[j + 1] = PartOf(o, k + (j + 1))
    BY <1>3, <1>6, <2>2, Zenon
  <2> QED
    BY <1>9, <2>1, <2>2, <2>3, Zenon
<1>13. ASSUME NEW j \in 1..k PROVE e[b + j] = PartOf(o, j)
  <2>1. n - k + j = b + j
    BY <1>2, <1>7
  <2> QED
    BY <1>3, <2>1, Zenon
<1>14. Base = b
  BY Zenon DEF Base
<1> QED
  BY <1>2, <1>3, <1>4, <1>6, <1>7, <1>8, <1>10, <1>9, <1>11, <1>12, <1>13, <1>14, Zenon DEF Writing

EntryDone(o, c, m, k, t, e, n, b, L, d) ==
    /\ OneEntryMore(L, e, n, Head(t)) /\ Files'
    /\ \A j \in 1..(k + 1) : d[b + j] = PartOf(o, j)
    /\ k = m + 1 => Whole(d, b + 1, n + 1) /\ d[n + 1].checksum = c
    /\ d[n + 1].tag = "end" <=> k = m + 1

\* What every WriteEntry does to the active file.
LEMMA EntryWritten ==
  ASSUME IInv, WriteEntry, NEW o, NEW c, NEW s, NEW m, NEW k, NEW t, t = todo, NEW e, e = Active.entries, NEW n, n = Len(e), NEW b,
         Writing(o, c, s, m, k, t, e, n, b), NEW L, L = Len(files), NEW d, d = Ent(L)'
  PROVE  EntryDone(o, c, m, k, t, e, n, b, L, d)
<1>1. phase = "up" /\ files' = [files EXCEPT ![Len(files)] = Written(@, Head(todo))] /\ append' = append /\ damaged' = damaged
  BY Zenon DEF WriteEntry
<1>2. FileShape /\ Files
  BY Zenon DEF IInv
<1>3. e = Ent(L)
  BY <1>2, FileTypes, Zenon
<1>4. Head(t) \in Entries
  BY Zenon DEF Writing
<1>5. files' = [files EXCEPT ![Len(files)] = Written(@, Head(t))]
  BY <1>1, Zenon
<1>6. OneEntryMore(L, e, n, Head(t))
  BY <1>1, <1>3, <1>4, <1>5, AppendEntry, Zenon
<1>7. /\ Len(files') = L /\ L \in 1..L /\ n \in Nat /\ e \in Seq(Entries)
      /\ \A f \in 1..L : f # L => Ent(f)' = Ent(f)
      /\ d \in Seq(Entries) /\ Len(d) = n + 1 /\ d[n + 1] = Head(t)
      /\ \A j \in 1..n : d[j] = e[j]
  BY <1>6, Zenon DEF OneEntryMore
<1>8. k \in 0..(m + 1) /\ b \in Nat /\ m \in Nat /\ n = b + k /\ Head(t) = PartOf(o, k + 1)
      /\ (\A j \in 1..k : e[b + j] = PartOf(o, j))
  BY Zenon DEF Writing
<1>9. ASSUME NEW j \in 1..(k + 1) PROVE d[b + j] = PartOf(o, j)
  <2>1. CASE j = k + 1
    <3>1. n + 1 = b + j
      BY <1>8, <2>1
    <3> QED
      BY <1>7, <1>8, <2>1, <3>1, Zenon
  <2>2. CASE j # k + 1
    <3>1. j \in 1..k /\ b + j \in 1..n
      BY <1>8, <2>2
    <3> QED
      BY <1>7, <1>8, <3>1, Zenon
  <2> QED
    BY <2>1, <2>2, Zenon
<1>10. c \in Seq(ItemEntry) /\ s \in Nat /\ c = o.items /\ s = o.seqno /\ m = Len(c) /\ m >= 1 /\ \A j \in 1..m : c[j].seqno = s
  BY Zenon DEF Writing
<1>11. EntryFits(e, d, c, k, m, b, n)
  <2>1. Placed(o, c, s, m, k, b, e, n, d)
    BY <1>7, <1>8, <1>9, <1>10, Zenon DEF Placed
  <2> QED
    BY <2>1, NewEntry, Zenon
<1>12. damaged' <=> damaged
  BY <1>1
<1>13. ASSUME NEW f \in 1..L PROVE Paired(Ent(f)') /\ (~damaged => Grammar(Ent(f)'))
  BY <1>2, <1>3, <1>7, <1>11, <1>13, Zenon DEF Files, EntryFits
<1>14. Files'
  BY <1>7, <1>12, <1>13, Zenon DEF Files
<1> QED
  BY <1>6, <1>9, <1>11, <1>14, Zenon DEF EntryFits, EntryDone

\* An entry that does not end the batch.
LEMMA WriteMore ==
  ASSUME IInv, WriteEntry, NEW o, o = op, NEW c, NEW s, NEW m, NEW k, NEW t, t = todo, NEW e, e = Active.entries,
         NEW n, n = Len(e), NEW b, Writing(o, c, s, m, k, t, e, n, b), k # m + 1
  PROVE  IInv'
<1>1. PICK L, d, x : L = Len(files) /\ d = Ent(L)' /\ x = Tail(t)
  BY Zenon
<1>2. /\ OneEntryMore(L, e, n, Head(t)) /\ Files'
      /\ \A j \in 1..(k + 1) : d[b + j] = PartOf(o, j)
      /\ d[n + 1].tag # "end"
  <2>1. EntryDone(o, c, m, k, t, e, n, b, L, d)
    BY <1>1, EntryWritten, Zenon
  <2> QED
    BY <2>1, Zenon DEF EntryDone
<1>3. /\ FileShape' /\ Len(files') = L /\ L \in 1..L /\ L \in Nat /\ n \in Nat /\ e \in Seq(Entries)
      /\ \A f \in 1..L : f # L => Ent(f)' = Ent(f)
      /\ d \in Seq(Entries) /\ Len(d) = n + 1 /\ d[n + 1] = Head(t)
      /\ \A j \in 1..n : d[j] = e[j]
      /\ append' => ~Active'.padded
      /\ Active'.entries = d /\ Active.entries = e
      /\ \A f, p : IsEnd(f, p)' => (IsEnd(f, p) /\ Sum(f, p)' = Sum(f, p)) \/ (f = L /\ p = n + 1 /\ Head(t).tag = "end")
      /\ \A f, p : IsEnd(f, p) /\ Clean(Ent(f), p) => IsEnd(f, p)' /\ Sum(f, p)' = Sum(f, p) /\ Clean(Ent(f)', p)
  BY <1>1, <1>2, Zenon DEF OneEntryMore
<1>4. /\ c \in Seq(ItemEntry) /\ s \in Nat /\ m \in Nat /\ m >= 1 /\ c = o.items /\ s = o.seqno /\ m = Len(c)
      /\ \A j \in 1..m : c[j].seqno = s
      /\ k \in 0..(m + 1) /\ b \in Nat /\ n = b + k /\ Len(t) + k = m + 2
      /\ x \in Seq(Entries) /\ Len(x) + (k + 1) = m + 2
      /\ \A j \in 1..Len(x) : x[j] = PartOf(o, (k + 1) + j)
      /\ s \in 1..begun /\ \A i \in 1..Len(written) : written[i].seqno < s
      /\ Base = b
  BY <1>1, Zenon DEF Writing
<1>5. Len(t) \in Nat /\ Len(x) \in Nat
  <2>1. t \in Seq(Entries)
    BY Zenon DEF Writing
  <2> QED
    BY <1>4, <2>1, SMTT(30)
<1>6. Len(t) # 1 /\ Len(x) >= 1 /\ Len(x) <= m + 2 /\ m + 2 - Len(x) = k + 1 /\ k \in Nat
  <2>1. PICK T, X : T = Len(t) /\ X = Len(x)
    BY Zenon
  <2>2. T \in Nat /\ X \in Nat /\ m \in Nat /\ k \in 0..(m + 1) /\ T + k = m + 2 /\ X + (k + 1) = m + 2
    BY <1>4, <1>5, <2>1, Zenon
  <2>3. k \in Nat /\ k <= m
    BY <2>2
  <2>4. T # 1 /\ X >= 1 /\ X <= m + 2 /\ m + 2 - X = k + 1
    BY <2>2, <2>3
  <2> QED
    BY <2>1, <2>3, <2>4, Zenon
<1>7. /\ phase = "up" /\ todo' = x /\ op' = o /\ written' = written
      /\ UNCHANGED <<append, flushed, synced, op, phase, rd, delivered, kept, expect, sound, damaged, begun>>
  BY <1>1, <1>6, Zenon DEF WriteEntry, counts
<1>8. FileShape /\ WriterShape /\ ReaderShape /\ HistoryShape /\ Batches /\ Handed /\ Up /\ EndsWritten /\ EndsOrdered
  BY <1>7, Zenon DEF IInv
<1>9. WriterShape' /\ ReaderShape' /\ HistoryShape' /\ Handed' /\ Batches'
  BY <1>4, <1>7, <1>8, Zenon DEF WriterShape, ReaderShape, HistoryShape, Handed, Batches, IsBatch
<1>10. EndsWritten' /\ EndsOrdered'
  <2>1. \A f, p : IsEnd(f, p)' => IsEnd(f, p) /\ Sum(f, p)' = Sum(f, p)
    BY <1>2, <1>3, Zenon
  <2>2. Len(written) \in Nat /\ Len(written) <= Len(written)
    BY <1>8 DEF HistoryShape
  <2> QED
    BY <1>7, <1>8, <2>1, <2>2, EndsKept, Zenon
<1>11. x # <<>> /\ Done(o, x) = k + 1
  <2>1. x # <<>>
    BY <1>5, <1>6
  <2> QED
    BY <1>4, <1>6, <2>1, Zenon DEF Done
<1>12. PICK K, M : K = k + 1 /\ M = n + 1
  BY Zenon
<1>13. K <= M /\ M - K = b /\ b <= n /\ \A j : M - K + j = b + j
  <2>1. K <= M /\ M - K = b /\ b <= n
    BY <1>3, <1>4, <1>6, <1>12, SMTT(30)
  <2> QED
    BY <2>1, Zenon
<1>14. Pending'
  <2>1. \A j \in 1..Len(x) : x[j] = PartOf(o, K + j)
    BY <1>4, <1>12, Zenon
  <2>2. \A j \in 1..K : d[M - K + j] = PartOf(o, j)
    BY <1>2, <1>12, <1>13, Zenon
  <2>3. Done(o, x) = K /\ Len(d) = M
    BY <1>3, <1>11, <1>12, Zenon
  <2>4. /\ phase' = "up" /\ op'.seqno \in 1..begun' /\ Len(op'.items) >= 1 /\ Len(todo') <= Len(op'.items) + 2
        /\ \A j \in 1..Len(op'.items) : op'.items[j].seqno = op'.seqno
        /\ \A i \in 1..Len(written') : written'[i].seqno < op'.seqno
    BY <1>4, <1>6, <1>7, Zenon
  <2>5. Done(op', todo') = K /\ Len(Active'.entries) = M
    BY <1>3, <1>7, <2>3, Zenon
  <2>6. /\ \A j \in 1..Len(todo') : todo'[j] = PartOf(op', K + j)
        /\ K <= M
        /\ \A j \in 1..K : Active'.entries[M - K + j] = PartOf(op', j)
    BY <1>3, <1>7, <1>13, <2>1, <2>2, Zenon
  <2> QED
    BY <2>4, <2>5, <2>6, Zenon DEF Pending
<1>15. Base' = b
  <2>1. Len(Active'.entries) = M /\ Done(op', todo') = K /\ todo' # <<>>
    BY <1>3, <1>7, <1>11, <1>12, Zenon
  <2> QED
    BY <1>13, <2>1, Zenon DEF Base
<1>16. Tidy => Tidy'
  <2> SUFFICES ASSUME Tidy PROVE Tidy'
    OBVIOUS
  <2>1. (\A f \in 1..(L - 1) : Clean(Ent(f), Len(Ent(f)))) /\ Clean(e, b)
    BY <1>1, <1>4, Zenon DEF Tidy
  <2>2. \A f \in 1..(L - 1) : f \in 1..L /\ f # L
    BY <1>3, SMTT(30)
  <2>3. b \in 0..Len(e) /\ \A j \in 1..b : j \in 1..n
    BY <1>3, <1>4, <1>13, SMTT(30)
  <2>4. Clean(d, b)
    BY <1>3, <2>1, <2>3, CleanSame, Zenon
  <2>5. \A f \in 1..(L - 1) : Clean(Ent(f)', Len(Ent(f)'))
    <3> SUFFICES ASSUME NEW f \in 1..(L - 1) PROVE Clean(Ent(f)', Len(Ent(f)'))
      BY Zenon
    <3>1. Ent(f)' = Ent(f)
      BY <1>3, <2>2, Zenon
    <3> QED
      BY <2>1, <3>1, Zenon
  <2> QED
    BY <1>3, <1>15, <2>4, <2>5, Zenon DEF Tidy
<1>17. Up'
  <2>1. /\ sound > Len(written) => Tidy
        /\ kept.buffer <= Len(written) /\ kept.sync <= Len(written) /\ Len(written) >= expect
    BY <1>8, Zenon DEF Up
  <2>2. ASSUME NEW i \in 1..Len(written), i <= sound
        PROVE  \E f, p : /\ IsEnd(f, p)' /\ Sum(f, p)' = written[i].items /\ Clean(Ent(f)', p)
                         /\ i <= kept.buffer => f < L \/ p <= flushed
                         /\ i <= kept.sync => f < L \/ p <= synced
    <3>1. PICK f, p : /\ IsEnd(f, p) /\ Sum(f, p) = written[i].items /\ Clean(Ent(f), p)
                      /\ i <= kept.buffer => f < L \/ p <= flushed
                      /\ i <= kept.sync => f < L \/ p <= synced
      BY <1>1, <1>8, <2>2, Zenon DEF Up
    <3> QED
      BY <1>3, <3>1, Zenon
  <2> QED
    BY <1>3, <1>7, <1>16, <2>1, <2>2, Zenon DEF Up
<1> QED
  BY <1>2, <1>3, <1>7, <1>9, <1>10, <1>14, <1>17 DEF IInv

\* The end of the batch, which is now written.
LEMMA WriteLast ==
  ASSUME IInv, WriteEntry, NEW o, o = op, NEW c, NEW s, NEW m, NEW k, NEW t, t = todo, NEW e, e = Active.entries,
         NEW n, n = Len(e), NEW b, Writing(o, c, s, m, k, t, e, n, b), k = m + 1
  PROVE  IInv'
<1>1. PICK L, d, M, W, V, B : L = Len(files) /\ d = Ent(L)' /\ M = n + 1 /\ W = Len(written) /\ V = W + 1
                              /\ B = [seqno |-> s, items |-> c]
  BY Zenon
<1>2. OneEntryMore(L, e, n, Head(t)) /\ Files' /\ Whole(d, b + 1, M) /\ d[M].checksum = c /\ d[M].tag = "end"
  <2>1. EntryDone(o, c, m, k, t, e, n, b, L, d)
    BY <1>1, EntryWritten, Zenon
  <2> QED
    BY <1>1, <2>1, Zenon DEF EntryDone
<1>3. /\ FileShape' /\ Len(files') = L /\ L \in 1..L /\ L \in Nat /\ n \in Nat /\ e \in Seq(Entries)
      /\ \A f \in 1..L : f # L => Ent(f)' = Ent(f)
      /\ d \in Seq(Entries) /\ Len(d) = M
      /\ \A j \in 1..n : d[j] = e[j]
      /\ append' => ~Active'.padded
      /\ Active'.entries = d
      /\ \A f, p : IsEnd(f, p)' => (IsEnd(f, p) /\ Sum(f, p)' = Sum(f, p)) \/ (f = L /\ p = M)
      /\ \A f, p : IsEnd(f, p) /\ Clean(Ent(f), p) => IsEnd(f, p)' /\ Sum(f, p)' = Sum(f, p) /\ Clean(Ent(f)', p)
  BY <1>1, <1>2, Zenon DEF OneEntryMore
<1>4. /\ c \in Seq(ItemEntry) /\ s \in Nat /\ m \in Nat /\ m >= 1 /\ c = o.items /\ s = o.seqno /\ m = Len(c)
      /\ \A j \in 1..m : c[j].seqno = s
      /\ b \in Nat /\ n = b + k /\ t \in Seq(Entries) /\ Len(t) + k = m + 2
      /\ Tail(t) \in Seq(Entries) /\ Len(Tail(t)) + (k + 1) = m + 2
      /\ s \in 1..begun /\ \A i \in 1..Len(written) : written[i].seqno < s
      /\ Base = b
  BY Zenon DEF Writing
<1>5. Len(t) = 1 /\ Tail(t) = <<>>
  <2>1. PICK T, X, x : T = Len(t) /\ x = Tail(t) /\ X = Len(x)
    BY Zenon
  <2>2. T \in Nat /\ X \in Nat /\ x \in Seq(Entries)
    <3>1. Len(t) \in Nat /\ Len(Tail(t)) \in Nat
      BY <1>4
    <3> QED
      BY <1>4, <2>1, <3>1, Zenon
  <2>3. T + (m + 1) = m + 2 /\ X + ((m + 1) + 1) = m + 2 /\ m \in Nat
    BY <1>4, <2>1, Zenon
  <2>4. T = 1 /\ X = 0
    BY <2>2, <2>3
  <2>5. x = <<>>
    BY <2>1, <2>2, <2>4
  <2> QED
    BY <2>1, <2>4, <2>5, Zenon
<1>6. /\ phase = "up" /\ todo' = <<>> /\ written' = Append(written, B)
      /\ UNCHANGED <<append, flushed, synced, op, phase, rd, delivered, kept, expect, sound, damaged, begun>>
  BY <1>1, <1>4, <1>5, Zenon DEF WriteEntry, counts
<1>7. FileShape /\ WriterShape /\ ReaderShape /\ HistoryShape /\ Batches /\ Handed /\ Up /\ EndsWritten /\ EndsOrdered
  BY <1>6, Zenon DEF IInv
<1>8. B \in Batch /\ B.seqno = s /\ B.items = c
  BY <1>1, <1>4 DEF Batch
<1>9. /\ written' \in Seq(Batch) /\ W \in Nat /\ Len(written') = V /\ written'[V] = B
      /\ \A j \in 1..W : written'[j] = written[j]
  <2>1. PICK r, w : r = written' /\ w = written
    BY Zenon
  <2>2. w \in Seq(Batch) /\ r = Append(w, B) /\ W = Len(w)
    BY <1>1, <1>6, <1>7, <2>1, Zenon DEF HistoryShape
  <2>3. r \in Seq(Batch) /\ W \in Nat /\ Len(r) = W + 1 /\ r[W + 1] = B /\ \A j \in 1..W : r[j] = w[j]
    BY <1>8, <2>2, BatchAppend, SMTT(30)
  <2> QED
    BY <1>1, <2>1, <2>3, Zenon
<1>10. /\ \A j \in 1..V : j \in 1..W \/ j = V
       /\ \A j \in 1..W : j \in 1..V /\ j < V /\ ~(V < j)
       /\ ~(V < V) /\ V \in 1..V /\ V \in Nat /\ W <= V /\ 1 \in 1..m
  <2>1. V = W + 1 /\ W \in Nat
    BY <1>1, <1>9, Zenon
  <2>2. /\ \A j \in 1..V : j \in 1..W \/ j = V
        /\ \A j \in 1..W : j \in 1..V /\ j < V /\ ~(V < j)
        /\ ~(V < V) /\ V \in 1..V /\ V \in Nat /\ W <= V
    BY <2>1
  <2>3. m \in Nat /\ m >= 1
    BY <1>4, Zenon
  <2>4. 1 \in 1..m
    BY <2>3
  <2> QED
    BY <2>2, <2>4, Zenon
<1>11. c[1].seqno = s
  BY <1>4, <1>10, Zenon
<1>12. WriterShape' /\ ReaderShape' /\ HistoryShape'
  BY <1>6, <1>7, <1>9, OpTypes, Zenon DEF WriterShape, ReaderShape, HistoryShape
<1>13. Batches'
  <2>1. IsBatch(B) /\ \A i \in 1..W : IsBatch(written[i])
    BY <1>1, <1>4, <1>7, <1>8, <1>11, Zenon DEF IsBatch, Batches
  <2>2. \A i \in 1..V : IsBatch(written'[i])
    BY <1>9, <1>10, <2>1, Zenon
  <2>3. \A i, j \in 1..V : i < j => written'[i].seqno < written'[j].seqno
    BY <1>1, <1>4, <1>7, <1>8, <1>9, <1>10, Zenon DEF Batches
  <2> QED
    BY <1>6, <1>9, <2>2, <2>3, Zenon DEF Batches, IsBatch
<1>14. Handed'
  <2>1. \A i \in 1..Len(delivered) : i <= expect => i \in 1..W
    <3>1. Len(delivered) \in Nat
      BY <1>7 DEF HistoryShape
    <3>2. ASSUME NEW i \in 1..Len(delivered), i <= expect PROVE i \in 1..W
      <4>1. i <= W
        BY <1>1, <1>7, <3>2, Zenon DEF Handed
      <4> QED
        BY <1>9, <3>1, <4>1, SMTT(30)
    <3> QED
      BY <3>2, Zenon
  <2>2. \A i \in 1..W : i <= V
    BY <1>9, <1>10, SMTT(30)
  <2>3. ASSUME NEW i \in 1..Len(delivered) PROVE \E j \in 1..V : delivered[i] = written'[j]
    <3>1. PICK j \in 1..W : delivered[i] = written[j]
      BY <1>1, <1>7, Zenon DEF Handed
    <3> QED
      BY <1>9, <1>10, <3>1, Zenon
  <2>4. ASSUME NEW i \in 1..Len(delivered), i <= expect PROVE i <= V /\ delivered[i] = written'[i]
    BY <1>7, <1>9, <2>1, <2>2, <2>4, Zenon DEF Handed
  <2> QED
    BY <1>6, <1>7, <1>9, <2>3, <2>4, Zenon DEF Handed
<1>15. Pending'
  BY <1>6, Zenon DEF Pending
<1>16. \A f, p : IsEnd(f, p)' /\ f = L /\ p = M => Sum(f, p)' = c
  BY <1>1, <1>2, Zenon DEF Sum
<1>17. EndsWritten'
  <2>1. ASSUME NEW f, NEW p, IsEnd(f, p)' PROVE \E i \in 1..V : written'[i].items = Sum(f, p)'
    <3>1. CASE f = L /\ p = M
      BY <1>8, <1>9, <1>10, <1>16, <2>1, <3>1, Zenon
    <3>2. CASE ~(f = L /\ p = M)
      <4>1. IsEnd(f, p) /\ Sum(f, p)' = Sum(f, p)
        BY <1>3, <2>1, <3>2, Zenon
      <4>2. PICK i \in 1..W : written[i].items = Sum(f, p)
        BY <1>1, <1>7, <4>1, Zenon DEF EndsWritten
      <4> QED
        BY <1>9, <1>10, <4>1, <4>2, Zenon
    <3> QED
      BY <3>1, <3>2, Zenon
  <2> QED
    BY <1>9, <2>1, Zenon DEF EndsWritten
<1>18. EndsOrdered'
  <2>1. ASSUME NEW f, NEW p, NEW g, NEW q, IsEnd(f, p)', IsEnd(g, q)', Before(f, p, g, q)
        PROVE  Sum(f, p)'[1].seqno < Sum(g, q)'[1].seqno
    <3>1. f \in 1..L /\ g \in 1..L /\ q \in 1..Len(Ent(g)')
      BY <1>3, <2>1, Zenon DEF IsEnd
    <3>2. ~(f = L /\ p = M)
      <4> SUFFICES ASSUME f = L, p = M PROVE FALSE
        OBVIOUS
      <4>1. L < g \/ (L = g /\ M < q)
        BY <2>1, Zenon DEF Before
      <4>2. ~(L < g)
        BY <1>3, <3>1, SMTT(30)
      <4>3. L = g /\ M < q /\ q \in 1..M
        BY <1>1, <1>3, <3>1, <4>1, <4>2, Zenon
      <4>4. M \in Nat
        BY <1>1, <1>3, SMTT(30)
      <4> QED
        BY <4>3, <4>4
    <3>3. IsEnd(f, p) /\ Sum(f, p)' = Sum(f, p)
      BY <1>3, <2>1, <3>2, Zenon
    <3>4. CASE g = L /\ q = M
      <4>1. PICK i \in 1..W : written[i].items = Sum(f, p)
        BY <1>1, <1>7, <3>3, Zenon DEF EndsWritten
      <4>2. written[i].seqno = Sum(f, p)[1].seqno /\ written[i].seqno < s
        BY <1>1, <1>4, <1>7, <4>1, Zenon DEF Batches, IsBatch
      <4>3. Sum(g, q)' = c
        BY <1>16, <2>1, <3>4, Zenon
      <4> QED
        BY <1>11, <3>3, <4>2, <4>3, Zenon
    <3>5. CASE ~(g = L /\ q = M)
      <4>1. IsEnd(g, q) /\ Sum(g, q)' = Sum(g, q)
        BY <1>3, <2>1, <3>5, Zenon
      <4> QED
        BY <1>7, <2>1, <3>3, <4>1, Zenon DEF EndsOrdered
    <3> QED
      BY <3>4, <3>5, Zenon
  <2>2. \A f, p, g, q : Before(f, p, g, q)' <=> Before(f, p, g, q)
    BY Zenon DEF Before
  <2> QED
    BY <2>1, <2>2, Zenon DEF EndsOrdered
<1>19. ASSUME Tidy PROVE Tidy' /\ Clean(d, M)
  <2>1. (\A f \in 1..(L - 1) : Clean(Ent(f), Len(Ent(f)))) /\ Clean(e, b)
    BY <1>1, <1>4, <1>19, Zenon DEF Tidy
  <2>2. \A f \in 1..(L - 1) : f \in 1..L /\ f # L
    BY <1>3, SMTT(30)
  <2>3. k \in Nat
    BY <1>4, SMTT(30)
  <2>4. b \in 0..n /\ (\A j \in 1..b : j \in 1..n) /\ M \in Nat /\ b < M
    BY <1>1, <1>3, <1>4, <2>3, SMTT(30)
  <2>5. Clean(d, b)
    BY <1>3, <2>1, <2>4, CleanSame, Zenon
  <2>6. Clean(d, M)
    BY <1>2, <1>4, <2>4, <2>5, CleanGrows, Zenon
  <2>7. \A f \in 1..(L - 1) : Clean(Ent(f)', Len(Ent(f)'))
    <3> SUFFICES ASSUME NEW f \in 1..(L - 1) PROVE Clean(Ent(f)', Len(Ent(f)'))
      BY Zenon
    <3>1. Ent(f)' = Ent(f)
      BY <1>3, <2>2, Zenon
    <3> QED
      BY <2>1, <3>1, Zenon
  <2>8. Base' = M
    BY <1>3, <1>6, Zenon DEF Base
  <2> QED
    BY <1>3, <2>6, <2>7, <2>8, Zenon DEF Tidy
<1>20. /\ sound > W => Tidy
       /\ kept.buffer <= W /\ kept.sync <= W /\ W >= expect
  BY <1>1, <1>7, Zenon DEF Up
<1>21. sound \in Nat /\ expect \in Nat /\ kept.buffer \in Nat /\ kept.sync \in Nat
  BY <1>7 DEF HistoryShape
<1>22. ASSUME NEW i \in 1..V, i <= sound
       PROVE  \E f, p : /\ IsEnd(f, p)' /\ Sum(f, p)' = written'[i].items /\ Clean(Ent(f)', p)
                        /\ i <= kept.buffer => f < L \/ p <= flushed
                        /\ i <= kept.sync => f < L \/ p <= synced
  <2>1. CASE i \in 1..W
    <3>1. PICK f, p : /\ IsEnd(f, p) /\ Sum(f, p) = written[i].items /\ Clean(Ent(f), p)
                      /\ i <= kept.buffer => f < L \/ p <= flushed
                      /\ i <= kept.sync => f < L \/ p <= synced
      BY <1>1, <1>7, <1>22, <2>1, Zenon DEF Up
    <3> QED
      BY <1>3, <1>9, <2>1, <3>1, Zenon
  <2>2. CASE i = V
    <3>1. sound > W /\ ~(V <= kept.buffer) /\ ~(V <= kept.sync)
      BY <1>1, <1>9, <1>20, <1>21, <1>22, <2>2, SMTT(30)
    <3>2. Clean(d, M)
      BY <1>19, <1>20, <3>1, Zenon
    <3>3. M \in 1..M
      BY <1>1, <1>3, SMTT(30)
    <3>4. IsEnd(L, M)'
      BY <1>1, <1>2, <1>3, <3>3, Zenon DEF IsEnd
    <3>5. Sum(L, M)' = c
      BY <1>16, <3>4, Zenon
    <3> QED
      BY <1>1, <1>8, <1>9, <2>2, <3>1, <3>2, <3>4, <3>5, Zenon
  <2> QED
    BY <1>10, <2>1, <2>2, Zenon
<1>23. Up'
  <2>1. sound > V => sound > W
    BY <1>1, <1>9, <1>21, SMTT(30)
  <2>2. kept.buffer <= V /\ kept.sync <= V /\ V >= expect
    BY <1>1, <1>9, <1>20, <1>21, SMTT(30)
  <2> QED
    BY <1>3, <1>6, <1>9, <1>19, <1>20, <1>22, <2>1, <2>2, Zenon DEF Up
<1> QED
  BY <1>2, <1>3, <1>6, <1>12, <1>13, <1>14, <1>15, <1>17, <1>18, <1>23 DEF IInv

\* One write_all of write_raw, write_clear or write_batch.
LEMMA WriteEntryIInv == IInv /\ WriteEntry => IInv'
<1> SUFFICES ASSUME IInv, WriteEntry PROVE IInv'
  OBVIOUS
<1>1. PICK o, t, e : o = op /\ t = todo /\ e = Active.entries
  BY Zenon
<1>2. PICK c, s, n, k : c = o.items /\ s = o.seqno /\ n = Len(e) /\ k = Done(o, t)
  BY Zenon
<1>3. PICK m, b : m = Len(c) /\ b = n - k
  BY Zenon
<1>4. todo # <<>>
  BY Zenon DEF WriteEntry
<1>5. Writing(o, c, s, m, k, t, e, n, b)
  BY <1>1, <1>2, <1>3, <1>4, WritingMeans, Zenon
<1>6. CASE k = m + 1
  BY <1>1, <1>2, <1>5, <1>6, WriteLast, Zenon
<1>7. CASE k # m + 1
  BY <1>1, <1>2, <1>5, <1>7, WriteMore, Zenon
<1> QED
  BY <1>6, <1>7, Zenon

\* What a crash leaves of the entries e, of which the first a are safe.
Survives(e, a, left) ==
    /\ left \in Seq(Entries) /\ Len(left) \in Nat /\ a <= Len(left) /\ a <= Len(e)
    /\ \A j \in 1..a : left[j] = e[j]
    /\ \A p \in 1..Len(left) : left[p].tag = "end" => p \in 1..Len(e) /\ left[p] = e[p]
    /\ Paired(e) => Paired(left)

\* A crash cuts the tail off.
LEMMA CutMeans ==
  ASSUME NEW e \in Seq(Entries), NEW a \in Nat, NEW n \in a..Len(e), NEW left \in Cut(e, n)
  PROVE  Survives(e, a, left) /\ (Grammar(e) => Grammar(left))
<1>1. PICK c : c = SubSeq(e, 1, n)
  BY Zenon
<1>2. n \in 0..Len(e) /\ Len(e) \in Nat /\ n \in Nat
  OBVIOUS
<1>3. c \in Seq(Entries) /\ Len(c) = n /\ \A j \in 1..n : c[j] = e[j] /\ j \in 1..Len(e)
  BY <1>1, <1>2
<1>4. (Grammar(e) => Grammar(c)) /\ (Paired(e) => Paired(c))
  <2>1. Len(c) <= Len(e) /\ \A j \in 1..Len(c) : c[j] = e[j]
    BY <1>2, <1>3
  <2> QED
    BY <1>3, <2>1, CutFile, Zenon
<1>5. a <= n /\ a <= Len(e) /\ \A j \in 1..a : j \in 1..n
  BY <1>2
<1>6. CASE left = c
  BY <1>2, <1>3, <1>4, <1>5, <1>6, Zenon DEF Survives
<1>7. CASE left = Append(c, Torn)
  <2>1. Torn \in Entries /\ Torn.tag = "torn"
    BY EntryKinds, Zenon
  <2>2. left \in Seq(Entries) /\ Len(left) = n + 1 /\ left[n + 1] = Torn /\ \A j \in 1..n : left[j] = c[j]
    BY <1>3, <1>7, <2>1
  <2>3. Torn.tag \notin {"item", "clear"} /\ Torn.tag # "end"
    BY <2>1
  <2>4. Len(left) = Len(c) + 1 /\ Torn = left[Len(c) + 1] /\ (\A j \in 1..Len(c) : left[j] = c[j])
        /\ Fits(left, Len(c), Torn) /\ Follows(c, Len(c), Torn)
    BY <1>3, <2>2, <2>3, Zenon DEF Fits, Follows
  <2>5. (Grammar(c) => Grammar(left)) /\ (Paired(c) => Paired(left))
    BY <1>3, <2>2, <2>4, LongerFile, Zenon
  <2>6. n + 1 \in Nat /\ a <= n + 1 /\ \A p \in 1..(n + 1) : p \in 1..n \/ p = n + 1
    BY <1>2, <1>5
  <2>7. \A p \in 1..(n + 1) : left[p].tag = "end" => p \in 1..Len(e) /\ left[p] = e[p]
    BY <1>3, <2>2, <2>3, <2>6, Zenon
  <2> QED
    BY <1>3, <1>4, <1>5, <2>2, <2>5, <2>6, <2>7, Zenon DEF Survives
<1> QED
  BY <1>1, <1>6, <1>7 DEF Cut

\* A power loss damages an item that was not synced.
LEMMA DamageMeans ==
  ASSUME NEW e \in Seq(Entries), NEW a \in Nat, NEW n \in a..Len(e), NEW left \in Damages(e, a, n)
  PROVE  Survives(e, a, left)
<1>1. PICK c : c = SubSeq(e, 1, n)
  BY Zenon
<1>2. n \in 0..Len(e) /\ Len(e) \in Nat /\ n \in Nat
  OBVIOUS
<1>3. c \in Seq(Entries) /\ Len(c) = n /\ DOMAIN c = 1..n /\ \A j \in 1..n : c[j] = e[j] /\ j \in 1..Len(e)
  BY <1>1, <1>2
<1>4. Paired(e) => Paired(c)
  <2>1. Len(c) <= Len(e) /\ \A j \in 1..Len(c) : c[j] = e[j]
    BY <1>2, <1>3
  <2> QED
    BY <1>3, <2>1, CutFile, Zenon
<1>5. PICK i \in {j \in (a + 1)..n : e[j].tag = "item"}, z \in {Garbled, Torn} : left = [c EXCEPT ![i] = z]
  BY <1>1 DEF Damages
<1>6. z \in Entries /\ z.tag # "end" /\ z.tag # "start" /\ (z.tag \in {"item", "clear"} => z.seqno = 0)
  <2>1. Garbled \in Entries /\ Garbled.tag \in {"item", "clear"} /\ Garbled.seqno = 0 /\ Torn \in Entries /\ Torn.tag = "torn"
    BY EntryKinds, Zenon
  <2> QED
    BY <2>1
<1>7. i \in 1..n /\ i \in Nat /\ a <= n /\ a <= Len(e) /\ \A j \in 1..a : j \in 1..n /\ j # i
  BY <1>2
<1>8. left \in Seq(Entries) /\ Len(left) = n /\ left[i] = z /\ \A j \in 1..n : j # i => left[j] = c[j]
  BY <1>3, <1>5, <1>6, <1>7
<1>9. Paired(c) => Paired(left)
  <2> SUFFICES ASSUME Paired(c), NEW p \in 1..(Len(left) - 1), left[p].tag = "start", left[p + 1].tag \in {"item", "clear"}
               PROVE  left[p + 1].seqno \in {0, left[p].seqno}
    BY Zenon DEF Paired
  <2>1. p \in 1..n /\ p + 1 \in 1..n /\ p \in 1..(n - 1)
    BY <1>2, <1>8
  <2>2. p # i
    BY <1>6, <1>8, Zenon
  <2>3. left[p] = c[p]
    BY <1>8, <2>1, <2>2, Zenon
  <2>4. CASE p + 1 = i
    <3>1. left[p + 1] = z
      BY <1>8, <2>4, Zenon
    <3> QED
      BY <1>6, <3>1, Zenon
  <2>5. CASE p + 1 # i
    <3>1. left[p + 1] = c[p + 1]
      BY <1>8, <2>1, <2>5, Zenon
    <3>2. p \in 1..(Len(c) - 1)
      BY <1>3, <2>1, Zenon
    <3> QED
      BY <2>3, <3>1, <3>2, Zenon DEF Paired
  <2> QED
    BY <2>4, <2>5, Zenon
<1>10. \A p \in 1..n : left[p].tag = "end" => p \in 1..Len(e) /\ left[p] = e[p]
  BY <1>3, <1>6, <1>8, Zenon
<1>11. \A j \in 1..a : left[j] = e[j]
  BY <1>3, <1>7, <1>8, Zenon
<1> QED
  BY <1>2, <1>4, <1>7, <1>8, <1>9, <1>10, <1>11, Zenon DEF Survives

\* What a crash does to the files; the first a entries of the active one are safe.
CrashedFiles(a, L, left) ==
    /\ files' = [files EXCEPT ![L].entries = left] /\ Survives(Ent(L), a, left)
    /\ (damaged' = damaged /\ (Grammar(Ent(L)) => Grammar(left))) \/ damaged' = TRUE

\* The files after a crash.
LEMMA CrashFiles ==
  ASSUME IInv, NEW kind, Crash(kind), NEW a, a = (IF kind = "process" THEN flushed ELSE synced), NEW L, L = Len(files)
  PROVE  a \in Nat /\ \E left : CrashedFiles(a, L, left)
<1>1. FileShape /\ WriterShape
  BY Zenon DEF IInv
<1>2. a \in Nat
  BY <1>1, Zenon DEF WriterShape
<1>3. PICK e : e = Ent(L)
  BY Zenon
<1>4. e \in Seq(Entries) /\ Active.entries = e
  BY <1>1, <1>3, FileTypes, Zenon
<1>5. PICK n \in a..Len(e) :
             \/ /\ \E left \in Cut(e, n) : files' = [files EXCEPT ![L].entries = left]
                /\ UNCHANGED damaged
             \/ /\ \E left \in Damages(e, a, n) : files' = [files EXCEPT ![L].entries = left]
                /\ damaged' = TRUE
  BY <1>4, Zenon DEF Crash
<1>6. CASE (\E left \in Cut(e, n) : files' = [files EXCEPT ![L].entries = left]) /\ UNCHANGED damaged
  <2>1. PICK left \in Cut(e, n) : files' = [files EXCEPT ![L].entries = left]
    BY <1>6, Zenon
  <2>2. Survives(e, a, left) /\ (Grammar(e) => Grammar(left))
    BY <1>2, <1>4, CutMeans, Zenon
  <2> QED
    BY <1>2, <1>3, <1>6, <2>1, <2>2, Zenon DEF CrashedFiles
<1>7. CASE (\E left \in Damages(e, a, n) : files' = [files EXCEPT ![L].entries = left]) /\ damaged' = TRUE
  <2>1. PICK left \in Damages(e, a, n) : files' = [files EXCEPT ![L].entries = left]
    BY <1>7, Zenon
  <2>2. Survives(e, a, left)
    BY <1>2, <1>4, DamageMeans, Zenon
  <2> QED
    BY <1>2, <1>3, <1>7, <2>1, <2>2, Zenon DEF CrashedFiles
<1> QED
  BY <1>5, <1>6, <1>7, Zenon

\* A crash while writing, or while recovering.
LEMMA CrashIInv ==
  ASSUME NEW kind \in {"process", "power"}, IInv, Crash(kind)
  PROVE  IInv'
<1>1. PICK L, a, b : /\ L = Len(files) /\ a = (IF kind = "process" THEN flushed ELSE synced)
                     /\ b = (IF kind = "process" THEN kept.buffer ELSE kept.sync)
  BY Zenon
<1>2. /\ phase \in {"up", "reading"} /\ expect' = Min({sound, b}) /\ sound' = MaxWrites /\ flushed' = 0 /\ synced' = 0
      /\ op' = NoOp /\ todo' = <<>> /\ phase' = "down" /\ delivered' = <<>> /\ rd' = NewReader(1)
      /\ kept' = [buffer |-> 0, sync |-> 0] /\ written' = written /\ begun' = begun
  BY <1>1, Zenon DEF Crash
<1>3. a \in Nat /\ \E left : CrashedFiles(a, L, left)
  BY <1>1, CrashFiles, Zenon
<1>4. PICK left : CrashedFiles(a, L, left)
  BY <1>3, Zenon
<1>5. FileShape /\ WriterShape /\ ReaderShape /\ HistoryShape /\ Files /\ Batches /\ EndsWritten /\ EndsOrdered
  BY Zenon DEF IInv
<1>6. L \in 1..L /\ L \in Nat /\ Ent(L) \in Seq(Entries) /\ Len(Ent(L)) \in Nat /\ DOMAIN files[L] = {"entries", "padded"}
      /\ files[L].padded \in BOOLEAN /\ DOMAIN files = 1..L
  BY <1>1, <1>5, FileTypes, Zenon
<1>7. PICK r : r = [files[L] EXCEPT !.entries = left]
  BY Zenon
<1>8. files' = [files EXCEPT ![L] = r]
  BY <1>4, <1>7, Zenon DEF CrashedFiles
<1>9. left \in Seq(Entries) /\ Len(left) \in Nat /\ a <= Len(left) /\ (\A j \in 1..a : left[j] = Ent(L)[j])
      /\ (\A p \in 1..Len(left) : left[p].tag = "end" => p \in 1..Len(Ent(L)) /\ left[p] = Ent(L)[p])
      /\ (Paired(Ent(L)) => Paired(left))
  BY <1>4, Zenon DEF CrashedFiles, Survives
<1>10. r \in [entries : Seq(Entries), padded : BOOLEAN] /\ r.entries = left
  <2>1. files[L] \in [entries : Seq(Entries), padded : BOOLEAN]
    BY <1>1, <1>5, <1>6, SeqElement, Zenon DEF FileShape
  <2> QED
    BY <1>7, <1>9, <2>1
<1>11. /\ FileShape' /\ Len(files') = L /\ Ent(L)' = left
       /\ \A f \in 1..L : f # L => Ent(f)' = Ent(f)
  <2>1. L \in 1..Len(files)
    BY <1>1, <1>6, Zenon
  <2>2. /\ FileShape' /\ Len(files') = Len(files) /\ Ent(L)' = r.entries
        /\ \A f \in 1..Len(files) : f # L => Ent(f)' = Ent(f)
    BY <1>5, <1>8, <1>10, <2>1, OneFile
  <2> QED
    BY <1>1, <1>10, <2>2, Zenon
<1>12. \A f, p : IsEnd(f, p)' => IsEnd(f, p) /\ Sum(f, p)' = Sum(f, p)
  <2>1. \A p \in 1..Len(Ent(L)') : Ent(L)'[p].tag = "end" => p \in 1..Len(Ent(L)) /\ Ent(L)'[p] = Ent(L)[p]
    BY <1>9, <1>11, Zenon
  <2>2. Len(files') = Len(files) /\ \A f \in 1..Len(files) : f # L => Ent(f)' = Ent(f)
    BY <1>1, <1>11, Zenon
  <2> QED
    BY <2>1, <2>2, NoNewEnds, Zenon
<1>13. ASSUME NEW f, NEW p, IsEnd(f, p), Clean(Ent(f), p), f < L \/ p <= a
       PROVE  IsEnd(f, p)' /\ Sum(f, p)' = Sum(f, p) /\ Clean(Ent(f)', p)
  <2>1. f # L \/ p <= a
    BY <1>6, <1>13
  <2>2. Len(files') = Len(files) /\ (\A h \in 1..Len(files) : h # L => Ent(h)' = Ent(h)) /\ L \in 1..Len(files)
    BY <1>1, <1>6, <1>11, Zenon
  <2>3. a <= Len(Ent(L)') /\ Len(Ent(L)') \in Nat /\ \A j \in 1..a : j <= Len(Ent(L)) => Ent(L)'[j] = Ent(L)[j]
    BY <1>9, <1>11, Zenon
  <2> QED
    BY <1>3, <1>5, <1>13, <2>1, <2>2, <2>3, EndStays, Zenon
<1>14. sound \in Nat /\ b \in Nat /\ Len(written) \in Nat /\ kept.buffer \in Nat /\ kept.sync \in Nat
  <2>1. sound \in Nat /\ Len(written) \in Nat /\ kept.buffer \in Nat /\ kept.sync \in Nat
    BY <1>5 DEF HistoryShape
  <2> QED
    BY <1>1, <2>1, Zenon
<1>15. expect' \in Nat /\ expect' <= sound /\ expect' <= b
  BY <1>2, <1>14, MinMeans, Zenon
<1>16. EndsWritten' /\ EndsOrdered'
  <2>1. Len(written) <= Len(written)
    BY <1>14
  <2> QED
    BY <1>2, <1>5, <1>12, <1>14, <2>1, EndsKept, Zenon
<1>17. Files'
  <2>1. (~damaged' => ~damaged) /\ (~damaged' => (Grammar(Ent(L)) => Grammar(left)))
    BY <1>4 DEF CrashedFiles
  <2>2. ASSUME NEW f \in 1..L PROVE Paired(Ent(f)') /\ (~damaged' => Grammar(Ent(f)'))
    BY <1>1, <1>5, <1>9, <1>11, <2>1, <2>2, Zenon DEF Files
  <2> QED
    BY <1>11, <2>2, Zenon DEF Files
<1>18. damaged' \in BOOLEAN
  BY <1>4, <1>5 DEF CrashedFiles, HistoryShape
<1>19. Len(delivered') = 0 /\ delivered' \in Seq(Batch) /\ \A i : i \notin 1..Len(delivered')
  BY <1>2
<1>20. WriterShape' /\ HistoryShape'
  <2>1. 0 \in Nat /\ MaxWrites \in Nat /\ kept' \in [buffer : Nat, sync : Nat]
    BY <1>2, JournalBounds
  <2>2. WriterShape'
    BY <1>2, <2>1, OpTypes, Zenon DEF WriterShape
  <2>3. HistoryShape'
    BY <1>2, <1>5, <1>15, <1>18, <1>19, <2>1, Zenon DEF HistoryShape
  <2> QED
    BY <2>2, <2>3, Zenon
<1>21. /\ DOMAIN rd' = {"file", "pos", "inBatch", "counter", "seqno", "items", "sum", "lastValid"}
       /\ rd'.file = 1 /\ rd'.pos = 0 /\ rd'.inBatch = FALSE /\ rd'.counter = 0 /\ rd'.seqno = 0
       /\ rd'.items = <<>> /\ rd'.sum = <<>> /\ rd'.lastValid = 0
  BY <1>2 DEF NewReader
<1>22. ReaderShape'
  <2>1. 0 \in Nat /\ 1 \in Nat /\ <<>> \in Seq(ItemEntry)
    OBVIOUS
  <2>2. rd'.inBatch \in BOOLEAN
    BY <1>21
  <2> QED
    BY <1>21, <2>1, <2>2, Zenon DEF ReaderShape
<1>23. Batches' /\ Handed' /\ Pending'
  BY <1>2, <1>5, <1>19, Zenon DEF Batches, IsBatch, Handed, Pending
<1>24. 1 \in 1..L
  BY <1>6
<1>25. Reader'
  <2>1. 0 <= Len(Ent(1)')
    <3>1. Len(Ent(1)') \in Nat
      BY <1>11, <1>24, NextFileTypes, Zenon
    <3> QED
      BY <3>1
  <2>2. ~rd'.inBatch
    BY <1>21
  <2>3. Len(Ent(rd.file)') = Len(Ent(1)')
    BY <1>21, Zenon DEF Ent
  <2> QED
    BY <1>11, <1>21, <1>24, <2>1, <2>2, <2>3, Zenon DEF Reader
<1>26. ASSUME NEW f, NEW p, IsEnd(f, p)' PROVE ~Passed(f, p)'
  <2>1. f \in 1..L /\ p \in 1..Len(Ent(f)')
    BY <1>11, <1>26, Zenon DEF IsEnd
  <2>2. Len(Ent(f)') \in Nat
    BY <1>11, <2>1, NextFileTypes, Zenon
  <2>3. ~(f < 1) /\ ~(p <= 0)
    BY <1>6, <2>1, <2>2
  <2> QED
    BY <1>21, <2>3, Zenon DEF Passed
<1>27. ReadSoFar'
  <2>1. \A f : f \notin 1..(1 - 1)
    OBVIOUS
  <2> QED
    BY <1>19, <1>21, <1>26, <2>1, OpTypes, Zenon DEF ReadSoFar
<1>28. expect' <= Len(written) /\ \A i \in 1..Len(written) : i <= expect' =>
          \E f, p : IsEnd(f, p)' /\ Sum(f, p)' = written[i].items /\ Clean(Ent(f)', p)
  <2>1. CASE phase = "reading"
    <3>1. b = 0
      BY <1>1, <2>1, Zenon DEF IInv, Reading
    <3>2. expect' <= Len(written) /\ \A i \in 1..Len(written) : ~(i <= expect')
      BY <1>14, <1>15, <3>1
    <3> QED
      BY <3>2, Zenon
  <2>2. CASE phase = "up"
    <3>1. Up /\ b <= Len(written)
      BY <1>1, <2>2, Zenon DEF IInv, Up
    <3>2. expect' <= Len(written)
      BY <1>14, <1>15, <3>1
    <3>3. ASSUME NEW i \in 1..Len(written), i <= expect'
          PROVE  \E f, p : IsEnd(f, p)' /\ Sum(f, p)' = written[i].items /\ Clean(Ent(f)', p)
      <4>1. i <= sound /\ i <= b
        BY <1>14, <1>15, <3>3
      <4>2. PICK f, p : /\ IsEnd(f, p) /\ Sum(f, p) = written[i].items /\ Clean(Ent(f), p)
                        /\ i <= kept.buffer => f < L \/ p <= flushed
                        /\ i <= kept.sync => f < L \/ p <= synced
        BY <1>1, <3>1, <4>1, Zenon DEF Up
      <4>3. f < L \/ p <= a
        BY <1>1, <4>1, <4>2, Zenon
      <4> QED
        BY <1>13, <4>2, <4>3, Zenon
    <3> QED
      BY <3>2, <3>3, Zenon
  <2> QED
    BY <1>2, <2>1, <2>2, Zenon
<1>29. Ahead'
  BY <1>2, <1>26, <1>28, Zenon DEF Ahead
<1>30. Reading'
  <2>1. kept'.buffer = 0 /\ kept'.sync = 0
    BY <1>2
  <2> QED
    BY <1>2, <1>25, <1>27, <1>28, <1>29, <2>1, Zenon DEF Reading
<1> QED
  BY <1>2, <1>11, <1>16, <1>17, <1>20, <1>22, <1>23, <1>30 DEF IInv

\* Every step keeps the invariant.
LEMMA NextIInv == IInv /\ [Next]_vars => IInv'
<1> SUFFICES ASSUME IInv, [Next]_vars PROVE IInv'
  OBVIOUS
<1>1. ASSUME NEW kind \in {"raw", "clear", "batch"}, NEW n \in 1..MaxItems, Begin(kind, n) PROVE IInv'
  BY <1>1, BeginIInv, Zenon
<1>2. ASSUME NEW mode \in {"none", "buffer", "sync"}, Finish(mode) PROVE IInv'
  BY <1>2, FinishIInv, Zenon
<1>3. ASSUME NEW kind \in {"process", "power"}, Crash(kind) PROVE IInv'
  BY <1>3, CrashIInv, Zenon
<1>4. CASE WriteEntry
  BY <1>4, WriteEntryIInv, Zenon
<1>5. CASE WriteFails
  BY <1>5, WriteFailsIInv, Zenon
<1>6. CASE FinishFails
  BY <1>6, FinishFailsIInv, Zenon
<1>7. CASE Rotate
  BY <1>7, RotateIInv, Zenon
<1>8. CASE Recover
  BY <1>8, RecoverIInv, Zenon
<1>9. CASE ReadTail
  BY <1>9, ReadTailIInv, Zenon
<1>10. CASE ReadStart
  BY <1>10, ReadStartIInv, Zenon
<1>11. CASE ReadItem
  BY <1>11, ReadItemIInv, Zenon
<1>12. CASE ReadEnd
  BY <1>12, ReadEndIInv, Zenon
<1>13. CASE UNCHANGED vars
  BY <1>13, StutterIInv, Zenon
<1> QED
  BY <1>1, <1>2, <1>3, <1>4, <1>5, <1>6, <1>7, <1>8, <1>9, <1>10, <1>11, <1>12, <1>13, Zenon DEF Next

\* The invariant holds in every state of the journal.
THEOREM Inductive == Spec => []IInv
<1> QED
  BY InitIInv, NextIInv, PTL DEF Spec

\* JournalBatchReader hands out only batches that were written whole, unchanged and
\* in order, and none of those that had to be spared is missing between them: for any
\* number of writes, items, files, crashes and failures.
THEOREM WholeBatches == Spec => []ReadsWholeBatches
<1>1. IInv => ReadsWholeBatches
  <2> SUFFICES ASSUME IInv PROVE ReadsWholeBatches
    OBVIOUS
  <2>1. Handed /\ HistoryShape
    BY Zenon DEF IInv
  <2>2. DOMAIN delivered = 1..Len(delivered) /\ DOMAIN written = 1..Len(written)
    BY <2>1 DEF HistoryShape
  <2>3. Range(delivered) \subseteq Range(written)
    BY <2>1, <2>2, Zenon DEF Range, Handed
  <2> QED
    BY <2>1, <2>2, <2>3, Zenon DEF ReadsWholeBatches, Handed
<1> QED
  BY <1>1, Inductive, PTL

\* Once the journal is open again, every batch that was persisted before any write
\* failed half way has been read back.
THEOREM ReadBack == Spec => []PersistedReadBack
<1>1. IInv => PersistedReadBack
  BY Zenon DEF IInv, Up, PersistedReadBack
<1> QED
  BY <1>1, Inductive, PTL

\* Recovery fails only over an entry damaged in place, never over a torn or unfinished tail.
THEOREM Tolerant == Spec => []TailTolerated
<1>1. IInv => TailTolerated
  BY Zenon DEF IInv, TailTolerated
<1> QED
  BY <1>1, Inductive, PTL
=============================================================================
