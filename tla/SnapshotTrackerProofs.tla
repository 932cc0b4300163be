------------------------ MODULE SnapshotTrackerProofs ------------------------
(***************************************************************************)
(* Proofs about SnapshotTracker, for any set of nonces, any bound on the   *)
(* sequence numbers and any collection period.                             *)
(***************************************************************************)
EXTENDS SnapshotTracker, FiniteSetTheorems, TLAPS

\* A nonce that holds its instant, or is about to enter it.
Holds(h) == state[h] \in {"opening", "live"}

\* Every live nonce has an entry in the table for gc() to find.
LiveEntered == \A h \in Nonce : state[h] = "live" => at[h] \in entries

\* Instants and table keys lie between the first and the current sequence
\* number, and the watermark strictly below the latter.
InstantsBounded ==
    /\ FirstSeqno <= seqno
    /\ \A h \in Nonce : Holds(h) => FirstSeqno <= at[h] /\ at[h] <= seqno
    /\ \A k \in entries : FirstSeqno <= k /\ k <= seqno
    /\ watermark <= SatSub1(seqno)

\* While gc() holds the write lock, nobody is inside open(), the threshold
\* it read is a past sequence number, and a closer that collects is still due.
SweepExclusive ==
    collector # Nobody =>
        /\ \A h \in Nonce : state[h] # "opening"
        /\ threshold <= seqno
        /\ collector \in Nonce => state[collector] = "gc"

\* The inductive invariant, for any first sequence number.
IInv == TypeOK /\ CountMatches /\ LiveEntered /\ InstantsBounded /\ SweepExclusive

-----------------------------------------------------------------------------
\* The nonces at an instant are finitely many, so each addition or removal
\* changes their number by exactly one.
LEMMA LiveAtFinite ==
    ASSUME NEW i \in SeqNo
    PROVE  IsFiniteSet(LiveAt(i)) /\ Cardinality(LiveAt(i)) \in Nat
  <1>1. LiveAt(i) \subseteq Nonce
    BY DEF LiveAt
  <1>2. IsFiniteSet(LiveAt(i))
    BY <1>1, NonceAssumption, FS_Subset
  <1> QED
    BY <1>2, FS_CardinalityType

\* A step that makes exactly h live, at instant j, and counts it once keeps the
\* counts exact: the two ways a nonce comes to life, open() and clone_snapshot().
LEMMA EnterMatches ==
    ASSUME TypeOK, CountMatches, NEW h \in Nonce, NEW j \in SeqNo,
           state[h] # "live",
           state' = [state EXCEPT ![h] = "live"],
           at' = [at EXCEPT ![h] = j],
           count' = [count EXCEPT ![j] = @ + 1]
    PROVE  CountMatches'
  <1> SUFFICES ASSUME NEW i \in SeqNo
               PROVE  count'[i] = Cardinality(LiveAt(i)')
    BY DEF CountMatches
  <1>1. CASE i = j
    <2>1. LiveAt(i)' = LiveAt(i) \cup {h} /\ h \notin LiveAt(i)
      BY <1>1 DEF LiveAt, TypeOK
    <2>2. Cardinality(LiveAt(i) \cup {h}) = Cardinality(LiveAt(i)) + 1
      BY <2>1, LiveAtFinite, FS_AddElement
    <2>3. count'[i] = count[i] + 1
      BY <1>1 DEF TypeOK
    <2> QED
      BY <2>1, <2>2, <2>3 DEF CountMatches
  <1>2. CASE i # j
    <2>1. LiveAt(i)' = LiveAt(i)
      BY <1>2 DEF LiveAt, TypeOK
    <2>2. count'[i] = count[i]
      BY <1>2 DEF TypeOK
    <2> QED
      BY <2>1, <2>2 DEF CountMatches
  <1> QED
    BY <1>1, <1>2

\* A live nonce is counted, so its instant survives gc()'s sweep.
LEMMA LiveCounted ==
    ASSUME TypeOK, CountMatches, NEW h \in Nonce, state[h] = "live"
    PROVE  count[at[h]] > 0
  <1>1. h \in LiveAt(at[h]) /\ at[h] \in SeqNo
    BY DEF LiveAt, TypeOK
  <1>2. IsFiniteSet(LiveAt(at[h])) /\ Cardinality(LiveAt(at[h])) \in Nat
    BY <1>1, LiveAtFinite
  <1>3. Cardinality(LiveAt(at[h])) # 0
    BY <1>1, <1>2, FS_EmptySet
  <1> QED
    BY <1>1, <1>2, <1>3 DEF CountMatches

\* Steps that leave the live nonces and the counts alone keep them matching.
LEMMA SameLiveMatches ==
    ASSUME CountMatches, count' = count,
           \A i \in SeqNo : LiveAt(i)' = LiveAt(i)
    PROVE  CountMatches'
  BY DEF CountMatches

-----------------------------------------------------------------------------
LEMMA SatSub1Monotone ==
    ASSUME NEW m \in Nat, NEW n \in Nat, m <= n
    PROVE  SatSub1(m) \in Nat /\ SatSub1(m) <= SatSub1(n)
  BY DEF SatSub1

LEMMA InitIInv == Init => IInv
  <1> SUFFICES ASSUME Init PROVE IInv
    OBVIOUS
  <1> USE SeqnoAssumption, GcPeriodAssumption
  <1>1. TypeOK
    BY DEF Init, TypeOK, SeqNo
  <1>2. CountMatches
    <2> SUFFICES ASSUME NEW i \in SeqNo PROVE count[i] = Cardinality(LiveAt(i))
      BY DEF CountMatches
    <2>1. LiveAt(i) = {}
      BY DEF Init, LiveAt
    <2> QED
      BY <2>1, FS_EmptySet DEF Init
  <1>3. LiveEntered /\ SweepExclusive
    BY DEF Init, LiveEntered, SweepExclusive
  <1>4. InstantsBounded
    BY DEF Init, InstantsBounded, Holds, SatSub1
  <1> QED
    BY <1>1, <1>2, <1>3, <1>4 DEF IInv

LEMMA OpenReadIInv ==
    ASSUME IInv, NEW h \in Nonce, OpenRead(h)
    PROVE  IInv'
  <1> USE SeqnoAssumption DEF IInv
  <1>1. TypeOK'
    BY DEF TypeOK, OpenRead
  <1>2. CountMatches'
    <2>1. \A i \in SeqNo : LiveAt(i)' = LiveAt(i)
      BY DEF LiveAt, OpenRead, TypeOK
    <2> QED
      BY <2>1, SameLiveMatches DEF OpenRead
  <1>3. LiveEntered'
    BY DEF LiveEntered, OpenRead, TypeOK
  <1>4. InstantsBounded'
    BY DEF InstantsBounded, OpenRead, TypeOK, Holds, SeqNo
  <1>5. SweepExclusive'
    BY DEF SweepExclusive, OpenRead, CanRead
  <1> QED
    BY <1>1, <1>2, <1>3, <1>4, <1>5

LEMMA OpenEnterIInv ==
    ASSUME IInv, NEW h \in Nonce, OpenEnter(h)
    PROVE  IInv'
  <1> USE SeqnoAssumption DEF IInv
  <1>1. TypeOK'
    BY DEF TypeOK, OpenEnter, Enter
  <1>2. CountMatches'
    <2>1. at[h] \in SeqNo /\ at' = [at EXCEPT ![h] = at[h]]
      BY DEF OpenEnter, TypeOK
    <2> QED
      BY <2>1, EnterMatches DEF OpenEnter, Enter
  <1>3. LiveEntered'
    BY DEF LiveEntered, OpenEnter, Enter, TypeOK
  <1>4. InstantsBounded'
    BY DEF InstantsBounded, OpenEnter, Enter, TypeOK, Holds
  <1>5. SweepExclusive'
    BY DEF SweepExclusive, OpenEnter, TypeOK, Nobody
  <1> QED
    BY <1>1, <1>2, <1>3, <1>4, <1>5

LEMMA CloneSnapshotIInv ==
    ASSUME IInv, NEW h \in Nonce, NEW g \in Nonce, CloneSnapshot(h, g)
    PROVE  IInv'
  <1> USE SeqnoAssumption DEF IInv
  <1>1. TypeOK'
    BY DEF TypeOK, CloneSnapshot, Enter
  <1>2. CountMatches'
    <2>1. at[g] \in SeqNo
      BY DEF TypeOK
    <2> QED
      BY <2>1, EnterMatches DEF CloneSnapshot, Enter
  <1>3. LiveEntered'
    BY DEF LiveEntered, CloneSnapshot, Enter, TypeOK
  <1>4. InstantsBounded'
    BY DEF InstantsBounded, CloneSnapshot, Enter, TypeOK, Holds
  <1>5. SweepExclusive'
    BY DEF SweepExclusive, CloneSnapshot, CanRead
  <1> QED
    BY <1>1, <1>2, <1>3, <1>4, <1>5

LEMMA CloseRawIInv ==
    ASSUME IInv, NEW h \in Nonce, CloseRaw(h)
    PROVE  IInv'
  <1> USE SeqnoAssumption DEF IInv
  <1>0. state' \in [Nonce -> {"free", "opening", "live", "gc"}] /\ state'[h] \notin {"live", "opening"}
         /\ \A g \in Nonce \ {h} : state'[g] = state[g]
    BY DEF CloseRaw, TypeOK
  <1>1. TypeOK'
    <2>1. freed' \in 0..(GcPeriod - 1)
      BY GcPeriodAssumption DEF CloseRaw, TypeOK
    <2>2. count' \in [SeqNo -> Nat]
      BY DEF CloseRaw, TypeOK, SatSub1
    <2> QED
      BY <1>0, <2>1, <2>2 DEF TypeOK, CloseRaw
  <1>2. CountMatches'
    <2> SUFFICES ASSUME NEW i \in SeqNo
                 PROVE  count'[i] = Cardinality(LiveAt(i)')
      BY DEF CountMatches
    <2>0. at' = at
      BY DEF CloseRaw
    <2>1. CASE i = at[h]
      <3>1. LiveAt(i)' = LiveAt(i) \ {h} /\ h \in LiveAt(i)
        BY <2>0, <2>1, <1>0 DEF LiveAt, CloseRaw
      <3>2. Cardinality(LiveAt(i) \ {h}) = Cardinality(LiveAt(i)) - 1
        BY <3>1, LiveAtFinite, FS_RemoveElement
      <3>3. count[i] > 0
        BY <2>1, LiveCounted DEF CloseRaw
      <3>4. count'[i] = count[i] - 1
        BY <2>1, <3>3 DEF CloseRaw, TypeOK, SatSub1
      <3> QED
        BY <3>1, <3>2, <3>4 DEF CountMatches
    <2>2. CASE i # at[h]
      <3>1. LiveAt(i)' = LiveAt(i)
        BY <2>0, <2>2, <1>0 DEF LiveAt
      <3>2. count'[i] = count[i]
        BY <2>2 DEF CloseRaw, TypeOK
      <3> QED
        BY <3>1, <3>2 DEF CountMatches
    <2> QED
      BY <2>1, <2>2
  <1>3. LiveEntered'
    BY <1>0 DEF LiveEntered, CloseRaw
  <1>4. InstantsBounded'
    BY <1>0 DEF InstantsBounded, CloseRaw, Holds
  <1>5. SweepExclusive'
    BY <1>0 DEF SweepExclusive, CloseRaw
  <1> QED
    BY <1>1, <1>2, <1>3, <1>4, <1>5

LEMMA PublishIInv ==
    ASSUME IInv, NEW s \in 0..(MaxSeqno - 1), Publish(s)
    PROVE  IInv'
  <1> USE SeqnoAssumption DEF IInv
  <1>1. TypeOK' /\ seqno <= seqno'
    BY DEF TypeOK, Publish, FetchMax, SeqNo
  <1>2. CountMatches'
    <2>1. \A i \in SeqNo : LiveAt(i)' = LiveAt(i)
      BY DEF LiveAt, Publish
    <2> QED
      BY <2>1, SameLiveMatches DEF Publish
  <1>3. LiveEntered'
    BY DEF LiveEntered, Publish
  <1>4. InstantsBounded'
    <2>1. /\ seqno \in Nat /\ seqno' \in Nat /\ watermark' = watermark /\ watermark \in Nat
          /\ FirstSeqno \in Nat
          /\ at' = at /\ state' = state /\ entries' = entries
          /\ at \in [Nonce -> Nat] /\ entries \in SUBSET Nat
      BY <1>1 DEF Publish, TypeOK, SeqNo
    <2>2. watermark' <= SatSub1(seqno')
      <3>1. SatSub1(seqno) \in Nat /\ SatSub1(seqno') \in Nat /\ SatSub1(seqno) <= SatSub1(seqno')
        BY <1>1, <2>1, SatSub1Monotone
      <3> QED
        BY <2>1, <3>1 DEF InstantsBounded
    <2>3. /\ FirstSeqno <= seqno'
          /\ \A h \in Nonce : Holds(h)' => FirstSeqno <= at'[h] /\ at'[h] <= seqno'
          /\ \A k \in entries' : FirstSeqno <= k /\ k <= seqno'
      BY <1>1, <2>1 DEF InstantsBounded, Holds
    <2> QED
      BY <2>2, <2>3 DEF InstantsBounded
  <1>5. SweepExclusive'
    BY <1>1 DEF SweepExclusive, Publish, TypeOK, SeqNo
  <1> QED
    BY <1>1, <1>2, <1>3, <1>4, <1>5

LEMMA PullupIInv ==
    ASSUME IInv, Pullup
    PROVE  IInv'
  <1> USE SeqnoAssumption DEF IInv
  <1>1. TypeOK'
    BY DEF TypeOK, Pullup, SatSub1, SeqNo
  <1>2. CountMatches'
    <2>1. \A i \in SeqNo : LiveAt(i)' = LiveAt(i)
      BY DEF LiveAt, Pullup
    <2> QED
      BY <2>1, SameLiveMatches DEF Pullup
  <1>3. LiveEntered' /\ SweepExclusive'
    BY DEF LiveEntered, SweepExclusive, Pullup
  <1>4. InstantsBounded'
    BY DEF InstantsBounded, Pullup, Holds, TypeOK, SeqNo, SatSub1
  <1> QED
    BY <1>1, <1>2, <1>3, <1>4

LEMMA GcStartIInv ==
    ASSUME IInv, NEW c \in Nonce \cup {Maintenance}, GcStart(c),
           c \in Nonce => state[c] = "gc"
    PROVE  IInv'
  <1> USE SeqnoAssumption DEF IInv
  <1>1. TypeOK'
    BY DEF TypeOK, GcStart
  <1>2. CountMatches'
    <2>1. \A i \in SeqNo : LiveAt(i)' = LiveAt(i)
      BY DEF LiveAt, GcStart
    <2> QED
      BY <2>1, SameLiveMatches DEF GcStart
  <1>3. LiveEntered'
    BY DEF LiveEntered, GcStart
  <1>4. InstantsBounded'
    BY DEF InstantsBounded, GcStart, Holds
  <1>5. SweepExclusive'
    BY DEF SweepExclusive, GcStart, CanWrite, TypeOK, SeqNo
  <1> QED
    BY <1>1, <1>2, <1>3, <1>4, <1>5

\* What a sweep leaves: every key it keeps was in the table, and the lowest one
\* it reports is a key it kept, or the threshold when it kept none.
LEMMA SweepBounds ==
    ASSUME TypeOK, NEW lowest \in LowestRetained(Retained(entries, count, threshold), threshold)
    PROVE  /\ Retained(entries, count, threshold) \subseteq entries
           /\ lowest \in entries \cup {threshold}
  BY DEF LowestRetained, Retained

LEMMA GcFinishIInv ==
    ASSUME IInv, GcFinish
    PROVE  IInv'
  <1> USE SeqnoAssumption DEF IInv
  <1>0. PICK lowest \in LowestRetained(Retained(entries, count, threshold), threshold) :
            watermark' = FetchMax(watermark, SatSub1(lowest))
    BY DEF GcFinish
  <1>1. /\ entries' \subseteq entries
        /\ lowest \in SeqNo /\ lowest <= seqno
    BY SweepBounds DEF GcFinish, TypeOK, SeqNo, InstantsBounded, SweepExclusive
  <1>2. \A h \in Nonce : state'[h] \in {state[h], "free"}
    BY DEF GcFinish
  <1>3. TypeOK'
    <2>1. watermark' \in SeqNo
      BY <1>0, <1>1 DEF FetchMax, SatSub1, TypeOK, SeqNo
    <2>2. state' \in [Nonce -> {"free", "opening", "live", "gc"}]
      BY DEF GcFinish, TypeOK
    <2> QED
      BY <1>1, <2>1, <2>2 DEF TypeOK, GcFinish
  <1>4. \A h \in Nonce : state'[h] = "live" <=> state[h] = "live"
    BY DEF GcFinish, SweepExclusive, TypeOK
  <1>5. CountMatches'
    <2>1. \A i \in SeqNo : LiveAt(i)' = LiveAt(i)
      BY <1>4 DEF LiveAt, GcFinish
    <2> QED
      BY <2>1, SameLiveMatches DEF GcFinish
  <1>6. LiveEntered'
    BY <1>4, LiveCounted DEF LiveEntered, GcFinish, Retained
  <1>7. InstantsBounded'
    <2>1. watermark' <= SatSub1(seqno)'
      BY <1>0, <1>1 DEF FetchMax, SatSub1, GcFinish, InstantsBounded, TypeOK, SeqNo
    <2> QED
      BY <1>1, <1>2, <2>1 DEF InstantsBounded, Holds, GcFinish
  <1>8. SweepExclusive'
    BY DEF SweepExclusive, GcFinish
  <1> QED
    BY <1>3, <1>5, <1>6, <1>7, <1>8

-----------------------------------------------------------------------------
LEMMA NextIInv == IInv /\ [Next]_vars => IInv'
  <1> SUFFICES ASSUME IInv, [Next]_vars PROVE IInv'
    OBVIOUS
  <1>1. ASSUME NEW h \in Nonce, OpenRead(h) PROVE IInv'
    BY <1>1, OpenReadIInv
  <1>2. ASSUME NEW h \in Nonce, OpenEnter(h) PROVE IInv'
    BY <1>2, OpenEnterIInv
  <1>3. ASSUME NEW h \in Nonce, CloseRaw(h) PROVE IInv'
    BY <1>3, CloseRawIInv
  <1>4. ASSUME NEW h \in Nonce, NEW g \in Nonce, CloneSnapshot(h, g) PROVE IInv'
    BY <1>4, CloneSnapshotIInv
  <1>5. ASSUME NEW s \in 0..(MaxSeqno - 1), Publish(s) PROVE IInv'
    BY <1>5, PublishIInv
  <1>6. CASE Pullup
    BY <1>6, PullupIInv
  <1>7. ASSUME NEW h \in Nonce, CloserGc(h) PROVE IInv'
    BY <1>7, GcStartIInv DEF CloserGc
  <1>8. CASE GcStart(Maintenance)
    BY <1>8, GcStartIInv, RolesAssumption
  <1>9. CASE GcFinish
    BY <1>9, GcFinishIInv
  <1>10. CASE UNCHANGED vars
    BY <1>10 DEF vars, IInv, TypeOK, CountMatches, LiveAt, LiveEntered,
                 InstantsBounded, SweepExclusive, Holds
  <1> QED
    BY <1>1, <1>2, <1>3, <1>4, <1>5, <1>6, <1>7, <1>8, <1>9, <1>10 DEF Next

\* The strengthened invariant holds of every behaviour of the tracker.
THEOREM Inductive == Spec => []IInv
  BY InitIInv, NextIInv, PTL DEF Spec

\* Every variable of the tracker keeps its type, for any number of nonces.
THEOREM TypeCorrect == Spec => []TypeOK
  <1>1. IInv => TypeOK
    BY DEF IInv
  <1> QED
    BY <1>1, Inductive, PTL

\* open_snapshots() counts exactly the nonces alive, for any interleaving of
\* open, clone and drop.
THEOREM CountsExact == Spec => []CountMatches
  <1>1. IInv => CountMatches
    BY DEF IInv
  <1> QED
    BY <1>1, Inductive, PTL

\* The watermark never falls, although pullup() writes it with a plain store.
THEOREM WatermarkMonotone == Spec => WatermarkNeverFalls
  <1>1. IInv /\ [Next]_vars => [watermark' >= watermark]_vars
    <2> SUFFICES ASSUME IInv, Next PROVE watermark' >= watermark
      BY DEF vars
    <2>1. watermark \in Nat
      BY SeqnoAssumption DEF IInv, TypeOK, SeqNo
    <2>2. CASE Pullup
      BY <2>1, <2>2 DEF Pullup, IInv, InstantsBounded, TypeOK, SeqNo
    <2>3. CASE GcFinish
      BY <2>1, <2>3, SeqnoAssumption, SweepBounds DEF GcFinish, FetchMax, IInv, TypeOK, SeqNo, SatSub1
    <2>4. CASE ~Pullup /\ ~GcFinish
      BY <2>1, <2>4 DEF Next, OpenRead, OpenEnter, CloseRaw, CloneSnapshot, Publish,
                        CloserGc, GcStart
    <2> QED
      BY <2>2, <2>3, <2>4
  <1> QED
    BY <1>1, Inductive, PTL DEF Spec, WatermarkNeverFalls

-----------------------------------------------------------------------------
\* With no entry at instant 0 a sweep reports its true minimum, so it stays
\* below the instant of every live nonce.
LEMMA SweepBelowLive ==
    ASSUME IInv, FirstSeqno > 0,
           NEW lowest \in LowestRetained(Retained(entries, count, threshold), threshold),
           NEW h \in Nonce, state[h] = "live"
    PROVE  SatSub1(lowest) < at[h]
  <1> DEFINE R == Retained(entries, count, threshold)
  <1>1. at[h] \in R
    BY LiveCounted DEF IInv, LiveEntered, Retained
  <1>2. 0 \notin R
    BY SeqnoAssumption DEF Retained, IInv, InstantsBounded
  <1>3. lowest \in R /\ lowest <= at[h]
    BY <1>1, <1>2 DEF LowestRetained
  <1>4. lowest \in Nat /\ lowest # 0 /\ at[h] \in Nat
    BY <1>2, <1>3, SeqnoAssumption DEF Retained, IInv, TypeOK, SeqNo
  <1> QED
    BY <1>3, <1>4 DEF SatSub1

LEMMA NextBelowOpen ==
    ASSUME FirstSeqno > 0, IInv, WatermarkBelowOpen, [Next]_vars
    PROVE  WatermarkBelowOpen'
  <1> SUFFICES ASSUME NEW h \in Nonce, Holds(h)', at'[h] > 0
               PROVE  watermark' < at'[h]
    BY DEF WatermarkBelowOpen, Holds
  <1> USE SeqnoAssumption DEF IInv
  <1>0. watermark \in Nat /\ seqno \in Nat /\ at \in [Nonce -> Nat]
    BY DEF TypeOK, SeqNo
  <1>1. ASSUME NEW g \in Nonce, OpenRead(g) PROVE watermark' < at'[h]
    BY <1>0, <1>1 DEF OpenRead, WatermarkBelowOpen, InstantsBounded, SatSub1, Holds, TypeOK
  <1>2. ASSUME NEW g \in Nonce, OpenEnter(g) PROVE watermark' < at'[h]
    BY <1>0, <1>2 DEF OpenEnter, WatermarkBelowOpen, Holds, TypeOK
  <1>3. ASSUME NEW g \in Nonce, CloseRaw(g) PROVE watermark' < at'[h]
    BY <1>0, <1>3 DEF CloseRaw, WatermarkBelowOpen, Holds, TypeOK
  <1>4. ASSUME NEW f \in Nonce, NEW g \in Nonce, CloneSnapshot(f, g)
        PROVE  watermark' < at'[h]
    BY <1>0, <1>4 DEF CloneSnapshot, WatermarkBelowOpen, Holds, TypeOK
  <1>5. ASSUME NEW s \in 0..(MaxSeqno - 1), Publish(s) PROVE watermark' < at'[h]
    BY <1>5 DEF Publish, WatermarkBelowOpen, Holds
  <1>6. CASE Pullup
    BY <1>6 DEF Pullup, CanWrite, LiveEntered, Holds
  <1>7. ASSUME NEW c, GcStart(c) PROVE watermark' < at'[h]
    BY <1>7 DEF GcStart, WatermarkBelowOpen, Holds
  <1>8. CASE GcFinish
    <2>1. PICK lowest \in LowestRetained(Retained(entries, count, threshold), threshold) :
              watermark' = FetchMax(watermark, SatSub1(lowest))
      BY <1>8 DEF GcFinish
    <2>2. state[h] = "live" /\ at' = at
      BY <1>8 DEF GcFinish, SweepExclusive, Holds, TypeOK
    <2>3. SatSub1(lowest) < at[h]
      BY <2>2, SweepBelowLive
    <2>4. watermark < at[h]
      BY <2>2 DEF WatermarkBelowOpen
    <2> QED
      BY <2>1, <2>2, <2>3, <2>4 DEF FetchMax
  <1>9. CASE UNCHANGED vars
    BY <1>9 DEF vars, WatermarkBelowOpen, Holds
  <1> QED
    BY <1>1, <1>2, <1>3, <1>4, <1>5, <1>6, <1>7, <1>8, <1>9 DEF Next, CloserGc

\* Once a keyspace exists (FirstSeqno > 0), no compaction is ever told it may
\* drop what a live snapshot, or one being opened, can see.
THEOREM SnapshotsProtected ==
    ASSUME FirstSeqno > 0
    PROVE  Spec => []WatermarkBelowOpen
  <1>1. Init => WatermarkBelowOpen
    BY DEF Init, WatermarkBelowOpen
  <1>2. IInv /\ WatermarkBelowOpen /\ [Next]_vars => WatermarkBelowOpen'
    BY NextBelowOpen
  <1> QED
    BY <1>1, <1>2, Inductive, PTL DEF Spec
=============================================================================
