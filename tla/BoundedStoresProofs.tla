----------------------- MODULE BoundedStoresProofs -----------------------
(***************************************************************************)
(* Proofs about the stores that keep the newest of what they are given.    *)
(***************************************************************************)
EXTENDS Leak, AuditTrail, SequenceTheorems, WellFoundedInduction, TLAPS

LEMMA ModuloSmall == ASSUME NEW k \in 0 .. BufCap - 1 PROVE k % BufCap = k
  BY BufCapOK

LEMMA ModuloWrapped == ASSUME NEW k \in BufCap .. 2 * BufCap - 1 PROVE k % BufCap = k - BufCap
  BY BufCapOK

LEMMA PushType ==
  ASSUME NEW r \in RingBuffer, NEW rd \in Readings
  PROVE  Push(r, rd) \in RingBuffer
<1>1. (r.head + 1) % BufCap \in Slots
  BY BufCapOK DEF RingBuffer, Slots
<1>2. (IF r.n < BufCap THEN r.n + 1 ELSE r.n) \in 0 .. BufCap
  BY BufCapOK DEF RingBuffer
<1>3. [r.buf EXCEPT ![r.head] = rd] \in [Slots -> Readings \cup {NoReading}]
  BY DEF RingBuffer
<1>. QED
  BY <1>1, <1>2, <1>3 DEF Push, RingBuffer

(* The slot of the i-th oldest reading. *)
SlotOf(r, i) == (Start(r) + i - 1) % BufCap

LEMMA SlotCases ==
  ASSUME NEW r \in RingBuffer, NEW i \in 1 .. BufCap
  PROVE  /\ Start(r) = IF r.n =< r.head THEN r.head - r.n ELSE r.head - r.n + BufCap
         /\ SlotOf(r, i) = IF Start(r) + i - 1 < BufCap THEN Start(r) + i - 1
                                                        ELSE Start(r) + i - 1 - BufCap
         /\ SlotOf(r, i) \in Slots
<1>1. r.head \in Slots /\ r.n \in 0 .. BufCap
  BY DEF RingBuffer
<1>2. Start(r) = IF r.n =< r.head THEN r.head - r.n ELSE r.head - r.n + BufCap
  <2>1. CASE r.n =< r.head
    <3>1. r.head - r.n + BufCap \in BufCap .. 2 * BufCap - 1
      BY <1>1, <2>1, BufCapOK DEF Slots
    <3>. QED
      BY <1>1, <2>1, <3>1, ModuloWrapped, BufCapOK DEF Start, Slots
  <2>2. CASE r.n > r.head
    <3>1. r.head - r.n + BufCap \in 0 .. BufCap - 1
      BY <1>1, <2>2, BufCapOK DEF Slots
    <3>. QED
      BY <1>1, <2>2, <3>1, ModuloSmall, BufCapOK DEF Start, Slots
  <2>. QED
    BY <1>1, <2>1, <2>2, BufCapOK DEF Slots
<1>3. Start(r) \in Slots
  BY <1>1, <1>2, BufCapOK DEF Slots
<1>4. Start(r) + i - 1 \in 0 .. 2 * BufCap - 1
  BY <1>3, BufCapOK DEF Slots
<1>5. SlotOf(r, i) = IF Start(r) + i - 1 < BufCap THEN Start(r) + i - 1
                                                  ELSE Start(r) + i - 1 - BufCap
  <2>1. CASE Start(r) + i - 1 < BufCap
    BY <1>3, <1>4, <2>1, ModuloSmall, BufCapOK DEF SlotOf, Slots
  <2>2. CASE Start(r) + i - 1 >= BufCap
    BY <1>3, <1>4, <2>2, ModuloWrapped, BufCapOK DEF SlotOf, Slots
  <2>. QED
    BY <1>3, <1>4, <2>1, <2>2, BufCapOK DEF Slots
<1>. QED
  BY <1>2, <1>3, <1>4, <1>5, BufCapOK DEF Slots

LEMMA AppendShape ==
  ASSUME NEW S, NEW t \in Seq(S), NEW e \in S, NEW n \in Nat, Len(t) = n - 1
  PROVE  Append(t, e) = [i \in 1 .. n |-> IF i = n THEN e ELSE t[i]]
<1>1. Append(t, e) \in Seq(S) /\ Len(Append(t, e)) = n
  OBVIOUS
<1>2. \A i \in 1 .. n : Append(t, e)[i] = IF i = n THEN e ELSE t[i]
  OBVIOUS
<1>3. Append(t, e) = [i \in 1 .. n |-> Append(t, e)[i]]
  BY <1>1, LenProperties
<1>. QED
  BY <1>2, <1>3

(***************************************************************************)
(* What a push does to the snapshot.                                       *)
(***************************************************************************)
LEMMA SnapshotPush ==
  ASSUME NEW r \in RingBuffer, NEW rd \in Readings
  PROVE  Snapshot(Push(r, rd)) = Abstract!Keep(Snapshot(r), rd)
<1> DEFINE q == Push(r, rd)
<1>1. /\ r.head \in Slots /\ r.n \in 0 .. BufCap
      /\ q \in RingBuffer /\ q.head \in Slots /\ q.n \in 1 .. BufCap
      /\ q.n = IF r.n < BufCap THEN r.n + 1 ELSE r.n
      /\ q.head = IF r.head + 1 < BufCap THEN r.head + 1 ELSE 0
  <2>1. q \in RingBuffer /\ r.head \in Slots /\ r.n \in 0 .. BufCap
    BY PushType DEF RingBuffer
  <2>2. (r.head + 1) % BufCap = IF r.head + 1 < BufCap THEN r.head + 1 ELSE 0
    <3>1. CASE r.head + 1 < BufCap
      BY <2>1, <3>1, ModuloSmall, BufCapOK DEF Slots
    <3>2. CASE r.head + 1 = BufCap
      BY <2>1, <3>2, ModuloWrapped, BufCapOK DEF Slots
    <3>. QED
      BY <2>1, <3>1, <3>2, BufCapOK DEF Slots
  <2>. QED
    BY <2>1, <2>2, BufCapOK DEF Push, RingBuffer, Slots
<1>2. \A k \in Slots : q.buf[k] = IF k = r.head THEN rd ELSE r.buf[k]
  BY DEF Push, RingBuffer
<1>3. /\ Snapshot(r) \in [1 .. r.n -> Readings \cup {NoReading}]
      /\ Snapshot(r) \in Seq(Readings \cup {NoReading}) /\ Len(Snapshot(r)) = r.n
      /\ \A i \in 1 .. r.n : Snapshot(r)[i] = r.buf[SlotOf(r, i)]
  <2>1. \A i \in 1 .. r.n : SlotOf(r, i) \in Slots
    BY <1>1, SlotCases, BufCapOK
  <2>. QED
    BY <1>1, <2>1 DEF Snapshot, SlotOf, RingBuffer
<1>4. /\ Snapshot(q) = [i \in 1 .. q.n |-> q.buf[SlotOf(q, i)]]
  BY DEF Snapshot, SlotOf
<1> HIDE DEF q
<1>5. CASE r.n < BufCap
  <2> DEFINE K == [i \in 1 .. r.n + 1 |-> IF i = r.n + 1 THEN rd ELSE Snapshot(r)[i]]
  <2>1. Abstract!Keep(Snapshot(r), rd) = K
    BY <1>1, <1>3, <1>5 DEF Abstract!Keep
  <2>2. ASSUME NEW i \in 1 .. r.n + 1
        PROVE  q.buf[SlotOf(q, i)] = K[i]
    <3>1. i \in 1 .. BufCap
      BY <1>1, <1>5, BufCapOK
    <3>2. /\ Start(r) = IF r.n =< r.head THEN r.head - r.n ELSE r.head - r.n + BufCap
          /\ SlotOf(r, i) = IF Start(r) + i - 1 < BufCap THEN Start(r) + i - 1
                                                         ELSE Start(r) + i - 1 - BufCap
          /\ SlotOf(r, i) \in Slots
      BY <3>1, SlotCases
    <3>3. /\ Start(q) = IF q.n =< q.head THEN q.head - q.n ELSE q.head - q.n + BufCap
          /\ SlotOf(q, i) = IF Start(q) + i - 1 < BufCap THEN Start(q) + i - 1
                                                         ELSE Start(q) + i - 1 - BufCap
      BY <1>1, <3>1, SlotCases
    <3>4. Start(q) = Start(r)
      <4>1. /\ q.n = r.n + 1 /\ r.n \in 0 .. BufCap - 1 /\ r.head \in 0 .. BufCap - 1
            /\ q.head = IF r.head + 1 < BufCap THEN r.head + 1 ELSE 0
        BY <1>1, <1>5, BufCapOK DEF Slots
      <4>2. CASE r.head + 1 < BufCap
        BY <3>2, <3>3, <4>1, <4>2, BufCapOK
      <4>3. CASE r.head + 1 = BufCap
        <5>1. q.head = 0 /\ r.n =< r.head /\ ~(q.n =< q.head)
          BY <4>1, <4>3, BufCapOK
        <5>. QED
          BY <3>2, <3>3, <4>1, <4>3, <5>1, BufCapOK
      <4>. QED
        BY <4>1, <4>2, <4>3, BufCapOK
    <3>5. SlotOf(q, i) = SlotOf(r, i)
      BY <3>2, <3>3, <3>4
    <3>6. i = r.n + 1 <=> SlotOf(r, i) = r.head
      BY <1>1, <1>5, <3>1, <3>2, BufCapOK DEF Slots
    <3>7. CASE i = r.n + 1
      BY <1>2, <3>2, <3>5, <3>6, <3>7
    <3>8. CASE i # r.n + 1
      <4>1. i \in 1 .. r.n
        BY <1>1, <3>8
      <4>. QED
        BY <1>2, <1>3, <3>2, <3>5, <3>6, <3>8, <4>1
    <3>. QED
      BY <3>7, <3>8
  <2> HIDE DEF K
  <2>3. Snapshot(q) = [i \in 1 .. r.n + 1 |-> q.buf[SlotOf(q, i)]]
    BY <1>1, <1>4, <1>5
  <2>4. K = [i \in 1 .. r.n + 1 |-> K[i]]
    BY DEF K
  <2>. QED
    BY <2>1, <2>2, <2>3, <2>4 DEF q
<1>6. CASE r.n = BufCap
  <2> DEFINE K == [i \in 1 .. r.n |-> IF i = r.n THEN rd ELSE Snapshot(r)[i + 1]]
  <2>1. Abstract!Keep(Snapshot(r), rd) = K
    <3> DEFINE t == Tail(Snapshot(r))
    <3>1. /\ t \in Seq(Readings \cup {NoReading}) /\ Len(t) = r.n - 1
          /\ \A i \in 1 .. r.n - 1 : t[i] = Snapshot(r)[i + 1]
      BY <1>1, <1>3, <1>6, BufCapOK
    <3>2. Abstract!Keep(Snapshot(r), rd) = Append(t, rd)
      BY <1>3, <1>6 DEF Abstract!Keep
    <3> HIDE DEF t
    <3>3. Append(t, rd) = [i \in 1 .. r.n |-> IF i = r.n THEN rd ELSE t[i]]
      <4>1. r.n \in Nat /\ rd \in Readings \cup {NoReading}
        BY <1>1
      <4>. QED
        BY ONLY <3>1, <4>1, AppendShape
    <3>4. \A i \in 1 .. r.n : (IF i = r.n THEN rd ELSE t[i]) = K[i]
      BY <1>1, <3>1
    <3> HIDE DEF K
    <3>5. K = [i \in 1 .. r.n |-> K[i]]
      BY DEF K
    <3>. QED
      BY <3>2, <3>3, <3>4, <3>5
  <2>2. ASSUME NEW i \in 1 .. r.n
        PROVE  q.buf[SlotOf(q, i)] = K[i]
    <3>1. i \in 1 .. BufCap
      BY <1>1, <1>6, BufCapOK
    <3>2. /\ Start(r) = r.head
          /\ Start(q) = q.head
      BY <1>1, <1>6, SlotCases, BufCapOK DEF Slots
    <3>3. /\ SlotOf(q, i) = IF q.head + i - 1 < BufCap THEN q.head + i - 1
                                                       ELSE q.head + i - 1 - BufCap
          /\ SlotOf(q, i) \in Slots
      BY <1>1, <3>1, <3>2, SlotCases
    <3>4. SlotOf(q, i) = r.head <=> i = r.n
      BY <1>1, <1>6, <3>1, <3>3, BufCapOK DEF Slots
    <3>5. CASE i = r.n
      BY <1>2, <3>3, <3>4, <3>5
    <3>6. CASE i # r.n
      <4>1. i + 1 \in 1 .. BufCap /\ i + 1 \in 1 .. r.n
        BY <1>1, <1>6, <3>6, BufCapOK
      <4>2. SlotOf(r, i + 1) = IF r.head + (i + 1) - 1 < BufCap THEN r.head + (i + 1) - 1
                                                     ELSE r.head + (i + 1) - 1 - BufCap
        BY <3>2, <4>1, SlotCases
      <4>3. SlotOf(q, i) = SlotOf(r, i + 1)
        BY <1>1, <1>6, <3>1, <3>3, <4>2, BufCapOK DEF Slots
      <4>4. Snapshot(r)[i + 1] = r.buf[SlotOf(r, i + 1)]
        BY <1>3, <4>1
      <4>5. q.buf[SlotOf(q, i)] = r.buf[SlotOf(q, i)]
        BY <1>2, <3>3, <3>4, <3>6
      <4>. QED
        BY <3>6, <4>3, <4>4, <4>5
    <3>. QED
      BY <3>5, <3>6
  <2> HIDE DEF K
  <2>3. Snapshot(q) = [i \in 1 .. r.n |-> q.buf[SlotOf(q, i)]]
    BY <1>1, <1>4, <1>6
  <2>4. K = [i \in 1 .. r.n |-> K[i]]
    BY DEF K
  <2>. QED
    BY <2>1, <2>2, <2>3, <2>4 DEF q
<1>. QED
  BY <1>1, <1>5, <1>6, BufCapOK DEF q

(***************************************************************************)
(* The rings keep, of every point, exactly the newest BufCap readings in   *)
(* their order of arrival, whatever the number of wrap-arounds and however *)
(* many analyses copy them.                                                *)
(***************************************************************************)
THEOREM RingsAreHistories == Spec => ImplementsHistory
<1> DEFINE Push1 == \E p \in Points, rd \in Readings : AppendReading(p, rd)
<1>1. Init => RingTypeOK /\ Abstract!HistoryInit
  <2>1. NewRing \in RingBuffer
    BY BufCapOK DEF NewRing, RingBuffer, Slots
  <2>2. Snapshot(NewRing) = <<>>
    BY DEF Snapshot, NewRing
  <2>. QED
    BY <2>1, <2>2 DEF Init, RingInit, RingTypeOK, Abstract!HistoryInit, Histories, HistoryOf
<1>2. [Next]_vars => Push1 \/ UNCHANGED rings
  BY DEF Next, vars, Ingest, ReadUpstream, ReadDownstream, Analyze
<1>3. RingTypeOK /\ Push1 => RingTypeOK'
  <2> SUFFICES ASSUME RingTypeOK, NEW p \in Points, NEW rd \in Readings, AppendReading(p, rd)
               PROVE  RingTypeOK'
    OBVIOUS
  <2>1. Push(rings[p], rd) \in RingBuffer
    BY PushType DEF RingTypeOK
  <2>. QED
    BY <2>1 DEF AppendReading, RingTypeOK
<1>4. RingTypeOK /\ [Next]_vars => RingTypeOK'
  BY <1>2, <1>3 DEF RingTypeOK
<1>5. RingTypeOK /\ [Next]_vars
        => [\E p \in Points, rd \in Readings : Abstract!Record(p, rd)]_Histories
  <2>1. ASSUME UNCHANGED rings PROVE UNCHANGED Histories
    BY <2>1 DEF Histories, HistoryOf
  <2>2. ASSUME RingTypeOK, NEW p \in Points, NEW rd \in Readings, AppendReading(p, rd)
        PROVE  Abstract!Record(p, rd)
    <3>1. Snapshot(Push(rings[p], rd)) = Abstract!Keep(HistoryOf(p), rd)
      BY <2>2, SnapshotPush DEF RingTypeOK, HistoryOf
    <3>2. \A o \in Points : rings'[o] = IF o = p THEN Push(rings[p], rd) ELSE rings[o]
      BY <2>2 DEF AppendReading, RingTypeOK
    <3>3. \A o \in Points : HistoryOf(o)' = IF o = p THEN Abstract!Keep(HistoryOf(p), rd)
                                                     ELSE HistoryOf(o)
      BY <3>1, <3>2 DEF HistoryOf
    <3>. QED
      BY <3>3 DEF Abstract!Record, Histories
  <2>. QED
    BY <1>2, <2>1, <2>2
<1>. QED
  BY <1>1, <1>4, <1>5, PTL DEF Spec, ImplementsHistory

-----------------------------------------------------------------------------
(***************************************************************************)
(* The window of the evidence.  The copies an analysis holds are readings, *)
(* and those of an orderly point are in the order of their time stamps.    *)
(***************************************************************************)
InOrder(s) == \A i, j \in 1 .. Len(s) : i =< j => s[i].ts =< s[j].ts

HistoryOK(p) ==
  /\ HistoryOf(p) \in Seq(Readings)
  /\ p \in Orderly => InOrder(HistoryOf(p))

CopyOK(p, s) ==
  /\ s \in Seq(Readings)
  /\ p \in Orderly \cup {NoPoint} => InOrder(s)

AnalysisOK(h) ==
  /\ req[h].up \in Points \cup {NoPoint} /\ req[h].down \in Points \cup {NoPoint}
  /\ CopyOK(req[h].up, req[h].upstream)
  /\ CopyOK(req[h].down, req[h].downstream)

RequestRecord ==
  [step : {"idle", "read", "analyze"}, up : Points \cup {NoPoint}, down : Points \cup {NoPoint},
   upstream : Seq(Readings), downstream : Seq(Readings)]

WindowInv ==
  /\ RingTypeOK
  /\ \A p \in Points : HistoryOK(p)
  /\ req \in [Handlers -> RequestRecord]
  /\ \A h \in Handlers : AnalysisOK(h)

LEMMA EmptyOK == <<>> \in Seq(Readings) /\ InOrder(<<>>)
BY DEF InOrder

LEMMA StampsOK == \A rd \in Readings : rd.ts \in Nat \ {0}
BY ReadingsAreStamped

(* The newest reading of a ring is the last of its snapshot. *)
LEMMA LastOfSnapshot ==
  ASSUME NEW r \in RingBuffer
  PROVE  Len(Snapshot(r)) = r.n /\ (r.n > 0 => Last(r) = Snapshot(r)[r.n])
<1>1. r.n \in 0 .. BufCap /\ r.head \in 0 .. BufCap - 1
  BY DEF RingBuffer, Slots
<1>2. Len(Snapshot(r)) = r.n
  BY <1>1, BufCapOK DEF Snapshot
<1>3. ASSUME r.n > 0 PROVE Last(r) = Snapshot(r)[r.n]
  <2>1. r.n \in 1 .. BufCap /\ r.n \in 1 .. r.n
    BY <1>1, <1>3, BufCapOK
  <2>2. /\ Start(r) = IF r.n =< r.head THEN r.head - r.n ELSE r.head - r.n + BufCap
        /\ SlotOf(r, r.n) = IF Start(r) + r.n - 1 < BufCap THEN Start(r) + r.n - 1
                                                           ELSE Start(r) + r.n - 1 - BufCap
    BY <2>1, SlotCases
  <2>3. (r.head - 1 + BufCap) % BufCap = IF r.head = 0 THEN BufCap - 1 ELSE r.head - 1
    <3>1. CASE r.head = 0
      BY <1>1, <3>1, ModuloSmall, BufCapOK
    <3>2. CASE r.head # 0
      <4>1. r.head - 1 + BufCap \in BufCap .. 2 * BufCap - 1
        BY <1>1, <3>2, BufCapOK
      <4> QED BY <1>1, <3>2, <4>1, ModuloWrapped, BufCapOK
    <3> QED BY <3>1, <3>2
  <2>4. SlotOf(r, r.n) = IF r.head = 0 THEN BufCap - 1 ELSE r.head - 1
    BY <1>1, <2>1, <2>2, BufCapOK
  <2>5. Snapshot(r)[r.n] = r.buf[SlotOf(r, r.n)]
    BY <2>1 DEF Snapshot, SlotOf
  <2> QED BY <1>1, <1>3, <2>3, <2>4, <2>5 DEF Last
<1> QED BY <1>2, <1>3

LEMMA KeepSorted ==
  ASSUME NEW s \in Seq(Readings), NEW rd \in Readings
  PROVE  /\ Abstract!Keep(s, rd) \in Seq(Readings)
         /\ InOrder(s) /\ (Len(s) > 0 => s[Len(s)].ts =< rd.ts) => InOrder(Abstract!Keep(s, rd))
<1> DEFINE t == IF Len(s) = BufCap THEN Tail(s) ELSE s
           k == IF Len(s) = BufCap THEN 1 ELSE 0
<1>1. /\ t \in Seq(Readings) /\ Len(t) \in Nat /\ Len(t) + k = Len(s)
      /\ \A i \in 1 .. Len(t) : t[i] = s[i + k]
  BY BufCapOK
<1>2. Abstract!Keep(s, rd) = Append(t, rd)
  BY DEF Abstract!Keep
<1>3. k \in {0, 1} /\ Len(s) \in Nat
  OBVIOUS
<1> HIDE DEF t, k
<1>4. /\ Append(t, rd) \in Seq(Readings) /\ Len(Append(t, rd)) = Len(t) + 1
      /\ Append(t, rd)[Len(t) + 1] = rd
      /\ \A i \in 1 .. Len(t) : Append(t, rd)[i] = t[i]
  BY <1>1
<1>5. ASSUME InOrder(s), Len(s) > 0 => s[Len(s)].ts =< rd.ts
      PROVE  InOrder(Append(t, rd))
  <2> DEFINE a == Append(t, rd)
  <2>1. SUFFICES ASSUME NEW i \in 1 .. Len(t) + 1, NEW j \in 1 .. Len(t) + 1, i =< j
                 PROVE  a[i].ts =< a[j].ts
    BY <1>4 DEF InOrder
  <2>2. rd.ts \in Int /\ \A l \in 1 .. Len(s) : s[l].ts \in Int
    BY StampsOK
  <2>3. \A l \in 1 .. Len(t) : l + k \in 1 .. Len(s) /\ a[l] = s[l + k]
    BY <1>1, <1>3, <1>4
  <2>4. \A l \in 1 .. Len(s) : s[l].ts =< rd.ts
    <3> SUFFICES ASSUME NEW l \in 1 .. Len(s) PROVE s[l].ts =< rd.ts
      OBVIOUS
    <3>1. Len(s) \in 1 .. Len(s) /\ l =< Len(s) /\ Len(s) > 0
      BY <1>3
    <3>2. s[l].ts =< s[Len(s)].ts /\ s[Len(s)].ts =< rd.ts
      BY <1>5, <3>1 DEF InOrder
    <3> QED BY <2>2, <3>1, <3>2
  <2>5. CASE j = Len(t) + 1 /\ i = j
    BY <1>4, <2>2, <2>5
  <2>6. CASE j = Len(t) + 1 /\ i # j
    <3>1. i \in 1 .. Len(t)
      BY <1>1, <2>1, <2>6
    <3> QED BY <1>4, <2>3, <2>4, <2>6, <3>1
  <2>7. CASE j # Len(t) + 1
    <3>1. i \in 1 .. Len(t) /\ j \in 1 .. Len(t)
      BY <1>1, <2>1, <2>7
    <3>2. i + k =< j + k
      BY <1>3, <2>1
    <3> QED BY <1>5, <2>3, <3>1, <3>2 DEF InOrder
  <2> QED BY <2>5, <2>6, <2>7
<1> QED BY <1>2, <1>4, <1>5

LEMMA IngestWindow ==
  ASSUME WindowInv, NEW p \in Points, NEW rd \in Readings, Ingest(p, rd)
  PROVE  WindowInv'
<1>0. RingTypeOK /\ HistoryOK(p) /\ rings[p] \in RingBuffer
  BY DEF WindowInv, RingTypeOK
<1>1. MayIngest(p, rd) /\ AppendReading(p, rd) /\ req' = req
  BY DEF Ingest
<1>2. /\ RingTypeOK'
      /\ rings'[p] = Push(rings[p], rd) /\ \A o \in Points \ {p} : rings'[o] = rings[o]
  <2>1. Push(rings[p], rd) \in RingBuffer
    BY <1>0, PushType
  <2> QED BY <1>0, <1>1, <2>1 DEF AppendReading, RingTypeOK
<1>3. HistoryOf(p)' = Abstract!Keep(HistoryOf(p), rd)
  BY <1>0, <1>2, SnapshotPush DEF HistoryOf
<1>4. HistoryOf(p) \in Seq(Readings)
  BY <1>0 DEF HistoryOK
<1>5. Len(HistoryOf(p)) = rings[p].n /\ rings[p].n \in Nat
      /\ (rings[p].n > 0 => Last(rings[p]) = HistoryOf(p)[rings[p].n])
  BY <1>0, LastOfSnapshot DEF HistoryOf, RingBuffer
<1>6. p \in Orderly => InOrder(HistoryOf(p)')
  <2>1. ASSUME p \in Orderly PROVE InOrder(HistoryOf(p)')
    <3>1. InOrder(HistoryOf(p))
      BY <1>0, <2>1 DEF HistoryOK
    <3>2. Len(HistoryOf(p)) > 0 => HistoryOf(p)[Len(HistoryOf(p))].ts =< rd.ts
      BY <1>1, <1>5, <2>1 DEF MayIngest
    <3> QED BY <1>3, <1>4, <3>1, <3>2, KeepSorted
  <2> QED BY <2>1
<1>7. HistoryOf(p)' \in Seq(Readings)
  BY <1>3, <1>4, KeepSorted
<1>8. ASSUME NEW o \in Points PROVE HistoryOK(o)'
  <2>1. CASE o = p
    BY <1>6, <1>7, <2>1 DEF HistoryOK, InOrder
  <2>2. CASE o # p
    <3>1. HistoryOf(o)' = HistoryOf(o)
      BY <1>2, <2>2 DEF HistoryOf
    <3> QED BY <3>1 DEF WindowInv, HistoryOK, InOrder
  <2> QED BY <2>1, <2>2
<1>9. \A h \in Handlers : AnalysisOK(h)'
  BY <1>1 DEF WindowInv, AnalysisOK, CopyOK, InOrder
<1> QED BY <1>1, <1>2, <1>8, <1>9 DEF WindowInv

(* What an analysis copies. *)
LEMMA CopiedOK ==
  ASSUME WindowInv, NEW p \in Points \cup {NoPoint}
  PROVE  Copy(p) \in Seq(Readings) /\ CopyOK(p, Copy(p))
<1>1. CASE p = NoPoint
  BY <1>1 DEF Copy, CopyOK, InOrder
<1>2. CASE p # NoPoint
  BY <1>2 DEF Copy, CopyOK, WindowInv, HistoryOK
<1> QED BY <1>1, <1>2

LEMMA EndpointsOK ==
  ASSUME NEW up \in Points \cup {NoPoint}, NEW down \in Points \cup {NoPoint}
  PROVE  Endpoints(up, down)[1] \in Points \cup {NoPoint}
         /\ Endpoints(up, down)[2] \in Points \cup {NoPoint}
BY LeakConstantsOK DEF Endpoints

(* A step of an analysis: it is at r now. *)
LEMMA AnalysisMoves ==
  ASSUME WindowInv, NEW h \in Handlers, NEW r \in RequestRecord, rings' = rings,
         req' = [req EXCEPT ![h] = r],
         CopyOK(r.up, r.upstream), CopyOK(r.down, r.downstream)
  PROVE  WindowInv'
<1>1. /\ req' \in [Handlers -> RequestRecord] /\ req'[h] = r
      /\ \A g \in Handlers \ {h} : req'[g] = req[g]
  BY DEF WindowInv
<1>2. ASSUME NEW g \in Handlers PROVE AnalysisOK(g)'
  <2>1. CASE g = h
    <3>1. r.up \in Points \cup {NoPoint} /\ r.down \in Points \cup {NoPoint}
      BY DEF RequestRecord
    <3> QED BY <1>1, <2>1, <3>1 DEF AnalysisOK, CopyOK, InOrder
  <2>2. CASE g # h
    BY <1>1, <2>2 DEF WindowInv, AnalysisOK, CopyOK, InOrder
  <2> QED BY <2>1, <2>2
<1>3. RingTypeOK' /\ \A p \in Points : HistoryOK(p)'
  BY DEF WindowInv, RingTypeOK, HistoryOK, HistoryOf, InOrder
<1> QED BY <1>1, <1>2, <1>3 DEF WindowInv

LEMMA IdleOK == Idle \in RequestRecord /\ CopyOK(Idle.up, Idle.upstream) /\ CopyOK(Idle.down, Idle.downstream)
BY DEF Idle, RequestRecord, CopyOK, InOrder

LEMMA WindowNext == WindowInv /\ [Next]_vars => WindowInv'
<1> SUFFICES ASSUME WindowInv, [Next]_vars PROVE WindowInv'
  OBVIOUS
<1>1. CASE \E p \in Points, rd \in Readings : Ingest(p, rd)
  BY <1>1, IngestWindow
<1>2. CASE \E h \in Handlers, up, down \in Points \cup {NoPoint} : ReadUpstream(h, up, down)
  <2>1. PICK h \in Handlers, up \in Points \cup {NoPoint}, down \in Points \cup {NoPoint} :
               ReadUpstream(h, up, down)
    BY <1>2
  <2> DEFINE e == Endpoints(up, down)
             c == Copy(e[1])
             q == Idle
             r == [q EXCEPT !.step = "read", !.up = e[1], !.down = e[2], !.upstream = c]
  <2>2. e[1] \in Points \cup {NoPoint} /\ e[2] \in Points \cup {NoPoint}
    BY EndpointsOK
  <2>3. c \in Seq(Readings) /\ CopyOK(e[1], c)
    BY <2>2, CopiedOK
  <2>4. req' = [req EXCEPT ![h] = r] /\ rings' = rings
    BY <2>1 DEF ReadUpstream
  <2>5. q \in RequestRecord
    BY IdleOK
  <2>6. CopyOK(e[2], q.downstream)
    BY EmptyOK DEF CopyOK, Idle
  <2> HIDE DEF e, c, q
  <2>7. /\ r \in RequestRecord
        /\ r.up = e[1] /\ r.upstream = c /\ r.down = e[2] /\ r.downstream = q.downstream
    BY <2>2, <2>3, <2>5 DEF RequestRecord
  <2> HIDE DEF r
  <2> QED BY <2>3, <2>4, <2>6, <2>7, AnalysisMoves
<1>3. CASE \E h \in Handlers : ReadDownstream(h)
  <2>1. PICK h \in Handlers : ReadDownstream(h)
    BY <1>3
  <2> DEFINE q == req[h]
             r == [q EXCEPT !.step = "analyze", !.downstream = Copy(q.down)]
  <2>2. q \in RequestRecord /\ CopyOK(q.up, q.upstream)
    BY DEF WindowInv, AnalysisOK
  <2>3. Copy(q.down) \in Seq(Readings) /\ CopyOK(q.down, Copy(q.down))
    BY <2>2, CopiedOK DEF RequestRecord
  <2>4. req' = [req EXCEPT ![h] = r] /\ rings' = rings
    BY <2>1 DEF ReadDownstream, WindowInv, RequestRecord
  <2> HIDE DEF q
  <2>5. /\ r \in RequestRecord
        /\ r.up = q.up /\ r.upstream = q.upstream /\ r.down = q.down /\ r.downstream = Copy(q.down)
    BY <2>2, <2>3 DEF RequestRecord
  <2> HIDE DEF r
  <2> QED BY <2>2, <2>3, <2>4, <2>5, AnalysisMoves
<1>4. CASE \E h \in Handlers : Analyze(h)
  BY <1>4, IdleOK, AnalysisMoves DEF Analyze
<1>5. CASE UNCHANGED vars
  BY <1>5 DEF vars, WindowInv, RingTypeOK, HistoryOK, HistoryOf, AnalysisOK, CopyOK, InOrder
<1> QED BY <1>1, <1>2, <1>3, <1>4, <1>5 DEF Next

LEMMA WindowInit == Init => WindowInv
<1> SUFFICES ASSUME Init PROVE WindowInv
  OBVIOUS
<1>1. NewRing \in RingBuffer /\ Snapshot(NewRing) = <<>>
  BY BufCapOK DEF NewRing, RingBuffer, Slots, Snapshot
<1>2. RingTypeOK /\ \A p \in Points : HistoryOf(p) = <<>>
  BY <1>1 DEF Init, RingInit, RingTypeOK, HistoryOf
<1>3. \A p \in Points : HistoryOK(p)
  BY <1>2, EmptyOK DEF HistoryOK
<1>4. req \in [Handlers -> RequestRecord] /\ \A h \in Handlers : req[h] = Idle
  BY IdleOK DEF Init
<1>5. \A h \in Handlers : AnalysisOK(h)
  BY <1>4, IdleOK DEF AnalysisOK, RequestRecord
<1> QED BY <1>2, <1>3, <1>4, <1>5 DEF WindowInv

(* The window of two ordered copies has all their time stamps. *)
LEMMA WindowOfOrdered ==
  ASSUME NEW u \in Seq(Readings), NEW d \in Seq(Readings), InOrder(u), InOrder(d)
  PROVE  \A rd \in Range(u) \cup Range(d) : rd.ts \in WindowStart(u, d) .. WindowEnd(u, d)
<1>1. ASSUME NEW s \in Seq(Readings), InOrder(s), NEW rd \in Range(s)
      PROVE  /\ s # <<>> /\ s[1].ts \in Nat \ {0} /\ s[Len(s)].ts \in Nat \ {0}
             /\ rd.ts \in s[1].ts .. s[Len(s)].ts
  <2>1. PICK i \in 1 .. Len(s) : rd = s[i]
    BY DEF Range
  <2>2. 1 \in 1 .. Len(s) /\ Len(s) \in 1 .. Len(s) /\ 1 =< i /\ i =< Len(s)
    OBVIOUS
  <2>3. s[1].ts \in Nat \ {0} /\ s[Len(s)].ts \in Nat \ {0} /\ s[i].ts \in Nat \ {0}
    BY <2>2, StampsOK
  <2>4. s[1].ts =< s[i].ts /\ s[i].ts =< s[Len(s)].ts
    BY <1>1, <2>2 DEF InOrder
  <2>5. s # <<>>
    BY <2>2
  <2> QED BY <2>1, <2>3, <2>4, <2>5
<1>2. \A s \in Seq(Readings) : s # <<>> => s[1].ts \in Nat \ {0} /\ s[Len(s)].ts \in Nat \ {0}
  BY StampsOK
<1>3. ASSUME NEW rd \in Range(u)
      PROVE  rd.ts \in WindowStart(u, d) .. WindowEnd(u, d)
  <2>1. /\ u # <<>> /\ u[1].ts \in Nat \ {0} /\ u[Len(u)].ts \in Nat \ {0}
        /\ rd.ts \in u[1].ts .. u[Len(u)].ts
    BY <1>1, <1>3
  <2> QED BY <1>2, <2>1 DEF WindowStart, WindowEnd
<1>4. ASSUME NEW rd \in Range(d)
      PROVE  rd.ts \in WindowStart(u, d) .. WindowEnd(u, d)
  <2>1. /\ d # <<>> /\ d[1].ts \in Nat \ {0} /\ d[Len(d)].ts \in Nat \ {0}
        /\ rd.ts \in d[1].ts .. d[Len(d)].ts
    BY <1>1, <1>4
  <2> QED BY <1>2, <2>1 DEF WindowStart, WindowEnd
<1> QED BY <1>3, <1>4

(***************************************************************************)
(* The window of an alert's evidence holds every reading that was analysed *)
(* for points whose readings arrive in order.                              *)
(***************************************************************************)
THEOREM WindowHoldsSamples == Spec => []WindowCoversSamples
<1>1. ASSUME WindowInv PROVE WindowCoversSamples
  <2> SUFFICES ASSUME NEW h \in Handlers, Analyzing(h),
                      {req[h].up, req[h].down} \subseteq Orderly \cup {NoPoint}
               PROVE  \A rd \in Range(req[h].upstream) \cup Range(req[h].downstream) :
                        rd.ts \in WindowStart(req[h].upstream, req[h].downstream)
                                   .. WindowEnd(req[h].upstream, req[h].downstream)
    BY DEF WindowCoversSamples
  <2>1. /\ req[h].upstream \in Seq(Readings) /\ InOrder(req[h].upstream)
        /\ req[h].downstream \in Seq(Readings) /\ InOrder(req[h].downstream)
    BY <1>1 DEF WindowInv, AnalysisOK, CopyOK
  <2> QED BY <2>1, WindowOfOrdered
<1> QED BY <1>1, WindowInit, WindowNext, PTL DEF Spec

-----------------------------------------------------------------------------
(***************************************************************************)
(* The fitted line.  Its slope is a quotient of sums; the sums are those   *)
(* of their prefixes, and what they are is proved by induction on the      *)
(* length: if 0 is in a set, and n + 1 whenever n is, all natural numbers  *)
(* are.                                                                    *)
(***************************************************************************)
LEMMA NatSetInduction ==
  ASSUME NEW S, 0 \in S, \A n \in Nat : n \in S => n + 1 \in S
  PROVE  Nat \subseteq S
<1> DEFINE T == {n \in Nat : n \notin S}
<1>1. SUFFICES ASSUME T # {} PROVE FALSE
  OBVIOUS
<1>2. PICK n \in T : \A m \in T : <<m, n>> \notin OpToRel(<, Nat)
  BY <1>1, NatLessThanWellFounded, WFMin
<1>3. n \in Nat /\ n - 1 \in Nat /\ n - 1 \notin S
  <2>1. n \in Nat /\ n \notin S /\ n # 0
    BY <1>2
  <2>2. n - 1 \in Nat /\ (n - 1) + 1 = n
    BY <2>1
  <2> QED BY <2>1, <2>2
<1>4. <<n - 1, n>> \in OpToRel(<, Nat)
  BY <1>3 DEF OpToRel
<1> QED BY <1>2, <1>3, <1>4

(* p[k] is the sum of the first k numbers of f, for k up to n. *)
AddsUp(p, f, n) == p[0] = 0 /\ \A k \in 1 .. n : p[k] = p[k - 1] + f[k]
Sums(p, f, n) == p \in [0 .. n -> Int] /\ AddsUp(p, f, n)

LEMMA SumsExist ==
  ASSUME NEW n \in Nat, NEW f \in [1 .. n -> Int]
  PROVE  \E p : Sums(p, f, n)
<1> DEFINE S == {k \in Nat : k =< n => \E p : Sums(p, f, k)}
<1>1. 0 \in S
  <2> DEFINE p == [k \in 0 .. 0 |-> 0]
  <2>1. Sums(p, f, 0)
    BY DEF Sums, AddsUp
  <2> QED BY <2>1
<1>2. ASSUME NEW k \in Nat, k \in S PROVE k + 1 \in S
  <2>1. SUFFICES ASSUME k + 1 =< n PROVE \E q : Sums(q, f, k + 1)
    OBVIOUS
  <2>2. PICK p : Sums(p, f, k)
    BY <1>2, <2>1
  <2> DEFINE q == [j \in 0 .. k + 1 |-> IF j = k + 1 THEN p[k] + f[k + 1] ELSE p[j]]
  <2>3. p \in [0 .. k -> Int] /\ p[k] \in Int /\ f[k + 1] \in Int
    BY <2>1, <2>2 DEF Sums, AddsUp
  <2>4. /\ q \in [0 .. k + 1 -> Int] /\ q[k + 1] = p[k] + f[k + 1]
        /\ \A j \in 0 .. k : q[j] = p[j]
    BY <2>3
  <2> HIDE DEF q
  <2>5. ASSUME NEW j \in 1 .. k + 1 PROVE q[j] = q[j - 1] + f[j]
    <3>1. CASE j = k + 1
      BY <2>4, <3>1
    <3>2. CASE j \in 1 .. k
      <4>1. q[j] = p[j] /\ q[j - 1] = p[j - 1] /\ p[j] = p[j - 1] + f[j]
        BY <2>2, <2>4, <3>2 DEF Sums, AddsUp
      <4> QED BY <4>1
    <3> QED BY <3>1, <3>2
  <2>6. q[0] = 0
    BY <2>2, <2>4 DEF Sums, AddsUp
  <2>7. Sums(q, f, k + 1)
    BY <2>4, <2>5, <2>6 DEF Sums, AddsUp
  <2> QED BY <2>7
<1>3. n \in S
  <2> HIDE DEF S
  <2> QED BY <1>1, <1>2, NatSetInduction
<1> QED BY <1>3

(* What satisfies the equations of sums is determined by them. *)
LEMMA SumsUnique ==
  ASSUME NEW n \in Nat, NEW f, NEW p, NEW q,
         AddsUp(p, f, n), AddsUp(q, f, n)
  PROVE  p[n] = q[n]
<1> DEFINE S == {k \in Nat : k =< n => p[k] = q[k]}
<1>1. 0 \in S
  BY DEF AddsUp
<1>2. ASSUME NEW k \in Nat, k \in S PROVE k + 1 \in S
  <2>1. SUFFICES ASSUME k + 1 =< n PROVE p[k + 1] = q[k + 1]
    OBVIOUS
  <2>2. k + 1 \in 1 .. n /\ (k + 1) - 1 = k /\ p[k] = q[k]
    BY <1>2, <2>1
  <2>3. p[k + 1] = p[k] + f[k + 1] /\ q[k + 1] = q[k] + f[k + 1]
    BY <2>2 DEF AddsUp
  <2> QED BY <2>2, <2>3
<1>3. n \in S
  <2> HIDE DEF S
  <2> QED BY <1>1, <1>2, NatSetInduction
<1> QED BY <1>3

LEMMA TotalIsSum ==
  ASSUME NEW n \in Nat, NEW f \in [1 .. n -> Int], NEW p, Sums(p, f, n)
  PROVE  Total(f, n) = p[n]
<1> DEFINE g == CHOOSE h : h = [k \in 0 .. n |-> IF k = 0 THEN 0 ELSE h[k - 1] + f[k]]
<1>1. Total(f, n) = g[n]
  BY DEF Total
<1>2. p = [k \in 0 .. n |-> IF k = 0 THEN 0 ELSE p[k - 1] + f[k]]
  <2>1. p = [k \in 0 .. n |-> p[k]]
    BY DEF Sums
  <2>2. \A k \in 0 .. n : p[k] = IF k = 0 THEN 0 ELSE p[k - 1] + f[k]
    BY DEF Sums, AddsUp
  <2> QED BY <2>1, <2>2
<1>3. g = [k \in 0 .. n |-> IF k = 0 THEN 0 ELSE g[k - 1] + f[k]]
  BY <1>2
<1> HIDE DEF g
<1>4. AddsUp(g, f, n)
  <2>1. \A k \in 0 .. n : g[k] = IF k = 0 THEN 0 ELSE g[k - 1] + f[k]
    <3> DEFINE b(k) == IF k = 0 THEN 0 ELSE g[k - 1] + f[k]
    <3>1. g = [k \in 0 .. n |-> b(k)]
      BY <1>3
    <3> HIDE DEF b
    <3>2. \A k \in 0 .. n : g[k] = b(k)
      BY <3>1
    <3> QED BY <3>2 DEF b
  <2>2. 0 \in 0 .. n
    OBVIOUS
  <2>3. ASSUME NEW k \in 1 .. n PROVE k \in 0 .. n /\ k # 0
    OBVIOUS
  <2> QED BY <2>1, <2>2, <2>3 DEF AddsUp
<1>5. AddsUp(p, f, n)
  BY DEF Sums
<1>6. p[n] = g[n]
  BY <1>4, <1>5, SumsUnique
<1> QED BY <1>1, <1>6

(* Identities of the numbers. *)
Integers6(c, d, p, f, q, g) ==
  c \in Int /\ d \in Int /\ p \in Int /\ f \in Int /\ q \in Int /\ g \in Int

LEMMA Distributes ==
  ASSUME NEW c, NEW d, NEW p, NEW f, NEW q, NEW g, Integers6(c, d, p, f, q, g)
  PROVE  c * (p + f) + d * (q + g) = (c * p + d * q) + (c * f + d * g)
<1>1. c * (p + f) = c * p + c * f /\ d * (q + g) = d * q + d * g
  BY DEF Integers6
<1>2. c * p \in Int /\ c * f \in Int /\ d * q \in Int /\ d * g \in Int
  BY DEF Integers6
<1> QED BY <1>1, <1>2

Weighed(k, s, u, v, a, b) == ((s - a * v) - b * u) + k * (a * b)
Covariance(k, s, u, v) == k * s - u * v
Opposed(a, b, e, f) == (a - e) * (b - f)
Grows(s, u, v, e, f, s1, u1, v1) == s1 = s + e * f /\ u1 = u + e /\ v1 = v + f

LEMMA WeighedType ==
  ASSUME NEW k \in Int, NEW s \in Int, NEW u \in Int, NEW v \in Int, NEW a \in Int, NEW b \in Int
  PROVE  Weighed(k, s, u, v, a, b) \in Int
BY DEF Weighed

LEMMA CovarianceType == \A k, s, u, v \in Int : Covariance(k, s, u, v) \in Int
BY DEF Covariance

LEMMA Spreads ==
  ASSUME NEW k \in Int, NEW s \in Int, NEW u \in Int, NEW v \in Int, NEW a \in Int, NEW b \in Int,
         NEW s1, NEW u1, NEW v1, Grows(s, u, v, a, b, s1, u1, v1)
  PROVE  Covariance(k + 1, s1, u1, v1) = Covariance(k, s, u, v) + Weighed(k, s, u, v, a, b)
<1>1. (k + 1) * (s + a * b) - (u + a) * (v + b)
        = (k * s - u * v) + (((s - a * v) - b * u) + k * (a * b))
  OBVIOUS
<1> QED BY <1>1 DEF Covariance, Weighed, Grows

LEMMA Advances ==
  ASSUME NEW k \in Int, NEW s \in Int, NEW u \in Int, NEW v \in Int, NEW a \in Int, NEW b \in Int,
         NEW e \in Int, NEW f \in Int,
         NEW s1, NEW u1, NEW v1, Grows(s, u, v, e, f, s1, u1, v1)
  PROVE  Weighed(k + 1, s1, u1, v1, a, b) = Weighed(k, s, u, v, a, b) + Opposed(a, b, e, f)
<1>1. (((s + e * f) - a * (v + f)) - b * (u + e)) + (k + 1) * (a * b)
        = (((s - a * v) - b * u) + k * (a * b)) + (a - e) * (b - f)
  OBVIOUS
<1> QED BY <1>1 DEF Weighed, Opposed, Grows

Blend(c, p, d, q) == c * p + d * q

Integers7(n, c, d, p, q, u, v) ==
  n \in Int /\ c \in Int /\ d \in Int /\ p \in Int /\ q \in Int /\ u \in Int /\ v \in Int

LEMMA Mixes ==
  ASSUME NEW n, NEW c, NEW d, NEW p, NEW q, NEW u, NEW v, Integers7(n, c, d, p, q, u, v)
  PROVE  Covariance(n, Blend(c, p, d, q), u, Blend(c, v, d, u))
           = Blend(c, Covariance(n, p, u, v), d, Covariance(n, q, u, u))
<1>1. n * (c * p + d * q) - u * (c * v + d * u) = c * (n * p - u * v) + d * (n * q - u * u)
  BY DEF Integers7
<1> QED BY <1>1 DEF Covariance, Blend

(* Sums are linear. *)
LEMMA LinearSums ==
  ASSUME NEW n \in Nat, NEW f \in [1 .. n -> Int], NEW g \in [1 .. n -> Int],
         NEW p, Sums(p, f, n), NEW q, Sums(q, g, n), NEW c \in Int, NEW d \in Int
  PROVE  Sums([k \in 0 .. n |-> c * p[k] + d * q[k]], [i \in 1 .. n |-> c * f[i] + d * g[i]], n)
<1> DEFINE r == [k \in 0 .. n |-> c * p[k] + d * q[k]]
           e == [i \in 1 .. n |-> c * f[i] + d * g[i]]
<1>1. \A k \in 0 .. n : p[k] \in Int /\ q[k] \in Int
  BY DEF Sums
<1>2. r \in [0 .. n -> Int] /\ \A k \in 0 .. n : r[k] = c * p[k] + d * q[k]
  BY <1>1
<1>3. \A i \in 1 .. n : e[i] = c * f[i] + d * g[i]
  OBVIOUS
<1> HIDE DEF r, e
<1>4. r[0] = 0
  <2>1. p[0] = 0 /\ q[0] = 0 /\ r[0] = c * p[0] + d * q[0]
    BY <1>2 DEF Sums, AddsUp
  <2> QED BY <2>1
<1>5. ASSUME NEW k \in 1 .. n PROVE r[k] = r[k - 1] + e[k]
  <2>1. k \in 0 .. n /\ k - 1 \in 0 .. n
    OBVIOUS
  <2>2. r[k] = c * p[k] + d * q[k] /\ r[k - 1] = c * p[k - 1] + d * q[k - 1]
    BY <1>2, <2>1
  <2>3. p[k] = p[k - 1] + f[k] /\ q[k] = q[k - 1] + g[k]
    BY DEF Sums, AddsUp
  <2>4. p[k - 1] \in Int /\ q[k - 1] \in Int /\ f[k] \in Int /\ g[k] \in Int
    BY <1>1, <2>1
  <2>5. c * (p[k - 1] + f[k]) + d * (q[k - 1] + g[k])
          = (c * p[k - 1] + d * q[k - 1]) + (c * f[k] + d * g[k])
    <3>1. Integers6(c, d, p[k - 1], f[k], q[k - 1], g[k])
      BY <2>4 DEF Integers6
    <3> QED BY ONLY <3>1, Distributes
  <2>6. e[k] = c * f[k] + d * g[k]
    BY <1>3
  <2> QED BY ONLY <2>2, <2>3, <2>5, <2>6, Zenon
<1>6. Sums(r, e, n)
  BY <1>2, <1>4, <1>5 DEF Sums, AddsUp
<1> QED BY <1>6 DEF r, e

(* Chebyshev's sum inequality, by induction on the number of pairs: with   *)
(* no two of the pairs <<x[i], z[i]>> ordered one way by their first and   *)
(* the other way by their second numbers, n times the sum of the products  *)
(* is at least the product of the sums, and more than it if two pairs      *)
(* differ in both.                                                         *)
Agreement(x, z, i, j) == Opposed(x[j], z[j], x[i], z[i])
Agree(x, z, n) == \A i, j \in 1 .. n : Agreement(x, z, i, j) >= 0

(* The sum of Agreement(x, z, i, k) over the first j pairs i. *)
Against(x, z, px, pz, pxz, k, j) == Weighed(j, pxz[j], px[j], pz[j], x[k], z[k])
Spread(px, pz, pxz, k) == Covariance(k, pxz[k], px[k], pz[k])

LEMMA AgainstAll ==
  ASSUME NEW n \in Nat, NEW x \in [1 .. n -> Int], NEW z \in [1 .. n -> Int],
         NEW px, Sums(px, x, n), NEW pz, Sums(pz, z, n), NEW pxz, Sums(pxz, Product(x, z, n), n),
         Agree(x, z, n), NEW k \in 1 .. n
  PROVE  \A j \in 0 .. n :
           /\ Against(x, z, px, pz, pxz, k, j) \in Int
           /\ Against(x, z, px, pz, pxz, k, j) >= 0
           /\ \A i \in 1 .. j : Agreement(x, z, i, k) > 0 => Against(x, z, px, pz, pxz, k, j) > 0
<1> DEFINE A(j) == Against(x, z, px, pz, pxz, k, j)
           T(i) == Agreement(x, z, i, k)
           Positive(j) == \A i \in 1 .. j : T(i) > 0 => A(j) > 0
           S == {j \in Nat : j =< n => A(j) \in Int /\ A(j) >= 0 /\ Positive(j)}
<1>1. x[k] \in Int /\ z[k] \in Int /\ x[k] * z[k] \in Int
  <2>1. x[k] \in Int /\ z[k] \in Int
    OBVIOUS
  <2> QED BY <2>1
<1>2. \A j \in 0 .. n : px[j] \in Int /\ pz[j] \in Int /\ pxz[j] \in Int
  BY DEF Sums
<1>3. \A j \in 0 .. n : A(j) \in Int
  <2> SUFFICES ASSUME NEW j \in 0 .. n PROVE A(j) \in Int
    OBVIOUS
  <2>1. px[j] \in Int /\ pz[j] \in Int /\ pxz[j] \in Int /\ j \in Int
    BY <1>2
  <2>2. A(j) = Weighed(j, pxz[j], px[j], pz[j], x[k], z[k])
    BY DEF Against
  <2>3. /\ px[j] \in Int /\ pz[j] \in Int /\ pxz[j] \in Int /\ j \in Int
        /\ x[k] \in Int /\ z[k] \in Int
    BY <1>1, <2>1
  <2>4. Weighed(j, pxz[j], px[j], pz[j], x[k], z[k]) \in Int
    BY <2>3, WeighedType
  <2> QED BY ONLY <2>2, <2>4, Zenon
<1>4. A(0) = 0
  <2>1. px[0] = 0 /\ pz[0] = 0 /\ pxz[0] = 0
    BY DEF Sums, AddsUp
  <2>2. A(0) = ((0 - x[k] * 0) - z[k] * 0) + 0 * (x[k] * z[k])
    BY <2>1 DEF Against, Weighed
  <2> QED BY <1>1, <2>2
<1>5. ASSUME NEW j \in Nat, j + 1 =< n
      PROVE  A(j + 1) = A(j) + T(j + 1) /\ T(j + 1) \in Int /\ T(j + 1) >= 0
  <2> DEFINE e == x[j + 1]  f == z[j + 1]
  <2>1. j + 1 \in 1 .. n /\ (j + 1) - 1 = j /\ j \in 0 .. n /\ j \in Int
    BY <1>5
  <2>2. e \in Int /\ f \in Int
    BY <2>1
  <2>3. Grows(pxz[j], px[j], pz[j], e, f, pxz[j + 1], px[j + 1], pz[j + 1])
    BY <2>1 DEF Sums, AddsUp, Product, Grows
  <2>4. px[j] \in Int /\ pz[j] \in Int /\ pxz[j] \in Int
    BY <1>2, <2>1
  <2>5. T(j + 1) = Opposed(x[k], z[k], e, f)
    BY DEF Agreement
  <2>6. /\ A(j + 1) = Weighed(j + 1, pxz[j + 1], px[j + 1], pz[j + 1], x[k], z[k])
        /\ A(j) = Weighed(j, pxz[j], px[j], pz[j], x[k], z[k])
    BY DEF Against
  <2> HIDE DEF A, T, e, f
  <2>7. Weighed(j + 1, pxz[j + 1], px[j + 1], pz[j + 1], x[k], z[k])
          = Weighed(j, pxz[j], px[j], pz[j], x[k], z[k]) + Opposed(x[k], z[k], e, f)
    <3>1. /\ j \in Int /\ pxz[j] \in Int /\ px[j] \in Int /\ pz[j] \in Int
          /\ x[k] \in Int /\ z[k] \in Int /\ e \in Int /\ f \in Int
      BY <1>1, <2>1, <2>2, <2>4
    <3> QED BY ONLY <2>3, <3>1, Advances
  <2>8. A(j + 1) = A(j) + T(j + 1)
    BY ONLY <2>5, <2>6, <2>7, Zenon
  <2>9. T(j + 1) \in Int
    BY <1>1, <2>2, <2>5 DEF Opposed
  <2>10. T(j + 1) >= 0
    BY <2>1 DEF Agree, T
  <2> QED BY <2>8, <2>9, <2>10
<1> HIDE DEF A, T
<1>6. 0 \in S
  <2>1. Positive(0)
    OBVIOUS
  <2> HIDE DEF Positive
  <2> QED BY <1>4, <2>1
<1>7. ASSUME NEW j \in Nat, j \in S PROVE j + 1 \in S
  <2>1. SUFFICES ASSUME j + 1 =< n PROVE A(j + 1) \in Int /\ A(j + 1) >= 0 /\ Positive(j + 1)
    OBVIOUS
  <2>2. A(j) \in Int /\ A(j) >= 0 /\ Positive(j)
    BY <1>7, <2>1
  <2>3. A(j + 1) = A(j) + T(j + 1) /\ T(j + 1) \in Int /\ T(j + 1) >= 0
    BY <1>5, <2>1
  <2>4. A(j + 1) \in Int /\ A(j + 1) >= 0
    BY <2>2, <2>3
  <2>5. ASSUME NEW i \in 1 .. j + 1, T(i) > 0 PROVE A(j + 1) > 0
    <3>1. CASE i = j + 1
      BY <2>2, <2>3, <2>5, <3>1
    <3>2. CASE i \in 1 .. j
      <4>1. A(j) > 0
        BY <2>2, <2>5, <3>2
      <4> QED BY <2>2, <2>3, <4>1
    <3> QED BY <3>1, <3>2
  <2> QED BY <2>4, <2>5
<1>8. Nat \subseteq S
  <2> HIDE DEF S
  <2> QED BY <1>6, <1>7, NatSetInduction
<1>9. ASSUME NEW j \in 0 .. n PROVE A(j) \in Int /\ A(j) >= 0 /\ Positive(j)
  BY <1>8
<1> QED BY <1>9 DEF A, T

LEMMA Chebyshev ==
  ASSUME NEW n \in Nat, NEW x \in [1 .. n -> Int], NEW z \in [1 .. n -> Int],
         NEW px, Sums(px, x, n), NEW pz, Sums(pz, z, n), NEW pxz, Sums(pxz, Product(x, z, n), n),
         Agree(x, z, n)
  PROVE  /\ Spread(px, pz, pxz, n) >= 0
         /\ \A i, j \in 1 .. n : Agreement(x, z, i, j) > 0 => Spread(px, pz, pxz, n) > 0
<1> DEFINE G(k) == Spread(px, pz, pxz, k)
           T(i, j) == Agreement(x, z, i, j)
           A(k, j) == Against(x, z, px, pz, pxz, k, j)
           Positive(k) == \A i, j \in 1 .. k : T(i, j) > 0 => G(k) > 0
           S == {k \in Nat : k =< n => G(k) \in Int /\ G(k) >= 0 /\ Positive(k)}
<1>1. \A k \in 1 .. n : \A j \in 0 .. n :
        A(k, j) \in Int /\ A(k, j) >= 0 /\ \A i \in 1 .. j : T(i, k) > 0 => A(k, j) > 0
  BY AgainstAll
<1>2. \A i, j \in 1 .. n : T(i, j) = T(j, i) /\ T(i, i) = 0
  <2> SUFFICES ASSUME NEW i \in 1 .. n, NEW j \in 1 .. n PROVE T(i, j) = T(j, i) /\ T(i, i) = 0
    OBVIOUS
  <2>1. x[i] \in Int /\ z[i] \in Int /\ x[j] \in Int /\ z[j] \in Int
    OBVIOUS
  <2>2. /\ T(i, j) = (x[j] - x[i]) * (z[j] - z[i]) /\ T(j, i) = (x[i] - x[j]) * (z[i] - z[j])
        /\ T(i, i) = (x[i] - x[i]) * (z[i] - z[i])
    BY DEF Agreement, Opposed
  <2> QED BY <2>1, <2>2
<1>3. \A k \in 0 .. n : G(k) \in Int
  <2> SUFFICES ASSUME NEW k \in 0 .. n PROVE G(k) \in Int
    OBVIOUS
  <2>1. px[k] \in Int /\ pz[k] \in Int /\ pxz[k] \in Int /\ k \in Int
    BY DEF Sums
  <2> QED BY <2>1 DEF Spread, Covariance
<1>4. G(0) = 0
  <2>1. px[0] = 0 /\ pz[0] = 0 /\ pxz[0] = 0
    BY DEF Sums, AddsUp
  <2>2. G(0) = 0 * 0 - 0 * 0
    BY <2>1 DEF Spread, Covariance
  <2> QED BY <2>2
<1>5. ASSUME NEW k \in Nat, k + 1 =< n PROVE G(k + 1) = G(k) + A(k + 1, k)
  <2> DEFINE e == x[k + 1]  f == z[k + 1]
  <2>1. k + 1 \in 1 .. n /\ (k + 1) - 1 = k /\ k \in 0 .. n /\ k \in Int
    BY <1>5
  <2>2. e \in Int /\ f \in Int
    BY <2>1
  <2>3. Grows(pxz[k], px[k], pz[k], e, f, pxz[k + 1], px[k + 1], pz[k + 1])
    BY <2>1 DEF Sums, AddsUp, Product, Grows
  <2>4. px[k] \in Int /\ pz[k] \in Int /\ pxz[k] \in Int
    BY <2>1 DEF Sums
  <2>5. /\ G(k + 1) = Covariance(k + 1, pxz[k + 1], px[k + 1], pz[k + 1])
        /\ G(k) = Covariance(k, pxz[k], px[k], pz[k])
    BY DEF Spread
  <2>6. A(k + 1, k) = Weighed(k, pxz[k], px[k], pz[k], e, f)
    BY DEF Against
  <2> HIDE DEF A, G, e, f
  <2>7. Covariance(k + 1, pxz[k + 1], px[k + 1], pz[k + 1])
          = Covariance(k, pxz[k], px[k], pz[k]) + Weighed(k, pxz[k], px[k], pz[k], e, f)
    <3>1. /\ k \in Int /\ pxz[k] \in Int /\ px[k] \in Int /\ pz[k] \in Int /\ e \in Int /\ f \in Int
      BY <2>1, <2>2, <2>4
    <3> QED BY ONLY <2>3, <3>1, Spreads
  <2> QED BY ONLY <2>5, <2>6, <2>7, Zenon
<1> HIDE DEF A, G, T
<1>6. 0 \in S
  <2>1. Positive(0)
    OBVIOUS
  <2> HIDE DEF Positive
  <2> QED BY <1>4, <2>1
<1>7. ASSUME NEW k \in Nat, k \in S PROVE k + 1 \in S
  <2>1. SUFFICES ASSUME k + 1 =< n PROVE G(k + 1) \in Int /\ G(k + 1) >= 0 /\ Positive(k + 1)
    OBVIOUS
  <2>2. G(k) \in Int /\ G(k) >= 0 /\ Positive(k)
    BY <1>7, <2>1
  <2>3. k + 1 \in 1 .. n /\ k \in 0 .. n
    BY <2>1
  <2>4. /\ A(k + 1, k) \in Int /\ A(k + 1, k) >= 0
        /\ \A i \in 1 .. k : T(i, k + 1) > 0 => A(k + 1, k) > 0
    BY <1>1, <2>3
  <2>5. G(k + 1) = G(k) + A(k + 1, k)
    BY <1>5, <2>1
  <2>6. G(k + 1) \in Int /\ G(k + 1) >= 0
    BY <2>2, <2>4, <2>5
  <2>7. ASSUME NEW i \in 1 .. k, T(i, k + 1) > 0 PROVE G(k + 1) > 0
    <3>1. A(k + 1, k) > 0
      BY <2>4, <2>7
    <3> QED BY <2>2, <2>4, <2>5, <3>1
  <2>8. ASSUME NEW i \in 1 .. k + 1, NEW j \in 1 .. k + 1, T(i, j) > 0 PROVE G(k + 1) > 0
    <3>1. CASE i \in 1 .. k /\ j \in 1 .. k
      <4>1. G(k) > 0
        BY <2>2, <2>8, <3>1
      <4> QED BY <2>2, <2>4, <2>5, <4>1
    <3>2. CASE i \in 1 .. k /\ j = k + 1
      BY <2>7, <2>8, <3>2
    <3>3. CASE i = k + 1 /\ j \in 1 .. k
      <4>1. j \in 1 .. n /\ i \in 1 .. n
        BY <2>3, <3>3
      <4>2. T(j, k + 1) > 0
        BY <1>2, <2>8, <3>3, <4>1
      <4> QED BY <2>7, <3>3, <4>2
    <3>4. CASE i = k + 1 /\ j = k + 1
      <4>1. T(i, j) = 0
        BY <1>2, <2>3, <3>4
      <4> QED BY <2>8, <4>1
    <3> QED BY <3>1, <3>2, <3>3, <3>4
  <2> QED BY <2>6, <2>8
<1>8. n \in S
  <2> HIDE DEF S
  <2> QED BY <1>6, <1>7, NatSetInduction
<1> QED BY <1>8 DEF G, T

(* The fitted line of s, weighed with c and d: if c times the values plus  *)
(* d times the minutes never falls from a reading to a later one, then     *)
(* c times the numerator plus d times the denominator of its slope is not  *)
(* negative, and positive if it rises between two of them.                 *)
Mixed(s, c, d) == [i \in 1 .. Len(s) |-> c * Values(s)[i] + d * Minutes(s)[i]]

LEMMA ReadingsOf ==
  ASSUME NEW s \in Seq(Readings)
  PROVE  Len(s) \in Nat /\ \A i \in 1 .. Len(s) : s[i].ts \in Int /\ s[i].value \in Int
<1>1. Len(s) \in Nat
  BY LenProperties
<1>2. ASSUME NEW i \in 1 .. Len(s) PROVE s[i].ts \in Int /\ s[i].value \in Int
  <2>1. s[i] \in Readings
    BY <1>1, ElementOfSeq
  <2>2. s[i] \in [value : Int, ts : Nat \ {0}]
    BY <2>1, ReadingsAreStamped
  <2> QED BY <2>2
<1> QED BY <1>1, <1>2

LEMMA FitWeighed ==
  ASSUME NEW s \in Seq(Readings), NEW c \in Int, NEW d \in Int,
         Agree(Minutes(s), Mixed(s, c, d), Len(s))
  PROVE  /\ Slope(s).num \in Int /\ Slope(s).den \in Int
         /\ c * Slope(s).num + d * Slope(s).den >= 0
         /\ \A i, j \in 1 .. Len(s) :
              Agreement(Minutes(s), Mixed(s, c, d), i, j) > 0
                => c * Slope(s).num + d * Slope(s).den > 0
<1> DEFINE n == Len(s)
           x == Minutes(s)
           y == Values(s)
           z == Mixed(s, c, d)
<1>1. n \in Nat /\ \A i \in 1 .. n : s[i].ts \in Int /\ s[i].value \in Int
  BY ReadingsOf
<1>2. x \in [1 .. n -> Int] /\ y \in [1 .. n -> Int]
  BY <1>1 DEF Minutes, Values
<1>3. z = [i \in 1 .. n |-> c * y[i] + d * x[i]] /\ z \in [1 .. n -> Int]
  BY <1>2 DEF Mixed
<1> DEFINE xx == Product(x, x, n)
           xy == Product(x, y, n)
<1>4. xx \in [1 .. n -> Int] /\ xy \in [1 .. n -> Int]
  BY <1>2 DEF Product
<1>5. Slope(s).num = n * Total(xy, n) - Total(x, n) * Total(y, n)
  BY DEF Slope
<1>6. Slope(s).den = n * Total(xx, n) - Total(x, n) * Total(x, n)
  BY DEF Slope
<1>7. Product(x, z, n) = [i \in 1 .. n |-> c * xy[i] + d * xx[i]]
  <2>1. ASSUME NEW i \in 1 .. n PROVE x[i] * z[i] = c * (x[i] * y[i]) + d * (x[i] * x[i])
    <3>1. x[i] \in Int /\ y[i] \in Int /\ z[i] = c * y[i] + d * x[i]
      BY <1>2, <1>3
    <3> HIDE DEF x, y, z
    <3> QED BY ONLY <3>1, c \in Int, d \in Int
  <2>2. \A i \in 1 .. n : xy[i] = x[i] * y[i] /\ xx[i] = x[i] * x[i]
    BY DEF Product
  <2> HIDE DEF x, y, z, xx, xy
  <2> QED BY <2>1, <2>2 DEF Product
<1> HIDE DEF n, x, y, z, xx, xy
<1>8. PICK px : Sums(px, x, n)
  BY <1>1, <1>2, SumsExist
<1>9. PICK py : Sums(py, y, n)
  BY <1>1, <1>2, SumsExist
<1>10. PICK pxx : Sums(pxx, xx, n)
  BY <1>1, <1>4, SumsExist
<1>11. PICK pxy : Sums(pxy, xy, n)
  BY <1>1, <1>4, SumsExist
<1> DEFINE pz == [k \in 0 .. n |-> c * py[k] + d * px[k]]
           pxz == [k \in 0 .. n |-> c * pxy[k] + d * pxx[k]]
<1>12. Sums(pz, z, n)
  <2>1. Sums(pz, [i \in 1 .. n |-> c * y[i] + d * x[i]], n)
    BY <1>1, <1>2, <1>8, <1>9, LinearSums
  <2> QED BY ONLY <1>3, <2>1, Zenon
<1>13. Sums(pxz, Product(x, z, n), n)
  <2>1. Sums(pxz, [i \in 1 .. n |-> c * xy[i] + d * xx[i]], n)
    BY <1>1, <1>4, <1>10, <1>11, LinearSums
  <2> QED BY ONLY <1>7, <2>1, Zenon
<1>14. pz[n] = Blend(c, py[n], d, px[n]) /\ pxz[n] = Blend(c, pxy[n], d, pxx[n])
  <2>1. n \in 0 .. n
    BY <1>1
  <2> QED BY <2>1 DEF Blend
<1> HIDE DEF pz, pxz
<1>15. /\ Total(x, n) = px[n] /\ Total(y, n) = py[n]
       /\ Total(xx, n) = pxx[n] /\ Total(xy, n) = pxy[n]
  BY <1>1, <1>2, <1>4, <1>8, <1>9, <1>10, <1>11, TotalIsSum
<1>16. px[n] \in Int /\ py[n] \in Int /\ pxx[n] \in Int /\ pxy[n] \in Int /\ n \in Int
  BY <1>1, <1>8, <1>9, <1>10, <1>11 DEF Sums
<1>17. /\ Slope(s).num = Covariance(n, pxy[n], px[n], py[n])
       /\ Slope(s).den = Covariance(n, pxx[n], px[n], px[n])
  BY <1>5, <1>6, <1>15 DEF Covariance
<1>18. Spread(px, pz, pxz, n) = c * Slope(s).num + d * Slope(s).den
  <2>1. Spread(px, pz, pxz, n)
          = Covariance(n, Blend(c, pxy[n], d, pxx[n]), px[n], Blend(c, py[n], d, px[n]))
    BY <1>14 DEF Spread
  <2>2. @ = Blend(c, Covariance(n, pxy[n], px[n], py[n]), d, Covariance(n, pxx[n], px[n], px[n]))
    <3>1. Integers7(n, c, d, pxy[n], pxx[n], px[n], py[n])
      BY <1>16 DEF Integers7
    <3> QED BY <3>1, Mixes
  <2>3. @ = Blend(c, Slope(s).num, d, Slope(s).den)
    BY <1>17
  <2> QED BY <2>1, <2>2, <2>3 DEF Blend
<1>19. Slope(s).num \in Int /\ Slope(s).den \in Int
  <2>1. \A u, v \in Int : Covariance(n, u, px[n], v) \in Int
    BY <1>16, CovarianceType
  <2>2. Covariance(n, pxy[n], px[n], py[n]) \in Int /\ Covariance(n, pxx[n], px[n], px[n]) \in Int
    BY <1>16, <2>1
  <2> QED BY ONLY <1>17, <2>2, Zenon
<1>20. Agree(x, z, n)
  BY DEF n, x, z
<1>21. /\ Spread(px, pz, pxz, n) >= 0
       /\ \A i, j \in 1 .. n : Agreement(x, z, i, j) > 0 => Spread(px, pz, pxz, n) > 0
  BY <1>1, <1>2, <1>3, <1>8, <1>12, <1>13, <1>20, Chebyshev
<1> QED BY <1>18, <1>19, <1>21 DEF n, x, z

(* What c times the values plus d times the minutes gains from reading i   *)
(* to reading j of s.                                                      *)
Gain(s, c, d, i, j) == c * (s[j].value - s[i].value) + d * (s[j].ts - s[i].ts)

LEMMA GainIs ==
  ASSUME NEW c, NEW d, NEW p, NEW q, NEW t, NEW u, NEW v, Integers7(c, d, p, q, t, u, v)
  PROVE  (c * q + d * (v - t)) - (c * p + d * (u - t)) = c * (q - p) + d * (v - u)
BY DEF Integers7

Opposite(c, d, p, q, u, v) ==
  c * (p - q) + d * (u - v) = -(c * (q - p) + d * (v - u))

LEMMA OppositeGains ==
  ASSUME NEW c \in Int, NEW d \in Int, NEW p \in Int, NEW q \in Int, NEW u \in Int, NEW v \in Int
  PROVE  Opposite(c, d, p, q, u, v)
BY DEF Opposite

LEMMA SignOfProduct ==
  ASSUME NEW u \in Int, NEW v \in Int, u # 0 => (u > 0 /\ v >= 0) \/ (u < 0 /\ v =< 0)
  PROVE  u * v >= 0 /\ (u > 0 /\ v > 0 => u * v > 0)
<1>1. CASE u = 0
  BY <1>1
<1>2. CASE u > 0 /\ v >= 0
  BY <1>2
<1>3. CASE u < 0 /\ v =< 0
  BY <1>3
<1> QED BY <1>1, <1>2, <1>3

LEMMA RisingAgrees ==
  ASSUME NEW s \in Seq(Readings), NEW c \in Int, NEW d \in Int,
         \A i, j \in 1 .. Len(s) : Later(s, i, j) => Gain(s, c, d, i, j) >= 0
  PROVE  /\ Agree(Minutes(s), Mixed(s, c, d), Len(s))
         /\ \A i, j \in 1 .. Len(s) : Later(s, i, j) /\ Gain(s, c, d, i, j) > 0
              => Agreement(Minutes(s), Mixed(s, c, d), i, j) > 0
<1> DEFINE n == Len(s)
           x == Minutes(s)
           z == Mixed(s, c, d)
<1>1. n \in Nat /\ \A i \in 1 .. n : s[i].ts \in Int /\ s[i].value \in Int
  BY ReadingsOf
<1>2. SUFFICES ASSUME NEW i \in 1 .. n, NEW j \in 1 .. n
      PROVE  /\ Agreement(x, z, i, j) >= 0
             /\ Later(s, i, j) /\ Gain(s, c, d, i, j) > 0 => Agreement(x, z, i, j) > 0
  BY DEF Agree
<1>3. 1 \in 1 .. n
  BY <1>1
<1>4. /\ s[i].ts \in Int /\ s[i].value \in Int /\ s[j].ts \in Int /\ s[j].value \in Int
      /\ s[1].ts \in Int
  BY <1>1, <1>3
<1> DEFINE u == s[j].ts - s[i].ts
           v == Gain(s, c, d, i, j)
<1>5. x[j] - x[i] = u
  <2>1. x[i] = s[i].ts - s[1].ts /\ x[j] = s[j].ts - s[1].ts
    BY DEF Minutes
  <2> HIDE DEF x
  <2> QED BY <1>4, <2>1
<1>6. z[j] - z[i] = v
  <2>1. /\ z[i] = c * s[i].value + d * (s[i].ts - s[1].ts)
        /\ z[j] = c * s[j].value + d * (s[j].ts - s[1].ts)
    BY DEF Mixed, Minutes, Values
  <2>2. Integers7(c, d, s[i].value, s[j].value, s[1].ts, s[i].ts, s[j].ts)
    BY <1>4 DEF Integers7
  <2>3. (c * s[j].value + d * (s[j].ts - s[1].ts)) - (c * s[i].value + d * (s[i].ts - s[1].ts))
          = c * (s[j].value - s[i].value) + d * (s[j].ts - s[i].ts)
    BY <2>2, GainIs
  <2> HIDE DEF z
  <2> QED BY <2>1, <2>3 DEF Gain
<1>7. u \in Int /\ v \in Int
  <2>1. u \in Int /\ s[j].value - s[i].value \in Int
    BY <1>4
  <2>2. v = c * (s[j].value - s[i].value) + d * u
    BY DEF Gain
  <2> HIDE DEF u, v
  <2>3. c * (s[j].value - s[i].value) \in Int /\ d * u \in Int
    BY ONLY <2>1, c \in Int, d \in Int
  <2> QED BY <2>1, <2>2, <2>3
<1>8. u > 0 => v >= 0
  BY <1>2, <1>4 DEF Later
<1>9. u < 0 => v =< 0
  <2>1. Gain(s, c, d, j, i) = -v
    <3>1. Opposite(c, d, s[i].value, s[j].value, s[i].ts, s[j].ts)
      BY <1>4, OppositeGains
    <3> QED BY <3>1 DEF Opposite, Gain
  <2>2. u < 0 => Gain(s, c, d, j, i) >= 0
    BY <1>2, <1>4 DEF Later
  <2> HIDE DEF u, v
  <2> QED BY <1>7, <2>1, <2>2
<1>10. Agreement(x, z, i, j) = u * v
  BY <1>5, <1>6 DEF Agreement, Opposed
<1>11. Later(s, i, j) => u > 0
  BY <1>4 DEF Later
<1> HIDE DEF u, v, x, z
<1>12. u * v >= 0 /\ (u > 0 /\ v > 0 => u * v > 0)
  BY <1>7, <1>8, <1>9, SignOfProduct
<1> QED BY <1>10, <1>11, <1>12 DEF v

LEMMA NegatedFactor ==
  \A a, b \in Int : (-a) * b = -(a * b)
OBVIOUS

(* What the readings say, the fitted line says. *)
LEMMA LineIsFair ==
  ASSUME NEW s \in Seq(Readings)
  PROVE  LET pairs == {w \in (DOMAIN s) \X (DOMAIN s) : Later(s, w[1], w[2])}
         IN  /\ DropHit(s) => \E w \in pairs : FellTooFast(s, w[1], w[2])
             /\ pairs # {} /\ (\A w \in pairs : FellTooFast(s, w[1], w[2])) => DropHit(s)
<1> DEFINE pairs == {w \in (DOMAIN s) \X (DOMAIN s) : Later(s, w[1], w[2])}
           n == Len(s)
           num == Slope(s).num
           den == Slope(s).den
<1>1. n \in Nat /\ DOMAIN s = 1 .. n /\ \A i \in 1 .. n : s[i].ts \in Int /\ s[i].value \in Int
  BY ReadingsOf, LenProperties
<1>2. DropMax \in Int /\ -DropMax \in Int /\ DropMax > 0
  BY LeakConstantsOK
<1>3. \A i, j \in 1 .. n : Later(s, i, j) => <<i, j>> \in pairs
  BY <1>1
<1>4. \A w \in pairs : w[1] \in 1 .. n /\ w[2] \in 1 .. n /\ Later(s, w[1], w[2])
  BY <1>1
<1> HIDE DEF pairs
<1>5. DropHit(s) <=> n >= 2 /\ den # 0 /\ -num > DropMax * den
  BY DEF DropHit
<1>6. ASSUME DropHit(s), \A w \in pairs : ~FellTooFast(s, w[1], w[2]) PROVE FALSE
  <2>1. ASSUME NEW i \in 1 .. n, NEW j \in 1 .. n, Later(s, i, j) PROVE Gain(s, 1, DropMax, i, j) >= 0
    <3>1. ~FellTooFast(s, i, j)
      <4>1. <<i, j>> \in pairs
        BY <1>3, <2>1
      <4> QED BY <1>6, <4>1
    <3>2. /\ s[i].ts \in Int /\ s[i].value \in Int /\ s[j].ts \in Int /\ s[j].value \in Int
      BY <1>1
    <3> DEFINE g == DropMax * (s[j].ts - s[i].ts)
    <3>3. g \in Int
      BY <1>2, <3>2
    <3>4. ~(s[i].value - s[j].value > g)
      BY <3>1 DEF FellTooFast
    <3>5. Gain(s, 1, DropMax, i, j) = 1 * (s[j].value - s[i].value) + g
      BY DEF Gain
    <3> HIDE DEF g
    <3> QED BY <3>2, <3>3, <3>4, <3>5
  <2>2. Agree(Minutes(s), Mixed(s, 1, DropMax), n)
    BY <1>2, <2>1, RisingAgrees
  <2>3. num \in Int /\ den \in Int /\ 1 * num + DropMax * den >= 0
    BY <1>2, <2>2, FitWeighed
  <2>4. -num > DropMax * den
    BY <1>5, <1>6
  <2> HIDE DEF num, den
  <2>5. DropMax * den \in Int
    BY <1>2, <2>3
  <2> QED BY <2>3, <2>4, <2>5
<1>7. ASSUME pairs # {}, \A w \in pairs : FellTooFast(s, w[1], w[2]) PROVE DropHit(s)
  <2>1. PICK i \in 1 .. n, j \in 1 .. n : Later(s, i, j)
    BY <1>4, <1>7
  <2>2. n >= 2
    <3>1. i # j
      BY <1>1, <2>1 DEF Later
    <3> QED BY <1>1, <3>1
  <2>3. ASSUME NEW k \in 1 .. n, NEW m \in 1 .. n, Later(s, k, m)
        PROVE  /\ Gain(s, -1, -DropMax, k, m) > 0 /\ Gain(s, -1, -DropMax, k, m) >= 0
               /\ Gain(s, 0, 1, k, m) > 0 /\ Gain(s, 0, 1, k, m) >= 0
    <3>1. FellTooFast(s, k, m)
      <4>1. <<k, m>> \in pairs
        BY <1>3, <2>3
      <4> QED BY <1>7, <4>1
    <3>2. /\ s[k].ts \in Int /\ s[k].value \in Int /\ s[m].ts \in Int /\ s[m].value \in Int
      BY <1>1
    <3> DEFINE g == DropMax * (s[m].ts - s[k].ts)
    <3>3. g \in Int
      BY <1>2, <3>2
    <3>4. s[k].value - s[m].value > g
      BY <3>1 DEF FellTooFast
    <3>5. Gain(s, -1, -DropMax, k, m) = (-1) * (s[m].value - s[k].value) - g
      <4>1. Gain(s, -1, -DropMax, k, m) = (-1) * (s[m].value - s[k].value) + (-DropMax) * (s[m].ts - s[k].ts)
        BY DEF Gain
      <4>2. (-DropMax) * (s[m].ts - s[k].ts) = -g
        <5>1. DropMax \in Int /\ s[m].ts - s[k].ts \in Int
          BY <1>2, <3>2
        <5> QED BY ONLY <5>1, NegatedFactor DEF g
      <4> HIDE DEF g
      <4> QED BY <3>2, <3>3, <4>1, <4>2
    <3>6. Gain(s, 0, 1, k, m) > 0 /\ Gain(s, 0, 1, k, m) >= 0
      <4>1. Gain(s, 0, 1, k, m) = 0 * (s[m].value - s[k].value) + 1 * (s[m].ts - s[k].ts)
        BY DEF Gain
      <4>2. s[k].ts < s[m].ts
        BY <2>3 DEF Later
      <4>3. 0 * (s[m].value - s[k].value) = 0 /\ 1 * (s[m].ts - s[k].ts) = s[m].ts - s[k].ts
        BY <3>2
      <4>4. s[m].ts - s[k].ts > 0 /\ s[m].ts - s[k].ts \in Int
        BY <3>2, <4>2
      <4> QED BY ONLY <4>1, <4>3, <4>4
    <3> HIDE DEF g
    <3> QED BY <3>2, <3>3, <3>4, <3>5, <3>6
  <2>4. /\ \A k, m \in 1 .. n : Later(s, k, m) => Gain(s, -1, -DropMax, k, m) >= 0
        /\ \A k, m \in 1 .. n : Later(s, k, m) => Gain(s, 0, 1, k, m) >= 0
    BY <2>3
  <2>5. /\ Agree(Minutes(s), Mixed(s, -1, -DropMax), n)
        /\ Agreement(Minutes(s), Mixed(s, -1, -DropMax), i, j) > 0
    BY <1>2, <2>1, <2>3, <2>4, RisingAgrees
  <2>6. /\ Agree(Minutes(s), Mixed(s, 0, 1), n)
        /\ Agreement(Minutes(s), Mixed(s, 0, 1), i, j) > 0
    BY <2>1, <2>3, <2>4, RisingAgrees
  <2>7. num \in Int /\ den \in Int /\ (-1) * num + (-DropMax) * den > 0
    BY <1>2, <2>5, FitWeighed
  <2>8. 0 * num + 1 * den > 0
    BY <2>6, FitWeighed
  <2> HIDE DEF num, den
  <2>9. DropMax * den \in Int /\ (-DropMax) * den = -(DropMax * den)
    BY <1>2, <2>7, NegatedFactor
  <2>10. den # 0 /\ -num > DropMax * den
    BY <2>7, <2>8, <2>9
  <2> QED BY <1>5, <2>2, <2>10 DEF num, den
<1>8. /\ DropHit(s) => \E w \in pairs : FellTooFast(s, w[1], w[2])
      /\ pairs # {} /\ (\A w \in pairs : FellTooFast(s, w[1], w[2])) => DropHit(s)
  BY <1>6, <1>7
<1> QED BY <1>8 DEF pairs

(***************************************************************************)
(* An alert for a drop has two readings between which the pressure fell    *)
(* that fast, and if it did between every two of different times there is  *)
(* one, whatever the number of readings and the order they arrived in: the *)
(* regression of regressionSlopeMPaPerMin neither invents a drop nor       *)
(* averages one away that all the readings show.                           *)
(***************************************************************************)
THEOREM DropsJudgedRight == Spec => []DropsAreReal
<1>1. ASSUME WindowInv PROVE DropsAreReal
  <2>1. ASSUME NEW h \in Handlers PROVE req[h].upstream \in Seq(Readings)
    BY <1>1 DEF WindowInv, AnalysisOK, CopyOK
  <2> QED BY <2>1, LineIsFair DEF DropsAreReal
<1> QED BY <1>1, WindowInit, WindowNext, PTL DEF Spec

-----------------------------------------------------------------------------
(***************************************************************************)
(* The audit log.                                                          *)
(***************************************************************************)
LEMMA DivBound == ASSUME NEW n \in Nat, NEW s \in Nat \ {0} PROVE n \div s \in 0 .. n
<1> DEFINE q == n \div s
<1>1. q \in Int /\ n = s * q + (n % s) /\ n % s \in 0 .. s - 1
  OBVIOUS
<1> HIDE DEF q
<1>2. ASSUME q < 0 PROVE FALSE
  <2>1. PICK m \in Nat : q = -1 - m
    BY <1>1, <1>2, -1 - q \in Nat
  <2>2. s * q = -s - s * m /\ s * m \in Nat
    BY <2>1
  <2>. QED
    BY <1>1, <2>2
<1>3. ASSUME q > n PROVE FALSE
  <2>1. PICK t \in Nat : s = t + 1
    BY s - 1 \in Nat
  <2>2. s * q = q + t * q /\ t * q \in Nat
    BY <1>1, <1>3, <2>1
  <2>. QED
    BY <1>1, <1>3, <2>2
<1>. QED
  BY <1>1, <1>2, <1>3 DEF q

LEMMA DroppedBound == ASSUME NEW n \in Nat \ {0} PROVE Dropped(n) \in 1 .. n
  BY DivBound, RetentionOK DEF Dropped

(* What an append does to the log: k entries leave at the front. *)
LEMMA AppendedLog ==
  ASSUME NEW S, log \in Seq(S), NEW e, AppendEntry(e), [id |-> appended + 1, entry |-> e] \in S
  PROVE  \E k \in 0 .. Len(log) :
           /\ k = IF IsFull THEN Dropped(Len(log)) ELSE 0
           /\ log' \in Seq(S)
           /\ Len(log') = Len(log) - k + 1
           /\ \A i \in 1 .. Len(log) - k : log'[i] = log[i + k]
           /\ log'[Len(log')] = [id |-> appended + 1, entry |-> e]
<1> DEFINE item == [id |-> appended + 1, entry |-> e]
<1> HIDE DEF item
<1>1. item \in S /\ Len(log) \in Nat
  BY DEF item
<1>2. CASE IsFull
  <2>1. Dropped(Len(log)) \in 1 .. Len(log)
    BY <1>1, <1>2, DroppedBound, RetentionOK DEF IsFull
  <2>2. PICK k \in 1 .. Len(log) : k = Dropped(Len(log))
    BY <2>1
  <2>3. log' = Append(SubSeq(log, k + 1, Len(log)), item)
    BY <1>2, <2>2 DEF AppendEntry, item
  <2>4. /\ SubSeq(log, k + 1, Len(log)) \in Seq(S)
        /\ Len(SubSeq(log, k + 1, Len(log))) = Len(log) - k
        /\ \A i \in 1 .. Len(log) - k : SubSeq(log, k + 1, Len(log))[i] = log[i + k]
    BY <1>1, <2>2
  <2>5. PICK t : t = SubSeq(log, k + 1, Len(log))
    OBVIOUS
  <2>6. /\ log' \in Seq(S) /\ Len(log') = Len(log) - k + 1
        /\ \A i \in 1 .. Len(log) - k : log'[i] = log[i + k]
        /\ log'[Len(log')] = item
    BY <1>1, <2>2, <2>3, <2>4, <2>5
  <2>7. k \in 0 .. Len(log)
    BY <1>1, <2>2
  <2>. WITNESS k \in 0 .. Len(log)
  <2>. QED
    BY <1>2, <2>2, <2>6 DEF item
<1>3. CASE ~IsFull
  <2>1. log' = Append(log, item)
    BY <1>3 DEF AppendEntry, item
  <2>2. /\ log' \in Seq(S) /\ Len(log') = Len(log) + 1
        /\ \A i \in 1 .. Len(log) : log'[i] = log[i]
        /\ log'[Len(log')] = item
    BY <1>1, <2>1
  <2>. QED
    BY <1>1, <1>3, <2>2 DEF item
<1>. QED
  BY <1>2, <1>3

-----------------------------------------------------------------------------
(* The types of the trail, and what a request holds at each step. *)
Action == DeviceState \cup Switch \cup {"upsert", "none"}

Item == [id : Nat, entry : [target : Things, action : Action, ts : Nat]]

CallRecord ==
  [step : {"free", "write", "stamp", "append"}, target : Things \cup {None}, action : Action,
   ts : Nat]

TrailTypes ==
  /\ devices \in [Valves \cup Compressors -> DeviceState \cup {"none"}]
  /\ enabled \in [Sensors -> Switch \cup {"none"}]
  /\ log \in Seq(Item)
  /\ appended \in Nat
  /\ now \in Nat
  /\ calls \in [Callers -> CallRecord]

CallsOK ==
  \A h \in Callers :
    /\ calls[h].step # "free" => calls[h].target \in Things
    /\ calls[h].step = "free" => calls[h].target = None
    /\ calls[h].step = "write" =>
         calls[h].target \in Valves \cup Compressors /\ calls[h].action \in DeviceState

(* Nobody shares a thing that clients handle one request at a time. *)
OneCall == \A g, h \in Callers : calls[g].target \in Alone /\ calls[g].target = calls[h].target => g = h

TrailTyping == TrailTypes /\ CallsOK /\ OneCall

LEMMA InitTrailTyping == TrailInit => TrailTyping
  BY TrailConstantsOK
  DEF TrailInit, DeviceInit, LogInit, Free, TrailTyping, TrailTypes, CallsOK, OneCall, CallRecord,
      Action, Things

(* The steps of a request, by what they do to its local variables. *)
LEMMA CallTyping ==
  ASSUME TrailTyping, NEW h \in Callers, NEW x \in Things, NEW step \in {"write", "stamp"},
         NEW action \in Action, Call(h, x, step, action),
         step = "write" => x \in Valves \cup Compressors /\ action \in DeviceState
  PROVE  calls' \in [Callers -> CallRecord] /\ CallsOK' /\ OneCall'
<1>1. calls' = [calls EXCEPT ![h] = [step |-> step, target |-> x, action |-> action, ts |-> 0]]
  BY DEF Call
<1>2. calls' \in [Callers -> CallRecord] /\ CallsOK'
  BY <1>1 DEF TrailTyping, TrailTypes, CallsOK, CallRecord
<1>3. OneCall'
  BY <1>1 DEF Call, MayTouch, TrailTyping, TrailTypes, OneCall
<1>. QED
  BY <1>2, <1>3

LEMMA NextTrailTyping == TrailTyping /\ [TrailNext]_trailVars => TrailTyping'
<1> SUFFICES ASSUME TrailTyping, [TrailNext]_trailVars PROVE TrailTyping'
  OBVIOUS
<1>1. ASSUME NEW h \in Callers, NEW d \in Valves \cup Compressors, NEW s \in StatesOf(d),
             ChangeRead(h, d, s) \/ UpsertDevice(h, d, s)
      PROVE  TrailTyping'
  <2>1. s \in DeviceState /\ s \in Action /\ "upsert" \in Action /\ d \in Things
    BY DEF StatesOf, DeviceState, Action, Things
  <2>2. devices' \in [Valves \cup Compressors -> DeviceState \cup {"none"}]
    BY <1>1, <2>1 DEF ChangeRead, UpsertDevice, WriteDevice, TrailTyping, TrailTypes
  <2>3. calls' \in [Callers -> CallRecord] /\ CallsOK' /\ OneCall'
    BY <1>1, <2>1, CallTyping DEF ChangeRead, UpsertDevice
  <2>. QED
    BY <1>1, <2>2, <2>3 DEF ChangeRead, UpsertDevice, TrailTyping, TrailTypes
<1>2. ASSUME NEW h \in Callers, NEW p \in Sensors, NEW s \in Switch,
             UpsertPoint(h, p, s) \/ TogglePoint(h, p, s)
      PROVE  TrailTyping'
  <2>1. s \in Action /\ "upsert" \in Action /\ p \in Things
    BY DEF Action, Things
  <2>2. enabled' \in [Sensors -> Switch \cup {"none"}]
    BY <1>2 DEF UpsertPoint, TogglePoint, WritePoint, TrailTyping, TrailTypes
  <2>3. calls' \in [Callers -> CallRecord] /\ CallsOK' /\ OneCall'
    BY <1>2, <2>1, CallTyping DEF UpsertPoint, TogglePoint
  <2>. QED
    BY <1>2, <2>2, <2>3 DEF UpsertPoint, TogglePoint, TrailTyping, TrailTypes
<1>3. ASSUME NEW h \in Callers, ChangeWrite(h)
      PROVE  TrailTyping'
  <2>1. devices' \in [Valves \cup Compressors -> DeviceState \cup {"none"}]
    BY <1>3 DEF ChangeWrite, WriteDevice, TrailTyping, TrailTypes, CallsOK
  <2>2. calls' \in [Callers -> CallRecord] /\ CallsOK' /\ OneCall'
    BY <1>3 DEF ChangeWrite, TrailTyping, TrailTypes, CallsOK, OneCall, CallRecord
  <2>. QED
    BY <1>3, <2>1, <2>2 DEF ChangeWrite, TrailTyping, TrailTypes
<1>4. ASSUME NEW h \in Callers, RecordStamp(h)
      PROVE  TrailTyping'
  <2>1. calls' \in [Callers -> CallRecord]
    BY <1>4 DEF RecordStamp, TrailTyping, TrailTypes, CallRecord
  <2>2. CallsOK' /\ OneCall'
    BY <1>4 DEF RecordStamp, TrailTyping, TrailTypes, CallsOK, OneCall, CallRecord
  <2>. QED
    BY <1>4, <2>1, <2>2 DEF RecordStamp, TrailTyping, TrailTypes
<1>5. ASSUME NEW h \in Callers, RecordAppend(h)
      PROVE  TrailTyping'
  <2> DEFINE e == [target |-> calls[h].target, action |-> calls[h].action, ts |-> calls[h].ts]
  <2>1. AppendEntry(e) /\ [id |-> appended + 1, entry |-> e] \in Item
    BY <1>5 DEF RecordAppend, Item, TrailTyping, TrailTypes, CallsOK, CallRecord
  <2>2. log' \in Seq(Item) /\ appended' \in Nat
    <3>1. log' \in Seq(Item)
      BY <2>1, AppendedLog DEF TrailTyping, TrailTypes
    <3>. QED
      BY <2>1, <3>1 DEF AppendEntry, TrailTyping, TrailTypes
  <2>3. calls' \in [Callers -> CallRecord] /\ CallsOK' /\ OneCall'
    BY <1>5, TrailConstantsOK
    DEF RecordAppend, Free, TrailTyping, TrailTypes, CallsOK, OneCall, CallRecord, Action
  <2>. QED
    BY <1>5, <2>2, <2>3 DEF RecordAppend, TrailTyping, TrailTypes
<1>6. CASE Tick
  BY <1>6, TrailConstantsOK DEF Tick, TrailTyping, TrailTypes, CallsOK, OneCall
<1>7. CASE UNCHANGED trailVars
  BY <1>7 DEF trailVars, TrailTyping, TrailTypes, CallsOK, OneCall
<1>. QED
  BY <1>1, <1>2, <1>3, <1>4, <1>5, <1>6, <1>7 DEF TrailNext

-----------------------------------------------------------------------------
(* The entry that a request appends, and the log afterwards. *)
EntryOf(h) == [target |-> calls[h].target, action |-> calls[h].action, ts |-> calls[h].ts]

Shifted(k, e) ==
  /\ k = IF IsFull THEN Dropped(Len(log)) ELSE 0
  /\ Len(log') = Len(log) - k + 1
  /\ \A i \in 1 .. Len(log) - k : log'[i] = log[i + k]
  /\ log'[Len(log) - k + 1] = [id |-> appended + 1, entry |-> e]
  /\ appended' = appended + 1

LEMMA LogShifted ==
  ASSUME TrailTyping, NEW h \in Callers, RecordAppend(h)
  PROVE  \E k \in 0 .. Len(log) : Shifted(k, EntryOf(h))
<1>1. AppendEntry(EntryOf(h)) /\ [id |-> appended + 1, entry |-> EntryOf(h)] \in Item
  BY DEF RecordAppend, EntryOf, Item, TrailTyping, TrailTypes, CallsOK, CallRecord
<1>2. log \in Seq(Item)
  BY DEF TrailTyping, TrailTypes
<1>. DEFINE e == EntryOf(h)
<1>. HIDE DEF e
<1>3. AppendEntry(e) /\ [id |-> appended + 1, entry |-> e] \in Item
  BY <1>1 DEF e
<1>4. \E k \in 0 .. Len(log) :
           /\ k = IF IsFull THEN Dropped(Len(log)) ELSE 0
           /\ log' \in Seq(Item)
           /\ Len(log') = Len(log) - k + 1
           /\ \A i \in 1 .. Len(log) - k : log'[i] = log[i + k]
           /\ log'[Len(log')] = [id |-> appended + 1, entry |-> e]
  BY ONLY <1>2, <1>3, AppendedLog
<1>5. appended' = appended + 1
  BY <1>3 DEF AppendEntry
<1>6. \E k \in 0 .. Len(log) : Shifted(k, e)
  BY <1>4, <1>5 DEF Shifted
<1>. QED
  BY <1>6 DEF e

(***************************************************************************)
(* The audit log holds exactly its newest entries, in order.  That no more *)
(* entries are kept than were ever appended makes it inductive.            *)
(***************************************************************************)
NewestInv == NewestKept /\ Len(log) =< appended

LEMMA AppendKeepsNewest ==
  ASSUME TrailTyping, NewestInv, NEW h \in Callers, RecordAppend(h)
  PROVE  NewestInv'
<1>1. PICK k \in 0 .. Len(log) : Shifted(k, EntryOf(h))
  BY LogShifted
<1>2. PICK n \in Nat : n = Len(log)
  BY DEF TrailTyping, TrailTypes
<1>3. appended \in Nat /\ Retention \in Nat
  BY RetentionOK DEF TrailTyping, TrailTypes
<1>4. Len(log') = n - k + 1 /\ k \in 0 .. n /\ appended' = appended + 1 /\ n =< appended
  BY <1>1, <1>2 DEF Shifted, NewestInv
<1>5. \A i \in 1 .. Len(log') : log'[i].id = appended' - Len(log') + i
  <2> SUFFICES ASSUME NEW i \in 1 .. n - k + 1
               PROVE  log'[i].id = appended + 1 - (n - k + 1) + i
    BY <1>2, <1>3, <1>4
  <2>1. CASE i = n - k + 1
    <3>1. log'[i] = [id |-> appended + 1, entry |-> EntryOf(h)]
      BY <1>1, <1>2, <2>1 DEF Shifted
    <3>. QED
      BY <1>3, <1>4, <2>1, <3>1
  <2>2. CASE i \in 1 .. n - k
    <3>1. PICK j \in 1 .. n : j = i + k
      BY <1>2, <1>4, <2>2
    <3>2. log'[i] = log[j]
      BY <1>1, <1>2, <2>2, <3>1 DEF Shifted
    <3>3. log[j].id = appended - n + j
      BY <1>2, <3>1 DEF NewestInv, NewestKept
    <3>4. appended - n + j = appended + 1 - (n - k + 1) + i
      BY <1>2, <1>3, <1>4, <2>2, <3>1
    <3>. QED
      BY <3>2, <3>3, <3>4
  <2>. QED
    BY <1>2, <1>4, <2>1, <2>2
<1>6. CASE IsFull
  <2>1. n = Retention /\ Retention > 0
    BY <1>2, <1>3, <1>6 DEF IsFull, NewestInv, NewestKept
  <2>2. PICK d \in 1 .. n : d = Dropped(n)
    BY <2>1, DroppedBound
  <2>3. k = d /\ d = Dropped(Retention)
    BY <1>1, <1>2, <1>6, <2>1, <2>2 DEF Shifted
  <2>4. Len(log') =< Retention /\ Len(log') > Retention - Dropped(Retention)
    BY <1>3, <1>4, <2>1, <2>2, <2>3
  <2>5. Len(log') =< appended'
    BY <1>3, <1>4
  <2>. QED
    BY <1>5, <2>1, <2>4, <2>5 DEF NewestInv, NewestKept
<1>7. CASE ~IsFull
  <2>1. k = 0 /\ (Retention > 0 => n < Retention)
    BY <1>1, <1>2, <1>3, <1>7 DEF Shifted, IsFull
  <2>2. Retention > 0 => Dropped(Retention) \in 1 .. Retention
    BY <1>3, DroppedBound
  <2>3. n < appended => Retention > 0 /\ n > Retention - Dropped(Retention)
    BY <1>2 DEF NewestInv, NewestKept
  <2>4. Len(log') = n + 1 /\ Len(log') =< appended'
    BY <1>3, <1>4, <2>1
  <2>5. Retention > 0 => Len(log') =< Retention
    BY <1>3, <2>1, <2>4
  <2>6. Len(log') < appended' => Retention > 0 /\ Len(log') > Retention - Dropped(Retention)
    BY <1>3, <1>4, <2>2, <2>3, <2>4
  <2>. QED
    BY <1>5, <2>4, <2>5, <2>6 DEF NewestInv, NewestKept
<1>. QED
  BY <1>6, <1>7

(***************************************************************************)
(* Whatever is appended, the log is its newest part, in order and within   *)
(* its bound.                                                              *)
(***************************************************************************)
THEOREM AuditKeepsNewest == TrailSpec => []NewestKept
<1>1. TrailInit => TrailTyping /\ NewestInv
  BY InitTrailTyping, RetentionOK DEF TrailInit, LogInit, NewestInv, NewestKept
<1>2. TrailTyping /\ NewestInv /\ [TrailNext]_trailVars => NewestInv'
  <2> SUFFICES ASSUME TrailTyping, NewestInv, [TrailNext]_trailVars PROVE NewestInv'
    OBVIOUS
  <2>1. ASSUME UNCHANGED <<log, appended>> PROVE NewestInv'
    BY <2>1 DEF NewestInv, NewestKept
  <2>2. ASSUME NEW h \in Callers, RecordAppend(h) PROVE NewestInv'
    BY <2>2, AppendKeepsNewest
  <2>3. UNCHANGED <<log, appended>> \/ \E h \in Callers : RecordAppend(h)
    BY DEF TrailNext, trailVars, ChangeRead, UpsertDevice, UpsertPoint, TogglePoint, ChangeWrite,
           RecordStamp, Tick
  <2>. QED
    BY <2>1, <2>2, <2>3
<1>. QED
  BY <1>1, <1>2, NextTrailTyping, PTL DEF TrailSpec, NewestInv

-----------------------------------------------------------------------------
(* Which entries there are about a thing after an append by h. *)
LEMMA AboutShifted ==
  ASSUME TrailTyping, NEW h \in Callers, RecordAppend(h), NEW x \in Alone, NEW i \in About(x)'
  PROVE  \E k \in 0 .. Len(log) :
           /\ Shifted(k, EntryOf(h))
           /\ \/ i = Len(log) - k + 1 /\ log'[i].entry = EntryOf(h) /\ calls[h].target = x
              \/ /\ i \in 1 .. Len(log) - k
                 /\ i + k \in About(x) /\ log'[i] = log[i + k]
<1>1. PICK k \in 0 .. Len(log) : Shifted(k, EntryOf(h))
  BY LogShifted
<1>2. PICK n \in Nat : n = Len(log)
  BY DEF TrailTyping, TrailTypes
<1>3. i \in 1 .. n - k + 1 /\ log'[i].entry.target = x
  BY <1>1, <1>2 DEF About, Shifted
<1>4. CASE i = n - k + 1
  <2>1. log'[i] = [id |-> appended + 1, entry |-> EntryOf(h)]
    BY <1>1, <1>2, <1>4 DEF Shifted
  <2>2. log'[i].entry = EntryOf(h)
    BY <2>1
  <2>3. calls[h].target = x
    BY <1>3, <2>2 DEF EntryOf
  <2>. QED
    BY <1>1, <1>2, <1>4, <2>2, <2>3
<1>5. CASE i \in 1 .. n - k
  <2>1. log'[i] = log[i + k] /\ i + k \in 1 .. n
    BY <1>1, <1>2, <1>5 DEF Shifted
  <2>2. i + k \in About(x)
    BY <1>2, <1>3, <2>1 DEF About
  <2>. QED
    BY <1>1, <1>2, <1>5, <2>1, <2>2
<1>. QED
  BY <1>2, <1>3, <1>4, <1>5

(***************************************************************************)
(* Times: nothing is stamped in the future, and what a request is about to *)
(* append is no older than what the log has about its thing.               *)
(***************************************************************************)
TimesInv ==
  /\ \A i \in 1 .. Len(log) : log[i].entry.ts =< now
  /\ \A g \in Callers : calls[g].ts =< now
  /\ \A x \in Alone : \A i \in About(x) : \A g \in Callers :
       calls[g].target = x /\ calls[g].step = "append" => log[i].entry.ts =< calls[g].ts
  /\ TrailInOrder

LEMMA AppendKeepsTimes ==
  ASSUME TrailTyping, TimesInv, NEW h \in Callers, RecordAppend(h)
  PROVE  TimesInv'
<1>1. PICK k \in 0 .. Len(log) : Shifted(k, EntryOf(h))
  BY LogShifted
<1>2. PICK n \in Nat : n = Len(log)
  BY DEF TrailTyping, TrailTypes
<1>3. now' = now /\ calls' = [calls EXCEPT ![h] = Free] /\ calls[h].step = "append"
  BY DEF RecordAppend
<1>4. calls \in [Callers -> CallRecord] /\ now \in Nat
  BY DEF TrailTyping, TrailTypes
<1>5. \A i \in 1 .. Len(log') : log'[i].entry.ts =< now'
  <2> SUFFICES ASSUME NEW i \in 1 .. n - k + 1 PROVE log'[i].entry.ts =< now
    BY <1>1, <1>2, <1>3 DEF Shifted
  <2>1. CASE i = n - k + 1
    <3>1. log'[i] = [id |-> appended + 1, entry |-> EntryOf(h)]
      BY <1>1, <1>2, <2>1 DEF Shifted
    <3>2. log'[i].entry.ts = calls[h].ts
      BY <3>1 DEF EntryOf
    <3>. QED
      BY <3>2 DEF TimesInv
  <2>2. CASE i \in 1 .. n - k
    <3>1. log'[i] = log[i + k] /\ i + k \in 1 .. n
      BY <1>1, <1>2, <2>2 DEF Shifted
    <3>. QED
      BY <1>2, <3>1 DEF TimesInv
  <2>. QED
    BY <1>2, <2>1, <2>2
<1>6. \A g \in Callers : calls'[g].ts =< now'
  BY <1>3, <1>4 DEF TimesInv, Free
<1>7. \A x \in Alone : \A i \in About(x)' : \A g \in Callers :
        calls'[g].target = x /\ calls'[g].step = "append" => log'[i].entry.ts =< calls'[g].ts
  <2> SUFFICES ASSUME NEW x \in Alone, NEW i \in About(x)', NEW g \in Callers,
                      calls'[g].target = x, calls'[g].step = "append"
               PROVE  log'[i].entry.ts =< calls'[g].ts
    OBVIOUS
  <2>1. g # h /\ calls'[g] = calls[g]
    BY <1>3, <1>4 DEF Free
  <2>2. calls[h].target # x
    BY <2>1 DEF TrailTyping, OneCall
  <2>3. PICK j \in About(x) : log'[i] = log[j]
    BY <2>2, AboutShifted
  <2>. QED
    BY <2>1, <2>3 DEF TimesInv
<1>8. TrailInOrder'
  <2> SUFFICES ASSUME NEW x \in Alone, NEW i \in About(x)', NEW j \in About(x)', i < j
               PROVE  log'[i].entry.ts =< log'[j].entry.ts
    BY DEF TrailInOrder
  <2>1. i \in 1 .. n - k /\ i + k \in About(x) /\ log'[i] = log[i + k]
    <3>1. j =< n - k + 1 /\ i \in Nat /\ j \in Nat
      BY <1>1, <1>2 DEF About, Shifted
    <3>2. PICK k1 \in 0 .. Len(log) :
            /\ Shifted(k1, EntryOf(h))
            /\ \/ i = n - k1 + 1
               \/ i \in 1 .. n - k1 /\ i + k1 \in About(x) /\ log'[i] = log[i + k1]
      BY <1>2, AboutShifted
    <3>3. k1 = k
      BY <1>1, <3>2 DEF Shifted
    <3>. QED
      BY <1>2, <3>1, <3>2, <3>3
  <2>2. PICK k2 \in 0 .. Len(log) :
          /\ Shifted(k2, EntryOf(h))
          /\ \/ log'[j].entry = EntryOf(h) /\ calls[h].target = x
             \/ j \in 1 .. n - k2 /\ j + k2 \in About(x) /\ log'[j] = log[j + k2]
    BY <1>2, AboutShifted
  <2>3. k2 = k
    BY <1>1, <2>2 DEF Shifted
  <2>4. CASE log'[j].entry = EntryOf(h) /\ calls[h].target = x
    <3>1. log[i + k].entry.ts =< calls[h].ts
      BY <1>3, <2>1, <2>4 DEF TimesInv
    <3>. QED
      BY <2>1, <2>4, <3>1 DEF EntryOf
  <2>5. CASE j \in 1 .. n - k2 /\ j + k2 \in About(x) /\ log'[j] = log[j + k2]
    <3>1. i + k < j + k
      BY <1>2, <2>1, <2>3, <2>5
    <3>. QED
      BY <2>1, <2>3, <2>5, <3>1 DEF TimesInv, TrailInOrder
  <2>. QED
    BY <2>2, <2>4, <2>5
<1>. QED
  BY <1>5, <1>6, <1>7, <1>8 DEF TimesInv

LEMMA OthersKeepTimes ==
  ASSUME TrailTyping, TimesInv, UNCHANGED log, now' \in {now, now + 1},
         \A g \in Callers :
           \/ calls'[g] = calls[g]
           \/ calls'[g].step # "append" /\ calls'[g].ts \in {0, calls[g].ts}
           \/ calls'[g].ts = now
  PROVE  TimesInv'
<1>1. now \in Nat /\ log \in Seq(Item) /\ \A g \in Callers : calls[g].ts \in Nat
  BY DEF TrailTyping, TrailTypes, CallRecord
<1>2. \A i \in 1 .. Len(log) : log[i].entry.ts \in Nat
  <2> SUFFICES ASSUME NEW i \in 1 .. Len(log) PROVE log[i].entry.ts \in Nat
    OBVIOUS
  <2>1. log[i] \in Item
    BY <1>1
  <2>. QED
    BY <2>1 DEF Item
<1>3. \A i \in 1 .. Len(log') : log'[i].entry.ts =< now'
  BY <1>1, <1>2 DEF TimesInv
<1>4. \A g \in Callers : calls'[g].ts =< now'
  BY <1>1 DEF TimesInv
<1>5. \A x \in Alone : \A i \in About(x)' : \A g \in Callers :
        calls'[g].target = x /\ calls'[g].step = "append" => log'[i].entry.ts =< calls'[g].ts
  <2> SUFFICES ASSUME NEW x \in Alone, NEW i \in About(x), NEW g \in Callers,
                      calls'[g].target = x, calls'[g].step = "append"
               PROVE  log[i].entry.ts =< calls'[g].ts
    BY DEF About
  <2>1. CASE calls'[g] = calls[g]
    BY <2>1 DEF TimesInv
  <2>2. CASE calls'[g].ts = now
    BY <2>2 DEF TimesInv, About
  <2>. QED
    BY <2>1, <2>2
<1>6. TrailInOrder'
  BY DEF TimesInv, TrailInOrder, About
<1>. QED
  BY <1>3, <1>4, <1>5, <1>6 DEF TimesInv

(***************************************************************************)
(* Entries about a thing handled one request at a time are in the order of *)
(* their times, for every number of requests about the other things.       *)
(***************************************************************************)
THEOREM AuditInOrder == TrailSpec => []TrailInOrder
<1>1. TrailInit => TrailTyping /\ TimesInv
  <2>1. TrailInit => TimesInv
    BY DEF TrailInit, LogInit, TimesInv, TrailInOrder, About, Free
  <2>. QED
    BY <2>1, InitTrailTyping
<1>2. TrailTyping /\ TimesInv /\ [TrailNext]_trailVars => TimesInv'
  <2> SUFFICES ASSUME TrailTyping, TimesInv, [TrailNext]_trailVars PROVE TimesInv'
    OBVIOUS
  <2>1. ASSUME NEW h \in Callers, RecordAppend(h) PROVE TimesInv'
    BY <2>1, AppendKeepsTimes
  <2>2. CASE ~\E h \in Callers : RecordAppend(h)
    <3>1. UNCHANGED log /\ now' \in {now, now + 1}
      BY <2>2 DEF TrailNext, trailVars, ChangeRead, UpsertDevice, UpsertPoint, TogglePoint,
                  ChangeWrite, RecordStamp, Tick
    <3>2. \A g \in Callers :
            \/ calls'[g] = calls[g]
            \/ calls'[g].step # "append" /\ calls'[g].ts \in {0, calls[g].ts}
            \/ calls'[g].ts = now
      <4>1. calls \in [Callers -> CallRecord]
        BY DEF TrailTyping, TrailTypes
      <4>2. \A h \in Callers : RecordStamp(h) =>
              \A g \in Callers : calls'[g] = calls[g] \/ calls'[g].ts = now
        BY <4>1 DEF RecordStamp, CallRecord
      <4>3. \A h \in Callers : ChangeWrite(h) =>
              \A g \in Callers :
                \/ calls'[g] = calls[g]
                \/ calls'[g].step # "append" /\ calls'[g].ts = calls[g].ts
        BY <4>1 DEF ChangeWrite, CallRecord
      <4>4. UNCHANGED calls \/ (\E h \in Callers : RecordStamp(h) \/ ChangeWrite(h))
              \/ \E h \in Callers :
                   \A g \in Callers :
                     \/ calls'[g] = calls[g]
                     \/ calls'[g].step # "append" /\ calls'[g].ts = 0
        <5>1. ASSUME NEW h \in Callers, NEW x, NEW step \in {"write", "stamp"}, NEW a,
                     Call(h, x, step, a)
              PROVE  \A g \in Callers :
                       \/ calls'[g] = calls[g]
                       \/ calls'[g].step # "append" /\ calls'[g].ts = 0
          BY <4>1, <5>1 DEF Call
        <5>. QED
          BY <2>2, <5>1 DEF TrailNext, trailVars, ChangeRead, UpsertDevice, UpsertPoint,
                            TogglePoint, Tick
      <4>. QED
        BY <4>2, <4>3, <4>4
    <3>. QED
      BY <3>1, <3>2, OthersKeepTimes
  <2>. QED
    BY <2>1, <2>2
<1>. QED
  BY <1>1, <1>2, NextTrailTyping, PTL DEF TrailSpec, TimesInv

-----------------------------------------------------------------------------
(* The newest entry kept about x. *)
Newest(x, i) == i \in About(x) /\ \A j \in About(x) : j =< i

(* A request about x that has already written, but not yet recorded it. *)
Unrecorded(x, h) == calls[h].target = x /\ calls[h].step \in {"stamp", "append"}

(***************************************************************************)
(* Until a request has written, the trail still ends with the state it     *)
(* found; from then on its local variables hold the state it has left.     *)
(***************************************************************************)
EndsWithState ==
  \A x \in Alone : (\A h \in Callers : ~Unrecorded(x, h)) =>
    \A i \in About(x) : Newest(x, i) /\ log[i].entry.action # "upsert"
                          => log[i].entry.action = StateOf(x)

CallsHoldState ==
  \A x \in Alone, h \in Callers :
    Unrecorded(x, h) /\ calls[h].action # "upsert" => calls[h].action = StateOf(x)

TrailInv == EndsWithState /\ CallsHoldState

(* A request is received, having written unless it is at "write". *)
LEMMA CallKeepsTrail ==
  ASSUME TrailTyping, TrailInv, UNCHANGED log, NEW h \in Callers, NEW x \in Things,
         NEW step \in {"write", "stamp"}, NEW action,
         Call(h, x, step, action),
         \A y \in Things : y # x \/ step = "write" => StateOf(y)' = StateOf(y),
         step = "stamp" /\ action # "upsert" => StateOf(x)' = action
  PROVE  TrailInv'
<1>1. /\ calls \in [Callers -> CallRecord]
      /\ calls' = [calls EXCEPT ![h] = [step |-> step, target |-> x, action |-> action, ts |-> 0]]
      /\ Alone \subseteq Things
  BY TrailConstantsOK DEF Call, TrailTyping, TrailTypes
<1>2. \A y \in Alone, g \in Callers :
        Unrecorded(y, g)' <=> IF g = h THEN y = x /\ step = "stamp" ELSE Unrecorded(y, g)
  BY <1>1 DEF Unrecorded
<1>3. \A g \in Callers : x \in Alone => ~Unrecorded(x, g)
  BY DEF Call, MayTouch, Unrecorded
<1>4. ASSUME NEW y \in Alone PROVE ~Unrecorded(y, h)
  BY <1>4, TrailConstantsOK DEF Call, Unrecorded
<1>5. CallsHoldState'
  <2> SUFFICES ASSUME NEW y \in Alone, NEW g \in Callers, Unrecorded(y, g)',
                      calls'[g].action # "upsert"
               PROVE  calls'[g].action = StateOf(y)'
    BY DEF CallsHoldState
  <2>1. CASE g = h
    BY <1>1, <1>2, <2>1
  <2>2. CASE g # h
    <3>1. Unrecorded(y, g) /\ calls'[g] = calls[g]
      BY <1>1, <1>2, <2>2
    <3>2. y # x /\ StateOf(y)' = StateOf(y)
      BY <1>1, <1>3, <3>1
    <3>. QED
      BY <3>1, <3>2 DEF TrailInv, CallsHoldState
  <2>. QED
    BY <2>1, <2>2
<1>6. EndsWithState'
  <2> SUFFICES ASSUME NEW y \in Alone, \A g \in Callers : ~Unrecorded(y, g)',
                      NEW i \in About(y), Newest(y, i), log[i].entry.action # "upsert"
               PROVE  log[i].entry.action = StateOf(y)'
    BY DEF EndsWithState, Newest, About
  <2>1. y # x \/ step = "write"
    BY <1>2
  <2>2. \A g \in Callers : ~Unrecorded(y, g)
    BY <1>2, <1>4
  <2>. QED
    BY <1>1, <2>1, <2>2 DEF TrailInv, EndsWithState
<1>. QED
  BY <1>5, <1>6 DEF TrailInv

LEMMA WriteKeepsTrail ==
  ASSUME TrailTyping, TrailInv, NEW h \in Callers, ChangeWrite(h)
  PROVE  TrailInv'
<1>0. PICK x : x = calls[h].target
  OBVIOUS
<1>1. /\ calls \in [Callers -> CallRecord] /\ calls[h].step = "write"
      /\ calls' = [calls EXCEPT ![h].step = "stamp"]
      /\ UNCHANGED <<enabled, log>>
      /\ x \in Valves \cup Compressors
      /\ devices' = [devices EXCEPT ![x] = calls[h].action]
      /\ devices \in [Valves \cup Compressors -> DeviceState \cup {"none"}]
      /\ Alone \subseteq Things
  BY <1>0, TrailConstantsOK DEF ChangeWrite, WriteDevice, TrailTyping, TrailTypes, CallsOK
<1>2. StateOf(x)' = calls[h].action /\ \A y \in Things : y # x => StateOf(y)' = StateOf(y)
  BY <1>1, TrailConstantsOK DEF StateOf, Things
<1>3. \A g \in Callers : g # h => calls'[g] = calls[g]
  BY <1>1
<1>4. calls'[h].step = "stamp" /\ calls'[h].target = x /\ calls'[h].action = calls[h].action
  BY <1>0, <1>1 DEF CallRecord
<1>5. CallsHoldState'
  <2> SUFFICES ASSUME NEW y \in Alone, NEW g \in Callers, Unrecorded(y, g)',
                      calls'[g].action # "upsert"
               PROVE  calls'[g].action = StateOf(y)'
    BY DEF CallsHoldState
  <2>1. CASE g = h
    BY <1>2, <1>4, <2>1 DEF Unrecorded
  <2>2. CASE g # h
    <3>1. Unrecorded(y, g) /\ calls'[g] = calls[g]
      BY <1>3, <2>2 DEF Unrecorded
    <3>2. y # x
      BY <1>0, <2>2, <3>1 DEF Unrecorded, TrailTyping, OneCall
    <3>. QED
      BY <1>1, <1>2, <3>1, <3>2 DEF TrailInv, CallsHoldState
  <2>. QED
    BY <2>1, <2>2
<1>6. EndsWithState'
  <2> SUFFICES ASSUME NEW y \in Alone, \A g \in Callers : ~Unrecorded(y, g)',
                      NEW i \in About(y), Newest(y, i), log[i].entry.action # "upsert"
               PROVE  log[i].entry.action = StateOf(y)'
    BY <1>1 DEF EndsWithState, Newest, About
  <2>1. y # x
    BY <1>4 DEF Unrecorded
  <2>2. \A g \in Callers : ~Unrecorded(y, g)
    BY <1>1, <1>3 DEF Unrecorded
  <2>. QED
    BY <1>1, <1>2, <2>1, <2>2 DEF TrailInv, EndsWithState
<1>. QED
  BY <1>5, <1>6 DEF TrailInv

LEMMA AppendKeepsTrail ==
  ASSUME TrailTyping, TrailInv, NEW h \in Callers, RecordAppend(h)
  PROVE  TrailInv'
<1>1. PICK k \in 0 .. Len(log) : Shifted(k, EntryOf(h))
  BY LogShifted
<1>2. PICK n \in Nat : n = Len(log)
  BY DEF TrailTyping, TrailTypes
<1>3. /\ calls' = [calls EXCEPT ![h] = Free] /\ calls[h].step = "append"
      /\ calls \in [Callers -> CallRecord] /\ \A y : StateOf(y)' = StateOf(y)
  BY DEF RecordAppend, TrailTyping, TrailTypes, StateOf
<1>4. CallsHoldState'
  <2> SUFFICES ASSUME NEW y \in Alone, NEW g \in Callers, Unrecorded(y, g)',
                      calls'[g].action # "upsert"
               PROVE  calls'[g].action = StateOf(y)'
    BY DEF CallsHoldState
  <2>1. g # h
    BY <1>3 DEF Unrecorded, Free
  <2>2. Unrecorded(y, g) /\ calls'[g] = calls[g]
    BY <1>3, <2>1 DEF Unrecorded
  <2>. QED
    BY <1>3, <2>2 DEF TrailInv, CallsHoldState
<1>5. EndsWithState'
  <2> SUFFICES ASSUME NEW y \in Alone, \A g \in Callers : ~Unrecorded(y, g)',
                      NEW i \in About(y)', \A j \in About(y)' : j =< i,
                      log'[i].entry.action # "upsert"
               PROVE  log'[i].entry.action = StateOf(y)
    BY <1>3 DEF EndsWithState, Newest
  <2>1. PICK k1 \in 0 .. Len(log) :
          /\ Shifted(k1, EntryOf(h))
          /\ \/ log'[i].entry = EntryOf(h) /\ calls[h].target = y
             \/ i \in 1 .. n - k1 /\ i + k1 \in About(y) /\ log'[i] = log[i + k1]
    BY <1>2, AboutShifted
  <2>2. k1 = k
    BY <1>1, <2>1 DEF Shifted
  <2>3. CASE log'[i].entry = EntryOf(h) /\ calls[h].target = y
    <3>1. Unrecorded(y, h)
      BY <1>3, <2>3 DEF Unrecorded
    <3>2. log'[i].entry.action = calls[h].action
      BY <2>3 DEF EntryOf
    <3>. QED
      BY <3>1, <3>2 DEF TrailInv, CallsHoldState
  <2>4. CASE i \in 1 .. n - k /\ i + k \in About(y) /\ log'[i] = log[i + k]
    <3>1. calls[h].target # y
      <4>1. SUFFICES ASSUME calls[h].target = y PROVE FALSE
        OBVIOUS
      <4>2. log'[n - k + 1] = [id |-> appended + 1, entry |-> EntryOf(h)]
        BY <1>1, <1>2 DEF Shifted
      <4>3. log'[n - k + 1].entry.target = y
        BY <4>1, <4>2 DEF EntryOf
      <4>4. n - k + 1 \in About(y)'
        BY <1>1, <1>2, <4>3 DEF About, Shifted
      <4>. QED
        BY <1>2, <2>4, <4>4
    <3>2. \A g \in Callers : ~Unrecorded(y, g)
      BY <1>3, <3>1 DEF Unrecorded
    <3>3. \A j \in About(y) : j =< i + k
      <4> SUFFICES ASSUME NEW j \in 1 .. n, log[j].entry.target = y, j > i + k PROVE FALSE
        BY <1>2, <2>4 DEF About
      <4>0. i \in 1 .. n - k /\ k \in 0 .. n
        BY <1>2, <2>4
      <4>1. PICK l \in 1 .. n - k : j = l + k
        <5>1. j - k \in 1 .. n - k /\ j = (j - k) + k
          BY <4>0
        <5>. QED
          BY <5>1
      <4>2. l > i
        BY <1>2, <2>4, <4>1
      <4>3. log'[l] = log[j]
        BY <1>1, <1>2, <4>1 DEF Shifted
      <4>4. l \in About(y)'
        <5>1. Len(log') = n - k + 1 /\ l \in 1 .. n - k + 1
          BY <1>1, <1>2 DEF Shifted
        <5>2. log'[l].entry.target = y
          BY <4>3
        <5>. QED
          BY <5>1, <5>2 DEF About
      <4>5. l =< i
        BY <4>4
      <4>. QED
        BY <1>2, <2>4, <4>1, <4>2, <4>5
    <3>. QED
      BY <2>4, <3>2, <3>3 DEF TrailInv, EndsWithState, Newest
  <2>. QED
    BY <2>1, <2>2, <2>3, <2>4
<1>. QED
  BY <1>4, <1>5 DEF TrailInv

(***************************************************************************)
(* The trail of a thing handled one request at a time ends with its state. *)
(***************************************************************************)
THEOREM AuditMatchesState == TrailSpec => []TrailMatchesState
<1>1. TrailInit => TrailTyping /\ TrailInv
  <2>1. TrailInit => TrailInv
    BY DEF TrailInit, LogInit, TrailInv, EndsWithState, CallsHoldState, About, Unrecorded, Free
  <2>. QED
    BY <2>1, InitTrailTyping
<1>2. TrailTyping /\ TrailInv /\ [TrailNext]_trailVars => TrailInv'
  <2> SUFFICES ASSUME TrailTyping, TrailInv, [TrailNext]_trailVars PROVE TrailInv'
    OBVIOUS
  <2>0. /\ devices \in [Valves \cup Compressors -> DeviceState \cup {"none"}]
        /\ enabled \in [Sensors -> Switch \cup {"none"}]
    BY DEF TrailTyping, TrailTypes
  <2>1. ASSUME NEW h \in Callers, NEW d \in Valves \cup Compressors, NEW s, ChangeRead(h, d, s)
        PROVE  TrailInv'
    <3>1. UNCHANGED log /\ Call(h, d, "write", s) /\ d \in Things
      BY <2>1 DEF ChangeRead, Things
    <3>2. \A y \in Things : StateOf(y)' = StateOf(y)
      BY <2>1 DEF ChangeRead, StateOf
    <3>. QED
      BY <3>1, <3>2, CallKeepsTrail
  <2>2. ASSUME NEW h \in Callers, NEW d \in Valves \cup Compressors, NEW s, UpsertDevice(h, d, s)
        PROVE  TrailInv'
    <3>1. UNCHANGED log /\ Call(h, d, "stamp", "upsert") /\ d \in Things
      BY <2>2 DEF UpsertDevice, Things
    <3>2. \A y \in Things : y # d => StateOf(y)' = StateOf(y)
      BY <2>0, <2>2 DEF UpsertDevice, WriteDevice, StateOf, Things
    <3>. QED
      BY <3>1, <3>2, CallKeepsTrail
  <2>3. ASSUME NEW h \in Callers, NEW p \in Sensors, NEW s \in Switch, NEW action,
               WritePoint(p, s), Call(h, p, "stamp", action), UNCHANGED <<devices, log>>,
               action \in {"upsert", s}
        PROVE  TrailInv'
    <3>1. p \in Things
      BY DEF Things
    <3>2. \A y \in Things : y # p => StateOf(y)' = StateOf(y)
      BY <2>0, <2>3 DEF WritePoint, StateOf, Things
    <3>3. StateOf(p)' = s
      BY <2>0, <2>3 DEF WritePoint, StateOf
    <3>. QED
      BY <2>3, <3>1, <3>2, <3>3, CallKeepsTrail
  <2>4. ASSUME NEW h \in Callers, NEW p \in Sensors, NEW s \in Switch,
               UpsertPoint(h, p, s) \/ TogglePoint(h, p, s)
        PROVE  TrailInv'
    BY <2>3, <2>4 DEF UpsertPoint, TogglePoint
  <2>5. ASSUME NEW h \in Callers, RecordStamp(h) PROVE TrailInv'
    <3>1. /\ calls \in [Callers -> CallRecord] /\ UNCHANGED <<devices, enabled, log>>
          /\ calls[h].step = "stamp"
          /\ calls' = [calls EXCEPT ![h].step = "append", ![h].ts = now]
      BY <2>5 DEF RecordStamp, TrailTyping, TrailTypes
    <3>2. \A y \in Alone, g \in Callers :
            /\ Unrecorded(y, g)' <=> Unrecorded(y, g)
            /\ calls'[g].action = calls[g].action /\ StateOf(y)' = StateOf(y)
      BY <3>1 DEF Unrecorded, StateOf, CallRecord
    <3>3. CallsHoldState'
      BY <3>2 DEF CallsHoldState, TrailInv
    <3>4. EndsWithState'
      BY <3>1, <3>2 DEF EndsWithState, TrailInv, Newest, About
    <3>. QED
      BY <3>3, <3>4 DEF TrailInv
  <2>6. CASE UNCHANGED <<devices, enabled, log, calls>>
    BY <2>6 DEF TrailInv, CallsHoldState, EndsWithState, Newest, About, Unrecorded, StateOf
  <2>. QED
    BY <2>1, <2>2, <2>4, <2>5, <2>6, WriteKeepsTrail, AppendKeepsTrail
    DEF TrailNext, trailVars, Tick
<1>3. TrailInv => TrailMatchesState
  BY DEF TrailInv, EndsWithState, TrailMatchesState, Newest, InFlight, Unrecorded
<1>. QED
  BY <1>1, <1>2, <1>3, NextTrailTyping, PTL DEF TrailSpec
=============================================================================
