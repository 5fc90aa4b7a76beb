--------------------------- MODULE MeteringProofs ---------------------------
(***************************************************************************)
(* The theorems about module Metering, for any number of meters, days,     *)
(* bands and concurrent requests.                                          *)
(***************************************************************************)
EXTENDS Metering, WellFoundedInduction, TLAPS

(* A daily total: volumes do not run backwards, and the standard volume is *)
(* the raw one within the factors.                                         *)
WithinFactors(t) ==
  /\ t.raw >= 0
  /\ \E f \in Factors : t.std >= f * t.raw
  /\ \E f \in Factors : t.std =< f * t.raw

(* Lines drawn from the totals of day d, now or earlier. *)
NotOverstated(items, d) ==
  \A m \in Meters : items[m].raw =< daily[m][d].raw /\ items[m].std =< daily[m][d].std

(* What a request works on. *)
Fits(r) ==
  /\ r.step \in {"roll", "retain"} => r.meter \in Meters /\ r.date \in Dates /\ r.factor \in Factors
  /\ r.step \in {"put", "confirm", "reconcile"} => r.date \in Dates
  /\ r.step = "put" => NotOverstated(r.items, r.date)

TypeInv ==
  /\ TypeOK
  /\ \A m \in Meters, d \in Dates : WithinFactors(daily[m][d])
  /\ \A d \in Dates : NotOverstated(settlements[d].items, d)
  /\ \A h \in Handlers : Fits(req[h])

-----------------------------------------------------------------------------
LEMMA FactorsOK == Factors \subseteq Nat \ {0} /\ 1 \in Factors
BY DefsOK DEF Factors

(* Whatever the bands, the factor is one of theirs, or 1. *)
LEMMA CorrectOK ==
  ASSUME NEW def \in MeterDefs, NEW t
  PROVE  Correct(def.bands, t) \subseteq Factors
BY DEF Correct, Factors, Having, Lowest, Highest

LEMMA Products ==
  ASSUME NEW a \in Int, NEW b \in Int, NEW k \in Nat, a =< b
  PROVE  /\ a * k \in Int /\ b * k \in Int
         /\ a * k =< b * k
         /\ k * a = a * k
<1>1. b - a \in Nat
  OBVIOUS
<1>2. (b - a) * k \in Nat
  BY <1>1
<1>3. (b - a) * k = b * k - a * k
  OBVIOUS
<1> QED BY <1>2, <1>3

LEMMA Distributes ==
  ASSUME NEW a \in Int, NEW b \in Int, NEW c \in Int
  PROVE  c * (a + b) = c * a + c * b
OBVIOUS

(***************************************************************************)
(* A reading adds to the raw volume what it adds to the standard one,      *)
(* times its factor.                                                       *)
(***************************************************************************)
LEMMA AccumulatedOK ==
  ASSUME NEW t \in DailyTotal, WithinFactors(t), NEW v \in Int, NEW f \in Factors
  PROVE  /\ Accumulated(t, v, f) \in DailyTotal
         /\ WithinFactors(Accumulated(t, v, f))
         /\ Accumulated(t, v, f).raw >= t.raw
         /\ Accumulated(t, v, f).std >= t.std
<1> DEFINE delta == IF t.count = 0 \/ v < t.last THEN 0 ELSE v - t.last
           u == Accumulated(t, v, f)
<1>1. delta \in Nat
  BY DEF DailyTotal
<1>2. f \in Nat
  BY FactorsOK
<1>3. delta * f \in Nat
  BY <1>1, <1>2
<1>4. /\ t.raw \in Int /\ t.std \in Int /\ t.count \in Nat
      /\ u.raw = t.raw + delta /\ u.std = t.std + delta * f /\ u.count = t.count + 1 /\ u.last = v
      /\ u = [count |-> u.count, raw |-> u.raw, std |-> u.std, last |-> u.last]
  BY DEF Accumulated, DailyTotal
<1> HIDE DEF delta, u
<1>5. u \in DailyTotal /\ u.raw >= t.raw /\ u.std >= t.std /\ u.raw >= 0
  <2>1. u.raw \in Int /\ u.std \in Int /\ u.count \in Nat /\ u.last \in Int
    BY <1>1, <1>3, <1>4
  <2> QED BY <1>1, <1>3, <1>4, <2>1 DEF DailyTotal, WithinFactors
<1>6. \E g \in Factors : u.std >= g * u.raw
  <2>1. PICK e \in Factors : t.std >= e * t.raw
    BY DEF WithinFactors
  <2>2. ASSUME NEW g \in {e, f}, g =< e, g =< f PROVE u.std >= g * u.raw
    <3>1. e \in Nat /\ g \in Nat /\ t.raw \in Nat
      BY <1>2, <1>4, FactorsOK DEF WithinFactors
    <3>2. g * t.raw =< e * t.raw /\ g * t.raw \in Int /\ e * t.raw \in Int
      BY <2>2, <3>1, Products
    <3>3. g * delta =< f * delta /\ g * delta \in Int /\ f * delta = delta * f
      BY <1>1, <1>2, <2>2, <3>1, Products
    <3>4. g * u.raw = g * t.raw + g * delta
      BY <1>1, <1>4, <3>1, Distributes
    <3> QED BY <1>3, <1>4, <2>1, <3>2, <3>3, <3>4
  <2> QED BY <1>2, <2>1, <2>2, FactorsOK
<1>7. \E g \in Factors : u.std =< g * u.raw
  <2>1. PICK e \in Factors : t.std =< e * t.raw
    BY DEF WithinFactors
  <2>2. ASSUME NEW g \in {e, f}, e =< g, f =< g PROVE u.std =< g * u.raw
    <3>1. e \in Nat /\ g \in Nat /\ t.raw \in Nat
      BY <1>2, <1>4, FactorsOK DEF WithinFactors
    <3>2. e * t.raw =< g * t.raw /\ g * t.raw \in Int /\ e * t.raw \in Int
      BY <2>2, <3>1, Products
    <3>3. f * delta =< g * delta /\ g * delta \in Int /\ f * delta = delta * f
      BY <1>1, <1>2, <2>2, <3>1, Products
    <3>4. g * u.raw = g * t.raw + g * delta
      BY <1>1, <1>4, <3>1, Distributes
    <3> QED BY <1>3, <1>4, <2>1, <3>2, <3>3, <3>4
  <2> QED BY <1>2, <2>1, <2>2, FactorsOK
<1>8. WithinFactors(u)
  BY <1>5, <1>6, <1>7 DEF WithinFactors
<1> QED BY <1>5, <1>8 DEF u

LEMMA RetainedOK ==
  ASSUME NEW rs \in Seq(RawReading), Len(rs) =< ReadingCap, NEW rd \in RawReading
  PROVE  Retained(rs, rd) \in Seq(RawReading) /\ Len(Retained(rs, rd)) =< ReadingCap
<1> DEFINE all == Append(rs, rd)
<1>1. all \in Seq(RawReading) /\ Len(all) = Len(rs) + 1 /\ Len(rs) \in Nat
  OBVIOUS
<1> HIDE DEF all
<1>2. all # <<>>
  BY <1>1
<1>3. Tail(all) \in Seq(RawReading) /\ Len(Tail(all)) = Len(all) - 1
  BY <1>1, <1>2
<1>4. Retained(rs, rd) = IF Len(all) > ReadingCap THEN Tail(all) ELSE all
  BY DEF Retained, all
<1> QED BY <1>1, <1>3, <1>4, CapsOK

LEMMA Records ==
  /\ Idle \in Request
  /\ \A s \in Step, m \in Meters, d \in Dates, v \in Int, f \in Nat : Recording(s, m, d, v, f) \in Request
  /\ \A s \in Step, d \in Dates, its \in Items : Settling(s, d, its) \in Request
  /\ NoItems \in Items
BY DEF Idle, Recording, Settling, Request, Step, NoItems, Items, LineItem

(* The type invariant, less the requests. *)
Stored ==
  /\ meters \in [Meters -> MeterDefs \cup {Nobody}]
  /\ daily \in [Meters -> [Dates -> DailyTotal]]
  /\ readings \in [Meters -> Seq(RawReading)]
  /\ \A m \in Meters : Len(readings[m]) =< ReadingCap
  /\ settlements \in [Dates -> Settlement]
  /\ \A m \in Meters, d \in Dates : WithinFactors(daily[m][d])
  /\ \A d \in Dates : NotOverstated(settlements[d].items, d)

LEMMA TypeInit == Init => TypeInv
<1> SUFFICES ASSUME Init PROVE TypeInv
  OBVIOUS
<1>1. \A m \in Meters, d \in Dates : daily[m][d] = NoTotal
  BY DEF Init
<1>2. meters \in [Meters -> MeterDefs \cup {Nobody}] /\ daily \in [Meters -> [Dates -> DailyTotal]]
  BY DEF Init, NoTotal, DailyTotal
<1>3. readings \in [Meters -> Seq(RawReading)] /\ \A m \in Meters : Len(readings[m]) =< ReadingCap
  BY CapsOK DEF Init
<1>4. settlements \in [Dates -> Settlement] /\ \A d \in Dates : settlements[d].items = NoItems
  BY Records DEF Init, NoSettlement, Settlement
<1>5. req \in [Handlers -> Request]
  BY Records DEF Init
<1>6. WithinFactors(NoTotal)
  <2>1. NoTotal.raw = 0 /\ NoTotal.std = 0 /\ 1 * 0 = 0
    BY DEF NoTotal
  <2> QED BY <2>1, FactorsOK DEF WithinFactors
<1>7. \A d \in Dates : NotOverstated(NoItems, d)
  <2>1. \A m \in Meters : NoItems[m].raw = 0 /\ NoItems[m].std = 0
    BY DEF NoItems
  <2>2. \A m \in Meters, d \in Dates : daily[m][d].raw = 0 /\ daily[m][d].std = 0
    BY <1>1 DEF NoTotal
  <2>3. ASSUME NEW d \in Dates, NEW m \in Meters PROVE NoItems[m].raw =< daily[m][d].raw
    BY <2>1, <2>2
  <2>4. ASSUME NEW d \in Dates, NEW m \in Meters PROVE NoItems[m].std =< daily[m][d].std
    BY <2>1, <2>2
  <2> QED BY <2>3, <2>4 DEF NotOverstated
<1>8. \A h \in Handlers : Fits(req[h])
  BY DEF Init, Idle, Fits
<1> QED BY <1>1, <1>2, <1>3, <1>4, <1>5, <1>6, <1>7, <1>8 DEF TypeInv, TypeOK

(* Totals never go down, so that what was drawn from them stays covered.   *)
TotalsGrow ==
  \A m \in Meters, d \in Dates :
    daily'[m][d].raw >= daily[m][d].raw /\ daily'[m][d].std >= daily[m][d].std

LEMMA Covered ==
  ASSUME Stored, Stored', TotalsGrow, NEW items \in Items, NEW d \in Dates, NotOverstated(items, d)
  PROVE  NotOverstated(items, d)'
<1> SUFFICES ASSUME NEW m \in Meters
             PROVE  items[m].raw =< daily'[m][d].raw /\ items[m].std =< daily'[m][d].std
  BY DEF NotOverstated
<1>1. items[m] \in LineItem /\ daily[m][d] \in DailyTotal /\ daily'[m][d] \in DailyTotal
  BY DEF Items, Stored
<1> QED BY <1>1 DEF NotOverstated, TotalsGrow, LineItem, DailyTotal

LEMMA BecomeOK ==
  ASSUME TypeInv, Stored', TotalsGrow, NEW h \in Handlers, NEW r \in Request, Fits(r), Become(h, r)
  PROVE  TypeInv'
<1>0. Stored
  BY DEF TypeInv, TypeOK, Stored
<1>1. req' \in [Handlers -> Request] /\ \A g \in Handlers : req'[g] = r \/ req'[g] = req[g]
  BY DEF TypeInv, TypeOK, Become
<1>2. ASSUME NEW q \in Request, Fits(q) PROVE Fits(q)'
  <2>1. q.items \in Items
    BY DEF Request
  <2> QED BY <1>0, <1>2, <2>1, Covered DEF Fits
<1>3. ASSUME NEW g \in Handlers PROVE Fits(req[g])'
  <2>1. CASE req'[g] = r
    <3>1. Fits(r)'
      BY <1>2
    <3> QED BY <2>1, <3>1 DEF Fits, NotOverstated
  <2>2. CASE req'[g] = req[g]
    <3>1. PICK q \in Request : q = req[g]
      BY DEF TypeInv, TypeOK
    <3>2. Fits(q)'
      BY <1>2, <3>1 DEF TypeInv
    <3> QED BY <2>2, <3>1, <3>2 DEF Fits, NotOverstated
  <2> QED BY <1>1, <2>1, <2>2
<1> QED BY <1>1, <1>3 DEF TypeInv, TypeOK, Stored

LEMMA TotalsSame ==
  ASSUME TypeInv, daily' = daily
  PROVE  TotalsGrow
<1>1. \A m \in Meters, d \in Dates : daily[m][d] \in DailyTotal
  BY DEF TypeInv, TypeOK
<1> QED BY <1>1 DEF TotalsGrow, DailyTotal

LEMMA StoredSame ==
  ASSUME TypeInv, UNCHANGED <<meters, daily, readings, settlements>>
  PROVE  Stored' /\ TotalsGrow
<1>1. TotalsGrow
  BY TotalsSame
<1> QED BY <1>1 DEF TypeInv, TypeOK, Stored, NotOverstated

-----------------------------------------------------------------------------
LEMMA UpsertOK ==
  ASSUME TypeInv, NEW h \in Handlers, NEW m \in Meters, NEW def \in MeterDefs, UpsertMeter(h, m, def)
  PROVE  TypeInv'
<1>1. meters' \in [Meters -> MeterDefs \cup {Nobody}]
  BY DEF UpsertMeter, TypeInv, TypeOK
<1> QED BY <1>1 DEF UpsertMeter, TypeInv, TypeOK, Fits, NotOverstated

LEMMA RecordReadOK ==
  ASSUME TypeInv, NEW h \in Handlers, NEW m \in Meters, NEW d \in Dates, NEW v \in Values,
         NEW t \in Temperatures, RecordRead(h, m, d, v, t)
  PROVE  TypeInv'
<1>1. PICK f \in Correct(meters[m].bands, t) : Become(h, Recording("roll", m, d, v, f))
  BY DEF RecordRead
<1>2. meters[m] \in MeterDefs
  BY DEF RecordRead, TypeInv, TypeOK
<1>3. f \in Factors /\ f \in Nat /\ v \in Int
  BY <1>1, <1>2, CorrectOK, FactorsOK, ValuesOK
<1>4. Recording("roll", m, d, v, f) \in Request
  BY <1>3, Records DEF Step
<1>5. Fits(Recording("roll", m, d, v, f))
  BY <1>3 DEF Fits, Recording
<1>6. Stored' /\ TotalsGrow
  BY StoredSame DEF RecordRead
<1> QED BY <1>1, <1>4, <1>5, <1>6, BecomeOK

LEMMA RollUpOK ==
  ASSUME TypeInv, NEW h \in Handlers, RollUp(h)
  PROVE  TypeInv'
<1>1. PICK m \in Meters, d \in Dates, v \in Int, f \in Factors :
        req[h].meter = m /\ req[h].date = d /\ req[h].value = v /\ req[h].factor = f
  BY DEF RollUp, TypeInv, TypeOK, Fits, Request
<1>2. daily[m][d] \in DailyTotal /\ WithinFactors(daily[m][d])
  BY DEF TypeInv, TypeOK
<1> DEFINE u == Accumulated(daily[m][d], v, f)
<1>3. u \in DailyTotal /\ WithinFactors(u) /\ u.raw >= daily[m][d].raw /\ u.std >= daily[m][d].std
  BY <1>2, AccumulatedOK
<1>4. daily' = [daily EXCEPT ![m][d] = u]
  BY <1>1 DEF RollUp
<1> HIDE DEF u
<1>5. /\ daily' \in [Meters -> [Dates -> DailyTotal]]
      /\ daily'[m][d] = u
      /\ \A n \in Meters, e \in Dates : daily'[n][e] = daily[n][e] \/ (n = m /\ e = d)
  BY <1>3, <1>4 DEF TypeInv, TypeOK
<1>6. TotalsGrow
  <2> SUFFICES ASSUME NEW n \in Meters, NEW e \in Dates
               PROVE  daily'[n][e].raw >= daily[n][e].raw /\ daily'[n][e].std >= daily[n][e].std
    BY DEF TotalsGrow
  <2>1. daily[n][e] \in DailyTotal
    BY DEF TypeInv, TypeOK
  <2> QED BY <1>3, <1>5, <2>1 DEF DailyTotal
<1>7. \A n \in Meters, e \in Dates : WithinFactors(daily'[n][e])
  BY <1>3, <1>5 DEF TypeInv
<1>8. UNCHANGED <<meters, readings, settlements>>
  BY DEF RollUp
<1>9. ASSUME NEW e \in Dates PROVE NotOverstated(settlements[e].items, e)'
  <2> SUFFICES ASSUME NEW n \in Meters
               PROVE  /\ settlements[e].items[n].raw =< daily'[n][e].raw
                      /\ settlements[e].items[n].std =< daily'[n][e].std
    BY <1>8 DEF NotOverstated
  <2>1. settlements[e].items[n] \in LineItem /\ daily[n][e] \in DailyTotal /\ daily'[n][e] \in DailyTotal
    BY <1>5 DEF TypeInv, TypeOK, Settlement, Items
  <2>2. settlements[e].items[n].raw =< daily[n][e].raw /\ settlements[e].items[n].std =< daily[n][e].std
    BY DEF TypeInv, NotOverstated
  <2>3. daily'[n][e].raw >= daily[n][e].raw /\ daily'[n][e].std >= daily[n][e].std
    BY <1>6 DEF TotalsGrow
  <2> QED BY <2>1, <2>2, <2>3 DEF LineItem, DailyTotal
<1>10. Stored'
  BY <1>5, <1>7, <1>8, <1>9 DEF Stored, TypeInv, TypeOK, WithinFactors
<1>11. Become(h, Recording("retain", m, d, v, f))
  BY <1>1 DEF RollUp
<1>12. Recording("retain", m, d, v, f) \in Request
  BY Records, FactorsOK DEF Step
<1>13. Fits(Recording("retain", m, d, v, f))
  BY DEF Fits, Recording
<1> QED BY <1>6, <1>10, <1>11, <1>12, <1>13, BecomeOK

LEMMA RetainOK ==
  ASSUME TypeInv, NEW h \in Handlers, Retain(h)
  PROVE  TypeInv'
<1>1. PICK m \in Meters, rd \in RawReading : readings' = [readings EXCEPT ![m] = Retained(readings[m], rd)]
  <2>1. req[h].meter \in Meters /\ [date |-> req[h].date, value |-> req[h].value] \in RawReading
    BY DEF Retain, TypeInv, TypeOK, Fits, Request, RawReading
  <2> QED BY <2>1 DEF Retain
<1>2. Retained(readings[m], rd) \in Seq(RawReading) /\ Len(Retained(readings[m], rd)) =< ReadingCap
  BY RetainedOK DEF TypeInv, TypeOK
<1>3. readings' \in [Meters -> Seq(RawReading)] /\ \A n \in Meters : Len(readings'[n]) =< ReadingCap
  BY <1>1, <1>2 DEF TypeInv, TypeOK
<1>4. UNCHANGED <<meters, daily, settlements>> /\ Become(h, Idle)
  BY DEF Retain
<1>5. TotalsGrow
  BY <1>4, TotalsSame
<1>6. Stored'
  BY <1>3, <1>4 DEF Stored, TypeInv, TypeOK, NotOverstated
<1>7. Idle \in Request /\ Fits(Idle)
  BY Records DEF Idle, Fits
<1> QED BY <1>4, <1>5, <1>6, <1>7, BecomeOK

LEMMA SettleReadOK ==
  ASSUME TypeInv, NEW h \in Handlers, NEW d \in Dates, SettleRead(h, d)
  PROVE  TypeInv'
<1> DEFINE its == [m \in Meters |-> [raw |-> daily[m][d].raw, std |-> daily[m][d].std]]
<1>1. \A m \in Meters : daily[m][d] \in DailyTotal
  BY DEF TypeInv, TypeOK
<1>2. its \in Items
  BY <1>1 DEF Items, LineItem, DailyTotal
<1>3. NotOverstated(its, d)
  <2>1. \A m \in Meters : its[m].raw = daily[m][d].raw /\ its[m].std = daily[m][d].std
    OBVIOUS
  <2>2. \A m \in Meters : daily[m][d].raw \in Int /\ daily[m][d].std \in Int
    BY <1>1 DEF DailyTotal
  <2> HIDE DEF its
  <2>3. ASSUME NEW m \in Meters
        PROVE  its[m].raw =< daily[m][d].raw /\ its[m].std =< daily[m][d].std
    BY <2>1, <2>2
  <2> QED BY <2>3 DEF NotOverstated
<1>4. Become(h, Settling("put", d, its))
  BY DEF SettleRead
<1> HIDE DEF its
<1>5. Settling("put", d, its) \in Request
  BY <1>2, Records DEF Step
<1>6. Fits(Settling("put", d, its))
  <2>1. /\ Settling("put", d, its).step = "put" /\ Settling("put", d, its).date = d
        /\ Settling("put", d, its).items = its
    BY DEF Settling
  <2> QED BY <1>3, <2>1 DEF Fits
<1>7. Stored' /\ TotalsGrow
  BY StoredSame DEF SettleRead
<1> QED BY <1>4, <1>5, <1>6, <1>7, BecomeOK

LEMMA SettlementOK ==
  ASSUME TypeInv, NEW h \in Handlers, NEW d \in Dates, NEW s \in Settlement, NotOverstated(s.items, d),
         settlements' = [settlements EXCEPT ![d] = s], Become(h, Idle), UNCHANGED <<meters, daily, readings>>
  PROVE  TypeInv'
<1>1. settlements' \in [Dates -> Settlement] /\ \A e \in Dates : NotOverstated(settlements'[e].items, e)
  BY DEF TypeInv, TypeOK
<1>2. Stored'
  BY <1>1 DEF Stored, TypeInv, TypeOK, NotOverstated
<1>3. TotalsGrow
  BY TotalsSame
<1>4. Idle \in Request /\ Fits(Idle)
  BY Records DEF Idle, Fits
<1> QED BY <1>2, <1>3, <1>4, BecomeOK

LEMMA SettlePutOK ==
  ASSUME TypeInv, NEW h \in Handlers, SettlePut(h)
  PROVE  TypeInv'
<1>1. req[h].date \in Dates /\ req[h].items \in Items /\ NotOverstated(req[h].items, req[h].date)
  BY DEF SettlePut, TypeInv, TypeOK, Fits, Request
<1>2. [state |-> "draft", items |-> req[h].items] \in Settlement
  BY <1>1 DEF Settlement, SettlementState
<1> QED BY <1>1, <1>2, SettlementOK DEF SettlePut

LEMMA BeginOK ==
  ASSUME TypeInv, NEW h \in Handlers, NEW d \in Dates, NEW t, NEW s \in {"confirm", "reconcile"},
         Begin(h, d, t, s)
  PROVE  TypeInv'
<1>1. Settling(s, d, NoItems) \in Request
  BY Records DEF Step
<1>2. Fits(Settling(s, d, NoItems))
  BY DEF Fits, Settling
<1>3. Stored' /\ TotalsGrow
  BY StoredSame DEF Begin
<1> QED BY <1>1, <1>2, <1>3, BecomeOK DEF Begin

LEMMA FinishOK ==
  ASSUME TypeInv, NEW h \in Handlers, NEW s \in {"confirm", "reconcile"}, NEW t \in SettlementState,
         Finish(h, s, t)
  PROVE  TypeInv'
<1>1. req[h].date \in Dates
  BY DEF Finish, TypeInv, TypeOK, Fits
<1> DEFINE u == [settlements[req[h].date] EXCEPT !.state = t]
<1>2. u \in Settlement /\ u.items = settlements[req[h].date].items
  BY <1>1 DEF TypeInv, TypeOK, Settlement
<1>3. settlements' = [settlements EXCEPT ![req[h].date] = u]
  BY DEF Finish
<1>4. NotOverstated(u.items, req[h].date)
  BY <1>1, <1>2 DEF TypeInv
<1> HIDE DEF u
<1> QED BY <1>1, <1>2, <1>3, <1>4, SettlementOK DEF Finish

LEMMA TypeNext == TypeInv /\ [Next]_vars => TypeInv'
<1> SUFFICES ASSUME TypeInv, [Next]_vars PROVE TypeInv'
  OBVIOUS
<1>1. ASSUME NEW h \in Handlers, ConfirmWrite(h) \/ ReconcileWrite(h) PROVE TypeInv'
  BY <1>1, FinishOK DEF ConfirmWrite, ReconcileWrite, SettlementState
<1>2. ASSUME NEW h \in Handlers, NEW d \in Dates, ConfirmRead(h, d) \/ ReconcileRead(h, d) PROVE TypeInv'
  BY <1>2, BeginOK DEF ConfirmRead, ReconcileRead
<1>3. CASE UNCHANGED vars
  BY <1>3 DEF vars, TypeInv, TypeOK, Fits, NotOverstated
<1> QED BY <1>1, <1>2, <1>3, UpsertOK, RecordReadOK, RollUpOK, RetainOK, SettleReadOK, SettlePutOK DEF Next

LEMMA TypeAlways == Spec => []TypeInv
<1> QED BY TypeInit, TypeNext, PTL DEF Spec

(***************************************************************************)
(* Meters, totals, settlements and requests keep their types, and no meter *)
(* retains more readings than the cap.                                     *)
(***************************************************************************)
THEOREM Typing == Spec => []TypeOK
<1>1. TypeInv => TypeOK
  BY DEF TypeInv
<1> QED BY <1>1, TypeAlways, PTL

(***************************************************************************)
(* However readings and settlements overlap, no settlement claims more     *)
(* than was measured.                                                      *)
(***************************************************************************)
THEOREM SettledCovered == Spec => []SettledNotOverstated
<1>1. TypeInv => SettledNotOverstated
  BY DEF TypeInv, NotOverstated, SettledNotOverstated
<1> QED BY <1>1, TypeAlways, PTL

(***************************************************************************)
(* Every standard volume is the raw volume within the factors.             *)
(***************************************************************************)
THEOREM StdBounded == Spec => []StdWithinFactors
<1>1. TypeInv => StdWithinFactors
  BY DEF TypeInv, WithinFactors, StdWithinFactors
<1> QED BY <1>1, TypeAlways, PTL
-----------------------------------------------------------------------------
(***************************************************************************)
(* What the retained readings give, computed from the oldest to the        *)
(* newest.  Facts about it for every sequence are proved by induction on   *)
(* the number of readings: if 0 is in a set, and n + 1 whenever n is, all  *)
(* natural numbers are.                                                    *)
(***************************************************************************)
LEMMA NatSetInduction ==
  ASSUME NEW S, 0 \in S, \A n \in Nat : n \in S => n + 1 \in S
  PROVE  Nat \subseteq S
<1> DEFINE T == {n \in Nat : n \notin S}
<1>1. SUFFICES ASSUME T # {} PROVE FALSE
  OBVIOUS
<1>2. PICK n \in T : \A m \in T : <<m, n>> \notin OpToRel(<, Nat)
  BY <1>1, NatLessThanWellFounded, WFMin
<1>3. n \in Nat /\ n - 1 \in Nat /\ n - 1 \notin S
  <2>1. n \in Nat /\ n \notin S /\ n # 0
    BY <1>2
  <2>2. n - 1 \in Nat /\ (n - 1) + 1 = n
    BY <2>1
  <2> QED BY <2>1, <2>2
<1>4. <<n - 1, n>> \in OpToRel(<, Nat)
  BY <1>3 DEF OpToRel
<1> QED BY <1>2, <1>3, <1>4

Balance == [count : Nat, last : Int, volume : Int]

(* One step of the computation, from the k - 1 oldest readings to the k    *)
(* oldest; and f holds the results of all steps up to the n-th.            *)
Reached(f, rs, d, k) ==
  IF k = 0 THEN NothingRead
  ELSE IF rs[k].date = d THEN Plus(f[k - 1], rs[k].value) ELSE f[k - 1]

Follows(f, rs, d, n) == \A k \in 0 .. n : f[k] = Reached(f, rs, d, k)

RunTo(f, rs, d, n) == f \in [0 .. n -> Balance] /\ Follows(f, rs, d, n)

SameUpTo(rs, qs, n) == \A k \in 1 .. n : rs[k] = qs[k]

LEMMA PlusOK ==
  ASSUME NEW b \in Balance, NEW v \in Int
  PROVE  /\ Plus(b, v) \in Balance
         /\ Plus(b, v).count = b.count + 1
         /\ Plus(b, v).last = v
         /\ Plus(b, v).volume = b.volume + (IF b.count > 0 /\ v > b.last THEN v - b.last ELSE 0)
BY DEF Plus, Balance

LEMMA NothingReadOK == NothingRead \in Balance
BY DEF NothingRead, Balance

LEMMA RunExists ==
  ASSUME NEW rs \in Seq(RawReading), NEW d
  PROVE  \E f : RunTo(f, rs, d, Len(rs))
<1> DEFINE S == {n \in Nat : n =< Len(rs) => \E f : RunTo(f, rs, d, n)}
<1>1. 0 \in S
  <2> DEFINE f == [k \in 0 .. 0 |-> NothingRead]
  <2>1. RunTo(f, rs, d, 0)
    BY NothingReadOK DEF RunTo, Follows, Reached
  <2> QED BY <2>1
<1>2. ASSUME NEW n \in Nat, n \in S PROVE n + 1 \in S
  <2>1. SUFFICES ASSUME n + 1 =< Len(rs) PROVE \E g : RunTo(g, rs, d, n + 1)
    OBVIOUS
  <2>2. PICK f : RunTo(f, rs, d, n)
    BY <1>2, <2>1
  <2> DEFINE new == IF rs[n + 1].date = d THEN Plus(f[n], rs[n + 1].value) ELSE f[n]
             g == [k \in 0 .. n + 1 |-> IF k = n + 1 THEN new ELSE f[k]]
  <2>3. f \in [0 .. n -> Balance] /\ f[n] \in Balance
    BY <2>2 DEF RunTo
  <2>. rs[n + 1].value \in Int
    <3>1. n + 1 \in 1 .. Len(rs)
      BY <2>1
    <3>2. rs[n + 1] \in RawReading
      BY <3>1
    <3> QED BY <3>2 DEF RawReading
  <2>4. new \in Balance
    BY <2>3, PlusOK
  <2> HIDE DEF new
  <2>5. g \in [0 .. n + 1 -> Balance] /\ g[n + 1] = new /\ \A k \in 0 .. n : g[k] = f[k]
    BY <2>3, <2>4
  <2> HIDE DEF g
  <2>6. ASSUME NEW k \in 0 .. n + 1 PROVE g[k] = Reached(g, rs, d, k)
    <3>1. CASE k = n + 1
      <4>1. g[k - 1] = f[n] /\ k # 0
        BY <2>5, <3>1
      <4> QED BY <2>5, <3>1, <4>1 DEF Reached, new
    <3>2. CASE k \in 1 .. n
      <4>1. g[k] = f[k] /\ g[k - 1] = f[k - 1] /\ f[k] = Reached(f, rs, d, k)
        BY <2>2, <2>5, <3>2 DEF RunTo, Follows
      <4> QED BY <3>2, <4>1 DEF Reached
    <3>3. CASE k = 0
      <4>1. g[k] = f[k] /\ f[k] = Reached(f, rs, d, k)
        BY <2>2, <2>5, <3>3 DEF RunTo, Follows
      <4> QED BY <3>3, <4>1 DEF Reached
    <3> QED BY <3>1, <3>2, <3>3
  <2> QED BY <2>5, <2>6 DEF RunTo, Follows
<1>3. Len(rs) \in S
  <2> HIDE DEF S
  <2> QED BY <1>1, <1>2, NatSetInduction
<1> QED BY <1>3

LEMMA RunsAgree ==
  ASSUME NEW rs, NEW qs, NEW d, NEW n \in Nat, NEW f, NEW g,
         Follows(f, rs, d, n), Follows(g, qs, d, n), SameUpTo(rs, qs, n)
  PROVE  f[n] = g[n]
<1> DEFINE S == {k \in Nat : k =< n => f[k] = g[k]}
<1>1. 0 \in S
  BY DEF Follows, Reached
<1>2. ASSUME NEW k \in Nat, k \in S PROVE k + 1 \in S
  <2>1. SUFFICES ASSUME k + 1 =< n PROVE f[k + 1] = g[k + 1]
    OBVIOUS
  <2>2. k + 1 \in 0 .. n /\ k + 1 \in 1 .. n /\ k + 1 # 0 /\ (k + 1) - 1 = k
    BY <2>1
  <2>3. f[k] = g[k] /\ rs[k + 1] = qs[k + 1]
    BY <1>2, <2>1, <2>2 DEF SameUpTo
  <2>4. f[k + 1] = Reached(f, rs, d, k + 1) /\ g[k + 1] = Reached(g, qs, d, k + 1)
    BY <2>2 DEF Follows
  <2> QED BY <2>2, <2>3, <2>4 DEF Reached
<1>3. n \in S
  <2> HIDE DEF S
  <2> QED BY <1>1, <1>2, NatSetInduction
<1> QED BY <1>3

(* Rebuilt is the last result of the run. *)
LEMMA RebuiltByRun ==
  ASSUME NEW rs \in Seq(RawReading), NEW d
  PROVE  /\ Rebuilt(rs, d) \in Balance
         /\ \A f : RunTo(f, rs, d, Len(rs)) => Rebuilt(rs, d) = f[Len(rs)]
<1> DEFINE n == Len(rs)
           g == CHOOSE h : h = [k \in 0 .. n |->
                  IF k = 0 THEN NothingRead
                  ELSE IF rs[k].date = d THEN Plus(h[k - 1], rs[k].value) ELSE h[k - 1]]
<1>0. n \in Nat
  OBVIOUS
<1>1. Rebuilt(rs, d) = g[n]
  BY DEF Rebuilt
<1>2. PICK f : RunTo(f, rs, d, n)
  BY RunExists
<1>3. f = [k \in 0 .. n |->
             IF k = 0 THEN NothingRead
             ELSE IF rs[k].date = d THEN Plus(f[k - 1], rs[k].value) ELSE f[k - 1]]
  BY <1>2 DEF RunTo, Follows, Reached
<1>4. g = [k \in 0 .. n |->
             IF k = 0 THEN NothingRead
             ELSE IF rs[k].date = d THEN Plus(g[k - 1], rs[k].value) ELSE g[k - 1]]
  BY <1>3
<1> HIDE DEF g
<1>5. Follows(g, rs, d, n)
  BY <1>4 DEF Follows, Reached
<1>6. SameUpTo(rs, rs, n)
  BY DEF SameUpTo
<1>7. ASSUME NEW h, RunTo(h, rs, d, n) PROVE g[n] = h[n]
  <2>1. Follows(h, rs, d, n)
    BY <1>7 DEF RunTo
  <2> HIDE DEF n
  <2> QED BY <1>0, <1>5, <1>6, <2>1, RunsAgree
<1>8. f[n] \in Balance
  BY <1>0, <1>2 DEF RunTo
<1> QED BY <1>1, <1>2, <1>7, <1>8

LEMMA RebuiltEmpty == ASSUME NEW d PROVE Rebuilt(<<>>, d) = NothingRead
<1>1. <<>> \in Seq(RawReading) /\ Len(<<>>) = 0
  OBVIOUS
<1>2. PICK f : RunTo(f, <<>>, d, Len(<<>>))
  BY <1>1, RunExists
<1>3. Rebuilt(<<>>, d) = f[Len(<<>>)]
  BY <1>1, <1>2, RebuiltByRun
<1>4. f[0] = Reached(f, <<>>, d, 0)
  BY <1>1, <1>2 DEF RunTo, Follows
<1> QED BY <1>1, <1>3, <1>4 DEF Reached

(* A reading at the end counts on its day. *)
LEMMA RebuiltAppend ==
  ASSUME NEW rs \in Seq(RawReading), NEW rd \in RawReading, NEW d
  PROVE  Rebuilt(Append(rs, rd), d) = IF rd.date = d THEN Plus(Rebuilt(rs, d), rd.value)
                                                    ELSE Rebuilt(rs, d)
<1> DEFINE all == Append(rs, rd)
           n == Len(rs)
<1>1. n \in Nat /\ all \in Seq(RawReading) /\ Len(all) = n + 1 /\ all[n + 1] = rd
      /\ \A k \in 1 .. n : all[k] = rs[k]
  OBVIOUS
<1> HIDE DEF all
<1>2. PICK f : RunTo(f, all, d, n + 1)
  BY <1>1, RunExists
<1>3. PICK g : RunTo(g, rs, d, n)
  BY RunExists
<1>4. Rebuilt(all, d) = f[n + 1]
  BY <1>1, <1>2, RebuiltByRun
<1>5. Rebuilt(rs, d) = g[n]
  BY <1>3, RebuiltByRun
<1> HIDE DEF n
<1>6. Follows(f, all, d, n) /\ Follows(g, rs, d, n) /\ SameUpTo(all, rs, n)
  BY <1>1, <1>2, <1>3 DEF RunTo, Follows, SameUpTo
<1>7. f[n] = g[n]
  BY <1>1, <1>6, RunsAgree
<1>8. f[n + 1] = Reached(f, all, d, n + 1)
  BY <1>1, <1>2 DEF RunTo, Follows
<1>9. n + 1 # 0 /\ (n + 1) - 1 = n
  BY <1>1
<1>10. f[n + 1] = IF rd.date = d THEN Plus(f[n], rd.value) ELSE f[n]
  BY <1>1, <1>8, <1>9 DEF Reached
<1> QED BY <1>4, <1>5, <1>7, <1>10 DEF all

(* Without its oldest reading, a sequence gives as much on another day,    *)
(* and has one reading less on that of the reading.                        *)
LEMMA RebuiltTail ==
  ASSUME NEW rs \in Seq(RawReading), rs # <<>>, NEW d
  PROVE  /\ rs[1].date # d => Rebuilt(Tail(rs), d) = Rebuilt(rs, d)
         /\ rs[1].date = d => Rebuilt(Tail(rs), d).count + 1 = Rebuilt(rs, d).count
<1> DEFINE rest == Tail(rs)
           n == Len(rest)
<1>1. /\ n \in Nat /\ rest \in Seq(RawReading) /\ Len(rs) = n + 1
      /\ \A k \in 1 .. n : rest[k] = rs[k + 1]
  OBVIOUS
<1>2. \A k \in 1 .. n + 1 : rs[k].value \in Int
  <2> SUFFICES ASSUME NEW k \in 1 .. n + 1 PROVE rs[k].value \in Int
    OBVIOUS
  <2>1. rs[k] \in RawReading
    BY <1>1
  <2> QED BY <2>1 DEF RawReading
<1> HIDE DEF rest
<1>3. PICK f : RunTo(f, rest, d, n)
  BY <1>1, RunExists
<1>4. PICK g : RunTo(g, rs, d, n + 1)
  BY <1>1, RunExists
<1>5. Rebuilt(rest, d) = f[n] /\ Rebuilt(rs, d) = g[n + 1]
  BY <1>1, <1>3, <1>4, RebuiltByRun
<1> HIDE DEF n
<1>6. /\ \A k \in 0 .. n : f[k] \in Balance /\ f[k] = Reached(f, rest, d, k)
      /\ \A k \in 0 .. n + 1 : g[k] \in Balance /\ g[k] = Reached(g, rs, d, k)
  BY <1>3, <1>4 DEF RunTo, Follows
<1>7. f[0] = NothingRead /\ g[0] = NothingRead
  BY <1>1, <1>6 DEF Reached
<1>8. g[1] = IF rs[1].date = d THEN Plus(NothingRead, rs[1].value) ELSE NothingRead
  <2>1. 1 \in 0 .. n + 1 /\ 1 - 1 = 0 /\ 1 # 0
    BY <1>1
  <2> QED BY <1>6, <1>7, <2>1 DEF Reached
<1>9. ASSUME NEW k \in Nat, k + 1 =< n
      PROVE  /\ f[k] \in Balance /\ g[k + 1] \in Balance /\ rs[k + 2].value \in Int
             /\ f[k + 1] = IF rs[k + 2].date = d THEN Plus(f[k], rs[k + 2].value) ELSE f[k]
             /\ g[k + 2] = IF rs[k + 2].date = d THEN Plus(g[k + 1], rs[k + 2].value) ELSE g[k + 1]
  <2>1. /\ k \in 0 .. n /\ k + 1 \in 0 .. n /\ k + 1 # 0 /\ (k + 1) - 1 = k /\ k + 1 \in 1 .. n
        /\ k + 1 \in 0 .. n + 1 /\ k + 2 \in 0 .. n + 1 /\ k + 2 # 0 /\ (k + 2) - 1 = k + 1
        /\ k + 2 \in 1 .. n + 1 /\ (k + 1) + 1 = k + 2
    BY <1>1, <1>9
  <2>2. rest[k + 1] = rs[k + 2]
    BY <1>1, <2>1
  <2>3. f[k + 1] = IF rs[k + 2].date = d THEN Plus(f[k], rs[k + 2].value) ELSE f[k]
    BY <1>6, <2>1, <2>2 DEF Reached
  <2>4. g[k + 2] = IF rs[k + 2].date = d THEN Plus(g[k + 1], rs[k + 2].value) ELSE g[k + 1]
    BY <1>6, <2>1 DEF Reached
  <2> QED BY <1>2, <1>6, <2>1, <2>3, <2>4
<1>10. ASSUME rs[1].date # d PROVE f[n] = g[n + 1]
  <2> DEFINE S == {k \in Nat : k =< n => f[k] = g[k + 1]}
  <2>1. 0 \in S
    BY <1>7, <1>8, <1>10
  <2>2. ASSUME NEW k \in Nat, k \in S PROVE k + 1 \in S
    <3>1. SUFFICES ASSUME k + 1 =< n PROVE f[k + 1] = g[k + 2]
      OBVIOUS
    <3>2. f[k] = g[k + 1]
      BY <1>1, <2>2, <3>1
    <3> QED BY <1>9, <3>1, <3>2
  <2>3. n \in S
    <3> HIDE DEF S
    <3> QED BY <1>1, <2>1, <2>2, NatSetInduction
  <2> QED BY <1>1, <2>3
<1>11. ASSUME rs[1].date = d PROVE f[n].count + 1 = g[n + 1].count
  <2> DEFINE S == {k \in Nat : k =< n => f[k].count + 1 = g[k + 1].count}
  <2>1. 0 \in S
    <3>1. 1 \in 1 .. n + 1 /\ rs[1].value \in Int
      BY <1>1, <1>2
    <3>2. g[1].count = NothingRead.count + 1
      <4>1. Plus(NothingRead, rs[1].value).count = NothingRead.count + 1
        BY <3>1, PlusOK, NothingReadOK
      <4> QED BY <1>8, <1>11, <4>1
    <3>3. 0 + 1 = 1
      OBVIOUS
    <3> QED BY <1>7, <3>2, <3>3
  <2>2. ASSUME NEW k \in Nat, k \in S PROVE k + 1 \in S
    <3>1. SUFFICES ASSUME k + 1 =< n PROVE f[k + 1].count + 1 = g[k + 2].count
      OBVIOUS
    <3>2. f[k].count + 1 = g[k + 1].count
      BY <1>1, <2>2, <3>1
    <3>3. CASE rs[k + 2].date = d
      <4>1. f[k + 1].count = f[k].count + 1 /\ g[k + 2].count = g[k + 1].count + 1
        <5>1. /\ f[k + 1] = Plus(f[k], rs[k + 2].value) /\ f[k] \in Balance
              /\ g[k + 2] = Plus(g[k + 1], rs[k + 2].value) /\ g[k + 1] \in Balance
              /\ rs[k + 2].value \in Int
          BY <1>9, <3>1, <3>3
        <5>2. \A b \in Balance, v \in Int : Plus(b, v).count = b.count + 1
          BY PlusOK
        <5>3. Plus(f[k], rs[k + 2].value).count = f[k].count + 1
          BY <5>1, <5>2
        <5>4. Plus(g[k + 1], rs[k + 2].value).count = g[k + 1].count + 1
          BY <5>1, <5>2
        <5> QED BY <5>1, <5>3, <5>4
      <4> QED BY <3>2, <4>1
    <3>4. CASE rs[k + 2].date # d
      <4>1. f[k + 1] = f[k] /\ g[k + 2] = g[k + 1]
        BY <1>9, <3>1, <3>4
      <4> QED BY <3>2, <4>1
    <3> QED BY <3>3, <3>4
  <2>3. n \in S
    <3> HIDE DEF S
    <3> QED BY <1>1, <2>1, <2>2, NatSetInduction
  <2> QED BY <1>1, <2>3
<1> QED BY <1>5, <1>10, <1>11 DEF rest

(***************************************************************************)
(* Of an orderly meter, the retained readings and the totals agree, but    *)
(* for a reading that is in the total and still has to be retained.        *)
(***************************************************************************)
Exclusive ==
  \A m \in Meters \cap Orderly : \A g, h \in Handlers :
    req[g].meter = m /\ req[h].meter = m => g = h

Awaited(h, m, d) == req[h].step = "retain" /\ req[h].meter = m /\ req[h].date = d

Agree(b, t) ==
  /\ b.count =< t.count
  /\ b.count = t.count => b.volume = t.raw /\ (t.count > 0 => b.last = t.last)

RebuildOK(m, d) ==
  /\ (\A h \in Handlers : ~Awaited(h, m, d)) => Agree(Rebuilt(readings[m], d), daily[m][d])
  /\ \A h \in Handlers : Awaited(h, m, d) =>
       Agree(Plus(Rebuilt(readings[m], d), req[h].value), daily[m][d])

RebuildInv ==
  /\ TypeInv
  /\ Exclusive
  /\ \A m \in Meters \cap Orderly, d \in Dates : RebuildOK(m, d)

LEMMA AgreeAfterReading ==
  ASSUME NEW b \in Balance, NEW t \in DailyTotal, Agree(b, t), NEW v \in Int, NEW f
  PROVE  Agree(Plus(b, v), Accumulated(t, v, f))
<1>1. /\ Plus(b, v).count = b.count + 1 /\ Plus(b, v).last = v
      /\ Plus(b, v).volume = b.volume + (IF b.count > 0 /\ v > b.last THEN v - b.last ELSE 0)
  BY PlusOK
<1>2. /\ Accumulated(t, v, f).count = t.count + 1 /\ Accumulated(t, v, f).last = v
      /\ Accumulated(t, v, f).raw = t.raw + (IF t.count = 0 \/ v < t.last THEN 0 ELSE v - t.last)
  BY DEF Accumulated
<1>3. /\ b.count \in Nat /\ b.last \in Int /\ b.volume \in Int
      /\ t.count \in Nat /\ t.last \in Int /\ t.raw \in Int
  BY DEF Balance, DailyTotal
<1>4. /\ b.count =< t.count
      /\ b.count = t.count => b.volume = t.raw /\ (t.count > 0 => b.last = t.last)
  BY DEF Agree
<1> QED BY <1>1, <1>2, <1>3, <1>4 DEF Agree

LEMMA AgreeWithout ==
  ASSUME NEW b \in Balance, NEW c \in Balance, NEW t \in DailyTotal, Agree(b, t),
         c.count + 1 = b.count
  PROVE  Agree(c, t)
<1>1. b.count \in Nat /\ c.count \in Nat /\ t.count \in Nat
  BY DEF Balance, DailyTotal
<1> QED BY <1>1 DEF Agree

LEMMA RetainedAgrees ==
  ASSUME NEW rs \in Seq(RawReading), NEW rd \in RawReading, NEW d, NEW t \in DailyTotal,
         Agree(IF rd.date = d THEN Plus(Rebuilt(rs, d), rd.value) ELSE Rebuilt(rs, d), t)
  PROVE  Agree(Rebuilt(Retained(rs, rd), d), t)
<1> DEFINE all == Append(rs, rd)
<1>1. all \in Seq(RawReading) /\ all # <<>>
  OBVIOUS
<1>2. Agree(Rebuilt(all, d), t)
  BY RebuiltAppend
<1>3. Retained(rs, rd) = all \/ Retained(rs, rd) = Tail(all)
  BY DEF Retained
<1> HIDE DEF all
<1>4. Tail(all) \in Seq(RawReading)
  BY <1>1
<1>5. Rebuilt(all, d) \in Balance /\ Rebuilt(Tail(all), d) \in Balance
  BY <1>1, <1>4, RebuiltByRun
<1>6. Agree(Rebuilt(Tail(all), d), t)
  <2>1. CASE all[1].date # d
    BY <1>1, <1>2, <2>1, RebuiltTail
  <2>2. CASE all[1].date = d
    <3>1. Rebuilt(Tail(all), d).count + 1 = Rebuilt(all, d).count
      BY <1>1, <2>2, RebuiltTail
    <3> QED BY <1>2, <1>5, <3>1, AgreeWithout
  <2> QED BY <2>1, <2>2
<1> QED BY <1>2, <1>3, <1>6

(* A step of a request that neither rolls up nor retains. *)
LEMMA RebuildKept ==
  ASSUME RebuildInv, TypeInv', NEW h \in Handlers, NEW r, Become(h, r),
         UNCHANGED <<daily, readings>>,
         req[h].step # "retain", r.step # "retain",
         \/ r.meter = Nobody
         \/ r.meter \in Orderly => \A g \in Handlers : req[g].meter # r.meter
  PROVE  RebuildInv'
<1>1. req'[h] = r /\ \A g \in Handlers \ {h} : req'[g] = req[g]
  BY DEF Become, RebuildInv, TypeInv, TypeOK
<1>2. Exclusive'
  <2> SUFFICES ASSUME NEW m \in Meters \cap Orderly, NEW g \in Handlers, NEW k \in Handlers,
                      req'[g].meter = m, req'[k].meter = m
               PROVE  g = k
    BY DEF Exclusive
  <2>1. m # Nobody
    BY NobodyOK
  <2>2. CASE g # h /\ k # h
    BY <1>1, <2>2 DEF RebuildInv, Exclusive
  <2>3. CASE g = h \/ k = h
    BY <1>1, <2>1, <2>3
  <2> QED BY <2>2, <2>3
<1>3. ASSUME NEW m \in Meters \cap Orderly, NEW d \in Dates PROVE RebuildOK(m, d)'
  <2>1. \A g \in Handlers : Awaited(g, m, d)' <=> Awaited(g, m, d)
    BY <1>1 DEF Awaited
  <2>2. \A g \in Handlers : Awaited(g, m, d) => req'[g] = req[g]
    BY <1>1 DEF Awaited
  <2>3. RebuildOK(m, d)
    BY DEF RebuildInv
  <2> QED BY <2>1, <2>2, <2>3 DEF RebuildOK
<1> QED BY <1>2, <1>3 DEF RebuildInv

(* The reading counts in the total, and is awaited. *)
LEMMA RollUpRebuild ==
  ASSUME RebuildInv, TypeInv', NEW h \in Handlers, RollUp(h)
  PROVE  RebuildInv'
<1>0. TypeInv
  BY DEF RebuildInv
<1>1. PICK m \in Meters, d \in Dates, v \in Int, f \in Factors :
        req[h].meter = m /\ req[h].date = d /\ req[h].value = v /\ req[h].factor = f
  BY <1>0 DEF RollUp, TypeInv, TypeOK, Fits, Request
<1> DEFINE u == Accumulated(daily[m][d], v, f)
<1>2. daily' = [daily EXCEPT ![m][d] = u] /\ readings' = readings /\ req[h].step = "roll"
  BY <1>1 DEF RollUp
<1>3. /\ daily'[m][d] = u
      /\ \A n \in Meters, e \in Dates : n # m \/ e # d => daily'[n][e] = daily[n][e]
  <2> HIDE DEF u
  <2> QED BY <1>0, <1>2 DEF TypeInv, TypeOK
<1>4. /\ req'[h].step = "retain" /\ req'[h].meter = m /\ req'[h].date = d /\ req'[h].value = v
      /\ \A g \in Handlers \ {h} : req'[g] = req[g]
  BY <1>0, <1>1 DEF RollUp, Become, Recording, TypeInv, TypeOK
<1>5. Exclusive'
  <2>1. \A g \in Handlers : req'[g].meter = req[g].meter
    BY <1>1, <1>4
  <2> QED BY <2>1 DEF RebuildInv, Exclusive
<1>6. ASSUME NEW n \in Meters \cap Orderly, NEW e \in Dates PROVE RebuildOK(n, e)'
  <2>0. RebuildOK(n, e)
    BY DEF RebuildInv
  <2>1. CASE n = m /\ e = d
    <3>1. \A g \in Handlers : g # h => req[g].meter # m
      BY <1>1, <2>1 DEF RebuildInv, Exclusive
    <3>2. \A g \in Handlers : ~Awaited(g, m, d)
      BY <1>2, <3>1 DEF Awaited
    <3>3. \A g \in Handlers : Awaited(g, m, d)' => g = h
      BY <1>4, <3>1 DEF Awaited
    <3>4. Awaited(h, m, d)'
      BY <1>4 DEF Awaited
    <3>5. Agree(Rebuilt(readings[m], d), daily[m][d])
      BY <2>0, <2>1, <3>2 DEF RebuildOK
    <3>6. Rebuilt(readings[m], d) \in Balance /\ daily[m][d] \in DailyTotal
      BY <1>0, RebuiltByRun DEF TypeInv, TypeOK
    <3>7. Agree(Plus(Rebuilt(readings[m], d), v), u)
      BY <3>5, <3>6, AgreeAfterReading
    <3> HIDE DEF u
    <3> QED BY <1>2, <1>3, <1>4, <2>1, <3>3, <3>4, <3>7 DEF RebuildOK
  <2>2. CASE n # m \/ e # d
    <3>1. daily'[n][e] = daily[n][e]
      BY <1>3, <2>2
    <3>2. \A g \in Handlers : Awaited(g, n, e)' <=> Awaited(g, n, e)
      BY <1>1, <1>2, <1>4, <2>2 DEF Awaited
    <3>3. \A g \in Handlers : Awaited(g, n, e) => req'[g] = req[g]
      BY <1>2, <1>4 DEF Awaited
    <3> HIDE DEF u
    <3> QED BY <1>2, <2>0, <3>1, <3>2, <3>3 DEF RebuildOK
  <2> QED BY <2>1, <2>2
<1> QED BY <1>5, <1>6 DEF RebuildInv

(* The reading is retained, perhaps in place of the oldest. *)
LEMMA RetainRebuild ==
  ASSUME RebuildInv, TypeInv', NEW h \in Handlers, Retain(h)
  PROVE  RebuildInv'
<1>0. TypeInv
  BY DEF RebuildInv
<1> DEFINE rd == [date |-> req[h].date, value |-> req[h].value]
<1>1. PICK m \in Meters, d \in Dates, v \in Int :
        req[h].meter = m /\ req[h].date = d /\ req[h].value = v
  BY <1>0 DEF Retain, TypeInv, TypeOK, Fits, Request
<1>2. /\ readings' = [readings EXCEPT ![m] = Retained(readings[m], rd)]
      /\ daily' = daily /\ req[h].step = "retain"
  BY <1>1 DEF Retain
<1>3. rd \in RawReading /\ rd.date = d /\ rd.value = v
  BY <1>1 DEF RawReading
<1> HIDE DEF rd
<1>4. /\ readings'[m] = Retained(readings[m], rd)
      /\ \A n \in Meters : n # m => readings'[n] = readings[n]
  BY <1>0, <1>2 DEF TypeInv, TypeOK
<1>5. /\ req'[h].step = "idle" /\ req'[h].meter = Nobody
      /\ \A g \in Handlers \ {h} : req'[g] = req[g]
  BY <1>0 DEF Retain, Become, Idle, TypeInv, TypeOK
<1>6. Exclusive'
  <2>1. \A n \in Meters, g \in Handlers : req'[g].meter = n => req[g].meter = n
    BY <1>5, NobodyOK
  <2> QED BY <2>1 DEF RebuildInv, Exclusive
<1>7. ASSUME NEW n \in Meters \cap Orderly, NEW e \in Dates PROVE RebuildOK(n, e)'
  <2>0. RebuildOK(n, e)
    BY DEF RebuildInv
  <2>1. CASE n = m
    <3>1. \A g \in Handlers : g # h => req[g].meter # m
      BY <1>1, <2>1 DEF RebuildInv, Exclusive
    <3>2. \A g \in Handlers : ~Awaited(g, m, e)'
      BY <1>5, <3>1 DEF Awaited
    <3>3. readings[m] \in Seq(RawReading) /\ daily[m][e] \in DailyTotal
      BY <1>0 DEF TypeInv, TypeOK
    <3>4. Agree(IF d = e THEN Plus(Rebuilt(readings[m], e), v) ELSE Rebuilt(readings[m], e),
                daily[m][e])
      <4>1. CASE d = e
        <5>1. Awaited(h, m, e)
          BY <1>1, <1>2, <4>1 DEF Awaited
        <5>2. Agree(Plus(Rebuilt(readings[m], e), req[h].value), daily[m][e])
          BY <2>0, <2>1, <5>1 DEF RebuildOK
        <5> QED BY <1>1, <4>1, <5>2
      <4>2. CASE d # e
        <5>1. \A g \in Handlers : ~Awaited(g, m, e)
          BY <1>1, <3>1, <4>2 DEF Awaited
        <5>2. Agree(Rebuilt(readings[m], e), daily[m][e])
          BY <2>0, <2>1, <5>1 DEF RebuildOK
        <5> QED BY <4>2, <5>2
      <4> QED BY <4>1, <4>2
    <3>5. Agree(Rebuilt(Retained(readings[m], rd), e), daily[m][e])
      BY <1>3, <3>3, <3>4, RetainedAgrees
    <3> QED BY <1>2, <1>4, <2>1, <3>2, <3>5 DEF RebuildOK
  <2>2. CASE n # m
    <3>1. readings'[n] = readings[n]
      BY <1>4, <2>2
    <3>2. \A g \in Handlers : Awaited(g, n, e)' <=> Awaited(g, n, e)
      BY <1>1, <1>5, <2>2 DEF Awaited
    <3>3. \A g \in Handlers : Awaited(g, n, e) => req'[g] = req[g]
      BY <1>1, <1>5, <2>2 DEF Awaited
    <3> QED BY <1>2, <2>0, <3>1, <3>2, <3>3 DEF RebuildOK
  <2> QED BY <2>1, <2>2
<1> QED BY <1>6, <1>7 DEF RebuildInv

LEMMA RebuildInit == Init => RebuildInv
<1> SUFFICES ASSUME Init PROVE RebuildInv
  OBVIOUS
<1>1. \A h \in Handlers : req[h].step = "idle" /\ req[h].meter = Nobody
  BY DEF Init, Idle
<1>2. Exclusive
  BY <1>1, NobodyOK DEF Exclusive
<1>3. ASSUME NEW m \in Meters \cap Orderly, NEW d \in Dates PROVE RebuildOK(m, d)
  <2>1. readings[m] = <<>> /\ daily[m][d] = NoTotal
    BY DEF Init
  <2>2. Rebuilt(<<>>, d) = NothingRead
    BY RebuiltEmpty
  <2>3. Agree(NothingRead, NoTotal)
    BY DEF Agree, NothingRead, NoTotal
  <2>4. \A h \in Handlers : ~Awaited(h, m, d)
    BY <1>1 DEF Awaited
  <2> QED BY <2>1, <2>2, <2>3, <2>4 DEF RebuildOK
<1> QED BY <1>2, <1>3, TypeInit DEF RebuildInv

LEMMA RebuildNext == RebuildInv /\ [Next]_vars => RebuildInv'
<1> SUFFICES ASSUME RebuildInv, [Next]_vars PROVE RebuildInv'
  OBVIOUS
<1>0. TypeInv'
  BY TypeNext DEF RebuildInv
<1>1. ASSUME UNCHANGED <<daily, readings, req>> PROVE RebuildInv'
  <2>1. Exclusive'
    BY <1>1 DEF RebuildInv, Exclusive
  <2>2. ASSUME NEW m \in Meters \cap Orderly, NEW d \in Dates PROVE RebuildOK(m, d)'
    <3>1. RebuildOK(m, d)
      BY DEF RebuildInv
    <3> QED BY <1>1, <3>1 DEF RebuildOK, Awaited
  <2> QED BY <1>0, <2>1, <2>2 DEF RebuildInv
<1>2. ASSUME NEW h \in Handlers, NEW m \in Meters, NEW def \in MeterDefs, UpsertMeter(h, m, def)
      PROVE  RebuildInv'
  BY <1>1, <1>2 DEF UpsertMeter
<1>3. ASSUME NEW h \in Handlers, NEW m \in Meters, NEW d \in Dates, NEW v \in Values,
             NEW t \in Temperatures, RecordRead(h, m, d, v, t)
      PROVE  RebuildInv'
  <2>1. PICK f \in Correct(meters[m].bands, t) : Become(h, Recording("roll", m, d, v, f))
    BY <1>3 DEF RecordRead
  <2> DEFINE r == Recording("roll", m, d, v, f)
  <2>2. r.step = "roll" /\ r.meter = m
    BY DEF Recording
  <2>3. /\ req[h].step # "retain" /\ UNCHANGED <<daily, readings>>
        /\ m \in Orderly => \A g \in Handlers : req[g].meter # m
    BY <1>3 DEF RecordRead, IsIdle, MayRecord
  <2> HIDE DEF r
  <2>4. Become(h, r)
    BY <2>1 DEF r
  <2> QED BY <1>0, <2>2, <2>3, <2>4, RebuildKept
<1>4. ASSUME NEW h \in Handlers, NEW r, Become(h, r), UNCHANGED <<daily, readings>>,
             req[h].step # "retain", r.step # "retain", r.meter = Nobody
      PROVE  RebuildInv'
  BY <1>0, <1>4, RebuildKept
<1>5. Idle.step # "retain" /\ Idle.meter = Nobody
  BY DEF Idle
<1>6. \A s, d, its : Settling(s, d, its).step = s /\ Settling(s, d, its).meter = Nobody
  BY DEF Settling
<1>7. ASSUME NEW h \in Handlers, NEW d \in Dates,
             SettleRead(h, d) \/ ConfirmRead(h, d) \/ ReconcileRead(h, d)
      PROVE  RebuildInv'
  <2>1. req[h].step # "retain" /\ UNCHANGED <<daily, readings>>
    BY <1>7 DEF SettleRead, ConfirmRead, ReconcileRead, Begin, IsIdle
  <2>2. \E s \in {"put", "confirm", "reconcile"} : \E its : Become(h, Settling(s, d, its))
    BY <1>7 DEF SettleRead, ConfirmRead, ReconcileRead, Begin
  <2>3. PICK s \in {"put", "confirm", "reconcile"} : \E its : Become(h, Settling(s, d, its))
    BY <2>2
  <2>4. PICK its : Become(h, Settling(s, d, its))
    BY <2>3
  <2> QED BY <1>4, <1>6, <2>1, <2>4
<1>8. ASSUME NEW h \in Handlers, SettlePut(h) \/ ConfirmWrite(h) \/ ReconcileWrite(h)
      PROVE  RebuildInv'
  <2>1. req[h].step # "retain" /\ UNCHANGED <<daily, readings>> /\ Become(h, Idle)
    BY <1>8 DEF SettlePut, ConfirmWrite, ReconcileWrite, Finish
  <2> QED BY <1>4, <1>5, <2>1
<1>9. CASE UNCHANGED vars
  BY <1>1, <1>9 DEF vars
<1> QED BY <1>0, <1>2, <1>3, <1>7, <1>8, <1>9, RollUpRebuild, RetainRebuild DEF Next

(***************************************************************************)
(* While all readings of a day are retained, they give the day's raw       *)
(* volume, for a meter whose readings come one at a time.                  *)
(***************************************************************************)
THEOREM RebuildPossible == Spec => []RebuildMatches
<1>1. ASSUME RebuildInv PROVE RebuildMatches
  <2> SUFFICES ASSUME NEW m \in Meters \cap Orderly, NEW d \in Dates,
                      Rebuilt(readings[m], d).count = daily[m][d].count
               PROVE  Rebuilt(readings[m], d).volume = daily[m][d].raw
    BY DEF RebuildMatches
  <2>0. RebuildOK(m, d)
    BY <1>1 DEF RebuildInv
  <2>1. Rebuilt(readings[m], d) \in Balance
    BY <1>1, RebuiltByRun DEF RebuildInv, TypeInv, TypeOK
  <2>2. CASE \A h \in Handlers : ~Awaited(h, m, d)
    BY <2>0, <2>2 DEF RebuildOK, Agree
  <2>3. CASE \E h \in Handlers : Awaited(h, m, d)
    <3>1. PICK h \in Handlers : Awaited(h, m, d)
      BY <2>3
    <3>2. Agree(Plus(Rebuilt(readings[m], d), req[h].value), daily[m][d])
      BY <2>0, <3>1 DEF RebuildOK
    <3>3. req[h].value \in Int
      BY <1>1 DEF RebuildInv, TypeInv, TypeOK, Request
    <3>4. Plus(Rebuilt(readings[m], d), req[h].value).count = Rebuilt(readings[m], d).count + 1
      BY <2>1, <3>3, PlusOK
    <3>5. Rebuilt(readings[m], d).count \in Nat
      BY <2>1 DEF Balance
    <3> QED BY <3>2, <3>4, <3>5 DEF Agree
  <2> QED BY <2>2, <2>3
<1> QED BY <1>1, RebuildInit, RebuildNext, PTL DEF Spec
=============================================================================
