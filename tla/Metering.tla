------------------------------ MODULE Metering ------------------------------
(***************************************************************************)
(* internal/metering under concurrent requests: readings rolled up into    *)
(* daily totals and retained, and the settlements drawn from the totals.   *)
(* The totals and settlements are under one lock, the retained readings    *)
(* under another; nothing is held from one store call to the next, and one *)
(* action is the stretch of a request up to its next one.                  *)
(*                                                                         *)
(* float64 volumes, temperatures and factors are integers here.  The       *)
(* bounds on readings and settlements are those of the model.              *)
(***************************************************************************)
EXTENDS Integers, Sequences

CONSTANTS
  Meters,        \* the meters
  Dates,         \* the calendar days readings are taken on
  MeterDefs,     \* the definitions Upsert may be given: whether the meter is
                 \* enabled, and its set of bands (lo, hi, factor)
  Values,        \* totalizer values
  Temperatures,
  ReadingCap,    \* how many raw readings are retained per meter
  MaxReadings,   \* bound on the readings per meter and day
  Nobody,        \* "no meter", "no date"
  Handlers,      \* goroutines of the HTTP server: the requests in flight
  Orderly        \* meters whose readings come one at a time (the code lets
                 \* them overlap)

ASSUME ValuesOK == Values \subseteq Int /\ Temperatures \subseteq Int
ASSUME DefsOK ==
  \A def \in MeterDefs :
    /\ def.enabled \in BOOLEAN
    /\ \A b \in def.bands : b.lo \in Int /\ b.hi \in Int /\ b.lo < b.hi /\ b.factor \in Nat \ {0}
ASSUME CapsOK == ReadingCap \in Nat \ {0} /\ MaxReadings \in Nat
ASSUME NobodyOK == Nobody \notin Meters \cup Dates \cup MeterDefs
ASSUME OrderlyOK == Orderly \subseteq Meters

VARIABLES
  meters,        \* meters[m]: the definition, or Nobody
  daily,         \* daily[m][d]: the DailyTotal of a meter and a day
  readings,      \* readings[m]: the raw readings retained, oldest first
  settlements,   \* settlements[d]: the settlement document of a day
  req            \* req[h]: where request h is, and its local variables

vars == <<meters, daily, readings, settlements, req>>

-----------------------------------------------------------------------------
SettlementState == {"draft", "confirmed", "reconciled"}

SettlementTransitions ==
  [ draft      |-> {"confirmed"},
    confirmed  |-> {"reconciled"},
    reconciled |-> {} ]

SettlementMove(src, dst) == src \in SettlementState /\ dst \in SettlementTransitions[src]

DailyTotal == [count : Nat, raw : Int, std : Int, last : Int]
NoTotal == [count |-> 0, raw |-> 0, std |-> 0, last |-> 0]

(* A line of a settlement; all zero for a meter that has no line. *)
LineItem == [raw : Int, std : Int]
Items == [Meters -> LineItem]
NoItems == [m \in Meters |-> [raw |-> 0, std |-> 0]]

Settlement == [state : SettlementState \cup {"none"}, items : Items]
NoSettlement == [state |-> "none", items |-> NoItems]

-----------------------------------------------------------------------------
(***************************************************************************)
(* Correct takes the first band, by lower bound, that has the temperature, *)
(* else the last band if the temperature is its upper bound, else 1.  Of   *)
(* bands with equal lower bounds sort.Slice may put any first.             *)
(***************************************************************************)
Having(bands, t) == {b \in bands : b.lo =< t /\ t < b.hi}
Lowest(bands) == {b \in bands : \A c \in bands : b.lo =< c.lo}
Highest(bands) == {b \in bands : \A c \in bands : c.lo =< b.lo}

Correct(bands, t) ==
  LET factors(bs) == {b.factor : b \in bs} IN
  IF Having(bands, t) # {} THEN factors(Lowest(Having(bands, t)))
  ELSE factors({b \in Highest(bands) : b.hi = t})
         \cup (IF \E b \in Highest(bands) : b.hi # t THEN {1} ELSE {})
         \cup (IF bands = {} THEN {1} ELSE {})

AccumulatedRollover(t, v, f) ==  \* Mutation: a decrease is credited
  LET delta == IF t.count = 0 THEN 0 ELSE v - t.last IN
  [count |-> t.count + 1, raw |-> t.raw + delta, std |-> t.std + delta * f, last |-> v]

AccumulatedStale(t, v, f) ==  \* Mutation: a decrease does not become the new base
  LET delta == IF t.count = 0 \/ v < t.last THEN 0 ELSE v - t.last IN
  [count |-> t.count + 1, raw |-> t.raw + delta, std |-> t.std + delta * f,
   last |-> IF t.count > 0 /\ v < t.last THEN t.last ELSE v]

AccumulatedFull(t, v, f) ==  \* Mutation: the corrected reading is added, not the delta
  LET delta == IF t.count = 0 \/ v < t.last THEN 0 ELSE v - t.last IN
  [count |-> t.count + 1, raw |-> t.raw + delta, std |-> t.std + v * f, last |-> v]

(* The first reading of a day is its base; then the increase since the     *)
(* last reading counts, and a decrease counts as none.                     *)
Accumulated(t, v, f) ==
  LET delta == IF t.count = 0 \/ v < t.last THEN 0 ELSE v - t.last IN
  [count |-> t.count + 1, raw |-> t.raw + delta, std |-> t.std + delta * f, last |-> v]

(* AppendReading's retention. *)
Retained(rs, rd) ==
  LET all == Append(rs, rd) IN
  IF Len(all) > ReadingCap THEN Tail(all) ELSE all

-----------------------------------------------------------------------------
(***************************************************************************)
(* A request's next step:                                                  *)
(*   "roll"      RecordReading, before UpsertDaily                         *)
(*   "retain"    RecordReading, before AppendReading                       *)
(*   "put"       SettleDaily, before PutSettlement                         *)
(*   "confirm", "reconcile"   before UpdateSettlement                      *)
(***************************************************************************)
Step == {"idle", "roll", "retain", "put", "confirm", "reconcile"}

Request ==
  [step : Step, meter : Meters \cup {Nobody}, date : Dates \cup {Nobody},
   value : Int, factor : Nat, items : Items]

Idle == [step |-> "idle", meter |-> Nobody, date |-> Nobody,
         value |-> 0, factor |-> 0, items |-> NoItems]
Recording(s, m, d, v, f) ==
  [step |-> s, meter |-> m, date |-> d, value |-> v, factor |-> f, items |-> NoItems]
Settling(s, d, its) ==
  [step |-> s, meter |-> Nobody, date |-> d, value |-> 0, factor |-> 0, items |-> its]

IsIdle(h) == req[h].step = "idle"
Become(h, r) == req' = [req EXCEPT ![h] = r]

(* What the clients' discipline allows them to send. *)
MayRecord(m) == m \in Orderly => \A g \in Handlers : req[g].meter # m

Init ==
  /\ meters = [m \in Meters |-> Nobody]
  /\ daily = [m \in Meters |-> [d \in Dates |-> NoTotal]]
  /\ readings = [m \in Meters |-> <<>>]
  /\ settlements = [d \in Dates |-> NoSettlement]
  /\ req = [h \in Handlers |-> Idle]

-----------------------------------------------------------------------------
UpsertMeter(h, m, def) ==
  /\ IsIdle(h)
  /\ meters' = [meters EXCEPT ![m] = def]
  /\ UNCHANGED <<daily, readings, settlements, req>>

(* RecordReading: the meter's definition is read, ... *)
RecordRead(h, m, d, v, t) ==
  /\ IsIdle(h)
  /\ MayRecord(m)
  /\ meters[m] # Nobody
  /\ meters[m].enabled
  /\ daily[m][d].count < MaxReadings
  /\ \E f \in Correct(meters[m].bands, t) : Become(h, Recording("roll", m, d, v, f))
  /\ UNCHANGED <<meters, daily, readings, settlements>>

(* ... the total is updated under the lock, ... *)
RollUp(h) ==
  LET r == req[h] IN
  /\ r.step = "roll"
  /\ daily' = [daily EXCEPT ![r.meter][r.date] = Accumulated(@, r.value, r.factor)]
  /\ Become(h, Recording("retain", r.meter, r.date, r.value, r.factor))
  /\ UNCHANGED <<meters, readings, settlements>>

(* ... and the reading is retained under another. *)
Retain(h) ==
  LET r == req[h] IN
  /\ r.step = "retain"
  /\ readings' = [readings EXCEPT ![r.meter] = Retained(@, [date |-> r.date, value |-> r.value])]
  /\ Become(h, Idle)
  /\ UNCHANGED <<meters, daily, settlements>>

-----------------------------------------------------------------------------
(* SettleDaily: one pass over the totals, then a new document in draft, in *)
(* place of the old one whatever its state.                                *)
SettleRead(h, d) ==
  /\ IsIdle(h)
  /\ Become(h, Settling("put", d, [m \in Meters |-> [raw |-> daily[m][d].raw, std |-> daily[m][d].std]]))
  /\ UNCHANGED <<meters, daily, readings, settlements>>

SettlePut(h) ==
  /\ req[h].step = "put"
  /\ settlements' = [settlements EXCEPT ![req[h].date] = [state |-> "draft", items |-> req[h].items]]
  /\ Become(h, Idle)
  /\ UNCHANGED <<meters, daily, readings>>

(* Confirm and Reconcile: Settlement, MustTransition, and the Update. *)
Begin(h, d, target, s) ==
  /\ IsIdle(h)
  /\ SettlementMove(settlements[d].state, target)
  /\ Become(h, Settling(s, d, NoItems))
  /\ UNCHANGED <<meters, daily, readings, settlements>>

Finish(h, s, state) ==
  /\ req[h].step = s
  /\ settlements' = [settlements EXCEPT ![req[h].date].state = state]
  /\ Become(h, Idle)
  /\ UNCHANGED <<meters, daily, readings>>

ConfirmRead(h, d) == Begin(h, d, "confirmed", "confirm")
ConfirmWrite(h) == Finish(h, "confirm", "confirmed")
ReconcileRead(h, d) == Begin(h, d, "reconciled", "reconcile")

ReconcileWrite(h) == Finish(h, "reconcile", "reconciled")

-----------------------------------------------------------------------------
Next == \E h \in Handlers :
  \/ \E m \in Meters, def \in MeterDefs : UpsertMeter(h, m, def)
  \/ \E m \in Meters, d \in Dates, v \in Values, t \in Temperatures : RecordRead(h, m, d, v, t)
  \/ RollUp(h)
  \/ Retain(h)
  \/ \E d \in Dates : SettleRead(h, d)
  \/ SettlePut(h)
  \/ \E d \in Dates : ConfirmRead(h, d)
  \/ ConfirmWrite(h)
  \/ \E d \in Dates : ReconcileRead(h, d)
  \/ ReconcileWrite(h)

Spec == Init /\ [][Next]_vars

-----------------------------------------------------------------------------
RawReading == [date : Dates, value : Int]

TypeOK ==
  /\ meters \in [Meters -> MeterDefs \cup {Nobody}]
  /\ daily \in [Meters -> [Dates -> DailyTotal]]
  /\ readings \in [Meters -> Seq(RawReading)]
  /\ \A m \in Meters : Len(readings[m]) =< ReadingCap
  /\ settlements \in [Dates -> Settlement]
  /\ req \in [Handlers -> Request]

(***************************************************************************)
(* However readings and settlements overlap, no settlement claims more     *)
(* than was measured: its lines are at most the daily totals, which never  *)
(* go down, a totalizer's reset or rollover included.                      *)
(***************************************************************************)
SettledNotOverstated ==
  \A d \in Dates, m \in Meters :
    /\ settlements[d].items[m].raw =< daily[m][d].raw
    /\ settlements[d].items[m].std =< daily[m][d].std

(***************************************************************************)
(* The standard volume is the raw volume, corrected: whichever factors     *)
(* were in force, reading by reading, it is at least the raw volume times  *)
(* the least of them and at most the raw volume times the greatest.        *)
(***************************************************************************)
Factors == {1} \cup UNION {{b.factor : b \in def.bands} : def \in MeterDefs}

StdWithinFactors ==
  \A m \in Meters, d \in Dates :
    /\ \E f \in Factors : daily[m][d].std >= f * daily[m][d].raw
    /\ \E f \in Factors : daily[m][d].std =< f * daily[m][d].raw

(***************************************************************************)
(* "Retained for later settlement rebuild" (metering/store.go:131): while  *)
(* all readings of a day are retained, they give the day's raw volume, for *)
(* a meter whose readings come one at a time.  (Two at a time may be       *)
(* retained in the other order.)                                           *)
(***************************************************************************)
NothingRead == [count |-> 0, last |-> 0, volume |-> 0]

Plus(b, v) ==
  [count |-> b.count + 1, last |-> v,
   volume |-> b.volume + (IF b.count > 0 /\ v > b.last THEN v - b.last ELSE 0)]

(* What the readings of day d among rs give. *)
Rebuilt(rs, d) ==
  LET upTo[k \in 0 .. Len(rs)] ==
        IF k = 0 THEN NothingRead
        ELSE IF rs[k].date = d THEN Plus(upTo[k - 1], rs[k].value) ELSE upTo[k - 1]
  IN  upTo[Len(rs)]

RebuildMatches ==
  \A m \in Meters \cap Orderly, d \in Dates :
    LET b == Rebuilt(readings[m], d) IN
    b.count = daily[m][d].count => b.volume = daily[m][d].raw
=============================================================================
