---------------------------- MODULE AlarmProofs ----------------------------
(***************************************************************************)
(* The theorems about module Alarm, for any number of points, alarms and   *)
(* concurrent requests.                                                    *)
(***************************************************************************)
EXTENDS Alarm, FiniteSetTheorems, TLAPS

(* The requests and the alarms they work on, beyond their types.           *)
RequestOK(h) ==
  /\ req[h].step = "raise" => req[h].todo > 0
  /\ req[h].step \in {"raise", "sink", "clear"} => req[h].point \in Points
  /\ req[h].step \in {"sink", "ack", "resolve"} =>
       /\ req[h].alarm \in Alarms
       /\ alarms[req[h].alarm].state # "none"
       /\ req[h].point = alarms[req[h].alarm].point

(* A stored alarm has a point, and the index holds alarms of its points.   *)
StoreOK ==
  /\ \A a \in Alarms : alarms[a].state # "none" => alarms[a].point \in Points
  /\ \A p \in Points : active[p] # None =>
       alarms[active[p]].state # "none" /\ alarms[active[p]].point = p

TypeInv == TypeOK /\ StoreOK /\ \A h \in Handlers : RequestOK(h)

-----------------------------------------------------------------------------
(* The ring keeps at most BufCap readings. *)
LEMMA KeepFits ==
  ASSUME NEW s \in Seq(Reading), Len(s) =< BufCap, NEW rd \in Reading
  PROVE  Keep(s, rd) \in Seq(Reading) /\ Len(Keep(s, rd)) =< BufCap
<1>1. CASE Len(s) = BufCap
  <2>1. s # <<>>
    BY <1>1, ReadingsOK, BufCapOK
  <2>2. Tail(s) \in Seq(Reading) /\ Len(Tail(s)) = Len(s) - 1
    BY <2>1
  <2> QED BY <1>1, <2>2, ReadingsOK, BufCapOK DEF Keep
<1>2. CASE Len(s) # BufCap
  <2>1. Len(s) \in Nat
    OBVIOUS
  <2> QED BY <1>2, <2>1, ReadingsOK, BufCapOK DEF Keep
<1> QED BY <1>1, <1>2

(* A reading breaks finitely many rules. *)
LEMMA HitsFinite ==
  ASSUME TypeOK, NEW p \in Points, NEW s
  PROVE  Cardinality(Hits(p, s)) \in Nat /\ (Hits(p, s) # {} => Cardinality(Hits(p, s)) > 0)
<1>1. IsFiniteSet(rules)
  BY RulesFinite, FS_Subset DEF TypeOK
<1>2. IsFiniteSet({PointRule(p)})
  BY FS_Singleton
<1>3. IsFiniteSet({r \in rules : r.point = p})
  BY <1>1, FS_Subset
<1>4. IsFiniteSet(RulesFor(p))
  BY <1>1, <1>2, <1>3 DEF RulesFor
<1>5. IsFiniteSet(Hits(p, s))
  <2>1. Hits(p, s) \subseteq RulesFor(p)
    BY DEF Hits
  <2> QED BY <1>4, <2>1, FS_Subset
<1>6. Cardinality(Hits(p, s)) \in Nat /\ (Cardinality(Hits(p, s)) = 0 <=> Hits(p, s) = {})
  BY <1>5, FS_CardinalityType, FS_EmptySet
<1> QED BY <1>6

-----------------------------------------------------------------------------
(* What each store method does to the store's part of the invariant.       *)
LEMMA AddAlarmOK ==
  ASSUME AlarmTypeOK, StoreOK, NEW a \in FreshAlarms, NEW p \in Points, AddAlarm(a, p)
  PROVE  /\ AlarmTypeOK' /\ StoreOK'
         /\ alarms'[a].state # "none" /\ alarms'[a].point = p
         /\ \A b \in Alarms : alarms[b].state # "none" =>
              alarms'[b].state # "none" /\ alarms'[b].point = alarms[b].point
BY AlarmPointsOK, NoneOK
DEF AlarmTypeOK, StoreOK, AddAlarm, FreshAlarms, AlarmRecord, AlarmState, IsActive

LEMMA UpdateAlarmOK ==
  ASSUME AlarmTypeOK, StoreOK, NEW a \in Alarms, alarms[a].state # "none",
         NEW s \in AlarmState, UpdateAlarm(a, s)
  PROVE  /\ AlarmTypeOK' /\ StoreOK'
         /\ \A b \in Alarms : alarms[b].state # "none" =>
              alarms'[b].state # "none" /\ alarms'[b].point = alarms[b].point
BY AlarmPointsOK, NoneOK
DEF AlarmTypeOK, StoreOK, UpdateAlarm, AlarmRecord, AlarmState

LEMMA ResolveActiveOK ==
  ASSUME AlarmTypeOK, StoreOK, NEW p \in Points, ResolveActiveForPoint(p)
  PROVE  /\ AlarmTypeOK' /\ StoreOK'
         /\ \A b \in Alarms : alarms[b].state # "none" =>
              alarms'[b].state # "none" /\ alarms'[b].point = alarms[b].point
BY AlarmPointsOK, NoneOK
DEF AlarmTypeOK, StoreOK, ResolveActiveForPoint, AlarmRecord, AlarmState

(* A request that becomes a well-formed r keeps the requests well formed   *)
(* when the stored alarms stay stored and about their points.              *)
LEMMA BecomeOK ==
  ASSUME TypeInv, NEW h \in Handlers, NEW r \in Request, Become(h, r),
         \A b \in Alarms : alarms[b].state # "none" =>
           alarms'[b].state # "none" /\ alarms'[b].point = alarms[b].point,
         r.step = "raise" => r.todo > 0,
         r.step \in {"raise", "sink", "clear"} => r.point \in Points,
         r.step \in {"sink", "ack", "resolve"} =>
           r.alarm \in Alarms /\ alarms'[r.alarm].state # "none" /\ r.point = alarms'[r.alarm].point
  PROVE  req' \in [Handlers -> Request] /\ \A g \in Handlers : RequestOK(g)'
<1>1. req \in [Handlers -> Request] /\ \A g \in Handlers : RequestOK(g)
  BY DEF TypeInv, TypeOK
<1>2. req' = [req EXCEPT ![h] = r]
  BY DEF Become
<1>3. req' \in [Handlers -> Request] /\ req'[h] = r /\ \A g \in Handlers : g # h => req'[g] = req[g]
  BY <1>1, <1>2
<1>4. ASSUME NEW g \in Handlers PROVE RequestOK(g)'
  <2>1. CASE g = h
    BY <1>3, <2>1 DEF RequestOK
  <2>2. CASE g # h
    <3>1. RequestOK(g) /\ req'[g] = req[g]
      BY <1>1, <1>3, <2>2
    <3> QED BY <3>1 DEF RequestOK
  <2> QED BY <2>1, <2>2
<1> QED BY <1>3, <1>4

(* Every request record is a request. *)
LEMMA Records ==
  /\ Idle \in Request
  /\ \A p \in Points, k \in Nat : Raising(p, k) \in Request
  /\ \A p \in Points, a \in Alarms, k \in Nat : Sinking(p, a, k) \in Request
  /\ \A p \in Points : Clearing(p) \in Request
  /\ \A a \in Alarms, s \in {"ack", "resolve"} :
       alarms[a].point \in Points => Handling(s, a) \in Request
BY DEF Idle, Raising, Sinking, Clearing, Handling, Request, Step

-----------------------------------------------------------------------------
LEMMA TypeInit == Init => TypeInv
<1> SUFFICES ASSUME Init PROVE TypeInv
  OBVIOUS
<1>1. ZeroDef \in PointDefs \cup {ZeroDef} /\ BufCap >= 0
  BY ReadingsOK, BufCapOK
<1>2. points \in [Points -> [known : BOOLEAN, def : PointDefs \cup {ZeroDef}]]
  BY <1>1 DEF Init, TelemetryInit, HistoryInit
<1>3. hist \in [Points -> Seq(Reading)] /\ \A p \in Points : Len(hist[p]) =< BufCap
  BY <1>1 DEF Init, TelemetryInit, HistoryInit
<1>4. AlarmTypeOK /\ StoreOK
  BY AlarmPointsOK, NoneOK
  DEF Init, AlarmInit, AlarmTypeOK, StoreOK, AlarmRecord, NoAlarm, AlarmState
<1>5. req \in [Handlers -> Request] /\ \A h \in Handlers : RequestOK(h)
  BY DEF Init, Idle, Request, Step, RequestOK
<1> QED BY <1>2, <1>3, <1>4, <1>5 DEF TypeInv, TypeOK, Init, TelemetryInit, HistoryInit

LEMMA TypeNext == TypeInv /\ [Next]_vars => TypeInv'
<1> SUFFICES ASSUME TypeInv, [Next]_vars PROVE TypeInv'
  OBVIOUS
<1> USE DEF TypeInv
<1> DEFINE TelemetryOK ==
      /\ points \in [Points -> [known : BOOLEAN, def : PointDefs \cup {ZeroDef}]]
      /\ rules \subseteq RuleDefs
      /\ hist \in [Points -> Seq(Reading)]
      /\ \A p \in Points : Len(hist[p]) =< BufCap
      /\ serving \in BOOLEAN
<1>t. TelemetryOK /\ AlarmTypeOK /\ StoreOK /\ notified \subseteq Alarms
  BY DEF TypeOK
<1>u. TelemetryOK' /\ AlarmTypeOK' /\ StoreOK' /\ (notified \subseteq Alarms)'
      /\ (req \in [Handlers -> Request])' /\ (\A h \in Handlers : RequestOK(h))' => TypeInv'
  BY DEF TypeOK
<1>s. UNCHANGED alarmVars => AlarmTypeOK' /\ StoreOK' /\ alarms' = alarms
  BY <1>t DEF alarmVars, AlarmTypeOK, StoreOK
<1>m. UNCHANGED telemetryVars => TelemetryOK'
  BY <1>t DEF telemetryVars
<1> HIDE DEF TelemetryOK, TypeInv
<1>1. CASE Seed
  <2>1. UNCHANGED <<alarms, active, notified, req>>
    BY <1>1 DEF Seed
  <2>2. TelemetryOK'
    <3>1. ASSUME NEW p \in Points, NEW d \in PointDefs, RegisterPoint(p, d) PROVE TelemetryOK'
      BY <3>1, <1>t DEF RegisterPoint, TelemetryOK
    <3>2. ASSUME NEW r \in RuleDefs, AddRule(r) PROVE TelemetryOK'
      BY <3>2, <1>t DEF AddRule, TelemetryOK
    <3>3. ASSUME ListenAndServe PROVE TelemetryOK'
      BY <3>3, <1>t DEF ListenAndServe, TelemetryOK
    <3> QED BY <1>1, <3>1, <3>2, <3>3 DEF Seed
  <2>3. (req \in [Handlers -> Request])' /\ (\A h \in Handlers : RequestOK(h))'
    BY <2>1 DEF TypeInv, TypeOK, RequestOK
  <2>4. AlarmTypeOK' /\ StoreOK'
    BY <2>1, <1>s DEF alarmVars
  <2> QED BY <1>t, <1>u, <2>1, <2>2, <2>3, <2>4
<1>2. ASSUME NEW h \in Handlers, NEW p \in Points, NEW rd \in Reading, Ingest(h, p, rd)
      PROVE TypeInv'
  <2> DEFINE hits == Hits(p, Append(hist[p], rd))
  <2>1. UNCHANGED <<alarms, active, notified>> /\ AppendReading(p, rd)
        /\ Become(h, AfterReading(p, hits))
    BY <1>2 DEF Ingest
  <2>2. \/ AfterReading(p, hits) = Idle
        \/ AfterReading(p, hits) = Clearing(p)
        \/ AfterReading(p, hits) = Raising(p, Cardinality(hits)) /\ hits # {}
    BY DEF AfterReading
  <2>3. Cardinality(hits) \in Nat /\ (hits # {} => Cardinality(hits) > 0)
    BY HitsFinite DEF TypeInv
  <2>4. TelemetryOK'
    <3>1. hist[p] \in Seq(Reading) /\ Len(hist[p]) =< BufCap
      BY <1>t DEF TelemetryOK
    <3>2. Keep(hist[p], rd) \in Seq(Reading) /\ Len(Keep(hist[p], rd)) =< BufCap
      BY <3>1, KeepFits
    <3> QED BY <1>t, <2>1, <3>2 DEF AppendReading, Record, TelemetryOK
  <2>5. alarms' = alarms /\ AlarmTypeOK' /\ StoreOK'
    BY <2>1, <1>s DEF alarmVars
  <2> HIDE DEF hits
  <2>6. CASE AfterReading(p, hits) = Idle
    <3>1. (req \in [Handlers -> Request])' /\ (\A g \in Handlers : RequestOK(g))'
      BY <2>1, <2>5, <2>6, BecomeOK, Records DEF Idle
    <3> QED BY <1>t, <1>u, <2>1, <2>4, <2>5, <3>1
  <2>7. CASE AfterReading(p, hits) = Clearing(p)
    <3>1. (req \in [Handlers -> Request])' /\ (\A g \in Handlers : RequestOK(g))'
      BY <2>1, <2>5, <2>7, BecomeOK, Records DEF Clearing
    <3> QED BY <1>t, <1>u, <2>1, <2>4, <2>5, <3>1
  <2>8. CASE AfterReading(p, hits) = Raising(p, Cardinality(hits)) /\ hits # {}
    <3>1. (req \in [Handlers -> Request])' /\ (\A g \in Handlers : RequestOK(g))'
      BY <2>1, <2>3, <2>5, <2>8, BecomeOK, Records DEF Raising
    <3> QED BY <1>t, <1>u, <2>1, <2>4, <2>5, <3>1
  <2> QED BY <2>2, <2>6, <2>7, <2>8
<1>3. ASSUME NEW h \in Handlers, NEW a \in Alarms, Raise(h, a) PROVE TypeInv'
  <2>1. req[h].step = "raise" /\ req[h].point \in Points /\ req[h].todo > 0 /\ req[h].todo \in Nat
    BY <1>3 DEF Raise, TypeInv, TypeOK, RequestOK, Request
  <2>2. AddAlarm(a, req[h].point) /\ a \in FreshAlarms /\ UNCHANGED telemetryVars /\ notified' = notified
        /\ Become(h, Sinking(req[h].point, a, req[h].todo - 1))
    BY <1>3 DEF Raise
  <2>3. /\ AlarmTypeOK' /\ StoreOK'
        /\ alarms'[a].state # "none" /\ alarms'[a].point = req[h].point
        /\ \A b \in Alarms : alarms[b].state # "none" =>
             alarms'[b].state # "none" /\ alarms'[b].point = alarms[b].point
    BY <1>t, <2>1, <2>2, AddAlarmOK
  <2>4. req[h].todo - 1 \in Nat
    BY <2>1
  <2>5. (req \in [Handlers -> Request])' /\ (\A g \in Handlers : RequestOK(g))'
    <3>1. Sinking(req[h].point, a, req[h].todo - 1) \in Request
      BY <2>1, <2>4, Records
    <3> QED BY <2>1, <2>2, <2>3, <3>1, BecomeOK DEF Sinking
  <2> QED BY <1>t, <1>u, <1>m, <2>2, <2>3, <2>5
<1>4. ASSUME NEW h \in Handlers, Sink(h) PROVE TypeInv'
  <2>1. req[h].step = "sink" /\ req[h].point \in Points /\ req[h].alarm \in Alarms /\ req[h].todo \in Nat
    BY <1>4 DEF Sink, TypeInv, TypeOK, RequestOK, Request
  <2>2. UNCHANGED telemetryVars /\ UNCHANGED alarmVars /\ notified' = notified \cup {req[h].alarm}
        /\ Become(h, IF req[h].todo = 0 THEN Idle ELSE Raising(req[h].point, req[h].todo))
    BY <1>4 DEF Sink
  <2>3. (req \in [Handlers -> Request])' /\ (\A g \in Handlers : RequestOK(g))'
    <3>1. CASE req[h].todo = 0
      BY <1>s, <2>1, <2>2, <3>1, BecomeOK, Records DEF Idle
    <3>2. CASE req[h].todo # 0
      BY <1>s, <2>1, <2>2, <3>2, BecomeOK, Records DEF Raising
    <3> QED BY <3>1, <3>2
  <2> QED BY <1>t, <1>u, <1>m, <1>s, <2>1, <2>2, <2>3
<1>5. ASSUME NEW h \in Handlers, Clear(h) PROVE TypeInv'
  <2>1. req[h].point \in Points
    BY <1>5 DEF Clear, TypeInv, RequestOK
  <2>2. UNCHANGED telemetryVars /\ notified' = notified /\ Become(h, Idle)
        /\ ResolveActiveForPoint(req[h].point)
    BY <1>5 DEF Clear
  <2>3. /\ AlarmTypeOK' /\ StoreOK'
        /\ \A b \in Alarms : alarms[b].state # "none" =>
             alarms'[b].state # "none" /\ alarms'[b].point = alarms[b].point
    BY <1>t, <2>1, <2>2, ResolveActiveOK
  <2>4. (req \in [Handlers -> Request])' /\ (\A g \in Handlers : RequestOK(g))'
    BY <2>2, <2>3, BecomeOK, Records DEF Idle
  <2> QED BY <1>t, <1>u, <1>m, <2>2, <2>3, <2>4
<1>6. ASSUME NEW h \in Handlers, NEW a \in Alarms, NEW t, NEW s \in {"ack", "resolve"}, Begin(h, a, t, s)
      PROVE TypeInv'
  <2>1. alarms[a].state # "none" /\ alarms[a].point \in Points
    BY <1>6, <1>t DEF Begin, AlarmMove, AlarmState, StoreOK
  <2>2. UNCHANGED telemetryVars /\ UNCHANGED alarmVars /\ notified' = notified
        /\ Become(h, Handling(s, a))
    BY <1>6 DEF Begin
  <2>3. (req \in [Handlers -> Request])' /\ (\A g \in Handlers : RequestOK(g))'
    BY <1>s, <2>1, <2>2, BecomeOK, Records DEF Handling
  <2> QED BY <1>t, <1>u, <1>m, <1>s, <2>2, <2>3
<1>7. ASSUME NEW h \in Handlers, AckWrite(h) PROVE TypeInv'
  <2>1. req[h].alarm \in Alarms /\ alarms[req[h].alarm].state # "none"
    BY <1>7 DEF AckWrite, TypeInv, RequestOK
  <2>2. UNCHANGED telemetryVars /\ notified' = notified /\ Become(h, Idle)
        /\ UpdateAlarm(req[h].alarm, "acknowledged")
    BY <1>7 DEF AckWrite
  <2>3. /\ AlarmTypeOK' /\ StoreOK'
        /\ \A b \in Alarms : alarms[b].state # "none" =>
             alarms'[b].state # "none" /\ alarms'[b].point = alarms[b].point
    BY <1>t, <2>1, <2>2, UpdateAlarmOK DEF AlarmState
  <2>4. (req \in [Handlers -> Request])' /\ (\A g \in Handlers : RequestOK(g))'
    BY <2>2, <2>3, BecomeOK, Records DEF Idle
  <2> QED BY <1>t, <1>u, <1>m, <2>2, <2>3, <2>4
<1>8. ASSUME NEW h \in Handlers, ResolveWrite(h) PROVE TypeInv'
  <2>1. req[h].alarm \in Alarms /\ alarms[req[h].alarm].state # "none" /\ req[h].point \in Points
    BY <1>8, <1>t DEF ResolveWrite, TypeInv, RequestOK, StoreOK
  <2>2. UNCHANGED telemetryVars /\ notified' = notified /\ Become(h, Clearing(req[h].point))
        /\ UpdateAlarm(req[h].alarm, "resolved")
    BY <1>8 DEF ResolveWrite
  <2>3. /\ AlarmTypeOK' /\ StoreOK'
        /\ \A b \in Alarms : alarms[b].state # "none" =>
             alarms'[b].state # "none" /\ alarms'[b].point = alarms[b].point
    BY <1>t, <2>1, <2>2, UpdateAlarmOK DEF AlarmState
  <2>4. (req \in [Handlers -> Request])' /\ (\A g \in Handlers : RequestOK(g))'
    BY <2>1, <2>2, <2>3, BecomeOK, Records DEF Clearing
  <2> QED BY <1>t, <1>u, <1>m, <2>2, <2>3, <2>4
<1>9. CASE UNCHANGED vars
  BY <1>9 DEF vars, TypeInv, TypeOK, AlarmTypeOK, StoreOK, RequestOK
<1> QED BY <1>1, <1>2, <1>3, <1>4, <1>5, <1>6, <1>7, <1>8, <1>9
        DEF Next, Call, Continue, AckRead, ResolveRead

(* Every record and every request keeps its type, a ring holds no more     *)
(* than its capacity, for any number of requests.                          *)
THEOREM Typing == Spec => []TypeOK
<1>1. TypeInv => TypeOK
  BY DEF TypeInv
<1> QED BY TypeInit, TypeNext, <1>1, PTL DEF Spec

-----------------------------------------------------------------------------
(* The steps, as far as the alarm store and the requests that are to clear *)
(* a point are concerned: eight actions, four effects.                     *)
LEMMA Effects ==
  ASSUME TypeInv, [Next]_vars
  PROVE  \/ /\ UNCHANGED alarmVars
            /\ \A h \in Handlers : req[h].step = "clear" => req'[h] = req[h]
         \/ \E h \in Handlers, a \in FreshAlarms :
              /\ req[h].point \in Points
              /\ AddAlarm(a, req[h].point)
              /\ \A g \in Handlers : req[g].step = "clear" => req'[g] = req[g]
         \/ \E h \in Handlers :
              /\ req[h].point \in Points
              /\ ResolveActiveForPoint(req[h].point)
              /\ \A g \in Handlers \ {h} : req'[g] = req[g]
         \/ \E h \in Handlers, s \in {"acknowledged", "resolved"} :
              /\ req[h].alarm \in Alarms
              /\ alarms[req[h].alarm].state # "none"
              /\ UpdateAlarm(req[h].alarm, s)
              /\ s = "resolved" => /\ req'[h].step = "clear"
                                   /\ req'[h].point = alarms[req[h].alarm].point
              /\ \A g \in Handlers : req[g].step = "clear" => req'[g] = req[g]
<1> DEFINE Kept == \A h \in Handlers : req[h].step = "clear" => req'[h] = req[h]
<1>0. req \in [Handlers -> Request] /\ \A h \in Handlers : RequestOK(h)
  BY DEF TypeInv, TypeOK
<1>1. CASE Seed
  BY <1>1 DEF Seed, alarmVars
<1>2. ASSUME NEW h \in Handlers, NEW p \in Points, NEW rd \in Reading, Ingest(h, p, rd)
      PROVE UNCHANGED alarmVars /\ Kept
  BY <1>0, <1>2 DEF Ingest, alarmVars, IsIdle, Become
<1>3. ASSUME NEW h \in Handlers, NEW a \in Alarms, Raise(h, a)
      PROVE /\ a \in FreshAlarms /\ req[h].point \in Points
            /\ AddAlarm(a, req[h].point) /\ Kept
  BY <1>0, <1>3 DEF Raise, Become, RequestOK
<1>4. ASSUME NEW h \in Handlers, Sink(h) PROVE UNCHANGED alarmVars /\ Kept
  BY <1>0, <1>4 DEF Sink, Become
<1>5. ASSUME NEW h \in Handlers, Clear(h)
      PROVE /\ req[h].point \in Points /\ ResolveActiveForPoint(req[h].point)
            /\ \A g \in Handlers \ {h} : req'[g] = req[g]
  BY <1>0, <1>5 DEF Clear, Become, RequestOK
<1>6. ASSUME NEW h \in Handlers, NEW a \in Alarms, AckRead(h, a) \/ ResolveRead(h, a)
      PROVE UNCHANGED alarmVars /\ Kept
  BY <1>0, <1>6 DEF AckRead, ResolveRead, Begin, IsIdle, Become
<1>7. ASSUME NEW h \in Handlers, AckWrite(h)
      PROVE /\ req[h].alarm \in Alarms /\ alarms[req[h].alarm].state # "none"
            /\ UpdateAlarm(req[h].alarm, "acknowledged") /\ Kept
  BY <1>0, <1>7 DEF AckWrite, Become, RequestOK
<1>8. ASSUME NEW h \in Handlers, ResolveWrite(h)
      PROVE /\ req[h].alarm \in Alarms /\ alarms[req[h].alarm].state # "none"
            /\ UpdateAlarm(req[h].alarm, "resolved") /\ Kept
            /\ req'[h].step = "clear" /\ req'[h].point = alarms[req[h].alarm].point
  BY <1>0, <1>8 DEF ResolveWrite, Become, RequestOK, Clearing
<1>9. CASE UNCHANGED vars
  BY <1>9 DEF vars, alarmVars
<1> QED BY <1>1, <1>2, <1>3, <1>4, <1>5, <1>6, <1>7, <1>8, <1>9 DEF Next, Call, Continue

(***************************************************************************)
(* Both invariants of the index, from the effects of the steps.            *)
(***************************************************************************)
LEMMA IndexNext ==
  ASSUME TypeInv, ActiveIsIndexed, IndexNotStale, [Next]_vars
  PROVE  ActiveIsIndexed' /\ IndexNotStale'
<1>0. /\ AlarmTypeOK /\ StoreOK
      /\ alarms \in [Alarms -> AlarmRecord] /\ active \in [Points -> Alarms \cup {None}]
  BY AlarmPointsOK DEF TypeInv, TypeOK, AlarmTypeOK
<1>n. None \notin Alarms
  BY NoneOK
<1>1. ASSUME UNCHANGED alarmVars,
             \A h \in Handlers : req[h].step = "clear" => req'[h] = req[h]
      PROVE ActiveIsIndexed' /\ IndexNotStale'
  BY <1>1 DEF ActiveIsIndexed, IndexNotStale, IsActive, alarmVars
<1>2. ASSUME NEW p \in Points, NEW a \in FreshAlarms, AddAlarm(a, p),
             \A g \in Handlers : req[g].step = "clear" => req'[g] = req[g]
      PROVE ActiveIsIndexed' /\ IndexNotStale'
  <2>1. /\ a \in Alarms /\ alarms[a].state = "none"
        /\ alarms'[a].state = "active" /\ alarms'[a].point = p
        /\ active'[p] = a /\ \A q \in Points : q # p => active'[q] = active[q]
    BY <1>0, <1>2 DEF AddAlarm, FreshAlarms
  <2>2. ASSUME NEW b \in Alarms, b # a
        PROVE /\ alarms'[b].point = alarms[b].point
              /\ alarms'[b].state = IF b = active[p] /\ alarms[b].state = "active" THEN "resolved" ELSE alarms[b].state
    BY <1>0, <1>2, <2>2 DEF AddAlarm, IsActive, AlarmRecord
  <2>3. ActiveIsIndexed'
    <3>1. ASSUME NEW b \in Alarms, alarms'[b].state = "active" PROVE active'[alarms'[b].point] = b
      <4>1. CASE b = a
        BY <2>1, <4>1
      <4>2. CASE b # a
        <5>1. alarms[b].state = "active" /\ b # active[p] /\ alarms'[b].point = alarms[b].point
          BY <2>2, <3>1, <4>2
        <5>2. active[alarms[b].point] = b /\ alarms[b].point \in Points
          BY <1>0, <5>1 DEF ActiveIsIndexed, IsActive, StoreOK
        <5> QED BY <2>1, <5>1, <5>2
      <4> QED BY <4>1, <4>2
    <3> QED BY <3>1 DEF ActiveIsIndexed, IsActive
  <2>4. IndexNotStale'
    <3>1. ASSUME NEW q \in Points, active'[q] # None, alarms'[active'[q]].state = "resolved"
          PROVE \E h \in Handlers : req'[h].step = "clear" /\ req'[h].point = q
      <4>1. q # p /\ active'[q] = active[q]
        BY <2>1, <3>1
      <4>2. active[q] \in Alarms /\ alarms[active[q]].state # "none" /\ alarms[active[q]].point = q
        BY <1>0, <3>1, <4>1 DEF StoreOK
      <4>3. active[q] # active[p]
        BY <1>0, <1>n, <4>1, <4>2 DEF StoreOK
      <4>4. alarms[active[q]].state = "resolved"
        BY <2>1, <2>2, <3>1, <4>1, <4>2, <4>3
      <4>5. PICK h \in Handlers : req[h].step = "clear" /\ req[h].point = q
        BY <3>1, <4>1, <4>4 DEF IndexNotStale
      <4> QED BY <1>2, <4>5
    <3> QED BY <3>1 DEF IndexNotStale
  <2> QED BY <2>3, <2>4
<1>3. ASSUME NEW h \in Handlers, req[h].point \in Points, ResolveActiveForPoint(req[h].point),
             \A g \in Handlers \ {h} : req'[g] = req[g]
      PROVE ActiveIsIndexed' /\ IndexNotStale'
  <2> DEFINE p == req[h].point
  <2>1. active'[p] = None /\ \A q \in Points : q # p => active'[q] = active[q]
    BY <1>0, <1>3 DEF ResolveActiveForPoint
  <2>2. ASSUME NEW b \in Alarms
        PROVE /\ alarms'[b].point = alarms[b].point
              /\ alarms'[b].state = IF b = active[p] THEN "resolved" ELSE alarms[b].state
    BY <1>0, <1>3 DEF ResolveActiveForPoint, AlarmRecord
  <2>3. ActiveIsIndexed'
    <3>1. ASSUME NEW b \in Alarms, alarms'[b].state = "active" PROVE active'[alarms'[b].point] = b
      <4>1. alarms[b].state = "active" /\ b # active[p] /\ alarms'[b].point = alarms[b].point
        BY <2>2, <3>1
      <4>2. active[alarms[b].point] = b /\ alarms[b].point \in Points
        BY <1>0, <4>1 DEF ActiveIsIndexed, IsActive, StoreOK
      <4> QED BY <2>1, <4>1, <4>2
    <3> QED BY <3>1 DEF ActiveIsIndexed, IsActive
  <2>4. IndexNotStale'
    <3>1. ASSUME NEW q \in Points, active'[q] # None, alarms'[active'[q]].state = "resolved"
          PROVE \E g \in Handlers : req'[g].step = "clear" /\ req'[g].point = q
      <4>1. q # p /\ active'[q] = active[q]
        BY <2>1, <3>1
      <4>2. active[q] \in Alarms /\ alarms[active[q]].point = q
        BY <1>0, <3>1, <4>1 DEF StoreOK
      <4>3. active[q] # active[p]
        BY <1>0, <1>3, <1>n, <4>1, <4>2 DEF StoreOK
      <4>4. alarms[active[q]].state = "resolved"
        BY <2>2, <3>1, <4>1, <4>2, <4>3
      <4>5. PICK g \in Handlers : req[g].step = "clear" /\ req[g].point = q
        BY <3>1, <4>1, <4>4 DEF IndexNotStale
      <4>6. g # h
        BY <4>1, <4>5
      <4> QED BY <1>3, <4>5, <4>6
    <3> QED BY <3>1 DEF IndexNotStale
  <2> QED BY <2>3, <2>4
<1>4. ASSUME NEW h \in Handlers, NEW s \in {"acknowledged", "resolved"}, req[h].alarm \in Alarms,
             alarms[req[h].alarm].state # "none",
             UpdateAlarm(req[h].alarm, s),
             s = "resolved" => req'[h].step = "clear" /\ req'[h].point = alarms[req[h].alarm].point,
             \A g \in Handlers : req[g].step = "clear" => req'[g] = req[g]
      PROVE ActiveIsIndexed' /\ IndexNotStale'
  <2> DEFINE a == req[h].alarm
  <2>1. active' = active
    BY <1>4 DEF UpdateAlarm
  <2>2. ASSUME NEW b \in Alarms
        PROVE /\ alarms'[b].point = alarms[b].point
              /\ alarms'[b].state = IF b = a THEN s ELSE alarms[b].state
    BY <1>0, <1>4 DEF UpdateAlarm, AlarmRecord
  <2>3. ActiveIsIndexed'
    BY <2>1, <2>2 DEF ActiveIsIndexed, IsActive
  <2>4. IndexNotStale'
    <3>1. ASSUME NEW q \in Points, active'[q] # None, alarms'[active'[q]].state = "resolved"
          PROVE \E g \in Handlers : req'[g].step = "clear" /\ req'[g].point = q
      <4>1. active[q] \in Alarms /\ alarms[active[q]].point = q
        BY <1>0, <2>1, <3>1 DEF StoreOK
      <4>2. CASE active[q] = a
        BY <1>4, <2>1, <2>2, <3>1, <4>1, <4>2
      <4>3. CASE active[q] # a
        <5>1. PICK g \in Handlers : req[g].step = "clear" /\ req[g].point = q
          BY <2>1, <2>2, <3>1, <4>1, <4>3 DEF IndexNotStale
        <5> QED BY <1>4, <5>1
      <4> QED BY <4>2, <4>3
    <3> QED BY <3>1 DEF IndexNotStale
  <2> QED BY <2>3, <2>4
<1> QED BY <1>1, <1>2, <1>3, <1>4, Effects

LEMMA IndexInit == Init => ActiveIsIndexed /\ IndexNotStale
BY AlarmPointsOK DEF Init, AlarmInit, NoAlarm, ActiveIsIndexed, IndexNotStale, IsActive

(* Under every interleaving of requests a point has at most one active     *)
(* alarm, the one in the index.                                            *)
THEOREM OneActivePerPoint == Spec => []ActiveIsIndexed
<1> DEFINE Inv == TypeInv /\ ActiveIsIndexed /\ IndexNotStale
<1>1. Init => Inv
  BY TypeInit, IndexInit
<1>2. Inv /\ [Next]_vars => Inv'
  BY TypeNext, IndexNext
<1>3. Inv => ActiveIsIndexed
  OBVIOUS
<1> QED BY <1>1, <1>2, <1>3, PTL DEF Spec

(* What is over leaves the index, or is about to.                          *)
THEOREM IndexCurrent == Spec => []IndexNotStale
<1> DEFINE Inv == TypeInv /\ ActiveIsIndexed /\ IndexNotStale
<1>1. Init => Inv
  BY TypeInit, IndexInit
<1>2. Inv /\ [Next]_vars => Inv'
  BY TypeNext, IndexNext
<1>3. Inv => IndexNotStale
  OBVIOUS
<1> QED BY <1>1, <1>2, <1>3, PTL DEF Spec

-----------------------------------------------------------------------------
(***************************************************************************)
(* The alarms of a point against its last reading, when the readings of a  *)
(* point are ingested one at a time.                                       *)
(***************************************************************************)

LEMMA AppendEnds ==
  ASSUME NEW s \in Seq(Reading), Len(s) > 0, NEW rd \in Reading
  PROVE  LET u == Append(s, rd)
         IN  /\ u # <<>> /\ Len(u) = Len(s) + 1 /\ Len(u) > 1
             /\ u[Len(u)] = rd /\ u[Len(u) - 1] = s[Len(s)]
<1> DEFINE u == Append(s, rd)
<1>1. Len(s) \in Nat /\ Len(s) >= 1
  OBVIOUS
<1>2. Len(u) = Len(s) + 1 /\ u[Len(s) + 1] = rd /\ u[Len(s)] = s[Len(s)]
  BY <1>1
<1>3. (Len(s) + 1) - 1 = Len(s) /\ Len(s) + 1 > 1 /\ u # <<>>
  BY <1>1, <1>2
<1>. QED
  BY <1>2, <1>3

(* Only the last two readings matter to the rules, and the ring keeps them.*)
LEMMA KeptReadingsJudgedAlike ==
  ASSUME BufCap > 1, NEW p \in Points, NEW s \in Seq(Reading), Len(s) =< BufCap, NEW rd \in Reading
  PROVE  Keep(s, rd) # <<>> /\ Hits(p, Keep(s, rd)) = Hits(p, Append(s, rd))
<1>1. CASE Len(s) # BufCap
  <2>1. Keep(s, rd) = Append(s, rd) /\ Append(s, rd) # <<>>
    BY <1>1 DEF Keep
  <2>. QED
    BY <2>1
<1>2. CASE Len(s) = BufCap
  <2> DEFINE t == Append(Tail(s), rd)
             u == Append(s, rd)
  <2>1. /\ Keep(s, rd) = t
        /\ Len(s) \in Nat /\ Len(s) > 1 /\ s # <<>>
    BY <1>2, BufCapOK DEF Keep
  <2>2. Tail(s) \in Seq(Reading) /\ Len(Tail(s)) = Len(s) - 1
    BY <2>1
  <2>3. Len(Tail(s)) > 0 /\ Tail(s)[Len(Tail(s))] = s[Len(s)]
    <3>1. Len(s) - 1 \in 1 .. Len(Tail(s)) /\ (Len(s) - 1) + 1 = Len(s)
      BY <2>1, <2>2
    <3>2. Tail(s)[Len(s) - 1] = s[(Len(s) - 1) + 1]
      BY <2>1, <2>2, <3>1
    <3>. QED
      BY <2>1, <2>2, <3>1, <3>2
  <2>4. /\ t # <<>> /\ Len(t) > 1 /\ Len(u) > 1
        /\ t[Len(t)] = rd /\ u[Len(u)] = rd
        /\ t[Len(t) - 1] = s[Len(s)] /\ u[Len(u) - 1] = s[Len(s)]
    <3>1. u[Len(u)] = rd /\ Len(u) > 1 /\ u[Len(u) - 1] = s[Len(s)]
      BY <2>1, AppendEnds
    <3>2. /\ t # <<>> /\ Len(t) > 1 /\ t[Len(t)] = rd
          /\ t[Len(t) - 1] = Tail(s)[Len(Tail(s))]
      BY <2>2, <2>3, AppendEnds
    <3>. QED
      BY <2>3, <3>1, <3>2
  <2> HIDE DEF t, u
  <2>5. \A r : RateHit(r, p, t) <=> RateHit(r, p, u)
    BY <2>4 DEF RateHit
  <2>6. Hits(p, t) = Hits(p, u)
    BY <2>4, <2>5 DEF Hits
  <2>. QED
    BY <2>1, <2>4, <2>6 DEF u
<1>. QED
  BY <1>1, <1>2

(* What the evaluation of a point's last reading has left to do.           *)
ReadingInv ==
  /\ ~serving => \A p \in Points : hist[p] = <<>>
  /\ \A h \in Handlers, p \in Points : req[h].point = p =>
       /\ req[h].step \in {"raise", "sink"} => Breached(p)
       /\ req[h].step = "clear" /\ p \notin Attended => Normal(p)
       /\ req[h].step \in {"ack", "resolve"} => p \in Attended
  /\ \A p \in Points :
       /\ Normal(p) =>
            \/ \E h \in Handlers : req[h].step = "clear" /\ req[h].point = p
            \/ \A a \in Alarms : alarms[a].point = p => ~IsActive(a)
       /\ Breached(p) /\ p \notin Attended =>
            \/ \E h \in Handlers : req[h].step = "raise" /\ req[h].point = p
            \/ \E a \in Alarms : alarms[a].point = p /\ IsActive(a)

AlarmInv == TypeInv /\ ActiveIsIndexed /\ IndexNotStale /\ ReadingInv

(* The verdicts on a point change with its readings only.                  *)
LEMMA VerdictsKept ==
  ASSUME UNCHANGED <<points, rules>>, NEW p, hist'[p] = hist[p]
  PROVE  (Normal(p)' <=> Normal(p)) /\ (Breached(p)' <=> Breached(p))
<1>1. Hits(p, hist[p])' = Hits(p, hist[p])
  BY DEF Hits, RulesFor, PointRule, Registered, Def, RateHit
<1>. QED
  BY <1>1 DEF Normal, Breached, Registered

(* A step that touches no reading, point or rule keeps every verdict.      *)
LEMMA TelemetryKept ==
  ASSUME UNCHANGED telemetryVars
  PROVE  /\ serving' = serving /\ hist' = hist
         /\ \A p \in Points : (Normal(p)' <=> Normal(p)) /\ (Breached(p)' <=> Breached(p))
<1>1. UNCHANGED <<points, rules>> /\ hist' = hist /\ serving' = serving
  BY DEF telemetryVars
<1>. QED
  BY <1>1, VerdictsKept

LEMMA RequestBecomes ==
  ASSUME TypeInv, NEW h \in Handlers, NEW r, Become(h, r)
  PROVE  req'[h] = r /\ \A g \in Handlers : g # h => req'[g] = req[g]
  BY DEF TypeInv, TypeOK, Become

LEMMA SeedReading ==
  ASSUME AlarmInv, Seed
  PROVE  ReadingInv'
<1>1. /\ ~serving /\ hist' = hist /\ UNCHANGED <<alarms, active, req>>
      /\ \A p \in Points : hist[p] = <<>>
  BY DEF Seed, RegisterPoint, AddRule, ListenAndServe, AlarmInv, ReadingInv
<1>2. \A p \in Points : ~Normal(p) /\ ~Breached(p) /\ ~Normal(p)' /\ ~Breached(p)'
  BY <1>1 DEF Normal, Breached
<1>3. \A h \in Handlers : req[h].step \in {"raise", "sink", "clear"} => req[h].point \in Points
  BY DEF AlarmInv, TypeInv, RequestOK
<1>. QED
  BY <1>1, <1>2, <1>3 DEF AlarmInv, ReadingInv

LEMMA IngestReading ==
  ASSUME AlarmInv, OnePerPoint, BufCap > 1,
         NEW h \in Handlers, NEW p \in Points, NEW rd \in Reading, Ingest(h, p, rd)
  PROVE  ReadingInv'
<1> DEFINE hits == Hits(p, Append(hist[p], rd))
<1>1. /\ serving /\ UNCHANGED <<points, rules, serving, alarms, active>>
      /\ hist' = [hist EXCEPT ![p] = Keep(@, rd)]
      /\ Become(h, AfterReading(p, hits)) /\ req[h].step = "idle"
      /\ \A g \in Handlers : req[g].step \in {"raise", "sink", "clear"} => req[g].point # p
  BY DEF Ingest, AppendReading, Record, IsIdle, MayIngest
<1>2. hist \in [Points -> Seq(Reading)] /\ Len(hist[p]) =< BufCap /\ TypeInv
  BY DEF AlarmInv, TypeInv, TypeOK
<1>3. hist'[p] = Keep(hist[p], rd) /\ \A q \in Points : q # p => hist'[q] = hist[q]
  BY <1>1, <1>2
<1>4. hist'[p] # <<>> /\ Hits(p, hist'[p]) = hits
  BY <1>2, <1>3, KeptReadingsJudgedAlike
<1>5. Hits(p, hist[p])' = hits
  BY <1>1, <1>4 DEF Hits, RulesFor, PointRule, Registered, Def, RateHit
<1>6. /\ Normal(p)' <=> Registered(p) /\ hits = {}
      /\ Breached(p)' <=> hits # {}
  BY <1>1, <1>4, <1>5 DEF Normal, Breached, Registered
<1>7. \A q \in Points : q # p => (Normal(q)' <=> Normal(q)) /\ (Breached(q)' <=> Breached(q))
  BY <1>1, <1>3, VerdictsKept
<1>8. req'[h] = AfterReading(p, hits) /\ \A g \in Handlers : g # h => req'[g] = req[g]
  BY <1>1, <1>2, RequestBecomes
<1> HIDE DEF hits
<1>9. /\ req'[h].step \in {"raise", "clear", "idle"}
      /\ req'[h].step = "raise" => hits # {} /\ req'[h].point = p
      /\ req'[h].step = "clear" => hits = {} /\ Registered(p) /\ req'[h].point = p
      /\ hits # {} => req'[h].step = "raise" /\ req'[h].point = p
      /\ hits = {} /\ Registered(p) => req'[h].step = "clear" /\ req'[h].point = p
  BY <1>8 DEF AfterReading, Raising, Clearing, Idle
<1>10. \A g \in Handlers : req[g].step \in {"raise", "sink", "clear"} => req[g].point \in Points
  BY <1>2 DEF TypeInv, RequestOK
<1>11. serving'
  BY <1>1
<1>12. ASSUME NEW g \in Handlers, NEW q \in Points, req'[g].point = q
       PROVE  /\ req'[g].step \in {"raise", "sink"} => Breached(q)'
              /\ req'[g].step = "clear" /\ q \notin Attended => Normal(q)'
              /\ req'[g].step \in {"ack", "resolve"} => q \in Attended
  <2>1. CASE g = h
    BY <1>6, <1>9, <1>12, <2>1
  <2>2. CASE g # h
    <3>1. req'[g] = req[g]
      BY <1>8, <2>2
    <3>2. /\ req[g].step \in {"raise", "sink"} => Breached(q)
          /\ req[g].step = "clear" /\ q \notin Attended => Normal(q)
          /\ req[g].step \in {"ack", "resolve"} => q \in Attended
      BY <1>12, <3>1 DEF AlarmInv, ReadingInv
    <3>. QED
      BY <1>1, <1>7, <1>12, <3>1, <3>2
  <2>. QED
    BY <2>1, <2>2
<1>13. ASSUME NEW q \in Points, Normal(q)'
       PROVE  \/ \E g \in Handlers : req'[g].step = "clear" /\ req'[g].point = q
              \/ \A a \in Alarms : alarms'[a].point = q => ~IsActive(a)'
  <2>1. CASE q = p
    BY <1>6, <1>9, <1>13, <2>1
  <2>2. CASE q # p
    <3>1. CASE \E g \in Handlers : req[g].step = "clear" /\ req[g].point = q
      BY <1>1, <1>8, <3>1
    <3>2. CASE \A a \in Alarms : alarms[a].point = q => ~IsActive(a)
      BY <1>1, <3>2 DEF IsActive
    <3>. QED
      BY <1>7, <1>13, <2>2, <3>1, <3>2 DEF AlarmInv, ReadingInv
  <2>. QED
    BY <2>1, <2>2
<1>14. ASSUME NEW q \in Points \ Attended, Breached(q)'
       PROVE  \/ \E g \in Handlers : req'[g].step = "raise" /\ req'[g].point = q
              \/ \E a \in Alarms : alarms'[a].point = q /\ IsActive(a)'
  <2>1. CASE q = p
    BY <1>6, <1>9, <1>14, <2>1
  <2>2. CASE q # p
    <3>1. CASE \E g \in Handlers : req[g].step = "raise" /\ req[g].point = q
      BY <1>1, <1>8, <3>1
    <3>2. CASE \E a \in Alarms : alarms[a].point = q /\ IsActive(a)
      BY <1>1, <3>2 DEF IsActive
    <3>. QED
      BY <1>7, <1>14, <2>2, <3>1, <3>2 DEF AlarmInv, ReadingInv
  <2>. QED
    BY <2>1, <2>2
<1>. QED
  BY <1>11, <1>12, <1>13, <1>14 DEF ReadingInv

(***************************************************************************)
(* The other steps leave the verdicts alone.  They are judged by what they *)
(* do to the request and to the active alarms of each point.               *)
(***************************************************************************)
LEMMA OtherStepReading ==
  ASSUME AlarmInv, UNCHANGED telemetryVars, NEW h \in Handlers, NEW r, Become(h, r),
         r.step \in {"raise", "sink"} => Breached(r.point) /\ r.point \in Points,
         r.step = "clear" => r.point \in Attended,
         r.step \in {"ack", "resolve"} => r.point \in Attended,
         (* a normal point: its clearing stays due or was done, no alarm is raised *)
         \A p \in Points : Normal(p) =>
           /\ req[h].step = "clear" /\ req[h].point = p =>
                \A a \in Alarms : alarms'[a].point = p => ~IsActive(a)'
           /\ (\A a \in Alarms : alarms[a].point = p => ~IsActive(a))
                => \A a \in Alarms : alarms'[a].point = p => ~IsActive(a)',
         (* a breached point: the alarm was raised, an active one stays *)
         \A p \in Points \ Attended : Breached(p) =>
           /\ req[h].step = "raise" /\ req[h].point = p =>
                \E a \in Alarms : alarms'[a].point = p /\ IsActive(a)'
           /\ (\E a \in Alarms : alarms[a].point = p /\ IsActive(a))
                => \E a \in Alarms : alarms'[a].point = p /\ IsActive(a)'
  PROVE  ReadingInv'
<1>1. /\ serving' = serving /\ hist' = hist
      /\ \A p \in Points : (Normal(p)' <=> Normal(p)) /\ (Breached(p)' <=> Breached(p))
  BY TelemetryKept
<1>2. req'[h] = r /\ \A g \in Handlers : g # h => req'[g] = req[g]
  BY RequestBecomes DEF AlarmInv
<1>3. \A g \in Handlers : req[g].step \in {"raise", "sink", "clear"} => req[g].point \in Points
  BY DEF AlarmInv, TypeInv, RequestOK
<1>4. ASSUME NEW g \in Handlers, NEW q \in Points, req'[g].point = q
      PROVE  /\ req'[g].step \in {"raise", "sink"} => Breached(q)'
             /\ req'[g].step = "clear" /\ q \notin Attended => Normal(q)'
             /\ req'[g].step \in {"ack", "resolve"} => q \in Attended
  <2>1. CASE g = h
    BY <1>1, <1>2, <1>4, <2>1
  <2>2. CASE g # h
    <3>1. req'[g] = req[g]
      BY <1>2, <2>2
    <3>2. /\ req[g].step \in {"raise", "sink"} => Breached(q)
          /\ req[g].step = "clear" /\ q \notin Attended => Normal(q)
          /\ req[g].step \in {"ack", "resolve"} => q \in Attended
      BY <1>4, <3>1 DEF AlarmInv, ReadingInv
    <3>. QED
      BY <1>1, <1>4, <3>1, <3>2
  <2>. QED
    BY <2>1, <2>2
<1>5. ASSUME NEW p \in Points, Normal(p)'
      PROVE  \/ \E g \in Handlers : req'[g].step = "clear" /\ req'[g].point = p
             \/ \A a \in Alarms : alarms'[a].point = p => ~IsActive(a)'
  <2>1. CASE \E g \in Handlers : req[g].step = "clear" /\ req[g].point = p
    BY <1>1, <1>2, <1>5, <2>1
  <2>2. CASE \A a \in Alarms : alarms[a].point = p => ~IsActive(a)
    BY <1>1, <1>5, <2>2
  <2>. QED
    BY <1>1, <1>5, <2>1, <2>2 DEF AlarmInv, ReadingInv
<1>6. ASSUME NEW p \in Points \ Attended, Breached(p)'
      PROVE  \/ \E g \in Handlers : req'[g].step = "raise" /\ req'[g].point = p
             \/ \E a \in Alarms : alarms'[a].point = p /\ IsActive(a)'
  <2>1. CASE \E g \in Handlers : req[g].step = "raise" /\ req[g].point = p
    BY <1>1, <1>2, <1>6, <2>1
  <2>2. CASE \E a \in Alarms : alarms[a].point = p /\ IsActive(a)
    BY <1>1, <1>6, <2>2
  <2>. QED
    BY <1>1, <1>6, <2>1, <2>2 DEF AlarmInv, ReadingInv
<1>7. ~serving' => \A p \in Points : hist'[p] = <<>>
  BY <1>1 DEF AlarmInv, ReadingInv
<1>. QED
  BY <1>4, <1>5, <1>6, <1>7 DEF ReadingInv

LEMMA ContinueReading ==
  ASSUME AlarmInv, NEW h \in Handlers, Continue(h)
  PROVE  ReadingInv'
<1>0. /\ TypeInv /\ ReadingInv /\ ActiveIsIndexed
      /\ AlarmTypeOK /\ StoreOK /\ RequestOK(h)
      /\ alarms \in [Alarms -> AlarmRecord] /\ active \in [Points -> Alarms \cup {None}]
      /\ None \notin Alarms
  BY AlarmPointsOK, NoneOK DEF AlarmInv, TypeInv, TypeOK, AlarmTypeOK
<1>1. ASSUME NEW a \in Alarms, Raise(h, a)
      PROVE  ReadingInv'
  <2> DEFINE p == req[h].point
             r == Sinking(p, a, req[h].todo - 1)
  <2>1. /\ UNCHANGED telemetryVars /\ Become(h, r)
        /\ req[h].step = "raise" /\ p \in Points
        /\ a \in FreshAlarms /\ AddAlarm(a, p)
    BY <1>0, <1>1 DEF Raise, RequestOK
  <2>2. /\ alarms'[a].state = "active" /\ alarms'[a].point = p
        /\ \A b \in Alarms \ {a} : /\ alarms'[b].point = alarms[b].point
                                   /\ IsActive(b)' <=> IsActive(b) /\ b # active[p]
    BY <1>0, <2>1 DEF AddAlarm, FreshAlarms, IsActive, AlarmRecord
  <2>3. ASSUME NEW b \in Alarms, alarms[b].point # p, IsActive(b)
        PROVE  alarms'[b].point = alarms[b].point /\ IsActive(b)'
    <3>1. b # a /\ b # active[p]
      BY <1>0, <2>1, <2>3 DEF FreshAlarms, IsActive, StoreOK
    <3>. QED
      BY <2>2, <2>3, <3>1
  <2>4. Breached(p) /\ ~Normal(p)
    BY <1>0, <2>1 DEF ReadingInv, Breached, Normal
  <2>5. /\ r.step = "sink" /\ r.point = p
    BY DEF Sinking
  <2>6. ASSUME NEW q \in Points, Normal(q)
        PROVE  /\ q # p
               /\ (\A b \in Alarms : alarms[b].point = q => ~IsActive(b))
                    => \A b \in Alarms : alarms'[b].point = q => ~IsActive(b)'
    BY <2>2, <2>4, <2>6 DEF IsActive
  <2>7. ASSUME NEW q \in Points \ Attended
        PROVE  /\ p = q => \E b \in Alarms : alarms'[b].point = q /\ IsActive(b)'
               /\ (\E b \in Alarms : alarms[b].point = q /\ IsActive(b))
                    => \E b \in Alarms : alarms'[b].point = q /\ IsActive(b)'
    BY <1>0, <2>1, <2>2, <2>3 DEF IsActive
  <2> HIDE DEF r
  <2>. QED
    BY <2>1, <2>4, <2>5, <2>6, <2>7, OtherStepReading
<1>2. ASSUME NEW r, Become(h, r), UNCHANGED telemetryVars, UNCHANGED alarmVars,
             req[h].step \notin {"raise", "clear"},
             r.step \in {"raise", "sink"} => Breached(r.point) /\ r.point \in Points,
             r.step = "clear" => r.point \in Attended,
             r.step \in {"ack", "resolve"} => r.point \in Attended
      PROVE  ReadingInv'
  <2>1. alarms' = alarms /\ \A a : IsActive(a)' <=> IsActive(a)
    BY <1>2 DEF alarmVars, IsActive
  <2>. QED
    BY <1>2, <2>1, OtherStepReading
<1>3. ASSUME Sink(h)
      PROVE  ReadingInv'
  <2> DEFINE r == IF req[h].todo = 0 THEN Idle ELSE Raising(req[h].point, req[h].todo)
  <2>1. /\ UNCHANGED telemetryVars /\ UNCHANGED alarmVars /\ Become(h, r)
        /\ req[h].step = "sink" /\ req[h].point \in Points
    BY <1>0, <1>3 DEF Sink, RequestOK
  <2>2. Breached(req[h].point)
    BY <1>0, <2>1 DEF ReadingInv
  <2>3. /\ r.step \in {"raise", "idle"}
        /\ r.step = "raise" => r.point = req[h].point
    BY DEF Raising, Idle
  <2> HIDE DEF r
  <2>. QED
    BY <1>2, <2>1, <2>2, <2>3
<1>4. ASSUME Clear(h)
      PROVE  ReadingInv'
  <2> DEFINE p == req[h].point
  <2>1. /\ UNCHANGED telemetryVars /\ Become(h, Idle)
        /\ req[h].step = "clear" /\ p \in Points
        /\ ResolveActiveForPoint(p)
    BY <1>0, <1>4 DEF Clear, RequestOK
  <2>2. \A b \in Alarms : /\ alarms'[b].point = alarms[b].point
                          /\ IsActive(b)' <=> IsActive(b) /\ b # active[p]
    BY <1>0, <2>1 DEF ResolveActiveForPoint, IsActive, AlarmRecord
  <2>3. \A b \in Alarms : alarms'[b].point = p => ~IsActive(b)'
    BY <1>0, <2>2 DEF ActiveIsIndexed
  <2>4. ASSUME NEW b \in Alarms, alarms[b].point # p, IsActive(b)
        PROVE  IsActive(b)'
    BY <1>0, <2>1, <2>2, <2>4 DEF StoreOK
  <2>5. p \notin Attended => ~Breached(p)
    BY <1>0, <2>1 DEF ReadingInv, Normal, Breached
  <2>6. Idle.step = "idle"
    BY DEF Idle
  <2>7. ASSUME NEW q \in Points
        PROVE  (\A b \in Alarms : alarms[b].point = q => ~IsActive(b))
                 => \A b \in Alarms : alarms'[b].point = q => ~IsActive(b)'
    BY <2>2
  <2>8. ASSUME NEW q \in Points \ Attended, Breached(q)
        PROVE  (\E b \in Alarms : alarms[b].point = q /\ IsActive(b))
                 => \E b \in Alarms : alarms'[b].point = q /\ IsActive(b)'
    BY <2>2, <2>4, <2>5, <2>8
  <2>. QED
    BY <2>1, <2>3, <2>6, <2>7, <2>8, OtherStepReading
<1>5. ASSUME NEW a \in Alarms, NEW s \in {"acknowledged", "resolved"}, UpdateAlarm(a, s),
             alarms[a].point \in Attended, NEW r, Become(h, r), UNCHANGED telemetryVars,
             r.step \in {"idle", "clear"}, r.step = "clear" => r.point \in Attended,
             req[h].step \notin {"raise", "clear"}
      PROVE  ReadingInv'
  <2>1. \A b \in Alarms : /\ alarms'[b].point = alarms[b].point
                          /\ IsActive(b)' <=> IsActive(b) /\ b # a
    BY <1>0, <1>5 DEF UpdateAlarm, IsActive, AlarmRecord
  <2>. QED
    BY <1>5, <2>1, OtherStepReading
<1>6. ASSUME AckWrite(h) \/ ResolveWrite(h)
      PROVE  ReadingInv'
  <2>1. /\ req[h].step \in {"ack", "resolve"} /\ req[h].alarm \in Alarms
        /\ req[h].point = alarms[req[h].alarm].point /\ req[h].point \in Points
    BY <1>0, <1>6 DEF AckWrite, ResolveWrite, RequestOK, StoreOK
  <2>2. req[h].point \in Attended
    BY <1>0, <2>1 DEF ReadingInv
  <2>3. CASE AckWrite(h)
    <3> DEFINE a == req[h].alarm
               r == Idle
    <3>1. Become(h, r) /\ UNCHANGED telemetryVars /\ UpdateAlarm(a, "acknowledged")
      BY <2>3 DEF AckWrite
    <3>2. r.step = "idle"
      BY DEF Idle
    <3>3. /\ a \in Alarms /\ alarms[a].point \in Attended
          /\ req[h].step \notin {"raise", "clear"}
      BY <2>1, <2>2
    <3> HIDE DEF a, r
    <3>. QED
      BY <1>5, <3>1, <3>2, <3>3
  <2>4. CASE ResolveWrite(h)
    <3> DEFINE a == req[h].alarm
               r == Clearing(req[h].point)
    <3>1. Become(h, r) /\ UNCHANGED telemetryVars /\ UpdateAlarm(a, "resolved")
      BY <2>4 DEF ResolveWrite
    <3>2. r.step = "clear" /\ r.point = req[h].point
      BY DEF Clearing
    <3>3. /\ a \in Alarms /\ alarms[a].point \in Attended /\ r.point \in Attended
          /\ req[h].step \notin {"raise", "clear"}
      BY <2>1, <2>2, <3>2
    <3> HIDE DEF a, r
    <3>. QED
      BY <1>5, <3>1, <3>2, <3>3
  <2>. QED
    BY <1>6, <2>3, <2>4
<1>. QED
  BY <1>1, <1>3, <1>4, <1>6 DEF Continue

LEMMA CallReading ==
  ASSUME AlarmInv, OnePerPoint, BufCap > 1, NEW h \in Handlers, Call(h)
  PROVE  ReadingInv'
<1>1. ASSUME NEW a \in Alarms, NEW t, NEW s \in {"ack", "resolve"}, Begin(h, a, t, s)
      PROVE  ReadingInv'
  <2> DEFINE r == Handling(s, a)
  <2>1. /\ UNCHANGED telemetryVars /\ UNCHANGED alarmVars /\ Become(h, r)
        /\ req[h].step = "idle" /\ alarms[a].point \in Attended
    BY <1>1 DEF Begin, IsIdle
  <2>2. r.step = s /\ r.point = alarms[a].point
    BY DEF Handling
  <2>3. alarms' = alarms /\ \A b : IsActive(b)' <=> IsActive(b)
    BY <2>1 DEF alarmVars, IsActive
  <2> HIDE DEF r
  <2>. QED
    BY <1>1, <2>1, <2>2, <2>3, OtherStepReading
<1>. QED
  BY <1>1, IngestReading DEF Call, AckRead, ResolveRead

LEMMA NextAlarmInv ==
  ASSUME OnePerPoint, BufCap > 1
  PROVE  AlarmInv /\ [Next]_vars => AlarmInv'
<1> SUFFICES ASSUME AlarmInv, [Next]_vars PROVE ReadingInv'
  BY TypeNext, IndexNext DEF AlarmInv
<1>1. CASE Seed
  BY <1>1, SeedReading
<1>2. ASSUME NEW h \in Handlers, Call(h) PROVE ReadingInv'
  BY <1>2, CallReading
<1>3. ASSUME NEW h \in Handlers, Continue(h) PROVE ReadingInv'
  BY <1>3, ContinueReading
<1>4. CASE UNCHANGED vars
  <2>1. UNCHANGED telemetryVars /\ UNCHANGED <<alarms, req>>
    BY <1>4 DEF vars, telemetryVars
  <2>2. /\ serving' = serving /\ hist' = hist
        /\ \A p \in Points : (Normal(p)' <=> Normal(p)) /\ (Breached(p)' <=> Breached(p))
    BY <2>1, TelemetryKept
  <2>. QED
    BY <2>1, <2>2 DEF AlarmInv, ReadingInv, IsActive
<1>. QED
  BY <1>1, <1>2, <1>3, <1>4 DEF Next

LEMMA InitAlarmInv == Init => AlarmInv
<1> SUFFICES ASSUME Init PROVE ReadingInv
  BY TypeInit, IndexInit DEF AlarmInv
<1>1. /\ \A p \in Points : hist[p] = <<>>
      /\ \A h \in Handlers : req[h].step = "idle"
  BY DEF Init, TelemetryInit, HistoryInit, Idle
<1>. QED
  BY <1>1 DEF ReadingInv, Normal, Breached

(***************************************************************************)
(* With the readings of each point ingested one at a time, a point whose   *)
(* last reading breaks no rule has no active alarm once evaluate has run,  *)
(* for any rules, points and requests; the ring must keep the two readings *)
(* a rate is computed from (NormalPointsAreQuiet).                         *)
(***************************************************************************)
THEOREM NormalIsQuiet ==
  ASSUME OnePerPoint, BufCap > 1
  PROVE  Spec => []NormalPointsAreQuiet
<1>1. AlarmInv => NormalPointsAreQuiet
  BY DEF AlarmInv, ReadingInv, NormalPointsAreQuiet, Quiet
<1>. QED
  BY <1>1, InitAlarmInv, NextAlarmInv, PTL DEF Spec

(***************************************************************************)
(* ... and one whose last reading breaks a rule has an active alarm, unless*)
(* operators acknowledge or resolve the alarms of that point               *)
(* (BreachedPointsAlarm).                                                  *)
(***************************************************************************)
THEOREM BreachedAlarms ==
  ASSUME OnePerPoint, BufCap > 1
  PROVE  Spec => []BreachedPointsAlarm
<1>1. AlarmInv => BreachedPointsAlarm
  BY DEF AlarmInv, ReadingInv, BreachedPointsAlarm, Quiet
<1>. QED
  BY <1>1, InitAlarmInv, NextAlarmInv, PTL DEF Spec
=============================================================================
