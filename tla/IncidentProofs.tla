--------------------------- MODULE IncidentProofs ---------------------------
(***************************************************************************)
(* The theorems about module Incident, for any number of incidents,        *)
(* actions, alarms and concurrent requests.                                *)
(***************************************************************************)
EXTENDS Incident, TLAPS

(* A request works on stored incidents and alarms; one that closes has     *)
(* seen an action done.                                                    *)
Fits(r) ==
  /\ r.step = "idle" => r.incident = None
  /\ r.step \in {"confirm", "add", "close", "next", "resolve", "clear"} =>
       r.incident \in Incidents /\ incidents[r.incident].state # "none"
  /\ r.step \in {"resolve", "clear", "ack"} => r.alarm \in Alarms /\ alarms[r.alarm].state # "none"
  /\ r.step \in {"confirm", "add", "close", "next"} => r.alarm = None
  /\ r.step = "close" => incidents[r.incident].done # {} /\ r.todo = incidents[r.incident].alarms
  /\ r.step \in {"next", "resolve", "clear"} => r.todo \subseteq incidents[r.incident].alarms

RequestOK(h) == Fits(req[h])

StoreOK ==
  /\ \A a \in Alarms : alarms[a].state # "none" => alarms[a].point \in AlarmPoints
  /\ \A p \in AlarmPoints : active[p] # None => alarms[active[p]].state # "none"
  /\ \A i \in Incidents :
       /\ \A a \in incidents[i].alarms : alarms[a].state # "none"
       /\ IsClosed(i) => incidents[i].done # {}

TypeInv == TypeOK /\ StoreOK /\ \A h \in Handlers : RequestOK(h)

-----------------------------------------------------------------------------
LEMMA Records ==
  /\ Idle \in Request
  /\ \A s \in Step, i \in Incidents : OnIncident(s, i) \in Request
  /\ \A s \in Step, i \in Incidents \cup {None}, a \in Alarms \cup {None}, rest \in SUBSET Alarms :
       OnAlarm(s, i, a, rest) \in Request
  /\ \A i \in Incidents, rest \in SUBSET Alarms : Resolving(i, rest) \in Request
BY DEF Request, Idle, OnIncident, OnAlarm, Resolving, Step

LEMMA ClosingOK ==
  ASSUME TypeOK, NEW i \in Incidents
  PROVE  Closing(i) \in Request
BY IncidentAlarmsOK DEF TypeOK, Request, Closing, Step, IncidentRecord

LEMMA TypeInit == Init => TypeInv
<1> SUFFICES ASSUME Init PROVE TypeInv
  OBVIOUS
<1>1. incidents \in [Incidents -> IncidentRecord]
  BY DEF Init, IncidentInit, NoIncident, IncidentRecord
<1>2. AlarmTypeOK
  BY DEF Init, AlarmInit, NoAlarm, AlarmRecord, AlarmTypeOK
<1>3. req \in [Handlers -> Request]
  BY Records DEF Init
<1>4. StoreOK
  BY DEF Init, IncidentInit, AlarmInit, NoIncident, NoAlarm, StoreOK, IsClosed
<1>5. \A h \in Handlers : RequestOK(h)
  BY DEF Init, Idle, RequestOK, Fits
<1> QED BY <1>1, <1>2, <1>3, <1>4, <1>5 DEF TypeInv, TypeOK

(***************************************************************************)
(* What a step leaves of the tables: ids stay stored, an incident keeps    *)
(* its alarms and what was done, an alarm its point.                       *)
(***************************************************************************)
IncidentsKept ==
  \A i \in Incidents : incidents[i].state # "none" =>
    /\ incidents'[i].state # "none"
    /\ incidents'[i].alarms = incidents[i].alarms
    /\ incidents[i].done \subseteq incidents'[i].done

AlarmsKept == \A a \in Alarms : alarms[a].state # "none" => alarms'[a].state # "none"

(* The store's part of the invariant. *)
Stored ==
  /\ incidents \in [Incidents -> IncidentRecord]
  /\ AlarmTypeOK
  /\ StoreOK

LEMMA PutIncidentOK ==
  ASSUME Stored, NEW i \in Incidents, NEW s \in IncSegments \cup {NoSegment}, NEW as \in SUBSET IncAlarms,
         \A a \in as : alarms[a].state # "none", PutIncident(i, s, as), UNCHANGED alarmVars
  PROVE  Stored' /\ IncidentsKept /\ AlarmsKept
<1> DEFINE new == [NoIncident EXCEPT !.state = "pending", !.segment = s, !.alarms = as]
<1>1. new \in IncidentRecord /\ new.state = "pending" /\ new.alarms = as
  BY DEF IncidentRecord, IncidentState, NoIncident
<1>2. /\ incidents' \in [Incidents -> IncidentRecord] /\ incidents'[i] = new
      /\ \A j \in Incidents \ {i} : incidents'[j] = incidents[j]
      /\ incidents[i].state = "none"
  BY <1>1 DEF PutIncident, Stored
<1> HIDE DEF new
<1>3. StoreOK' /\ AlarmTypeOK'
  BY <1>1, <1>2 DEF Stored, StoreOK, AlarmTypeOK, alarmVars, IsClosed
<1> QED BY <1>2, <1>3 DEF Stored, IncidentsKept, AlarmsKept, alarmVars

LEMMA UpdateIncidentOK ==
  ASSUME Stored, NEW i \in Incidents, incidents[i].state # "none", NEW s \in IncidentState,
         s = "closed" => incidents[i].done # {}, UpdateIncident(i, s), UNCHANGED alarmVars
  PROVE  Stored' /\ IncidentsKept /\ AlarmsKept
<1>1. /\ incidents' \in [Incidents -> IncidentRecord]
      /\ incidents'[i].state = s /\ incidents'[i].alarms = incidents[i].alarms
      /\ incidents'[i].done = incidents[i].done
      /\ \A j \in Incidents \ {i} : incidents'[j] = incidents[j]
  BY DEF UpdateIncident, Stored, IncidentRecord
<1>2. StoreOK' /\ AlarmTypeOK'
  BY <1>1 DEF Stored, StoreOK, AlarmTypeOK, alarmVars, IsClosed
<1> QED BY <1>1, <1>2 DEF Stored, IncidentsKept, AlarmsKept, alarmVars, IncidentState

LEMMA ActionsOK ==
  ASSUME Stored, NEW i \in Incidents, NEW x \in Actions, AppendAction(i, x) \/ FinishAction(i, x),
         UNCHANGED alarmVars
  PROVE  Stored' /\ IncidentsKept /\ AlarmsKept
<1>1. /\ incidents' \in [Incidents -> IncidentRecord]
      /\ incidents'[i].state = incidents[i].state /\ incidents'[i].alarms = incidents[i].alarms
      /\ incidents[i].done \subseteq incidents'[i].done
      /\ \A j \in Incidents \ {i} : incidents'[j] = incidents[j]
  <2>1. CASE AppendAction(i, x)
    BY <2>1 DEF AppendAction, Stored, IncidentRecord
  <2>2. CASE FinishAction(i, x)
    BY <2>2 DEF FinishAction, Stored, IncidentRecord
  <2> QED BY <2>1, <2>2
<1>2. StoreOK' /\ AlarmTypeOK'
  BY <1>1 DEF Stored, StoreOK, AlarmTypeOK, alarmVars, IsClosed
<1> QED BY <1>1, <1>2 DEF Stored, IncidentsKept, AlarmsKept, alarmVars

LEMMA AlarmStepOK ==
  ASSUME Stored, UNCHANGED incidents,
         \/ \E a \in Alarms, p \in AlarmPoints : alarms[a].state = "none" /\ AddAlarm(a, p)
         \/ \E a \in Alarms, s \in AlarmState : alarms[a].state # "none" /\ UpdateAlarm(a, s)
         \/ \E p \in AlarmPoints : ResolveActiveForPoint(p)
  PROVE  Stored' /\ IncidentsKept /\ AlarmsKept
<1>1. AlarmTypeOK' /\ AlarmsKept
      /\ (\A a \in Alarms : alarms'[a].state # "none" => alarms'[a].point \in AlarmPoints)
      /\ (\A p \in AlarmPoints : active'[p] # None => alarms'[active'[p]].state # "none")
  <2>1. CASE \E a \in Alarms, p \in AlarmPoints : alarms[a].state = "none" /\ AddAlarm(a, p)
    BY <2>1, NoneOK DEF Stored, StoreOK, AlarmTypeOK, AddAlarm, AlarmRecord, AlarmState, IsActive, AlarmsKept
  <2>2. CASE \E a \in Alarms, s \in AlarmState : alarms[a].state # "none" /\ UpdateAlarm(a, s)
    BY <2>2, NoneOK DEF Stored, StoreOK, AlarmTypeOK, UpdateAlarm, AlarmRecord, AlarmState, AlarmsKept
  <2>3. CASE \E p \in AlarmPoints : ResolveActiveForPoint(p)
    BY <2>3, NoneOK DEF Stored, StoreOK, AlarmTypeOK, ResolveActiveForPoint, AlarmRecord, AlarmState, AlarmsKept
  <2> QED BY <2>1, <2>2, <2>3
<1>2. StoreOK'
  <2>1. ASSUME NEW i \in Incidents, NEW a \in incidents[i].alarms PROVE alarms'[a].state # "none"
    BY <1>1, IncidentAlarmsOK DEF Stored, StoreOK, AlarmsKept, IncidentRecord
  <2> QED BY <1>1, <2>1 DEF Stored, StoreOK, IsClosed
<1> QED BY <1>1, <1>2 DEF Stored, IncidentsKept

-----------------------------------------------------------------------------
(* A fitting request still fits after a step. *)
LEMMA FitsKept ==
  ASSUME IncidentsKept, AlarmsKept, NEW r \in Request, Fits(r)
  PROVE  Fits(r)'
BY DEF IncidentsKept, AlarmsKept, Fits, Request

LEMMA BecomeOK ==
  ASSUME TypeInv, Stored', IncidentsKept, AlarmsKept, NEW h \in Handlers, NEW r \in Request, Fits(r),
         Become(h, r)
  PROVE  TypeInv'
<1>1. req' \in [Handlers -> Request] /\ req'[h] = r /\ \A g \in Handlers \ {h} : req'[g] = req[g]
  BY DEF TypeInv, TypeOK, Become
<1>2. ASSUME NEW g \in Handlers PROVE RequestOK(g)'
  <2>1. CASE g = h
    <3>1. Fits(r)'
      BY FitsKept
    <3> QED BY <1>1, <2>1, <3>1 DEF RequestOK, Fits
  <2>2. CASE g # h
    <3>1. req[g] \in Request /\ Fits(req[g])
      BY DEF TypeInv, TypeOK, RequestOK, Fits
    <3>2. req'[g] = req[g]
      BY <1>1, <2>2
    <3> QED BY <3>1, <3>2 DEF RequestOK, Fits, IncidentsKept, AlarmsKept, Request
  <2> QED BY <2>1, <2>2
<1> QED BY <1>1, <1>2 DEF TypeInv, TypeOK, Stored

LEMMA RequestsKept ==
  ASSUME TypeInv, Stored', IncidentsKept, AlarmsKept, req' = req
  PROVE  TypeInv'
<1>1. ASSUME NEW g \in Handlers PROVE RequestOK(g)'
  <2>1. req[g] \in Request /\ Fits(req[g])
    BY DEF TypeInv, TypeOK, RequestOK, Fits
  <2> QED BY <2>1 DEF RequestOK, Fits, IncidentsKept, AlarmsKept, Request
<1> QED BY <1>1 DEF TypeInv, TypeOK, Stored

LEMMA TablesUnchanged ==
  ASSUME TypeInv, UNCHANGED <<incidents, alarmVars>>
  PROVE  Stored' /\ IncidentsKept /\ AlarmsKept
BY DEF TypeInv, TypeOK, Stored, StoreOK, AlarmTypeOK, IsClosed, IncidentsKept, AlarmsKept, alarmVars

LEMMA CallType ==
  ASSUME TypeInv, NEW h \in Handlers, Call(h)
  PROVE  TypeInv'
<1>0. Stored
  BY DEF TypeInv, TypeOK, Stored
<1>1. ASSUME NEW i \in Incidents, NEW s \in IncSegments \cup {NoSegment}, NEW as \in SUBSET IncAlarms,
             Report(h, i, s, as)
      PROVE  TypeInv'
  <2>1. Stored' /\ IncidentsKept /\ AlarmsKept
    BY <1>0, <1>1, PutIncidentOK, IncidentAlarmsOK DEF Report
  <2> QED BY <1>1, <2>1, RequestsKept DEF Report
<1>2. ASSUME NEW i \in Incidents, NEW s \in {"confirm", "add"}, incidents[i].state # "none",
             Become(h, OnIncident(s, i)), UNCHANGED <<incidents, alarmVars>>
      PROVE  TypeInv'
  <2>1. OnIncident(s, i) \in Request
    BY Records DEF Step
  <2>2. Fits(OnIncident(s, i))
    BY <1>2 DEF Fits, OnIncident
  <2> QED BY <1>2, <2>1, <2>2, BecomeOK, TablesUnchanged
<1>3. ASSUME NEW i \in Incidents, NEW x \in Actions, CompleteAction(h, i, x)
      PROVE  TypeInv'
  <2>1. Stored' /\ IncidentsKept /\ AlarmsKept
    BY <1>0, <1>3, ActionsOK DEF CompleteAction
  <2> QED BY <1>3, <2>1, RequestsKept DEF CompleteAction
<1>4. ASSUME NEW i \in Incidents, CloseRead(h, i)
      PROVE  TypeInv'
  <2>1. Closing(i) \in Request
    BY ClosingOK DEF TypeInv
  <2>2. incidents[i].state # "none" /\ incidents[i].done # {}
    BY <1>4 DEF CloseRead, IncidentMove, IncidentState, AllActionsComplete
  <2>3. Fits(Closing(i))
    BY <2>2 DEF Fits, Closing
  <2>4. Become(h, Closing(i)) /\ UNCHANGED <<incidents, alarmVars>>
    BY <1>4 DEF CloseRead
  <2> QED BY <2>1, <2>3, <2>4, BecomeOK, TablesUnchanged
<1>5. ASSUME NEW a \in Alarms, AckRead(h, a)
      PROVE  TypeInv'
  <2>1. OnAlarm("ack", None, a, {}) \in Request
    BY Records DEF Step
  <2>2. Fits(OnAlarm("ack", None, a, {}))
    BY <1>5 DEF Fits, OnAlarm, AckRead, AlarmMove, AlarmState
  <2> QED BY <1>5, <2>1, <2>2, BecomeOK, TablesUnchanged DEF AckRead
<1>6. ASSUME NEW i \in Incidents, ConfirmRead(h, i) \/ AddRead(h, i)
      PROVE  TypeInv'
  BY <1>2, <1>6 DEF ConfirmRead, AddRead, IncidentMove, IncidentState
<1> QED BY <1>1, <1>3, <1>4, <1>5, <1>6 DEF Call

LEMMA ContinueType ==
  ASSUME TypeInv, NEW h \in Handlers, Continue(h)
  PROVE  TypeInv'
<1> DEFINE i == req[h].incident
           a == req[h].alarm
           rest == req[h].todo
<1>0. Stored /\ req[h] \in Request /\ RequestOK(h)
  BY DEF TypeInv, TypeOK, Stored
<1>idle. Idle \in Request /\ Fits(Idle)
  BY Records DEF Idle, Fits
<1>rest. ASSUME NEW w \in SUBSET Alarms, i \in Incidents, incidents[i].state # "none",
                w \subseteq incidents[i].alarms
         PROVE  Resolving(i, w) \in Request /\ Fits(Resolving(i, w))
  <2>1. Resolving(i, w) \in Request
    BY <1>rest, Records
  <2>2. OnAlarm("next", i, None, w).step = "next" /\ OnAlarm("next", i, None, w).incident = i
        /\ OnAlarm("next", i, None, w).alarm = None /\ OnAlarm("next", i, None, w).todo = w
    BY DEF OnAlarm
  <2> QED BY <1>rest, <1>idle, <2>1, <2>2 DEF Resolving, Fits
<1>1. CASE ConfirmWrite(h)
  <2>1. Stored' /\ IncidentsKept /\ AlarmsKept
    BY <1>0, <1>1, UpdateIncidentOK DEF ConfirmWrite, RequestOK, Fits, IncidentState
  <2> QED BY <1>1, <1>idle, <2>1, BecomeOK DEF ConfirmWrite
<1>2. ASSUME NEW x \in Actions, AddWrite(h, x) PROVE TypeInv'
  <2>1. Stored' /\ IncidentsKept /\ AlarmsKept
    BY <1>0, <1>2, ActionsOK DEF AddWrite, RequestOK, Fits
  <2> QED BY <1>2, <1>idle, <2>1, BecomeOK DEF AddWrite
<1>3. CASE CloseWrite(h)
  <2>1. Stored' /\ IncidentsKept /\ AlarmsKept
    BY <1>0, <1>3, UpdateIncidentOK DEF CloseWrite, RequestOK, Fits, IncidentState
  <2>2. Resolving(i, rest) \in Request /\ Fits(Resolving(i, rest))
    BY <1>0, <1>3, <1>rest DEF CloseWrite, RequestOK, Fits, Request
  <2> QED BY <1>3, <2>1, <2>2, BecomeOK DEF CloseWrite
<1>4. ASSUME NEW b \in Alarms, ResolveRead(h, b) PROVE TypeInv'
  <2>1. i \in Incidents /\ incidents[i].state # "none" /\ rest \ {b} \subseteq incidents[i].alarms
        /\ rest \ {b} \in SUBSET Alarms
    BY <1>0, <1>4 DEF ResolveRead, RequestOK, Fits, Request
  <2>2. UNCHANGED <<incidents, alarmVars>>
    BY <1>4 DEF ResolveRead
  <2>3. CASE AlarmMove(alarms[b].state, "resolved") /\ Become(h, OnAlarm("resolve", i, b, rest \ {b}))
    <3>1. OnAlarm("resolve", i, b, rest \ {b}) \in Request
      BY <2>1, Records DEF Step
    <3>2. Fits(OnAlarm("resolve", i, b, rest \ {b}))
      BY <2>1, <2>3 DEF Fits, OnAlarm, AlarmMove, AlarmState
    <3> QED BY <2>2, <2>3, <3>1, <3>2, BecomeOK, TablesUnchanged
  <2>4. CASE Become(h, Resolving(i, rest \ {b}))
    BY <2>1, <2>2, <2>4, <1>rest, BecomeOK, TablesUnchanged
  <2> QED BY <1>4, <2>3, <2>4 DEF ResolveRead
<1>5. CASE ResolveWrite(h)
  <2>1. i \in Incidents /\ incidents[i].state # "none" /\ rest \subseteq incidents[i].alarms
        /\ a \in Alarms /\ alarms[a].state # "none"
    BY <1>0, <1>5 DEF ResolveWrite, RequestOK, Fits
  <2>2. Stored' /\ IncidentsKept /\ AlarmsKept
    BY <1>0, <1>5, <2>1, AlarmStepOK DEF ResolveWrite, AlarmState
  <2>3. OnAlarm("clear", i, a, rest) \in Request
    BY <1>0, <2>1, Records DEF Step, Request
  <2>4. Fits(OnAlarm("clear", i, a, rest))
    BY <2>1 DEF Fits, OnAlarm
  <2> QED BY <1>5, <2>2, <2>3, <2>4, BecomeOK DEF ResolveWrite
<1>6. CASE ResolveClear(h)
  <2>1. i \in Incidents /\ incidents[i].state # "none" /\ rest \subseteq incidents[i].alarms
        /\ a \in Alarms /\ alarms[a].state # "none"
    BY <1>0, <1>6 DEF ResolveClear, RequestOK, Fits
  <2>2. alarms[a].point \in AlarmPoints
    BY <1>0, <2>1 DEF Stored, StoreOK
  <2>3. Stored' /\ IncidentsKept /\ AlarmsKept
    BY <1>0, <1>6, <2>2, AlarmStepOK DEF ResolveClear
  <2>4. Resolving(i, rest) \in Request /\ Fits(Resolving(i, rest))
    BY <1>0, <2>1, <1>rest DEF Request
  <2> QED BY <1>6, <2>3, <2>4, BecomeOK DEF ResolveClear
<1>7. CASE AckWrite(h)
  <2>1. Stored' /\ IncidentsKept /\ AlarmsKept
    BY <1>0, <1>7, AlarmStepOK DEF AckWrite, RequestOK, Fits, AlarmState
  <2> QED BY <1>7, <1>idle, <2>1, BecomeOK DEF AckWrite
<1> QED BY <1>1, <1>2, <1>3, <1>4, <1>5, <1>6, <1>7 DEF Continue

LEMMA TypeNext == TypeInv /\ [Next]_vars => TypeInv'
<1> SUFFICES ASSUME TypeInv, [Next]_vars PROVE TypeInv'
  OBVIOUS
<1>1. CASE \E h \in Handlers : Call(h) \/ Continue(h)
  BY <1>1, CallType, ContinueType
<1>2. CASE \/ \E a \in Alarms, p \in AlarmPoints : Ingested(a, p)
           \/ \E p \in AlarmPoints : Normal(p)
  <2>1. Stored' /\ IncidentsKept /\ AlarmsKept
    BY <1>2, AlarmStepOK DEF Ingested, Normal, TypeInv, TypeOK, Stored
  <2> QED BY <1>2, <2>1, RequestsKept DEF Ingested, Normal
<1>3. CASE UNCHANGED vars
  BY <1>3, TablesUnchanged, RequestsKept DEF vars, alarmVars
<1> QED BY <1>1, <1>2, <1>3 DEF Next

LEMMA TypeAlways == Spec => []TypeInv
<1> QED BY TypeInit, TypeNext, PTL DEF Spec

(***************************************************************************)
(* Incidents, alarms and requests keep their types, under any              *)
(* interleaving.                                                           *)
(***************************************************************************)
THEOREM Typing == Spec => []TypeOK
<1>1. TypeInv => TypeOK
  BY DEF TypeInv
<1> QED BY <1>1, TypeAlways, PTL

(***************************************************************************)
(* However requests overlap, something was done in every closed incident.  *)
(***************************************************************************)
THEOREM ClosedHasDone == Spec => []ClosedHasCompleted
<1>1. TypeInv => ClosedHasCompleted
  BY DEF TypeInv, StoreOK, ClosedHasCompleted
<1> QED BY <1>1, TypeAlways, PTL

-----------------------------------------------------------------------------
(***************************************************************************)
(* One request at a time: what an orderly client sends is about incidents  *)
(* and alarms that no other request works on.                              *)
(***************************************************************************)
Alone == \A g, h \in Handlers : \A x \in Orderly : Uses(g, x) /\ Uses(h, x) => g = h

(* What request h becomes uses nothing orderly that another request uses.  *)
LEMMA AloneKept ==
  ASSUME TypeInv, Alone, NEW h \in Handlers, NEW r, Become(h, r),
         \A x \in Orderly : x \in {r.incident, r.alarm} \cup r.todo =>
            (Uses(h, x) \/ \A g \in Handlers : ~Uses(g, x))
  PROVE  Alone'
<1>1. req'[h] = r /\ \A g \in Handlers \ {h} : req'[g] = req[g]
  BY DEF TypeInv, TypeOK, Become
<1>2. ASSUME NEW g \in Handlers \ {h}, NEW x \in Orderly, Uses(g, x)', Uses(h, x)' PROVE FALSE
  <2>1. Uses(g, x)
    BY <1>1, <1>2 DEF Uses
  <2>2. Uses(h, x)
    BY <1>1, <1>2, <2>1 DEF Uses
  <2> QED BY <2>1, <2>2, <1>2 DEF Alone
<1>3. ASSUME NEW g \in Handlers \ {h}, NEW f \in Handlers \ {h}, NEW x \in Orderly, Uses(g, x)', Uses(f, x)'
      PROVE  g = f
  BY <1>1, <1>3 DEF Uses, Alone
<1> QED BY <1>2, <1>3 DEF Alone

LEMMA NoneNotOrderly == None \notin Orderly
BY OrderlyOK, NoneOK, NoIncidentOK

LEMMA AloneNext == TypeInv /\ Alone /\ [Next]_vars => Alone'
<1> SUFFICES ASSUME TypeInv, Alone, [Next]_vars PROVE Alone'
  OBVIOUS
<1>0. CASE req' = req
  BY <1>0 DEF Alone, Uses
<1> DEFINE Lent(h, x) == Uses(h, x) \/ \A g \in Handlers : ~Uses(g, x)
<1>1. ASSUME NEW h \in Handlers, NEW i \in Incidents, NEW s, MayTouch(i), Become(h, OnIncident(s, i))
      PROVE  Alone'
  <2>1. \A x \in Orderly : x \in {OnIncident(s, i).incident, OnIncident(s, i).alarm} \cup OnIncident(s, i).todo
                             => Lent(h, x)
    BY <1>1, NoneNotOrderly DEF OnIncident, MayTouch
  <2> QED BY <1>1, <2>1, AloneKept
<1>2. ASSUME NEW h \in Handlers, NEW i \in Incidents, CloseRead(h, i)
      PROVE  Alone'
  <2>1. \A x \in Orderly : x \in {Closing(i).incident, Closing(i).alarm} \cup Closing(i).todo => Lent(h, x)
    BY <1>2, NoneNotOrderly DEF Closing, CloseRead, MayTouch
  <2>2. Become(h, Closing(i))
    BY <1>2 DEF CloseRead
  <2> QED BY <2>1, <2>2, AloneKept
<1>3. ASSUME NEW h \in Handlers, NEW a \in Alarms, AckRead(h, a)
      PROVE  Alone'
  <2> DEFINE r == OnAlarm("ack", None, a, {})
  <2>1. \A x \in Orderly : x \in {r.incident, r.alarm} \cup r.todo => Lent(h, x)
    BY <1>3, NoneNotOrderly DEF OnAlarm, AckRead, MayTouch
  <2>2. Become(h, r)
    BY <1>3 DEF AckRead
  <2> HIDE DEF r
  <2> QED BY <2>1, <2>2, AloneKept
(* Everything else uses less than before. *)
<1>4. ASSUME NEW h \in Handlers, NEW r, Become(h, r), r.incident \in {req[h].incident, None},
             r.alarm \in {req[h].alarm, None} \cup req[h].todo, r.todo \subseteq req[h].todo
      PROVE  Alone'
  <2>1. \A x \in Orderly : x \in {r.incident, r.alarm} \cup r.todo => Uses(h, x)
    BY <1>4, NoneNotOrderly DEF Uses
  <2> QED BY <1>4, <2>1, AloneKept
<1>5. ASSUME NEW h \in Handlers, NEW w, w \subseteq req[h].todo,
             Become(h, Resolving(req[h].incident, w)) \/ Become(h, Idle)
      PROVE  Alone'
  <2>1. /\ Idle.incident = None /\ Idle.alarm = None /\ Idle.todo = {}
        /\ OnAlarm("next", req[h].incident, None, w).incident = req[h].incident
        /\ OnAlarm("next", req[h].incident, None, w).alarm = None
        /\ OnAlarm("next", req[h].incident, None, w).todo = w
    BY DEF Idle, OnAlarm
  <2>2. Become(h, Idle) \/ Become(h, OnAlarm("next", req[h].incident, None, w))
    BY <1>5 DEF Resolving
  <2> QED BY <1>4, <1>5, <2>1, <2>2
<1>6. ASSUME NEW h \in Handlers, NEW a \in Alarms, ResolveRead(h, a)
      PROVE  Alone'
  <2> DEFINE r == OnAlarm("resolve", req[h].incident, a, req[h].todo \ {a})
  <2>1. r.incident = req[h].incident /\ r.alarm = a /\ r.todo = req[h].todo \ {a} /\ a \in req[h].todo
    BY <1>6 DEF OnAlarm, ResolveRead
  <2>2. Become(h, r) \/ Become(h, Resolving(req[h].incident, req[h].todo \ {a}))
    BY <1>6 DEF ResolveRead
  <2> HIDE DEF r
  <2> QED BY <1>4, <1>5, <2>1, <2>2
<1>7. ASSUME NEW h \in Handlers, ResolveWrite(h)
      PROVE  Alone'
  <2> DEFINE r == OnAlarm("clear", req[h].incident, req[h].alarm, req[h].todo)
  <2>1. r.incident = req[h].incident /\ r.alarm = req[h].alarm /\ r.todo = req[h].todo
    BY DEF OnAlarm
  <2>2. Become(h, r)
    BY <1>7 DEF ResolveWrite
  <2> HIDE DEF r
  <2> QED BY <1>4, <2>1, <2>2
<1>8. ASSUME NEW h \in Handlers, Call(h) PROVE Alone'
  BY <1>0, <1>1, <1>2, <1>3, <1>8 DEF Call, Report, CompleteAction, ConfirmRead, AddRead
<1>9. ASSUME NEW h \in Handlers, Continue(h) PROVE Alone'
  BY <1>5, <1>6, <1>7, <1>9 DEF Continue, ConfirmWrite, AddWrite, CloseWrite, ResolveClear, AckWrite
<1> QED BY <1>0, <1>8, <1>9 DEF Next, vars, Ingested, Normal

-----------------------------------------------------------------------------
(***************************************************************************)
(* ClosedIsComplete.  Between the test of Close and its Update the list of *)
(* actions does not change, as no other request works on the incident, and *)
(* a request that adds an action does so while the incident is not closed. *)
(***************************************************************************)
PendingOK(r) ==
  r.incident \in Orderly =>
    /\ r.step = "add" => ~IsClosed(r.incident)
    /\ r.step = "close" => AllActionsComplete(r.incident)

CompleteInv ==
  /\ \A i \in Incidents \cap Orderly : IsClosed(i) => AllActionsComplete(i)
  /\ \A h \in Handlers : PendingOK(req[h])

(* A step that changes no incident, or only does actions. *)
LEMMA CompleteSame ==
  ASSUME TypeInv, CompleteInv, NEW h \in Handlers,
         \A i \in Incidents : /\ incidents'[i].state = incidents[i].state
                              /\ AllActionsComplete(i) => AllActionsComplete(i)',
         NEW r, req' = req \/ Become(h, r),
         r.incident \in Incidents \/ r.step \notin {"add", "close"},
         PendingOK(r)
  PROVE  CompleteInv'
<1>1. ASSUME NEW i \in Incidents \cap Orderly, IsClosed(i)' PROVE AllActionsComplete(i)'
  BY <1>1 DEF CompleteInv, IsClosed
<1>2. ASSUME NEW q, PendingOK(q), q.incident \in Incidents \/ q.step \notin {"add", "close"}
      PROVE  PendingOK(q)'
  BY <1>2 DEF PendingOK, IsClosed
<1>3. ASSUME NEW g \in Handlers PROVE PendingOK(req[g])'
  <2>1. req'[g] = req[g] \/ req'[g] = r
    BY DEF Become, TypeInv, TypeOK
  <2>2. PendingOK(req[g]) /\ (req[g].incident \in Incidents \/ req[g].step \notin {"add", "close"})
    BY DEF CompleteInv, TypeInv, RequestOK, Fits
  <2> QED BY <1>2, <2>1, <2>2 DEF PendingOK, IsClosed, AllActionsComplete
<1> QED BY <1>1, <1>3 DEF CompleteInv

(* A step that changes one incident, which no other request works on. *)
LEMMA CompleteOne ==
  ASSUME TypeInv, CompleteInv, NEW i \in Incidents,
         \A j \in Incidents \ {i} : incidents'[j] = incidents[j],
         i \in Orderly /\ IsClosed(i)' => AllActionsComplete(i)',
         \A g \in Handlers :
           \/ req'[g] = req[g] /\ (i \in Orderly => req[g].incident # i)
           \/ req'[g].step \notin {"add", "close"}
  PROVE  CompleteInv'
<1>1. ASSUME NEW j \in Incidents \cap Orderly, IsClosed(j)' PROVE AllActionsComplete(j)'
  BY <1>1 DEF CompleteInv, IsClosed, AllActionsComplete
<1>2. ASSUME NEW g \in Handlers PROVE PendingOK(req[g])'
  <2>1. CASE req'[g].step \notin {"add", "close"}
    BY <2>1 DEF PendingOK
  <2>2. CASE req'[g] = req[g] /\ (i \in Orderly => req[g].incident # i) /\ req[g].step \in {"add", "close"}
    <3>1. PendingOK(req[g]) /\ req[g].incident \in Incidents
      BY <2>2 DEF CompleteInv, TypeInv, RequestOK, Fits
    <3>2. req[g].incident \in Orderly => incidents'[req[g].incident] = incidents[req[g].incident]
      BY <2>2, <3>1
    <3> QED BY <2>2, <3>1, <3>2 DEF PendingOK, IsClosed, AllActionsComplete
  <2> QED BY <2>1, <2>2
<1> QED BY <1>1, <1>2 DEF CompleteInv

LEMMA CompleteCall ==
  ASSUME TypeInv, Alone, CompleteInv, NEW h \in Handlers, Call(h)
  PROVE  CompleteInv'
<1>0. ASSUME incidents' = incidents, NEW r, Become(h, r), r.incident \in Incidents \/ r.step \notin {"add", "close"},
             PendingOK(r)
      PROVE  CompleteInv'
  BY <1>0, CompleteSame DEF AllActionsComplete
<1>1. ASSUME NEW i \in Incidents, NEW s \in IncSegments \cup {NoSegment}, NEW as \in SUBSET IncAlarms,
             Report(h, i, s, as)
      PROVE  CompleteInv'
  <2>1. /\ incidents[i].state = "none" /\ incidents'[i].state = "pending"
        /\ \A j \in Incidents \ {i} : incidents'[j] = incidents[j]
        /\ req' = req
    BY <1>1 DEF Report, PutIncident, TypeInv, TypeOK
  <2>2. \A g \in Handlers : req[g].step \in {"add", "close"} => req[g].incident # i
    BY <2>1 DEF TypeInv, RequestOK, Fits
  <2>3. ~IsClosed(i)'
    BY <2>1 DEF IsClosed
  <2> QED BY <2>1, <2>2, <2>3, CompleteOne
<1>2. ASSUME NEW i \in Incidents, ConfirmRead(h, i) PROVE CompleteInv'
  <2>1. OnIncident("confirm", i).step = "confirm"
    BY DEF OnIncident
  <2> QED BY <1>0, <1>2, <2>1 DEF ConfirmRead, PendingOK
<1>3. ASSUME NEW i \in Incidents, AddRead(h, i) PROVE CompleteInv'
  <2>1. OnIncident("add", i).step = "add" /\ OnIncident("add", i).incident = i
    BY DEF OnIncident
  <2>2. PendingOK(OnIncident("add", i))
    BY <1>3, <2>1 DEF AddRead, PendingOK, IsClosed
  <2> QED BY <1>0, <1>3, <2>1, <2>2 DEF AddRead
<1>4. ASSUME NEW i \in Incidents, NEW x \in Actions, CompleteAction(h, i, x) PROVE CompleteInv'
  <2>1. /\ incidents'[i].state = incidents[i].state /\ incidents'[i].actions = incidents[i].actions
        /\ incidents[i].done \subseteq incidents'[i].done
        /\ \A j \in Incidents \ {i} : incidents'[j] = incidents[j]
    BY <1>4 DEF CompleteAction, FinishAction, TypeInv, TypeOK, IncidentRecord
  <2>2. \A j \in Incidents : /\ incidents'[j].state = incidents[j].state
                             /\ AllActionsComplete(j) => AllActionsComplete(j)'
    BY <2>1 DEF AllActionsComplete
  <2>3. PendingOK(req[h]) /\ (req[h].incident \in Incidents \/ req[h].step \notin {"add", "close"})
    BY DEF CompleteInv, TypeInv, RequestOK, Fits
  <2> QED BY <1>4, <2>2, <2>3, CompleteSame DEF CompleteAction
<1>5. ASSUME NEW i \in Incidents, CloseRead(h, i) PROVE CompleteInv'
  <2>1. Closing(i).step = "close" /\ Closing(i).incident = i
    BY DEF Closing
  <2>2. PendingOK(Closing(i)) /\ Become(h, Closing(i)) /\ incidents' = incidents
    BY <1>5, <2>1 DEF CloseRead, PendingOK
  <2> QED BY <1>0, <2>1, <2>2
<1>6. ASSUME NEW a \in Alarms, AckRead(h, a) PROVE CompleteInv'
  <2>1. OnAlarm("ack", None, a, {}).step = "ack"
    BY DEF OnAlarm
  <2> QED BY <1>0, <1>6, <2>1 DEF AckRead, PendingOK
<1> QED BY <1>1, <1>2, <1>3, <1>4, <1>5, <1>6 DEF Call

LEMMA Became ==
  ASSUME TypeInv, NEW h \in Handlers, NEW r, Become(h, r)
  PROVE  req'[h] = r /\ \A g \in Handlers \ {h} : req'[g] = req[g]
BY DEF Become, TypeInv, TypeOK

LEMMA Steps ==
  /\ Idle.step = "idle"
  /\ \A i, w : Resolving(i, w).step \in {"idle", "next"}
  /\ \A s, i, a, w : OnAlarm(s, i, a, w).step = s
BY DEF Idle, Resolving, OnAlarm

(* A request's Update of its incident i. *)
LEMMA CompleteWrites ==
  ASSUME TypeInv, Alone, CompleteInv, NEW h \in Handlers, NEW i \in Incidents, i = req[h].incident,
         ConfirmWrite(h) \/ (\E x \in Actions : AddWrite(h, x)) \/ CloseWrite(h)
  PROVE  CompleteInv'
<1>1. ASSUME NEW g \in Handlers \ {h}, i \in Orderly PROVE req[g].incident # i
  BY <1>1 DEF Alone, Uses
<1>2. req'[h].step \in {"idle", "next"} /\ \A g \in Handlers \ {h} : req'[g] = req[g]
  BY Became, Steps DEF ConfirmWrite, AddWrite, CloseWrite
<1>3. \A j \in Incidents \ {i} : incidents'[j] = incidents[j]
  BY DEF ConfirmWrite, AddWrite, CloseWrite, UpdateIncident, AppendAction, TypeInv, TypeOK
<1>4. PendingOK(req[h])
  BY DEF CompleteInv
<1>5. ASSUME i \in Orderly, IsClosed(i)' PROVE AllActionsComplete(i)'
  <2>1. CASE ConfirmWrite(h)
    BY <1>5, <2>1 DEF ConfirmWrite, UpdateIncident, TypeInv, TypeOK, IncidentRecord, IsClosed
  <2>2. ASSUME NEW x \in Actions, AddWrite(h, x) PROVE FALSE
    <3>1. incidents'[i].state = incidents[i].state
      BY <2>2 DEF AddWrite, AppendAction, TypeInv, TypeOK, IncidentRecord
    <3> QED BY <1>4, <1>5, <2>2, <3>1 DEF AddWrite, PendingOK, IsClosed
  <2>3. CASE CloseWrite(h)
    <3>1. incidents'[i].actions = incidents[i].actions /\ incidents'[i].done = incidents[i].done
      BY <2>3 DEF CloseWrite, UpdateIncident, TypeInv, TypeOK, IncidentRecord
    <3>2. AllActionsComplete(i)
      BY <1>4, <1>5, <2>3 DEF CloseWrite, PendingOK
    <3> QED BY <3>1, <3>2 DEF AllActionsComplete
  <2> QED BY <2>1, <2>2, <2>3
<1>6. ASSUME NEW g \in Handlers
      PROVE  \/ req'[g] = req[g] /\ (i \in Orderly => req[g].incident # i)
             \/ req'[g].step \notin {"add", "close"}
  BY <1>1, <1>2
<1> QED BY <1>3, <1>5, <1>6, CompleteOne

LEMMA CompleteNext == TypeInv /\ Alone /\ CompleteInv /\ [Next]_vars => CompleteInv'
<1> SUFFICES ASSUME TypeInv, Alone, CompleteInv, [Next]_vars PROVE CompleteInv'
  OBVIOUS
<1>1. ASSUME NEW h \in Handlers, Call(h) PROVE CompleteInv'
  BY <1>1, CompleteCall
<1>2. ASSUME NEW h \in Handlers, Continue(h) PROVE CompleteInv'
  <2>1. CASE ConfirmWrite(h) \/ (\E x \in Actions : AddWrite(h, x)) \/ CloseWrite(h)
    <3>1. PICK i \in Incidents : i = req[h].incident
      BY <2>1 DEF ConfirmWrite, AddWrite, CloseWrite, TypeInv, RequestOK, Fits
    <3> QED BY <2>1, <3>1, CompleteWrites
  <2>2. ASSUME incidents' = incidents, NEW r, Become(h, r), r.step \notin {"add", "close"}
        PROVE  CompleteInv'
    <3>1. PendingOK(r)
      BY <2>2 DEF PendingOK
    <3>2. \A i \in Incidents : /\ incidents'[i].state = incidents[i].state
                               /\ AllActionsComplete(i) => AllActionsComplete(i)'
      BY <2>2 DEF AllActionsComplete
    <3> QED BY <2>2, <3>1, <3>2, CompleteSame
  <2>3. ASSUME NEW s \in {"idle", "next", "resolve", "clear"}, NEW r, r.step = s,
               incidents' = incidents, Become(h, r)
        PROVE  CompleteInv'
    BY <2>2, <2>3
  <2>4. CASE \E a \in Alarms : ResolveRead(h, a)
    BY <2>3, <2>4, Steps DEF ResolveRead
  <2>5. CASE ResolveWrite(h)
    BY <2>3, <2>5, Steps DEF ResolveWrite
  <2>6. CASE ResolveClear(h)
    BY <2>3, <2>6, Steps DEF ResolveClear
  <2>7. CASE AckWrite(h)
    BY <2>3, <2>7, Steps DEF AckWrite
  <2> QED BY <1>2, <2>1, <2>4, <2>5, <2>6, <2>7 DEF Continue
<1>3. ASSUME incidents' = incidents, req' = req PROVE CompleteInv'
  BY <1>3 DEF CompleteInv, PendingOK, IsClosed, AllActionsComplete
<1> QED BY <1>1, <1>2, <1>3 DEF Next, Ingested, Normal, vars

LEMMA AloneInit == Init => Alone
BY NoneNotOrderly DEF Init, Alone, Uses, Idle

LEMMA AloneAlways == Spec => []Alone
<1> QED BY AloneInit, AloneNext, TypeAlways, PTL DEF Spec

(***************************************************************************)
(* Closing requires all actions complete: for every incident that gets one *)
(* request at a time.                                                      *)
(***************************************************************************)
THEOREM ClosedComplete == Spec => []ClosedIsComplete
<1>1. Init => CompleteInv
  BY DEF Init, IncidentInit, NoIncident, Idle, CompleteInv, PendingOK, IsClosed
<1>2. CompleteInv => ClosedIsComplete
  BY DEF CompleteInv, ClosedIsComplete, AllActionsComplete
<1> QED BY <1>1, <1>2, CompleteNext, TypeAlways, AloneAlways, PTL DEF Spec

-----------------------------------------------------------------------------
(***************************************************************************)
(* ClosedResolvesAlarms.  An alarm of a closed incident is resolved, or    *)
(* Close still has it on its list; and nobody is acknowledging it, as      *)
(* nobody was when Close began and nobody can begin before it is resolved. *)
(***************************************************************************)
Owed(i, a) ==
  i \in Incidents \cap Orderly /\ a \in incidents[i].alarms \cap Orderly /\ IsClosed(i)

Holds(r, i, a) ==
  /\ r.incident = i
  /\ r.step \in {"next", "resolve", "clear"}
  /\ a \in r.todo \/ (r.step = "resolve" /\ r.alarm = a)

IsResolved(a) == alarms[a].state = "resolved"

Unacknowledged(r) == r.step = "ack" /\ r.alarm \in Orderly => \A i : ~Owed(i, r.alarm)

ResolveInv ==
  /\ \A i, a : Owed(i, a) => IsResolved(a) \/ \E h \in Handlers : Holds(req[h], i, a)
  /\ \A h \in Handlers : Unacknowledged(req[h])

(* A step of request h that closes nothing. *)
LEMMA ResolveStep ==
  ASSUME TypeInv, ResolveInv, NEW h \in Handlers, NEW r, Become(h, r),
         \A i, a : Owed(i, a)' => Owed(i, a),
         \A i, a : Owed(i, a) /\ IsResolved(a) => IsResolved(a)',
         \A i, a : Owed(i, a) /\ Holds(req[h], i, a) => Holds(r, i, a) \/ IsResolved(a)',
         Unacknowledged(r)
  PROVE  ResolveInv'
<1>1. req'[h] = r /\ \A g \in Handlers \ {h} : req'[g] = req[g]
  BY Became
<1>2. ASSUME NEW i, NEW a, Owed(i, a)'
      PROVE  IsResolved(a)' \/ \E g \in Handlers : Holds(req'[g], i, a)
  <2>1. Owed(i, a)
    BY <1>2
  <2>2. CASE IsResolved(a)
    BY <2>1, <2>2
  <2>3. ASSUME NEW g \in Handlers, Holds(req[g], i, a)
        PROVE  IsResolved(a)' \/ \E f \in Handlers : Holds(req'[f], i, a)
    <3>1. CASE g = h
      BY <1>1, <2>1, <2>3, <3>1
    <3>2. CASE g # h
      BY <1>1, <2>3, <3>2
    <3> QED BY <3>1, <3>2
  <2> QED BY <2>1, <2>2, <2>3 DEF ResolveInv
<1>3. ASSUME NEW g \in Handlers PROVE Unacknowledged(req[g])'
  <2>1. Unacknowledged(req[g]) /\ (req'[g] = req[g] \/ req'[g] = r)
    BY <1>1 DEF ResolveInv
  <2> QED BY <2>1 DEF Unacknowledged
<1>4. \A i, a : Owed(i, a)' => IsResolved(a)' \/ \E g \in Handlers : Holds(req'[g], i, a)
  BY <1>2
<1> QED BY <1>3, <1>4 DEF ResolveInv, Holds

(* A step that moves no request. *)
LEMMA ResolveSame ==
  ASSUME TypeInv, ResolveInv, req' = req,
         \A i, a : Owed(i, a)' => Owed(i, a),
         \A i, a : Owed(i, a) /\ IsResolved(a) => IsResolved(a)'
  PROVE  ResolveInv'
<1>1. ASSUME NEW i, NEW a, Owed(i, a)'
      PROVE  IsResolved(a)' \/ \E g \in Handlers : Holds(req'[g], i, a)
  BY <1>1 DEF ResolveInv
<1>2. ASSUME NEW g \in Handlers PROVE Unacknowledged(req[g])'
  BY DEF ResolveInv, Unacknowledged
<1>3. \A i, a : Owed(i, a)' => IsResolved(a)' \/ \E g \in Handlers : Holds(req'[g], i, a)
  BY <1>1
<1> QED BY <1>2, <1>3 DEF ResolveInv, Holds

LEMMA OwedSame ==
  ASSUME incidents' = incidents
  PROVE  \A i, a : Owed(i, a)' <=> Owed(i, a)
BY DEF Owed, IsClosed

(* Steps about incidents that close nothing. *)
LEMMA OwedKept ==
  ASSUME TypeInv, NEW h \in Handlers,
         \/ \E i \in Incidents, s \in IncSegments \cup {NoSegment}, as \in SUBSET IncAlarms : Report(h, i, s, as)
         \/ \E i \in Incidents, x \in Actions : CompleteAction(h, i, x)
         \/ ConfirmWrite(h)
         \/ \E x \in Actions : AddWrite(h, x)
  PROVE  /\ \A i, a : Owed(i, a)' => Owed(i, a)
         /\ \A a : IsResolved(a)' <=> IsResolved(a)
<1>1. alarms' = alarms
  BY DEF Report, CompleteAction, ConfirmWrite, AddWrite, alarmVars
<1>2. ASSUME NEW j \in Incidents, incidents'[j].state = "closed"
      PROVE  incidents[j].state = "closed" /\ incidents'[j].alarms = incidents[j].alarms
  <2>1. ASSUME NEW i \in Incidents, NEW s \in IncSegments \cup {NoSegment}, NEW as \in SUBSET IncAlarms,
               Report(h, i, s, as)
        PROVE  incidents[j].state = "closed" /\ incidents'[j].alarms = incidents[j].alarms
    <3>1. incidents \in [Incidents -> IncidentRecord] /\ PutIncident(i, s, as)
      BY <2>1 DEF Report, TypeInv, TypeOK
    <3>2. incidents'[i].state = "pending"
      BY <3>1 DEF PutIncident, NoIncident
    <3>3. \A k \in Incidents \ {i} : incidents'[k] = incidents[k]
      BY <3>1 DEF PutIncident
    <3> QED BY <1>2, <3>2, <3>3
  <2>2. ASSUME NEW i \in Incidents, NEW x \in Actions, CompleteAction(h, i, x)
        PROVE  incidents[j].state = "closed" /\ incidents'[j].alarms = incidents[j].alarms
    BY <1>2, <2>2 DEF CompleteAction, FinishAction, TypeInv, TypeOK, IncidentRecord
  <2>3. CASE ConfirmWrite(h)
    BY <1>2, <2>3 DEF ConfirmWrite, UpdateIncident, TypeInv, TypeOK, IncidentRecord
  <2>4. ASSUME NEW x \in Actions, AddWrite(h, x)
        PROVE  incidents[j].state = "closed" /\ incidents'[j].alarms = incidents[j].alarms
    BY <1>2, <2>4 DEF AddWrite, AppendAction, TypeInv, TypeOK, IncidentRecord
  <2> QED BY <2>1, <2>2, <2>3, <2>4
<1> QED BY <1>1, <1>2 DEF Owed, IsClosed, IsResolved

LEMMA ResolveCall ==
  ASSUME TypeInv, ResolveInv, NEW h \in Handlers, Call(h)
  PROVE  ResolveInv'
<1>1. CASE \/ \E i \in Incidents, s \in IncSegments \cup {NoSegment}, as \in SUBSET IncAlarms : Report(h, i, s, as)
           \/ \E i \in Incidents, x \in Actions : CompleteAction(h, i, x)
  BY <1>1, OwedKept, ResolveSame DEF Report, CompleteAction
<1>2. ASSUME NEW r, Become(h, r), IsIdle(h), UNCHANGED <<incidents, alarmVars>>, Unacknowledged(r)
      PROVE  ResolveInv'
  <2>1. \A i, a : ~Holds(req[h], i, a)
    BY <1>2 DEF Holds, IsIdle
  <2>2. \A a : IsResolved(a)' <=> IsResolved(a)
    BY <1>2 DEF IsResolved, alarmVars
  <2> QED BY <1>2, <2>1, <2>2, OwedSame, ResolveStep
<1>3. CASE \E i \in Incidents : ConfirmRead(h, i) \/ AddRead(h, i) \/ CloseRead(h, i)
  <2>1. \A i : /\ \A s \in {"confirm", "add"} : Unacknowledged(OnIncident(s, i))
               /\ Unacknowledged(Closing(i))
    BY DEF Unacknowledged, OnIncident, Closing
  <2> QED BY <1>2, <1>3, <2>1 DEF ConfirmRead, AddRead, CloseRead
<1>4. ASSUME NEW a \in Alarms, AckRead(h, a)
      PROVE  ResolveInv'
  <2>1. ASSUME a \in Orderly, NEW i, Owed(i, a) PROVE FALSE
    <3>1. ~IsResolved(a)
      BY <1>4 DEF AckRead, AlarmMove, AlarmTransitions, AlarmState, IsResolved
    <3>2. PICK g \in Handlers : Holds(req[g], i, a)
      BY <2>1, <3>1 DEF ResolveInv
    <3> QED BY <1>4, <2>1, <3>2 DEF AckRead, MayTouch, Uses, Holds
  <2>2. Unacknowledged(OnAlarm("ack", None, a, {}))
    BY <2>1 DEF Unacknowledged, OnAlarm
  <2> QED BY <1>2, <1>4, <2>2 DEF AckRead
<1> QED BY <1>1, <1>3, <1>4 DEF Call

(* What the loop of Close still holds. *)
LEMMA Loop ==
  /\ \A i, w, j, a : Holds(Resolving(i, w), j, a) <=> (i = j /\ a \in w)
  /\ \A i, b, w, j, a : Holds(OnAlarm("resolve", i, b, w), j, a) <=> (i = j /\ (a \in w \/ a = b))
  /\ \A i, b, w, j, a : Holds(OnAlarm("clear", i, b, w), j, a) <=> (i = j /\ a \in w)
  /\ \A i, w : Unacknowledged(Resolving(i, w))
  /\ \A s \in {"resolve", "clear"} : \A i, b, w : Unacknowledged(OnAlarm(s, i, b, w))
  /\ Unacknowledged(Idle)
BY DEF Holds, Resolving, OnAlarm, Idle, Unacknowledged

(* An alarm's resolution is undone only by an acknowledgement under way. *)
LEMMA ResolvedKept ==
  ASSUME TypeInv, NEW a \in Alarms, IsResolved(a), incidents' = incidents,
         \/ \E b \in Alarms, p \in AlarmPoints : alarms[b].state = "none" /\ AddAlarm(b, p)
         \/ \E p \in AlarmPoints : ResolveActiveForPoint(p)
         \/ \E b \in Alarms : UpdateAlarm(b, "resolved")
         \/ \E b \in Alarms \ {a} : UpdateAlarm(b, "acknowledged")
  PROVE  IsResolved(a)'
BY DEF TypeInv, TypeOK, AlarmTypeOK, AlarmRecord, IsResolved, AddAlarm, ResolveActiveForPoint, UpdateAlarm, IsActive

LEMMA OwedAlarm ==
  ASSUME TypeInv, NEW i, NEW a, Owed(i, a)
  PROVE  a \in Alarms /\ alarms[a].state \in AlarmState
BY IncidentAlarmsOK DEF Owed, TypeInv, TypeOK, StoreOK, IncidentRecord, AlarmTypeOK, AlarmRecord

(***************************************************************************)
(* Close's Update: the incident is closed, Close owes it its alarms, and   *)
(* no other request is about any of them.                                  *)
(***************************************************************************)
LEMMA ResolveClose ==
  ASSUME TypeInv, Alone, ResolveInv, NEW h \in Handlers, CloseWrite(h)
  PROVE  ResolveInv'
<1>1. PICK k \in Incidents : k = req[h].incident
  BY DEF CloseWrite, TypeInv, RequestOK, Fits
<1>2. /\ req[h].step = "close" /\ req[h].todo = incidents[k].alarms
      /\ UpdateIncident(k, "closed") /\ alarms' = alarms
      /\ Become(h, Resolving(k, incidents[k].alarms))
  BY <1>1 DEF CloseWrite, TypeInv, RequestOK, Fits, alarmVars
<1>3. req'[h] = Resolving(k, incidents[k].alarms) /\ \A g \in Handlers \ {h} : req'[g] = req[g]
  BY <1>2, Became
<1>4. /\ \A j \in Incidents \ {k} : incidents'[j] = incidents[j]
      /\ incidents'[k].alarms = incidents[k].alarms
  BY <1>2 DEF UpdateIncident, TypeInv, TypeOK, IncidentRecord
<1>5. \A j, a : Owed(j, a)' => Owed(j, a) \/ (j = k /\ a \in incidents[k].alarms)
  BY <1>4 DEF Owed, IsClosed
<1>6. ASSUME NEW j, NEW a, Owed(j, a)'
      PROVE  IsResolved(a)' \/ \E g \in Handlers : Holds(req'[g], j, a)
  <2>1. CASE j = k /\ a \in incidents[k].alarms
    BY <1>3, <2>1, Loop
  <2>2. CASE Owed(j, a)
    <3>1. ASSUME NEW g \in Handlers, Holds(req[g], j, a) PROVE Holds(req'[g], j, a)
      BY <1>2, <1>3, <3>1 DEF Holds
    <3> QED BY <1>2, <2>2, <3>1 DEF ResolveInv, IsResolved
  <2> QED BY <1>5, <1>6, <2>1, <2>2
<1>7. ASSUME NEW g \in Handlers PROVE Unacknowledged(req[g])'
  <2>1. CASE g = h
    BY <1>3, <2>1, Loop DEF Unacknowledged, Resolving, OnAlarm, Idle
  <2>2. CASE g # h
    <3> SUFFICES ASSUME NEW a \in Orderly, req[g].step = "ack", req[g].alarm = a, NEW j, Owed(j, a)'
                 PROVE  FALSE
      BY <1>3, <2>2 DEF Unacknowledged
    <3>1. ~Owed(j, a)
      BY DEF ResolveInv, Unacknowledged
    <3>2. a \in incidents[k].alarms
      BY <1>5, <3>1
    <3>3. Uses(g, a) /\ Uses(h, a)
      BY <1>2, <3>2 DEF Uses
    <3> QED BY <2>2, <3>3 DEF Alone
  <2> QED BY <2>1, <2>2
<1>8. \A j, a : Owed(j, a)' => IsResolved(a)' \/ \E g \in Handlers : Holds(req'[g], j, a)
  BY <1>6
<1> QED BY <1>7, <1>8 DEF ResolveInv, Holds

LEMMA ResolveContinue ==
  ASSUME TypeInv, Alone, ResolveInv, NEW h \in Handlers, Continue(h)
  PROVE  ResolveInv'
<1>0. req[h] \in Request /\ Fits(req[h]) /\ Unacknowledged(req[h])
  BY DEF TypeInv, TypeOK, RequestOK, ResolveInv
<1>1. CASE ConfirmWrite(h) \/ \E x \in Actions : AddWrite(h, x)
  <2>1. \A i, a : ~Holds(req[h], i, a)
    BY <1>1 DEF Holds, ConfirmWrite, AddWrite
  <2> QED BY <1>1, <2>1, OwedKept, ResolveStep, Loop DEF ConfirmWrite, AddWrite
<1>2. ASSUME NEW a \in Alarms, ResolveRead(h, a)
      PROVE  ResolveInv'
  <2> DEFINE rest == req[h].todo \ {a}
             r == OnAlarm("resolve", req[h].incident, a, rest)
             l == Resolving(req[h].incident, rest)
  <2>1. incidents' = incidents /\ alarms' = alarms /\ req[h].step = "next"
    BY <1>2 DEF ResolveRead, alarmVars
  <2>2. (\A i, b : Owed(i, b)' => Owed(i, b)) /\ (\A i, b : Owed(i, b) /\ IsResolved(b) => IsResolved(b)')
    BY <2>1, OwedSame DEF IsResolved
  <2>h. \A i, b : Holds(req[h], i, b) => req[h].incident = i /\ (b \in rest \/ b = a)
    BY <2>1 DEF Holds
  <2>3. CASE Become(h, r)
    <3>0. \A i, b : Holds(r, i, b) <=> (req[h].incident = i /\ (b \in rest \/ b = a))
      BY Loop
    <3>1. \A i, b : Owed(i, b) /\ Holds(req[h], i, b) => Holds(r, i, b) \/ IsResolved(b)'
      BY <2>h, <3>0
    <3>2. Unacknowledged(r)
      BY Loop
    <3> HIDE DEF r
    <3> QED BY <2>2, <2>3, <3>1, <3>2, ResolveStep
  <2>4. CASE ~AlarmMove(alarms[a].state, "resolved") /\ Become(h, l)
    <3>1. ASSUME NEW i, NEW b, Owed(i, b), Holds(req[h], i, b), b = a PROVE IsResolved(b)'
      BY <2>1, <2>4, <3>1, OwedAlarm DEF AlarmMove, AlarmTransitions, AlarmState, IsResolved
    <3>0. \A i, b : Holds(l, i, b) <=> (req[h].incident = i /\ b \in rest)
      BY Loop
    <3>2. \A i, b : Owed(i, b) /\ Holds(req[h], i, b) => Holds(l, i, b) \/ IsResolved(b)'
      BY <2>h, <3>0, <3>1
    <3>3. Unacknowledged(l)
      BY Loop
    <3> HIDE DEF l
    <3> QED BY <2>2, <2>4, <3>2, <3>3, ResolveStep
  <2> QED BY <1>2, <2>3, <2>4 DEF ResolveRead
<1>3. CASE ResolveWrite(h)
  <2> DEFINE r == OnAlarm("clear", req[h].incident, req[h].alarm, req[h].todo)
  <2>1. incidents' = incidents /\ req[h].step = "resolve" /\ req[h].alarm \in Alarms
        /\ UpdateAlarm(req[h].alarm, "resolved") /\ Become(h, r)
    BY <1>0, <1>3 DEF ResolveWrite, Fits
  <2>2. (\A i, a : Owed(i, a)' => Owed(i, a)) /\ (\A i, a : Owed(i, a) /\ IsResolved(a) => IsResolved(a)')
    BY <2>1, OwedSame, OwedAlarm, ResolvedKept
  <2>3. alarms'[req[h].alarm].state = "resolved"
    BY <2>1 DEF UpdateAlarm, TypeInv, TypeOK, AlarmTypeOK, AlarmRecord
  <2>h. \A i, a : Holds(r, i, a) <=> (req[h].incident = i /\ a \in req[h].todo)
    BY Loop
  <2>i. \A i, a : Holds(req[h], i, a) => req[h].incident = i /\ (a \in req[h].todo \/ a = req[h].alarm)
    BY DEF Holds
  <2>4. ASSUME NEW i, NEW a, Owed(i, a), Holds(req[h], i, a) PROVE Holds(r, i, a) \/ IsResolved(a)'
    <3>1. CASE a = req[h].alarm
      BY <2>3, <3>1 DEF IsResolved
    <3>2. CASE a \in req[h].todo
      BY <2>4, <2>h, <2>i, <3>2
    <3> QED BY <2>4, <2>i, <3>1, <3>2
  <2>5. Unacknowledged(r)
    BY Loop
  <2> HIDE DEF r
  <2> QED BY <2>1, <2>2, <2>4, <2>5, ResolveStep
<1>4. CASE ResolveClear(h)
  <2> DEFINE r == Resolving(req[h].incident, req[h].todo)
  <2>1. /\ incidents' = incidents /\ req[h].step = "clear" /\ Become(h, r)
        /\ \E p \in AlarmPoints : ResolveActiveForPoint(p)
    BY <1>0, <1>4 DEF ResolveClear, Fits, TypeInv, StoreOK
  <2>2. (\A i, a : Owed(i, a)' => Owed(i, a)) /\ (\A i, a : Owed(i, a) /\ IsResolved(a) => IsResolved(a)')
    BY <2>1, OwedSame, OwedAlarm, ResolvedKept
  <2>h. \A i, a : Holds(r, i, a) <=> (req[h].incident = i /\ a \in req[h].todo)
    BY Loop
  <2>i. \A i, a : Holds(req[h], i, a) => req[h].incident = i /\ a \in req[h].todo
    BY <2>1 DEF Holds
  <2>3. \A i, a : Holds(req[h], i, a) => Holds(r, i, a)
    BY <2>h, <2>i
  <2>4. Unacknowledged(r)
    BY Loop
  <2> HIDE DEF r
  <2> QED BY <2>1, <2>2, <2>3, <2>4, ResolveStep
<1>5. CASE AckWrite(h)
  <2>1. incidents' = incidents /\ req[h].step = "ack" /\ req[h].alarm \in Alarms
        /\ UpdateAlarm(req[h].alarm, "acknowledged") /\ Become(h, Idle)
    BY <1>0, <1>5 DEF AckWrite, Fits
  <2>2. \A i, a : Owed(i, a) => a # req[h].alarm
    BY <1>0, <2>1 DEF Unacknowledged, Owed
  <2>3. ASSUME NEW i, NEW a, Owed(i, a), IsResolved(a) PROVE IsResolved(a)'
    BY <2>1, <2>2, <2>3, OwedAlarm, ResolvedKept
  <2>4. \A i, a : ~Holds(req[h], i, a)
    BY <2>1 DEF Holds
  <2> QED BY <2>1, <2>3, <2>4, OwedSame, Loop, ResolveStep
<1>6. CASE CloseWrite(h)
  BY <1>6, ResolveClose
<1> QED BY <1>1, <1>2, <1>3, <1>4, <1>5, <1>6 DEF Continue

LEMMA ResolveNext == TypeInv /\ Alone /\ ResolveInv /\ [Next]_vars => ResolveInv'
<1> SUFFICES ASSUME TypeInv, Alone, ResolveInv, [Next]_vars PROVE ResolveInv'
  OBVIOUS
<1>1. ASSUME NEW h \in Handlers, Call(h) \/ Continue(h) PROVE ResolveInv'
  BY <1>1, ResolveCall, ResolveContinue
<1>2. CASE \/ \E a \in Alarms, p \in AlarmPoints : Ingested(a, p)
           \/ \E p \in AlarmPoints : Normal(p)
  <2>1. incidents' = incidents /\ req' = req
    BY <1>2 DEF Ingested, Normal
  <2>2. \A i, a : Owed(i, a) /\ IsResolved(a) => IsResolved(a)'
    BY <1>2, <2>1, OwedAlarm, ResolvedKept DEF Ingested, Normal
  <2> QED BY <2>1, <2>2, OwedSame, ResolveSame
<1>3. CASE UNCHANGED vars
  <2>1. incidents' = incidents /\ req' = req /\ \A a : IsResolved(a)' <=> IsResolved(a)
    BY <1>3 DEF vars, IsResolved
  <2> QED BY <2>1, OwedSame, ResolveSame
<1> QED BY <1>1, <1>2, <1>3 DEF Next

(***************************************************************************)
(* When Close has returned, every alarm of the incident is resolved, as    *)
(* long as no acknowledgement of the alarm overlaps the closing.           *)
(***************************************************************************)
THEOREM ClosedResolves == Spec => []ClosedResolvesAlarms
<1>1. Init => ResolveInv
  BY DEF Init, IncidentInit, NoIncident, Idle, ResolveInv, Owed, IsClosed, Unacknowledged
<1>2. ResolveInv => ClosedResolvesAlarms
  BY DEF ResolveInv, ClosedResolvesAlarms, Owed, IsResolved, Holds
<1> QED BY <1>1, <1>2, ResolveNext, TypeAlways, AloneAlways, PTL DEF Spec
=============================================================================
