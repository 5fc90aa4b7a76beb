------------------------------ MODULE Incident ------------------------------
(***************************************************************************)
(* internal/incident under concurrent requests, and the alarms of          *)
(* internal/scada its closings resolve.  An operation reads the incident,  *)
(* decides on the copy and updates the incident later; Close then resolves *)
(* the incident's alarms one by one, each with the three store calls of    *)
(* scada's ResolveAlarm.  One action is the stretch of a request up to its *)
(* next store call.                                                        *)
(*                                                                         *)
(* What else happens to alarms is in Ingested, Normal and AckRead: see     *)
(* module Alarm.                                                           *)
(***************************************************************************)
EXTENDS IncidentStore, AlarmStore

CONSTANTS
  Handlers,     \* goroutines of the HTTP server: the requests in flight
  Orderly       \* incidents and alarms that get one request at a time (the
                \* code lets requests overlap)

ASSUME IncidentAlarmsOK == IncAlarms = Alarms
ASSUME OrderlyOK == Orderly \subseteq Incidents \cup Alarms
ASSUME NoIncidentOK == None \notin Incidents

VARIABLE
  req           \* req[h]: where request h is, and its local variables

vars == <<incidents, alarms, active, req>>

-----------------------------------------------------------------------------
(***************************************************************************)
(* A request's next step:                                                  *)
(*   "confirm", "add", "close"   before the incident's Update              *)
(*   "next"      Close, before ResolveAlarm reads one of the todo alarms   *)
(*   "resolve"   ResolveAlarm, before UpdateAlarm                          *)
(*   "clear"     ResolveAlarm, before ResolveActiveForPoint                *)
(*   "ack"       AckAlarm, before UpdateAlarm                              *)
(***************************************************************************)
Step == {"idle", "confirm", "add", "close", "next", "resolve", "clear", "ack"}

Request ==
  [step : Step, incident : Incidents \cup {None}, alarm : Alarms \cup {None},
   todo : SUBSET Alarms]

Idle == [step |-> "idle", incident |-> None, alarm |-> None, todo |-> {}]
OnIncident(s, i) == [step |-> s, incident |-> i, alarm |-> None, todo |-> {}]
Closing(i) == [step |-> "close", incident |-> i, alarm |-> None, todo |-> incidents[i].alarms]
OnAlarm(s, i, a, rest) == [step |-> s, incident |-> i, alarm |-> a, todo |-> rest]

(* The loop over the alarms goes on with those in rest. *)
Resolving(i, rest) == IF rest = {} THEN Idle ELSE OnAlarm("next", i, None, rest)

IsIdle(h) == req[h].step = "idle"
Become(h, r) == req' = [req EXCEPT ![h] = r]

(* What the clients' discipline allows them to send. *)
Uses(h, x) == x \in {req[h].incident, req[h].alarm} \cup req[h].todo
MayTouch(x) == x \in Orderly => \A g \in Handlers : ~Uses(g, x)

Init ==
  /\ IncidentInit
  /\ AlarmInit
  /\ req = [h \in Handlers |-> Idle]

-----------------------------------------------------------------------------
(* Nothing checks the alarm ids of a report, but one that names no stored  *)
(* alarm resolves nothing later.                                           *)
Report(h, i, s, as) ==
  /\ IsIdle(h)
  /\ \A a \in as : alarms[a].state # "none"
  /\ PutIncident(i, s, as)
  /\ UNCHANGED <<alarmVars, req>>

(* Get and the test of the copy, ... *)
ConfirmRead(h, i) ==
  /\ IsIdle(h)
  /\ MayTouch(i)
  /\ IncidentMove(incidents[i].state, "handling")
  /\ Become(h, OnIncident("confirm", i))
  /\ UNCHANGED <<incidents, alarmVars>>

AddRead(h, i) ==
  /\ IsIdle(h)
  /\ MayTouch(i)
  /\ incidents[i].state = "handling"
  /\ Become(h, OnIncident("add", i))
  /\ UNCHANGED <<incidents, alarmVars>>

CloseRead(h, i) ==
  /\ IsIdle(h)
  /\ \A x \in {i} \cup incidents[i].alarms : MayTouch(x)
  /\ IncidentMove(incidents[i].state, "closed")
  /\ AllActionsComplete(i)
  /\ Become(h, Closing(i))
  /\ UNCHANGED <<incidents, alarmVars>>

(* ... and the Update of the state, of the actions, ... *)
ConfirmWrite(h) ==
  /\ req[h].step = "confirm"
  /\ UpdateIncident(req[h].incident, "handling")
  /\ Become(h, Idle)
  /\ UNCHANGED alarmVars

(* An action's id is new; any id that the incident has not is as good. *)
AddWrite(h, x) ==
  /\ req[h].step = "add"
  /\ x \notin incidents[req[h].incident].actions
  /\ AppendAction(req[h].incident, x)
  /\ Become(h, Idle)
  /\ UNCHANGED alarmVars

(* CompleteAction decides inside its Update, and asks for no state. *)
CompleteAction(h, i, x) ==
  /\ IsIdle(h)
  /\ MayTouch(i)
  /\ FinishAction(i, x)
  /\ UNCHANGED <<alarmVars, req>>

(* ... or, for Close, of the state, before the loop over the alarms.       *)
CloseWrite(h) ==
  /\ req[h].step = "close"
  /\ UpdateIncident(req[h].incident, "closed")
  /\ Become(h, Resolving(req[h].incident, req[h].todo))
  /\ UNCHANGED alarmVars

-----------------------------------------------------------------------------
ResolveReadFirst(h, a) ==  \* Mutation: the loop ends at the first error
  /\ req[h].step = "next"
  /\ a \in req[h].todo
  /\ IF AlarmMove(alarms[a].state, "resolved")
     THEN Become(h, OnAlarm("resolve", req[h].incident, a, req[h].todo \ {a}))
     ELSE Become(h, Idle)
  /\ UNCHANGED <<incidents, alarmVars>>

(* ResolveAlarm, from Close: an error (the alarm is resolved already) is   *)
(* dropped.  The loop's order is the report's, here any.                   *)
ResolveRead(h, a) ==
  /\ req[h].step = "next"
  /\ a \in req[h].todo
  /\ IF AlarmMove(alarms[a].state, "resolved")
     THEN Become(h, OnAlarm("resolve", req[h].incident, a, req[h].todo \ {a}))
     ELSE Become(h, Resolving(req[h].incident, req[h].todo \ {a}))
  /\ UNCHANGED <<incidents, alarmVars>>

ResolveWrite(h) ==
  /\ req[h].step = "resolve"
  /\ UpdateAlarm(req[h].alarm, "resolved")
  /\ Become(h, OnAlarm("clear", req[h].incident, req[h].alarm, req[h].todo))
  /\ UNCHANGED incidents

ResolveClear(h) ==
  /\ req[h].step = "clear"
  /\ ResolveActiveForPoint(alarms[req[h].alarm].point)
  /\ Become(h, Resolving(req[h].incident, req[h].todo))
  /\ UNCHANGED incidents

(* AckAlarm. *)
AckRead(h, a) ==
  /\ IsIdle(h)
  /\ MayTouch(a)
  /\ AlarmMove(alarms[a].state, "acknowledged")
  /\ Become(h, OnAlarm("ack", None, a, {}))
  /\ UNCHANGED <<incidents, alarmVars>>

AckWrite(h) ==
  /\ req[h].step = "ack"
  /\ UpdateAlarm(req[h].alarm, "acknowledged")
  /\ Become(h, Idle)
  /\ UNCHANGED incidents

(* Ingestion, seen from here: a new alarm, or a normal reading. *)
Ingested(a, p) ==
  /\ alarms[a].state = "none"
  /\ AddAlarm(a, p)
  /\ UNCHANGED <<incidents, req>>

Normal(p) ==
  /\ ResolveActiveForPoint(p)
  /\ UNCHANGED <<incidents, req>>

-----------------------------------------------------------------------------
Call(h) ==
  \/ \E i \in Incidents, s \in IncSegments \cup {NoSegment}, as \in SUBSET IncAlarms :
       Report(h, i, s, as)
  \/ \E i \in Incidents : ConfirmRead(h, i)
  \/ \E i \in Incidents : AddRead(h, i)
  \/ \E i \in Incidents, x \in Actions : CompleteAction(h, i, x)
  \/ \E i \in Incidents : CloseRead(h, i)
  \/ \E a \in Alarms : AckRead(h, a)

Continue(h) ==
  \/ ConfirmWrite(h)
  \/ \E x \in Actions : AddWrite(h, x)
  \/ CloseWrite(h)
  \/ \E a \in Alarms : ResolveRead(h, a)
  \/ ResolveWrite(h)
  \/ ResolveClear(h)
  \/ AckWrite(h)

Next ==
  \/ \E h \in Handlers : Call(h) \/ Continue(h)
  \/ \E a \in Alarms, p \in AlarmPoints : Ingested(a, p)
  \/ \E p \in AlarmPoints : Normal(p)

Spec == Init /\ [][Next]_vars

-----------------------------------------------------------------------------
TypeOK ==
  /\ incidents \in [Incidents -> IncidentRecord]
  /\ AlarmTypeOK
  /\ req \in [Handlers -> Request]

IsClosed(i) == incidents[i].state = "closed"

(***************************************************************************)
(* However requests overlap, no incident is closed in which nothing was    *)
(* done: "an incident with no actions is not complete", and actions that   *)
(* were done are never undone.                                             *)
(***************************************************************************)
ClosedHasCompleted == \A i \in Incidents : IsClosed(i) => incidents[i].done # {}

(***************************************************************************)
(* "Closing requires all action items complete" (incident/service.go:4),   *)
(* for incidents that get one request at a time, even if they share alarms *)
(* with others.  Otherwise an action added while Close runs may stay open. *)
(***************************************************************************)
ClosedIsComplete ==
  \A i \in Incidents \cap Orderly :
    IsClosed(i) => {} # incidents[i].actions /\ incidents[i].actions \subseteq incidents[i].done

(***************************************************************************)
(* When Close has returned, every alarm of the incident is resolved,       *)
(* whatever superseded, acknowledged or cleared it on the way; as long as  *)
(* no acknowledgement of the alarm overlaps the closing.                   *)
(***************************************************************************)
ClosedResolvesAlarms ==
  \A i \in Incidents \cap Orderly : \A a \in incidents[i].alarms \cap Orderly :
    IsClosed(i) /\ (\A h \in Handlers : req[h].incident # i) => alarms[a].state = "resolved"
=============================================================================
