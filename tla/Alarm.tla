------------------------------- MODULE Alarm -------------------------------
(***************************************************************************)
(* internal/scada under concurrent requests: ingestion of readings, with   *)
(* the alarms it raises and the notifications they cause, acknowledgement  *)
(* and manual resolution.                                                  *)
(*                                                                         *)
(* The telemetry lock is held while a reading is stored and the alarm lock *)
(* while one alarm is stored or updated; nothing is held from one to the   *)
(* next.  One action is the stretch of a request up to its next store      *)
(* call.  Points and rules do not change while the server runs, so the     *)
(* evaluation of a reading belongs to the step that stores it.             *)
(***************************************************************************)
EXTENDS Telemetry, AlarmStore, FiniteSets

CONSTANTS
  Handlers,     \* goroutines of the HTTP server: the requests in flight
  OnePerPoint,  \* TRUE when the readings of one point are ingested one at a
                \* time (the code does not require it)
  Attended      \* the points whose alarms operators acknowledge or resolve

ASSUME AlarmPointsOK == AlarmPoints = Points
ASSUME HandlersOK == IsFiniteSet(Handlers)
ASSUME RulesFinite == IsFiniteSet(RuleDefs)
ASSUME FlagsOK == OnePerPoint \in BOOLEAN /\ Attended \subseteq Points

VARIABLES
  notified,     \* the alarms OnAlarm has enqueued a notification for
  req           \* req[h]: where request h is, and its local variables

vars == <<points, rules, hist, serving, alarms, active, notified, req>>

-----------------------------------------------------------------------------
(***************************************************************************)
(* A request's next step:                                                  *)
(*   "raise"    Ingest, before AddAlarm of the next of todo alarms         *)
(*   "sink"     Ingest, before OnAlarm of the alarm just added             *)
(*   "clear"    Ingest or ResolveAlarm, before ResolveActiveForPoint       *)
(*   "ack"      AckAlarm, before its Update                                *)
(*   "resolve"  ResolveAlarm, before its Update                            *)
(***************************************************************************)
Step == {"idle", "raise", "sink", "clear", "ack", "resolve"}

Request ==
  [step : Step, point : Points \cup {None}, alarm : Alarms \cup {None}, todo : Nat]

Idle == [step |-> "idle", point |-> None, alarm |-> None, todo |-> 0]
Raising(p, k) == [step |-> "raise", point |-> p, alarm |-> None, todo |-> k]
Sinking(p, a, k) == [step |-> "sink", point |-> p, alarm |-> a, todo |-> k]
Clearing(p) == [step |-> "clear", point |-> p, alarm |-> None, todo |-> 0]
Handling(s, a) == [step |-> s, point |-> alarms[a].point, alarm |-> a, todo |-> 0]

IsIdle(h) == req[h].step = "idle"
Become(h, r) == req' = [req EXCEPT ![h] = r]

(* The alarm ids left, and those that requests in flight still need: the   *)
(* bound on how much the model ingests.                                    *)
FreshAlarms == {a \in Alarms : alarms[a].state = "none"}
Promised == {w \in Handlers \X (1 .. Cardinality(Alarms)) : w[2] =< req[w[1]].todo}
RoomFor(k) == Cardinality(Promised) + k =< Cardinality(FreshAlarms)

(* What the discipline of the readings' senders allows. *)
MayIngest(p) ==
  OnePerPoint => \A g \in Handlers : req[g].step \in {"raise", "sink", "clear"} => req[g].point # p

Init ==
  /\ TelemetryInit
  /\ AlarmInit
  /\ notified = {}
  /\ req = [h \in Handlers |-> Idle]

-----------------------------------------------------------------------------
(* The startup, in one thread. *)
Seed ==
  /\ \/ \E p \in Points, d \in PointDefs : RegisterPoint(p, d)
     \/ \E r \in RuleDefs : AddRule(r)
     \/ ListenAndServe
  /\ UNCHANGED <<alarms, active, notified, req>>

(* What remains of ingestOne once the reading is stored: as many alarms as *)
(* there are broken rules, or the resolution of the alarm at the point.    *)
(* (The zero record of an unregistered point has no ID to resolve at.)     *)
AfterReading(p, hits) ==
  IF hits # {} THEN Raising(p, Cardinality(hits))
  ELSE IF Registered(p) THEN Clearing(p)
  ELSE Idle

(* ingestOne up to the evaluation.  A batch is one of these after another. *)
Ingest(h, p, rd) ==
  LET hits == Hits(p, Append(hist[p], rd)) IN
  /\ serving
  /\ IsIdle(h)
  /\ MayIngest(p)
  /\ Accepted(p, rd.value)
  /\ RoomFor(Cardinality(hits))
  /\ AppendReading(p, rd)
  /\ Become(h, AfterReading(p, hits))
  /\ UNCHANGED <<alarms, active, notified>>

Raise(h, a) ==
  /\ req[h].step = "raise"
  /\ a \in FreshAlarms
  /\ AddAlarm(a, req[h].point)
  /\ Become(h, Sinking(req[h].point, a, req[h].todo - 1))
  /\ UNCHANGED <<telemetryVars, notified>>

SinkNever(h) ==  \* Mutation: the sinks are not called
  /\ req[h].step = "sink"
  /\ Become(h, IF req[h].todo = 0 THEN Idle ELSE Raising(req[h].point, req[h].todo))
  /\ UNCHANGED <<telemetryVars, alarmVars, notified>>

(* notify.OnAlarm, the only sink, enqueues a valid message. *)
Sink(h) ==
  /\ req[h].step = "sink"
  /\ notified' = notified \cup {req[h].alarm}
  /\ Become(h, IF req[h].todo = 0 THEN Idle ELSE Raising(req[h].point, req[h].todo))
  /\ UNCHANGED <<telemetryVars, alarmVars>>

ClearNothing(h) ==  \* Mutation: a normal reading resolves nothing
  /\ req[h].step = "clear"
  /\ Become(h, Idle)
  /\ UNCHANGED <<telemetryVars, alarmVars, notified>>

Clear(h) ==
  /\ req[h].step = "clear"
  /\ ResolveActiveForPoint(req[h].point)
  /\ Become(h, Idle)
  /\ UNCHANGED <<telemetryVars, notified>>

-----------------------------------------------------------------------------
(* AckAlarm and ResolveAlarm: Alarm and MustTransition on the copy, ... *)
Begin(h, a, target, s) ==
  /\ alarms[a].point \in Attended
  /\ IsIdle(h)
  /\ AlarmMove(alarms[a].state, target)
  /\ Become(h, Handling(s, a))
  /\ UNCHANGED <<telemetryVars, alarmVars, notified>>

AckRead(h, a) == Begin(h, a, "acknowledged", "ack")
ResolveRead(h, a) == Begin(h, a, "resolved", "resolve")

(* ... the Update, ... *)
AckWrite(h) ==
  /\ req[h].step = "ack"
  /\ UpdateAlarm(req[h].alarm, "acknowledged")
  /\ Become(h, Idle)
  /\ UNCHANGED <<telemetryVars, notified>>

ResolveWriteOnly(h) ==  \* Mutation: the index is not cleared
  /\ req[h].step = "resolve"
  /\ UpdateAlarm(req[h].alarm, "resolved")
  /\ Become(h, Idle)
  /\ UNCHANGED <<telemetryVars, notified>>

(* ... and for ResolveAlarm the point's current alarm, if any, as well.    *)
ResolveWrite(h) ==
  /\ req[h].step = "resolve"
  /\ UpdateAlarm(req[h].alarm, "resolved")
  /\ Become(h, Clearing(req[h].point))
  /\ UNCHANGED <<telemetryVars, notified>>

-----------------------------------------------------------------------------
Call(h) ==
  \/ \E p \in Points, rd \in Reading : Ingest(h, p, rd)
  \/ \E a \in Alarms : AckRead(h, a)
  \/ \E a \in Alarms : ResolveRead(h, a)

Continue(h) ==
  \/ \E a \in Alarms : Raise(h, a)
  \/ Sink(h)
  \/ Clear(h)
  \/ AckWrite(h)
  \/ ResolveWrite(h)

Next ==
  \/ Seed
  \/ \E h \in Handlers : Call(h) \/ Continue(h)

Spec == Init /\ [][Next]_vars

(* A request that has begun is run to its end by its goroutine. *)
FairSpec == Spec /\ \A h \in Handlers : WF_vars(Continue(h))

-----------------------------------------------------------------------------
TypeOK ==
  /\ points \in [Points -> [known : BOOLEAN, def : PointDefs \cup {ZeroDef}]]
  /\ rules \subseteq RuleDefs
  /\ hist \in [Points -> Seq(Reading)]
  /\ \A p \in Points : Len(hist[p]) =< BufCap
  /\ serving \in BOOLEAN
  /\ AlarmTypeOK
  /\ notified \subseteq Alarms
  /\ req \in [Handlers -> Request]

(***************************************************************************)
(* Whatever requests overlap, an active alarm is the one the index holds   *)
(* for its point: a new alarm supersedes it, a normal reading resolves it, *)
(* and no two alarms of a point are active at once (AddAlarm's promise).   *)
(***************************************************************************)
ActiveIsIndexed == \A a \in Alarms : IsActive(a) => active[alarms[a].point] = a

(***************************************************************************)
(* The index holds no alarm that is over, unless a request is about to     *)
(* take it out.                                                            *)
(***************************************************************************)
IndexNotStale ==
  \A p \in Points :
    active[p] # None /\ alarms[active[p]].state = "resolved"
      => \E h \in Handlers : req[h].step = "clear" /\ req[h].point = p

(* No request works on an alarm of point p or on a reading of it. *)
Quiet(p) == \A h \in Handlers : req[h].point # p

Breached(p) == hist[p] # <<>> /\ Hits(p, hist[p]) # {}
Normal(p) == hist[p] # <<>> /\ Registered(p) /\ Hits(p, hist[p]) = {}

(***************************************************************************)
(* Once evaluate has run, a point whose last reading breaks no rule has no *)
(* active alarm, whatever operators do to its alarms meanwhile; if its     *)
(* readings come one at a time.                                            *)
(***************************************************************************)
NormalPointsAreQuiet ==
  \A p \in Points : Normal(p) /\ Quiet(p) => \A a \in Alarms :
    alarms[a].point = p => ~IsActive(a)

(***************************************************************************)
(* Once evaluate has run, a point whose last reading breaks a rule has an  *)
(* active alarm, although each new alarm supersedes the one before and     *)
(* two points' readings overlap; unless an operator took it out.           *)
(***************************************************************************)
BreachedPointsAlarm ==
  \A p \in Points \ Attended : Breached(p) /\ Quiet(p) => \E a \in Alarms :
    alarms[a].point = p /\ IsActive(a)

(***************************************************************************)
(* Every alarm a reading raises is told to the sink, also when the reading *)
(* breaks several rules: its goroutine goes on to the end of ingestOne.    *)
(***************************************************************************)
EveryAlarmNotified ==
  \A a \in Alarms : alarms[a].state # "none" ~> a \in notified
=============================================================================
