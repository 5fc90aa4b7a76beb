----------------------------- MODULE AlarmStore -----------------------------
(***************************************************************************)
(* The alarm half of scada.Store: the alarms, and the index of the alarm   *)
(* that is current at each point.  Every operator is one method, which     *)
(* runs under alarmsMu.                                                    *)
(***************************************************************************)
CONSTANTS
  AlarmPoints,  \* the points alarms are about
  Alarms,       \* the ids NewAlarmID will hand out
  None          \* "no alarm", "no point"

ASSUME NoneOK == None \notin Alarms \cup AlarmPoints

VARIABLES
  alarms,       \* alarms[a]: the stored alarm; state "none" before AddAlarm
  active        \* activeByPoint

alarmVars == <<alarms, active>>

-----------------------------------------------------------------------------
AlarmState == {"active", "acknowledged", "resolved"}

AlarmTransitions ==
  [ active       |-> {"acknowledged", "resolved"},
    acknowledged |-> {"resolved"},
    resolved     |-> {} ]

AlarmMove(src, dst) == src \in AlarmState /\ dst \in AlarmTransitions[src]

AlarmRecord == [state : AlarmState \cup {"none"}, point : AlarmPoints \cup {None}]

NoAlarm == [state |-> "none", point |-> None]

AlarmInit ==
  /\ alarms = [a \in Alarms |-> NoAlarm]
  /\ active = [p \in AlarmPoints |-> None]

IsActive(a) == alarms[a].state = "active"

AlarmTypeOK ==
  /\ alarms \in [Alarms -> AlarmRecord]
  /\ active \in [AlarmPoints -> Alarms \cup {None}]

-----------------------------------------------------------------------------
AddAlarmKeepsOld(a, p) ==  \* Mutation: the current alarm is not superseded
  /\ alarms' = [alarms EXCEPT ![a] = [state |-> "active", point |-> p]]
  /\ active' = [active EXCEPT ![p] = a]

AddAlarmSwapped(a, p) ==  \* Mutation: indexed first, so that it supersedes itself
  /\ alarms' = [alarms EXCEPT ![a] = [state |-> "resolved", point |-> p]]
  /\ active' = [active EXCEPT ![p] = a]

(* A new alarm becomes the point's current one.  The alarm it replaces is  *)
(* resolved if it is still active, and left as it is otherwise.            *)
AddAlarm(a, p) ==
  /\ alarms' = [b \in Alarms |->
       IF b = a THEN [state |-> "active", point |-> p]
       ELSE IF b = active[p] /\ IsActive(b) THEN [alarms[b] EXCEPT !.state = "resolved"]
       ELSE alarms[b]]
  /\ active' = [active EXCEPT ![p] = a]

UpdateAlarm(a, s) ==
  /\ alarms' = [alarms EXCEPT ![a].state = s]
  /\ UNCHANGED active

(* Resolves the point's current alarm, whatever its state, and forgets it. *)
ResolveActiveForPoint(p) ==
  /\ alarms' = [b \in Alarms |->
       IF b = active[p] THEN [alarms[b] EXCEPT !.state = "resolved"] ELSE alarms[b]]
  /\ active' = [active EXCEPT ![p] = None]
=============================================================================
