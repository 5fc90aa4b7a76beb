--------------------------- MODULE IncidentStore ---------------------------
(***************************************************************************)
(* The incident records of internal/incident and their state machine.      *)
(* Module Incident adds the service's requests and the alarms they         *)
(* resolve; module Permit asks which incidents are open.                   *)
(***************************************************************************)
CONSTANTS
  Incidents,    \* the ids NewIncidentID will hand out
  Actions,      \* the ids of remediation actions
  IncAlarms,    \* the alarms an incident can be about
  IncSegments,  \* the segments an incident can be on
  NoSegment     \* where an incident of a device or a station is

ASSUME NoSegmentOK == NoSegment \notin IncSegments

VARIABLE
  incidents     \* incidents[i]: the stored incident; state "none" before Report

-----------------------------------------------------------------------------
IncidentState == {"pending", "handling", "closed"}

IncidentTransitions ==
  [ pending  |-> {"handling"},
    handling |-> {"closed"},
    closed   |-> {} ]

IncidentMove(src, dst) == src \in IncidentState /\ dst \in IncidentTransitions[src]

IncidentRecord ==
  [state : IncidentState \cup {"none"}, segment : IncSegments \cup {NoSegment},
   alarms : SUBSET IncAlarms, actions : SUBSET Actions, done : SUBSET Actions]

NoIncident ==
  [state |-> "none", segment |-> NoSegment, alarms |-> {}, actions |-> {}, done |-> {}]

IncidentInit == incidents = [i \in Incidents |-> NoIncident]

VacuouslyComplete(i) == incidents[i].actions \subseteq incidents[i].done  \* Mutation: no test for the empty list

AnyActionComplete(i) == incidents[i].done # {}  \* Mutation: one action is enough

(* An incident with no actions is not complete. *)
AllActionsComplete(i) == incidents[i].actions # {} /\ incidents[i].actions \subseteq incidents[i].done

-----------------------------------------------------------------------------
(* Report's Put. *)
PutIncident(i, s, as) ==
  /\ incidents[i].state = "none"
  /\ incidents' = [incidents EXCEPT ![i] =
                     [NoIncident EXCEPT !.state = "pending", !.segment = s, !.alarms = as]]

(* The Updates: of the state, of the list of actions, of one action. *)
UpdateIncident(i, s) == incidents' = [incidents EXCEPT ![i].state = s]

(***************************************************************************)
(* What any number of overlapping Confirm and Close may write (the table is *)
(* tested on a copy, earlier): a late Confirm opens a closed incident again. *)
(***************************************************************************)
MayWriteIncident(i, s) ==
  /\ incidents[i].state # "none"
  /\ s = "handling" \/ (s = "closed" /\ incidents[i].state # "pending")

AppendAction(i, x) == incidents' = [incidents EXCEPT ![i].actions = @ \cup {x}]

FinishAction(i, x) ==
  /\ x \in incidents[i].actions
  /\ incidents' = [incidents EXCEPT ![i].done = @ \cup {x}]

IsOpenIncident(s) == s \in {"pending", "handling"}

(* OpenForSegment, what the permit service asks. *)
OpenIncidents(s) ==
  {i \in Incidents : incidents[i].segment = s /\ IsOpenIncident(incidents[i].state)}
=============================================================================
