----------------------------- MODULE AuditTrail -----------------------------
(***************************************************************************)
(* What internal/network does to devices and points, next to what          *)
(* internal/audit is told of it.  The network service writes its store     *)
(* under one lock and then, holding none, calls Record, which reads the    *)
(* clock and appends under another: requests can overtake one another      *)
(* between any two of these steps.                                         *)
(***************************************************************************)
EXTENDS DeviceStates, Audit

CONSTANTS
  Sensors,     \* the measurement points
  Callers,     \* goroutines of the HTTP server: the requests in flight
  Alone,       \* the devices and points that clients never send two requests
               \* about at a time (the code does not prevent it)
  MaxTime,     \* bound on the modelled clock
  MaxEntries,  \* bound on the entries appended
  None         \* "no device or point"

Things == Valves \cup Compressors \cup Sensors

ASSUME TrailConstantsOK ==
  /\ Sensors \cap (Valves \cup Compressors) = {} /\ None \notin Things
  /\ Alone \subseteq Things /\ MaxTime \in Nat \ {0} /\ MaxEntries \in Nat

VARIABLES
  enabled,     \* enabled[p]: "enabled" or "disabled"; "none" before its upsert
  now,         \* the service clock
  calls        \* calls[h]: where request h is, and its local variables

trailVars == <<devices, enabled, log, appended, now, calls>>

-----------------------------------------------------------------------------
(***************************************************************************)
(* A request's next step:                                                  *)
(*   "write"   a state change, before the store's Update                   *)
(*   "stamp"   Record, before it reads the clock                           *)
(*   "append"  Record, before Append                                       *)
(* action is what the entry will say: "upsert", or the state set.          *)
(***************************************************************************)
Free == [step |-> "free", target |-> None, action |-> "none", ts |-> 0]

Switch == {"enabled", "disabled"}

StateOf(x) == IF x \in Sensors THEN enabled[x] ELSE devices[x]

MayTouch(x) == x \in Alone => \A g \in Callers : calls[g].target # x

Call(h, x, step, action) ==
  /\ calls[h].step = "free"
  /\ MayTouch(x)
  /\ calls' = [calls EXCEPT ![h] = [step |-> step, target |-> x, action |-> action, ts |-> 0]]

TrailInit ==
  /\ DeviceInit
  /\ enabled = [p \in Sensors |-> "none"]
  /\ LogInit
  /\ now = 1
  /\ calls = [h \in Callers |-> Free]

-----------------------------------------------------------------------------
(* ChangeValveState, ChangeCompressorState: the read and the transition    *)
(* check, ...                                                              *)
ChangeRead(h, d, s) ==
  /\ DeviceMove(devices[d], s)
  /\ Call(h, d, "write", s)
  /\ UNCHANGED <<devices, enabled, log, appended, now>>

(* ... and the Update. *)
ChangeWrite(h) ==
  /\ calls[h].step = "write"
  /\ WriteDevice(calls[h].target, calls[h].action)
  /\ calls' = [calls EXCEPT ![h].step = "stamp"]
  /\ UNCHANGED <<enabled, log, appended, now>>

(* UpsertValve, UpsertCompressor: Put, in whatever state is given. *)
UpsertDevice(h, d, s) ==
  /\ WriteDevice(d, s)
  /\ Call(h, d, "stamp", "upsert")
  /\ UNCHANGED <<enabled, log, appended, now>>

WritePoint(p, s) == enabled' = [enabled EXCEPT ![p] = s]

UpsertPoint(h, p, s) ==
  /\ WritePoint(p, s)
  /\ Call(h, p, "stamp", "upsert")
  /\ UNCHANGED <<devices, log, appended, now>>

TogglePoint(h, p, s) ==
  /\ enabled[p] # "none"
  /\ WritePoint(p, s)
  /\ Call(h, p, "stamp", s)
  /\ UNCHANGED <<devices, log, appended, now>>

-----------------------------------------------------------------------------
(* Record: the clock, ... *)
RecordStamp(h) ==
  /\ calls[h].step = "stamp"
  /\ calls' = [calls EXCEPT ![h].step = "append", ![h].ts = now]
  /\ UNCHANGED <<devices, enabled, log, appended, now>>

(* ... and the log. *)
RecordAppend(h) ==
  LET r == calls[h] IN
  /\ r.step = "append"
  /\ appended < MaxEntries
  /\ AppendEntry([target |-> r.target, action |-> r.action, ts |-> r.ts])
  /\ calls' = [calls EXCEPT ![h] = Free]
  /\ UNCHANGED <<devices, enabled, now>>

Tick ==
  /\ now < MaxTime
  /\ now' = now + 1
  /\ UNCHANGED <<devices, enabled, log, appended, calls>>

-----------------------------------------------------------------------------
TrailNext ==
  \/ \E h \in Callers, d \in Valves \cup Compressors :
       \E s \in StatesOf(d) : ChangeRead(h, d, s) \/ UpsertDevice(h, d, s)
  \/ \E h \in Callers, p \in Sensors, s \in Switch : UpsertPoint(h, p, s) \/ TogglePoint(h, p, s)
  \/ \E h \in Callers : ChangeWrite(h) \/ RecordStamp(h) \/ RecordAppend(h)
  \/ Tick

TrailSpec == TrailInit /\ [][TrailNext]_trailVars

-----------------------------------------------------------------------------
About(x) == {i \in 1 .. Len(log) : log[i].entry.target = x}

InFlight(x) == \E g \in Callers : calls[g].target = x

(***************************************************************************)
(* The trail of a thing that clients handle one request at a time ends     *)
(* with what it is: when no request about it is in flight and the newest   *)
(* entry about it still kept is a change of state, that is its state.      *)
(* (Overlapping requests can be recorded in the order opposite to that in  *)
(* which they took effect.)                                                *)
(***************************************************************************)
TrailMatchesState ==
  \A x \in Alone : ~InFlight(x) =>
    \A i \in About(x) :
      (\A j \in About(x) : j =< i) /\ log[i].entry.action # "upsert"
        => log[i].entry.action = StateOf(x)

(***************************************************************************)
(* Entries about such a thing are in the log in the order of their times,  *)
(* which is what Query sorts its answer by: its newest-first is the order  *)
(* in which things happened.                                               *)
(***************************************************************************)
TrailInOrder ==
  \A x \in Alone : \A i, j \in About(x) : i < j => log[i].entry.ts =< log[j].entry.ts
=============================================================================
