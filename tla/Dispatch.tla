------------------------------ MODULE Dispatch ------------------------------
(***************************************************************************)
(* internal/dispatch driving the devices of internal/network, under        *)
(* concurrent requests.  An order is read, the device it is for is read,   *)
(* the device is written and the order is written by four separate store   *)
(* calls; one action is the stretch of a request up to its next one.       *)
(***************************************************************************)
EXTENDS OrderStore, DeviceStates, Integers

CONSTANTS
  SegmentOf,     \* the segment each device is on
  Handlers,      \* goroutines of the HTTP server: the requests in flight
  OnePerObject,  \* TRUE when no two requests in flight are about the same
                 \* order or device (the code does not prevent it)
  MaxDrives      \* bound on the drives counted per order

ASSUME DevicesOK == Devices = Valves \cup Compressors /\ SegmentOf \in [Devices -> Segments]
ASSUME BoundsOK == OnePerObject \in BOOLEAN /\ MaxDrives \in Nat

VARIABLES
  driven,        \* driven[o]: how often order o has changed its device (the
                 \* device writes the audit log reports, per order)
  req            \* req[h]: where request h is, and its local variables

vars == <<orders, devices, driven, req>>

-----------------------------------------------------------------------------
(***************************************************************************)
(* A request's next step:                                                  *)
(*   "check"   Issue, before checkActionAllowed reads the device           *)
(*   "issue"   Issue, before its Update                                    *)
(*   "drive"   Execute, before ChangeState reads the device                *)
(*   "device"  Execute or a direct ChangeState, before the device's Update *)
(*   "finish"  Execute, before its Update                                  *)
(*   "revoke"  Revoke, before its Update                                   *)
(***************************************************************************)
Step == {"idle", "check", "issue", "drive", "device", "finish", "revoke"}

Request ==
  [step : Step, order : Orders \cup {None}, device : Devices \cup {None},
   target : DeviceState \cup {"none"}]

Idle == [step |-> "idle", order |-> None, device |-> None, target |-> "none"]

(* The state an order commands; checkActionAllowed and apply switch on the *)
(* type.  Flow orders command no device.                                   *)
TargetState ==
  [ open_valve |-> "open", close_valve |-> "closed",
    start_compressor |-> "running", stop_compressor |-> "stopped", flow |-> "none" ]

(* TargetTypeFor: which devices an order of a type can be for. *)
TargetsFor(type) ==
  IF type \in {"open_valve", "close_valve"} THEN Valves
  ELSE IF type \in {"start_compressor", "stop_compressor"} THEN Compressors
  ELSE {}

Target(o) == TargetState[orders[o].type]
ForDevice(o) == orders[o].type # "flow"

(* A request on order o, which goes for the order's device, and one that   *)
(* changes a device itself.                                                *)
OnOrder(s, o) ==
  [step |-> s, order |-> o, device |-> orders[o].device, target |-> Target(o)]
OnDevice(d, t) == [step |-> "device", order |-> None, device |-> d, target |-> t]

IsIdle(h) == req[h].step = "idle"
Become(h, r) == req' = [req EXCEPT ![h] = r]
Goto(h, s) == req' = [req EXCEPT ![h].step = s]
Return(h) == Become(h, Idle)

(* What the clients' discipline allows them to send. *)
MayTouch(o, d) ==
  OnePerObject => \A g \in Handlers :
    /\ o # None => req[g].order # o
    /\ d # None => req[g].device # d

Init ==
  /\ OrderInit
  /\ DeviceInit
  /\ driven = [o \in Orders |-> 0]
  /\ req = [h \in Handlers |-> Idle]

-----------------------------------------------------------------------------
(* UpsertCompressor, UpsertValve: one Put, in any state, of a new device   *)
(* or over an existing one.                                                *)
UpsertDevice(h, d, s) ==
  /\ IsIdle(h)
  /\ MayTouch(None, d)
  /\ WriteDevice(d, s)
  /\ UNCHANGED <<orders, driven, req>>

(* ChangeCompressorState, ChangeValveState, called by a client: the read   *)
(* and the transition on the copy.                                         *)
ChangeRead(h, d, s) ==
  /\ IsIdle(h)
  /\ MayTouch(None, d)
  /\ DeviceMove(devices[d], s)
  /\ Become(h, OnDevice(d, s))
  /\ UNCHANGED <<orders, devices, driven>>

(* The Update of a state change; Execute goes on to its own Update. *)
DeviceWrite(h) ==
  LET r == req[h] IN
  /\ r.step = "device"
  /\ WriteDevice(r.device, r.target)
  /\ IF r.order = None THEN Return(h) /\ UNCHANGED driven
     ELSE /\ driven[r.order] < MaxDrives
          /\ driven' = [driven EXCEPT ![r.order] = @ + 1]
          /\ Goto(h, "finish")
  /\ UNCHANGED orders

-----------------------------------------------------------------------------
(* Create: devices are never removed and SegmentOf is fixed, so looking    *)
(* the device up and the Put are one step.  A flow order's target is taken *)
(* for a segment as it is.                                                 *)
CreateOrder(h, o, type, d) ==
  /\ IsIdle(h)
  /\ d \in TargetsFor(type)
  /\ DeviceExists(d)
  /\ PutOrder(o, type, d, SegmentOf[d])
  /\ UNCHANGED <<devices, driven, req>>

CreateFlowOrder(h, o, s) ==
  /\ IsIdle(h)
  /\ PutOrder(o, "flow", None, s)
  /\ UNCHANGED <<devices, driven, req>>

(* The start of every operation on an order: Get, MustTransition. *)
Begin(h, o, target, s) ==
  /\ IsIdle(h)
  /\ OrderMove(orders[o].state, target)
  /\ MayTouch(o, orders[o].device)
  /\ Become(h, OnOrder(s, o))
  /\ UNCHANGED <<orders, devices, driven>>

IssueRead(h, o) == Begin(h, o, "issued", IF ForDevice(o) THEN "check" ELSE "issue")
ExecuteRead(h, o) == Begin(h, o, "executed", IF ForDevice(o) THEN "drive" ELSE "finish")
RevokeRead(h, o) == Begin(h, o, "revoked", "revoke")

(* checkActionAllowed: all it asks is that the device is not where the     *)
(* order wants it, and that a compressor to start is not in maintenance.   *)
ActionAllowed(d, target) ==
  /\ devices[d] # target
  /\ target = "running" => devices[d] # "maintenance"

IssueCheck(h) ==
  /\ req[h].step = "check"
  /\ IF ActionAllowed(req[h].device, req[h].target) THEN Goto(h, "issue") ELSE Return(h)
  /\ UNCHANGED <<orders, devices, driven>>

IssueWrite(h) ==
  /\ req[h].step = "issue"
  /\ UpdateOrder(req[h].order, "issued")
  /\ Return(h)
  /\ UNCHANGED <<devices, driven>>

ExecuteDriveAnyway(h) ==  \* Mutation: the device's refusal is ignored
  /\ req[h].step = "drive"
  /\ IF DeviceMove(devices[req[h].device], req[h].target) THEN Goto(h, "device") ELSE Goto(h, "finish")
  /\ UNCHANGED <<orders, devices, driven>>

ExecuteDriveUnchecked(h) ==  \* Mutation: no transition check
  /\ req[h].step = "drive"
  /\ Goto(h, "device")
  /\ UNCHANGED <<orders, devices, driven>>

(* apply: ChangeState's read and transition.  If the device refuses, the   *)
(* order stays issued.                                                     *)
ExecuteDrive(h) ==
  /\ req[h].step = "drive"
  /\ IF DeviceMove(devices[req[h].device], req[h].target) THEN Goto(h, "device") ELSE Return(h)
  /\ UNCHANGED <<orders, devices, driven>>

ExecuteWriteNothing(h) ==  \* Mutation: the order is not marked executed
  /\ req[h].step = "finish"
  /\ Return(h)
  /\ UNCHANGED <<orders, devices, driven>>

ExecuteWrite(h) ==
  /\ req[h].step = "finish"
  /\ UpdateOrder(req[h].order, "executed")
  /\ Return(h)
  /\ UNCHANGED <<devices, driven>>

RevokeWrite(h) ==
  /\ req[h].step = "revoke"
  /\ UpdateOrder(req[h].order, "revoked")
  /\ Return(h)
  /\ UNCHANGED <<devices, driven>>

-----------------------------------------------------------------------------
DeviceRequest(h) ==
  \/ \E d \in Devices : \E s \in StatesOf(d) : UpsertDevice(h, d, s)
  \/ \E d \in Devices : \E s \in StatesOf(d) : ChangeRead(h, d, s)
  \/ DeviceWrite(h)

OrderRequest(h) ==
  \/ \E o \in Orders, type \in OrderType, d \in Devices : CreateOrder(h, o, type, d)
  \/ \E o \in Orders, s \in Segments : CreateFlowOrder(h, o, s)
  \/ \E o \in Orders : IssueRead(h, o)
  \/ \E o \in Orders : ExecuteRead(h, o)
  \/ \E o \in Orders : RevokeRead(h, o)
  \/ IssueCheck(h)
  \/ IssueWrite(h)
  \/ ExecuteDrive(h)
  \/ ExecuteWrite(h)
  \/ RevokeWrite(h)

Next == \E h \in Handlers : DeviceRequest(h) \/ OrderRequest(h)

Spec == Init /\ [][Next]_vars

-----------------------------------------------------------------------------
TypeOK ==
  /\ orders \in [Orders -> OrderRecord]
  /\ devices \in [Devices -> DeviceState \cup {"none"}]
  /\ \A d \in Devices : devices[d] \in StatesOf(d) \cup {"none"}
  /\ driven \in [Orders -> 0 .. MaxDrives]
  /\ req \in [Handlers -> Request]

(***************************************************************************)
(* Whatever requests overlap, an order that is recorded as executed did    *)
(* change its device.                                                      *)
(***************************************************************************)
ExecutedHasDriven ==
  \A o \in Orders : orders[o].state = "executed" /\ ForDevice(o) => driven[o] > 0

InFlight(o) == \E h \in Handlers : req[h].order = o

(***************************************************************************)
(* An order changes its device once, when it is executed: an order that    *)
(* was refused, is still to be executed or was revoked has changed nothing.*)
(***************************************************************************)
DrivenExactlyOnce ==
  \A o \in Orders : ~InFlight(o) =>
    driven[o] = IF orders[o].state = "executed" /\ ForDevice(o) THEN 1 ELSE 0

(***************************************************************************)
(* "Dispatch order state machine: pending -> issued -> executed, with      *)
(* revoke from pending or issued" (dispatch/state.go:3) and no other move. *)
(***************************************************************************)
OrderLifecycle ==
  [][\A o \in Orders :
       orders'[o].state # orders[o].state /\ orders[o].state # "none"
         => OrderMove(orders[o].state, orders'[o].state)]_vars

(***************************************************************************)
(* A state change of a device follows the transition table; only an upsert *)
(* may put it elsewhere (network/state.go:7).  UNCHANGED req tells the     *)
(* upsert, which is over in one step.                                      *)
(***************************************************************************)
DeviceLifecycle ==
  [][\A d \in Devices :
       devices'[d] # devices[d] /\ req' # req => DeviceMove(devices[d], devices'[d])]_vars
=============================================================================
