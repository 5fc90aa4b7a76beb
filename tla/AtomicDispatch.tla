--------------------------- MODULE AtomicDispatch ---------------------------
(***************************************************************************)
(* What internal/dispatch promises: every operation on an order or a       *)
(* device happens at once, and executing an order and the change of its    *)
(* device are one event.                                                   *)
(***************************************************************************)
EXTENDS OrderStore, DeviceStates

CONSTANTS SegmentOf

avars == <<orders, devices>>

Commands ==
  [ open_valve |-> "open", close_valve |-> "closed",
    start_compressor |-> "running", stop_compressor |-> "stopped" ]

AInit == OrderInit /\ DeviceInit

ASetDevice(d, s) == s \in StatesOf(d) /\ WriteDevice(d, s) /\ UNCHANGED orders

ACreate(o, type, d) ==
  /\ DeviceExists(d)
  /\ PutOrder(o, type, d, SegmentOf[d])
  /\ UNCHANGED devices

ACreateFlow(o, s) == PutOrder(o, "flow", None, s) /\ UNCHANGED devices

AMove(o, s) ==
  /\ OrderMove(orders[o].state, s)
  /\ UpdateOrder(o, s)

AIssue(o) ==
  /\ AMove(o, "issued")
  /\ orders[o].type # "flow" => devices[orders[o].device] # Commands[orders[o].type]
  /\ UNCHANGED devices

AExecute(o) ==
  /\ AMove(o, "executed")
  /\ IF orders[o].type = "flow" THEN UNCHANGED devices
     ELSE /\ DeviceMove(devices[orders[o].device], Commands[orders[o].type])
          /\ WriteDevice(orders[o].device, Commands[orders[o].type])

ARevoke(o) == AMove(o, "revoked") /\ UNCHANGED devices

ANext ==
  \/ \E d \in Devices, s \in DeviceState : ASetDevice(d, s)
  \/ \E o \in Orders, type \in OrderType, d \in Devices : ACreate(o, type, d)
  \/ \E o \in Orders, s \in Segments : ACreateFlow(o, s)
  \/ \E o \in Orders : AIssue(o) \/ AExecute(o) \/ ARevoke(o)

ASpec == AInit /\ [][ANext]_avars
=============================================================================
