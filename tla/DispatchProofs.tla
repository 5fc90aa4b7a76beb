--------------------------- MODULE DispatchProofs ---------------------------
(***************************************************************************)
(* The theorems about module Dispatch, for any number of orders, devices   *)
(* and concurrent requests.                                                *)
(***************************************************************************)
EXTENDS DispatchRefinement, TLAPS

(* A stored order is for a device its type fits; others have done nothing. *)
StoredOK(o) ==
  /\ orders[o].state = "none" => driven[o] = 0
  /\ orders[o].state # "none" =>
       /\ orders[o].type \in OrderType
       /\ orders[o].type = "flow" => orders[o].device = None
       /\ orders[o].type # "flow" => orders[o].device \in TargetsFor(orders[o].type)

(* A request works on a stored order and on that order's device.  One that *)
(* is about to record the execution has changed the device.                *)
RequestOK(h) ==
  LET r == req[h] IN
  /\ r.step = "idle" => r = Idle
  /\ r.step \in {"check", "issue", "drive", "finish", "revoke"} => r.order \in Orders
  /\ r.order # None =>
       /\ orders[r.order].state # "none"
       /\ r.device = orders[r.order].device
       /\ r.target = Target(r.order)
  /\ r.step \in {"check", "drive"} => ForDevice(r.order)
  /\ r.step = "device" =>
       /\ r.device \in Devices
       /\ r.target \in StatesOf(r.device)
       /\ r.order # None => ForDevice(r.order)
  /\ r.step = "finish" /\ ForDevice(r.order) => driven[r.order] > 0

TypeInv ==
  /\ TypeOK
  /\ \A o \in Orders : StoredOK(o)
  /\ \A h \in Handlers : RequestOK(h)
  /\ ExecutedHasDriven

-----------------------------------------------------------------------------
(* The state an order commands is a state of its device. *)
LEMMA TargetsFit ==
  ASSUME NEW type \in OrderType, type # "flow", NEW d \in TargetsFor(type)
  PROVE  d \in Devices /\ TargetState[type] \in StatesOf(d) /\ TargetState[type] \in DeviceState
<1>1. d \in Devices
  BY DevicesOK DEF TargetsFor
<1>2. CASE type = "open_valve" \/ type = "close_valve"
  BY <1>1, <1>2 DEF TargetsFor, TargetState, StatesOf, DeviceState, ValveState
<1>3. CASE type = "start_compressor" \/ type = "stop_compressor"
  <2>1. d \in Compressors /\ d \notin Valves
    BY <1>3, KindsDisjoint DEF TargetsFor
  <2> QED BY <1>1, <1>3, <2>1 DEF TargetState, StatesOf, DeviceState, CompressorState
<1> QED BY <1>2, <1>3 DEF OrderType

LEMMA StatesAreStates == \A d : StatesOf(d) \subseteq DeviceState
BY DEF StatesOf, DeviceState

(* The requests an operation can start. *)
LEMMA OnOrderType ==
  ASSUME TypeInv, NEW o \in Orders, orders[o].state # "none", NEW s \in Step
  PROVE  /\ OnOrder(s, o) \in Request
         /\ ForDevice(o) => orders[o].device \in Devices /\ Target(o) \in StatesOf(orders[o].device)
<1>1. StoredOK(o) /\ orders[o] \in OrderRecord
  BY DEF TypeInv, TypeOK
<1>2. CASE orders[o].type = "flow"
  BY <1>1, <1>2 DEF StoredOK, OnOrder, Request, Target, TargetState, ForDevice
<1>3. CASE orders[o].type # "flow"
  BY <1>1, <1>3, TargetsFit DEF StoredOK, OnOrder, Request, Target, ForDevice
<1> QED BY <1>2, <1>3

LEMMA TypeInit == Init => TypeInv
<1> SUFFICES ASSUME Init PROVE TypeInv
  OBVIOUS
<1>1. orders = [o \in Orders |-> NoOrder] /\ devices = [d \in Devices |-> "none"]
      /\ driven = [o \in Orders |-> 0] /\ req = [h \in Handlers |-> Idle]
  BY DevicesOK DEF Init, OrderInit, DeviceInit
<1>2. NoOrder \in OrderRecord /\ Idle \in Request
  BY DEF NoOrder, OrderRecord, Idle, Request, Step
<1>3. TypeOK
  BY <1>1, <1>2, BoundsOK DEF TypeOK
<1> QED BY <1>1, <1>3
        DEF TypeInv, StoredOK, RequestOK, ExecutedHasDriven, NoOrder, Idle, ForDevice

(***************************************************************************)
(* What the actions do, in four effects: nothing but a request's progress, *)
(* a new order, a new device state, a new state of an order.  The lemmas   *)
(* below show once for each that the other parts of the invariant stay.    *)
(***************************************************************************)
SameStores == UNCHANGED <<orders, devices, driven>>

LEMMA RequestStep ==
  ASSUME TypeInv, NEW h \in Handlers, NEW r \in Request, Become(h, r), SameStores,
         r = Idle \/ (r.step # "idle" /\
           /\ r.step \in {"check", "issue", "drive", "finish", "revoke"} => r.order \in Orders
           /\ r.order # None => /\ orders[r.order].state # "none"
                                /\ r.device = orders[r.order].device
                                /\ r.target = Target(r.order)
           /\ r.step \in {"check", "drive"} => ForDevice(r.order)
           /\ r.step = "device" => /\ r.device \in Devices /\ r.target \in StatesOf(r.device)
                                   /\ r.order # None => ForDevice(r.order)
           /\ r.step = "finish" /\ ForDevice(r.order) => driven[r.order] > 0)
  PROVE  TypeInv'
<1>1. orders' = orders /\ devices' = devices /\ driven' = driven
  BY DEF SameStores
<1>2. req' \in [Handlers -> Request] /\ req'[h] = r /\ \A g \in Handlers : g # h => req'[g] = req[g]
  BY DEF Become, TypeInv, TypeOK
<1>3. TypeOK' /\ \A o \in Orders : StoredOK(o)'
  BY <1>1, <1>2 DEF TypeInv, TypeOK, StoredOK
<1>4. ASSUME NEW g \in Handlers PROVE RequestOK(g)'
  <2>1. CASE g # h
    <3>1. RequestOK(g) /\ req'[g] = req[g]
      BY <1>2, <2>1 DEF TypeInv
    <3> QED BY <1>1, <3>1 DEF RequestOK, ForDevice, Target
  <2>2. CASE g = h
    BY <1>1, <1>2, <2>2 DEF RequestOK, ForDevice, Target, Idle
  <2> QED BY <2>1, <2>2
<1>5. ExecutedHasDriven'
  BY <1>1 DEF TypeInv, ExecutedHasDriven, ForDevice
<1> QED BY <1>3, <1>4, <1>5 DEF TypeInv

LEMMA NewOrder ==
  ASSUME TypeInv, NEW o \in Orders, NEW type \in OrderType, NEW d, NEW s \in Segments,
         PutOrder(o, type, d, s), UNCHANGED <<devices, driven, req>>,
         IF type = "flow" THEN d = None ELSE d \in TargetsFor(type)
  PROVE  TypeInv'
<1>1. d \in Devices \cup {None}
  BY TargetsFit
<1>2. /\ orders[o].state = "none"
      /\ orders' \in [Orders -> OrderRecord]
      /\ orders'[o] = [state |-> "pending", type |-> type, device |-> d, segment |-> s]
      /\ \A q \in Orders : q # o => orders'[q] = orders[q]
  BY <1>1 DEF PutOrder, TypeInv, TypeOK, OrderRecord, OrderState
<1>3. TypeOK'
  BY <1>2 DEF TypeInv, TypeOK
<1>4. ASSUME NEW q \in Orders PROVE StoredOK(q)'
  <2>1. StoredOK(q)
    BY DEF TypeInv
  <2> QED BY <1>2, <2>1 DEF StoredOK
<1>5. ASSUME NEW h \in Handlers PROVE RequestOK(h)'
  <2>1. RequestOK(h) /\ req[h] \in Request
    BY DEF TypeInv, TypeOK
  <2>2. req[h].order # None => req[h].order \in Orders /\ req[h].order # o
    BY <1>2, <2>1 DEF RequestOK, Request
  <2>3. CASE req[h].order = None
    <3>1. req[h].step \notin {"check", "issue", "drive", "finish", "revoke"}
      BY <2>1, <2>3, NoneOK DEF RequestOK
    <3> QED BY <2>1, <2>3, <3>1 DEF RequestOK
  <2>4. CASE req[h].order # None
    BY <1>2, <2>1, <2>2, <2>4 DEF RequestOK, ForDevice, Target
  <2> QED BY <2>3, <2>4
<1>6. ExecutedHasDriven'
  BY <1>2 DEF TypeInv, ExecutedHasDriven, ForDevice
<1> QED BY <1>3, <1>4, <1>5, <1>6 DEF TypeInv

(* A device takes a state of its own; driven does not fall, and rises only *)
(* for stored orders.                                                      *)
LEMMA NewDeviceState ==
  ASSUME TypeInv, NEW d \in Devices, NEW s \in StatesOf(d), WriteDevice(d, s), orders' = orders,
         driven' \in [Orders -> 0 .. MaxDrives],
         \A o \in Orders : driven'[o] >= driven[o] /\ (orders[o].state = "none" => driven'[o] = driven[o]),
         req' \in [Handlers -> Request],
         \A g \in Handlers : req'[g] = req[g] \/ RequestOK(g)'
  PROVE  TypeInv'
<1>1. /\ devices' \in [Devices -> DeviceState \cup {"none"}]
      /\ devices'[d] = s /\ \A e \in Devices : e # d => devices'[e] = devices[e]
  BY StatesAreStates DEF WriteDevice, TypeInv, TypeOK
<1>2. TypeOK'
  BY <1>1 DEF TypeInv, TypeOK, StatesOf
<1>3. ASSUME NEW o \in Orders PROVE StoredOK(o)'
  BY DEF TypeInv, StoredOK
<1>4. ASSUME NEW g \in Handlers PROVE RequestOK(g)'
  <2>1. CASE req'[g] = req[g]
    <3>1. RequestOK(g) /\ req[g] \in Request
      BY DEF TypeInv, TypeOK
    <3>2. req[g].order # None => req[g].order \in Orders
      BY <3>1 DEF Request
    <3>3. req[g].order \in Orders => driven'[req[g].order] >= driven[req[g].order]
                                     /\ driven'[req[g].order] \in Int /\ driven[req[g].order] \in Int
      BY DEF TypeInv, TypeOK
    <3> QED BY <2>1, <3>1, <3>2, <3>3 DEF RequestOK, ForDevice, Target, StatesOf
  <2> QED BY <2>1
<1>5. ExecutedHasDriven'
  BY DEF TypeInv, TypeOK, ExecutedHasDriven, ForDevice
<1> QED BY <1>2, <1>3, <1>4, <1>5 DEF TypeInv

LEMMA NewOrderState ==
  ASSUME TypeInv, NEW h \in Handlers, NEW s \in OrderState, req[h].order \in Orders,
         UpdateOrder(req[h].order, s), UNCHANGED <<devices, driven>>, Return(h),
         s = "executed" /\ ForDevice(req[h].order) => driven[req[h].order] > 0
  PROVE  TypeInv'
<1> DEFINE o == req[h].order
<1>0. orders[o].state # "none" /\ o \in Orders
  <2>1. RequestOK(h)
    BY DEF TypeInv
  <2> QED BY <2>1, NoneOK DEF RequestOK
<1>1. /\ orders' \in [Orders -> OrderRecord]
      /\ orders'[o] = [orders[o] EXCEPT !.state = s]
      /\ \A q \in Orders : q # o => orders'[q] = orders[q]
  BY <1>0 DEF UpdateOrder, TypeInv, TypeOK, OrderRecord
<1>2. \A q \in Orders : /\ orders'[q].type = orders[q].type
                        /\ orders'[q].device = orders[q].device
                        /\ orders'[q].state = "none" <=> orders[q].state = "none"
  <2>1. orders[o] \in OrderRecord
    BY <1>0 DEF TypeInv, TypeOK
  <2> QED BY <1>0, <1>1, <2>1 DEF OrderState, OrderRecord
<1>3. req' \in [Handlers -> Request] /\ req'[h] = Idle /\ \A g \in Handlers : g # h => req'[g] = req[g]
  BY DEF Return, Become, TypeInv, TypeOK, Idle, Request, Step
<1>4. TypeOK'
  BY <1>1, <1>3 DEF TypeInv, TypeOK
<1>5. ASSUME NEW q \in Orders PROVE StoredOK(q)'
  <2>1. StoredOK(q)
    BY DEF TypeInv
  <2> QED BY <1>2, <2>1 DEF StoredOK
<1>6. ASSUME NEW g \in Handlers PROVE RequestOK(g)'
  <2>1. CASE g = h
    BY <1>3, <2>1 DEF RequestOK, Idle
  <2>2. CASE g # h
    <3>1. RequestOK(g) /\ req[g] \in Request /\ req'[g] = req[g]
      BY <1>3, <2>2 DEF TypeInv, TypeOK
    <3>2. req[g].order # None => req[g].order \in Orders
      BY <3>1 DEF Request
    <3>3. CASE req[g].order = None
      <4>1. req[g].step \notin {"check", "issue", "drive", "finish", "revoke"}
        BY <3>1, <3>3, NoneOK DEF RequestOK
      <4> QED BY <3>1, <3>3, <4>1 DEF RequestOK
    <3>4. CASE req[g].order # None
      BY <1>2, <3>1, <3>2, <3>4 DEF RequestOK, ForDevice, Target
    <3> QED BY <3>3, <3>4
  <2> QED BY <2>1, <2>2
<1>7. ExecutedHasDriven'
  <2>1. ASSUME NEW q \in Orders, orders'[q].state = "executed", orders'[q].type # "flow"
        PROVE driven'[q] > 0
    <3>1. CASE q = o
      <4>1. s = "executed" /\ orders[o].type # "flow"
        BY <1>0, <1>1, <1>2, <2>1, <3>1 DEF TypeInv, TypeOK, OrderRecord
      <4> QED BY <3>1, <4>1 DEF ForDevice
    <3>2. CASE q # o
      BY <1>1, <2>1, <3>2 DEF TypeInv, ExecutedHasDriven, ForDevice
    <3> QED BY <3>1, <3>2
  <2> QED BY <2>1 DEF ExecutedHasDriven, ForDevice
<1> QED BY <1>4, <1>5, <1>6, <1>7 DEF TypeInv

-----------------------------------------------------------------------------
LEMMA TypeNext == TypeInv /\ [Next]_vars => TypeInv'
<1> SUFFICES ASSUME TypeInv, [Next]_vars PROVE TypeInv'
  OBVIOUS
<1>0. /\ req \in [Handlers -> Request] /\ driven \in [Orders -> 0 .. MaxDrives]
      /\ orders \in [Orders -> OrderRecord]
      /\ \A h \in Handlers : RequestOK(h)
      /\ \A o \in Orders : StoredOK(o)
  BY DEF TypeInv, TypeOK
<1>i. Idle \in Request
  BY DEF Idle, Request, Step
<1>1. ASSUME NEW h \in Handlers, NEW d \in Devices, NEW s \in StatesOf(d), UpsertDevice(h, d, s)
      PROVE TypeInv'
  <2>1. WriteDevice(d, s) /\ UNCHANGED <<orders, driven, req>>
    BY <1>1 DEF UpsertDevice
  <2>2. \A o \in Orders : driven[o] >= driven[o]
    BY <1>0
  <2> QED BY <1>0, <2>1, <2>2, NewDeviceState
<1>2. ASSUME NEW h \in Handlers, NEW d \in Devices, NEW s \in StatesOf(d), ChangeRead(h, d, s)
      PROVE TypeInv'
  <2>1. Become(h, OnDevice(d, s)) /\ SameStores
    BY <1>2 DEF ChangeRead, SameStores
  <2>2. OnDevice(d, s) \in Request
    BY StatesAreStates DEF OnDevice, Request, Step
  <2> QED BY <2>1, <2>2, RequestStep DEF OnDevice
<1>3. ASSUME NEW h \in Handlers, DeviceWrite(h) PROVE TypeInv'
  <2> DEFINE r == req[h]
  <2>1. /\ r \in Request /\ r.step = "device" /\ r.device \in Devices /\ r.target \in StatesOf(r.device)
        /\ WriteDevice(r.device, r.target) /\ orders' = orders
        /\ RequestOK(h)
    BY <1>0, <1>3 DEF DeviceWrite, RequestOK
  <2>2. CASE r.order = None
    <3>1. Return(h) /\ driven' = driven
      BY <1>3, <2>2 DEF DeviceWrite
    <3>2. req' \in [Handlers -> Request] /\ req'[h] = Idle /\ \A g \in Handlers : g # h => req'[g] = req[g]
      BY <1>0, <1>i, <3>1 DEF Return, Become
    <3>3. RequestOK(h)'
      BY <3>2 DEF RequestOK, Idle
    <3>4. \A o \in Orders : driven[o] >= driven[o]
      BY <1>0
    <3> QED BY <1>0, <2>1, <3>1, <3>2, <3>3, <3>4, NewDeviceState
  <2>3. CASE r.order # None
    <3> DEFINE o == r.order
    <3>1. /\ o \in Orders /\ driven[o] < MaxDrives /\ driven' = [driven EXCEPT ![o] = @ + 1]
          /\ Goto(h, "finish") /\ orders[o].state # "none"
      BY <1>3, <2>1, <2>3 DEF DeviceWrite, Request, RequestOK
    <3>2. /\ driven' \in [Orders -> 0 .. MaxDrives] /\ driven'[o] = driven[o] + 1 /\ driven'[o] > 0
          /\ \A q \in Orders : driven'[q] >= driven[q] /\ (orders[q].state = "none" => driven'[q] = driven[q])
      BY <1>0, <3>1, BoundsOK
    <3>3. /\ req'[h] = [r EXCEPT !.step = "finish"] /\ [r EXCEPT !.step = "finish"] \in Request
          /\ req' \in [Handlers -> Request] /\ \A g \in Handlers : g # h => req'[g] = req[g]
      BY <1>0, <2>1, <3>1 DEF Goto, Request, Step
    <3>4. RequestOK(h)'
      <4>1. /\ req'[h].step = "finish" /\ req'[h].order = o
            /\ req'[h].device = r.device /\ req'[h].target = r.target
        BY <2>1, <3>3 DEF Request
      <4>2. /\ orders[o].state # "none" /\ r.device = orders[o].device /\ r.target = Target(o)
        BY <2>1, <2>3 DEF RequestOK
      <4> QED BY <2>1, <3>1, <3>2, <4>1, <4>2 DEF RequestOK, Target, ForDevice
    <3> QED BY <2>1, <3>2, <3>3, <3>4, NewDeviceState
  <2> QED BY <2>2, <2>3
<1>4. ASSUME NEW h \in Handlers, NEW o \in Orders, NEW type \in OrderType, NEW d \in Devices,
             CreateOrder(h, o, type, d)
      PROVE TypeInv'
  <2>1. SegmentOf[d] \in Segments /\ type # "flow"
    BY <1>4, DevicesOK DEF CreateOrder, TargetsFor
  <2> QED BY <1>4, <2>1, NewOrder DEF CreateOrder
<1>5. ASSUME NEW h \in Handlers, NEW o \in Orders, NEW s \in Segments, CreateFlowOrder(h, o, s)
      PROVE TypeInv'
  <2>1. "flow" \in OrderType
    BY DEF OrderType
  <2> QED BY <1>5, <2>1, NewOrder DEF CreateFlowOrder
<1>6. ASSUME NEW h \in Handlers, NEW o \in Orders, IssueRead(h, o) \/ RevokeRead(h, o) PROVE TypeInv'
  <2>1. PICK s \in {"check", "issue", "revoke"} :
          /\ Become(h, OnOrder(s, o)) /\ SameStores /\ orders[o].state # "none"
          /\ s = "check" => ForDevice(o)
    BY <1>6 DEF IssueRead, RevokeRead, Begin, SameStores, OrderMove, OrderState
  <2>2. OnOrder(s, o) \in Request
    BY <2>1, OnOrderType DEF Step
  <2> QED BY <2>1, <2>2, RequestStep DEF OnOrder
<1>7. ASSUME NEW h \in Handlers, NEW o \in Orders, ExecuteRead(h, o) PROVE TypeInv'
  <2>1. PICK s \in {"drive", "finish"} :
          /\ Become(h, OnOrder(s, o)) /\ SameStores /\ orders[o].state # "none"
          /\ s = "drive" <=> ForDevice(o)
    BY <1>7 DEF ExecuteRead, Begin, SameStores, OrderMove, OrderState
  <2>2. OnOrder(s, o) \in Request
    BY <2>1, OnOrderType DEF Step
  <2> QED BY <2>1, <2>2, RequestStep DEF OnOrder
<1>8. ASSUME NEW h \in Handlers, IssueCheck(h) \/ ExecuteDrive(h) PROVE TypeInv'
  <2> DEFINE r == req[h]
  <2>1. /\ SameStores /\ r \in Request /\ r.step \in {"check", "drive"}
        /\ \/ Return(h)
           \/ r.step = "check" /\ Goto(h, "issue")
           \/ r.step = "drive" /\ Goto(h, "device")
    BY <1>0, <1>8 DEF IssueCheck, ExecuteDrive, SameStores
  <2>2. /\ r.order \in Orders /\ orders[r.order].state # "none" /\ ForDevice(r.order)
        /\ r.device = orders[r.order].device /\ r.target = Target(r.order)
    BY <1>0, <2>1, NoneOK DEF RequestOK
  <2>3. CASE Return(h)
    BY <1>i, <2>1, <2>3, RequestStep DEF Return
  <2>4. ASSUME NEW s \in {"issue", "device"}, Goto(h, s) PROVE TypeInv'
    <3>1. Become(h, [r EXCEPT !.step = s])
      BY <2>4 DEF Goto, Become
    <3>2. /\ [r EXCEPT !.step = s] \in Request /\ [r EXCEPT !.step = s].step = s
          /\ [r EXCEPT !.step = s].order = r.order /\ [r EXCEPT !.step = s].device = r.device
          /\ [r EXCEPT !.step = s].target = r.target
      BY <2>1 DEF Request, Step
    <3>3. r.device \in Devices /\ r.target \in StatesOf(r.device)
      BY <2>2, OnOrderType DEF Step
    <3> HIDE DEF r
    <3> QED BY <2>1, <2>2, <3>1, <3>2, <3>3, RequestStep
  <2> QED BY <2>1, <2>3, <2>4
<1>9. ASSUME NEW h \in Handlers, IssueWrite(h) \/ RevokeWrite(h) PROVE TypeInv'
  <2>1. req[h].order \in Orders
    BY <1>0, <1>9 DEF IssueWrite, RevokeWrite, RequestOK
  <2>2. PICK s \in {"issued", "revoked"} :
          UpdateOrder(req[h].order, s) /\ UNCHANGED <<devices, driven>> /\ Return(h)
    BY <1>9 DEF IssueWrite, RevokeWrite
  <2> QED BY <2>1, <2>2, NewOrderState DEF OrderState
<1>10. ASSUME NEW h \in Handlers, ExecuteWrite(h) PROVE TypeInv'
  <2>1. req[h].order \in Orders /\ (ForDevice(req[h].order) => driven[req[h].order] > 0)
    BY <1>0, <1>10 DEF ExecuteWrite, RequestOK
  <2> QED BY <1>10, <2>1, NewOrderState DEF ExecuteWrite, OrderState
<1>11. CASE UNCHANGED vars
  BY <1>11 DEF vars, TypeInv, TypeOK, StoredOK, RequestOK, ExecutedHasDriven, ForDevice, Target, StatesOf
<1> QED BY <1>1, <1>2, <1>3, <1>4, <1>5, <1>6, <1>7, <1>8, <1>9, <1>10, <1>11
        DEF Next, DeviceRequest, OrderRequest

(* Every record and every request keeps its type; valves are only ever in  *)
(* valve states and compressors in compressor states.                      *)
THEOREM Typing == Spec => []TypeOK
<1>1. TypeInv => TypeOK
  BY DEF TypeInv
<1> QED BY TypeInit, TypeNext, <1>1, PTL DEF Spec

(* Under every interleaving, an order recorded as executed has changed its *)
(* device.                                                                 *)
THEOREM ExecutedDrove == Spec => []ExecutedHasDriven
<1>1. TypeInv => ExecutedHasDriven
  BY DEF TypeInv
<1> QED BY TypeInit, TypeNext, <1>1, PTL DEF Spec

-----------------------------------------------------------------------------
(***************************************************************************)
(* With clients that never have two requests in flight about one order or  *)
(* device, a request finds the order and the device as it left them.       *)
(***************************************************************************)
Apart ==
  \A g, h \in Handlers : g # h =>
    /\ req[g].order # None => req[h].order # req[g].order
    /\ req[g].device # None => req[h].device # req[g].device

StepOK(h) ==
  LET r == req[h] IN
  /\ r.step \in {"check", "issue"} => orders[r.order].state = "pending"
  /\ r.step \in {"drive", "finish"} => orders[r.order].state = "issued"
  /\ r.step = "revoke" => orders[r.order].state \in {"pending", "issued"}
  /\ r.step = "device" =>
       /\ DeviceMove(devices[r.device], r.target)
       /\ r.order # None => orders[r.order].state = "issued"
  /\ r.step = "issue" /\ ForDevice(r.order) => devices[r.device] # r.target

CountOK(o) ==
  driven[o] = IF ForDevice(o) /\ (orders[o].state = "executed" \/ Finishing(o)) THEN 1 ELSE 0

SerialInv ==
  /\ TypeInv
  /\ Apart
  /\ \A h \in Handlers : StepOK(h)
  /\ \A o \in Orders : CountOK(o)

LEMMA SerialInit == Init => SerialInv
<1> SUFFICES ASSUME Init PROVE SerialInv
  OBVIOUS
<1>1. TypeInv
  BY TypeInit
<1>2. orders = [o \in Orders |-> NoOrder] /\ driven = [o \in Orders |-> 0]
      /\ req = [h \in Handlers |-> Idle]
  BY DEF Init, OrderInit
<1>3. Apart /\ \A h \in Handlers : StepOK(h)
  BY <1>2 DEF Apart, StepOK, Idle
<1>4. ASSUME NEW o \in Orders PROVE CountOK(o)
  BY <1>2 DEF CountOK, Finishing, Idle, NoOrder
<1> QED BY <1>1, <1>3, <1>4 DEF SerialInv

(* A request about another order and another device does not notice.       *)
LEMMA OthersStay ==
  ASSUME TypeInv, NEW g \in Handlers, StepOK(g), req'[g] = req[g],
         req[g].order \in Orders => orders'[req[g].order] = orders[req[g].order],
         req[g].device \in Devices => devices'[req[g].device] = devices[req[g].device]
  PROVE  StepOK(g)'
<1>1. RequestOK(g) /\ req[g] \in Request
  BY DEF TypeInv, TypeOK
<1>2. req[g].step \in {"check", "issue", "drive", "finish", "revoke"} => req[g].order \in Orders
  BY <1>1 DEF RequestOK
<1>3. req[g].order # None => req[g].order \in Orders
  BY <1>1 DEF Request
<1>4. req[g].step = "device" => req[g].device \in Devices
  BY <1>1 DEF RequestOK
<1>5. req[g].step = "issue" /\ orders[req[g].order].type # "flow" => req[g].device \in Devices
  <2>1. SUFFICES ASSUME req[g].step = "issue", orders[req[g].order].type # "flow"
                 PROVE  req[g].device \in Devices
    OBVIOUS
  <2>2. req[g].order \in Orders /\ orders[req[g].order].state # "none"
        /\ req[g].device = orders[req[g].order].device
    BY <1>1, <1>2, <2>1, NoneOK DEF RequestOK
  <2> QED BY <2>1, <2>2, OnOrderType DEF ForDevice, Step
<1>6. CASE req[g].order \in Orders
  BY <1>1, <1>3, <1>4, <1>5, <1>6 DEF StepOK, ForDevice
<1>7. CASE req[g].order \notin Orders
  BY <1>2, <1>3, <1>4, <1>7 DEF StepOK
<1> QED BY <1>6, <1>7

(* Progress of one request keeps the requests apart. *)
LEMMA ApartStays ==
  ASSUME Apart, req \in [Handlers -> Request], NEW h \in Handlers, NEW r, Become(h, r),
         r.order # None => \A g \in Handlers \ {h} : req[g].order # r.order,
         r.device # None => \A g \in Handlers \ {h} : req[g].device # r.device
  PROVE  Apart'
<1>1. req'[h] = r /\ \A g \in Handlers : g # h => req'[g] = req[g]
  BY DEF Become
<1> QED BY <1>1 DEF Apart

(* A request that goes on, or returns, is about what it was about. *)
LEMMA ApartWhenGoingOn ==
  ASSUME Apart, req \in [Handlers -> Request], NEW h \in Handlers, NEW s,
         Goto(h, s) \/ Return(h)
  PROVE  Apart'
<1>1. CASE Goto(h, s)
  <2>1. Become(h, [req[h] EXCEPT !.step = s])
    BY <1>1 DEF Goto, Become
  <2>2. [req[h] EXCEPT !.step = s].order = req[h].order /\ [req[h] EXCEPT !.step = s].device = req[h].device
    BY DEF Request
  <2> QED BY <2>1, <2>2, ApartStays DEF Apart
<1>2. CASE Return(h)
  BY <1>2, ApartStays DEF Return, Idle
<1> QED BY <1>1, <1>2

(* The count of an order that no request starts or stops to finish. *)
LEMMA CountStays ==
  ASSUME NEW o \in Orders, CountOK(o), driven'[o] = driven[o],
         orders'[o].type = orders[o].type,
         ForDevice(o) => (orders'[o].state = "executed" \/ Finishing(o)')
                          = (orders[o].state = "executed" \/ Finishing(o))
  PROVE  CountOK(o)'
BY DEF CountOK, ForDevice

LEMMA FinishingStays ==
  ASSUME NEW h \in Handlers, NEW o, \A g \in Handlers : g # h => req'[g] = req[g],
         (req'[h].step = "finish" /\ req'[h].order = o) <=> (req[h].step = "finish" /\ req[h].order = o)
  PROVE  Finishing(o)' <=> Finishing(o)
BY DEF Finishing

(* A request that reads, or refuses, leaves the stores alone.              *)
LEMMA SerialRead ==
  ASSUME SerialInv, TypeInv', NEW h \in Handlers, SameStores, Apart',
         \A g \in Handlers : g # h => req'[g] = req[g],
         req[h].step # "finish", req'[h].step = "finish" => ~ForDevice(req'[h].order),
         StepOK(h)'
  PROVE  SerialInv'
<1>1. orders' = orders /\ devices' = devices /\ driven' = driven
  BY DEF SameStores
<1>2. ASSUME NEW g \in Handlers PROVE StepOK(g)'
  <2>1. CASE g # h
    BY <1>1, <2>1, OthersStay DEF SerialInv
  <2> QED BY <2>1
<1>3. ASSUME NEW o \in Orders PROVE CountOK(o)'
  <2>1. CountOK(o)
    BY DEF SerialInv
  <2>2. ForDevice(o) => (Finishing(o)' <=> Finishing(o))
    <3>1. SUFFICES ASSUME ForDevice(o) PROVE Finishing(o)' <=> Finishing(o)
      OBVIOUS
    <3> QED BY <3>1, FinishingStays
  <2> QED BY <1>1, <2>1, <2>2, CountStays
<1> QED BY <1>2, <1>3 DEF SerialInv

(* A new order, which no request is about. *)
LEMMA SerialCreate ==
  ASSUME SerialInv, TypeInv', NEW o \in Orders, NEW type, NEW d, NEW s,
         PutOrder(o, type, d, s), UNCHANGED <<devices, driven, req>>
  PROVE  SerialInv'
<1>1. /\ orders[o].state = "none"
      /\ orders'[o].state = "pending"
      /\ \A q \in Orders : q # o => orders'[q] = orders[q]
  BY DEF PutOrder, SerialInv, TypeInv, TypeOK
<1>2. \A g \in Handlers : req[g].order # o
  BY <1>1, NoneOK DEF SerialInv, TypeInv, RequestOK
<1>3. Apart'
  BY DEF SerialInv, Apart
<1>4. ASSUME NEW g \in Handlers PROVE StepOK(g)'
  BY <1>1, <1>2, OthersStay DEF SerialInv
<1>5. ASSUME NEW q \in Orders PROVE CountOK(q)'
  <2>1. CountOK(q) /\ (Finishing(q)' <=> Finishing(q))
    BY DEF SerialInv, Finishing
  <2>2. CASE q = o
    <3>1. driven[o] = 0 /\ ~Finishing(o)
      BY <1>1, <1>2 DEF SerialInv, TypeInv, StoredOK, Finishing
    <3> QED BY <1>1, <2>1, <2>2, <3>1 DEF CountOK
  <2>3. CASE q # o
    BY <1>1, <2>1, <2>3, CountStays
  <2> QED BY <2>2, <2>3
<1> QED BY <1>3, <1>4, <1>5 DEF SerialInv

(* The new state of an order, and the end of the request that gives it.    *)
LEMMA SerialMove ==
  ASSUME SerialInv, TypeInv', NEW h \in Handlers, NEW s \in OrderState,
         req[h].order \in Orders, UpdateOrder(req[h].order, s),
         UNCHANGED <<devices, driven>>, Return(h),
         s # "executed" => orders[req[h].order].state # "executed" /\ req[h].step # "finish",
         s = "executed" => req[h].step = "finish"
  PROVE  SerialInv'
<1> DEFINE o == req[h].order
<1>1. /\ orders'[o] = [orders[o] EXCEPT !.state = s] /\ orders'[o].state = s /\ orders'[o].type = orders[o].type
      /\ \A q \in Orders : q # o => orders'[q] = orders[q]
  <2>1. orders \in [Orders -> OrderRecord] /\ orders[o] \in OrderRecord
    BY DEF SerialInv, TypeInv, TypeOK
  <2> QED BY <2>1 DEF UpdateOrder, OrderRecord
<1>2. req'[h] = Idle /\ \A g \in Handlers : g # h => req'[g] = req[g]
  BY DEF Return, Become, SerialInv, TypeInv, TypeOK
<1>3. \A g \in Handlers : g # h => req[g].order # o
  BY NoneOK DEF SerialInv, Apart
<1>4. Apart'
  BY ApartWhenGoingOn DEF SerialInv, TypeInv, TypeOK
<1>5. ASSUME NEW g \in Handlers PROVE StepOK(g)'
  <2>1. CASE g = h
    BY <1>2, <2>1 DEF StepOK, Idle
  <2>2. CASE g # h
    BY <1>1, <1>2, <1>3, <2>2, OthersStay DEF SerialInv
  <2> QED BY <2>1, <2>2
<1>6. ASSUME NEW q \in Orders PROVE CountOK(q)'
  <2>1. CountOK(q)
    BY DEF SerialInv
  <2>2. CASE q # o
    <3>1. Finishing(q)' <=> Finishing(q)
      BY <1>2, <2>2, FinishingStays DEF Idle
    <3> QED BY <1>1, <2>1, <2>2, <3>1, CountStays
  <2>3. CASE q = o
    <3>1. ~Finishing(q)'
      BY <1>2, <1>3, <2>3 DEF Finishing, Idle
    <3>2. Finishing(q) <=> req[h].step = "finish"
      BY <1>3, <2>3 DEF Finishing
    <3> QED BY <1>1, <2>1, <2>3, <3>1, <3>2 DEF CountOK, ForDevice
  <2> QED BY <2>2, <2>3
<1> QED BY <1>4, <1>5, <1>6 DEF SerialInv

LEMMA SerialNext ==
  ASSUME OnePerObject, SerialInv, [Next]_vars
  PROVE  SerialInv'
<1>0. /\ TypeInv /\ TypeInv' /\ Apart
      /\ req \in [Handlers -> Request] /\ devices \in [Devices -> DeviceState \cup {"none"}]
      /\ \A h \in Handlers : RequestOK(h) /\ StepOK(h)
      /\ \A o \in Orders : StoredOK(o) /\ CountOK(o)
  BY TypeNext DEF SerialInv, TypeInv, TypeOK
<1>1. ASSUME NEW h \in Handlers, NEW d \in Devices, NEW s \in StatesOf(d), UpsertDevice(h, d, s)
      PROVE SerialInv'
  <2>1. \A g \in Handlers : req[g].device # d
    BY <1>0, <1>1, NoneOK DEF UpsertDevice, MayTouch
  <2>2. orders' = orders /\ driven' = driven /\ req' = req /\ \A e \in Devices : e # d => devices'[e] = devices[e]
    BY <1>0, <1>1 DEF UpsertDevice, WriteDevice
  <2>3. \A g \in Handlers : StepOK(g)'
    BY <1>0, <2>1, <2>2, OthersStay
  <2>4. Apart' /\ \A o \in Orders : CountOK(o)'
    BY <1>0, <2>2 DEF Apart, CountOK, ForDevice, Finishing
  <2> QED BY <1>0, <2>3, <2>4 DEF SerialInv
<1>2. ASSUME NEW h \in Handlers, NEW d \in Devices, NEW s \in StatesOf(d), ChangeRead(h, d, s)
      PROVE SerialInv'
  <2>1. /\ SameStores /\ Become(h, OnDevice(d, s)) /\ req[h].step = "idle"
        /\ DeviceMove(devices[d], s) /\ \A g \in Handlers : req[g].device # d
    BY <1>2, NoneOK DEF ChangeRead, SameStores, MayTouch, IsIdle
  <2>2. req'[h] = OnDevice(d, s) /\ \A g \in Handlers : g # h => req'[g] = req[g]
    BY <1>0, <2>1 DEF Become
  <2>3. Apart'
    BY <1>0, <2>1, ApartStays DEF OnDevice
  <2>4. StepOK(h)'
    BY <2>1, <2>2 DEF StepOK, OnDevice, SameStores, DeviceMove
  <2> QED BY <1>0, <2>1, <2>2, <2>3, <2>4, SerialRead DEF OnDevice
<1>3. ASSUME NEW h \in Handlers, DeviceWrite(h) PROVE SerialInv'
  <2> DEFINE r == req[h]
  <2>1. /\ r \in Request /\ r.step = "device" /\ r.device \in Devices
        /\ orders' = orders /\ \A e \in Devices : e # r.device => devices'[e] = devices[e]
        /\ \A g \in Handlers : g # h => req'[g] = req[g]
    BY <1>0, <1>3 DEF DeviceWrite, WriteDevice, RequestOK, Return, Become, Goto
  <2>2. \A g \in Handlers : g # h => req[g].device # r.device
    BY <1>0, <2>1, NoneOK DEF Apart
  <2>3. ASSUME NEW g \in Handlers, g # h PROVE StepOK(g)'
    BY <1>0, <2>1, <2>2, <2>3, OthersStay
  <2>4. Apart'
    BY <1>0, <1>3, ApartWhenGoingOn DEF DeviceWrite
  <2>5. CASE r.order = None
    <3>1. driven' = driven /\ req'[h] = Idle
      BY <1>0, <1>3, <2>5 DEF DeviceWrite, Return, Become
    <3>2. StepOK(h)'
      BY <3>1 DEF StepOK, Idle
    <3>3. ASSUME NEW o \in Orders PROVE CountOK(o)'
      <4>1. Finishing(o)' <=> Finishing(o)
        BY <2>1, <3>1, FinishingStays DEF Idle
      <4> QED BY <1>0, <2>1, <3>1, <4>1, CountStays
    <3> QED BY <1>0, <2>3, <2>4, <3>2, <3>3 DEF SerialInv
  <2>6. CASE r.order # None
    <3> DEFINE o == r.order
    <3>1. /\ o \in Orders /\ ForDevice(o) /\ orders[o].state = "issued"
          /\ driven'[o] = driven[o] + 1 /\ \A q \in Orders : q # o => driven'[q] = driven[q]
          /\ req'[h] = [r EXCEPT !.step = "finish"]
      BY <1>0, <1>3, <2>1, <2>6 DEF DeviceWrite, Goto, Request, RequestOK, StepOK, TypeInv, TypeOK
    <3>2. req'[h].step = "finish" /\ req'[h].order = o
      BY <2>1, <3>1 DEF Request
    <3>3. StepOK(h)'
      BY <2>1, <3>1, <3>2 DEF StepOK
    <3>4. \A g \in Handlers : g # h => req[g].order # o
      BY <1>0, <2>6 DEF Apart
    <3>5. ASSUME NEW q \in Orders PROVE CountOK(q)'
      <4>1. CASE q = o
        <5>1. ~Finishing(o) /\ Finishing(o)'
          BY <2>1, <3>2, <3>4 DEF Finishing
        <5>2. driven[o] = 0
          BY <1>0, <3>1, <5>1 DEF CountOK
        <5> QED BY <2>1, <3>1, <4>1, <5>1, <5>2 DEF CountOK, ForDevice
      <4>2. CASE q # o
        <5>1. Finishing(q)' <=> Finishing(q)
          BY <2>1, <3>2, <4>2, FinishingStays
        <5> QED BY <1>0, <2>1, <3>1, <4>2, <5>1, CountStays
      <4> QED BY <4>1, <4>2
    <3> QED BY <1>0, <2>3, <2>4, <3>3, <3>5 DEF SerialInv
  <2> QED BY <2>5, <2>6
<1>4. ASSUME NEW h \in Handlers, NEW o \in Orders, NEW type \in OrderType, NEW d \in Devices,
             CreateOrder(h, o, type, d)
      PROVE SerialInv'
  BY <1>0, <1>4, SerialCreate DEF CreateOrder
<1>5. ASSUME NEW h \in Handlers, NEW o \in Orders, NEW s \in Segments, CreateFlowOrder(h, o, s)
      PROVE SerialInv'
  BY <1>0, <1>5, SerialCreate DEF CreateFlowOrder
<1>6. ASSUME NEW h \in Handlers, NEW o \in Orders, NEW target \in OrderState, NEW s \in Step,
             Begin(h, o, target, s), s \notin {"idle", "device"},
             s \in {"check", "issue"} => target = "issued",
             s = "issue" => ~ForDevice(o),
             s \in {"drive", "finish"} => target = "executed",
             s = "finish" => ~ForDevice(o),
             s = "revoke" => target = "revoked"
      PROVE SerialInv'
  <2>1. /\ SameStores /\ Become(h, OnOrder(s, o)) /\ req[h].step = "idle"
        /\ OrderMove(orders[o].state, target)
        /\ \A g \in Handlers : req[g].order # o
        /\ orders[o].device # None => \A g \in Handlers : req[g].device # orders[o].device
    BY <1>6, NoneOK DEF Begin, SameStores, MayTouch, IsIdle
  <2>2. req'[h] = OnOrder(s, o) /\ \A g \in Handlers : g # h => req'[g] = req[g]
    BY <1>0, <2>1 DEF Become
  <2>3. Apart'
    BY <1>0, <2>1, ApartStays DEF OnOrder
  <2>4. /\ target = "issued" => orders[o].state = "pending"
        /\ target = "executed" => orders[o].state = "issued"
        /\ target = "revoked" => orders[o].state \in {"pending", "issued"}
    BY <2>1 DEF OrderMove, OrderState, OrderTransitions
  <2>5. StepOK(h)'
    BY <1>6, <2>1, <2>2, <2>4 DEF StepOK, OnOrder, SameStores, ForDevice
  <2> QED BY <1>0, <1>6, <2>1, <2>2, <2>3, <2>5, SerialRead DEF OnOrder
<1>7. ASSUME NEW h \in Handlers, IssueCheck(h) \/ ExecuteDrive(h) PROVE SerialInv'
  <2> DEFINE r == req[h]
  <2>1. /\ SameStores /\ r \in Request /\ r.step \in {"check", "drive"}
        /\ \/ Return(h)
           \/ r.step = "check" /\ Goto(h, "issue") /\ devices[r.device] # r.target
           \/ r.step = "drive" /\ Goto(h, "device") /\ DeviceMove(devices[r.device], r.target)
    BY <1>0, <1>7 DEF IssueCheck, ExecuteDrive, SameStores, ActionAllowed
  <2>2. Apart'
    BY <1>0, <2>1, ApartWhenGoingOn
  <2>3. CASE Return(h)
    <3>1. req'[h] = Idle /\ \A g \in Handlers : g # h => req'[g] = req[g]
      BY <1>0, <2>3 DEF Return, Become
    <3>2. StepOK(h)'
      BY <3>1 DEF StepOK, Idle
    <3> QED BY <1>0, <2>1, <2>2, <3>1, <3>2, SerialRead DEF Idle
  <2>4. ASSUME NEW s \in {"issue", "device"}, Goto(h, s),
               s = "issue" => r.step = "check" /\ devices[r.device] # r.target,
               s = "device" => r.step = "drive" /\ DeviceMove(devices[r.device], r.target)
        PROVE SerialInv'
    <3>1. /\ req'[h] = [r EXCEPT !.step = s] /\ \A g \in Handlers : g # h => req'[g] = req[g]
          /\ req'[h].step = s /\ req'[h].order = r.order /\ req'[h].device = r.device
          /\ req'[h].target = r.target
      BY <1>0, <2>4 DEF Goto, Request
    <3>2. StepOK(h)'
      BY <1>0, <2>1, <2>4, <3>1 DEF StepOK, SameStores, ForDevice, DeviceMove
    <3> QED BY <1>0, <2>1, <2>2, <3>1, <3>2, SerialRead
  <2> QED BY <2>1, <2>3, <2>4
<1>8. ASSUME NEW h \in Handlers, IssueWrite(h) \/ RevokeWrite(h) \/ ExecuteWrite(h) PROVE SerialInv'
  <2>1. req[h].order \in Orders
    BY <1>0, <1>8 DEF IssueWrite, RevokeWrite, ExecuteWrite, RequestOK
  <2>2. PICK s \in {"issued", "revoked", "executed"} :
          /\ UpdateOrder(req[h].order, s) /\ UNCHANGED <<devices, driven>> /\ Return(h)
          /\ s = "executed" <=> req[h].step = "finish"
          /\ s # "executed" => req[h].step \in {"issue", "revoke"}
    BY <1>8 DEF IssueWrite, RevokeWrite, ExecuteWrite
  <2>3. s # "executed" => orders[req[h].order].state # "executed"
    BY <1>0, <2>2 DEF StepOK
  <2> QED BY <1>0, <2>1, <2>2, <2>3, SerialMove DEF OrderState
<1>9. CASE UNCHANGED vars
  <2>1. Apart' /\ (\A h \in Handlers : StepOK(h)') /\ \A o \in Orders : CountOK(o)'
    BY <1>0, <1>9 DEF vars, Apart, StepOK, CountOK, ForDevice, Finishing, DeviceMove
  <2> QED BY <1>0, <2>1 DEF SerialInv
<1>10. ASSUME NEW h \in Handlers, NEW o \in Orders, IssueRead(h, o) \/ ExecuteRead(h, o) \/ RevokeRead(h, o)
       PROVE SerialInv'
  BY <1>6, <1>10 DEF IssueRead, ExecuteRead, RevokeRead, OrderState, Step
<1> QED BY <1>1, <1>2, <1>3, <1>4, <1>5, <1>7, <1>8, <1>9, <1>10
        DEF Next, DeviceRequest, OrderRequest

LEMMA SerialAlways == OnePerObject /\ Spec => []SerialInv
<1>1. OnePerObject /\ SerialInv /\ [Next]_vars => SerialInv'
  BY SerialNext
<1>2. CASE OnePerObject
  BY <1>1, <1>2, SerialInit, PTL DEF Spec
<1>3. CASE ~OnePerObject
  BY <1>3, PTL
<1> QED BY <1>2, <1>3

(* With the clients' discipline, an order changes its device exactly when  *)
(* it is executed, once.                                                   *)
THEOREM DrivenOnce == OnePerObject /\ Spec => []DrivenExactlyOnce
<1>1. SerialInv => DrivenExactlyOnce
  BY DEF SerialInv, CountOK, DrivenExactlyOnce, InFlight, Finishing
<1> QED BY <1>1, SerialAlways, PTL

-----------------------------------------------------------------------------
(***************************************************************************)
(* Every step of the requests is a step of the atomic specification or     *)
(* shows nothing: the device's Update of an execution shows the execution, *)
(* the order's own Update of it shows nothing more.                        *)
(***************************************************************************)
LEMMA ShownRest ==
  ASSUME TypeInv, NEW o \in Orders, ~Finishing(o) \/ ~ForDevice(o)
  PROVE  ShownOrders[o] = orders[o]
BY DEF ShownOrders

LEMMA ShownStays ==
  ASSUME orders' = orders, \A o \in Orders : ForDevice(o) => (Finishing(o)' <=> Finishing(o))
  PROVE  ShownOrders' = ShownOrders
BY DEF ShownOrders, ForDevice

LEMMA TargetsAgree ==
  ASSUME NEW o, orders[o].type \in OrderType, ForDevice(o)
  PROVE  Target(o) = Atomic!Commands[orders[o].type]
BY DEF OrderType, ForDevice, Target, TargetState, Atomic!Commands

LEMMA ShownPut ==
  ASSUME SerialInv, NEW o \in Orders, NEW type, NEW d, NEW s,
         PutOrder(o, type, d, s), UNCHANGED <<devices, driven, req>>
  PROVE  Atomic!PutOrder(o, type, d, s)
<1> DEFINE new == [state |-> "pending", type |-> type, device |-> d, segment |-> s]
<1>1. orders[o].state = "none" /\ orders' = [orders EXCEPT ![o] = new] /\ orders \in [Orders -> OrderRecord]
  BY DEF PutOrder, SerialInv, TypeInv, TypeOK
<1>2. ~Finishing(o) /\ \A q : Finishing(q)' <=> Finishing(q)
  BY <1>1, NoneOK DEF Finishing, SerialInv, TypeInv, RequestOK
<1>3. \A q \in Orders : ShownOrders'[q] = IF q = o THEN new ELSE ShownOrders[q]
  BY <1>1, <1>2 DEF ShownOrders, ForDevice
<1>4. ShownOrders[o].state = "none"
  BY <1>1, <1>2 DEF ShownOrders
<1>5. ShownOrders' = [ShownOrders EXCEPT ![o] = new]
  BY <1>3 DEF ShownOrders
<1> QED BY <1>4, <1>5 DEF Atomic!PutOrder

LEMMA ShownMove ==
  ASSUME SerialInv, NEW h \in Handlers, NEW s \in OrderState, req[h].order \in Orders,
         UpdateOrder(req[h].order, s), Return(h),
         req[h].step = "finish" => ~ForDevice(req[h].order)
  PROVE  ShownOrders' = [ShownOrders EXCEPT ![req[h].order].state = s]
<1> DEFINE o == req[h].order
<1>1. orders' = [orders EXCEPT ![o].state = s] /\ orders \in [Orders -> OrderRecord]
  BY DEF UpdateOrder, SerialInv, TypeInv, TypeOK
<1>2. req'[h] = Idle /\ \A g \in Handlers : g # h => req'[g] = req[g]
  BY DEF Return, Become, SerialInv, TypeInv, TypeOK
<1>3. \A g \in Handlers : g # h => req[g].order # o
  BY NoneOK DEF SerialInv, Apart
<1>4. \A q \in Orders : q # o => (Finishing(q)' <=> Finishing(q))
  BY <1>2 DEF Finishing, Idle
<1>5. \A q \in Orders : q = o => ~Finishing(q)' /\ (Finishing(q) => ~ForDevice(q))
  BY <1>2, <1>3 DEF Finishing, Idle
<1>6. ASSUME NEW q \in Orders
      PROVE  ShownOrders'[q] = [ShownOrders EXCEPT ![o].state = s][q]
  <2>1. CASE q = o
    <3>1. ShownOrders'[q] = orders'[q] /\ ShownOrders[q] = orders[q]
      BY <1>5, <2>1 DEF ShownOrders
    <3>2. orders'[q] = [orders[q] EXCEPT !.state = s]
      BY <1>1, <2>1
    <3> QED BY <2>1, <3>1, <3>2 DEF ShownOrders
  <2>2. CASE q # o
    <3>1. orders'[q] = orders[q] /\ (Finishing(q)' <=> Finishing(q))
      BY <1>1, <1>4, <2>2
    <3> QED BY <2>2, <3>1 DEF ShownOrders, ForDevice
  <2> QED BY <2>1, <2>2
<1> QED BY <1>6 DEF ShownOrders

LEMMA ShownNext ==
  ASSUME OnePerObject, SerialInv, [Next]_vars
  PROVE  [Atomic!ANext]_<<ShownOrders, devices>>
<1>0. /\ TypeInv /\ Apart
      /\ req \in [Handlers -> Request] /\ orders \in [Orders -> OrderRecord]
      /\ devices \in [Devices -> DeviceState \cup {"none"}]
      /\ \A h \in Handlers : RequestOK(h) /\ StepOK(h)
      /\ \A o \in Orders : StoredOK(o) /\ CountOK(o)
  BY DEF SerialInv, TypeInv, TypeOK
<1>1. ASSUME NEW h \in Handlers, NEW d \in Devices, NEW s \in StatesOf(d), UpsertDevice(h, d, s)
      PROVE Atomic!ANext
  <2>1. WriteDevice(d, s) /\ ShownOrders' = ShownOrders
    BY <1>1, ShownStays DEF UpsertDevice, Finishing
  <2>2. Atomic!ASetDevice(d, s)
    BY <2>1 DEF Atomic!ASetDevice, Atomic!StatesOf, Atomic!WriteDevice, StatesOf, WriteDevice,
                Atomic!ValveState, Atomic!CompressorState, ValveState, CompressorState
  <2> QED BY <2>2, StatesAreStates
          DEF Atomic!ANext, Atomic!DeviceState, Atomic!ValveState, Atomic!CompressorState,
              DeviceState, ValveState, CompressorState
<1>2. ASSUME NEW h \in Handlers, SameStores,
             \A g \in Handlers : g # h => req'[g] = req[g],
             req[h].step # "finish", req'[h].step = "finish" => ~ForDevice(req'[h].order)
      PROVE UNCHANGED <<ShownOrders, devices>>
  <2>1. ASSUME NEW o \in Orders, ForDevice(o) PROVE Finishing(o)' <=> Finishing(o)
    BY <1>2, <2>1, FinishingStays
  <2> QED BY <1>2, <2>1, ShownStays DEF SameStores
<1>3. ASSUME NEW h \in Handlers, DeviceWrite(h) PROVE Atomic!ANext
  <2> DEFINE r == req[h]
  <2>1. /\ r \in Request /\ r.step = "device" /\ r.device \in Devices /\ r.target \in StatesOf(r.device)
        /\ DeviceMove(devices[r.device], r.target)
        /\ orders' = orders /\ WriteDevice(r.device, r.target)
        /\ \A g \in Handlers : g # h => req'[g] = req[g]
    BY <1>0, <1>3 DEF DeviceWrite, RequestOK, StepOK, Return, Become, Goto
  <2>2. CASE r.order = None
    <3>1. req'[h] = Idle
      BY <1>0, <1>3, <2>2 DEF DeviceWrite, Return, Become
    <3>2. ShownOrders' = ShownOrders
      BY <2>1, <3>1, FinishingStays, ShownStays DEF Idle
    <3>3. Atomic!ASetDevice(r.device, r.target)
      BY <2>1, <3>2 DEF Atomic!ASetDevice, Atomic!StatesOf, Atomic!WriteDevice, StatesOf, WriteDevice,
                  Atomic!ValveState, Atomic!CompressorState, ValveState, CompressorState
    <3> QED BY <2>1, <3>3, StatesAreStates
            DEF Atomic!ANext, Atomic!DeviceState, Atomic!ValveState, Atomic!CompressorState,
                DeviceState, ValveState, CompressorState
  <2>3. CASE r.order # None
    <3>1. PICK o \in Orders : o = r.order
      BY <2>1, <2>3 DEF Request
    <3>2. /\ ForDevice(o) /\ orders[o].state = "issued" /\ r.device = orders[o].device /\ r.target = Target(o)
          /\ req'[h] = [r EXCEPT !.step = "finish"] /\ orders[o].type \in OrderType
      BY <1>0, <1>3, <2>1, <2>3, <3>1 DEF DeviceWrite, Goto, RequestOK, StepOK, StoredOK
    <3>3. req'[h].step = "finish" /\ req'[h].order = o
      BY <2>1, <3>1, <3>2 DEF Request
    <3>4. \A g \in Handlers : g # h => req[g].order # o
      BY <1>0, <2>3, <3>1 DEF Apart
    <3>5. ~Finishing(o) /\ Finishing(o)'
      BY <2>1, <3>3, <3>4 DEF Finishing
    <3>6. \A q \in Orders : q # o => (Finishing(q)' <=> Finishing(q))
      BY <2>1, <3>1, <3>3 DEF Finishing
    <3>7. ShownOrders[o] = orders[o] /\ ShownOrders'[o] = [orders[o] EXCEPT !.state = "executed"]
      BY <2>1, <3>2, <3>5 DEF ShownOrders, ForDevice
    <3>8. ASSUME NEW q \in Orders PROVE ShownOrders'[q] = [ShownOrders EXCEPT ![o].state = "executed"][q]
      <4>1. CASE q = o
        BY <3>7, <4>1 DEF ShownOrders
      <4>2. CASE q # o
        BY <2>1, <3>6, <4>2 DEF ShownOrders, ForDevice
      <4> QED BY <4>1, <4>2
    <3>9. ShownOrders' = [ShownOrders EXCEPT ![o].state = "executed"]
      BY <3>8 DEF ShownOrders
    <3>10. Atomic!AMove(o, "executed")
      <4>1. ShownOrders[o].state = "issued"
        BY <3>2, <3>7
      <4> QED BY <3>9, <4>1
          DEF Atomic!AMove, Atomic!UpdateOrder, Atomic!OrderMove, Atomic!OrderState, Atomic!OrderTransitions
    <3>11. Atomic!Commands[ShownOrders[o].type] = r.target /\ ShownOrders[o].type # "flow"
           /\ ShownOrders[o].device = r.device
      BY <3>2, <3>7, TargetsAgree DEF ForDevice
    <3>12. Atomic!AExecute(o)
      BY <2>1, <3>10, <3>11
      DEF Atomic!AExecute, Atomic!WriteDevice, WriteDevice, Atomic!DeviceMove, DeviceMove,
          Atomic!DeviceState, DeviceState, Atomic!ValveState, ValveState,
          Atomic!CompressorState, CompressorState, Atomic!DeviceTransitions, DeviceTransitions
    <3> QED BY <3>12 DEF Atomic!ANext
  <2> QED BY <2>2, <2>3
<1>4. ASSUME NEW h \in Handlers, NEW o \in Orders, NEW type \in OrderType, NEW d \in Devices,
             CreateOrder(h, o, type, d)
      PROVE Atomic!ANext
  <2>1. Atomic!PutOrder(o, type, d, SegmentOf[d])
    BY <1>4, ShownPut DEF CreateOrder
  <2>2. Atomic!ACreate(o, type, d)
    BY <1>4, <2>1 DEF CreateOrder, Atomic!ACreate, Atomic!DeviceExists, DeviceExists
  <2> QED BY <2>2 DEF Atomic!ANext, Atomic!OrderType, OrderType
<1>5. ASSUME NEW h \in Handlers, NEW o \in Orders, NEW s \in Segments, CreateFlowOrder(h, o, s)
      PROVE Atomic!ANext
  <2>1. Atomic!PutOrder(o, "flow", None, s)
    BY <1>5, ShownPut DEF CreateFlowOrder
  <2>2. Atomic!ACreateFlow(o, s)
    BY <1>5, <2>1 DEF CreateFlowOrder, Atomic!ACreateFlow
  <2> QED BY <2>2 DEF Atomic!ANext
<1>6. ASSUME NEW h \in Handlers, IssueWrite(h) PROVE Atomic!ANext
  <2>1. PICK o \in Orders : o = req[h].order
    BY <1>0, <1>6 DEF IssueWrite, RequestOK
  <2>2. /\ orders[o].state = "pending" /\ req[h].device = orders[o].device /\ req[h].target = Target(o)
        /\ ForDevice(o) => devices[req[h].device] # req[h].target
        /\ orders[o].type \in OrderType
    BY <1>0, <1>6, <2>1, NoneOK DEF IssueWrite, StepOK, RequestOK, StoredOK
  <2>3. ShownOrders' = [ShownOrders EXCEPT ![o].state = "issued"] /\ devices' = devices
    BY <1>6, <2>1, ShownMove DEF IssueWrite, OrderState
  <2>4. ShownOrders[o] = orders[o]
    <3>1. ~Finishing(o)
      BY <1>0, <1>6, <2>1, NoneOK DEF IssueWrite, Finishing, Apart
    <3> QED BY <1>0, <3>1, ShownRest
  <2>5. Atomic!AMove(o, "issued")
    BY <2>2, <2>3, <2>4
    DEF Atomic!AMove, Atomic!UpdateOrder, Atomic!OrderMove, Atomic!OrderState, Atomic!OrderTransitions
  <2>6. ShownOrders[o].type # "flow" => devices[ShownOrders[o].device] # Atomic!Commands[ShownOrders[o].type]
    BY <2>2, <2>4, TargetsAgree DEF ForDevice
  <2>7. Atomic!AIssue(o)
    BY <2>3, <2>5, <2>6 DEF Atomic!AIssue
  <2> QED BY <2>7 DEF Atomic!ANext
<1>7. ASSUME NEW h \in Handlers, RevokeWrite(h) PROVE Atomic!ANext
  <2>1. PICK o \in Orders : o = req[h].order
    BY <1>0, <1>7 DEF RevokeWrite, RequestOK
  <2>2. orders[o].state \in {"pending", "issued"}
    BY <1>0, <1>7, <2>1 DEF RevokeWrite, StepOK
  <2>3. ShownOrders' = [ShownOrders EXCEPT ![o].state = "revoked"] /\ devices' = devices
    BY <1>7, <2>1, ShownMove DEF RevokeWrite, OrderState
  <2>4. ShownOrders[o] = orders[o]
    <3>1. ~Finishing(o)
      BY <1>0, <1>7, <2>1, NoneOK DEF RevokeWrite, Finishing, Apart
    <3> QED BY <1>0, <3>1, ShownRest
  <2>5. Atomic!AMove(o, "revoked")
    BY <2>2, <2>3, <2>4
    DEF Atomic!AMove, Atomic!UpdateOrder, Atomic!OrderMove, Atomic!OrderState, Atomic!OrderTransitions
  <2>6. Atomic!ARevoke(o)
    BY <2>3, <2>5 DEF Atomic!ARevoke
  <2> QED BY <2>6 DEF Atomic!ANext
<1>8. ASSUME NEW h \in Handlers, ExecuteWrite(h) PROVE Atomic!ANext \/ UNCHANGED <<ShownOrders, devices>>
  <2>1. PICK o \in Orders : o = req[h].order
    BY <1>0, <1>8 DEF ExecuteWrite, RequestOK
  <2>2. /\ orders[o].state = "issued" /\ req[h].step = "finish" /\ Return(h)
        /\ UpdateOrder(o, "executed") /\ devices' = devices
    BY <1>0, <1>8, <2>1 DEF ExecuteWrite, StepOK
  <2>3. CASE ForDevice(o)
    <3>1. req'[h] = Idle /\ \A g \in Handlers : g # h => req'[g] = req[g]
      BY <1>0, <2>2 DEF Return, Become
    <3>2. Finishing(o) /\ \A q \in Orders : q # o => (Finishing(q)' <=> Finishing(q))
      BY <2>1, <2>2, <3>1 DEF Finishing, Idle
    <3>3. orders' = [orders EXCEPT ![o].state = "executed"]
      BY <2>2 DEF UpdateOrder
    <3>4. ASSUME NEW q \in Orders PROVE ShownOrders'[q] = ShownOrders[q]
      <4>1. CASE q = o
        <5>1. ShownOrders[q] = [orders[q] EXCEPT !.state = "executed"]
          BY <2>3, <3>2, <4>1 DEF ShownOrders
        <5>2. orders'[q] = [orders[q] EXCEPT !.state = "executed"]
          BY <1>0, <3>3, <4>1
        <5>3. ShownOrders'[q] = orders'[q]
          BY <5>2 DEF ShownOrders
        <5> QED BY <5>1, <5>2, <5>3
      <4>2. CASE q # o
        <5>1. orders'[q] = orders[q]
          BY <1>0, <3>3, <4>2
        <5> QED BY <3>2, <4>2, <5>1 DEF ShownOrders, ForDevice
      <4> QED BY <4>1, <4>2
    <3>5. ShownOrders' = ShownOrders
      BY <3>4 DEF ShownOrders
    <3> QED BY <2>2, <3>5
  <2>4. CASE ~ForDevice(o)
    <3>1. ShownOrders' = [ShownOrders EXCEPT ![o].state = "executed"]
      BY <2>1, <2>2, <2>4, ShownMove DEF OrderState
    <3>2. ShownOrders[o] = orders[o]
      BY <1>0, <2>4, ShownRest
    <3>3. Atomic!AMove(o, "executed")
      BY <2>2, <3>1, <3>2
      DEF Atomic!AMove, Atomic!UpdateOrder, Atomic!OrderMove, Atomic!OrderState, Atomic!OrderTransitions
    <3>4. Atomic!AExecute(o)
      BY <2>2, <2>4, <3>2, <3>3 DEF Atomic!AExecute, ForDevice
    <3> QED BY <3>4 DEF Atomic!ANext
  <2> QED BY <2>3, <2>4
<1>9. ASSUME NEW h \in Handlers, NEW o \in Orders, NEW target, NEW s,
             Begin(h, o, target, s), s = "finish" => ~ForDevice(o)
      PROVE UNCHANGED <<ShownOrders, devices>>
  <2>1. /\ SameStores /\ req[h].step = "idle" /\ req'[h] = OnOrder(s, o)
        /\ \A g \in Handlers : g # h => req'[g] = req[g]
    BY <1>0, <1>9 DEF Begin, SameStores, IsIdle, Become
  <2>2. req'[h].step = "finish" => ~ForDevice(req'[h].order)
    BY <1>9, <2>1 DEF OnOrder
  <2> QED BY <1>2, <2>1, <2>2
<1>10. ASSUME NEW h \in Handlers, NEW o \in Orders, IssueRead(h, o) \/ ExecuteRead(h, o) \/ RevokeRead(h, o)
       PROVE UNCHANGED <<ShownOrders, devices>>
  BY <1>9, <1>10 DEF IssueRead, ExecuteRead, RevokeRead
<1>11. ASSUME NEW h \in Handlers, IssueCheck(h) \/ ExecuteDrive(h)
       PROVE UNCHANGED <<ShownOrders, devices>>
  <2>1. /\ SameStores /\ req[h].step # "finish" /\ req'[h].step # "finish"
        /\ \A g \in Handlers : g # h => req'[g] = req[g]
    BY <1>0, <1>11 DEF IssueCheck, ExecuteDrive, SameStores, Return, Become, Goto, Idle, Request
  <2> QED BY <1>2, <2>1
<1>12. ASSUME NEW h \in Handlers, NEW d \in Devices, NEW s \in StatesOf(d), ChangeRead(h, d, s)
       PROVE UNCHANGED <<ShownOrders, devices>>
  <2>1. /\ SameStores /\ req[h].step = "idle" /\ req'[h] = OnDevice(d, s)
        /\ \A g \in Handlers : g # h => req'[g] = req[g]
    BY <1>0, <1>12 DEF ChangeRead, SameStores, IsIdle, Become
  <2> QED BY <1>2, <2>1 DEF OnDevice
<1>13. CASE UNCHANGED vars
  BY <1>13, ShownStays DEF vars, Finishing
<1> QED BY <1>1, <1>3, <1>4, <1>5, <1>6, <1>7, <1>8, <1>10, <1>11, <1>12, <1>13
        DEF Next, DeviceRequest, OrderRequest

LEMMA ShownInit == Init => Atomic!AInit
<1> SUFFICES ASSUME Init PROVE Atomic!AInit
  OBVIOUS
<1>1. orders = [o \in Orders |-> NoOrder] /\ req = [h \in Handlers |-> Idle]
      /\ devices = [d \in Valves \cup Compressors |-> "none"]
  BY DEF Init, OrderInit, DeviceInit
<1>2. \A o : ~Finishing(o)
  BY <1>1 DEF Finishing, Idle
<1>3. ShownOrders = [o \in Orders |-> NoOrder]
  BY <1>1, <1>2 DEF ShownOrders
<1> QED BY <1>1, <1>3
        DEF Atomic!AInit, Atomic!OrderInit, Atomic!DeviceInit, Atomic!NoOrder, NoOrder

(* With the clients' discipline the requests implement the atomic          *)
(* specification: an execution is one event, and a revocation means the    *)
(* device was not touched.                                                 *)
THEOREM DispatchImplementsAtomic == OnePerObject /\ Spec => ImplementsAtomicDispatch
<1>1. OnePerObject /\ SerialInv /\ [Next]_vars => [Atomic!ANext]_<<ShownOrders, devices>>
  BY ShownNext
<1>2. CASE OnePerObject
  BY <1>1, <1>2, ShownInit, SerialAlways, PTL
  DEF Spec, ImplementsAtomicDispatch, Atomic!ASpec, Atomic!avars
<1>3. CASE ~OnePerObject
  BY <1>3, PTL
<1> QED BY <1>2, <1>3

-----------------------------------------------------------------------------
(* With the clients' discipline orders and devices move along their        *)
(* transition tables only.                                                 *)
LEMMA MovesOnly ==
  ASSUME OnePerObject, SerialInv, [Next]_vars
  PROVE  /\ \A o \in Orders : orders'[o].state # orders[o].state /\ orders[o].state # "none"
              => OrderMove(orders[o].state, orders'[o].state)
         /\ \A d \in Devices : devices'[d] # devices[d] /\ req' # req
              => DeviceMove(devices[d], devices'[d])
<1>0. /\ req \in [Handlers -> Request] /\ orders \in [Orders -> OrderRecord]
      /\ devices \in [Devices -> DeviceState \cup {"none"}]
      /\ \A h \in Handlers : RequestOK(h) /\ StepOK(h)
  BY DEF SerialInv, TypeInv, TypeOK
<1> DEFINE OrdersMove == \A o \in Orders : orders'[o].state # orders[o].state /\ orders[o].state # "none"
                           => OrderMove(orders[o].state, orders'[o].state)
           DevicesMove == \A d \in Devices : devices'[d] # devices[d] /\ req' # req
                            => DeviceMove(devices[d], devices'[d])
<1>1. ASSUME NEW h \in Handlers, NEW d \in Devices, NEW s \in StatesOf(d), UpsertDevice(h, d, s)
      PROVE OrdersMove /\ DevicesMove
  BY <1>1 DEF UpsertDevice
<1>2. ASSUME NEW h \in Handlers, DeviceWrite(h) PROVE OrdersMove /\ DevicesMove
  <2>1. /\ orders' = orders /\ devices' = [devices EXCEPT ![req[h].device] = req[h].target]
        /\ DeviceMove(devices[req[h].device], req[h].target)
    BY <1>0, <1>2 DEF DeviceWrite, StepOK, WriteDevice
  <2> QED BY <1>0, <2>1
<1>3. ASSUME NEW h \in Handlers, IssueWrite(h) \/ ExecuteWrite(h) \/ RevokeWrite(h)
      PROVE OrdersMove /\ DevicesMove
  <2>1. PICK s : /\ UpdateOrder(req[h].order, s) /\ devices' = devices
                 /\ OrderMove(orders[req[h].order].state, s)
    BY <1>0, <1>3 DEF IssueWrite, ExecuteWrite, RevokeWrite, StepOK,
                      OrderMove, OrderState, OrderTransitions
  <2>2. ASSUME NEW o \in Orders
        PROVE  orders'[o].state = IF o = req[h].order THEN s ELSE orders[o].state
    <3>1. orders[o] \in OrderRecord /\ orders' = [orders EXCEPT ![req[h].order].state = s]
      BY <1>0, <2>1 DEF UpdateOrder
    <3> QED BY <1>0, <3>1 DEF OrderRecord
  <2> QED BY <2>1, <2>2
<1>4. ASSUME NEW o \in Orders, NEW type, NEW d, NEW s, PutOrder(o, type, d, s), devices' = devices
      PROVE OrdersMove /\ DevicesMove
  BY <1>0, <1>4 DEF PutOrder
<1>5. ASSUME UNCHANGED <<orders, devices>> PROVE OrdersMove /\ DevicesMove
  BY <1>5
<1> QED BY <1>1, <1>2, <1>3, <1>4, <1>5
    DEF Next, DeviceRequest, OrderRequest, ChangeRead, CreateOrder, CreateFlowOrder, IssueRead,
        ExecuteRead, RevokeRead, Begin, IssueCheck, ExecuteDrive, vars

(* Orders move along their table, whatever the requests are.               *)
THEOREM OrdersFollowTable == OnePerObject /\ Spec => OrderLifecycle
<1>1. OnePerObject /\ SerialInv /\ [Next]_vars =>
        [\A o \in Orders : orders'[o].state # orders[o].state /\ orders[o].state # "none"
           => OrderMove(orders[o].state, orders'[o].state)]_vars
  BY MovesOnly
<1>2. CASE OnePerObject
  BY <1>1, <1>2, SerialAlways, PTL DEF Spec, OrderLifecycle
<1>3. CASE ~OnePerObject
  BY <1>3, PTL
<1> QED BY <1>2, <1>3

(* So do devices, but for upserts.                                         *)
THEOREM DevicesFollowTable == OnePerObject /\ Spec => DeviceLifecycle
<1>1. OnePerObject /\ SerialInv /\ [Next]_vars =>
        [\A d \in Devices : devices'[d] # devices[d] /\ req' # req
           => DeviceMove(devices[d], devices'[d])]_vars
  BY MovesOnly
<1>2. CASE OnePerObject
  BY <1>1, <1>2, SerialAlways, PTL DEF Spec, DeviceLifecycle
<1>3. CASE ~OnePerObject
  BY <1>3, PTL
<1> QED BY <1>2, <1>3
=============================================================================
