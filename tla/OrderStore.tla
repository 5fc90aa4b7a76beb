----------------------------- MODULE OrderStore -----------------------------
(***************************************************************************)
(* The order records of internal/dispatch and their state machine.  Module *)
(* Dispatch adds the service's requests and the devices they drive; module *)
(* Permit reads the orders that are not over.                              *)
(***************************************************************************)
CONSTANTS
  Orders,       \* the order ids NewOrderID will hand out
  Devices,      \* the devices orders are for
  Segments,     \* the pipeline segments
  None          \* "no order", "no device", "no segment"

ASSUME NoneOK == None \notin Orders \cup Devices \cup Segments

VARIABLE
  orders        \* orders[o]: the stored order; state "none" before Create

-----------------------------------------------------------------------------
OrderState == {"pending", "issued", "executed", "revoked"}

OrderTransitions ==
  [ pending  |-> {"issued", "revoked"},
    issued   |-> {"executed", "revoked"},
    executed |-> {},
    revoked  |-> {} ]

OrderMove(src, dst) == src \in OrderState /\ dst \in OrderTransitions[src]

OrderType == {"open_valve", "close_valve", "start_compressor", "stop_compressor", "flow"}

OrderRecord ==
  [state : OrderState \cup {"none"}, type : OrderType \cup {"none"},
   device : Devices \cup {None}, segment : Segments \cup {None}]

NoOrder == [state |-> "none", type |-> "none", device |-> None, segment |-> None]

OrderInit == orders = [o \in Orders |-> NoOrder]

PutOrder(o, type, d, s) ==
  /\ orders[o].state = "none"
  /\ orders' = [orders EXCEPT ![o] =
                  [state |-> "pending", type |-> type, device |-> d, segment |-> s]]

UpdateOrder(o, s) == orders' = [orders EXCEPT ![o].state = s]

(***************************************************************************)
(* What any number of overlapping Issue, Execute and Revoke may write: each *)
(* has tested the table on a copy, earlier, and does not look again, so one *)
(* that read the order while it was pending may come last and open a       *)
(* revoked order again.  Only the first write must be one from pending.    *)
(***************************************************************************)
MayWriteOrder(o, s) ==
  /\ orders[o].state # "none"
  /\ s \in {"issued", "revoked"} \/ (s = "executed" /\ orders[o].state # "pending")

IsOpenOrder(s) == s \in {"pending", "issued"}

PendingOnly(s) == {o \in Orders : orders[o].segment = s /\ orders[o].state = "pending"}  \* Mutation: issued orders are not pending

(* PendingForSegment, what the permit service asks. *)
PendingOrders(s) ==
  {o \in Orders : orders[o].segment = s /\ IsOpenOrder(orders[o].state)}
=============================================================================
