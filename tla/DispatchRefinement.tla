------------------------- MODULE DispatchRefinement -------------------------
(***************************************************************************)
(* While clients have no two requests in flight about one order or device, *)
(* dispatch keeps its promise: between the device's Update and the order's *)
(* own, the order already counts as executed.                              *)
(***************************************************************************)
EXTENDS Dispatch

Finishing(o) == \E h \in Handlers : req[h].step = "finish" /\ req[h].order = o

ShownOrders ==
  [o \in Orders |->
     IF Finishing(o) /\ ForDevice(o) THEN [orders[o] EXCEPT !.state = "executed"] ELSE orders[o]]

Atomic == INSTANCE AtomicDispatch WITH orders <- ShownOrders

(* Dispatch implements the atomic specification. *)
ImplementsAtomicDispatch == Atomic!ASpec
=============================================================================
