-------------------------------- MODULE Ring --------------------------------
(***************************************************************************)
(* The reading store of internal/scada as it is: a ring buffer per point.  *)
(* A point's ring is made by PutPoint or by its first reading; until then  *)
(* it reads as an empty one.  Every method is one step under Store.mu.     *)
(***************************************************************************)
EXTENDS Integers, Sequences

CONSTANTS
  Points,      \* point ids that occur in readings, registered or not
  Readings,    \* the readings that come in
  BufCap,      \* the capacity of a ring (newRing: at least 1)
  NoReading    \* the zero Reading

ASSUME BufCapOK == BufCap \in Nat \ {0}
ASSUME NoReadingOK == NoReading \notin Readings

VARIABLE
  rings        \* rings[p]: the ring buffer of p

-----------------------------------------------------------------------------
Slots == 0 .. BufCap - 1

(* head is the slot of the next write, n the number of valid entries.      *)
RingBuffer == [buf : [Slots -> Readings \cup {NoReading}], head : Slots, n : 0 .. BufCap]

NewRing == [buf |-> [i \in Slots |-> NoReading], head |-> 0, n |-> 0]

RingInit == rings = [p \in Points |-> NewRing]

PushNoWrap(r, rd) ==  \* Mutation: the last slot is not used
  [buf  |-> [r.buf EXCEPT ![r.head] = rd],
   head |-> IF r.head + 1 < BufCap - 1 THEN r.head + 1 ELSE 0,
   n    |-> IF r.n < BufCap THEN r.n + 1 ELSE r.n]

Push(r, rd) ==
  [buf  |-> [r.buf EXCEPT ![r.head] = rd],
   head |-> (r.head + 1) % BufCap,
   n    |-> IF r.n < BufCap THEN r.n + 1 ELSE r.n]

Last(r) == IF r.n = 0 THEN NoReading ELSE r.buf[(r.head - 1 + BufCap) % BufCap]

Start(r) == (r.head - r.n + BufCap) % BufCap

(* A copy of the valid readings, oldest first. *)
Snapshot(r) == [i \in 1 .. r.n |-> r.buf[(Start(r) + i - 1) % BufCap]]

(* AppendReading, which returns the Last of the ring as it was. *)
AppendReading(p, rd) == rings' = [rings EXCEPT ![p] = Push(@, rd)]

HistoryOf(p) == Snapshot(rings[p])

-----------------------------------------------------------------------------
(***************************************************************************)
(* Through Snapshot, the rings are the histories module Telemetry works    *)
(* with: whatever the wrap-around, the last BufCap readings, oldest first. *)
(***************************************************************************)
Histories == [p \in Points |-> HistoryOf(p)]

Abstract == INSTANCE History WITH hist <- Histories

ImplementsHistory ==
  /\ Abstract!HistoryInit
  /\ [][\E p \in Points, rd \in Readings : Abstract!Record(p, rd)]_Histories

RingTypeOK == rings \in [Points -> RingBuffer]
=============================================================================
