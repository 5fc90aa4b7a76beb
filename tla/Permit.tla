------------------------------- MODULE Permit -------------------------------
(***************************************************************************)
(* internal/permit under concurrent requests and the expiry scan, next to  *)
(* the orders of internal/dispatch and the incidents of internal/incident  *)
(* that an approval asks about.  An operation reads the permit, decides on *)
(* the copy, and updates it later; Approve asks the three stores in        *)
(* between.  One action is the stretch of a request up to its next store   *)
(* call.                                                                   *)
(*                                                                         *)
(* Orders and incidents come and go by Order... and Incident...: modules   *)
(* Dispatch and Incident say how.                                          *)
(***************************************************************************)
EXTENDS OrderStore, IncidentStore, Integers

CONSTANTS
  Permits,      \* the ids NewPermitID will hand out
  Windows,      \* the windows clients ask for: records of a start and an end
  MaxTime,      \* bound on the clock
  Handlers,     \* goroutines of the HTTP server: the requests in flight
  Orderly       \* permits that get one request at a time, a scan that has
                \* listed them included (the code lets requests overlap)

ASSUME WindowsOK ==
  \A w \in Windows : w.start \in Int /\ w.end \in Int
ASSUME MaxTimeOK == MaxTime \in Nat
ASSUME SameSegments == IncSegments = Segments
ASSUME NoPermitOK == None \notin Permits
ASSUME DistinctIds == Orders \cap Incidents = {}
ASSUME OrderlyOK == Orderly \subseteq Permits

VARIABLES
  permits,      \* permits[p]: the stored permit; state "none" before Apply
  now,          \* the clock
  req,          \* req[h]: where request h is, and its local variables
  standing      \* history: standing[h] are the orders and incidents that have
                \* been open on the segment, without a break, since h began to approve

vars == <<orders, incidents, permits, now, req, standing>>

-----------------------------------------------------------------------------
PermitState ==
  {"draft", "pending", "approved", "in_progress", "completed", "cancelled", "expired"}

PermitTransitions ==
  [ draft       |-> {"pending", "cancelled"},
    pending     |-> {"approved", "cancelled", "expired"},
    approved    |-> {"in_progress", "cancelled", "expired"},
    in_progress |-> {"completed", "cancelled"},
    completed   |-> {},
    cancelled   |-> {},
    expired     |-> {} ]

PermitMove(src, dst) == src \in PermitState /\ dst \in PermitTransitions[src]

NoPermit == [state |-> "none", segment |-> None, start |-> 0, end |-> 0]

PermitRecord ==
  [state : PermitState \cup {"none"}, segment : Segments \cup {None}, start : Int, end : Int]

IsOpenOnceGranted(p) == permits[p].state \in {"approved", "in_progress"}  \* Mutation: an application does not count

IsOpen(p) == permits[p].state \in {"draft", "pending", "approved", "in_progress"}

Overlap(p, q) ==
  /\ permits[p].segment = permits[q].segment
  /\ permits[p].start < permits[q].end
  /\ permits[p].end > permits[q].start

(* The store's OpenForSegment, without the permit it is asked for. *)
OverlappingOpen(p) == {q \in Permits \ {p} : IsOpen(q) /\ Overlap(q, p)}

UpdatePermit(p, s) == permits' = [permits EXCEPT ![p].state = s]

-----------------------------------------------------------------------------
(***************************************************************************)
(* A request's next step:                                                  *)
(*   "overlap", "orders", "incidents"   Approve, before each of its checks *)
(*   "approve", "start", "complete", "cancel"   before the Update          *)
(*   "scan"      ExpireScan, before expireOne reads one of the todo        *)
(*   "expire"    expireOne, before its Update                              *)
(***************************************************************************)
Step == {"idle", "overlap", "orders", "incidents", "approve", "start", "complete",
         "cancel", "scan", "expire"}

Request ==
  [step : Step, permit : Permits \cup {None}, todo : SUBSET Permits]

Idle == [step |-> "idle", permit |-> None, todo |-> {}]
OnPermit(s, p) == [step |-> s, permit |-> p, todo |-> {}]
Expiring(p, rest) == [step |-> "expire", permit |-> p, todo |-> rest]
Scanning(rest) ==
  IF rest = {} THEN Idle ELSE [step |-> "scan", permit |-> None, todo |-> rest]

IsIdle(h) == req[h].step = "idle"
Become(h, r) == req' = [req EXCEPT ![h] = r]

Conflicts(s) == PendingOrders(s) \cup OpenIncidents(s)

(* What the clients' discipline allows them to send. *)
Uses(h, p) == p = req[h].permit \/ p \in req[h].todo
MayTouch(p) == p \in Orderly => \A g \in Handlers : ~Uses(g, p)

Init ==
  /\ OrderInit
  /\ IncidentInit
  /\ permits = [p \in Permits |-> NoPermit]
  /\ now = 0
  /\ req = [h \in Handlers |-> Idle]
  /\ standing = [h \in Handlers |-> {}]

elsewhere == <<orders, incidents, now, standing>>

-----------------------------------------------------------------------------
(* Apply skips draft; it accepts windows of the past. *)
Apply(h, p, s, w) ==
  /\ IsIdle(h)
  /\ permits[p].state = "none"
  /\ w.end > w.start
  /\ permits' = [permits EXCEPT ![p] =
                   [state |-> "pending", segment |-> s, start |-> w.start, end |-> w.end]]
  /\ UNCHANGED <<elsewhere, req>>

ApproveRead(h, p) ==
  /\ IsIdle(h)
  /\ MayTouch(p)
  /\ PermitMove(permits[p].state, "approved")
  /\ Become(h, OnPermit("overlap", p))
  /\ standing' = [standing EXCEPT ![h] = Conflicts(permits[p].segment)]
  /\ UNCHANGED <<orders, incidents, now, permits>>

(* A check of Approve: go on, or return the conflict. *)
Check(h, s, free, next) ==
  /\ req[h].step = s
  /\ Become(h, IF free THEN OnPermit(next, req[h].permit) ELSE Idle)
  /\ standing' = [standing EXCEPT ![h] = IF free THEN @ ELSE {}]
  /\ UNCHANGED <<orders, incidents, now, permits>>

ApproveOverlap(h) == Check(h, "overlap", OverlappingOpen(req[h].permit) = {}, "orders")
ApproveOrders(h) == Check(h, "orders", PendingOrders(permits[req[h].permit].segment) = {}, "incidents")

ApproveIncidentsAfter(h) == Check(h, "incidents", TRUE, "approve")  \* Mutation: incidents are not asked about

ApproveIncidents(h) == Check(h, "incidents", OpenIncidents(permits[req[h].permit].segment) = {}, "approve")

(* The start of the other operations: Get, MustTransition. *)
Begin(h, p, target, s) ==
  /\ IsIdle(h)
  /\ MayTouch(p)
  /\ PermitMove(permits[p].state, target)
  /\ Become(h, OnPermit(s, p))
  /\ UNCHANGED <<elsewhere, permits>>

StartRead(h, p) == Begin(h, p, "in_progress", "start")
CompleteRead(h, p) == Begin(h, p, "completed", "complete")
CancelRead(h, p) == Begin(h, p, "cancelled", "cancel")

(* The Update that ends an operation. *)
Finish(h, s, state) ==
  /\ req[h].step = s
  /\ UpdatePermit(req[h].permit, state)
  /\ Become(h, Idle)
  /\ UNCHANGED elsewhere

ApproveWrite(h) == Finish(h, "approve", "approved")
StartWrite(h) == Finish(h, "start", "in_progress")
CompleteWrite(h) == Finish(h, "complete", "completed")

CancelWrite(h) == Finish(h, "cancel", "cancelled")

-----------------------------------------------------------------------------
LapsedEarly(p) == permits[p].state = "approved" /\ now >= permits[p].end  \* Mutation: ! now.Before(end)

Lapsed(p) == permits[p].state = "approved" /\ now > permits[p].end

(* ExpireScan: the clock and the list of permits are read once, ... *)
ScanRead(h) ==
  LET lapsed == {p \in Permits : Lapsed(p)} IN
  /\ IsIdle(h)
  /\ lapsed # {}
  /\ \A p \in lapsed : MayTouch(p)
  /\ Become(h, Scanning(lapsed))
  /\ UNCHANGED <<elsewhere, permits>>

(* ... and expireOne reads each of them again, in any order here. *)
ExpireRead(h, p) ==
  /\ req[h].step = "scan"
  /\ p \in req[h].todo
  /\ Become(h, IF PermitMove(permits[p].state, "expired") THEN Expiring(p, req[h].todo \ {p})
               ELSE Scanning(req[h].todo \ {p}))
  /\ UNCHANGED <<elsewhere, permits>>

ExpireWrite(h) ==
  /\ req[h].step = "expire"
  /\ UpdatePermit(req[h].permit, "expired")
  /\ Become(h, Scanning(req[h].todo))
  /\ UNCHANGED elsewhere

-----------------------------------------------------------------------------
(* The neighbours, one Put or Update at a time: orders (a flow order stands *)
(* for any), incidents, and the clock.  Their requests are not told apart: *)
(* any write that some overlap of requests can make may happen.            *)
OrderCreated(o, s) ==
  /\ PutOrder(o, "flow", None, s)
  /\ UNCHANGED <<incidents, permits, now, req, standing>>

(* The history of what an order or incident x in its new state has ended. *)
StandsOn(x, open) ==
  standing' = [h \in Handlers |-> IF open THEN standing[h] ELSE standing[h] \ {x}]

OrderMoved(o, st) ==
  /\ MayWriteOrder(o, st)
  /\ UpdateOrder(o, st)
  /\ StandsOn(o, IsOpenOrder(st))
  /\ UNCHANGED <<incidents, permits, now, req>>

IncidentReported(i, s) ==
  /\ PutIncident(i, s, {})
  /\ UNCHANGED <<orders, permits, now, req, standing>>

IncidentMoved(i, st) ==
  /\ MayWriteIncident(i, st)
  /\ UpdateIncident(i, st)
  /\ StandsOn(i, IsOpenIncident(st))
  /\ UNCHANGED <<orders, permits, now, req>>

Tick ==
  /\ now < MaxTime
  /\ now' = now + 1
  /\ UNCHANGED <<orders, incidents, permits, req, standing>>

-----------------------------------------------------------------------------
Call(h) ==
  \/ \E p \in Permits, s \in Segments, w \in Windows : Apply(h, p, s, w)
  \/ \E p \in Permits : ApproveRead(h, p)
  \/ \E p \in Permits : StartRead(h, p)
  \/ \E p \in Permits : CompleteRead(h, p)
  \/ \E p \in Permits : CancelRead(h, p)
  \/ ScanRead(h)

Continue(h) ==
  \/ ApproveOverlap(h)
  \/ ApproveOrders(h)
  \/ ApproveIncidents(h)
  \/ ApproveWrite(h)
  \/ StartWrite(h)
  \/ CompleteWrite(h)
  \/ CancelWrite(h)
  \/ \E p \in Permits : ExpireRead(h, p)
  \/ ExpireWrite(h)

Neighbours ==
  \/ \E o \in Orders, s \in Segments : OrderCreated(o, s)
  \/ \E o \in Orders, st \in OrderState : OrderMoved(o, st)
  \/ \E i \in Incidents, s \in Segments : IncidentReported(i, s)
  \/ \E i \in Incidents, st \in IncidentState : IncidentMoved(i, st)
  \/ Tick

Next ==
  \/ \E h \in Handlers : Call(h) \/ Continue(h)
  \/ Neighbours

Spec == Init /\ [][Next]_vars

-----------------------------------------------------------------------------
TypeOK ==
  /\ orders \in [Orders -> OrderRecord]
  /\ incidents \in [Incidents -> IncidentRecord]
  /\ permits \in [Permits -> PermitRecord]
  /\ now \in 0 .. MaxTime
  /\ req \in [Handlers -> Request]
  /\ standing \in [Handlers -> SUBSET (Orders \cup Incidents)]

Granted(p) == permits[p].state \in {"approved", "in_progress"}

(***************************************************************************)
(* No two works are permitted on a segment at overlapping times, although  *)
(* Approve's check and its Update are separate and two approvals can pass  *)
(* each other: an application that waits counts as a conflict already.     *)
(***************************************************************************)
NoOverlap ==
  \A p, q \in Orderly : p # q /\ Granted(p) /\ Granted(q) => ~Overlap(p, q)

(***************************************************************************)
(* "Verifying no conflicts" (permit/service.go:95), with three checks at   *)
(* three moments: an order or incident that has been open on the segment   *)
(* from before Approve was called until now, without a break, is noticed   *)
(* by one of them, whatever requests overlap.  One that comes up, or is    *)
(* opened again by a late Issue or Confirm, after its check is not.        *)
(***************************************************************************)
ConflictsHeeded ==
  \A h \in Handlers : req[h].step = "approve" => standing[h] = {}

(***************************************************************************)
(* Whatever the scan races with, a permit expires only once its window has *)
(* passed.                                                                 *)
(***************************************************************************)
ExpiredOnlyLapsed ==
  [][\A p \in Permits :
       permits[p].state # "expired" /\ permits'[p].state = "expired" => now > permits[p].end]_vars
=============================================================================
