---------------------------- MODULE PermitProofs ----------------------------
(***************************************************************************)
(* The theorems about module Permit, for any number of permits, orders,    *)
(* incidents and concurrent requests, and about module Topology, which     *)
(* says where the orders come from that the permit service asks about.     *)
(***************************************************************************)
EXTENDS Permit, Topology, TLAPS

(* A request works on a stored permit; a scan has listed lapsed ones only. *)
RequestOK(h) ==
  LET r == req[h] IN
  /\ r.step \in {"idle", "scan"} => r.permit = None
  /\ r.step \notin {"idle", "scan"} => r.permit \in Permits /\ permits[r.permit].state # "none"
  /\ \A p \in r.todo : permits[p].state # "none" /\ now > permits[p].end
  /\ r.step = "expire" => now > permits[r.permit].end

TypeInv ==
  /\ TypeOK
  /\ \A h \in Handlers : RequestOK(h)

-----------------------------------------------------------------------------
LEMMA BecomeOK ==
  ASSUME NEW h \in Handlers, NEW r \in Request, TypeOK, Become(h, r)
  PROVE  /\ req' \in [Handlers -> Request]
         /\ req'[h] = r
         /\ \A g \in Handlers \ {h} : req'[g] = req[g]
BY DEF TypeOK, Become

LEMMA Records ==
  /\ Idle \in Request
  /\ \A s \in Step, p \in Permits : OnPermit(s, p) \in Request
  /\ \A p \in Permits, rest \in SUBSET Permits : Expiring(p, rest) \in Request
  /\ \A rest \in SUBSET Permits : Scanning(rest) \in Request
BY DEF Request, Idle, OnPermit, Expiring, Scanning, Step

(* Conflicts are orders and incidents. *)
LEMMA ConflictsOK == \A s : Conflicts(s) \in SUBSET (Orders \cup Incidents)
BY DEF Conflicts, PendingOrders, OpenIncidents

LEMMA TypeInit == Init => TypeInv
<1> SUFFICES ASSUME Init PROVE TypeInv
  OBVIOUS
<1>1. orders \in [Orders -> OrderRecord]
  BY DEF Init, OrderInit, NoOrder, OrderRecord
<1>2. incidents \in [Incidents -> IncidentRecord]
  BY DEF Init, IncidentInit, NoIncident, IncidentRecord
<1>3. permits \in [Permits -> PermitRecord]
  BY DEF Init, NoPermit, PermitRecord
<1>4. now \in 0 .. MaxTime
  BY MaxTimeOK DEF Init
<1>5. req \in [Handlers -> Request]
  BY Records DEF Init
<1>6. ASSUME NEW h \in Handlers PROVE RequestOK(h)
  BY DEF Init, Idle, RequestOK
<1>7. standing \in [Handlers -> SUBSET (Orders \cup Incidents)]
  BY DEF Init
<1> QED BY <1>1, <1>2, <1>3, <1>4, <1>5, <1>6, <1>7 DEF TypeInv, TypeOK

(***************************************************************************)
(* What the actions of the neighbours, and of the permit service, do.      *)
(***************************************************************************)
LEMMA NeighboursType ==
  ASSUME TypeInv, Neighbours
  PROVE  /\ TypeInv'
         /\ permits' = permits
         /\ req' = req
<1> USE DEF TypeInv, TypeOK
<1>1. CASE \E o \in Orders, s \in Segments : OrderCreated(o, s)
  BY <1>1 DEF OrderCreated, PutOrder, OrderRecord, OrderState, OrderType, RequestOK
<1>2. CASE \E o \in Orders, st \in OrderState : OrderMoved(o, st)
  <2>1. PICK o \in Orders, st \in OrderState : OrderMoved(o, st)
    BY <1>2
  <2>2. orders' \in [Orders -> OrderRecord]
    BY <2>1 DEF OrderMoved, UpdateOrder, OrderRecord
  <2>3. standing' \in [Handlers -> SUBSET (Orders \cup Incidents)]
    BY <2>1 DEF OrderMoved, StandsOn
  <2> QED BY <2>1, <2>2, <2>3 DEF OrderMoved, RequestOK
<1>3. CASE \E i \in Incidents, s \in Segments : IncidentReported(i, s)
  <2>1. PICK i \in Incidents, s \in Segments : IncidentReported(i, s)
    BY <1>3
  <2>2. [NoIncident EXCEPT !.state = "pending", !.segment = s, !.alarms = {}] \in IncidentRecord
    BY SameSegments DEF IncidentRecord, IncidentState, NoIncident
  <2>3. incidents' \in [Incidents -> IncidentRecord]
    BY <2>1, <2>2 DEF IncidentReported, PutIncident
  <2> QED BY <2>1, <2>3 DEF IncidentReported, RequestOK
<1>4. CASE \E i \in Incidents, st \in IncidentState : IncidentMoved(i, st)
  <2>1. PICK i \in Incidents, st \in IncidentState : IncidentMoved(i, st)
    BY <1>4
  <2>2. incidents' \in [Incidents -> IncidentRecord]
    BY <2>1 DEF IncidentMoved, UpdateIncident, IncidentRecord
  <2>3. standing' \in [Handlers -> SUBSET (Orders \cup Incidents)]
    BY <2>1 DEF IncidentMoved, StandsOn
  <2> QED BY <2>1, <2>2, <2>3 DEF IncidentMoved, RequestOK
<1>5. CASE Tick
  <2>1. now' \in 0 .. MaxTime /\ now' = now + 1
    BY <1>5, MaxTimeOK DEF Tick
  <2>2. ASSUME NEW h \in Handlers PROVE RequestOK(h)'
    BY <1>5, <2>1, WindowsOK DEF Tick, RequestOK, PermitRecord, Request
  <2> QED BY <1>5, <2>1, <2>2 DEF Tick
<1> QED BY <1>1, <1>2, <1>3, <1>4, <1>5 DEF Neighbours

(* The stores stay as they are, the history keeps its type. *)
StoresStay ==
  /\ UNCHANGED <<orders, incidents, now, permits>>
  /\ standing' \in [Handlers -> SUBSET (Orders \cup Incidents)]

LEMMA ElsewhereStays == TypeInv /\ UNCHANGED <<elsewhere, permits>> => StoresStay
BY DEF TypeInv, TypeOK, StoresStay, elsewhere

(* A step of request h that only moves the request. *)
LEMMA RequestMoves ==
  ASSUME TypeInv, NEW h \in Handlers, NEW r \in Request, Become(h, r), StoresStay,
         r.step \in {"idle", "scan"} => r.permit = None,
         r.step \notin {"idle", "scan"} => r.permit \in Permits /\ permits[r.permit].state # "none",
         \A p \in r.todo : permits[p].state # "none" /\ now > permits[p].end,
         r.step = "expire" => now > permits[r.permit].end
  PROVE  TypeInv'
<1>1. req' \in [Handlers -> Request] /\ req'[h] = r /\ \A g \in Handlers \ {h} : req'[g] = req[g]
  BY BecomeOK DEF TypeInv
<1>2. TypeOK'
  BY <1>1 DEF TypeInv, TypeOK, StoresStay
<1>3. ASSUME NEW g \in Handlers PROVE RequestOK(g)'
  <2>1. CASE g = h
    BY <2>1, <1>1 DEF RequestOK, StoresStay
  <2>2. CASE g # h
    BY <2>2, <1>1 DEF RequestOK, StoresStay, TypeInv
  <2> QED BY <2>1, <2>2
<1> QED BY <1>2, <1>3 DEF TypeInv

(* A step of request h that ends with an Update of its permit. *)
LEMMA RequestUpdates ==
  ASSUME TypeInv, NEW h \in Handlers, NEW r \in Request, Become(h, r), UNCHANGED elsewhere,
         req[h].step \notin {"idle", "scan"}, NEW s \in PermitState, UpdatePermit(req[h].permit, s),
         r.step \in {"idle", "scan"}, r.permit = None, r.todo \subseteq req[h].todo
  PROVE  TypeInv'
<1>1. req' \in [Handlers -> Request] /\ req'[h] = r /\ \A g \in Handlers \ {h} : req'[g] = req[g]
  BY BecomeOK DEF TypeInv
<1>2. permits' \in [Permits -> PermitRecord]
      /\ \A p \in Permits : /\ permits'[p].end = permits[p].end
                            /\ permits[p].state # "none" => permits'[p].state # "none"
  <2>1. req[h].permit \in Permits
    BY DEF TypeInv, RequestOK
  <2>2. "none" \notin PermitState
    BY DEF PermitState
  <2> QED BY <2>1, <2>2 DEF TypeInv, TypeOK, UpdatePermit, PermitRecord
<1>3. TypeOK'
  BY <1>1, <1>2 DEF TypeInv, TypeOK, elsewhere
<1>4. ASSUME NEW g \in Handlers PROVE RequestOK(g)'
  <2>0. req[g] \in Request /\ req[h] \in Request /\ RequestOK(g) /\ RequestOK(h)
    BY DEF TypeInv, TypeOK
  <2>1. CASE g = h
    BY <2>0, <2>1, <1>1, <1>2 DEF RequestOK, elsewhere, Request
  <2>2. CASE g # h
    BY <2>0, <2>2, <1>1, <1>2 DEF RequestOK, elsewhere, Request
  <2> QED BY <2>1, <2>2
<1> QED BY <1>3, <1>4 DEF TypeInv

LEMMA CallType ==
  ASSUME TypeInv, NEW h \in Handlers, Call(h)
  PROVE  TypeInv'
<1> USE DEF Call
<1>1. ASSUME NEW p \in Permits, NEW s \in Segments, NEW w \in Windows, Apply(h, p, s, w)
      PROVE  TypeInv'
  <2>1. permits' \in [Permits -> PermitRecord]
        /\ permits[p].state = "none" /\ \A q \in Permits \ {p} : permits'[q] = permits[q]
        /\ permits'[p].state # "none"
    BY <1>1, WindowsOK DEF Apply, TypeInv, TypeOK, PermitRecord, PermitState
  <2>2. TypeOK'
    BY <1>1, <2>1 DEF Apply, TypeInv, TypeOK, elsewhere
  <2>3. ASSUME NEW g \in Handlers PROVE RequestOK(g)'
    <3>1. req[g] \in Request /\ RequestOK(g) /\ req' = req /\ now' = now
      BY <1>1 DEF TypeInv, TypeOK, Apply, elsewhere
    <3> QED BY <2>1, <3>1 DEF RequestOK, Request
  <2> QED BY <2>2, <2>3 DEF TypeInv
<1>2. ASSUME NEW p \in Permits, ApproveRead(h, p)
      PROVE  TypeInv'
  <2> DEFINE r == OnPermit("overlap", p)
  <2>1. r \in Request
    BY Records DEF Step
  <2>2. r.step = "overlap" /\ r.permit = p /\ r.todo = {}
    BY DEF OnPermit
  <2>3. permits[p].state # "none"
    BY <1>2 DEF ApproveRead, PermitMove, PermitState
  <2>4. Become(h, r) /\ StoresStay
    BY <1>2, ConflictsOK DEF ApproveRead, StoresStay, TypeInv, TypeOK
  <2> HIDE DEF r
  <2> QED BY <2>1, <2>2, <2>3, <2>4, RequestMoves
<1>3. ASSUME NEW p \in Permits, NEW s \in {"start", "complete", "cancel"}, NEW t, Begin(h, p, t, s)
      PROVE  TypeInv'
  <2>1. OnPermit(s, p) \in Request
    BY Records DEF Step
  <2>2. OnPermit(s, p).step = s /\ OnPermit(s, p).permit = p /\ OnPermit(s, p).todo = {}
    BY DEF OnPermit
  <2>3. permits[p].state # "none"
    BY <1>3 DEF Begin, PermitMove, PermitState
  <2>4. Become(h, OnPermit(s, p)) /\ StoresStay
    BY <1>3, ElsewhereStays DEF Begin
  <2> QED BY <2>1, <2>2, <2>3, <2>4, RequestMoves
<1>4. CASE ScanRead(h)
  <2> DEFINE lapsed == {p \in Permits : Lapsed(p)}
  <2>1. Scanning(lapsed) \in Request
    BY Records
  <2>2. Scanning(lapsed).step \in {"idle", "scan"} /\ Scanning(lapsed).permit = None
        /\ Scanning(lapsed).todo = lapsed
    BY DEF Scanning, Idle
  <2>3. \A p \in lapsed : permits[p].state # "none" /\ now > permits[p].end
    BY DEF Lapsed
  <2>4. Become(h, Scanning(lapsed)) /\ StoresStay
    BY <1>4, ElsewhereStays DEF ScanRead
  <2> HIDE DEF lapsed
  <2> QED BY <2>1, <2>2, <2>3, <2>4, RequestMoves
<1> QED BY <1>1, <1>2, <1>3, <1>4 DEF StartRead, CompleteRead, CancelRead

LEMMA ContinueType ==
  ASSUME TypeInv, NEW h \in Handlers, Continue(h)
  PROVE  TypeInv'
<1>0. req[h] \in Request /\ RequestOK(h)
  BY DEF TypeInv, TypeOK
<1>1. ASSUME NEW s \in Step \ {"idle", "scan"}, NEW free, NEW next \in {"orders", "incidents", "approve"},
             Check(h, s, free, next)
      PROVE  TypeInv'
  <2> DEFINE r == OnPermit(next, req[h].permit)
  <2>1. StoresStay
    BY <1>1 DEF Check, StoresStay, TypeInv, TypeOK
  <2>2. CASE Become(h, r)
    <3>1. req[h].permit \in Permits /\ permits[req[h].permit].state # "none"
      BY <1>0, <1>1 DEF Check, RequestOK
    <3>2. r \in Request
      BY <3>1, Records DEF Step
    <3>3. r.step = next /\ r.permit = req[h].permit /\ r.todo = {}
      BY DEF OnPermit
    <3> HIDE DEF r
    <3> QED BY <2>1, <2>2, <3>1, <3>2, <3>3, RequestMoves
  <2>3. CASE Become(h, Idle)
    <3>1. Idle \in Request /\ Idle.step = "idle" /\ Idle.permit = None /\ Idle.todo = {}
      BY Records DEF Idle
    <3> QED BY <2>1, <2>3, <3>1, RequestMoves
  <2> QED BY <1>1, <2>2, <2>3 DEF Check
<1>2. ASSUME NEW s \in Step \ {"idle", "scan"}, NEW t \in PermitState, Finish(h, s, t)
      PROVE  TypeInv'
  <2>1. Idle \in Request /\ Idle.step = "idle" /\ Idle.permit = None /\ Idle.todo = {}
    BY Records DEF Idle
  <2> QED BY <1>2, <2>1, RequestUpdates DEF Finish
<1>3. ASSUME NEW p \in Permits, ExpireRead(h, p)
      PROVE  TypeInv'
  <2> DEFINE rest == req[h].todo \ {p}
  <2>1. rest \subseteq Permits /\ \A q \in rest : permits[q].state # "none" /\ now > permits[q].end
    BY <1>0 DEF Request, RequestOK
  <2>2. permits[p].state # "none" /\ now > permits[p].end
    BY <1>0, <1>3 DEF RequestOK, ExpireRead
  <2>3. StoresStay
    BY <1>3, ElsewhereStays DEF ExpireRead
  <2>4. CASE Become(h, Expiring(p, rest))
    <3>1. Expiring(p, rest) \in Request
      BY <2>1, Records
    <3>2. Expiring(p, rest).step = "expire" /\ Expiring(p, rest).permit = p /\ Expiring(p, rest).todo = rest
      BY DEF Expiring
    <3> HIDE DEF rest
    <3> QED BY <2>1, <2>2, <2>3, <2>4, <3>1, <3>2, RequestMoves
  <2>5. CASE Become(h, Scanning(rest))
    <3>1. Scanning(rest) \in Request
      BY <2>1, Records
    <3>2. Scanning(rest).step \in {"idle", "scan"} /\ Scanning(rest).permit = None /\ Scanning(rest).todo = rest
      BY DEF Scanning, Idle
    <3> HIDE DEF rest
    <3> QED BY <2>1, <2>3, <2>5, <3>1, <3>2, RequestMoves
  <2> QED BY <1>3, <2>4, <2>5 DEF ExpireRead
<1>4. CASE ExpireWrite(h)
  <2>1. Scanning(req[h].todo) \in Request
    BY <1>0, Records DEF Request
  <2>2. Scanning(req[h].todo).step \in {"idle", "scan"} /\ Scanning(req[h].todo).permit = None
        /\ Scanning(req[h].todo).todo = req[h].todo
    BY DEF Scanning, Idle
  <2>3. req[h].step \notin {"idle", "scan"} /\ "expired" \in PermitState
    BY <1>4 DEF ExpireWrite, PermitState
  <2> QED BY <1>4, <2>1, <2>2, <2>3, RequestUpdates DEF ExpireWrite
<1>5. {"approved", "in_progress", "completed", "cancelled"} \subseteq PermitState
  BY DEF PermitState
<1>6. {"overlap", "orders", "incidents", "approve", "start", "complete", "cancel"} \subseteq Step \ {"idle", "scan"}
  BY DEF Step
<1>7. CASE ApproveOverlap(h) \/ ApproveOrders(h) \/ ApproveIncidents(h)
  BY <1>1, <1>6, <1>7 DEF ApproveOverlap, ApproveOrders, ApproveIncidents
<1>8. CASE ApproveWrite(h) \/ StartWrite(h) \/ CompleteWrite(h) \/ CancelWrite(h)
  BY <1>2, <1>5, <1>6, <1>8 DEF ApproveWrite, StartWrite, CompleteWrite, CancelWrite
<1> QED BY <1>3, <1>4, <1>7, <1>8 DEF Continue

LEMMA TypeNext == TypeInv /\ [Next]_vars => TypeInv'
<1> SUFFICES ASSUME TypeInv, [Next]_vars PROVE TypeInv'
  OBVIOUS
<1>1. CASE Next
  BY <1>1, CallType, ContinueType, NeighboursType DEF Next
<1>2. CASE UNCHANGED vars
  BY <1>2 DEF vars, TypeInv, TypeOK, RequestOK
<1> QED BY <1>1, <1>2

(***************************************************************************)
(* Permits, orders, incidents and requests keep their types, under any     *)
(* interleaving.                                                           *)
(***************************************************************************)
THEOREM Typing == Spec => []TypeOK
<1>1. Init => TypeInv
  BY TypeInit
<1>2. TypeInv /\ [Next]_vars => TypeInv'
  BY TypeNext
<1>3. TypeInv => TypeOK
  BY DEF TypeInv
<1> QED BY <1>1, <1>2, <1>3, PTL DEF Spec

LEMMA TypeAlways == Spec => []TypeInv
<1>1. Init => TypeInv
  BY TypeInit
<1>2. TypeInv /\ [Next]_vars => TypeInv'
  BY TypeNext
<1> QED BY <1>1, <1>2, PTL DEF Spec

-----------------------------------------------------------------------------
(***************************************************************************)
(* NoOverlap.  A permit is cleared from the moment it has passed the check *)
(* of the windows, and no two cleared permits overlap: the one that was    *)
(* checked last found the other open, as application or as permit.  This   *)
(* needs that the permit being approved is still an application (StateOK), *)
(* which is why one request at a time works on an orderly permit (Alone).  *)
(***************************************************************************)
Alone == \A g, h \in Handlers : \A p \in Orderly : Uses(g, p) /\ Uses(h, p) => g = h

StateOK(h) ==
  LET r == req[h] IN
  r.permit \in Orderly =>
    /\ r.step \in {"overlap", "orders", "incidents", "approve"} => permits[r.permit].state = "pending"
    /\ r.step = "start" => permits[r.permit].state = "approved"

Checked(p) ==
  \E h \in Handlers : req[h].permit = p /\ req[h].step \in {"orders", "incidents", "approve"}

Cleared(p) == Granted(p) \/ Checked(p)

NoClash == \A p, q \in Orderly : p # q /\ Cleared(p) /\ Cleared(q) => ~Overlap(p, q)

OverlapInv ==
  /\ Alone
  /\ \A h \in Handlers : StateOK(h)
  /\ NoClash

LEMMA OverlapInit == Init => OverlapInv
<1> SUFFICES ASSUME Init PROVE OverlapInv
  OBVIOUS
<1>1. \A h \in Handlers : req[h] = Idle
  BY DEF Init
<1>2. Alone
  BY <1>1, OrderlyOK, NoPermitOK DEF Alone, Uses, Idle
<1>3. \A h \in Handlers : StateOK(h)
  BY <1>1 DEF StateOK, Idle
<1>4. \A p \in Orderly : ~Cleared(p)
  BY <1>1, OrderlyOK DEF Cleared, Granted, Checked, Idle, Init, NoPermit
<1>5. NoClash
  BY <1>4 DEF NoClash
<1> QED BY <1>2, <1>3, <1>5 DEF OverlapInv

LEMMA ClashKept ==
  ASSUME NoClash,
         \A p \in Orderly : Cleared(p)' => Cleared(p) /\ permits'[p].segment = permits[p].segment
                              /\ permits'[p].start = permits[p].start /\ permits'[p].end = permits[p].end
  PROVE  NoClash'
<1> SUFFICES ASSUME NEW p \in Orderly, NEW q \in Orderly, p # q, Cleared(p)', Cleared(q)'
             PROVE  ~Overlap(p, q)'
  BY DEF NoClash
<1> QED BY DEF NoClash, Overlap

LEMMA AloneKept ==
  ASSUME TypeInv, Alone, NEW h \in Handlers, NEW r \in Request, Become(h, r),
         \A p \in Orderly : (p = r.permit \/ p \in r.todo) =>
            (Uses(h, p) \/ \A g \in Handlers : ~Uses(g, p))
  PROVE  Alone'
<1>1. req'[h] = r /\ \A g \in Handlers \ {h} : req'[g] = req[g]
  BY BecomeOK DEF TypeInv
<1>2. ASSUME NEW g \in Handlers \ {h}, NEW p \in Orderly, Uses(g, p)', Uses(h, p)' PROVE FALSE
  <2>1. Uses(g, p)
    BY <1>1, <1>2 DEF Uses
  <2>2. Uses(h, p)
    BY <1>1, <1>2, <2>1 DEF Uses
  <2> QED BY <2>1, <2>2, <1>2 DEF Alone
<1>3. ASSUME NEW g \in Handlers \ {h}, NEW f \in Handlers \ {h}, NEW p \in Orderly, Uses(g, p)', Uses(f, p)'
      PROVE  g = f
  BY <1>1, <1>3 DEF Uses, Alone
<1> QED BY <1>2, <1>3 DEF Alone

(* A step of request h that only moves the request. *)
LEMMA OverlapMoves ==
  ASSUME TypeInv, OverlapInv, NEW h \in Handlers, NEW r \in Request, Become(h, r), permits' = permits,
         \A p \in Orderly : (p = r.permit \/ p \in r.todo) =>
            (Uses(h, p) \/ \A g \in Handlers : ~Uses(g, p)),
         r.permit \in Orderly =>
           /\ r.step \in {"overlap", "orders", "incidents", "approve"} => permits[r.permit].state = "pending"
           /\ r.step = "start" => permits[r.permit].state = "approved"
  PROVE  /\ Alone'
         /\ \A g \in Handlers : StateOK(g)'
         /\ (r.step \in {"orders", "incidents", "approve"} /\ r.permit \in Orderly => Cleared(r.permit))
            => NoClash'
<1>1. req'[h] = r /\ \A g \in Handlers \ {h} : req'[g] = req[g]
  BY BecomeOK DEF TypeInv
<1>2. Alone'
  BY AloneKept DEF OverlapInv
<1>3. ASSUME NEW g \in Handlers PROVE StateOK(g)'
  BY <1>1 DEF OverlapInv, StateOK
<1>4. ASSUME r.step \in {"orders", "incidents", "approve"} /\ r.permit \in Orderly => Cleared(r.permit)
      PROVE  NoClash'
  <2>1. ASSUME NEW p \in Orderly, Cleared(p)' PROVE Cleared(p)
    BY <1>1, <1>4, <2>1 DEF Cleared, Checked, Granted
  <2> QED BY <2>1, ClashKept DEF OverlapInv
<1> QED BY <1>2, <1>3, <1>4

(* A step of request h that ends with an Update of its permit. *)
LEMMA OverlapUpdates ==
  ASSUME TypeInv, OverlapInv, NEW h \in Handlers, NEW r \in Request, Become(h, r),
         req[h].permit \in Permits, NEW s \in PermitState, UpdatePermit(req[h].permit, s),
         r.step \in {"idle", "scan"}, r.permit = None, r.todo \subseteq req[h].todo,
         s \in {"approved", "in_progress"} /\ req[h].permit \in Orderly => Cleared(req[h].permit)
  PROVE  OverlapInv'
<1>1. req'[h] = r /\ \A g \in Handlers \ {h} : req'[g] = req[g]
  BY BecomeOK DEF TypeInv
<1> DEFINE k == req[h].permit
<1>2. /\ permits'[k].state = s
      /\ \A p \in Permits : /\ permits'[p].segment = permits[p].segment
                            /\ permits'[p].start = permits[p].start
                            /\ permits'[p].end = permits[p].end
      /\ \A p \in Permits \ {k} : permits'[p] = permits[p]
  BY DEF UpdatePermit, TypeInv, TypeOK, PermitRecord
<1>3. Alone'
  <2>1. \A p \in Orderly : (p = r.permit \/ p \in r.todo) => Uses(h, p)
    BY OrderlyOK, NoPermitOK DEF Uses
  <2> QED BY <2>1, AloneKept DEF OverlapInv
<1>4. ASSUME NEW g \in Handlers PROVE StateOK(g)'
  <2>1. CASE g = h
    BY <1>1, <2>1 DEF StateOK
  <2>2. CASE g # h
    <3>1. req'[g] = req[g] /\ StateOK(g)
      BY <1>1, <2>2 DEF OverlapInv
    <3>2. ASSUME req[g].permit \in Orderly PROVE req[g].permit \in Permits \ {k}
      BY <2>2, <3>2, OrderlyOK DEF OverlapInv, Alone, Uses
    <3> QED BY <1>2, <3>1, <3>2 DEF StateOK
  <2> QED BY <2>1, <2>2
<1>5. ASSUME NEW p \in Orderly, Cleared(p)' PROVE Cleared(p)
  <2>1. Granted(p)' \/ Checked(p)'
    BY <1>5 DEF Cleared
  <2>2. Checked(p)' => Checked(p)
    BY <1>1 DEF Checked
  <2>3. Granted(p)' => Cleared(p)
    BY <1>2, OrderlyOK DEF Granted, Cleared
  <2> QED BY <2>1, <2>2, <2>3 DEF Cleared
<1>6. NoClash'
  BY <1>2, <1>5, ClashKept, OrderlyOK DEF OverlapInv
<1> QED BY <1>3, <1>4, <1>6 DEF OverlapInv

LEMMA OverlapCall ==
  ASSUME TypeInv, OverlapInv, NEW h \in Handlers, Call(h)
  PROVE  OverlapInv'
<1>1. ASSUME NEW p \in Permits, NEW s \in Segments, NEW w \in Windows, Apply(h, p, s, w)
      PROVE  OverlapInv'
  <2>1. /\ req' = req
        /\ permits'[p].state = "pending" /\ permits[p].state = "none"
        /\ \A q \in Permits \ {p} : permits'[q] = permits[q]
    BY <1>1 DEF Apply, TypeInv, TypeOK
  <2>2. \A g \in Handlers : req[g].permit # p
    BY <2>1, NoPermitOK DEF TypeInv, RequestOK
  <2>3. Alone' /\ \A g \in Handlers : StateOK(g)'
    BY <2>1, <2>2, OrderlyOK DEF OverlapInv, Alone, Uses, StateOK
  <2>4. ASSUME NEW q \in Orderly, Cleared(q)' PROVE Cleared(q) /\ permits'[q] = permits[q]
    <3>1. q # p
      BY <2>1, <2>2, <2>4 DEF Cleared, Granted, Checked
    <3> QED BY <2>1, <2>4, <3>1, OrderlyOK DEF Cleared, Granted, Checked
  <2>5. NoClash'
    BY <2>4, ClashKept DEF OverlapInv
  <2> QED BY <2>3, <2>5 DEF OverlapInv
<1>2. ASSUME NEW p \in Permits, ApproveRead(h, p)
      PROVE  OverlapInv'
  <2> DEFINE r == OnPermit("overlap", p)
  <2>1. r \in Request
    BY Records DEF Step
  <2>2. r.step = "overlap" /\ r.permit = p /\ r.todo = {}
    BY DEF OnPermit
  <2>3. permits[p].state = "pending" /\ Become(h, r) /\ permits' = permits
        /\ (p \in Orderly => \A g \in Handlers : ~Uses(g, p))
    BY <1>2 DEF ApproveRead, PermitMove, PermitTransitions, PermitState, MayTouch
  <2> HIDE DEF r
  <2> QED BY <2>1, <2>2, <2>3, OverlapMoves DEF OverlapInv
<1>3. ASSUME NEW p \in Permits, NEW t, NEW s \in {"start", "complete", "cancel"}, Begin(h, p, t, s),
             s = "start" => t = "in_progress"
      PROVE  OverlapInv'
  <2>1. OnPermit(s, p) \in Request
    BY Records DEF Step
  <2>2. OnPermit(s, p).step = s /\ OnPermit(s, p).permit = p /\ OnPermit(s, p).todo = {}
    BY DEF OnPermit
  <2>3. Become(h, OnPermit(s, p)) /\ permits' = permits
        /\ (p \in Orderly => \A g \in Handlers : ~Uses(g, p))
    BY <1>3 DEF Begin, MayTouch
  <2>4. s = "start" => permits[p].state = "approved"
    BY <1>3 DEF Begin, PermitMove, PermitTransitions, PermitState
  <2> QED BY <2>1, <2>2, <2>3, <2>4, OverlapMoves DEF OverlapInv
<1>4. CASE ScanRead(h)
  <2> DEFINE lapsed == {p \in Permits : Lapsed(p)}
  <2>1. Scanning(lapsed) \in Request
    BY Records
  <2>2. Scanning(lapsed).step \in {"idle", "scan"} /\ Scanning(lapsed).permit = None
        /\ Scanning(lapsed).todo = lapsed
    BY DEF Scanning, Idle
  <2>3. Become(h, Scanning(lapsed)) /\ permits' = permits
        /\ \A p \in lapsed : p \in Orderly => \A g \in Handlers : ~Uses(g, p)
    BY <1>4 DEF ScanRead, MayTouch
  <2> HIDE DEF lapsed
  <2> QED BY <2>1, <2>2, <2>3, OverlapMoves, OrderlyOK, NoPermitOK DEF OverlapInv
<1> QED BY <1>1, <1>2, <1>3, <1>4 DEF Call, StartRead, CompleteRead, CancelRead

(* A cleared permit is open. *)
LEMMA ClearedOpen ==
  ASSUME OverlapInv, NEW p \in Orderly, Cleared(p)
  PROVE  IsOpen(p)
BY DEF OverlapInv, StateOK, Cleared, Checked, Granted, IsOpen

(* A permit that has just passed the check of the windows is cleared. *)
LEMMA OverlapPassed ==
  ASSUME TypeInv, OverlapInv, NEW h \in Handlers, req[h].step = "overlap",
         OverlappingOpen(req[h].permit) = {},
         Become(h, OnPermit("orders", req[h].permit)), permits' = permits
  PROVE  OverlapInv'
<1> DEFINE k == req[h].permit
           r == OnPermit("orders", k)
<1>0. req[h] \in Request /\ k \in Permits
  BY DEF TypeInv, TypeOK, RequestOK
<1>1. r \in Request /\ r.step = "orders" /\ r.permit = k /\ r.todo = {}
  BY <1>0, Records DEF Request, Step, OnPermit
<1>2. \A p \in Orderly : (p = r.permit \/ p \in r.todo) => Uses(h, p)
  BY <1>1 DEF Uses
<1>3. k \in Orderly => permits[k].state = "pending"
  BY DEF OverlapInv, StateOK
<1>4. req'[h] = r /\ \A g \in Handlers \ {h} : req'[g] = req[g]
  BY <1>1, BecomeOK DEF TypeInv
<1>5. Alone' /\ \A g \in Handlers : StateOK(g)'
  <2> HIDE DEF r
  <2>1. Become(h, r)
    BY DEF r
  <2> QED BY <1>1, <1>2, <1>3, <2>1, OverlapMoves
<1>6. ASSUME NEW p \in Orderly, Cleared(p)', p # k PROVE Cleared(p)
  BY <1>1, <1>4, <1>6 DEF Cleared, Checked, Granted
<1>7. ASSUME NEW p \in Orderly, Cleared(p), p # k PROVE ~Overlap(p, k)
  BY <1>7, ClearedOpen, OrderlyOK DEF OverlappingOpen
<1>8. ASSUME NEW p \in Orderly, Cleared(p), p # k PROVE ~Overlap(k, p)
  <2>1. permits[p] \in PermitRecord /\ permits[k] \in PermitRecord
    BY <1>0, OrderlyOK DEF TypeInv, TypeOK
  <2> QED BY <1>7, <1>8, <2>1 DEF Overlap, PermitRecord
<1>9. NoClash'
  <2> SUFFICES ASSUME NEW p \in Orderly, NEW q \in Orderly, p # q, Cleared(p)', Cleared(q)'
               PROVE  ~Overlap(p, q)'
    BY DEF NoClash
  <2>1. ~Overlap(p, q)
    BY <1>6, <1>7, <1>8 DEF OverlapInv, NoClash
  <2> QED BY <2>1 DEF Overlap
<1> QED BY <1>5, <1>9 DEF OverlapInv

LEMMA OverlapContinue ==
  ASSUME TypeInv, OverlapInv, NEW h \in Handlers, Continue(h)
  PROVE  OverlapInv'
<1> DEFINE k == req[h].permit
<1>0. req[h] \in Request /\ RequestOK(h) /\ StateOK(h)
  BY DEF TypeInv, TypeOK, OverlapInv
<1>idle. Idle \in Request /\ Idle.step = "idle" /\ Idle.permit = None /\ Idle.todo = {}
  BY Records DEF Idle
<1>1. ASSUME Become(h, Idle), permits' = permits
      PROVE  OverlapInv'
  BY <1>1, <1>idle, OverlapMoves, OrderlyOK, NoPermitOK DEF OverlapInv
<1>2. ASSUME NEW s \in {"orders", "incidents"}, NEW next \in {"incidents", "approve"}, req[h].step = s,
             Become(h, OnPermit(next, k)), permits' = permits
      PROVE  OverlapInv'
  <2> DEFINE r == OnPermit(next, k)
  <2>1. r \in Request /\ r.step = next /\ r.permit = k /\ r.todo = {}
    BY <1>0, <1>2, Records DEF RequestOK, Request, Step, OnPermit
  <2>2. Cleared(k)
    BY <1>2 DEF Cleared, Checked
  <2>3. k \in Orderly => permits[k].state = "pending"
    BY <1>0, <1>2 DEF StateOK
  <2>4. \A p \in Orderly : (p = r.permit \/ p \in r.todo) => Uses(h, p)
    BY <2>1 DEF Uses
  <2>5. Become(h, r) /\ permits' = permits
    BY <1>2
  <2> HIDE DEF r
  <2> QED BY <2>1, <2>2, <2>3, <2>4, <2>5, OverlapMoves DEF OverlapInv
<1>3. CASE ApproveOverlap(h)
  BY <1>1, <1>3, OverlapPassed DEF ApproveOverlap, Check
<1>4. CASE ApproveOrders(h) \/ ApproveIncidents(h)
  BY <1>1, <1>2, <1>4 DEF ApproveOrders, ApproveIncidents, Check
<1>5. ASSUME NEW s \in Step \ {"idle", "scan"}, NEW t \in PermitState, Finish(h, s, t),
             t \in {"approved", "in_progress"} /\ k \in Orderly => Cleared(k)
      PROVE  OverlapInv'
  BY <1>0, <1>5, <1>idle, OverlapUpdates DEF Finish, RequestOK
<1>6. CASE ApproveWrite(h)
  <2>1. Cleared(k)
    BY <1>6 DEF ApproveWrite, Finish, Cleared, Checked
  <2> QED BY <1>5, <1>6, <2>1 DEF ApproveWrite, PermitState, Step
<1>7. CASE StartWrite(h)
  <2>1. k \in Orderly => Cleared(k)
    BY <1>0, <1>7 DEF StartWrite, Finish, StateOK, Cleared, Granted
  <2> QED BY <1>5, <1>7, <2>1 DEF StartWrite, PermitState, Step
<1>8. CASE CompleteWrite(h) \/ CancelWrite(h)
  BY <1>5, <1>8 DEF CompleteWrite, CancelWrite, PermitState, Step
<1>9. ASSUME NEW p \in Permits, ExpireRead(h, p)
      PROVE  OverlapInv'
  <2> DEFINE rest == req[h].todo \ {p}
  <2>1. rest \subseteq Permits /\ p \in req[h].todo
    BY <1>0, <1>9 DEF Request, ExpireRead
  <2>2. permits' = permits
    BY <1>9 DEF ExpireRead
  <2>3. CASE Become(h, Expiring(p, rest))
    <3>1. Expiring(p, rest) \in Request
      BY <2>1, Records
    <3>2. Expiring(p, rest).step = "expire" /\ Expiring(p, rest).permit = p /\ Expiring(p, rest).todo = rest
      BY DEF Expiring
    <3>3. \A q \in Orderly : (q = p \/ q \in rest) => Uses(h, q)
      BY <2>1 DEF Uses
    <3> HIDE DEF rest
    <3> QED BY <2>2, <2>3, <3>1, <3>2, <3>3, OverlapMoves DEF OverlapInv
  <2>4. CASE Become(h, Scanning(rest))
    <3>1. Scanning(rest) \in Request
      BY <2>1, Records
    <3>2. Scanning(rest).step \in {"idle", "scan"} /\ Scanning(rest).permit = None /\ Scanning(rest).todo = rest
      BY DEF Scanning, Idle
    <3>3. \A q \in Orderly : q \in rest => Uses(h, q)
      BY DEF Uses
    <3> HIDE DEF rest
    <3> QED BY <2>2, <2>4, <3>1, <3>2, <3>3, OverlapMoves, OrderlyOK, NoPermitOK DEF OverlapInv
  <2> QED BY <1>9, <2>3, <2>4 DEF ExpireRead
<1>10. CASE ExpireWrite(h)
  <2> DEFINE r == Scanning(req[h].todo)
  <2>1. r \in Request /\ r.step \in {"idle", "scan"} /\ r.permit = None /\ r.todo = req[h].todo
    BY <1>0, Records DEF Request, Scanning, Idle
  <2>2. k \in Permits /\ "expired" \in PermitState /\ Become(h, r) /\ UpdatePermit(k, "expired")
    BY <1>0, <1>10 DEF ExpireWrite, RequestOK, PermitState
  <2> HIDE DEF r
  <2> QED BY <2>1, <2>2, OverlapUpdates
<1> QED BY <1>3, <1>4, <1>6, <1>7, <1>8, <1>9, <1>10 DEF Continue

LEMMA OverlapNext == TypeInv /\ OverlapInv /\ [Next]_vars => OverlapInv'
<1> SUFFICES ASSUME TypeInv, OverlapInv, [Next]_vars PROVE OverlapInv'
  OBVIOUS
<1>1. CASE \E h \in Handlers : Call(h) \/ Continue(h)
  BY <1>1, OverlapCall, OverlapContinue
<1>2. ASSUME permits' = permits, req' = req PROVE OverlapInv'
  <2>1. \A p : Cleared(p)' => Cleared(p)
    BY <1>2 DEF Cleared, Checked, Granted
  <2>2. NoClash'
    BY <1>2, <2>1, ClashKept DEF OverlapInv
  <2> QED BY <1>2, <2>2 DEF OverlapInv, Alone, Uses, StateOK
<1>3. CASE Neighbours
  BY <1>2, <1>3, NeighboursType
<1>4. CASE UNCHANGED vars
  BY <1>2, <1>4 DEF vars
<1> QED BY <1>1, <1>3, <1>4 DEF Next

(***************************************************************************)
(* No two works are permitted on a segment at overlapping times, however   *)
(* the approvals interleave.                                               *)
(***************************************************************************)
THEOREM OverlapFree == Spec => []NoOverlap
<1>1. OverlapInv => NoOverlap
  BY DEF OverlapInv, NoClash, NoOverlap, Cleared
<1> QED BY <1>1, OverlapInit, OverlapNext, TypeAlways, PTL DEF Spec

-----------------------------------------------------------------------------
(***************************************************************************)
(* ExpiredOnlyLapsed: only ExpireWrite makes a permit expire, and what a   *)
(* scan has listed had lapsed, the clock only moves on.                    *)
(***************************************************************************)
LEMMA ExpiresLapsedNext ==
  ASSUME TypeInv, [Next]_vars, NEW p \in Permits,
         permits[p].state # "expired", permits'[p].state = "expired"
  PROVE  now > permits[p].end
<1>0. ASSUME NEW h \in Handlers, NEW s, NEW t, t # "expired", Finish(h, s, t) PROVE FALSE
  BY <1>0 DEF Finish, UpdatePermit, TypeInv, TypeOK, PermitRecord
<1>1. ASSUME NEW h \in Handlers, Call(h) PROVE FALSE
  <2>1. ASSUME NEW q \in Permits, NEW s \in Segments, NEW w \in Windows, Apply(h, q, s, w) PROVE FALSE
    BY <2>1 DEF Apply, TypeInv, TypeOK
  <2>2. CASE permits' = permits
    BY <2>2
  <2> QED BY <1>1, <2>1, <2>2
        DEF Call, ApproveRead, StartRead, CompleteRead, CancelRead, Begin, ScanRead
<1>2. ASSUME NEW h \in Handlers, Continue(h) PROVE now > permits[p].end
  <2>1. CASE permits' = permits
    BY <2>1
  <2>2. CASE ApproveWrite(h) \/ StartWrite(h) \/ CompleteWrite(h) \/ CancelWrite(h)
    BY <1>0, <2>2 DEF ApproveWrite, StartWrite, CompleteWrite, CancelWrite
  <2>3. CASE ExpireWrite(h)
    <3>1. p = req[h].permit
      BY <2>3 DEF ExpireWrite, UpdatePermit, TypeInv, TypeOK
    <3> QED BY <2>3, <3>1 DEF ExpireWrite, TypeInv, RequestOK
  <2> QED BY <1>2, <2>1, <2>2, <2>3
        DEF Continue, ApproveOverlap, ApproveOrders, ApproveIncidents, Check, ExpireRead
<1>3. CASE Neighbours
  BY <1>3, NeighboursType
<1>4. CASE UNCHANGED vars
  BY <1>4 DEF vars
<1> QED BY <1>1, <1>2, <1>3, <1>4 DEF Next

(***************************************************************************)
(* A permit expires only once its window has passed.                       *)
(***************************************************************************)
THEOREM ExpiresLapsed == Spec => ExpiredOnlyLapsed
<1>1. TypeInv /\ [Next]_vars =>
        [\A p \in Permits :
           permits[p].state # "expired" /\ permits'[p].state = "expired" => now > permits[p].end]_vars
  BY ExpiresLapsedNext
<1> QED BY <1>1, TypeAlways, PTL DEF Spec, ExpiredOnlyLapsed

-----------------------------------------------------------------------------
(***************************************************************************)
(* ConflictsHeeded.  What still stands is open now, so a check that finds  *)
(* nothing open leaves nothing standing, and nothing comes to stand again: *)
(* the checks take the orders out of the history, then the incidents.  The *)
(* tables need not be kept for this.                                       *)
(***************************************************************************)
Asking == {"overlap", "orders", "incidents", "approve"}

StandingOK(h) ==
  LET r == req[h] IN
  r.step \in Asking =>
    /\ standing[h] \subseteq Conflicts(permits[r.permit].segment)
    /\ r.step \in {"incidents", "approve"} => standing[h] \cap Orders = {}
    /\ r.step = "approve" => standing[h] = {}

StandingInv == \A h \in Handlers : StandingOK(h)

(* What a step that is not of request h does to its history. *)
StandsStill(h) ==
  /\ standing'[h] \subseteq standing[h]
  /\ \A s : \A c \in standing'[h] : c \in Conflicts(s) => c \in Conflicts(s)'

LEMMA NeighboursStanding ==
  ASSUME TypeInv, Neighbours, NEW h \in Handlers
  PROVE  StandsStill(h)
<1> USE DEF Conflicts, PendingOrders, OpenIncidents
<1>1. ASSUME NEW o \in Orders, NEW s \in Segments, OrderCreated(o, s) PROVE StandsStill(h)
  <2>1. /\ \A c \in Orders : orders[c].state # "none" => orders'[c] = orders[c]
        /\ incidents' = incidents /\ standing' = standing
    BY <1>1 DEF OrderCreated, PutOrder, TypeInv, TypeOK
  <2>2. \A c \in Orders : IsOpenOrder(orders[c].state) => orders'[c] = orders[c]
    BY <2>1 DEF IsOpenOrder
  <2> QED BY <2>1, <2>2 DEF StandsStill
<1>2. ASSUME NEW o \in Orders, NEW st \in OrderState, OrderMoved(o, st) PROVE StandsStill(h)
  <2>1. /\ \A c \in Orders \ {o} : orders'[c] = orders[c]
        /\ orders'[o].state = st /\ orders'[o].segment = orders[o].segment
        /\ incidents' = incidents
    BY <1>2 DEF OrderMoved, UpdateOrder, TypeInv, TypeOK, OrderRecord
  <2>2. standing'[h] = IF IsOpenOrder(st) THEN standing[h] ELSE standing[h] \ {o}
    BY <1>2 DEF OrderMoved, StandsOn
  <2>3. CASE IsOpenOrder(st)
    BY <2>1, <2>2, <2>3 DEF StandsStill
  <2>4. CASE ~IsOpenOrder(st)
    BY <2>1, <2>2, <2>4 DEF StandsStill
  <2> QED BY <2>3, <2>4
<1>3. ASSUME NEW i \in Incidents, NEW s \in Segments, IncidentReported(i, s) PROVE StandsStill(h)
  <2>1. /\ \A c \in Incidents : incidents[c].state # "none" => incidents'[c] = incidents[c]
        /\ orders' = orders /\ standing' = standing
    BY <1>3 DEF IncidentReported, PutIncident, TypeInv, TypeOK
  <2>2. \A c \in Incidents : IsOpenIncident(incidents[c].state) => incidents'[c] = incidents[c]
    BY <2>1 DEF IsOpenIncident
  <2> QED BY <2>1, <2>2 DEF StandsStill
<1>4. ASSUME NEW i \in Incidents, NEW st \in IncidentState, IncidentMoved(i, st) PROVE StandsStill(h)
  <2>1. /\ \A c \in Incidents \ {i} : incidents'[c] = incidents[c]
        /\ incidents'[i].state = st /\ incidents'[i].segment = incidents[i].segment
        /\ orders' = orders
    BY <1>4 DEF IncidentMoved, UpdateIncident, TypeInv, TypeOK, IncidentRecord
  <2>2. standing'[h] = IF IsOpenIncident(st) THEN standing[h] ELSE standing[h] \ {i}
    BY <1>4 DEF IncidentMoved, StandsOn
  <2>3. CASE IsOpenIncident(st)
    BY <2>1, <2>2, <2>3 DEF StandsStill
  <2>4. CASE ~IsOpenIncident(st)
    BY <2>1, <2>2, <2>4 DEF StandsStill
  <2> QED BY <2>3, <2>4
<1>5. CASE Tick
  BY <1>5 DEF Tick, StandsStill
<1> QED BY <1>1, <1>2, <1>3, <1>4, <1>5 DEF Neighbours

(* A stored permit does not change its segment. *)
LEMMA SegmentFixed ==
  ASSUME TypeInv, NEW h \in Handlers, Call(h) \/ Continue(h),
         NEW p \in Permits, permits[p].state # "none"
  PROVE  permits'[p].segment = permits[p].segment
<1>1. CASE permits' = permits
  BY <1>1
<1>2. ASSUME NEW q, NEW s, UpdatePermit(q, s) PROVE permits'[p].segment = permits[p].segment
  BY <1>2 DEF UpdatePermit, TypeInv, TypeOK, PermitRecord
<1>3. ASSUME NEW q \in Permits, NEW s \in Segments, NEW w \in Windows, Apply(h, q, s, w)
      PROVE  permits'[p] = permits[p]
  BY <1>3 DEF Apply, TypeInv, TypeOK
<1> QED BY <1>1, <1>2, <1>3
    DEF Call, Continue, ApproveRead, StartRead, CompleteRead, CancelRead, Begin, ScanRead,
        ApproveOverlap, ApproveOrders, ApproveIncidents, Check, ApproveWrite, StartWrite,
        CompleteWrite, CancelWrite, Finish, ExpireRead, ExpireWrite

(* A request that stays where it is. *)
LEMMA StandingKept ==
  ASSUME TypeInv, NEW h \in Handlers, StandingOK(h), req'[h] = req[h], StandsStill(h),
         \A p \in Permits : permits[p].state # "none" => permits'[p].segment = permits[p].segment
  PROVE  StandingOK(h)'
<1> SUFFICES ASSUME req'[h].step \in Asking
             PROVE  /\ standing'[h] \subseteq Conflicts(permits[req[h].permit].segment)'
                    /\ req[h].step \in {"incidents", "approve"} => standing'[h] \cap Orders = {}
                    /\ req[h].step = "approve" => standing'[h] = {}
  BY DEF StandingOK, Conflicts, PendingOrders, OpenIncidents
<1>1. req[h].permit \in Permits /\ permits[req[h].permit].state # "none"
  BY DEF TypeInv, RequestOK, Asking
<1>2. permits'[req[h].permit].segment = permits[req[h].permit].segment
  BY <1>1
<1>3. /\ standing[h] \subseteq Conflicts(permits[req[h].permit].segment)
      /\ req[h].step \in {"incidents", "approve"} => standing[h] \cap Orders = {}
      /\ req[h].step = "approve" => standing[h] = {}
  BY DEF StandingOK
<1>4. standing'[h] \subseteq standing[h]
  BY DEF StandsStill
<1>5. ASSUME NEW c \in standing'[h] PROVE c \in Conflicts(permits[req[h].permit].segment)'
  <2>1. c \in Conflicts(permits[req[h].permit].segment)
    BY <1>3, <1>4, <1>5
  <2>2. \A s : c \in Conflicts(s) => c \in Conflicts(s)'
    BY <1>5 DEF StandsStill
  <2> QED BY <1>2, <2>1, <2>2 DEF Conflicts, PendingOrders, OpenIncidents
<1> QED BY <1>3, <1>4, <1>5

(* What the other requests do to the history of g. *)
LEMMA OthersStanding ==
  ASSUME TypeInv, NEW g \in Handlers, NEW h \in Handlers \ {g}, Call(h) \/ Continue(h)
  PROVE  req'[g] = req[g] /\ StandsStill(g)
<1>1. ASSUME NEW r, Become(h, r) PROVE req'[g] = req[g]
  BY <1>1 DEF Become, TypeInv, TypeOK
<1>2. req'[g] = req[g]
  BY <1>1 DEF Call, Continue, Apply, ApproveRead, StartRead, CompleteRead, CancelRead, Begin, ScanRead,
        ApproveOverlap, ApproveOrders, ApproveIncidents, Check, ApproveWrite, StartWrite,
        CompleteWrite, CancelWrite, Finish, ExpireRead, ExpireWrite
<1>3. orders' = orders /\ incidents' = incidents
  BY DEF Call, Continue, elsewhere, Apply, ApproveRead, StartRead, CompleteRead, CancelRead, Begin,
         ScanRead, ApproveOverlap, ApproveOrders, ApproveIncidents, Check, ApproveWrite, StartWrite,
         CompleteWrite, CancelWrite, Finish, ExpireRead, ExpireWrite
<1>4. ASSUME NEW cs, standing' = [standing EXCEPT ![h] = cs] PROVE standing'[g] = standing[g]
  BY <1>4 DEF TypeInv, TypeOK
<1>5. standing'[g] = standing[g]
  BY <1>4 DEF Call, Continue, elsewhere, Apply, ApproveRead, StartRead, CompleteRead, CancelRead, Begin,
         ScanRead, ApproveOverlap, ApproveOrders, ApproveIncidents, Check, ApproveWrite, StartWrite,
         CompleteWrite, CancelWrite, Finish, ExpireRead, ExpireWrite
<1> QED BY <1>2, <1>3, <1>5 DEF StandsStill, Conflicts, PendingOrders, OpenIncidents

(* A request that is not, or no longer, an Approve. *)
LEMMA NotAsking ==
  ASSUME NEW h \in Handlers, req'[h].step \notin Asking
  PROVE  StandingOK(h)'
BY DEF StandingOK

(* The steps of request g itself. *)
LEMMA StandingOwn ==
  ASSUME TypeInv, NEW g \in Handlers, StandingOK(g), Call(g) \/ Continue(g)
  PROVE  StandingOK(g)'
<1> DEFINE k == req[g].permit
<1>1. ASSUME NEW r, Become(g, r), r.step \notin Asking PROVE StandingOK(g)'
  BY <1>1, NotAsking DEF Become, TypeInv, TypeOK
<1>2. /\ Idle.step \notin Asking
      /\ \A p, s : s \notin Asking => OnPermit(s, p).step \notin Asking
      /\ \A p, rest : Expiring(p, rest).step \notin Asking
      /\ \A rest : Scanning(rest).step \notin Asking
  BY DEF Idle, OnPermit, Expiring, Scanning, Asking
<1>3. ASSUME NEW p \in Permits, ApproveRead(g, p) PROVE StandingOK(g)'
  <2>1. /\ req'[g] = OnPermit("overlap", p)
        /\ orders' = orders /\ incidents' = incidents /\ permits' = permits
        /\ standing'[g] = Conflicts(permits[p].segment)
    BY <1>3 DEF ApproveRead, Become, TypeInv, TypeOK
  <2>2. OnPermit("overlap", p).step = "overlap" /\ OnPermit("overlap", p).permit = p
    BY DEF OnPermit
  <2> QED BY <2>1, <2>2 DEF StandingOK, Conflicts, PendingOrders, OpenIncidents
<1>4. ASSUME NEW s \in Asking, NEW free \in BOOLEAN, NEW next \in Asking, Check(g, s, free, next),
             next \in {"incidents", "approve"} /\ free => standing[g] \cap Orders = {},
             next = "approve" /\ free => standing[g] = {}
      PROVE  StandingOK(g)'
  <2>1. CASE ~free
    BY <1>1, <1>2, <1>4, <2>1 DEF Check
  <2>2. CASE free
    <3>1. /\ req'[g] = OnPermit(next, k) /\ req[g].step = s
          /\ orders' = orders /\ incidents' = incidents /\ permits' = permits
          /\ standing'[g] = standing[g]
      BY <1>4, <2>2 DEF Check, Become, TypeInv, TypeOK
    <3>2. OnPermit(next, k).step = next /\ OnPermit(next, k).permit = k
      BY DEF OnPermit
    <3>3. standing[g] \subseteq Conflicts(permits[k].segment)
      BY <1>4, <3>1 DEF StandingOK
    <3> QED BY <1>4, <2>2, <3>1, <3>2, <3>3 DEF StandingOK, Conflicts, PendingOrders, OpenIncidents
  <2> QED BY <2>1, <2>2
<1>5. CASE ApproveOverlap(g)
  BY <1>4, <1>5 DEF ApproveOverlap, Asking
<1>6. CASE ApproveOrders(g)
  <2>1. standing[g] \subseteq Conflicts(permits[k].segment)
    BY <1>6 DEF ApproveOrders, Check, StandingOK, Asking
  <2>2. PendingOrders(permits[k].segment) = {} => standing[g] \cap Orders = {}
    BY <2>1, DistinctIds DEF Conflicts, OpenIncidents
  <2> QED BY <1>4, <1>6, <2>2 DEF ApproveOrders, Asking
<1>7. CASE ApproveIncidents(g)
  <2>1. standing[g] \subseteq Conflicts(permits[k].segment) /\ standing[g] \cap Orders = {}
    BY <1>7 DEF ApproveIncidents, Check, StandingOK, Asking
  <2>2. OpenIncidents(permits[k].segment) = {} => standing[g] = {}
    BY <2>1 DEF Conflicts, PendingOrders
  <2> QED BY <1>4, <1>7, <2>1, <2>2 DEF ApproveIncidents, Asking
<1>8. CASE Call(g)
  <2>1. CASE \E p \in Permits : ApproveRead(g, p)
    BY <1>3, <2>1
  <2>2. ASSUME NEW p \in Permits, NEW s \in Segments, NEW w \in Windows, Apply(g, p, s, w)
        PROVE  StandingOK(g)'
    <3>1. req'[g] = req[g] /\ req[g].step = "idle"
      BY <2>2 DEF Apply, IsIdle
    <3> QED BY <3>1, NotAsking DEF Asking
  <2>3. CASE ScanRead(g) \/ \E p \in Permits : StartRead(g, p) \/ CompleteRead(g, p) \/ CancelRead(g, p)
    BY <1>1, <1>2, <2>3 DEF ScanRead, StartRead, CompleteRead, CancelRead, Begin, Asking
  <2> QED BY <1>8, <2>1, <2>2, <2>3 DEF Call
<1>9. CASE Continue(g)
  BY <1>1, <1>2, <1>5, <1>6, <1>7, <1>9
  DEF Continue, ApproveWrite, StartWrite, CompleteWrite, CancelWrite, Finish, ExpireRead, ExpireWrite
<1> QED BY <1>8, <1>9

LEMMA StandingNext == TypeInv /\ StandingInv /\ [Next]_vars => StandingInv'
<1> SUFFICES ASSUME TypeInv, StandingInv, [Next]_vars, NEW g \in Handlers PROVE StandingOK(g)'
  BY DEF StandingInv
<1>0. StandingOK(g)
  BY DEF StandingInv
<1>1. ASSUME NEW h \in Handlers, Call(h) \/ Continue(h) PROVE StandingOK(g)'
  <2>1. CASE h = g
    BY <1>0, <1>1, <2>1, StandingOwn
  <2>2. CASE h # g
    <3>1. req'[g] = req[g] /\ StandsStill(g)
      BY <1>1, <2>2, OthersStanding
    <3> QED BY <1>0, <1>1, <3>1, SegmentFixed, StandingKept
  <2> QED BY <2>1, <2>2
<1>2. CASE Neighbours
  <2>1. permits' = permits /\ req' = req /\ StandsStill(g)
    BY <1>2, NeighboursType, NeighboursStanding
  <2> QED BY <1>0, <2>1, StandingKept
<1>3. CASE UNCHANGED vars
  BY <1>0, <1>3 DEF vars, StandingOK, Conflicts, PendingOrders, OpenIncidents
<1> QED BY <1>1, <1>2, <1>3 DEF Next

(***************************************************************************)
(* An approval that has passed its checks has overlooked no order and no   *)
(* incident that has been open on the segment, without a break, since it   *)
(* began: under every interleaving of requests, late writes included.      *)
(***************************************************************************)
THEOREM ConflictsNoticed == Spec => []ConflictsHeeded
<1>1. Init => StandingInv
  BY DEF Init, Idle, StandingInv, StandingOK, Asking
<1>2. StandingInv => ConflictsHeeded
  BY DEF StandingInv, StandingOK, ConflictsHeeded, Asking
<1> QED BY <1>1, <1>2, StandingNext, TypeAlways, PTL DEF Spec

-----------------------------------------------------------------------------
(***************************************************************************)
(* The network of module Topology, whose orders the permit service reads.  *)
(*                                                                         *)
(* An index only grows, so what was listed stays listed; what is settled   *)
(* is listed where it is and nowhere else.                                 *)
(***************************************************************************)
SettledListed ==
  \A x \in Items \cap Settled, s \in Segments : x \in segmentDevices[s] => placed[x] = s

(* An answer holds what the lists it has read hold of what was there, and  *)
(* nothing that is not listed.                                             *)
AnswerOK(r) ==
  LET a == answer[r] IN
  /\ a.segment = None => a.read = 0 /\ a.held = {}
  /\ a.segment # None =>
       /\ a.before \cup a.held \subseteq segmentDevices[a.segment]
       /\ \A i \in 1 .. a.read : a.before \cap Lists[i] \subseteq a.held

(* An order, or a request that is about to put one, is for the segment     *)
(* its device was on when it was read.                                     *)
Filed(device, segment) ==
  /\ device \in Devices /\ segment \in Segments
  /\ device \in Settled => placed[device] = segment

FilingOK(h) == filing[h] # NoRequest => Filed(filing[h].device, filing[h].segment)

OrderFiled(o) == orders[o].state # "none" => Filed(orders[o].device, orders[o].segment)

NetworkInv ==
  /\ TopologyTypeOK
  /\ EverythingListed
  /\ SettledListed
  /\ \A r \in Readers : AnswerOK(r)
  /\ \A h \in Creators : FilingOK(h)
  /\ \A o \in Orders : OrderFiled(o)

(* The parts of a step that change one thing: a segment, and a placement. *)
LEMMA PlaceMoves ==
  ASSUME TopologyTypeOK, NEW x \in Items, NEW s \in Segments, Place(x, s)
  PROVE  /\ placed' \in [Items -> Segments \cup {None}]
         /\ segmentDevices' \in [Segments -> SUBSET Items]
         /\ \A y \in Items : placed'[y] = IF y = x THEN s ELSE placed[y]
         /\ \A t \in Segments : segmentDevices'[t] = IF t = s THEN segmentDevices[t] \cup {x}
                                                            ELSE segmentDevices[t]
BY DEF TopologyTypeOK, Place

LEMMA StationPointMoves ==
  ASSUME TopologyTypeOK, NEW p \in Points, UpsertStationPoint(p)
  PROVE  /\ placed' \in [Items -> Segments \cup {None}]
         /\ \A y \in Items : placed'[y] = IF y = p THEN None ELSE placed[y]
BY DEF TopologyTypeOK, UpsertStationPoint, Items

LEMMA SegmentMoves ==
  ASSUME TopologyTypeOK, NEW s \in Segments, NEW ends \in EndsInputs, UpsertSegment(s, ends)
  PROVE  /\ segments' \in [Segments -> Ends \cup {NoEnds}]
         /\ stationSegments' \in [Stations -> SUBSET Segments]
         /\ \A t \in Segments : segments'[t] = IF t = s THEN ends ELSE segments[t]
         /\ \A st \in Stations : stationSegments'[st] =
              IF st \in {ends.from, ends.to} THEN stationSegments[st] \cup {s}
                                             ELSE stationSegments[st]
BY InputsOK DEF TopologyTypeOK, UpsertSegment, Ends

LEMMA FilingMoves ==
  ASSUME TopologyTypeOK, NEW h \in Creators,
         NEW d \in Devices \cup {None}, NEW s \in Segments \cup {None},
         filing' = [filing EXCEPT ![h] = [device |-> d, segment |-> s]]
  PROVE  /\ filing' \in [Creators -> [device : Devices \cup {None}, segment : Segments \cup {None}]]
         /\ filing'[h] = [device |-> d, segment |-> s]
         /\ \A g \in Creators \ {h} : filing'[g] = filing[g]
BY DEF TopologyTypeOK

LEMMA PutOrderMoves ==
  ASSUME TopologyTypeOK, NEW o \in Orders, NEW d \in Devices \cup {None},
         NEW s \in Segments \cup {None}, PutOrder(o, "open_valve", d, s)
  PROVE  /\ orders' \in [Orders -> OrderRecord]
         /\ orders'[o].device = d /\ orders'[o].segment = s
         /\ \A q \in Orders \ {o} : orders'[q] = orders[q]
<1> DEFINE new == [state |-> "pending", type |-> "open_valve", device |-> d, segment |-> s]
<1>1. new \in OrderRecord /\ new.device = d /\ new.segment = s
  BY DEF OrderRecord, OrderState, OrderType
<1>2. orders' = [orders EXCEPT ![o] = new] /\ orders \in [Orders -> OrderRecord]
  BY DEF PutOrder, TopologyTypeOK
<1> HIDE DEF new
<1> QED BY <1>1, <1>2

LEMMA OrderUpdateMoves ==
  ASSUME TopologyTypeOK, NEW o \in Orders, NEW s \in OrderState, MoveOrder(o, s)
  PROVE  /\ orders' \in [Orders -> OrderRecord]
         /\ orders[o].state # "none"
         /\ \A q \in Orders : /\ orders'[q].device = orders[q].device
                              /\ orders'[q].segment = orders[q].segment
                              /\ orders[q].state = "none" => orders'[q].state = "none"
<1>1. orders' = [orders EXCEPT ![o].state = s] /\ orders \in [Orders -> OrderRecord]
      /\ orders[o].state \in OrderState
  BY DEF MoveOrder, UpdateOrder, MayWriteOrder, TopologyTypeOK, OrderRecord
<1>2. "none" \notin OrderState
  BY DEF OrderState
<1> QED BY <1>1, <1>2 DEF OrderRecord

(* Reading the next list of an answer. *)
LEMMA ListNextMoves ==
  ASSUME TopologyTypeOK, NEW r \in Readers, ListNext(r)
  PROVE  /\ answer[r].segment \in Segments /\ answer[r].read \in 0 .. 2
         /\ answer' \in [Readers -> [segment : Segments \cup {None}, read : 0 .. Len(Lists),
                                     held : SUBSET Items, before : SUBSET Items]]
         /\ answer'[r].segment = answer[r].segment
         /\ answer'[r].before = answer[r].before
         /\ answer'[r].read = answer[r].read + 1
         /\ answer'[r].held =
              answer[r].held \cup (segmentDevices[answer[r].segment] \cap Lists[answer[r].read + 1])
         /\ \A q \in Readers \ {r} : answer'[q] = answer[q]
<1> DEFINE a == answer[r]
           more == segmentDevices[a.segment] \cap Lists[a.read + 1]
<1>0. Len(Lists) = 3
  BY DEF Lists
<1>1. a \in [segment : Segments \cup {None}, read : 0 .. 3, held : SUBSET Items, before : SUBSET Items]
  BY <1>0 DEF TopologyTypeOK
<1>2. a.segment \in Segments /\ a.read \in 0 .. 2
  BY <1>0, <1>1 DEF ListNext
<1>3. more \in SUBSET Items
  BY <1>2 DEF TopologyTypeOK
<1>4. answer' = [answer EXCEPT ![r].read = @ + 1, ![r].held = @ \cup more]
  BY DEF ListNext
<1>5. answer \in [Readers -> [segment : Segments \cup {None}, read : 0 .. 3,
                              held : SUBSET Items, before : SUBSET Items]]
  BY <1>0 DEF TopologyTypeOK
<1> HIDE DEF more
<1>6. /\ answer'[r].segment = a.segment /\ answer'[r].before = a.before
      /\ answer'[r].read = a.read + 1 /\ answer'[r].held = a.held \cup more
      /\ \A q \in Readers \ {r} : answer'[q] = answer[q]
  BY <1>4, <1>5
<1>7. a.read + 1 \in 0 .. 3 /\ a.held \cup more \in SUBSET Items
  BY <1>1, <1>2, <1>3
<1>8. answer' \in [Readers -> [segment : Segments \cup {None}, read : 0 .. 3,
                               held : SUBSET Items, before : SUBSET Items]]
  BY <1>4, <1>5, <1>7
<1> QED BY <1>0, <1>2, <1>6, <1>8 DEF more

LEMMA ListBeginMoves ==
  ASSUME TopologyTypeOK, NEW r \in Readers, NEW s \in Segments, ListBegin(r, s)
  PROVE  /\ answer' \in [Readers -> [segment : Segments \cup {None}, read : 0 .. Len(Lists),
                                     held : SUBSET Items, before : SUBSET Items]]
         /\ answer'[r] = [segment |-> s, read |-> 0, held |-> {},
                          before |-> {x \in Items : placed[x] = s}]
         /\ \A q \in Readers \ {r} : answer'[q] = answer[q]
<1>1. 0 \in 0 .. Len(Lists)
  BY DEF Lists
<1> QED BY <1>1 DEF TopologyTypeOK, ListBegin

LEMMA NetworkInit == TopologyInit => NetworkInv
<1> SUFFICES ASSUME TopologyInit PROVE NetworkInv
  OBVIOUS
<1>1. orders \in [Orders -> OrderRecord]
  BY DEF TopologyInit, OrderInit, NoOrder, OrderRecord
<1>2. answer \in [Readers -> [segment : Segments \cup {None}, read : 0 .. Len(Lists),
                              held : SUBSET Items, before : SUBSET Items]]
  <2>1. 0 \in 0 .. Len(Lists)
    BY DEF Lists
  <2> QED BY <2>1 DEF TopologyInit, NoAnswer
<1>3. filing \in [Creators -> [device : Devices \cup {None}, segment : Segments \cup {None}]]
  BY DEF TopologyInit, NoRequest
<1>4. TopologyTypeOK
  BY <1>1, <1>2, <1>3 DEF TopologyInit, TopologyTypeOK
<1>5. EverythingListed /\ SettledListed
  BY DEF TopologyInit, EverythingListed, SettledListed, Exists
<1>6. \A r \in Readers : AnswerOK(r)
  BY DEF TopologyInit, NoAnswer, AnswerOK
<1>7. \A h \in Creators : FilingOK(h)
  BY DEF TopologyInit, FilingOK
<1>8. \A o \in Orders : OrderFiled(o)
  BY DEF TopologyInit, OrderInit, NoOrder, OrderFiled
<1> QED BY <1>4, <1>5, <1>6, <1>7, <1>8 DEF NetworkInv

LEMMA NetworkTypeNext ==
  ASSUME TopologyTypeOK, TopologyNext
  PROVE  TopologyTypeOK'
<1>1. CASE \E st \in StationInputs : UpsertStation(st)
  BY <1>1, InputsOK DEF UpsertStation, TopologyTypeOK
<1>2. CASE \E s \in Segments, ends \in EndsInputs : UpsertSegment(s, ends)
  <2>1. PICK s \in Segments, ends \in EndsInputs : UpsertSegment(s, ends)
    BY <1>2
  <2>2. /\ segments' \in [Segments -> Ends \cup {NoEnds}]
        /\ stationSegments' \in [Stations -> SUBSET Segments]
    BY <2>1, SegmentMoves
  <2>3. UNCHANGED <<orders, stations, placed, segmentDevices, filing, answer>>
    BY <2>1 DEF UpsertSegment
  <2> QED BY <2>2, <2>3 DEF TopologyTypeOK
<1>3. CASE \E x \in Items, s \in Segments, st \in Stations \cup {None} : UpsertDevice(x, s, st)
  BY <1>3, PlaceMoves DEF UpsertDevice, TopologyTypeOK
<1>4. CASE \E p \in Points : UpsertStationPoint(p)
  BY <1>4, StationPointMoves DEF UpsertStationPoint, TopologyTypeOK
<1>5. CASE \E h \in Creators, d \in Devices : CreateRead(h, d)
  <2>1. PICK h \in Creators, d \in Devices : CreateRead(h, d)
    BY <1>5
  <2>2. placed[d] \in Segments \cup {None}
    BY DEF TopologyTypeOK, Items
  <2> QED BY <2>1, <2>2, FilingMoves DEF CreateRead, netVars, TopologyTypeOK
<1>6. CASE \E h \in Creators, o \in Orders : CreatePut(h, o)
  <2>1. PICK h \in Creators, o \in Orders : CreatePut(h, o)
    BY <1>6
  <2>2. filing[h].device \in Devices \cup {None} /\ filing[h].segment \in Segments \cup {None}
    BY DEF TopologyTypeOK
  <2> QED BY <2>1, <2>2, FilingMoves, PutOrderMoves DEF CreatePut, NoRequest, netVars, TopologyTypeOK
<1>7. CASE \E o \in Orders, s \in OrderState : MoveOrder(o, s)
  BY <1>7, OrderUpdateMoves DEF MoveOrder, netVars, TopologyTypeOK
<1>8. CASE \E r \in Readers : ListNext(r)
  BY <1>8, ListNextMoves DEF ListNext, netVars, TopologyTypeOK
<1>9. CASE \E r \in Readers, s \in Segments : ListBegin(r, s)
  BY <1>9, ListBeginMoves DEF ListBegin, netVars, TopologyTypeOK
<1> QED BY <1>1, <1>2, <1>3, <1>4, <1>5, <1>6, <1>7, <1>8, <1>9 DEF TopologyNext

(* The four actions that leave the network and its indexes alone. *)
LEMMA NetworkKept ==
  ASSUME TopologyNext
  PROVE  \/ \E st \in StationInputs : UpsertStation(st)
         \/ \E s \in Segments, ends \in EndsInputs : UpsertSegment(s, ends)
         \/ \E x \in Items, s \in Segments, st \in Stations \cup {None} : UpsertDevice(x, s, st)
         \/ \E p \in Points : UpsertStationPoint(p)
         \/ UNCHANGED <<segments, placed, segmentDevices, stationSegments>>
BY DEF TopologyNext, CreateRead, CreatePut, MoveOrder, ListBegin, ListNext, netVars

(* Nothing is taken off a list, and what is settled and placed stays.      *)
LEMMA NetworkGrows ==
  ASSUME NetworkInv, TopologyNext
  PROVE  /\ \A s \in Segments : segmentDevices[s] \subseteq segmentDevices'[s]
         /\ \A x \in Items \cap Settled : placed[x] # None => placed'[x] = placed[x]
<1>0. TopologyTypeOK
  BY DEF NetworkInv
<1>1. CASE \E x \in Items, s \in Segments, st \in Stations \cup {None} : UpsertDevice(x, s, st)
  <2>1. PICK x \in Items, s \in Segments, st \in Stations \cup {None} : UpsertDevice(x, s, st)
    BY <1>1
  <2>0. x \in Items /\ s \in Segments
    OBVIOUS
  <2>2. MayPut(x, placed[x], s, None) /\ Place(x, s)
    BY <2>1 DEF UpsertDevice
  <2>3. /\ \A y \in Items : placed'[y] = IF y = x THEN s ELSE placed[y]
        /\ \A t \in Segments : segmentDevices'[t] = IF t = s THEN segmentDevices[t] \cup {x}
                                                           ELSE segmentDevices[t]
    BY ONLY <1>0, <2>0, <2>2, PlaceMoves
  <2>4. x \in Settled => placed[x] \in {None, s}
    BY <2>2 DEF MayPut
  <2>5. \A t \in Segments : segmentDevices[t] \subseteq segmentDevices'[t]
    BY ONLY <2>3
  <2>6. \A y \in Items \cap Settled : placed[y] # None => placed'[y] = placed[y]
    BY ONLY <2>3, <2>4
  <2> QED BY <2>5, <2>6
<1>2. CASE \E p \in Points : UpsertStationPoint(p)
  <2>1. PICK p \in Points : UpsertStationPoint(p)
    BY <1>2
  <2>2. MayPut(p, placed[p], None, None) /\ segmentDevices' = segmentDevices
    BY <2>1 DEF UpsertStationPoint
  <2> QED BY <1>0, <2>1, <2>2, StationPointMoves DEF MayPut
<1>3. CASE UNCHANGED <<placed, segmentDevices>>
  BY <1>3
<1> QED BY <1>1, <1>2, <1>3, NetworkKept DEF UpsertStation, UpsertSegment

LEMMA ListedNext ==
  ASSUME NetworkInv, TopologyNext
  PROVE  EverythingListed'
<1>0. TopologyTypeOK /\ EverythingListed
  BY DEF NetworkInv
<1>1. CASE \E x \in Items, s \in Segments, st \in Stations \cup {None} : UpsertDevice(x, s, st)
  <2>1. PICK x \in Items, s \in Segments, st \in Stations \cup {None} : UpsertDevice(x, s, st)
    BY <1>1
  <2>0. x \in Items /\ s \in Segments
    OBVIOUS
  <2>2. Exists(s) /\ Place(x, s) /\ segments' = segments /\ stationSegments' = stationSegments
    BY <2>1 DEF UpsertDevice
  <2>3. /\ \A y \in Items : placed'[y] = IF y = x THEN s ELSE placed[y]
        /\ \A t \in Segments : segmentDevices'[t] = IF t = s THEN segmentDevices[t] \cup {x}
                                                           ELSE segmentDevices[t]
    BY ONLY <1>0, <2>0, <2>2, PlaceMoves
  <2>4. ASSUME NEW y \in Items, placed'[y] # None
        PROVE  y \in segmentDevices'[placed'[y]] /\ segments'[placed'[y]] # NoEnds
    <3>1. CASE y = x
      <4>1. placed'[y] = s /\ y \in segmentDevices'[s]
        BY <2>3, <3>1
      <4> QED BY <2>2, <4>1 DEF Exists
    <3>2. CASE y # x
      <4>1. placed'[y] = placed[y] /\ placed[y] \in Segments
        BY <1>0, <2>3, <2>4, <3>2 DEF TopologyTypeOK
      <4>2. y \in segmentDevices[placed[y]] /\ segments[placed[y]] # NoEnds
        BY <1>0, <2>4, <4>1 DEF EverythingListed, Exists
      <4>3. segmentDevices[placed[y]] \subseteq segmentDevices'[placed[y]]
        BY <2>3, <4>1
      <4> QED BY <2>2, <4>1, <4>2, <4>3
    <3> QED BY <3>1, <3>2
  <2> QED BY <1>0, <2>2, <2>4 DEF EverythingListed, Exists
<1>2. CASE \E p \in Points : UpsertStationPoint(p)
  <2>1. PICK p \in Points : UpsertStationPoint(p)
    BY <1>2
  <2>2. UNCHANGED <<segments, segmentDevices, stationSegments>>
    BY <2>1 DEF UpsertStationPoint
  <2>3. \A y \in Items : placed'[y] # None => placed'[y] = placed[y]
    BY <1>0, <2>1, StationPointMoves
  <2> QED BY <1>0, <2>2, <2>3 DEF EverythingListed, Exists
<1>3. CASE \E s \in Segments, ends \in EndsInputs : UpsertSegment(s, ends)
  <2>1. PICK s \in Segments, ends \in EndsInputs : UpsertSegment(s, ends)
    BY <1>3
  <2>2. UNCHANGED <<placed, segmentDevices>>
    BY <2>1 DEF UpsertSegment
  <2>3. ends \in Ends /\ ends # NoEnds /\ ends.from \in Stations /\ ends.to \in Stations
    BY InputsOK, NoStationOK DEF Ends, NoEnds
  <2>4. \A t \in Segments : segments'[t] # NoEnds <=> t = s \/ Exists(t)
    BY <1>0, <2>1, <2>3, SegmentMoves DEF Exists
  <2>5. \A y \in Items : placed'[y] # None =>
          y \in segmentDevices'[placed'[y]] /\ segments'[placed'[y]] # NoEnds
    BY <1>0, <2>2, <2>4 DEF EverythingListed, TopologyTypeOK
  <2>6. ASSUME NEW t \in Segments, segments'[t] # NoEnds
        PROVE  t \in stationSegments'[segments'[t].from] \cap stationSegments'[segments'[t].to]
    <3>0. /\ segments'[t] = IF t = s THEN ends ELSE segments[t]
          /\ \A st \in Stations : stationSegments'[st] =
               IF st \in {ends.from, ends.to} THEN stationSegments[st] \cup {s}
                                              ELSE stationSegments[st]
      BY <1>0, <2>1, SegmentMoves
    <3>1. CASE t = s
      BY <2>3, <3>0, <3>1
    <3>2. CASE t # s
      <4>1. segments'[t] = segments[t] /\ Exists(t) /\ segments[t] \in Ends
        BY <1>0, <2>6, <3>0, <3>2 DEF Exists, TopologyTypeOK
      <4>2. segments[t].from \in Stations /\ segments[t].to \in Stations
        BY <4>1 DEF Ends
      <4>3. t \in stationSegments[segments[t].from] /\ t \in stationSegments[segments[t].to]
        BY <1>0, <4>1 DEF EverythingListed
      <4> QED BY <3>0, <4>1, <4>2, <4>3
    <3> QED BY <3>1, <3>2
  <2> QED BY <2>5, <2>6 DEF EverythingListed, Exists
<1>4. CASE UNCHANGED <<segments, placed, segmentDevices, stationSegments>>
  BY <1>0, <1>4 DEF EverythingListed, Exists
<1> QED BY <1>1, <1>2, <1>3, <1>4, NetworkKept DEF UpsertStation

(* What is settled is put on one segment only. *)
LEMMA SettledListedNext ==
  ASSUME NetworkInv, TopologyNext
  PROVE  SettledListed'
<1>0. TopologyTypeOK /\ SettledListed
  BY DEF NetworkInv
<1>1. ASSUME NEW y \in Items \cap Settled, NEW t \in Segments, y \in segmentDevices'[t]
      PROVE  placed'[y] = t
  <2>0. t # None
    BY NoneOK
  <2>1. CASE y \in segmentDevices[t]
    BY <1>0, <1>1, <2>0, <2>1, NetworkGrows DEF SettledListed
  <2>2. CASE y \notin segmentDevices[t]
    <3>1. PICK x \in Items, s \in Segments, st \in Stations \cup {None} : UpsertDevice(x, s, st)
      BY <1>1, <2>2, NetworkKept DEF UpsertStation, UpsertSegment, UpsertStationPoint
    <3>2. Place(x, s)
      BY <3>1 DEF UpsertDevice
    <3>3. /\ placed'[y] = IF y = x THEN s ELSE placed[y]
          /\ segmentDevices'[t] = IF t = s THEN segmentDevices[t] \cup {x} ELSE segmentDevices[t]
      BY <1>0, <3>2, PlaceMoves
    <3> QED BY <1>1, <2>2, <3>3
  <2> QED BY <2>1, <2>2
<1> QED BY <1>1 DEF SettledListed

LEMMA AnswerNext ==
  ASSUME NetworkInv, TopologyNext, NEW r \in Readers
  PROVE  AnswerOK(r)'
<1>0. TopologyTypeOK /\ EverythingListed /\ AnswerOK(r)
  BY DEF NetworkInv
<1>1. \A s \in Segments : segmentDevices[s] \subseteq segmentDevices'[s]
  BY NetworkGrows
<1>2. answer[r].segment \in Segments \cup {None}
  BY <1>0 DEF TopologyTypeOK
<1>3. CASE answer'[r] = answer[r]
  BY <1>0, <1>1, <1>2, <1>3 DEF AnswerOK
<1>4. CASE \E s \in Segments : ListBegin(r, s)
  <2>1. PICK s \in Segments : ListBegin(r, s)
    BY <1>4
  <2>2. answer'[r] = [segment |-> s, read |-> 0, held |-> {},
                      before |-> {x \in Items : placed[x] = s}]
    BY <1>0, <2>1, ListBeginMoves
  <2>3. {x \in Items : placed[x] = s} \subseteq segmentDevices[s]
    BY <1>0, NoneOK DEF EverythingListed
  <2>4. s # None
    BY NoneOK
  <2> QED BY <1>1, <2>2, <2>3, <2>4 DEF AnswerOK
<1>5. CASE ListNext(r)
  <2> DEFINE a == answer[r]
             b == answer'[r]
             more == segmentDevices[a.segment] \cap Lists[a.read + 1]
  <2>1. /\ a.segment \in Segments /\ a.read \in 0 .. 2 /\ a.segment # None
        /\ b.segment = a.segment /\ b.before = a.before
        /\ b.read = a.read + 1 /\ b.held = a.held \cup more
    BY <1>0, <1>5, ListNextMoves, NoneOK
  <2>2. a.before \cup a.held \subseteq segmentDevices[a.segment]
    BY <1>0, <2>1 DEF AnswerOK
  <2>3. b.before \cup b.held \subseteq segmentDevices'[b.segment]
    BY <1>1, <2>1, <2>2
  <2>4. ASSUME NEW i \in 1 .. b.read PROVE b.before \cap Lists[i] \subseteq b.held
    <3>1. CASE i = a.read + 1
      BY <2>1, <2>2, <3>1
    <3>2. CASE i # a.read + 1
      <4>1. i \in 1 .. a.read
        BY <2>1, <3>2
      <4>2. a.before \cap Lists[i] \subseteq a.held
        BY <1>0, <2>1, <4>1 DEF AnswerOK
      <4> QED BY <2>1, <4>2
    <3> QED BY <3>1, <3>2
  <2> QED BY <2>1, <2>3, <2>4 DEF AnswerOK
<1>6. CASE \E q \in Readers \ {r} : ListNext(q) \/ \E s \in Segments : ListBegin(q, s)
  <2>1. answer'[r] = answer[r]
    BY <1>0, <1>6, ListNextMoves, ListBeginMoves
  <2> QED BY <1>3, <2>1
<1>7. CASE answer' = answer
  BY <1>3, <1>7
<1> QED BY <1>4, <1>5, <1>6, <1>7
  DEF TopologyNext, UpsertStation, UpsertSegment, UpsertDevice, UpsertStationPoint, CreateRead,
      CreatePut, MoveOrder

(* What is filed stays right: a settled device is on a segment for good. *)
LEMMA FiledNext ==
  ASSUME NetworkInv, TopologyNext, NEW d, NEW s, Filed(d, s)
  PROVE  Filed(d, s)'
<1>1. d \in Devices /\ s \in Segments /\ s # None /\ d \in Items
  BY NoneOK DEF Filed, Items
<1>2. d \in Settled => placed'[d] = s
  BY <1>1, NetworkGrows DEF Filed
<1> QED BY <1>1, <1>2 DEF Filed

LEMMA FilingNext ==
  ASSUME NetworkInv, TopologyNext, NEW h \in Creators
  PROVE  FilingOK(h)'
<1>0. TopologyTypeOK /\ FilingOK(h)
  BY DEF NetworkInv
<1>1. CASE filing'[h] = filing[h]
  BY <1>0, <1>1, FiledNext DEF FilingOK
<1>2. CASE \E d \in Devices : CreateRead(h, d)
  <2>1. PICK d \in Devices : CreateRead(h, d)
    BY <1>2
  <2>2. placed[d] \in Segments /\ placed' = placed
    BY <1>0, <2>1 DEF CreateRead, netVars, TopologyTypeOK, Items
  <2>3. filing'[h] = [device |-> d, segment |-> placed[d]]
    BY <1>0, <2>1, <2>2, FilingMoves DEF CreateRead
  <2>4. Filed(d, placed[d])
    BY <2>2 DEF Filed
  <2> QED BY <2>2, <2>3, <2>4 DEF FilingOK, Filed
<1>3. CASE \E o \in Orders : CreatePut(h, o)
  <2>1. filing'[h] = NoRequest
    BY <1>0, <1>3 DEF CreatePut, TopologyTypeOK
  <2> QED BY <2>1 DEF FilingOK, NoRequest
<1>4. CASE \E g \in Creators \ {h} : \/ \E d \in Devices : CreateRead(g, d)
                                     \/ \E o \in Orders : CreatePut(g, o)
  <2>1. filing'[h] = filing[h]
    BY <1>0, <1>4 DEF CreateRead, CreatePut, TopologyTypeOK
  <2> QED BY <1>1, <2>1
<1>5. CASE filing' = filing
  BY <1>1, <1>5
<1> QED BY <1>2, <1>3, <1>4, <1>5
  DEF TopologyNext, UpsertStation, UpsertSegment, UpsertDevice, UpsertStationPoint, MoveOrder,
      ListBegin, ListNext

LEMMA OrderFiledNext ==
  ASSUME NetworkInv, TopologyNext, NEW o \in Orders
  PROVE  OrderFiled(o)'
<1>0. TopologyTypeOK /\ OrderFiled(o)
  BY DEF NetworkInv
<1>1. CASE orders'[o].device = orders[o].device /\ orders'[o].segment = orders[o].segment
           /\ (orders[o].state = "none" => orders'[o].state = "none")
  BY <1>0, <1>1, FiledNext DEF OrderFiled
<1>2. CASE \E h \in Creators, q \in Orders : CreatePut(h, q)
  <2>1. PICK h \in Creators, q \in Orders : CreatePut(h, q)
    BY <1>2
  <2> DEFINE d == filing[h].device
             s == filing[h].segment
  <2>2. PutOrder(q, "open_valve", d, s) /\ filing[h] # NoRequest /\ placed' = placed
    BY <2>1 DEF CreatePut, netVars
  <2>3. Filed(d, s)
    BY <2>2 DEF NetworkInv, FilingOK
  <2>4. d \in Devices \cup {None} /\ s \in Segments \cup {None}
    BY <1>0 DEF TopologyTypeOK
  <2> HIDE DEF d, s
  <2>5. /\ orders'[q].device = d /\ orders'[q].segment = s
        /\ \A p \in Orders \ {q} : orders'[p] = orders[p]
    BY <1>0, <2>2, <2>4, PutOrderMoves
  <2>6. CASE o = q
    BY <2>2, <2>3, <2>5, <2>6 DEF OrderFiled, Filed
  <2>7. CASE o # q
    BY <1>1, <2>5, <2>7
  <2> QED BY <2>6, <2>7
<1>3. CASE \E q \in Orders, s \in OrderState : MoveOrder(q, s)
  BY <1>0, <1>1, <1>3, OrderUpdateMoves
<1>4. CASE orders' = orders
  BY <1>1, <1>4
<1> QED BY <1>2, <1>3, <1>4
  DEF TopologyNext, UpsertStation, UpsertSegment, UpsertDevice, UpsertStationPoint, CreateRead,
      ListBegin, ListNext

LEMMA NetworkNext == NetworkInv /\ [TopologyNext]_topologyVars => NetworkInv'
<1> SUFFICES ASSUME NetworkInv, [TopologyNext]_topologyVars PROVE NetworkInv'
  OBVIOUS
<1>1. CASE TopologyNext
  <2>1. TopologyTypeOK'
    BY <1>1, NetworkTypeNext DEF NetworkInv
  <2>2. EverythingListed' /\ SettledListed'
    BY <1>1, ListedNext, SettledListedNext
  <2> QED BY <1>1, <2>1, <2>2, AnswerNext, FilingNext, OrderFiledNext DEF NetworkInv
<1>2. CASE UNCHANGED topologyVars
  <2>1. TopologyTypeOK'
    BY <1>2 DEF NetworkInv, TopologyTypeOK, topologyVars, netVars
  <2>2. EverythingListed' /\ SettledListed'
    BY <1>2 DEF NetworkInv, EverythingListed, SettledListed, Exists, topologyVars, netVars
  <2>3. \A r \in Readers : AnswerOK(r)'
    BY <1>2 DEF NetworkInv, AnswerOK, topologyVars, netVars
  <2>4. (\A h \in Creators : FilingOK(h)') /\ (\A o \in Orders : OrderFiled(o)')
    BY <1>2 DEF NetworkInv, FilingOK, OrderFiled, Filed, topologyVars, netVars
  <2> QED BY <2>1, <2>2, <2>3, <2>4 DEF NetworkInv
<1> QED BY <1>1, <1>2

THEOREM NetworkAlways == TopologySpec => []NetworkInv
BY NetworkInit, NetworkNext, PTL DEF TopologySpec

(***************************************************************************)
(* The indexes are complete, however devices, points and segments are      *)
(* upserted again and moved.                                               *)
(***************************************************************************)
THEOREM IndexesComplete == TopologySpec => []EverythingListed
<1>1. NetworkInv => EverythingListed
  BY DEF NetworkInv
<1> QED BY <1>1, NetworkAlways, PTL

(***************************************************************************)
(* An answer of ListSegmentDevices misses nothing that was on the segment  *)
(* all along, although it is put together from three reads, and shows      *)
(* nothing that is settled elsewhere.                                      *)
(***************************************************************************)
THEOREM AnswersAreExact == TopologySpec => []AnswersExact
<1>1. ASSUME NetworkInv PROVE AnswersExact
  <2>1. ASSUME NEW r \in Readers, answer[r].read = Len(Lists)
        PROVE  /\ answer[r].before \subseteq answer[r].held
               /\ \A x \in answer[r].held \cap Settled : placed[x] = answer[r].segment
    <3> DEFINE a == answer[r]
    <3>1. AnswerOK(r) /\ a.segment \in Segments \cup {None} /\ a.held \in SUBSET Items
          /\ a.before \in SUBSET Items
      BY <1>1 DEF NetworkInv, TopologyTypeOK
    <3>2. Len(Lists) = 3 /\ Lists[1] \cup Lists[2] \cup Lists[3] = Items \cup Compressors
      BY DEF Lists, Items
    <3>3. a.read = 3 /\ a.segment \in Segments
      BY <2>1, <3>1, <3>2 DEF AnswerOK
    <3>4. a.segment # None
      BY <3>3, NoneOK
    <3>5. \A i \in 1 .. 3 : a.before \cap Lists[i] \subseteq a.held
      BY <3>1, <3>3, <3>4 DEF AnswerOK
    <3>6. a.before \subseteq a.held
      BY <3>1, <3>2, <3>5
    <3>7. a.held \subseteq segmentDevices[a.segment]
      BY <3>1, <3>4 DEF AnswerOK
    <3>8. \A x \in a.held \cap Settled : placed[x] = a.segment
      BY <1>1, <3>1, <3>3, <3>7 DEF NetworkInv, SettledListed
    <3> QED BY <3>6, <3>8
  <2> QED BY <2>1 DEF AnswersExact
<1> QED BY <1>1, NetworkAlways, PTL

(***************************************************************************)
(* The permit service is told of every open order of a settled device,     *)
(* under the segment the device is on.                                     *)
(***************************************************************************)
THEOREM OpenOrdersTold == TopologySpec => []OpenOrdersFound
<1>1. ASSUME NetworkInv PROVE OpenOrdersFound
  BY <1>1 DEF NetworkInv, OrderFiled, Filed, OpenOrdersFound, PendingOrders, IsOpenOrder
<1> QED BY <1>1, NetworkAlways, PTL
=============================================================================
