-------------------------------- MODULE Leak --------------------------------
(***************************************************************************)
(* internal/leakdetect on the reading store of internal/scada.  A request  *)
(* to analyse a segment (GET /api/leaks/analyze) copies the readings of    *)
(* one point, then, under a new lock, those of another, while readings     *)
(* come in; it fits a line to the first copy, compares the latest values   *)
(* of both, and enqueues a message when either is beyond its threshold.    *)
(*                                                                         *)
(* Times are minutes, pressures integers.  Rates and deviations, which the *)
(* code computes as float64 quotients, are compared by multiplying out.    *)
(***************************************************************************)
EXTENDS Ring, Functions

CONSTANTS
  Handlers,        \* goroutines of the HTTP server: the analyses in flight
  PressurePoints,  \* the pressure points of the segment, sorted by id
  Orderly,         \* the points whose readings arrive in the order of their
                   \* time stamps (the code stores any reading as it comes)
  DropMax,         \* Thresholds.DropRate, per minute
  ImbalanceMax,    \* Thresholds.Imbalance, in hundredths
  MaxReadings,     \* bound on the readings ingested
  NoPoint          \* an empty point id

ASSUME ReadingsAreStamped == Readings \subseteq [value : Int, ts : Nat \ {0}]
ASSUME LeakConstantsOK ==
  /\ PressurePoints \in Seq(Points) /\ Orderly \subseteq Points
  /\ DropMax \in Nat \ {0} /\ ImbalanceMax \in Nat \ {0} /\ MaxReadings \in Nat
  /\ NoPoint \notin Points

VARIABLES
  ingested,        \* how many readings have come in
  reported,        \* the severities OnLeak has enqueued a message for
  req              \* req[h]: where analysis h is, and its copies

vars == <<rings, ingested, reported, req>>

-----------------------------------------------------------------------------
Idle == [step |-> "idle", up |-> NoPoint, down |-> NoPoint, upstream |-> <<>>, downstream |-> <<>>]

Init ==
  /\ RingInit
  /\ ingested = 0
  /\ reported = {}
  /\ req = [h \in Handlers |-> Idle]

(* What the senders' discipline allows. *)
MayIngest(p, rd) == p \in Orderly /\ rings[p].n > 0 => Last(rings[p]).ts =< rd.ts

Ingest(p, rd) ==
  /\ ingested < MaxReadings
  /\ MayIngest(p, rd)
  /\ AppendReading(p, rd)
  /\ ingested' = ingested + 1
  /\ UNCHANGED <<reported, req>>

-----------------------------------------------------------------------------
(* The points an analysis is about.  If the client leaves one out, both    *)
(* are the first and last pressure point of the segment, when it has two.  *)
Endpoints(up, down) ==
  IF (up = NoPoint \/ down = NoPoint) /\ Len(PressurePoints) >= 2
  THEN <<Head(PressurePoints), PressurePoints[Len(PressurePoints)]>>
  ELSE <<up, down>>

(* History of a point, or nothing for an empty id. *)
Copy(p) == IF p = NoPoint THEN <<>> ELSE HistoryOf(p)

ReadUpstream(h, up, down) ==
  LET e == Endpoints(up, down) IN
  /\ req[h].step = "idle"
  /\ req' = [req EXCEPT ![h] =
       [Idle EXCEPT !.step = "read", !.up = e[1], !.down = e[2], !.upstream = Copy(e[1])]]
  /\ UNCHANGED <<rings, ingested, reported>>

ReadDownstream(h) ==
  /\ req[h].step = "read"
  /\ req' = [req EXCEPT ![h].step = "analyze", ![h].downstream = Copy(req[h].down)]
  /\ UNCHANGED <<rings, ingested, reported>>

-----------------------------------------------------------------------------
(* The sum of the first n numbers of f. *)
Total(f, n) ==
  LET upTo[k \in 0 .. n] == IF k = 0 THEN 0 ELSE upTo[k - 1] + f[k]
  IN  upTo[n]

Product(f, g, n) == [i \in 1 .. n |-> f[i] * g[i]]

(* regressionSlopeMPaPerMin: the slope of the least-squares line through   *)
(* the readings, x minutes after the first one.                            *)
Minutes(s) == [i \in 1 .. Len(s) |-> s[i].ts - s[1].ts]
Values(s) == [i \in 1 .. Len(s) |-> s[i].value]

Slope(s) ==
  LET n == Len(s)
      x == Minutes(s)
      y == Values(s)
  IN  [num |-> n * Total(Product(x, y, n), n) - Total(x, n) * Total(y, n),
       den |-> n * Total(Product(x, x, n), n) - Total(x, n) * Total(x, n)]

DropHitRising(s) ==  \* Mutation: the sign of the slope
  Len(s) >= 2 /\ LET m == Slope(s) IN m.den # 0 /\ m.num > DropMax * m.den

(* The drop rate is the slope's negation, 0 without two moments to go by.  *)
DropHit(s) ==
  Len(s) >= 2 /\ LET m == Slope(s) IN m.den # 0 /\ -m.num > DropMax * m.den

Latest(s) == IF s = <<>> THEN 0 ELSE s[Len(s)].value

ImbalanceHit(u, d) ==
  /\ u > 0 /\ d > 0
  /\ 100 * (IF u > d THEN u - d ELSE d - u) > ImbalanceMax * u

WindowStartUpstream(u, d) ==  \* Mutation: an earlier downstream reading does not count
  IF u # <<>> THEN u[1].ts ELSE IF d # <<>> THEN d[1].ts ELSE 0

(* Evidence.WindowStart and WindowEnd; 0 is the zero time. *)
WindowStart(u, d) ==
  IF d # <<>> /\ (u = <<>> \/ d[1].ts < u[1].ts) THEN d[1].ts
  ELSE IF u = <<>> THEN 0 ELSE u[1].ts

WindowEnd(u, d) ==
  LET end(s) == IF s = <<>> THEN 0 ELSE s[Len(s)].ts
  IN  IF end(d) > end(u) THEN end(d) ELSE end(u)

Severities(u, d) ==
  LET drop == DropHit(u)
      imbalance == ImbalanceHit(Latest(u), Latest(d))
  IN  IF drop /\ imbalance THEN {"probable"}
      ELSE IF drop \/ imbalance THEN {"suspected"} ELSE {}

(* AnalyzeSegment, and OnLeak if there is an alert. *)
Analyze(h) ==
  /\ req[h].step = "analyze"
  /\ reported' = reported \cup Severities(req[h].upstream, req[h].downstream)
  /\ req' = [req EXCEPT ![h] = Idle]
  /\ UNCHANGED <<rings, ingested>>

-----------------------------------------------------------------------------
Next ==
  \/ \E p \in Points, rd \in Readings : Ingest(p, rd)
  \/ \E h \in Handlers, up, down \in Points \cup {NoPoint} : ReadUpstream(h, up, down)
  \/ \E h \in Handlers : ReadDownstream(h)
  \/ \E h \in Handlers : Analyze(h)

Spec == Init /\ [][Next]_vars

-----------------------------------------------------------------------------
Analyzing(h) == req[h].step = "analyze"

(* The pressure fell from reading i to the later reading j of s by more    *)
(* than the threshold.                                                     *)
Later(s, i, j) == s[i].ts < s[j].ts
FellTooFast(s, i, j) == s[i].value - s[j].value > DropMax * (s[j].ts - s[i].ts)

(***************************************************************************)
(* The fitted line judges what the readings show: an alert for a drop has  *)
(* two readings between which the pressure did fall that fast, and if it   *)
(* did between every two readings of different times there is an alert -   *)
(* also when the readings arrived out of order or at the same minute.      *)
(***************************************************************************)
DropsAreReal ==
  \A h \in Handlers : Analyzing(h) =>
    LET s == req[h].upstream
        pairs == {w \in (DOMAIN s) \X (DOMAIN s) : Later(s, w[1], w[2])}
    IN  /\ DropHit(s) => \E w \in pairs : FellTooFast(s, w[1], w[2])
        /\ pairs # {} /\ (\A w \in pairs : FellTooFast(s, w[1], w[2])) => DropHit(s)

(***************************************************************************)
(* The window of the evidence holds every reading that was analysed, of    *)
(* both points, whichever began or ended first and although they are       *)
(* copied one after the other; for points whose readings arrive in order.  *)
(* (For others it may leave some out: the code takes the first and last    *)
(* stored.)                                                                *)
(***************************************************************************)
WindowCoversSamples ==
  \A h \in Handlers : Analyzing(h) /\ {req[h].up, req[h].down} \subseteq Orderly \cup {NoPoint} =>
    LET u == req[h].upstream  d == req[h].downstream IN
    \A rd \in Range(u) \cup Range(d) : rd.ts \in WindowStart(u, d) .. WindowEnd(u, d)
=============================================================================
