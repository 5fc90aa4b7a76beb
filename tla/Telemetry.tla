----------------------------- MODULE Telemetry -----------------------------
(***************************************************************************)
(* The measurement points, alarm rules and readings of internal/scada, and *)
(* the evaluation of a reading.  Points and rules are put in place by the  *)
(* seed, before the server listens (cmd/server/main.go); afterwards only   *)
(* readings change.                                                        *)
(*                                                                         *)
(* Values, limits and rates are integers; as in the code, 0 is "no limit". *)
(* A reading that is NaN or infinite is rejected with no effect and is not *)
(* enumerated.                                                             *)
(***************************************************************************)
EXTENDS History

CONSTANTS
  PointDefs,   \* the definitions RegisterPoint may be given
  RuleDefs,    \* the rules AddRule may be given
  Values,      \* the values readings have
  MaxTs        \* readings are stamped 1..MaxTs

PointDef == [enabled : BOOLEAN, low : Int, high : Int, rate : Int, min : Int, max : Int]
RuleDef == [point : Points, kind : {"threshold", "rate"}, enabled : BOOLEAN,
            low : Int, high : Int, rate : Int]

ASSUME DefsOK == PointDefs \subseteq PointDef /\ RuleDefs \subseteq RuleDef
ASSUME ReadingsOK == Values \subseteq Int /\ MaxTs \in Nat

VARIABLES
  points,      \* points[p]: the definition of p, a record with no limits
               \* and known = FALSE if p is not registered
  rules,       \* the rule table
  serving      \* TRUE once the HTTP server runs

telemetryVars == <<points, rules, hist, serving>>

-----------------------------------------------------------------------------
Reading == [value : Values, ts : 1..MaxTs]

(* The zero Point, which an unregistered point's readings are judged by.   *)
ZeroDef == [enabled |-> FALSE, low |-> 0, high |-> 0, rate |-> 0, min |-> 0, max |-> 0]

Registered(p) == points[p].known
Def(p) == points[p].def

TelemetryInit ==
  /\ points = [p \in Points |-> [known |-> FALSE, def |-> ZeroDef]]
  /\ rules = {}
  /\ HistoryInit
  /\ serving = FALSE

(* The seed's calls; PutPoint replaces the definition, keeps the readings. *)
RegisterPoint(p, d) ==
  /\ ~serving
  /\ points' = [points EXCEPT ![p] = [known |-> TRUE, def |-> d]]
  /\ UNCHANGED <<rules, hist, serving>>

AddRule(r) ==
  /\ ~serving
  /\ rules' = rules \cup {r}
  /\ UNCHANGED <<points, hist, serving>>

ListenAndServe ==
  /\ ~serving
  /\ serving' = TRUE
  /\ UNCHANGED <<points, rules, hist>>

-----------------------------------------------------------------------------
(* The filter in front of the store. *)
Accepted(p, v) ==
  Registered(p) =>
    /\ Def(p).enabled
    /\ Def(p).min # 0 \/ Def(p).max # 0 => v \in Def(p).min .. Def(p).max

AppendReading(p, rd) ==
  /\ Record(p, rd)
  /\ UNCHANGED <<points, rules, serving>>

-----------------------------------------------------------------------------
HasPointLimits(d) == d.high # 0 \/ d.low # 0

(* The rule made up for a registered point that has limits and no rules.   *)
PointRule(p) ==
  [point |-> p, kind |-> "threshold", enabled |-> TRUE,
   low |-> Def(p).low, high |-> Def(p).high, rate |-> 0]

(* rules.list(p.ID): an unregistered point's zero record has an empty ID,  *)
(* for which the table returns every rule of every point.                  *)
RulesFor(p) ==
  LET own == {r \in rules : r.point = p} IN
  CASE ~Registered(p) -> rules
    [] Registered(p) /\ own = {} /\ HasPointLimits(Def(p)) -> {PointRule(p)}
    [] OTHER -> own

ThresholdHit(r, v) ==
  \/ r.high # 0 /\ v >= r.high
  \/ r.low # 0 /\ v =< r.low

Distance(a, b) == IF a >= b THEN a - b ELSE b - a

(* s is the history that ends with the reading judged; the rate needs the  *)
(* reading before it, and an earlier time stamp on that one.               *)
RateHit(r, p, s) ==
  LET rate == IF r.rate = 0 THEN Def(p).rate ELSE r.rate
      n == Len(s)
  IN /\ rate > 0
     /\ n > 1
     /\ s[n].ts > s[n-1].ts
     /\ Distance(s[n].value, s[n-1].value) > rate * (s[n].ts - s[n-1].ts)

(* The rules that the last reading of history s of point p breaks: one     *)
(* alarm each.                                                             *)
Hits(p, s) ==
  {r \in RulesFor(p) :
     /\ r.enabled
     /\ IF r.kind = "threshold" THEN ThresholdHit(r, s[Len(s)].value) ELSE RateHit(r, p, s)}
=============================================================================
