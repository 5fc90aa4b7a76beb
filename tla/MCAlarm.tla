------------------------------ MODULE MCAlarm ------------------------------
EXTENDS Alarm

CONSTANTS p1, p2

(* Limits as the seed sets them, and the seed's rate rule for the first    *)
(* point, next to a threshold rule.                                        *)
Limited == [enabled |-> TRUE, low |-> 1, high |-> 5, rate |-> 2, min |-> 0, max |-> 9]

RateRule == [point |-> p1, kind |-> "rate", enabled |-> TRUE, low |-> 0, high |-> 0, rate |-> 1]
HighRule == [point |-> p1, kind |-> "threshold", enabled |-> TRUE, low |-> 0, high |-> 5, rate |-> 0]

LimitedOnly == {Limited}
BothRules == {RateRule, HighRule}
=============================================================================
