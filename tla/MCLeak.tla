------------------------------- MODULE MCLeak -------------------------------
EXTENDS Leak

CONSTANTS p1, p2, p3

(* Pressures that rise, fall slowly, fall fast and vanish, two of them in  *)
(* the same minute.                                                        *)
SomeReadings ==
  {[value |-> 8, ts |-> 1], [value |-> 5, ts |-> 2], [value |-> 9, ts |-> 3], [value |-> 0, ts |-> 3]}

BothPoints == <<p1, p2>>
=============================================================================
