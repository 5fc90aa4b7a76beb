----------------------------- MODULE MCTopology -----------------------------
EXTENDS Topology

CONSTANTS v1, s1, t1, t2, t3

SettledOnes == {v1, s1}

(* A segment can be moved to another station, and stay at one. *)
TwoRoutes == {[from |-> t1, to |-> t2], [from |-> t3, to |-> t1]}
=============================================================================
