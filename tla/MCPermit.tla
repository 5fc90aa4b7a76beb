------------------------------ MODULE MCPermit ------------------------------
EXTENDS Permit, TLC

CONSTANTS p1, p2

OrderlyOnes == {p1, p2}

(* Two windows that touch without overlapping (each overlaps itself), and   *)
(* one that Apply refuses.                                                 *)
TestWindows ==
  { [start |-> 0, end |-> 1], [start |-> 1, end |-> 2], [start |-> 1, end |-> 1] }

PermitSymmetry == Permutations(OrderlyOnes) \cup Permutations(Handlers)
=============================================================================
