----------------------------- MODULE MCMetering -----------------------------
EXTENDS Metering, TLC

CONSTANTS m1

OrderlyOnes == {m1}

(* Two bands that meet at 1, the last one up to and including 2. *)
TestDefs ==
  { [enabled |-> TRUE, bands |-> { [lo |-> 0, hi |-> 1, factor |-> 2],
                                   [lo |-> 1, hi |-> 2, factor |-> 3] }] }

MeteringSymmetry == Permutations(Handlers)
=============================================================================
