----------------------------- MODULE MCDispatch -----------------------------
EXTENDS DispatchRefinement, TLC

CONSTANTS v1, c1, s1

OneSegment == [d \in Devices |-> s1]

DispatchSymmetry == Permutations(Orders) \cup Permutations(Handlers)
=============================================================================
