---------------------------- MODULE MCNomination ----------------------------
(* Instances of the nomination service for TLC. *)
EXTENDS NominationAccounts, TLC

(* A contract that holds one nomination and stays valid; one that holds    *)
(* two of the smallest and lapses with the first tick of the clock.        *)
SmallContracts == {[daily |-> 1, from |-> 0, to |-> 0]}
EndingContracts == {[daily |-> 2, from |-> 0, to |-> 1]}

RequestSymmetry == Permutations(Noms) \cup Permutations(Handlers)
=============================================================================
