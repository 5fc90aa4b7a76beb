------------------------- MODULE MCNominationSerial -------------------------
(* Requests served one at a time, for the refinement of AtomicNomination. *)
EXTENDS NominationRefinement

SerialInputs == {[daily |-> 2, from |-> 0, to |-> 2], [daily |-> 1, from |-> 2, to |-> 0]}
=============================================================================
