------------------------ MODULE NominationRefinement ------------------------
(***************************************************************************)
(* The services of module Nomination, when one request is served at a      *)
(* time, implement AtomicNomination.  A Submit takes effect when Reserve's *)
(* checks pass, a Cancel when the capacity is credited (or, if none is     *)
(* held, when it is accepted); every later step of the request is a        *)
(* stutter, because the mapping below already shows its effect.            *)
(***************************************************************************)
EXTENDS Nomination

(* The refinement is about a service that one request uses at a time. *)
OneRequestAtATime == \A g, h \in Handlers : g = h

(* A submission that will still debit c. *)
PendingDebit(c) ==
  IF Debiting(c) = {} THEN 0 ELSE VolumeOf(CHOOSE h \in Debiting(c) : TRUE)

At(n, steps) == \E h \in Handlers : req[h].nom = n /\ req[h].step \in steps

AbsContracts ==
  [c \in Contracts |-> [contracts[c] EXCEPT !.used = @ + PendingDebit(c)]]

AbsNoms ==
  [n \in Noms |->
     CASE At(n, {"debit", "submit"}) -> [noms[n] EXCEPT !.state = "submitted", !.reserved = TRUE]
       [] At(n, {"cancel"})          -> [noms[n] EXCEPT !.state = "cancelled", !.reserved = FALSE]
       [] OTHER                      -> noms[n]]

Atomic == INSTANCE AtomicNomination WITH contracts <- AbsContracts, noms <- AbsNoms

(***************************************************************************)
(* Requests served one at a time are atomic: no failure of a Submit leaves *)
(* capacity behind, no Cancel releases what was not held, and no contract  *)
(* is overbooked.                                                          *)
(***************************************************************************)
ImplementsAtomic == Atomic!Spec
=============================================================================
