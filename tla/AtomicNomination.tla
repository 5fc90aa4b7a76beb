-------------------------- MODULE AtomicNomination --------------------------
(***************************************************************************)
(* What the nomination and contract services promise: every operation      *)
(* takes effect in one step or not at all.  "It fails atomically if the    *)
(* contract has insufficient remaining capacity" (nomination/service.go,   *)
(* Submit); "the reservation is atomic per contract" (contract/service.go, *)
(* Reserve).  NominationRefinement shows that the services keep it when    *)
(* requests do not overlap.                                                *)
(***************************************************************************)
EXTENDS NominationStore

CONSTANT ReuseContractIds   \* may Create replace an existing contract?

vars == <<contracts, now, noms>>

Init == ContractInit /\ NomInit

CreateContract(c, in) ==
  /\ ContractExists(c) => ReuseContractIds
  /\ PutContract(c, in)
  /\ UNCHANGED noms

SetContractState(c, s) ==
  /\ ContractMove(contracts[c].state, s)
  /\ WriteContractState(c, s)
  /\ UNCHANGED noms

CreateNomination(n, c, v) ==
  /\ noms[n].state = "none"
  /\ ContractExists(c)
  /\ PutNomination(n, c, v)
  /\ UNCHANGED contractVars

(* Submit reserves the volume and marks the nomination, or does neither. *)
Submit(n) ==
  /\ NomMove(noms[n].state, "submitted")
  /\ CanReserve(noms[n].contract, noms[n].volume)
  /\ Debit(noms[n].contract, noms[n].volume)
  /\ noms' = [noms EXCEPT ![n].state = "submitted", ![n].reserved = TRUE]

(* Confirm and Execute. *)
Move(n, target) ==
  /\ NomMove(noms[n].state, target)
  /\ noms' = [noms EXCEPT ![n].state = target]
  /\ UNCHANGED contractVars

(* Cancel gives back what the nomination holds. *)
Cancel(n) ==
  /\ NomMove(noms[n].state, "cancelled")
  /\ IF noms[n].reserved THEN Credit(noms[n].contract, noms[n].volume)
                         ELSE UNCHANGED contractVars
  /\ noms' = [noms EXCEPT ![n].state = "cancelled", ![n].reserved = FALSE]

Next ==
  \/ \E c \in Contracts, in \in ContractInputs : CreateContract(c, in)
  \/ \E c \in Contracts, s \in ContractState : SetContractState(c, s)
  \/ \E n \in Noms, c \in Contracts, v \in Volumes : CreateNomination(n, c, v)
  \/ \E n \in Noms : Submit(n)
  \/ \E n \in Noms, target \in {"confirmed", "executed"} : Move(n, target)
  \/ \E n \in Noms : Cancel(n)
  \/ Tick /\ UNCHANGED noms

Spec == Init /\ [][Next]_vars

-----------------------------------------------------------------------------
TypeOK ==
  /\ contracts \in [Contracts -> ContractRecord]
  /\ now \in 1..MaxTime
  /\ noms \in [Noms -> NomRecord]

(* No contract is ever reserved beyond its daily volume. *)
NoOverbook == \A c \in Contracts : contracts[c].used =< contracts[c].daily
=============================================================================
