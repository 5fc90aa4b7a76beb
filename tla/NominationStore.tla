-------------------------- MODULE NominationStore --------------------------
(***************************************************************************)
(* The nomination records of internal/nomination, their state machine and  *)
(* the contracts they draw on.  Module Nomination adds the service's       *)
(* requests, step by step; module AtomicNomination adds what the service   *)
(* promises, one step per operation.                                       *)
(***************************************************************************)
EXTENDS Contract

CONSTANTS
  Noms,        \* the nomination ids NewNominationID will hand out
  Volumes,     \* the volumes nominated
  MaxVolume,   \* a bound on them
  None         \* "no nomination", "no contract"

ASSUME VolumesOK == MaxVolume \in Nat /\ Volumes \subseteq 1..MaxVolume  \* RequirePositive
ASSUME NoneOK == None \notin Noms \cup Contracts

VARIABLE
  noms         \* noms[n]: the stored nomination; state "none" before Create

-----------------------------------------------------------------------------
NomState == {"draft", "submitted", "confirmed", "executed", "cancelled"}

NomTransitions ==
  [ draft     |-> {"submitted", "cancelled"},
    submitted |-> {"confirmed", "cancelled"},
    confirmed |-> {"executed", "cancelled"},
    executed  |-> {},
    cancelled |-> {} ]

NomMove(src, dst) == src \in NomState /\ dst \in NomTransitions[src]

NomRecord ==
  [state : NomState \cup {"none"}, reserved : BOOLEAN,
   contract : Contracts \cup {None}, volume : Nat]

NoNom == [state |-> "none", reserved |-> FALSE, contract |-> None, volume |-> 0]

NomInit == noms = [n \in Noms |-> NoNom]

PutNomination(n, c, v) ==
  noms' = [noms EXCEPT ![n] =
             [state |-> "draft", reserved |-> FALSE, contract |-> c, volume |-> v]]
=============================================================================
