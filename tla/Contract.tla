------------------------------ MODULE Contract ------------------------------
(***************************************************************************)
(* The shipper contracts of internal/contract: the store, the state        *)
(* machine and the capacity arithmetic.  A contract holds the contracted   *)
(* daily volume, the volume nominations have reserved of it, and a         *)
(* validity window.  The service's multi-step operations (Reserve,         *)
(* Release, SetState, ExpireDue) run inside concurrent requests and are    *)
(* composed from these steps by module Nomination.                         *)
(*                                                                         *)
(* Volumes are natural numbers (the code's float64 volumes are only added, *)
(* subtracted and compared).  Time 0 stands for Go's zero time, "no bound".*)
(***************************************************************************)
EXTENDS Integers

CONSTANTS
  Contracts,       \* the contract ids clients use
  ContractInputs,  \* the payloads they may send: [daily, from, to]
  MaxTime          \* bound on the modelled clock

ASSUME ContractInputsOK ==
  /\ ContractInputs \subseteq [daily : Nat \ {0}, from : Nat, to : Nat]
  /\ \A in \in ContractInputs : in.from # 0 /\ in.to # 0 => in.from < in.to
ASSUME MaxTimeOK == MaxTime \in Nat \ {0}

VARIABLES
  contracts,       \* contracts[id]: the stored record; state "none" if there is none
  now              \* the service clock

contractVars == <<contracts, now>>

-----------------------------------------------------------------------------
ContractState == {"active", "suspended", "expired", "terminated"}

ContractTransitions ==
  [ active     |-> {"suspended", "expired", "terminated"},
    suspended  |-> {"active", "terminated", "expired"},
    expired    |-> {},
    terminated |-> {} ]

ContractMove(src, dst) == src \in ContractState /\ dst \in ContractTransitions[src]

ContractRecord ==
  [state : ContractState \cup {"none"}, used : Nat, daily : Nat, from : Nat, to : Nat]

NoContract == [state |-> "none", used |-> 0, daily |-> 0, from |-> 0, to |-> 0]

ContractExists(c) == contracts[c].state # "none"

Remaining(c) ==
  IF contracts[c].used > contracts[c].daily THEN 0
                                            ELSE contracts[c].daily - contracts[c].used

IsActiveNow(c) ==
  /\ contracts[c].state = "active"
  /\ contracts[c].from = 0 \/ contracts[c].from =< now
  /\ contracts[c].to = 0 \/ now =< contracts[c].to

CanReserveUnchecked(c, amount) ==  \* Mutation: remaining capacity not compared
  ContractExists(c) /\ IsActiveNow(c)

CanReserveInactive(c, amount) ==  \* Mutation: the contract may be over
  ContractExists(c) /\ amount =< Remaining(c)

(* The checks Reserve makes on the copy it reads, before it touches the    *)
(* contract.                                                               *)
CanReserve(c, amount) ==
  /\ ContractExists(c)
  /\ IsActiveNow(c)
  /\ amount =< Remaining(c)

(* ExpireDue's test of one contract of its snapshot. *)
IsDue(c) ==
  /\ contracts[c].state = "active"
  /\ contracts[c].to # 0
  /\ contracts[c].to < now

-----------------------------------------------------------------------------
ContractInit ==
  /\ contracts = [c \in Contracts |-> NoContract]
  /\ now = 1

(* Put: inserts the contract, or replaces the one of that id, whose        *)
(* reserved volume is thereby forgotten.                                   *)
PutContract(c, in) ==
  /\ contracts' = [contracts EXCEPT ![c] =
                     [state |-> "active", used |-> 0,
                      daily |-> in.daily, from |-> in.from, to |-> in.to]]
  /\ UNCHANGED now

(* The store updates, each one step under the contract's lock. *)
Debit(c, amount) ==
  /\ contracts' = [contracts EXCEPT ![c].used = @ + amount]
  /\ UNCHANGED now

CreditNothing(c, amount) == UNCHANGED contractVars  \* Mutation: nothing released

Credit(c, amount) ==
  /\ contracts' = [contracts EXCEPT ![c].used = IF @ < amount THEN 0 ELSE @ - amount]
  /\ UNCHANGED now

WriteContractState(c, s) ==
  /\ contracts' = [contracts EXCEPT ![c].state = s]
  /\ UNCHANGED now

Tick ==
  /\ now < MaxTime
  /\ now' = now + 1
  /\ UNCHANGED contracts
=============================================================================
