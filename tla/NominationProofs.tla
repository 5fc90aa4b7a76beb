-------------------------- MODULE NominationProofs --------------------------
(***************************************************************************)
(* Proofs about module Nomination, for any number of requests in flight,   *)
(* and of its refinement of AtomicNomination for one at a time.            *)
(***************************************************************************)
EXTENDS NominationRefinement, NominationAccounts, FiniteSetTheorems, WellFoundedInduction, TLAPS

(* A stored nomination is of an existing contract and a positive volume.   *)
RecordsOK ==
  \A n \in Noms : noms[n].state # "none" =>
    /\ noms[n].contract \in Contracts
    /\ ContractExists(noms[n].contract)
    /\ noms[n].volume \in 1..MaxVolume

(* The local variables a request has at each of its steps. *)
RequestsOK ==
  \A h \in Handlers :
    /\ req[h].step \in NomStep => req[h].nom \in Noms /\ noms[req[h].nom].state # "none"
    /\ req[h].step \notin NomStep => req[h].nom = None
    /\ req[h].step = "move" => req[h].target \in {"confirmed", "executed"}
    /\ req[h].step = "setState" =>
         req[h].contract \in Contracts /\ req[h].target \in ContractState

TypeInv == TypeOK /\ RecordsOK /\ RequestsOK

-----------------------------------------------------------------------------
(* The records the actions write, and what their fields are typed by. *)
LEMMA InitTypeInv == Init => TypeInv
  BY MaxTimeOK, NoneOK
  DEF Init, ContractInit, NomInit, TypeInv, TypeOK, RecordsOK, RequestsOK, ContractRecord,
      NoContract, NomRecord, NoNom, Request, Idle, Step, NomStep

LEMMA ContractStepTypeInv ==
  ASSUME TypeInv, NEW h \in Handlers, ContractRequest(h)
  PROVE  TypeInv'
<1> USE DEF TypeInv, TypeOK, RecordsOK, RequestsOK, ContractExists, contractVars
<1>1. ASSUME NEW c \in Contracts, NEW in \in ContractInputs, CreateContract(h, c, in)
      PROVE  TypeInv'
  BY <1>1, ContractInputsOK DEF CreateContract, PutContract, ContractRecord, ContractState
<1>2. ASSUME NEW c \in Contracts, NEW s \in ContractState, SetStateRead(h, c, s)
      PROVE  TypeInv'
  BY <1>2 DEF SetStateRead, Become, SettingState, Request, Step, NomStep
<1>3. ASSUME SetStateWrite(h)
      PROVE  TypeInv'
  <2>1. req[h].contract \in Contracts /\ req[h].target \in ContractState
    BY <1>3 DEF SetStateWrite
  <2>2. contracts' \in [Contracts -> ContractRecord]
    BY <1>3, <2>1 DEF SetStateWrite, WriteContractState, ContractRecord
  <2>3. \A c \in Contracts : contracts[c].state # "none" => contracts'[c].state # "none"
    BY <1>3, <2>1 DEF SetStateWrite, WriteContractState, ContractRecord, ContractState
  <2>4. /\ req[h].todo \subseteq Contracts
        /\ Scanning(req[h].todo) \in Request
        /\ Scanning(req[h].todo).step \notin NomStep \cup {"setState"}
        /\ Scanning(req[h].todo).nom = None
    BY DEF Request, Scanning, Idle, Step, NomStep
  <2>. QED
    BY <1>3, <2>2, <2>3, <2>4 DEF SetStateWrite, WriteContractState, Become, NomStep
<1>4. ASSUME NEW todo \in SUBSET Contracts, Become(h, Scanning(todo)),
             UNCHANGED <<contracts, now, noms>>
      PROVE  TypeInv'
  BY <1>4 DEF Become, Scanning, Idle, Request, Step, NomStep
<1>5. ASSUME NEW c \in Contracts, ExpireNext(h, c)
      PROVE  TypeInv'
  BY <1>5 DEF ExpireNext, Become, SettingState, Request, Step, NomStep, ContractState
<1>6. ASSUME NEW c \in Contracts, ExpireSkip(h, c)
      PROVE  TypeInv'
  BY <1>4, <1>6 DEF ExpireSkip, Request
<1>7. ASSUME ExpireDueRead(h)
      PROVE  TypeInv'
  BY <1>4, <1>7 DEF ExpireDueRead
<1>. QED
  BY <1>1, <1>2, <1>3, <1>5, <1>6, <1>7 DEF ContractRequest

LEMMA NominationUpdated ==
  ASSUME noms \in [Noms -> NomRecord], NEW n \in Noms, NEW s \in NomState
  PROVE  /\ [noms EXCEPT ![n].state = s] \in [Noms -> NomRecord]
         /\ [noms EXCEPT ![n].state = s, ![n].reserved = TRUE] \in [Noms -> NomRecord]
         /\ [noms EXCEPT ![n].state = s, ![n].reserved = FALSE] \in [Noms -> NomRecord]
  BY DEF NomRecord

LEMMA NominationStepTypeInv ==
  ASSUME TypeInv, NEW h \in Handlers, NominationRequest(h)
  PROVE  TypeInv'
<1> USE DEF TypeInv, TypeOK, RecordsOK, RequestsOK, ContractExists, contractVars
<1>1. ASSUME NEW n \in Noms, NEW c \in Contracts, NEW v \in Volumes,
             CreateNomination(h, n, c, v)
      PROVE  TypeInv'
  BY <1>1, VolumesOK DEF CreateNomination, PutNomination, NomRecord, NomState
<1>2. ASSUME NEW n \in Noms, NEW t \in NomState, NEW s \in NomStep, Begin(h, n, t, s),
             s = "move" => t \in {"confirmed", "executed"}
      PROVE  TypeInv'
  <2>1. noms[n].state # "none"
    BY <1>2 DEF Begin, NomMove, NomState
  <2>. QED
    BY <1>2, <2>1 DEF Begin, Become, Operation, Request, Step, NomStep
<1>3. ASSUME ReserveCheck(h)
      PROVE  TypeInv'
  BY <1>3 DEF ReserveCheck, Goto, Request, Step, NomStep
<1>4. ASSUME ReserveReject(h)
      PROVE  TypeInv'
  BY <1>4 DEF ReserveReject, Return, Become, Idle, Request, Step, NomStep
<1>5. ASSUME ReserveDebit(h)
      PROVE  TypeInv'
  <2>1. /\ ContractOf(h) \in Contracts
        /\ VolumeOf(h) \in 1..MaxVolume
    BY <1>5 DEF ReserveDebit, ContractOf, VolumeOf, NomStep
  <2>2. contracts' \in [Contracts -> ContractRecord]
    BY <1>5, <2>1, VolumesOK DEF ReserveDebit, Debit, ContractRecord
  <2>3. \A c \in Contracts : contracts'[c].state = contracts[c].state
    BY <1>5, <2>1 DEF ReserveDebit, Debit, ContractRecord
  <2>. QED
    BY <1>5, <2>2, <2>3 DEF ReserveDebit, Debit, Goto, Request, Step, NomStep
<1>6. ASSUME noms' \in [Noms -> NomRecord],
             \A n \in Noms : /\ noms[n].state # "none" <=> noms'[n].state # "none"
                             /\ noms'[n].contract = noms[n].contract
                             /\ noms'[n].volume = noms[n].volume,
             Return(h), UNCHANGED contractVars
      PROVE  TypeInv'
  <2>1. \A g \in Handlers : req'[g] = IF g = h THEN Idle ELSE req[g]
    BY <1>6 DEF Return, Become
  <2>2. RequestsOK'
    BY <1>6, <2>1 DEF Idle, NomStep
  <2>3. RecordsOK'
    BY <1>6
  <2>4. req' \in [Handlers -> Request]
    BY <1>6 DEF Return, Become, Idle, Request, Step
  <2>. QED
    BY <1>6, <2>2, <2>3, <2>4
<1>7. ASSUME SubmitWrite(h) \/ MoveWrite(h) \/ CancelWrite(h)
      PROVE  TypeInv'
  <2>1. req[h].nom \in Noms /\ noms[req[h].nom].state # "none"
    BY <1>7 DEF SubmitWrite, MoveWrite, CancelWrite, NomStep
  <2>2. noms' \in [Noms -> NomRecord]
    <3>1. CASE SubmitWrite(h)
      BY <2>1, <3>1, NominationUpdated DEF SubmitWrite, NomState
    <3>2. CASE MoveWrite(h)
      BY <2>1, <3>2, NominationUpdated DEF MoveWrite, NomState
    <3>3. CASE CancelWrite(h)
      BY <2>1, <3>3, NominationUpdated DEF CancelWrite, NomState
    <3>. QED
      BY <1>7, <3>1, <3>2, <3>3
  <2>3. \A n \in Noms : /\ noms[n].state # "none" <=> noms'[n].state # "none"
                        /\ noms'[n].contract = noms[n].contract
                        /\ noms'[n].volume = noms[n].volume
    BY <1>7, <2>1 DEF SubmitWrite, MoveWrite, CancelWrite, NomRecord
  <2>. QED
    BY <1>6, <1>7, <2>2, <2>3 DEF SubmitWrite, MoveWrite, CancelWrite
<1>8. ASSUME ReleaseCredit(h)
      PROVE  TypeInv'
  <2>1. /\ ContractOf(h) \in Contracts
        /\ VolumeOf(h) \in 1..MaxVolume
    BY <1>8 DEF ReleaseCredit, ContractOf, VolumeOf, NomStep
  <2>2. contracts' \in [Contracts -> ContractRecord]
    BY <1>8, <2>1, VolumesOK DEF ReleaseCredit, Credit, ContractRecord
  <2>3. \A c \in Contracts : contracts'[c].state = contracts[c].state
    BY <1>8, <2>1 DEF ReleaseCredit, Credit, ContractRecord
  <2>. QED
    BY <1>8, <2>2, <2>3 DEF ReleaseCredit, Credit, Goto, Request, Step, NomStep
<1>9. ASSUME NEW n \in Noms, SubmitRead(h, n) \/ ConfirmRead(h, n) \/ ExecuteRead(h, n)
                              \/ CancelRead(h, n)
      PROVE  TypeInv'
  BY <1>2, <1>9 DEF SubmitRead, ConfirmRead, ExecuteRead, CancelRead, NomState, NomStep
<1>. QED
  BY ONLY NominationRequest(h), <1>1, <1>3, <1>4, <1>5, <1>7, <1>8, <1>9 DEF NominationRequest

LEMMA NextTypeInv == TypeInv /\ [Next]_vars => TypeInv'
<1> SUFFICES ASSUME TypeInv, [Next]_vars PROVE TypeInv'
  OBVIOUS
<1>1. CASE TickStep
  BY <1>1, MaxTimeOK
  DEF TickStep, Tick, TypeInv, TypeOK, RecordsOK, RequestsOK, ContractExists
<1>2. CASE UNCHANGED vars
  BY <1>2 DEF vars, TypeInv, TypeOK, RecordsOK, RequestsOK, ContractExists
<1>. QED
  BY <1>1, <1>2, ContractStepTypeInv, NominationStepTypeInv DEF Next

(***************************************************************************)
(* The stores and the requests' local variables keep their types: volumes  *)
(* reserved are never negative, and a nomination in the store is always of *)
(* a contract in the store.                                                *)
(***************************************************************************)
THEOREM Typing == Spec => []TypeInv
  BY InitTypeInv, NextTypeInv, PTL DEF Spec

(* What an operation on a nomination works on. *)
LEMMA OperandsTyped ==
  ASSUME TypeInv, NEW h \in Handlers, req[h].step \in NomStep
  PROVE  /\ req[h].nom \in Noms
         /\ ContractOf(h) \in Contracts /\ VolumeOf(h) \in 1 .. MaxVolume /\ VolumeOf(h) \in Nat
         /\ contracts[ContractOf(h)].used \in Nat /\ contracts[ContractOf(h)].daily \in Nat
<1>1. /\ req[h].nom \in Noms
      /\ noms[req[h].nom].contract \in Contracts /\ noms[req[h].nom].volume \in 1 .. MaxVolume
  BY DEF TypeInv, RequestsOK, RecordsOK
<1>2. contracts[noms[req[h].nom].contract] \in ContractRecord
  BY <1>1 DEF TypeInv, TypeOK
<1>. QED
  BY <1>1, <1>2, VolumesOK DEF ContractOf, VolumeOf, ContractRecord

(* What the stores' updates leave of a contract. *)
LEMMA DebitFields ==
  ASSUME TypeInv, NEW c \in Contracts, NEW v \in Nat, Debit(c, v)
  PROVE  /\ contracts'[c].used = contracts[c].used + v
         /\ \A d \in Contracts \ {c} : contracts'[d] = contracts[d]
         /\ \A d \in Contracts : /\ contracts'[d].daily = contracts[d].daily
                                /\ contracts'[d].state = contracts[d].state
  BY DEF TypeInv, TypeOK, Debit, ContractRecord

LEMMA CreditFields ==
  ASSUME TypeInv, NEW c \in Contracts, NEW v \in Nat, Credit(c, v)
  PROVE  /\ contracts'[c].used = IF contracts[c].used < v THEN 0 ELSE contracts[c].used - v
         /\ \A d \in Contracts \ {c} : contracts'[d] = contracts[d]
         /\ \A d \in Contracts : /\ contracts'[d].daily = contracts[d].daily
                                /\ contracts'[d].state = contracts[d].state
  BY DEF TypeInv, TypeOK, Credit, ContractRecord

(* What passes Reserve's checks fits into what is left of the contract. *)
LEMMA ReserveFits ==
  ASSUME TypeInv, NEW h \in Handlers, ReserveCheck(h)
  PROVE  contracts[ContractOf(h)].used + VolumeOf(h) =< contracts[ContractOf(h)].daily
<1>1. /\ VolumeOf(h) \in Nat /\ VolumeOf(h) >= 1
      /\ contracts[ContractOf(h)].used \in Nat /\ contracts[ContractOf(h)].daily \in Nat
  BY OperandsTyped, VolumesOK DEF ReserveCheck, NomStep
<1>2. VolumeOf(h) =< Remaining(ContractOf(h))
  BY DEF ReserveCheck, CanReserve
<1>. QED
  BY <1>1, <1>2 DEF Remaining

-----------------------------------------------------------------------------
(***************************************************************************)
(* The mark "holds capacity" and the state of a nomination agree, whatever *)
(* requests overlap (MarkMatchesState).                                    *)
(***************************************************************************)
THEOREM MarkCorrect == Spec => []MarkMatchesState
<1>1. Init => MarkMatchesState
  BY DEF Init, NomInit, NoNom, MarkMatchesState
<1>2. TypeInv /\ MarkMatchesState /\ [Next]_vars => MarkMatchesState'
  <2> SUFFICES ASSUME TypeInv, MarkMatchesState, [Next]_vars
               PROVE  MarkMatchesState'
    OBVIOUS
  <2> USE DEF TypeInv, TypeOK, NomRecord, MarkMatchesState, contractVars
  <2>1. ASSUME NEW h \in Handlers, ContractRequest(h)
        PROVE  MarkMatchesState'
    BY <2>1 DEF ContractRequest, CreateContract, SetStateRead, SetStateWrite, ExpireDueRead,
                ExpireNext, ExpireSkip
  <2>2. ASSUME NEW h \in Handlers, NominationRequest(h)
        PROVE  MarkMatchesState'
    <3>1. CASE \E n \in Noms, c \in Contracts, v \in Volumes : CreateNomination(h, n, c, v)
      BY <3>1 DEF CreateNomination, PutNomination
    <3>2. CASE SubmitWrite(h)
      BY <3>2 DEF SubmitWrite
    <3>3. CASE MoveWrite(h)
      BY <3>3 DEF MoveWrite, RequestsOK
    <3>4. CASE CancelWrite(h)
      BY <3>4 DEF CancelWrite
    <3>5. CASE UNCHANGED noms
      BY <3>5
    <3>. QED
      BY <2>2, <3>1, <3>2, <3>3, <3>4, <3>5
      DEF NominationRequest, SubmitRead, ConfirmRead, ExecuteRead, CancelRead, Begin,
          ReserveCheck, ReserveReject, ReserveDebit, ReleaseCredit
  <2>3. CASE TickStep \/ UNCHANGED vars
    BY <2>3 DEF TickStep, Tick, vars
  <2>. QED
    BY <2>1, <2>2, <2>3 DEF Next
<1>. QED
  BY <1>1, <1>2, Typing, PTL DEF Spec

-----------------------------------------------------------------------------
(***************************************************************************)
(* Clients that never have two requests about one nomination in flight.    *)
(***************************************************************************)

(* What rules out two requests about one nomination: the clients, or a     *)
(* server that serves one request at a time.                               *)
NoOverlap == OnePerNomination \/ \A g, h \in Handlers : g = h

(* A request in flight is alone with its nomination, ... *)
Exclusive ==
  \A g, h \in Handlers : req[g].nom = req[h].nom /\ req[h].nom # None => g = h

(* ... so that what it read of the nomination still holds. *)
CopyStillTrue ==
  \A h \in Handlers :
    LET state == noms[req[h].nom].state IN
    /\ req[h].step \in {"reserve", "debit", "submit"} => state = "draft"
    /\ req[h].step = "move" => NomMove(state, req[h].target)
    /\ req[h].step = "release" => state \in {"submitted", "confirmed"}
    /\ req[h].step = "cancel" => state \in {"draft", "submitted", "confirmed"}

ClientInv == TypeInv /\ Exclusive /\ CopyStillTrue /\ LiveHoldsCapacity

LEMMA InitClientInv == Init => ClientInv
  BY InitTypeInv
  DEF Init, NomInit, NoNom, Idle, ClientInv, Exclusive, CopyStillTrue, LiveHoldsCapacity

LEMMA NextClientInv ==
  ASSUME NoOverlap
  PROVE  ClientInv /\ [Next]_vars => ClientInv'
<1> SUFFICES ASSUME ClientInv, [Next]_vars PROVE (Exclusive /\ CopyStillTrue /\ LiveHoldsCapacity)'
  BY NextTypeInv DEF ClientInv
<1> USE DEF ClientInv, TypeInv, TypeOK, RequestsOK, Exclusive, CopyStillTrue, LiveHoldsCapacity,
            contractVars
<1>1. ASSUME NEW h \in Handlers, ContractRequest(h)
      PROVE  (Exclusive /\ CopyStillTrue /\ LiveHoldsCapacity)'
  <2>1. ASSUME NEW r, Become(h, r), noms' = noms, r.nom = None, r.step \notin NomStep
        PROVE  (Exclusive /\ CopyStillTrue /\ LiveHoldsCapacity)'
    BY <2>1 DEF Become, NomStep
  <2>2. ASSUME NEW todo, Become(h, Scanning(todo)), noms' = noms
        PROVE  (Exclusive /\ CopyStillTrue /\ LiveHoldsCapacity)'
    BY <2>1, <2>2 DEF Scanning, Idle, NomStep
  <2>3. ASSUME NEW c, NEW s, NEW todo, Become(h, SettingState(c, s, todo)), noms' = noms
        PROVE  (Exclusive /\ CopyStillTrue /\ LiveHoldsCapacity)'
    BY <2>1, <2>3 DEF SettingState, NomStep
  <2>4. CASE UNCHANGED <<noms, req>>
    BY <2>4
  <2>. QED
    BY <1>1, <2>2, <2>3, <2>4
    DEF ContractRequest, CreateContract, SetStateRead, SetStateWrite, ExpireDueRead,
        ExpireNext, ExpireSkip
<1>2. ASSUME NEW h \in Handlers, NominationRequest(h)
      PROVE  (Exclusive /\ CopyStillTrue /\ LiveHoldsCapacity)'
  <2>1. ASSUME NEW n \in Noms, NEW c \in Contracts, NEW v \in Volumes,
               CreateNomination(h, n, c, v)
        PROVE  (Exclusive /\ CopyStillTrue /\ LiveHoldsCapacity)'
    BY <2>1 DEF CreateNomination, PutNomination, NomRecord, NomStep
  <2>2. ASSUME NEW n \in Noms, SubmitRead(h, n) \/ ConfirmRead(h, n) \/ ExecuteRead(h, n)
                                 \/ CancelRead(h, n)
        PROVE  (Exclusive /\ CopyStillTrue /\ LiveHoldsCapacity)'
    <3>1. n # None /\ \A g \in Handlers : req[g].nom # n
      BY <2>2, NoneOK
      DEF SubmitRead, ConfirmRead, ExecuteRead, CancelRead, Begin, MayRequest, IsIdle, NomStep,
          NoOverlap
    <3>2. CopyStillTrue'
      BY <2>2, <3>1 DEF SubmitRead, ConfirmRead, ExecuteRead, CancelRead, Begin, Become,
                        Operation, NomMove, NomState, NomTransitions
    <3>. QED
      BY <2>2, <3>1, <3>2 DEF SubmitRead, ConfirmRead, ExecuteRead, CancelRead, Begin, Become,
                              Operation
  <2>3. ASSUME noms' = noms,
               \/ ReserveCheck(h) \/ ReserveReject(h) \/ ReserveDebit(h) \/ ReleaseCredit(h)
        PROVE  (Exclusive /\ CopyStillTrue /\ LiveHoldsCapacity)'
    BY <2>3 DEF ReserveCheck, ReserveReject, ReserveDebit, ReleaseCredit, Goto, Return, Become,
                Idle, Request
  <2>4. ASSUME SubmitWrite(h) \/ MoveWrite(h) \/ CancelWrite(h)
        PROVE  (Exclusive /\ CopyStillTrue /\ LiveHoldsCapacity)'
    <3>1. /\ req[h].nom \in Noms /\ req[h].nom # None
          /\ req' = [req EXCEPT ![h] = Idle]
          /\ \A n \in Noms \ {req[h].nom} : noms'[n] = noms[n]
      BY <2>4, NoneOK DEF SubmitWrite, MoveWrite, CancelWrite, Return, Become, NomStep
    <3>2. Exclusive'
      BY <3>1 DEF Idle
    <3>3. CopyStillTrue'
      BY <3>1 DEF Idle, NomStep
    <3>4. LiveHoldsCapacity'
      BY <2>4, <3>1 DEF SubmitWrite, MoveWrite, CancelWrite, NomRecord, NomMove, NomState,
                        NomTransitions
    <3>. QED
      BY <3>2, <3>3, <3>4
  <2>. QED
    BY <1>2, <2>1, <2>2, <2>3, <2>4
    DEF NominationRequest, ReserveCheck, ReserveReject, ReserveDebit, ReleaseCredit
<1>3. CASE TickStep \/ UNCHANGED vars
  BY <1>3 DEF TickStep, Tick, vars
<1>. QED
  BY <1>1, <1>2, <1>3 DEF Next

(***************************************************************************)
(* With such clients a nomination holds capacity exactly while it is       *)
(* submitted, confirmed or executed, for any number of requests about      *)
(* different nominations and about contracts.                              *)
(***************************************************************************)
THEOREM LiveHolds ==
  ASSUME OnePerNomination
  PROVE  Spec => []LiveHoldsCapacity
<1>1. ClientInv => LiveHoldsCapacity
  BY DEF ClientInv
<1>2. ClientInv /\ [Next]_vars => ClientInv'
  BY NextClientInv DEF NoOverlap
<1>. QED
  BY <1>1, <1>2, InitClientInv, PTL DEF Spec

(***************************************************************************)
(* With such clients no nomination ever leaves its transition table: no    *)
(* executed or cancelled nomination comes back.                            *)
(***************************************************************************)
THEOREM LifecycleKept ==
  ASSUME OnePerNomination
  PROVE  Spec => NominationLifecycle
<1>1. ClientInv /\ [Next]_vars =>
        [\A n \in Noms :
           noms'[n].state # noms[n].state /\ noms[n].state # "none"
             => NomMove(noms[n].state, noms'[n].state)]_vars
  <2> SUFFICES ASSUME ClientInv, Next, NEW n \in Noms,
                      noms'[n].state # noms[n].state, noms[n].state # "none"
               PROVE  NomMove(noms[n].state, noms'[n].state)
    OBVIOUS
  <2>1. PICK h \in Handlers :
          \/ \E m \in Noms, c \in Contracts, v \in Volumes : CreateNomination(h, m, c, v)
          \/ SubmitWrite(h) \/ MoveWrite(h) \/ CancelWrite(h)
    BY DEF Next, ContractRequest, CreateContract, SetStateRead, SetStateWrite, ExpireDueRead,
           ExpireNext, ExpireSkip, NominationRequest, SubmitRead, ConfirmRead, ExecuteRead,
           CancelRead, Begin, ReserveCheck, ReserveReject, ReserveDebit, ReleaseCredit,
           TickStep, Tick
  <2>2. CASE \E m \in Noms, c \in Contracts, v \in Volumes : CreateNomination(h, m, c, v)
    BY <2>2 DEF ClientInv, TypeInv, TypeOK, CreateNomination, PutNomination
  <2>3. CASE SubmitWrite(h) \/ MoveWrite(h) \/ CancelWrite(h)
    <3>1. n = req[h].nom
      BY <2>3 DEF ClientInv, TypeInv, TypeOK, SubmitWrite, MoveWrite, CancelWrite
    <3>2. noms[n] \in NomRecord /\ DOMAIN noms = Noms
      BY DEF ClientInv, TypeInv, TypeOK
    <3>3. CASE SubmitWrite(h)
      <4>1. noms'[n].state = "submitted" /\ noms[n].state = "draft"
        BY <3>1, <3>2, <3>3 DEF ClientInv, CopyStillTrue, SubmitWrite, NomRecord
      <4>. QED
        BY <4>1 DEF NomMove, NomState, NomTransitions
    <3>4. CASE MoveWrite(h)
      <4>1. noms'[n].state = req[h].target
        BY <3>1, <3>2, <3>4 DEF MoveWrite, NomRecord
      <4>. QED
        BY <3>1, <3>4, <4>1 DEF ClientInv, CopyStillTrue, MoveWrite, NomMove
    <3>5. CASE CancelWrite(h)
      <4>1. noms'[n].state = "cancelled" /\ noms[n].state \in {"draft", "submitted", "confirmed"}
        BY <3>1, <3>2, <3>5 DEF ClientInv, CopyStillTrue, CancelWrite, NomRecord
      <4>. QED
        BY <4>1 DEF NomMove, NomState, NomTransitions
    <3>. QED
      BY <2>3, <3>3, <3>4, <3>5
  <2>. QED
    BY <2>1, <2>2, <2>3
<1>2. ClientInv /\ [Next]_vars => ClientInv'
  BY NextClientInv DEF NoOverlap
<1>. QED
  BY <1>1, <1>2, InitClientInv, PTL DEF Spec, NominationLifecycle

-----------------------------------------------------------------------------
(***************************************************************************)
(* How far overlapping reservations can overbook a contract.               *)
(***************************************************************************)
LEMMA MaxVolumeMono ==
  ASSUME NEW a \in Nat, NEW b \in Nat, a =< b
  PROVE  MaxVolume * a =< MaxVolume * b
<1>1. PICK d \in Nat : b = a + d
  BY b - a \in Nat
<1>2. MaxVolume * b = MaxVolume * a + MaxVolume * d /\ MaxVolume * d >= 0
  BY <1>1, VolumesOK
<1>. QED
  BY <1>2, VolumesOK

LEMMA DebitingFinite ==
  ASSUME NEW c \in Contracts
  PROVE  /\ IsFiniteSet(Debiting(c))
         /\ Cardinality(Debiting(c)) \in Nat
         /\ Cardinality(Handlers) \in Nat
         /\ Cardinality(Debiting(c)) =< Cardinality(Handlers)
  BY HandlersOK, FS_Subset, FS_CardinalityType DEF Debiting

(* Requests that do not enter or leave the step before the debit, and      *)
(* nominations that keep their contract, leave the set as it is.           *)
LEMMA DebitingUnchanged ==
  ASSUME TypeInv, NEW c \in Contracts,
         \A g \in Handlers :
           \/ req'[g] = req[g]
           \/ req[g].step # "debit" /\ req'[g].step # "debit",
         \A n \in Noms : noms[n].state # "none" => noms'[n].contract = noms[n].contract
  PROVE  Debiting(c)' = Debiting(c)
  BY DEF Debiting, ContractOf, TypeInv, RequestsOK, NomStep

(***************************************************************************)
(* What a contract that is over has reserved, or may still have to, never  *)
(* grows, whatever requests overlap (EndedTakesNoMore).                    *)
(***************************************************************************)
NoMoreAt(c) == Ended(c) /\ Ended(c)' => Committed(c)' =< Committed(c)

LEMMA NoMoreStep ==
  ASSUME TypeInv, Next, NEW c \in Contracts
  PROVE  NoMoreAt(c)
<1> DEFINE k == Cardinality(Debiting(c))
<1>1. k \in Nat /\ MaxVolume \in Nat /\ contracts[c] \in ContractRecord
  BY DebitingFinite, VolumesOK DEF TypeInv, TypeOK
<1>2. contracts'[c] \in ContractRecord
  BY NextTypeInv DEF TypeInv, TypeOK
<1>3. ASSUME contracts'[c].used =< contracts[c].used, Debiting(c)' = Debiting(c)
      PROVE  NoMoreAt(c)
  <2>1. k' = k
    BY <1>3
  <2> HIDE DEF k
  <2>2. MaxVolume * k \in Nat /\ MaxVolume * k' = MaxVolume * k
    BY <1>1, <2>1
  <2>3. contracts'[c].used + MaxVolume * k' =< contracts[c].used + MaxVolume * k
    BY <1>1, <1>2, <1>3, <2>2 DEF ContractRecord
  <2>. QED
    BY <2>3 DEF NoMoreAt, Committed, k
<1>4. CASE UNCHANGED contracts /\ Debiting(c)' = Debiting(c)
  BY <1>1, <1>3, <1>4 DEF ContractRecord
<1>5. ASSUME NEW h \in Handlers, NEW r, Become(h, r), req[h].step # "debit", r.step # "debit",
             \A n \in Noms : noms'[n].contract = noms[n].contract
      PROVE  Debiting(c)' = Debiting(c)
  BY <1>5, DebitingUnchanged DEF Become, TypeInv, TypeOK
<1>6. ASSUME NEW h \in Handlers, ContractRequest(h)
      PROVE  NoMoreAt(c)
  <2>1. ASSUME NEW d \in Contracts, NEW in \in ContractInputs, CreateContract(h, d, in)
        PROVE  NoMoreAt(c)
    <3>1. Debiting(c)' = Debiting(c)
      BY <2>1, DebitingUnchanged DEF CreateContract
    <3>2. CASE c = d
      BY <2>1, <3>2 DEF CreateContract, PutContract, TypeInv, TypeOK, NoMoreAt, Ended
    <3>3. CASE c # d
      BY <1>1, <1>3, <2>1, <3>1, <3>3
      DEF CreateContract, PutContract, TypeInv, TypeOK, ContractRecord
    <3>. QED
      BY <3>2, <3>3
  <2>2. CASE \E d \in Contracts, s \in ContractState : SetStateRead(h, d, s)
    BY <1>4, <1>5, <2>2 DEF SetStateRead, IsIdle, SettingState
  <2>3. CASE SetStateWrite(h)
    <3>1. Debiting(c)' = Debiting(c)
      BY <1>5, <2>3 DEF SetStateWrite, Scanning, Idle
    <3>2. contracts'[c].used = contracts[c].used
      BY <2>3 DEF SetStateWrite, WriteContractState, TypeInv, TypeOK, ContractRecord
    <3>. QED
      BY <1>1, <1>3, <3>1, <3>2 DEF ContractRecord
  <2>4. CASE ExpireDueRead(h)
    BY <1>4, <1>5, <2>4 DEF ExpireDueRead, IsIdle, Scanning, Idle
  <2>5. CASE \E d \in Contracts : ExpireNext(h, d) \/ ExpireSkip(h, d)
    BY <1>4, <1>5, <2>5 DEF ExpireNext, ExpireSkip, SettingState, Scanning, Idle
  <2>. QED
    BY <1>6, <2>1, <2>2, <2>3, <2>4, <2>5 DEF ContractRequest
<1>7. ASSUME NEW h \in Handlers, NominationRequest(h)
      PROVE  NoMoreAt(c)
  <2>1. CASE ReserveCheck(h)
    <3>1. CASE c = ContractOf(h)
      BY <2>1, <3>1 DEF ReserveCheck, CanReserve, IsActiveNow, NoMoreAt, Ended
    <3>2. CASE c # ContractOf(h)
      <4>1. Debiting(c)' = Debiting(c)
        BY <2>1, <3>2 DEF ReserveCheck, Goto, Debiting, ContractOf, TypeInv, TypeOK, Request
      <4>. QED
        BY <1>4, <2>1, <4>1 DEF ReserveCheck
    <3>. QED
      BY <3>1, <3>2
  <2>2. CASE ReserveDebit(h)
    <3>1. /\ ContractOf(h) \in Contracts
          /\ VolumeOf(h) \in 1..MaxVolume
      BY <2>2 DEF ReserveDebit, ContractOf, VolumeOf, TypeInv, RequestsOK, RecordsOK, NomStep
    <3>2. CASE c = ContractOf(h)
      <4>1. h \in Debiting(c) /\ Debiting(c)' = Debiting(c) \ {h}
        BY <2>2, <3>2 DEF ReserveDebit, Goto, Debiting, ContractOf, TypeInv, TypeOK, Request
      <4>2. k' = k - 1 /\ k' \in Nat
        BY <4>1, DebitingFinite, FS_RemoveElement, FS_CardinalityType
      <4>3. contracts'[c].used = contracts[c].used + VolumeOf(h)
        BY <2>2, <3>2 DEF ReserveDebit, Debit, TypeInv, TypeOK, ContractRecord
      <4> HIDE DEF k
      <4>4. MaxVolume * k = MaxVolume * k' + MaxVolume /\ MaxVolume * k' \in Nat
        BY <1>1, <4>2
      <4>5. contracts'[c].used + MaxVolume * k' =< contracts[c].used + MaxVolume * k
        BY <1>1, <3>1, <4>3, <4>4 DEF ContractRecord
      <4>. QED
        BY <4>5 DEF NoMoreAt, Committed, k
    <3>3. CASE c # ContractOf(h)
      <4>1. Debiting(c)' = Debiting(c)
        BY <2>2, <3>3 DEF ReserveDebit, Goto, Debiting, ContractOf, TypeInv, TypeOK, Request
      <4>2. contracts'[c] = contracts[c]
        BY <2>2, <3>3 DEF ReserveDebit, Debit, TypeInv, TypeOK
      <4>. QED
        BY <1>1, <1>3, <4>1, <4>2 DEF ContractRecord
    <3>. QED
      BY <3>2, <3>3
  <2>3. CASE ReleaseCredit(h)
    <3>1. /\ ContractOf(h) \in Contracts
          /\ VolumeOf(h) \in 1..MaxVolume
      BY <2>3 DEF ReleaseCredit, ContractOf, VolumeOf, TypeInv, RequestsOK, RecordsOK, NomStep
    <3>2. Debiting(c)' = Debiting(c)
      BY <2>3, DebitingUnchanged DEF ReleaseCredit, Goto, TypeInv, TypeOK, Request
    <3>3. contracts'[c].used =< contracts[c].used
      BY <1>1, <2>3, <3>1 DEF ReleaseCredit, Credit, TypeInv, TypeOK, ContractRecord
    <3>. QED
      BY <1>3, <3>2, <3>3
  <2>4. CASE \E n \in Noms, d \in Contracts, v \in Volumes : CreateNomination(h, n, d, v)
    <3>1. Debiting(c)' = Debiting(c)
      BY <2>4, DebitingUnchanged DEF CreateNomination, PutNomination, TypeInv, TypeOK
    <3>. QED
      BY <1>4, <2>4, <3>1 DEF CreateNomination
  <2>5. CASE \E n \in Noms : \/ SubmitRead(h, n) \/ ConfirmRead(h, n)
                             \/ ExecuteRead(h, n) \/ CancelRead(h, n)
    BY <1>4, <1>5, <2>5 DEF SubmitRead, ConfirmRead, ExecuteRead, CancelRead, Begin, IsIdle,
                            Operation
  <2>6. CASE ReserveReject(h)
    BY <1>4, <1>5, <2>6 DEF ReserveReject, Return, Idle
  <2>7. CASE SubmitWrite(h) \/ MoveWrite(h) \/ CancelWrite(h)
    <3>1. \A n \in Noms : noms'[n].contract = noms[n].contract
      BY <2>7 DEF SubmitWrite, MoveWrite, CancelWrite, TypeInv, TypeOK, NomRecord
    <3>. QED
      BY <1>4, <1>5, <2>7, <3>1 DEF SubmitWrite, MoveWrite, CancelWrite, Return, Idle, contractVars
  <2>. QED
    BY <1>7, <2>1, <2>2, <2>3, <2>4, <2>5, <2>6, <2>7 DEF NominationRequest
<1>8. CASE TickStep
  BY <1>4, <1>8, DebitingUnchanged DEF TickStep, Tick
<1>. QED
  BY <1>6, <1>7, <1>8 DEF Next

(***************************************************************************)
(* A contract that is over commits no further volume: whatever requests    *)
(* overlap, only the reservations that had passed the checks of Reserve    *)
(* while it was active are still debited (EndedTakesNoMore).               *)
(***************************************************************************)
THEOREM OverMeansOver == Spec => EndedTakesNoMore
<1>1. TypeInv /\ [Next]_vars => [\A c \in Contracts : NoMoreAt(c)]_vars
  BY NoMoreStep
<1>. QED
  BY <1>1, Typing, PTL DEF Spec, EndedTakesNoMore, NoMoreAt

-----------------------------------------------------------------------------
(***************************************************************************)
(* Clients that never have two changes of the state of a steady contract   *)
(* in flight, and create no contract twice.                                *)
(***************************************************************************)

(* What SetState read of a steady contract still holds when it writes. *)
SteadyStillLegal ==
  \A h \in Handlers : req[h].step = "setState" /\ req[h].contract \in Steady =>
    ContractMove(contracts[req[h].contract].state, req[h].target)

(* The steady contracts whose state a request is about to change. *)
Claimed(h) == (req[h].todo \cup {req[h].contract}) \cap Steady

ClaimsDisjoint == \A g, h \in Handlers : g # h => Claimed(g) \cap Claimed(h) = {}

StateInv == TypeInv /\ ClaimsDisjoint /\ SteadyStillLegal

LEMMA InitStateInv == Init => StateInv
  BY InitTypeInv, FlagsOK, NoneOK DEF Init, Idle, StateInv, ClaimsDisjoint, Claimed, SteadyStillLegal

LEMMA NextStateInv ==
  ASSUME ~ReuseContractIds
  PROVE  StateInv /\ [Next]_vars => StateInv'
<1> SUFFICES ASSUME StateInv, [Next]_vars PROVE ClaimsDisjoint' /\ SteadyStillLegal'
  BY NextTypeInv DEF StateInv
<1> USE DEF StateInv, TypeInv, TypeOK
<1>1. Steady \subseteq Contracts /\ None \notin Steady
  BY FlagsOK, NoneOK
(* Steps of h that claim nothing new, or what nobody else has claimed. *)
<1>2. ASSUME NEW h \in Handlers, \A g \in Handlers \ {h} : req'[g] = req[g],
             \A c \in Claimed(h)' : c \in Claimed(h) \/ \A g \in Handlers : c \notin Claimed(g)
      PROVE  ClaimsDisjoint'
  BY <1>2 DEF ClaimsDisjoint, Claimed
<1>3. ASSUME NEW h \in Handlers, \A g \in Handlers \ {h} : req'[g] = req[g],
             req'[h].step # "setState",
             \A c \in Contracts : contracts'[c].state = contracts[c].state
      PROVE  SteadyStillLegal'
  BY <1>1, <1>3 DEF SteadyStillLegal, RequestsOK
<1>4. ASSUME NEW h \in Handlers, ContractRequest(h)
      PROVE  ClaimsDisjoint' /\ SteadyStillLegal'
  <2>1. ASSUME NEW c \in Contracts, NEW in \in ContractInputs, CreateContract(h, c, in)
        PROVE  ClaimsDisjoint' /\ SteadyStillLegal'
    <3>1. contracts[c].state = "none" /\ req' = req
      BY <2>1 DEF CreateContract, ContractExists
    <3>2. \A g \in Handlers : req[g].step = "setState" /\ req[g].contract \in Steady
                                => req[g].contract # c
      BY <3>1 DEF SteadyStillLegal, ContractMove, ContractState
    <3>3. \A d \in Contracts \ {c} : contracts'[d] = contracts[d]
      BY <2>1 DEF CreateContract, PutContract
    <3>4. SteadyStillLegal'
      BY <1>1, <3>1, <3>2, <3>3 DEF SteadyStillLegal, RequestsOK
    <3>. QED
      BY <3>1, <3>4 DEF ClaimsDisjoint, Claimed
  <2>2. ASSUME NEW c \in Contracts, NEW s \in ContractState, SetStateRead(h, c, s)
        PROVE  ClaimsDisjoint' /\ SteadyStillLegal'
    <3>1. /\ req' = [req EXCEPT ![h] = SettingState(c, s, {})]
          /\ contracts' = contracts /\ ContractMove(contracts[c].state, s)
          /\ c \in Steady => \A g \in Handlers : c \notin Claimed(g)
      BY <2>2 DEF SetStateRead, Become, MayChangeState, Claimed
    <3>2. Claimed(h)' = {c} \cap Steady
      BY <1>1, <3>1 DEF Claimed, SettingState
    <3>3. ClaimsDisjoint'
      BY <1>2, <3>1, <3>2
    <3>4. SteadyStillLegal'
      BY <3>1 DEF SettingState, SteadyStillLegal
    <3>. QED
      BY <3>3, <3>4
  <2>3. ASSUME SetStateWrite(h)
        PROVE  ClaimsDisjoint' /\ SteadyStillLegal'
    <3>1. /\ req' = [req EXCEPT ![h] = Scanning(req[h].todo)]
          /\ req[h].contract \in Contracts
          /\ \A c \in Contracts \ {req[h].contract} : contracts'[c] = contracts[c]
      BY <2>3 DEF SetStateWrite, WriteContractState, Become, RequestsOK
    <3>2. Claimed(h)' \subseteq Claimed(h) /\ Scanning(req[h].todo).step # "setState"
      BY <1>1, <3>1 DEF Claimed, Scanning, Idle
    <3>3. ClaimsDisjoint'
      BY <1>2, <3>1, <3>2
    <3>4. \A g \in Handlers \ {h} : req[g].step = "setState" /\ req[g].contract \in Steady =>
            req[g].contract \in Contracts \ {req[h].contract}
      BY <1>1, <3>1 DEF ClaimsDisjoint, Claimed, RequestsOK
    <3>5. SteadyStillLegal'
      BY <3>1, <3>2, <3>4 DEF SteadyStillLegal
    <3>. QED
      BY <3>3, <3>5
  <2>4. ASSUME ExpireDueRead(h)
        PROVE  ClaimsDisjoint' /\ SteadyStillLegal'
    <3> DEFINE due == {c \in Contracts : IsDue(c)}
    <3>1. /\ req' = [req EXCEPT ![h] = Scanning(due)]
          /\ contracts' = contracts
          /\ \A c \in due \cap Steady : \A g \in Handlers : c \notin Claimed(g)
      BY <2>4 DEF ExpireDueRead, Become, MayChangeState, Claimed
    <3>2. Claimed(h)' \subseteq due \cap Steady /\ Scanning(due).step # "setState"
      BY <1>1, <3>1 DEF Claimed, Scanning, Idle
    <3> HIDE DEF due
    <3>. QED
      BY <1>2, <1>3, <3>1, <3>2
  <2>5. ASSUME NEW c \in Contracts, ExpireNext(h, c)
        PROVE  ClaimsDisjoint' /\ SteadyStillLegal'
    <3>1. /\ req' = [req EXCEPT ![h] = SettingState(c, "expired", req[h].todo \ {c})]
          /\ contracts' = contracts /\ ContractMove(contracts[c].state, "expired")
          /\ c \in req[h].todo
      BY <2>5 DEF ExpireNext, Become
    <3>2. Claimed(h)' \subseteq Claimed(h)
      BY <3>1 DEF Claimed, SettingState
    <3>3. ClaimsDisjoint'
      BY <1>2, <3>1, <3>2
    <3>4. SteadyStillLegal'
      BY <3>1 DEF SettingState, SteadyStillLegal
    <3>. QED
      BY <3>3, <3>4
  <2>6. ASSUME NEW c \in Contracts, ExpireSkip(h, c)
        PROVE  ClaimsDisjoint' /\ SteadyStillLegal'
    <3>1. /\ req' = [req EXCEPT ![h] = Scanning(req[h].todo \ {c})] /\ contracts' = contracts
      BY <2>6 DEF ExpireSkip, Become
    <3>2. Claimed(h)' \subseteq Claimed(h) /\ Scanning(req[h].todo \ {c}).step # "setState"
      BY <1>1, <3>1 DEF Claimed, Scanning, Idle
    <3>. QED
      BY <1>2, <1>3, <3>1, <3>2
  <2>. QED
    BY <1>4, <2>1, <2>2, <2>3, <2>4, <2>5, <2>6 DEF ContractRequest
<1>5. ASSUME NEW h \in Handlers, NominationRequest(h)
      PROVE  ClaimsDisjoint' /\ SteadyStillLegal'
  <2>1. ASSUME NEW r, Become(h, r), r.contract = None, r.todo = {}, r.step # "setState",
               contracts' = contracts
        PROVE  ClaimsDisjoint' /\ SteadyStillLegal'
    <3>1. Claimed(h)' = {}
      BY <1>1, <2>1 DEF Claimed, Become
    <3>. QED
      BY <1>2, <1>3, <2>1, <3>1 DEF Become
  <2>2. ASSUME NEW s \in NomStep, Goto(h, s),
               \A c \in Contracts : contracts'[c].state = contracts[c].state
        PROVE  ClaimsDisjoint' /\ SteadyStillLegal'
    <3>1. req'[h].contract = req[h].contract /\ req'[h].todo = req[h].todo /\ req'[h].step = s
      BY <2>2 DEF Goto, Request
    <3>2. Claimed(h)' = Claimed(h)
      BY <3>1 DEF Claimed
    <3>. QED
      BY <1>2, <1>3, <2>2, <3>1, <3>2 DEF Goto, NomStep
  <2>3. CASE \E n \in Noms, c \in Contracts, v \in Volumes : CreateNomination(h, n, c, v)
    BY <2>3 DEF CreateNomination, ClaimsDisjoint, Claimed, SteadyStillLegal
  <2>4. CASE \E n \in Noms : SubmitRead(h, n) \/ ConfirmRead(h, n) \/ ExecuteRead(h, n)
                               \/ CancelRead(h, n)
    BY <2>1, <2>4 DEF SubmitRead, ConfirmRead, ExecuteRead, CancelRead, Begin, Operation
  <2>5. CASE ReserveReject(h) \/ SubmitWrite(h) \/ MoveWrite(h) \/ CancelWrite(h)
    BY <2>1, <2>5 DEF ReserveReject, SubmitWrite, MoveWrite, CancelWrite, Return, Idle, contractVars
  <2>6. CASE ReserveCheck(h)
    BY <2>2, <2>6 DEF ReserveCheck, NomStep
  <2>7. CASE ReserveDebit(h)
    BY <2>2, <2>7 DEF ReserveDebit, Debit, ContractRecord, NomStep
  <2>8. CASE ReleaseCredit(h)
    BY <2>2, <2>8 DEF ReleaseCredit, Credit, ContractRecord, NomStep
  <2>. QED
    BY <1>5, <2>3, <2>4, <2>5, <2>6, <2>7, <2>8 DEF NominationRequest
<1>6. CASE TickStep \/ UNCHANGED vars
  BY <1>6 DEF TickStep, Tick, vars, ClaimsDisjoint, Claimed, SteadyStillLegal
<1>. QED
  BY <1>4, <1>5, <1>6 DEF Next

(***************************************************************************)
(* With such clients no steady contract ever leaves its transition table,  *)
(* however SetState, ExpireDue and the nominations' debits interleave and  *)
(* whatever becomes of the others: an expired or terminated contract stays *)
(* so (ContractLifecycle).                                                 *)
(***************************************************************************)
THEOREM ContractLifecycleKept ==
  ASSUME ~ReuseContractIds
  PROVE  Spec => ContractLifecycle
<1>1. StateInv /\ [Next]_vars =>
        [\A c \in Steady :
           contracts'[c].state # contracts[c].state /\ contracts[c].state # "none"
             => ContractMove(contracts[c].state, contracts'[c].state)]_vars
  <2> SUFFICES ASSUME StateInv, Next, NEW c \in Steady,
                      contracts'[c].state # contracts[c].state, contracts[c].state # "none"
               PROVE  ContractMove(contracts[c].state, contracts'[c].state)
    OBVIOUS
  <2> USE DEF StateInv, TypeInv, TypeOK
  <2>1. PICK h \in Handlers : SetStateWrite(h)
    <3>1. ASSUME NEW h \in Handlers, ReserveDebit(h) \/ ReleaseCredit(h) PROVE FALSE
      BY <3>1, FlagsOK DEF ReserveDebit, Debit, ReleaseCredit, Credit, ContractRecord
    <3>2. ASSUME NEW h \in Handlers, NEW d \in Contracts, NEW in \in ContractInputs,
                 CreateContract(h, d, in)
          PROVE  FALSE
      BY <3>2 DEF CreateContract, PutContract, ContractExists
    <3>. QED
      BY <3>1, <3>2
      DEF Next, ContractRequest, SetStateRead, ExpireDueRead, ExpireNext, ExpireSkip,
          NominationRequest, CreateNomination, SubmitRead, ConfirmRead, ExecuteRead, CancelRead,
          Begin, ReserveCheck, ReserveReject, SubmitWrite, MoveWrite, CancelWrite, contractVars,
          TickStep, Tick
  <2>2. c = req[h].contract /\ contracts'[c].state = req[h].target
    BY <2>1 DEF SetStateWrite, WriteContractState, ContractRecord
  <2>. QED
    BY <2>1, <2>2 DEF SetStateWrite, SteadyStillLegal
<1>2. StateInv /\ [Next]_vars => StateInv'
  BY NextStateInv
<1>. QED
  BY <1>1, <1>2, InitStateInv, PTL DEF Spec, ContractLifecycle

-----------------------------------------------------------------------------
(***************************************************************************)
(* With one request served at a time, the services implement               *)
(* AtomicNomination, for every set of contracts, nominations and inputs.   *)
(***************************************************************************)
(* What Reserve checked still holds when it debits. *)
DebitStillFits ==
  \A h \in Handlers : req[h].step = "debit" =>
    contracts[ContractOf(h)].used + VolumeOf(h) =< contracts[ContractOf(h)].daily

(* What SetState read of a contract still holds when it writes. *)
SettingStillLegal ==
  \A h \in Handlers : req[h].step = "setState" =>
    ContractMove(contracts[req[h].contract].state, req[h].target)

SerialInv == ClientInv /\ SettingStillLegal

LEMMA SerialInvariant ==
  ASSUME OneRequestAtATime
  PROVE  Spec => []SerialInv
<1>1. Init => SerialInv
  BY InitClientInv DEF Init, Idle, SerialInv, SettingStillLegal
<1>2. SerialInv /\ [Next]_vars => SerialInv'
  <2> SUFFICES ASSUME SerialInv, [Next]_vars PROVE SettingStillLegal'
    BY NextClientInv DEF SerialInv, NoOverlap, OneRequestAtATime
  <2> USE DEF OneRequestAtATime, SerialInv, ClientInv, TypeInv, TypeOK, SettingStillLegal, contractVars
  <2>1. ASSUME NEW h \in Handlers, ContractRequest(h)
        PROVE  SettingStillLegal'
    BY <2>1 DEF ContractRequest, CreateContract, SetStateRead, SetStateWrite, ExpireDueRead,
                ExpireNext, ExpireSkip, Become, SettingState, Scanning, Idle, IsIdle
  <2>2. ASSUME NEW h \in Handlers, NominationRequest(h)
        PROVE  SettingStillLegal'
    BY <2>2 DEF NominationRequest, CreateNomination, SubmitRead, ConfirmRead, ExecuteRead,
                CancelRead, Begin, IsIdle, Become, Operation, Goto, ReserveCheck,
                ReserveReject, ReserveDebit, ReleaseCredit, SubmitWrite, MoveWrite, CancelWrite,
                Return, Idle, Request
  <2>3. CASE TickStep \/ UNCHANGED vars
    BY <2>3 DEF TickStep, Tick, vars
  <2>. QED
    BY <2>1, <2>2, <2>3 DEF Next
<1>. QED
  BY <1>1, <1>2, PTL DEF Spec

-----------------------------------------------------------------------------
(* The mapping, seen from the only request there is. *)
SeenContracts(h) ==
  IF req[h].step = "debit"
  THEN [contracts EXCEPT ![ContractOf(h)].used = @ + VolumeOf(h)]
  ELSE contracts

SeenNoms(h) ==
  IF req[h].step \in {"debit", "submit"}
  THEN [noms EXCEPT ![req[h].nom].state = "submitted", ![req[h].nom].reserved = TRUE]
  ELSE IF req[h].step = "cancel"
  THEN [noms EXCEPT ![req[h].nom].state = "cancelled", ![req[h].nom].reserved = FALSE]
  ELSE noms

LEMMA MappingSeen ==
  ASSUME OneRequestAtATime, TypeInv, NEW h \in Handlers
  PROVE  AbsContracts = SeenContracts(h) /\ AbsNoms = SeenNoms(h)
<1> USE DEF OneRequestAtATime, TypeInv, TypeOK, RequestsOK
<1>1. AbsContracts = SeenContracts(h)
  <2>1. \A c \in Contracts :
          PendingDebit(c) = IF req[h].step = "debit" /\ c = ContractOf(h) THEN VolumeOf(h) ELSE 0
    <3> SUFFICES ASSUME NEW c \in Contracts
                 PROVE  PendingDebit(c) = IF req[h].step = "debit" /\ c = ContractOf(h)
                                          THEN VolumeOf(h) ELSE 0
      OBVIOUS
    <3>1. CASE req[h].step = "debit" /\ c = ContractOf(h)
      <4>1. Debiting(c) = {h}
        BY <3>1 DEF Debiting
      <4>2. (CHOOSE g \in Debiting(c) : TRUE) = h
        BY <4>1
      <4>. QED
        BY <3>1, <4>1, <4>2 DEF PendingDebit
    <3>2. CASE ~(req[h].step = "debit" /\ c = ContractOf(h))
      <4>1. Debiting(c) = {}
        BY <3>2 DEF Debiting
      <4>. QED
        BY <3>2, <4>1 DEF PendingDebit
    <3>. QED
      BY <3>1, <3>2
  <2>2. \A c \in Contracts : AbsContracts[c] = SeenContracts(h)[c]
    <3> SUFFICES ASSUME NEW c \in Contracts PROVE AbsContracts[c] = SeenContracts(h)[c]
      OBVIOUS
    <3>1. /\ contracts[c] \in ContractRecord
          /\ AbsContracts[c] = [contracts[c] EXCEPT !.used = @ + PendingDebit(c)]
      BY DEF AbsContracts
    <3>2. CASE req[h].step = "debit" /\ c = ContractOf(h)
      BY <2>1, <3>1, <3>2 DEF SeenContracts
    <3>3. CASE ~(req[h].step = "debit" /\ c = ContractOf(h))
      <4>1. AbsContracts[c] = contracts[c]
        BY <2>1, <3>1, <3>3 DEF ContractRecord
      <4>. QED
        BY <3>3, <4>1 DEF SeenContracts
    <3>. QED
      BY <3>2, <3>3
  <2>. QED
    BY <2>2 DEF AbsContracts, SeenContracts
<1>2. AbsNoms = SeenNoms(h)
  <2>1. \A n \in Noms : \A steps : At(n, steps) <=> req[h].nom = n /\ req[h].step \in steps
    BY DEF At
  <2>2. \A n \in Noms : AbsNoms[n] = SeenNoms(h)[n]
    <3> SUFFICES ASSUME NEW n \in Noms PROVE AbsNoms[n] = SeenNoms(h)[n]
      OBVIOUS
    <3>1. AbsNoms[n] =
            IF req[h].nom = n /\ req[h].step \in {"debit", "submit"}
            THEN [noms[n] EXCEPT !.state = "submitted", !.reserved = TRUE]
            ELSE IF req[h].nom = n /\ req[h].step = "cancel"
            THEN [noms[n] EXCEPT !.state = "cancelled", !.reserved = FALSE]
            ELSE noms[n]
      BY <2>1 DEF AbsNoms
    <3>2. noms[n] \in NomRecord
      OBVIOUS
    <3>. QED
      BY <3>1, <3>2 DEF SeenNoms, NomRecord
  <2>. QED
    BY <2>2 DEF AbsNoms, SeenNoms
<1>. QED
  BY <1>1, <1>2

-----------------------------------------------------------------------------
LEMMA InitRefines == Init => Atomic!Init
<1> SUFFICES ASSUME Init PROVE Atomic!Init
  OBVIOUS
<1>1. \A c \in Contracts : PendingDebit(c) = 0
  BY DEF Init, Idle, Debiting, PendingDebit
<1>2. AbsContracts = [c \in Contracts |-> NoContract]
  BY <1>1 DEF Init, ContractInit, AbsContracts, NoContract
<1>3. AbsNoms = [n \in Noms |-> NoNom]
  BY DEF Init, NomInit, Idle, AbsNoms, At
<1>. QED
  BY <1>2, <1>3
  DEF Init, ContractInit, Atomic!Init, Atomic!ContractInit, Atomic!NomInit,
      Atomic!NoContract, NoContract, Atomic!NoNom, NoNom

(* The contract operations, and the steps of a scan, are not mapped away: *)
(* no submission is under way when they run.                               *)
LEMMA ContractStepRefines ==
  ASSUME SerialInv, NEW h \in Handlers, ContractRequest(h),
         AbsContracts = SeenContracts(h), AbsContracts' = SeenContracts(h)',
         AbsNoms = SeenNoms(h), AbsNoms' = SeenNoms(h)'
  PROVE  Atomic!Next \/ UNCHANGED Atomic!vars
<1> USE DEF SerialInv, ClientInv, TypeInv, TypeOK, RequestsOK
<1>1. /\ req[h].step \in {"idle", "scan", "setState"}
      /\ req'[h].step \in {"idle", "scan", "setState"}
      /\ noms' = noms /\ now' = now
  BY DEF ContractRequest, CreateContract, SetStateRead, SetStateWrite, ExpireDueRead, ExpireNext,
         ExpireSkip, Become, SettingState, Scanning, Idle, IsIdle, PutContract,
         WriteContractState
<1>2. /\ AbsContracts = contracts /\ AbsContracts' = contracts'
      /\ AbsNoms = noms /\ AbsNoms' = noms
  BY <1>1 DEF SeenContracts, SeenNoms
<1>3. CASE UNCHANGED contracts
  BY <1>1, <1>2, <1>3 DEF Atomic!vars
<1>4. ASSUME NEW c \in Contracts, NEW in \in ContractInputs, CreateContract(h, c, in)
      PROVE  Atomic!CreateContract(c, in)
  BY <1>1, <1>2, <1>4
  DEF CreateContract, PutContract, ContractExists, Atomic!CreateContract, Atomic!PutContract,
      Atomic!ContractExists
<1>5. ASSUME SetStateWrite(h)
      PROVE  \E c \in Contracts, s \in ContractState : Atomic!SetContractState(c, s)
  <2>1. Atomic!SetContractState(req[h].contract, req[h].target)
    BY <1>1, <1>2, <1>5
    DEF SetStateWrite, WriteContractState, SettingStillLegal, ContractMove, ContractState,
        ContractTransitions, Atomic!SetContractState, Atomic!WriteContractState,
        Atomic!ContractMove, Atomic!ContractState, Atomic!ContractTransitions
  <2>. QED
    BY <2>1, <1>5 DEF SetStateWrite
<1>. QED
  BY <1>3, <1>4, <1>5
  DEF ContractRequest, SetStateRead, ExpireDueRead, ExpireNext, ExpireSkip,
      Atomic!Next, Atomic!ContractState, ContractState

LEMMA NominationStepRefines ==
  ASSUME SerialInv, NEW h \in Handlers, NominationRequest(h),
         AbsContracts = SeenContracts(h), AbsContracts' = SeenContracts(h)',
         AbsNoms = SeenNoms(h), AbsNoms' = SeenNoms(h)'
  PROVE  Atomic!Next \/ UNCHANGED Atomic!vars
<1> USE DEF SerialInv, ClientInv, TypeInv, TypeOK, RequestsOK, contractVars
<1> DEFINE n == req[h].nom
           ct == ContractOf(h)
           vol == VolumeOf(h)
<1>1. ASSUME NEW m \in Noms, NEW c \in Contracts, NEW v \in Volumes,
             CreateNomination(h, m, c, v)
      PROVE  Atomic!CreateNomination(m, c, v)
  <2>1. /\ AbsContracts = contracts /\ AbsContracts' = contracts
        /\ AbsNoms = noms /\ AbsNoms' = noms'
    BY <1>1 DEF CreateNomination, IsIdle, SeenContracts, SeenNoms
  <2>. QED
    BY <1>1, <2>1
    DEF CreateNomination, PutNomination, ContractExists, Atomic!CreateNomination,
        Atomic!PutNomination, Atomic!ContractExists, Atomic!contractVars
(* The reads leave everything as it is, but the read of a Cancel of a      *)
(* nomination that holds nothing already cancels it.                       *)
<1>2. ASSUME NEW m \in Noms, SubmitRead(h, m) \/ ConfirmRead(h, m) \/ ExecuteRead(h, m)
      PROVE  UNCHANGED Atomic!vars
  <2>1. /\ req[h].step = "idle" /\ req'[h].step \in {"reserve", "move"}
        /\ UNCHANGED <<contracts, now, noms>>
    BY <1>2 DEF SubmitRead, ConfirmRead, ExecuteRead, Begin, Become, Operation, IsIdle
  <2>2. AbsContracts = contracts /\ AbsNoms = noms
    BY <2>1 DEF SeenContracts, SeenNoms
  <2>3. AbsContracts' = contracts' /\ AbsNoms' = noms'
    BY <2>1 DEF SeenContracts, SeenNoms
  <2>. QED
    BY <2>1, <2>2, <2>3 DEF Atomic!vars
<1>3. ASSUME NEW m \in Noms, CancelRead(h, m)
      PROVE  Atomic!Cancel(m) \/ UNCHANGED Atomic!vars
  <2>1. /\ AbsContracts = contracts /\ AbsContracts' = contracts /\ now' = now
        /\ AbsNoms = noms
    BY <1>3 DEF CancelRead, Begin, Become, Operation, IsIdle, SeenContracts, SeenNoms
  <2>2. CASE noms[m].reserved
    <3>1. AbsNoms' = noms
      BY <1>3, <2>2 DEF CancelRead, Begin, Become, Operation, SeenNoms
    <3>. QED
      BY <2>1, <3>1 DEF Atomic!vars
  <2>3. CASE ~noms[m].reserved
    <3>1. AbsNoms' = [noms EXCEPT ![m].state = "cancelled", ![m].reserved = FALSE]
      BY <1>3, <2>3 DEF CancelRead, Begin, Become, Operation, SeenNoms
    <3>2. NomMove(noms[m].state, "cancelled")
      BY <1>3 DEF CancelRead, Begin
    <3>. QED
      BY <2>1, <2>3, <3>1, <3>2
      DEF Atomic!Cancel, Atomic!NomMove, NomMove, Atomic!NomTransitions, NomTransitions,
          Atomic!NomState, NomState, Atomic!contractVars
  <2>. QED
    BY <2>2, <2>3
(* Submit takes effect when Reserve's checks pass. *)
<1>4. ASSUME ReserveCheck(h)
      PROVE  Atomic!Submit(n)
  <2>1. /\ AbsContracts = contracts /\ AbsNoms = noms /\ now' = now
        /\ n \in Noms /\ noms[n].state = "draft"
    BY <1>4 DEF ReserveCheck, SeenContracts, SeenNoms, CopyStillTrue, NomStep
  <2>2. /\ req'[h].step = "debit" /\ req'[h].nom = n
        /\ contracts' = contracts /\ noms' = noms
    BY <1>4 DEF ReserveCheck, Goto, Request
  <2>3. AbsContracts' = [contracts EXCEPT ![ct].used = @ + vol]
    BY <2>2 DEF SeenContracts, ContractOf, VolumeOf
  <2>4. AbsNoms' = [noms EXCEPT ![n].state = "submitted", ![n].reserved = TRUE]
    BY <2>2 DEF SeenNoms
  <2>5. CanReserve(ct, vol)
    BY <1>4 DEF ReserveCheck
  <2>6. Atomic!NomMove(AbsNoms[n].state, "submitted")
    BY <2>1 DEF Atomic!NomMove, Atomic!NomTransitions, Atomic!NomState
  <2>7. Atomic!CanReserve(ct, vol)
    BY <2>1, <2>5
    DEF Atomic!CanReserve, CanReserve, Atomic!ContractExists, ContractExists,
        Atomic!IsActiveNow, IsActiveNow, Atomic!Remaining, Remaining
  <2>8. Atomic!Debit(ct, vol)
    BY <2>1, <2>3 DEF Atomic!Debit
  <2>. QED
    BY <2>1, <2>4, <2>6, <2>7, <2>8 DEF Atomic!Submit, ContractOf, VolumeOf
<1>5. ASSUME ReserveReject(h)
      PROVE  UNCHANGED Atomic!vars
  BY <1>5 DEF ReserveReject, Return, Become, Idle, SeenContracts, SeenNoms, Atomic!vars
<1>6. ASSUME ReserveDebit(h)
      PROVE  UNCHANGED Atomic!vars
  <2>1. req'[h].step = "submit" /\ req'[h].nom = n
    BY <1>6 DEF ReserveDebit, Goto, Request
  <2>. QED
    BY <1>6, <2>1 DEF ReserveDebit, Debit, SeenContracts, SeenNoms, Atomic!vars
<1>7. ASSUME SubmitWrite(h)
      PROVE  UNCHANGED Atomic!vars
  BY <1>7 DEF SubmitWrite, Return, Become, Idle, SeenContracts, SeenNoms, Atomic!vars
<1>8. ASSUME MoveWrite(h)
      PROVE  Atomic!Move(n, req[h].target) /\ n \in Noms /\ req[h].target \in {"confirmed", "executed"}
  <2>1. /\ AbsContracts = contracts /\ AbsContracts' = contracts /\ now' = now
        /\ AbsNoms = noms /\ AbsNoms' = noms'
    BY <1>8 DEF MoveWrite, Return, Become, Idle, SeenContracts, SeenNoms
  <2>2. n \in Noms /\ req[h].target \in {"confirmed", "executed"} /\ NomMove(noms[n].state, req[h].target)
    BY <1>8 DEF MoveWrite, NomStep, CopyStillTrue
  <2>. QED
    BY <1>8, <2>1, <2>2
    DEF MoveWrite, Atomic!Move, Atomic!NomMove, NomMove, Atomic!NomTransitions, NomTransitions,
        Atomic!NomState, NomState, Atomic!contractVars
(* Cancel takes effect when the capacity is credited. *)
<1>9. ASSUME ReleaseCredit(h)
      PROVE  Atomic!Cancel(n)
  <2>1. /\ AbsContracts = contracts /\ AbsNoms = noms /\ now' = now
        /\ n \in Noms /\ noms[n].state \in {"submitted", "confirmed"} /\ noms[n].reserved
    BY <1>9
    DEF ReleaseCredit, Credit, SeenContracts, SeenNoms, CopyStillTrue, LiveHoldsCapacity, NomStep
  <2>2. req'[h].step = "cancel" /\ req'[h].nom = n /\ noms' = noms
    BY <1>9 DEF ReleaseCredit, Goto, Request
  <2>3. AbsContracts' = contracts'
    BY <2>2 DEF SeenContracts
  <2>4. AbsNoms' = [noms EXCEPT ![n].state = "cancelled", ![n].reserved = FALSE]
    BY <2>2 DEF SeenNoms
  <2>5. Atomic!NomMove(AbsNoms[n].state, "cancelled")
    BY <2>1 DEF Atomic!NomMove, Atomic!NomTransitions, Atomic!NomState
  <2>6. Atomic!Credit(ct, vol)
    BY <1>9, <2>1, <2>3 DEF ReleaseCredit, Credit, Atomic!Credit
  <2>. QED
    BY <2>1, <2>4, <2>5, <2>6 DEF ContractOf, VolumeOf, Atomic!Cancel
<1>10. ASSUME CancelWrite(h)
       PROVE  UNCHANGED Atomic!vars
  BY <1>10 DEF CancelWrite, Return, Become, Idle, SeenContracts, SeenNoms, Atomic!vars
<1>11. n \in Noms \/ ~(ReserveCheck(h) \/ ReleaseCredit(h))
  BY DEF ReserveCheck, ReleaseCredit, NomStep
<1> HIDE DEF n, ct, vol
<1>. QED
  BY <1>1, <1>2, <1>3, <1>4, <1>5, <1>6, <1>7, <1>8, <1>9, <1>10, <1>11
  DEF NominationRequest, Atomic!Next

(***************************************************************************)
(* One request at a time is atomic: module Nomination, with at most one    *)
(* request in flight, implements AtomicNomination.                         *)
(***************************************************************************)
THEOREM SerialImplementsAtomic ==
  ASSUME OneRequestAtATime
  PROVE  Spec => ImplementsAtomic
<1>1. SerialInv /\ [Next]_vars => [Atomic!Next]_(Atomic!vars)
  <2> SUFFICES ASSUME SerialInv, [Next]_vars
               PROVE  Atomic!Next \/ UNCHANGED Atomic!vars
    OBVIOUS
  <2>1. TypeInv /\ TypeInv'
    BY NextTypeInv DEF SerialInv, ClientInv
  <2>2. ASSUME NEW h \in Handlers
        PROVE  /\ AbsContracts = SeenContracts(h) /\ AbsContracts' = SeenContracts(h)'
               /\ AbsNoms = SeenNoms(h) /\ AbsNoms' = SeenNoms(h)'
    <3>1. AbsContracts = SeenContracts(h) /\ AbsNoms = SeenNoms(h)
      BY <2>1, MappingSeen
    <3>2. (AbsContracts = SeenContracts(h) /\ AbsNoms = SeenNoms(h))'
      BY <2>1, MappingSeen, PTL
    <3>. QED
      BY <3>1, <3>2
  <2>3. ASSUME NEW h \in Handlers, ContractRequest(h) \/ NominationRequest(h)
        PROVE  Atomic!Next \/ UNCHANGED Atomic!vars
    BY <2>2, <2>3, ContractStepRefines, NominationStepRefines
  <2>4. CASE TickStep \/ UNCHANGED vars
    <3>1. UNCHANGED <<contracts, noms, req>>
      BY <2>4 DEF TickStep, Tick, vars
    <3>2. AbsContracts' = AbsContracts /\ AbsNoms' = AbsNoms
      BY <3>1 DEF AbsContracts, AbsNoms, PendingDebit, Debiting, VolumeOf, ContractOf, At
    <3>3. CASE TickStep
      BY <3>2, <3>3 DEF TickStep, Tick, Atomic!Tick, Atomic!Next
    <3>4. CASE UNCHANGED vars
      BY <3>2, <3>4 DEF vars, Atomic!vars
    <3>. QED
      BY <2>4, <3>3, <3>4
  <2>. QED
    BY <2>3, <2>4 DEF Next
<1>. QED
  BY <1>1, InitRefines, SerialInvariant, PTL DEF Spec, ImplementsAtomic, Atomic!Spec

(***************************************************************************)
(* ... and so no contract is overbooked: what the comments of the contract *)
(* package claim of concurrent requests holds of requests that do not      *)
(* overlap.                                                                *)
(***************************************************************************)
THEOREM SerialKeepsCapacity ==
  ASSUME OneRequestAtATime
  PROVE  Spec => []NoOverbook
<1>1. Init => DebitStillFits /\ NoOverbook
  BY DEF Init, ContractInit, NoContract, Idle, NoOverbook, DebitStillFits
<1>2. SerialInv /\ DebitStillFits /\ NoOverbook /\ [Next]_vars
        => DebitStillFits' /\ NoOverbook'
  <2> SUFFICES ASSUME SerialInv, DebitStillFits, NoOverbook, [Next]_vars
               PROVE  DebitStillFits' /\ NoOverbook'
    OBVIOUS
  <2> USE DEF OneRequestAtATime, SerialInv, ClientInv, TypeInv, TypeOK, RequestsOK, RecordsOK,
              DebitStillFits, NoOverbook, contractVars, VolumeOf, ContractOf
  <2>1. ASSUME NEW h \in Handlers, ContractRequest(h)
        PROVE  DebitStillFits' /\ NoOverbook'
    <3>1. req'[h].step # "debit"
      BY <2>1 DEF ContractRequest, CreateContract, SetStateRead, SetStateWrite, ExpireDueRead,
                  ExpireNext, ExpireSkip, Become, SettingState, Scanning, Idle, IsIdle
    <3>2. NoOverbook'
      <4>1. CASE \E c \in Contracts, in \in ContractInputs : CreateContract(h, c, in)
        BY <4>1, ContractInputsOK DEF CreateContract, PutContract, ContractRecord
      <4>2. CASE SetStateWrite(h)
        BY <4>2 DEF SetStateWrite, WriteContractState, ContractRecord
      <4>3. CASE contracts' = contracts
        BY <4>3
      <4>. QED
        BY <2>1, <4>1, <4>2, <4>3
        DEF ContractRequest, SetStateRead, ExpireDueRead, ExpireNext, ExpireSkip
    <3>. QED
      BY <3>1, <3>2
  <2>2. ASSUME NEW h \in Handlers, NominationRequest(h)
        PROVE  DebitStillFits' /\ NoOverbook'
    <3>1. CASE ReserveCheck(h)
      <4>1. contracts[ContractOf(h)].used + VolumeOf(h) =< contracts[ContractOf(h)].daily
        BY ONLY TypeInv, <2>2, <3>1, ReserveFits
      <4>. QED
        BY <3>1, <4>1 DEF ReserveCheck, Goto, Request
    <3>2. CASE ReserveDebit(h)
      <4>1. req'[h].step # "debit"
        BY <3>2 DEF ReserveDebit, Goto, Request
      <4>2. /\ contracts'[ContractOf(h)].used = contracts[ContractOf(h)].used + VolumeOf(h)
            /\ \A c \in Contracts \ {ContractOf(h)} : contracts'[c] = contracts[c]
            /\ contracts'[ContractOf(h)].daily = contracts[ContractOf(h)].daily
        BY ONLY TypeInv, <2>2, <3>2, OperandsTyped, DebitFields DEF ReserveDebit, NomStep
      <4>3. contracts[ContractOf(h)].used + VolumeOf(h) =< contracts[ContractOf(h)].daily
        BY ONLY DebitStillFits, <2>2, <3>2 DEF DebitStillFits, ReserveDebit
      <4>4. NoOverbook'
        BY ONLY <4>2, <4>3, NoOverbook DEF NoOverbook
      <4>. QED
        BY <4>1, <4>4
    <3>3. CASE ReleaseCredit(h)
      <4>1. req'[h].step # "debit"
        BY <3>3 DEF ReleaseCredit, Goto, Request
      <4>2. \A c \in Contracts : contracts'[c].used =< contracts[c].used
                               /\ contracts'[c].daily = contracts[c].daily
        <5>1. VolumeOf(h) \in Nat /\ ContractOf(h) \in Contracts /\ contracts[ContractOf(h)].used \in Nat
          BY ONLY TypeInv, <2>2, <3>3, OperandsTyped DEF ReleaseCredit, NomStep
        <5>2. \A c \in Contracts : contracts[c].used \in Nat
          BY DEF ContractRecord
        <5>3. Credit(ContractOf(h), VolumeOf(h))
          BY ONLY <3>3 DEF ReleaseCredit
        <5>. QED
          BY ONLY TypeInv, <5>1, <5>2, <5>3, CreditFields
      <4>3. contracts' \in [Contracts -> ContractRecord]
        BY NextTypeInv
      <4>. QED
        BY <4>1, <4>2, <4>3 DEF ContractRecord
    <3>4. ASSUME contracts' = contracts, req'[h].step # "debit"
          PROVE  DebitStillFits' /\ NoOverbook'
      BY <3>4
    <3>5. ASSUME NEW n \in Noms, NEW c \in Contracts, NEW v \in Volumes, CreateNomination(h, n, c, v)
          PROVE  contracts' = contracts /\ req'[h].step # "debit"
      BY <3>5 DEF CreateNomination, IsIdle
    <3>6. ASSUME NEW n \in Noms, SubmitRead(h, n) \/ ConfirmRead(h, n) \/ ExecuteRead(h, n)
                                   \/ CancelRead(h, n)
          PROVE  contracts' = contracts /\ req'[h].step # "debit"
      BY <3>6 DEF SubmitRead, ConfirmRead, ExecuteRead, CancelRead, Begin, Become, Operation
    <3>7. ASSUME ReserveReject(h) \/ SubmitWrite(h) \/ MoveWrite(h) \/ CancelWrite(h)
          PROVE  contracts' = contracts /\ req'[h].step # "debit"
      BY <3>7 DEF ReserveReject, SubmitWrite, MoveWrite, CancelWrite, Return, Become, Idle
    <3>. QED
      BY <2>2, <3>1, <3>2, <3>3, <3>4, <3>5, <3>6, <3>7 DEF NominationRequest
  <2>3. CASE TickStep \/ UNCHANGED vars
    BY <2>3 DEF TickStep, Tick, vars
  <2>. QED
    BY <2>1, <2>2, <2>3 DEF Next
<1>. QED
  BY <1>1, <1>2, SerialInvariant, PTL DEF Spec

-----------------------------------------------------------------------------
(***************************************************************************)
(* Sums over finite sets.                                                  *)
(***************************************************************************)

(* s sums the values w[x] over every subset of X, in the order of CHOOSE. *)
SumsUp(s, w, X) ==
  s = [T \in SUBSET X |->
         IF T = {} THEN 0
         ELSE LET x == CHOOSE y \in T : TRUE IN w[x] + s[T \ {x}]]

(* Induction over the natural numbers and over a finite set, for a set that *)
(* holds what is shown (a set, where the library has an operator).         *)
LEMMA NatSetInduction ==
  ASSUME NEW S, 0 \in S, \A n \in Nat : n \in S => n + 1 \in S
  PROVE  Nat \subseteq S
<1> DEFINE T == {n \in Nat : n \notin S}
<1>1. SUFFICES ASSUME T # {} PROVE FALSE
  OBVIOUS
<1>2. PICK n \in T : \A m \in T : <<m, n>> \notin OpToRel(<, Nat)
  BY <1>1, NatLessThanWellFounded, WFMin
<1>3. n \in Nat /\ n - 1 \in Nat /\ n - 1 \notin S
  <2>1. n \in Nat /\ n \notin S /\ n # 0
    BY <1>2
  <2>2. n - 1 \in Nat /\ (n - 1) + 1 = n
    BY <2>1
  <2>. QED
    BY <2>1, <2>2
<1>4. <<n - 1, n>> \in OpToRel(<, Nat)
  BY <1>3 DEF OpToRel
<1>. QED
  BY <1>2, <1>3, <1>4

LEMMA FiniteSetInduction ==
  ASSUME NEW X, IsFiniteSet(X), NEW F,
         \A T \in SUBSET X : (\A x \in T : T \ {x} \in F) => T \in F
  PROVE  X \in F
<1> DEFINE G == {T \in SUBSET X : T \notin F}
<1>1. SUFFICES ASSUME G # {} PROVE FALSE
  OBVIOUS
<1>2. G \subseteq FiniteSubsetsOf(X)
  BY FS_FiniteSubsetsOfFinite
<1>3. IsWellFoundedOn(StrictSubsetOrdering(X), FiniteSubsetsOf(X))
  BY FS_StrictSubsetOrderingWellFounded
<1>4. PICK T \in G : \A U \in G : <<U, T>> \notin StrictSubsetOrdering(X)
  BY <1>1, <1>2, <1>3, WFMin
<1>5. ASSUME NEW x \in T PROVE T \ {x} \in F
  <2>1. <<T \ {x}, T>> \in StrictSubsetOrdering(X)
    BY <1>4, <1>5 DEF StrictSubsetOrdering
  <2>. QED
    BY <2>1, <1>4
<1>. QED
  BY <1>4, <1>5

(* There is such a function, whatever is summed, and it is the only one;   *)
(* so the recursive definition of a sum means what it says.                *)
LEMMA SumExists ==
  ASSUME NEW X, IsFiniteSet(X), NEW w
  PROVE  \E s : SumsUp(s, w, X)
<1> DEFINE c(T) == CHOOSE y \in T : TRUE
           next(s, T) == IF T = {} THEN 0 ELSE w[c(T)] + s[T \ {c(T)}]
           D(n) == {T \in SUBSET X : Cardinality(T) =< n}
           S == {n \in Nat : \E s : s = [T \in D(n) |-> next(s, T)]}
<1>1. \A T \in SUBSET X : IsFiniteSet(T) /\ Cardinality(T) \in Nat
                          /\ Cardinality(T) =< Cardinality(X)
  BY FS_Subset, FS_CardinalityType
<1>2. \A T \in SUBSET X : T # {} => /\ c(T) \in T
                                    /\ T \ {c(T)} \in SUBSET X
                                    /\ Cardinality(T \ {c(T)}) = Cardinality(T) - 1
  BY <1>1, FS_RemoveElement
<1>3. \A T \in SUBSET X : T # {} => Cardinality(T) # 0
  BY <1>1, FS_EmptySet
<1>4. 0 \in S
  <2>1. \A T \in D(0) : T = {}
    BY <1>1, <1>3
  <2>2. [T \in D(0) |-> 0] = [T \in D(0) |-> next([U \in D(0) |-> 0], T)]
    BY <2>1
  <2>. QED
    BY <2>2
<1>5. ASSUME NEW n \in Nat, n \in S
      PROVE  n + 1 \in S
  <2>1. PICK s : s = [T \in D(n) |-> next(s, T)]
    BY <1>5
  <2> DEFINE t == [T \in D(n + 1) |-> next(s, T)]
  <2>2. \A T \in D(n) : t[T] = s[T]
    <3>1. D(n) \subseteq D(n + 1)
      BY <1>1
    <3>2. ASSUME NEW T \in D(n) PROVE t[T] = s[T]
      <4>1. t[T] = next(s, T)
        BY <3>1
      <4>2. s[T] = next(s, T)
        BY <2>1
      <4>. QED
        BY <4>1, <4>2
    <3>. QED
      BY <3>2
  <2>3. ASSUME NEW T \in D(n + 1)
        PROVE  next(s, T) = next(t, T)
    <3>1. CASE T = {}
      BY <3>1
    <3>2. CASE T # {}
      <4>1. T \ {c(T)} \in D(n)
        BY <3>2, <1>1, <1>2
      <4>. QED
        BY <4>1, <2>2
    <3>. QED
      BY <3>1, <3>2
  <2>4. t = [T \in D(n + 1) |-> next(t, T)]
    <3> HIDE DEF next, D
    <3>. QED
      BY <2>3
  <2>5. \E r : r = [T \in D(n + 1) |-> next(r, T)]
    <3> HIDE DEF next, D, t
    <3>. QED
      BY <2>4
  <2>. QED
    <3> HIDE DEF next, D
    <3>. QED
      BY <2>5
<1>6. Cardinality(X) \in S
  <2>. HIDE DEF S
  <2>. QED
    BY <1>1, <1>4, <1>5, NatSetInduction
<1>7. D(Cardinality(X)) = SUBSET X
  BY <1>1
<1>. QED
  BY <1>6, <1>7 DEF SumsUp

LEMMA SumUnique ==
  ASSUME NEW X, NEW Y, NEW w, NEW v, NEW s, NEW t, SumsUp(s, w, X), SumsUp(t, v, Y),
         IsFiniteSet(X), X \subseteq Y, \A x \in X : w[x] = v[x]
  PROVE  s[X] = t[X]
<1> DEFINE F == {T \in SUBSET X : s[T] = t[T]}
<1>1. ASSUME NEW T \in SUBSET X, \A x \in T : T \ {x} \in F
      PROVE  T \in F
  <2>1. s[T] = IF T = {} THEN 0 ELSE LET x == CHOOSE y \in T : TRUE IN w[x] + s[T \ {x}]
    BY DEF SumsUp
  <2>2. t[T] = IF T = {} THEN 0 ELSE LET x == CHOOSE y \in T : TRUE IN v[x] + t[T \ {x}]
    BY DEF SumsUp
  <2>3. CASE T # {}
    <3> DEFINE x == CHOOSE y \in T : TRUE
    <3>1. x \in T /\ s[T \ {x}] = t[T \ {x}]
      BY <1>1, <2>3
    <3>. QED
      BY <3>1, <2>1, <2>2
  <2>. QED
    BY <2>1, <2>2, <2>3
<1>2. X \in F
  <2>. HIDE DEF F
  <2>. QED
    BY <1>1, FiniteSetInduction
<1>. QED
  BY <1>2

LEMMA SumDefined ==
  ASSUME NEW X, IsFiniteSet(X), NEW w
  PROVE  \E s : SumsUp(s, w, X) /\ SumFunctionOnSet(w, X) = s[X]
<1> DEFINE s == CHOOSE r : SumsUp(r, w, X)
<1>1. SumsUp(s, w, X)
  BY SumExists
<1>2. SumFunctionOnSet(w, X) = s[X]
  BY DEF SumFunctionOnSet, FoldFunctionOnSet, MapThenFoldSet, SumsUp
<1>. QED
  BY <1>1, <1>2

(* What a sum is: of equal values, of no values, of one value and the rest *)
(* (in any order), and of values that are integers or bounded.             *)
LEMMA SumCongruent ==
  ASSUME NEW X, IsFiniteSet(X), NEW w, NEW v, \A x \in X : w[x] = v[x]
  PROVE  SumFunctionOnSet(w, X) = SumFunctionOnSet(v, X)
<1>1. PICK s : SumsUp(s, w, X) /\ SumFunctionOnSet(w, X) = s[X]
  BY SumDefined
<1>2. PICK t : SumsUp(t, v, X) /\ SumFunctionOnSet(v, X) = t[X]
  BY SumDefined
<1>. QED
  BY <1>1, <1>2, SumUnique

LEMMA SumEmpty ==
  ASSUME NEW w
  PROVE  SumFunctionOnSet(w, {}) = 0
<1>1. PICK s : SumsUp(s, w, {}) /\ SumFunctionOnSet(w, {}) = s[{}]
  BY SumDefined, FS_EmptySet
<1>. QED
  BY <1>1 DEF SumsUp

LEMMA SumChosen ==
  ASSUME NEW X, IsFiniteSet(X), NEW w, X # {}
  PROVE  LET x == CHOOSE y \in X : TRUE
         IN  SumFunctionOnSet(w, X) = w[x] + SumFunctionOnSet(w, X \ {x})
<1> DEFINE x == CHOOSE y \in X : TRUE
<1>1. PICK s : SumsUp(s, w, X) /\ SumFunctionOnSet(w, X) = s[X]
  BY SumDefined
<1>2. IsFiniteSet(X \ {x})
  BY FS_RemoveElement
<1>3. PICK t : SumsUp(t, w, X \ {x}) /\ SumFunctionOnSet(w, X \ {x}) = t[X \ {x}]
  BY <1>2, SumDefined
<1>4. t[X \ {x}] = s[X \ {x}]
  BY <1>1, <1>2, <1>3, SumUnique
<1>5. s[X] = w[x] + s[X \ {x}]
  BY <1>1 DEF SumsUp
<1>. QED
  BY <1>1, <1>3, <1>4, <1>5

LEMMA SumInt ==
  ASSUME NEW X, IsFiniteSet(X), NEW w, \A x \in X : w[x] \in Int
  PROVE  SumFunctionOnSet(w, X) \in Int
<1> DEFINE F == {T \in SUBSET X : SumFunctionOnSet(w, T) \in Int}
<1>1. ASSUME NEW T \in SUBSET X, \A x \in T : T \ {x} \in F
      PROVE  T \in F
  <2>1. CASE T = {}
    BY <2>1, SumEmpty
  <2>2. CASE T # {}
    <3> DEFINE x == CHOOSE y \in T : TRUE
    <3>1. x \in T /\ SumFunctionOnSet(w, T \ {x}) \in Int
      BY <1>1, <2>2
    <3>2. SumFunctionOnSet(w, T) = w[x] + SumFunctionOnSet(w, T \ {x})
      BY <2>2, SumChosen, FS_Subset
    <3>. QED
      BY <3>1, <3>2
  <2>. QED
    BY <2>1, <2>2
<1>2. X \in F
  <2>. HIDE DEF F
  <2>. QED
    BY <1>1, FiniteSetInduction
<1>. QED
  BY <1>2

LEMMA SumRemove ==
  ASSUME NEW X, IsFiniteSet(X), NEW w, \A x \in X : w[x] \in Int, NEW z \in X
  PROVE  SumFunctionOnSet(w, X) = w[z] + SumFunctionOnSet(w, X \ {z})
<1> DEFINE Sum(T) == SumFunctionOnSet(w, T)
           F == {T \in SUBSET X : \A x \in T : Sum(T) = w[x] + Sum(T \ {x})}
<1>0. \A T \in SUBSET X : IsFiniteSet(T) /\ Sum(T) \in Int
  BY SumInt, FS_Subset
<1>1. ASSUME NEW T \in SUBSET X, \A x \in T : T \ {x} \in F
      PROVE  T \in F
  <2> SUFFICES ASSUME NEW x \in T PROVE Sum(T) = w[x] + Sum(T \ {x})
    OBVIOUS
  <2> DEFINE c == CHOOSE y \in T : TRUE
  <2>1. c \in T /\ IsFiniteSet(T)
    BY <1>0
  <2>2. Sum(T) = w[c] + Sum(T \ {c})
    BY <2>1, SumChosen
  <2>3. CASE x # c
    <3>1. Sum(T \ {c}) = w[x] + Sum((T \ {c}) \ {x})
      BY <1>1, <2>1, <2>3
    <3>2. Sum(T \ {x}) = w[c] + Sum((T \ {x}) \ {c})
      BY <1>1, <2>1, <2>3
    <3>3. Sum((T \ {c}) \ {x}) = Sum((T \ {x}) \ {c})
      <4>1. (T \ {c}) \ {x} = (T \ {x}) \ {c}
        OBVIOUS
      <4> HIDE DEF Sum
      <4>. QED
        BY <4>1
    <3>4. Sum((T \ {c}) \ {x}) \in Int
      BY <1>0
    <3>5. w[c] \in Int /\ w[x] \in Int
      BY <2>1
    <3> HIDE DEF Sum, c
    <3>. QED
      BY <3>5, <2>2, <3>1, <3>2, <3>3, <3>4
  <2>. QED
    BY <2>2, <2>3
<1>2. X \in F
  <2>. HIDE DEF F
  <2>. QED
    BY <1>1, FiniteSetInduction
<1>. QED
  BY <1>2

LEMMA SumAdd ==
  ASSUME NEW X, IsFiniteSet(X), NEW w, NEW z, z \notin X,
         \A x \in X \cup {z} : w[x] \in Int
  PROVE  SumFunctionOnSet(w, X \cup {z}) = w[z] + SumFunctionOnSet(w, X)
<1>1. IsFiniteSet(X \cup {z}) /\ (X \cup {z}) \ {z} = X
  BY FS_AddElement
<1>. QED
  BY <1>1, SumRemove

LEMMA SumNonNegative ==
  ASSUME NEW X, IsFiniteSet(X), NEW w, \A x \in X : w[x] \in Nat
  PROVE  SumFunctionOnSet(w, X) \in Nat
<1> DEFINE F == {T \in SUBSET X : SumFunctionOnSet(w, T) \in Nat}
<1>1. ASSUME NEW T \in SUBSET X, \A x \in T : T \ {x} \in F
      PROVE  T \in F
  <2>1. CASE T = {}
    BY <2>1, SumEmpty
  <2>2. CASE T # {}
    <3> DEFINE x == CHOOSE y \in T : TRUE
    <3>1. x \in T /\ SumFunctionOnSet(w, T \ {x}) \in Nat
      BY <1>1, <2>2
    <3>2. SumFunctionOnSet(w, T) = w[x] + SumFunctionOnSet(w, T \ {x})
      BY <2>2, SumChosen, FS_Subset
    <3>. QED
      BY <3>1, <3>2
  <2>. QED
    BY <2>1, <2>2
<1>2. X \in F
  <2>. HIDE DEF F
  <2>. QED
    BY <1>1, FiniteSetInduction
<1>. QED
  BY <1>2
LEMMA SumBounded ==
  ASSUME NEW X, IsFiniteSet(X), NEW w, NEW m \in Nat, \A x \in X : w[x] \in Nat /\ w[x] =< m
  PROVE  SumFunctionOnSet(w, X) =< m * Cardinality(X)
<1> DEFINE Sum(T) == SumFunctionOnSet(w, T)
           F == {T \in SUBSET X : Sum(T) =< m * Cardinality(T)}
<1>0. \A T \in SUBSET X : IsFiniteSet(T) /\ Sum(T) \in Nat /\ Cardinality(T) \in Nat
  BY SumNonNegative, FS_Subset, FS_CardinalityType
<1>1. ASSUME NEW T \in SUBSET X, \A x \in T : T \ {x} \in F
      PROVE  T \in F
  <2>1. CASE T = {}
    BY <2>1, SumEmpty, FS_EmptySet
  <2>2. CASE T # {}
    <3>1. PICK x \in T : TRUE
      BY <2>2
    <3>2. Sum(T \ {x}) =< m * Cardinality(T \ {x})
      BY <1>1, <3>1
    <3>3. Sum(T) = w[x] + Sum(T \ {x})
      BY <1>0, SumRemove
    <3>4. Cardinality(T \ {x}) = Cardinality(T) - 1
      BY <1>0, FS_RemoveElement
    <3>5. /\ w[x] \in Nat /\ w[x] =< m
          /\ Sum(T \ {x}) \in Nat /\ Cardinality(T) \in Nat
      BY <1>0
    <3>6. m * (Cardinality(T) - 1) + m = m * Cardinality(T)
      BY <3>5
    <3>7. Sum(T) =< m * Cardinality(T)
      <4> HIDE DEF Sum
      <4>. QED
        BY <3>2, <3>3, <3>4, <3>5, <3>6
    <3>. QED
      BY <3>7
  <2>. QED
    BY <2>1, <2>2
<1>2. X \in F
  <2>. HIDE DEF F
  <2>. QED
    BY <1>1, FiniteSetInduction
<1>. QED
  BY <1>2

-----------------------------------------------------------------------------
(***************************************************************************)
(* The books of a contract.                                                *)
(***************************************************************************)

(* The volume of n is in the reserved volume of its contract. *)
Held(n) ==
  \/ noms[n].reserved /\ \A h \in Handlers : ~(req[h].step = "cancel" /\ req[h].nom = n)
  \/ \E h \in Handlers : req[h].step = "submit" /\ req[h].nom = n

(* Finitely many nominations hold capacity of c, and they add up. *)
BooksAt(c) == IsFiniteSet(Charged(c)) /\ contracts[c].used = VolumeCharged(c)

BooksInv == ClientInv /\ \A c \in Contracts : BooksAt(c)

LEMMA ChargedHeld ==
  ASSUME NEW c
  PROVE  /\ Charged(c) \subseteq Noms /\ Charged(c)' \subseteq Noms
         /\ \A n \in Noms : /\ n \in Charged(c) <=> noms[n].contract = c /\ Held(n)
                            /\ n \in Charged(c)' <=> noms'[n].contract = c /\ Held(n)'
  BY DEF Charged, Held

LEMMA ChargedSame ==
  ASSUME NEW c, \A n \in Noms : n \in Charged(c)' <=> n \in Charged(c)
  PROVE  Charged(c)' = Charged(c)
<1>1. \A n : n \in Charged(c)' <=> n \in Charged(c)
  BY ChargedHeld
<1>. QED
  BY <1>1, Zenon

LEMMA VolumesTyped ==
  ASSUME TypeInv, NEW n \in Noms
  PROVE  noms[n].volume \in Nat
  BY DEF TypeInv, TypeOK, NomRecord

(* What the steps do to the books: nothing, ... *)
LEMMA BooksKept ==
  ASSUME NEW c \in Contracts, BooksAt(c),
         contracts'[c].used = contracts[c].used,
         \A n \in Noms : /\ Held(n)' <=> Held(n)
                         /\ Held(n) => /\ noms'[n].contract = noms[n].contract
                                       /\ noms'[n].volume = noms[n].volume
  PROVE  BooksAt(c)'
<1>1. Charged(c)' = Charged(c)
  BY ChargedHeld, ChargedSame
<1>2. SumFunctionOnSet([n \in Noms |-> noms'[n].volume], Charged(c))
        = SumFunctionOnSet([n \in Noms |-> noms[n].volume], Charged(c))
  <2>1. \A n \in Charged(c) : n \in Noms /\ noms'[n].volume = noms[n].volume
    BY ChargedHeld
  <2>2. IsFiniteSet(Charged(c))
    BY DEF BooksAt
  <2>. QED
    BY <2>1, <2>2, SumCongruent
<1>3. VolumeCharged(c)' = VolumeCharged(c)
  BY <1>1, <1>2 DEF VolumeCharged
<1>. QED
  BY <1>1, <1>3 DEF BooksAt

(* ... the debit of a nomination that holds none yet, ... *)
LEMMA BooksDebited ==
  ASSUME TypeInv, NEW c \in Contracts, BooksAt(c), NEW n \in Noms,
         n \notin Charged(c), Charged(c)' = Charged(c) \cup {n}, noms' = noms,
         contracts'[c].used = contracts[c].used + noms[n].volume
  PROVE  BooksAt(c)'
<1> DEFINE w == [m \in Noms |-> noms[m].volume]
<1>1. IsFiniteSet(Charged(c)) /\ IsFiniteSet(Charged(c) \cup {n})
  BY FS_AddElement DEF BooksAt
<1>2. \A m \in Charged(c) \cup {n} : w[m] \in Int
  BY VolumesTyped DEF Charged
<1>3. SumFunctionOnSet(w, Charged(c) \cup {n}) = w[n] + SumFunctionOnSet(w, Charged(c))
  BY <1>1, <1>2, SumAdd
<1>4. SumFunctionOnSet(w, Charged(c)) \in Int
  BY <1>1, <1>2, SumInt
<1>5. contracts[c].used = SumFunctionOnSet(w, Charged(c))
  BY DEF BooksAt, VolumeCharged
<1>6. VolumeCharged(c)' = SumFunctionOnSet(w, Charged(c) \cup {n})
  BY DEF VolumeCharged
<1>7. w[n] = noms[n].volume /\ w[n] \in Int
  BY <1>2
<1> HIDE DEF w
<1>8. contracts'[c].used = SumFunctionOnSet(w, Charged(c) \cup {n})
  BY <1>3, <1>4, <1>5, <1>7
<1>. QED
  BY <1>1, <1>6, <1>8 DEF BooksAt

(* ... and the credit of one that does, which never falls below zero.      *)
LEMMA BooksCredited ==
  ASSUME TypeInv, NEW c \in Contracts, BooksAt(c), NEW n \in Noms,
         n \in Charged(c), Charged(c)' = Charged(c) \ {n}, noms' = noms,
         contracts'[c].used = IF contracts[c].used < noms[n].volume THEN 0
                              ELSE contracts[c].used - noms[n].volume
  PROVE  BooksAt(c)'
<1> DEFINE w == [m \in Noms |-> noms[m].volume]
<1>1. IsFiniteSet(Charged(c)) /\ IsFiniteSet(Charged(c) \ {n})
  BY FS_RemoveElement DEF BooksAt
<1>2. \A m \in Charged(c) : w[m] \in Nat
  BY VolumesTyped DEF Charged
<1>3. SumFunctionOnSet(w, Charged(c)) = w[n] + SumFunctionOnSet(w, Charged(c) \ {n})
  <2>1. \A m \in Charged(c) : w[m] \in Int
    BY <1>2
  <2>. HIDE DEF w
  <2>. QED
    BY <1>1, <2>1, SumRemove
<1>4. SumFunctionOnSet(w, Charged(c) \ {n}) \in Nat
  BY <1>1, <1>2, SumNonNegative
<1>5. contracts[c].used = SumFunctionOnSet(w, Charged(c))
  BY DEF BooksAt, VolumeCharged
<1>6. VolumeCharged(c)' = SumFunctionOnSet(w, Charged(c) \ {n})
  BY DEF VolumeCharged
<1>7. w[n] = noms[n].volume /\ w[n] \in Nat
  BY <1>2
<1> HIDE DEF w
<1>8. contracts'[c].used = SumFunctionOnSet(w, Charged(c) \ {n})
  BY <1>3, <1>4, <1>5, <1>7
<1>. QED
  BY <1>1, <1>6, <1>8 DEF BooksAt

LEMMA InitBooksInv == Init => BooksInv
<1> SUFFICES ASSUME Init, NEW c \in Contracts PROVE BooksAt(c)
  BY InitClientInv DEF BooksInv
<1>1. Charged(c) = {}
  BY DEF Init, NomInit, NoNom, Idle, Charged
<1>2. contracts[c].used = 0
  BY DEF Init, ContractInit, NoContract
<1>. QED
  BY <1>1, <1>2, FS_EmptySet, SumEmpty DEF BooksAt, VolumeCharged

(* Requests about contracts leave nominations, the requests about them,    *)
(* and what is reserved alone; a contract that is new has nothing reserved.*)
LEMMA ContractRequestLocal ==
  ASSUME TypeInv, NEW h \in Handlers, ContractRequest(h)
  PROVE  /\ noms' = noms
         /\ \A g \in Handlers : \/ req'[g] = req[g]
                                \/ req[g].step \notin NomStep /\ req'[g].step \notin NomStep
         /\ \A c \in Contracts :
              \/ /\ contracts'[c].used = contracts[c].used
                 /\ contracts'[c].daily = contracts[c].daily
                 /\ contracts[c].state # "none" => contracts'[c].state # "none"
              \/ /\ ContractExists(c) => ReuseContractIds
                 /\ contracts'[c].used = 0
                 /\ contracts'[c].daily \in Nat
<1> USE DEF TypeInv, TypeOK, contractVars
<1>1. ASSUME NEW d \in Contracts, NEW in \in ContractInputs, CreateContract(h, d, in)
      PROVE  /\ UNCHANGED <<noms, req>>
             /\ \A c \in Contracts \ {d} : contracts'[c] = contracts[c]
             /\ ContractExists(d) => ReuseContractIds
             /\ contracts'[d].used = 0 /\ contracts'[d].daily \in Nat
  BY <1>1, ContractInputsOK DEF CreateContract, PutContract
<1>2. ASSUME NEW r, Become(h, r), req[h].step \notin NomStep, r.step \notin NomStep
      PROVE  \A g \in Handlers : \/ req'[g] = req[g]
                                 \/ req[g].step \notin NomStep /\ req'[g].step \notin NomStep
  BY <1>2 DEF Become
<1>3. \A todo : Scanning(todo).step \notin NomStep
  BY DEF Scanning, Idle, NomStep
<1>4. \A c, s, todo : SettingState(c, s, todo).step \notin NomStep
  BY DEF SettingState, NomStep
<1>5. CASE SetStateWrite(h)
  <2>1. /\ req[h].step \notin NomStep /\ noms' = noms
        /\ Become(h, Scanning(req[h].todo))
        /\ req[h].contract \in Contracts /\ req[h].target # "none"
        /\ contracts' = [contracts EXCEPT ![req[h].contract].state = req[h].target]
    BY <1>5 DEF SetStateWrite, WriteContractState, RequestsOK, ContractState, NomStep
  <2>2. ASSUME NEW c \in Contracts
        PROVE  /\ contracts'[c].used = contracts[c].used
               /\ contracts'[c].daily = contracts[c].daily
    BY <2>1 DEF ContractRecord
  <2>3. ASSUME NEW c \in Contracts, contracts[c].state # "none"
        PROVE  contracts'[c].state # "none"
    BY <2>1, <2>3 DEF ContractRecord
  <2>. QED
    BY <1>2, <1>3, <2>1, <2>2, <2>3
<1>6. CASE \E c \in Contracts, s \in ContractState : SetStateRead(h, c, s)
  BY <1>2, <1>4, <1>6 DEF SetStateRead, IsIdle, NomStep
<1>7. CASE ExpireDueRead(h)
  BY <1>2, <1>3, <1>7 DEF ExpireDueRead, IsIdle, NomStep
<1>8. CASE \E c \in Contracts : ExpireNext(h, c) \/ ExpireSkip(h, c)
  BY <1>2, <1>3, <1>4, <1>8 DEF ExpireNext, ExpireSkip, NomStep
<1>. QED
  BY <1>1, <1>5, <1>6, <1>7, <1>8 DEF ContractRequest

(* A step of a request that is not about to write a cancellation or a      *)
(* submission before it nor after it changes nothing that is held.         *)
LEMMA HeldUnchanged ==
  ASSUME NEW h \in Handlers, noms' = noms,
         \A g \in Handlers : \/ req'[g] = req[g]
                             \/ req[g].step \notin {"submit", "cancel"}
                                /\ req'[g].step \notin {"submit", "cancel"},
         NEW n \in Noms
  PROVE  Held(n)' <=> Held(n)
  BY DEF Held

LEMMA ContractStepBooks ==
  ASSUME BooksInv, ~ReuseContractIds, NEW h \in Handlers, ContractRequest(h), NEW c \in Contracts
  PROVE  BooksAt(c)'
<1>1. TypeInv /\ BooksAt(c)
  BY DEF BooksInv, ClientInv
<1>2. \A n \in Noms : Held(n)' <=> Held(n)
  BY <1>1, ContractRequestLocal, HeldUnchanged DEF NomStep
<1>3. noms' = noms
  BY <1>1, ContractRequestLocal
<1>4. CASE contracts'[c].used = contracts[c].used
  BY <1>1, <1>2, <1>3, <1>4, BooksKept
<1>5. CASE ~ContractExists(c) /\ contracts'[c].used = 0
  <2>1. Charged(c) = {}
    BY <1>5 DEF BooksInv, ClientInv, TypeInv, TypeOK, RecordsOK, RequestsOK, NomRecord,
                LiveHoldsCapacity, Charged, NomStep
  <2>2. Charged(c)' = {}
    BY <1>2, <1>3, <2>1, ChargedHeld
  <2>. QED
    BY <1>5, <2>2, FS_EmptySet, SumEmpty DEF BooksAt, VolumeCharged
<1>. QED
  BY <1>1, <1>4, <1>5, ContractRequestLocal

(* The nomination a request is about is not another request's. *)
LEMMA OwnNomination ==
  ASSUME ClientInv, NEW h \in Handlers, req[h].step \in NomStep
  PROVE  /\ req[h].nom \in Noms /\ req[h].nom # None
         /\ \A g \in Handlers \ {h} : req[g].nom # req[h].nom
         /\ noms[req[h].nom] \in NomRecord
  BY NoneOK DEF ClientInv, Exclusive, TypeInv, TypeOK, RequestsOK

LEMMA NominationStepBooks ==
  ASSUME BooksInv, NoOverlap, NEW h \in Handlers, NominationRequest(h), NEW c \in Contracts
  PROVE  BooksAt(c)'
<1>0. ClientInv /\ TypeInv /\ BooksAt(c) /\ TypeOK
  BY DEF BooksInv, ClientInv, TypeInv
<1>1. ASSUME NEW n \in Noms, NEW d \in Contracts, NEW v \in Volumes, CreateNomination(h, n, d, v)
      PROVE  BooksAt(c)'
  <2>1. /\ \A m \in Noms \ {n} : noms'[m] = noms[m]
        /\ noms[n].state = "none" /\ ~noms'[n].reserved
        /\ req' = req /\ contracts' = contracts
    BY <1>0, <1>1 DEF CreateNomination, PutNomination, TypeOK
  <2>2. ~noms[n].reserved /\ \A g \in Handlers : req[g].step \in NomStep => req[g].nom # n
    BY <1>0, <2>1 DEF ClientInv, LiveHoldsCapacity, TypeInv, RequestsOK
  <2>3. ~Held(n) /\ ~Held(n)' /\ \A m \in Noms \ {n} : Held(m)' <=> Held(m)
    BY <2>1, <2>2 DEF Held, NomStep
  <2>. QED
    BY <1>0, <2>1, <2>3, BooksKept
(* The start of an operation: a cancellation that skips the release is of  *)
(* a nomination that holds nothing.                                        *)
<1>2. ASSUME NEW n \in Noms, NEW t, NEW s, Begin(h, n, t, s), s # "submit",
             s = "cancel" => ~noms[n].reserved
      PROVE  BooksAt(c)'
  <2>1. /\ \A g \in Handlers : req[g].nom # n
        /\ noms' = noms /\ contracts' = contracts
        /\ req[h].step = "idle" /\ req' = [req EXCEPT ![h] = Operation(s, n, t)]
    BY <1>0, <1>2, NoneOK DEF Begin, MayRequest, NoOverlap, IsIdle, Become, ClientInv, TypeInv,
                      RequestsOK, NomStep
  <2>2. /\ req'[h].step = s /\ req'[h].nom = n
        /\ \A g \in Handlers \ {h} : req'[g] = req[g]
    BY <1>0, <2>1 DEF Operation, TypeOK
  <2>3. ASSUME NEW m \in Noms PROVE Held(m)' <=> Held(m)
    <3>1. CASE m = n
      BY <1>2, <2>1, <2>2, <3>1 DEF Held
    <3>2. CASE m # n
      BY <2>1, <2>2, <3>2 DEF Held
    <3>. QED
      BY <3>1, <3>2
  <2>. QED
    BY <1>0, <2>1, <2>3, BooksKept
<1>3. ASSUME ReserveCheck(h) \/ ReserveReject(h)
      PROVE  BooksAt(c)'
  <2>1. /\ noms' = noms /\ contracts' = contracts /\ req[h].step = "reserve"
        /\ req'[h].step \notin {"submit", "cancel"}
        /\ \A g \in Handlers \ {h} : req'[g] = req[g]
    BY <1>0, <1>3 DEF ReserveCheck, ReserveReject, Goto, Return, Become, Idle, TypeOK, Request
  <2>2. \A n \in Noms : Held(n)' <=> Held(n)
    BY <2>1, HeldUnchanged
  <2>. QED
    BY <1>0, <2>1, <2>2, BooksKept
<1>4. ASSUME ReserveDebit(h)
      PROVE  BooksAt(c)'
  <2> DEFINE n == req[h].nom
  <2>1. /\ req[h].step = "debit" /\ noms' = noms
        /\ req'[h].step = "submit" /\ req'[h].nom = n
        /\ \A g \in Handlers \ {h} : req'[g] = req[g]
    BY <1>0, <1>4 DEF ReserveDebit, Goto, TypeOK, Request
  <2>2. n \in Noms /\ \A g \in Handlers \ {h} : req[g].nom # n
    BY <1>0, <2>1, OwnNomination DEF NomStep
  <2>3. ~noms[n].reserved
    BY <1>0, <2>1, <2>2 DEF ClientInv, CopyStillTrue, LiveHoldsCapacity
  <2>4. ~Held(n) /\ Held(n)'
    BY <2>1, <2>2, <2>3 DEF Held
  <2>5. \A m \in Noms \ {n} : Held(m)' <=> Held(m)
    BY <2>1 DEF Held
  <2>6. /\ VolumeOf(h) = noms[n].volume /\ ContractOf(h) = noms[n].contract
        /\ contracts'[ContractOf(h)].used = contracts[ContractOf(h)].used + VolumeOf(h)
        /\ \A d \in Contracts \ {ContractOf(h)} : contracts'[d] = contracts[d]
    BY <1>0, <1>4, <2>1, OperandsTyped, DebitFields
    DEF ReserveDebit, VolumeOf, ContractOf, NomStep
  <2>7. CASE c = ContractOf(h)
    <3>1. n \notin Charged(c)
      BY <2>4, ChargedHeld
    <3>2. Charged(c)' = Charged(c) \cup {n}
      BY <2>1, <2>2, <2>4, <2>5, <2>6, <2>7, ChargedHeld
    <3>. QED
      BY <1>0, <2>1, <2>2, <2>6, <2>7, <3>1, <3>2, BooksDebited
  <2>8. CASE c # ContractOf(h)
    <3>1. ~(noms[n].contract = c)
      BY <2>6, <2>8
    <3>2. \A m \in Noms \ {n} : m \in Charged(c)' <=> m \in Charged(c)
      BY <2>1, <2>5, ChargedHeld
    <3>3. n \notin Charged(c) /\ n \notin Charged(c)'
      BY <2>1, <3>1, ChargedHeld
    <3>4. Charged(c)' = Charged(c)
      BY <3>2, <3>3, ChargedSame
    <3>. QED
      BY <1>0, <2>1, <2>6, <2>8, <3>4 DEF BooksAt, VolumeCharged
  <2>. QED
    BY <2>7, <2>8
<1>5. ASSUME ReleaseCredit(h)
      PROVE  BooksAt(c)'
  <2> DEFINE n == req[h].nom
  <2>1. /\ req[h].step = "release" /\ noms' = noms
        /\ req'[h].step = "cancel" /\ req'[h].nom = n
        /\ \A g \in Handlers \ {h} : req'[g] = req[g]
    BY <1>0, <1>5 DEF ReleaseCredit, Goto, TypeOK, Request
  <2>2. n \in Noms /\ \A g \in Handlers \ {h} : req[g].nom # n
    BY <1>0, <2>1, OwnNomination DEF NomStep
  <2>3. noms[n].reserved
    BY <1>0, <2>1, <2>2 DEF ClientInv, CopyStillTrue, LiveHoldsCapacity
  <2>4. Held(n) /\ ~Held(n)'
    BY <2>1, <2>2, <2>3 DEF Held
  <2>5. \A m \in Noms \ {n} : Held(m)' <=> Held(m)
    BY <2>1 DEF Held
  <2>6. /\ VolumeOf(h) = noms[n].volume /\ ContractOf(h) = noms[n].contract
        /\ contracts'[ContractOf(h)].used =
             IF contracts[ContractOf(h)].used < VolumeOf(h) THEN 0
             ELSE contracts[ContractOf(h)].used - VolumeOf(h)
        /\ \A d \in Contracts \ {ContractOf(h)} : contracts'[d] = contracts[d]
    BY <1>0, <1>5, <2>1, OperandsTyped, CreditFields
    DEF ReleaseCredit, VolumeOf, ContractOf, NomStep
  <2>7. CASE c = ContractOf(h)
    <3>1. n \in Charged(c)
      BY <2>2, <2>4, <2>6, <2>7, ChargedHeld
    <3>2. Charged(c)' = Charged(c) \ {n}
      BY <2>1, <2>2, <2>4, <2>5, <2>6, <2>7, ChargedHeld
    <3>. QED
      BY <1>0, <2>1, <2>2, <2>6, <2>7, <3>1, <3>2, BooksCredited
  <2>8. CASE c # ContractOf(h)
    <3>1. ~(noms[n].contract = c)
      BY <2>6, <2>8
    <3>2. \A m \in Noms \ {n} : m \in Charged(c)' <=> m \in Charged(c)
      BY <2>1, <2>5, ChargedHeld
    <3>3. n \notin Charged(c) /\ n \notin Charged(c)'
      BY <2>1, <3>1, ChargedHeld
    <3>4. Charged(c)' = Charged(c)
      BY <3>2, <3>3, ChargedSame
    <3>. QED
      BY <1>0, <2>1, <2>6, <2>8, <3>4 DEF BooksAt, VolumeCharged
  <2>. QED
    BY <2>7, <2>8
(* The writes of a nomination, after which its request is over. *)
<1>6. ASSUME NEW n \in Noms, n = req[h].nom, req[h].step \in NomStep,
             Return(h), contracts' = contracts,
             \A m \in Noms \ {n} : noms'[m] = noms[m],
             /\ noms'[n].contract = noms[n].contract
             /\ noms'[n].volume = noms[n].volume,
             noms'[n].reserved <=> Held(n)
      PROVE  BooksAt(c)'
  <2>1. /\ req'[h].nom = None /\ req'[h].step = "idle"
        /\ \A g \in Handlers \ {h} : req'[g] = req[g] /\ req[g].nom # n
    BY <1>0, <1>6, OwnNomination DEF Return, Become, Idle, TypeOK
  <2>2. Held(n)' <=> Held(n)
    BY <1>6, <2>1 DEF Held
  <2>3. \A m \in Noms \ {n} : Held(m)' <=> Held(m)
    BY <1>6, <2>1 DEF Held
  <2>. QED
    BY <1>0, <1>6, <2>2, <2>3, BooksKept
<1>7. ASSUME SubmitWrite(h) \/ MoveWrite(h) \/ CancelWrite(h)
      PROVE  BooksAt(c)'
  <2> DEFINE n == req[h].nom
  <2>1. /\ req[h].step \in {"submit", "move", "cancel"} /\ Return(h)
        /\ req[h].step \in NomStep /\ contracts' = contracts
    BY <1>7 DEF SubmitWrite, MoveWrite, CancelWrite, contractVars, NomStep
  <2>2. /\ n \in Noms /\ noms[n] \in NomRecord /\ DOMAIN noms = Noms
        /\ \A g \in Handlers \ {h} : req[g].nom # n
    BY <1>0, <2>1, OwnNomination DEF TypeOK
  <2>3. /\ \A m \in Noms \ {n} : noms'[m] = noms[m]
        /\ noms'[n].contract = noms[n].contract
        /\ noms'[n].volume = noms[n].volume
    BY <1>7, <2>2 DEF SubmitWrite, MoveWrite, CancelWrite, NomRecord
  <2>4. noms'[n].reserved <=> Held(n)
    <3>1. CASE SubmitWrite(h)
      BY <2>2, <3>1 DEF SubmitWrite, Held, NomRecord
    <3>2. CASE MoveWrite(h)
      BY <2>2, <3>2 DEF MoveWrite, Held, NomRecord
    <3>3. CASE CancelWrite(h)
      BY <2>2, <3>3 DEF CancelWrite, Held, NomRecord
    <3>. QED
      BY <1>7, <3>1, <3>2, <3>3
  <2>. QED
    BY <1>6, <2>1, <2>2, <2>3, <2>4
<1>8. ASSUME NEW n \in Noms, SubmitRead(h, n) \/ ConfirmRead(h, n) \/ ExecuteRead(h, n)
                               \/ CancelRead(h, n)
      PROVE  BooksAt(c)'
  BY <1>2, <1>8 DEF SubmitRead, ConfirmRead, ExecuteRead, CancelRead
<1>. QED
  BY <1>1, <1>3, <1>4, <1>5, <1>7, <1>8 DEF NominationRequest

(***************************************************************************)
(* A contract's reserved volume is the sum of what its nominations hold,   *)
(* for any number of requests, nominations and contracts: with clients     *)
(* that send one request about a nomination at a time and create no        *)
(* contract again, nothing is reserved twice, leaked or released twice     *)
(* (CapacityConserved).                                                    *)
(***************************************************************************)
THEOREM BooksBalance ==
  ASSUME OnePerNomination, ~ReuseContractIds
  PROVE  Spec => []CapacityConserved
<1>1. BooksInv => CapacityConserved
  BY DEF BooksInv, BooksAt, CapacityConserved
<1>2. BooksInv /\ [Next]_vars => BooksInv'
  <2> SUFFICES ASSUME BooksInv, [Next]_vars PROVE BooksInv'
    OBVIOUS
  <2>1. ClientInv'
    BY NextClientInv DEF BooksInv, NoOverlap
  <2>2. ASSUME NEW c \in Contracts PROVE BooksAt(c)'
    <3>1. ASSUME NEW h \in Handlers, ContractRequest(h) PROVE BooksAt(c)'
      BY <3>1, ContractStepBooks
    <3>2. ASSUME NEW h \in Handlers, NominationRequest(h) PROVE BooksAt(c)'
      BY <3>2, NominationStepBooks DEF NoOverlap
    <3>3. CASE TickStep \/ UNCHANGED vars
      <4>1. UNCHANGED <<contracts, noms, req>>
        BY <3>3 DEF TickStep, Tick, vars
      <4>2. Charged(c)' = Charged(c) /\ VolumeCharged(c)' = VolumeCharged(c)
        BY <4>1 DEF Charged, VolumeCharged
      <4>. QED
        BY <4>1, <4>2 DEF BooksInv, BooksAt
    <3>. QED
      BY <3>1, <3>2, <3>3 DEF Next
  <2>. QED
    BY <2>1, <2>2 DEF BooksInv
<1>. QED
  BY <1>1, <1>2, InitBooksInv, PTL DEF Spec

-----------------------------------------------------------------------------
(***************************************************************************)
(* The exact bound on overbooking.                                         *)
(***************************************************************************)
TightAt(c) ==
  contracts[c].used + VolumeDebiting(c)
    =< contracts[c].daily + MaxVolume * (Cardinality(Handlers) - 1)

(* A server that can serve no request has no contracts. *)
TightInv ==
  /\ TypeInv
  /\ \A c \in Contracts : IF Handlers = {} THEN ~ContractExists(c) ELSE TightAt(c)

LEMMA DebitingTyped ==
  ASSUME TypeInv, NEW c
  PROVE  /\ Debiting(c) \subseteq Handlers /\ IsFiniteSet(Debiting(c))
         /\ \A h \in Debiting(c) : VolumeOf(h) \in Nat /\ VolumeOf(h) =< MaxVolume
         /\ VolumeDebiting(c) \in Nat
<1>1. Debiting(c) \subseteq Handlers /\ IsFiniteSet(Debiting(c))
  BY HandlersOK, FS_Subset DEF Debiting
<1>2. \A h \in Debiting(c) : VolumeOf(h) \in Nat /\ VolumeOf(h) =< MaxVolume
  BY OperandsTyped, VolumesOK DEF Debiting, NomStep
<1>3. VolumeDebiting(c) \in Nat
  BY <1>1, <1>2, SumNonNegative DEF VolumeDebiting
<1>. QED
  BY <1>1, <1>2, <1>3

(* The requests other than h, at most all of them with the largest volume. *)
LEMMA OthersBounded ==
  ASSUME NEW h \in Handlers, NEW D, D \subseteq Handlers \ {h}, NEW w,
         \A g \in D : w[g] \in Nat /\ w[g] =< MaxVolume
  PROVE  SumFunctionOnSet(w, D) =< MaxVolume * (Cardinality(Handlers) - 1)
<1>1. /\ IsFiniteSet(Handlers \ {h})
      /\ Cardinality(Handlers \ {h}) = Cardinality(Handlers) - 1
      /\ Cardinality(Handlers \ {h}) \in Nat
  BY HandlersOK, FS_RemoveElement, FS_CardinalityType
<1>2. /\ IsFiniteSet(D) /\ Cardinality(D) \in Nat
      /\ Cardinality(D) =< Cardinality(Handlers) - 1
  BY <1>1, FS_Subset, FS_CardinalityType
<1>3. SumFunctionOnSet(w, D) =< MaxVolume * Cardinality(D)
  BY <1>2, SumBounded, VolumesOK
<1>4. SumFunctionOnSet(w, D) \in Nat
  BY <1>2, SumNonNegative
<1>5. MaxVolume * Cardinality(D) =< MaxVolume * (Cardinality(Handlers) - 1)
  BY <1>1, <1>2, MaxVolumeMono
<1>6. MaxVolume * Cardinality(D) \in Nat /\ MaxVolume * (Cardinality(Handlers) - 1) \in Nat
  BY <1>1, <1>2, VolumesOK
<1>. QED
  BY <1>3, <1>4, <1>5, <1>6

LEMMA SlackNatural ==
  ASSUME NEW h \in Handlers
  PROVE  MaxVolume * (Cardinality(Handlers) - 1) \in Nat
<1>1. Cardinality(Handlers \ {h}) = Cardinality(Handlers) - 1 /\ Cardinality(Handlers \ {h}) \in Nat
  BY HandlersOK, FS_RemoveElement, FS_CardinalityType
<1>. QED
  BY <1>1, VolumesOK

(* Steps that leave the debits about to be made of c, or leave out one that*)
(* reserves no more.                                                       *)
LEMMA TightKept ==
  ASSUME TypeInv, TypeInv', NEW h \in Handlers, NEW c \in Contracts, TightAt(c),
         \A g \in Handlers : \/ req'[g] = req[g]
                             \/ req[g].step # "debit" /\ req'[g].step # "debit",
         \A n \in Noms : noms[n].state # "none" =>
            noms'[n].contract = noms[n].contract /\ noms'[n].volume = noms[n].volume,
         contracts'[c].used =< contracts[c].used, contracts'[c].daily = contracts[c].daily
  PROVE  TightAt(c)'
<1>1. Debiting(c)' = Debiting(c)
  BY DebitingUnchanged
<1>2. \A g \in Debiting(c) : VolumeOf(g)' = VolumeOf(g)
  BY <1>1 DEF Debiting, VolumeOf, TypeInv, RequestsOK, NomStep
<1>3. [g \in Debiting(c) |-> VolumeOf(g)]' = [g \in Debiting(c) |-> VolumeOf(g)]
  BY <1>1, <1>2
<1>4. VolumeDebiting(c)' = VolumeDebiting(c)
  BY <1>1, <1>3 DEF VolumeDebiting
<1>5. VolumeDebiting(c) \in Nat
  BY DebitingTyped
<1>6. /\ contracts[c].used \in Nat /\ contracts[c].daily \in Nat
      /\ contracts'[c].used \in Nat /\ contracts'[c].daily \in Nat
  BY DEF TypeInv, TypeOK, ContractRecord
<1>7. MaxVolume * (Cardinality(Handlers) - 1) \in Nat
  BY SlackNatural
<1>. QED
  BY <1>4, <1>5, <1>6, <1>7 DEF TightAt

(* A request that passes Reserve's checks fits, and so what is about to be *)
(* debited besides exceeds the daily volume by the others at most.         *)
LEMMA TightChecked ==
  ASSUME TypeInv, TypeInv', NEW h \in Handlers, ReserveCheck(h), NEW c \in Contracts,
         c = ContractOf(h)
  PROVE  TightAt(c)'
<1> DEFINE D == Debiting(c)
           w == [g \in D' |-> VolumeOf(g)]
           slack == MaxVolume * (Cardinality(Handlers) - 1)
<1>1. /\ req[h].step = "reserve" /\ noms' = noms /\ contracts' = contracts
      /\ req'[h].step = "debit" /\ req'[h].nom = req[h].nom
      /\ \A g \in Handlers \ {h} : req'[g] = req[g]
  BY DEF ReserveCheck, Goto, TypeInv, TypeOK, Request
<1>2. h \notin D /\ D' = D \cup {h}
  BY <1>1 DEF Debiting, ContractOf
<1>3. \A g \in D' : w[g] \in Nat /\ w[g] =< MaxVolume
  BY <1>1, <1>2, DebitingTyped, OperandsTyped, VolumesOK DEF NomStep
<1>4. VolumeDebiting(c)' = SumFunctionOnSet(w, D \cup {h})
  <2>1. \A g \in D' : VolumeOf(g)' = VolumeOf(g)
    BY <1>1, <1>2 DEF VolumeOf, Debiting
  <2>2. [g \in D |-> VolumeOf(g)]' = w
    BY <2>1
  <2>. QED
    BY <1>2, <2>2 DEF VolumeDebiting
<1>5. IsFiniteSet(D) /\ D \subseteq Handlers \ {h}
  BY <1>2, DebitingTyped
<1>6. SumFunctionOnSet(w, D \cup {h}) = w[h] + SumFunctionOnSet(w, D)
  <2>. HIDE DEF w, D
  <2>1. \A g \in D \cup {h} : w[g] \in Int
    BY <1>2, <1>3
  <2>. QED
    BY <1>2, <1>5, <2>1, SumAdd
<1>7. SumFunctionOnSet(w, D) \in Nat /\ SumFunctionOnSet(w, D) =< slack
  <2>1. D \subseteq D'
    BY <1>2
  <2>. HIDE DEF w, D
  <2>2. \A g \in D : w[g] \in Nat /\ w[g] =< MaxVolume
    BY <2>1, <1>3
  <2>. QED
    BY <1>5, <2>2, OthersBounded, SumNonNegative
<1>8. w[h] = VolumeOf(h) /\ VolumeOf(h) \in Nat
  BY <1>2, <1>3
<1>9. /\ contracts[c].used + VolumeOf(h) =< contracts[c].daily
      /\ contracts[c].used \in Nat /\ contracts[c].daily \in Nat
  BY ReserveFits DEF TypeInv, TypeOK, ContractRecord
<1>10. slack \in Nat
  BY SlackNatural
<1> HIDE DEF w, D, slack
<1>11. contracts[c].used + VolumeDebiting(c)' =< contracts[c].daily + slack
  BY <1>4, <1>6, <1>7, <1>8, <1>9, <1>10
<1>. QED
  BY <1>1, <1>11 DEF TightAt, slack

(* The debit itself moves a volume from what is about to be reserved to    *)
(* what is.                                                                *)
LEMMA TightDebited ==
  ASSUME TypeInv, NEW h \in Handlers, ReserveDebit(h), NEW c \in Contracts,
         c = ContractOf(h), TightAt(c)
  PROVE  TightAt(c)'
<1> DEFINE D == Debiting(c)
           w == [g \in D |-> VolumeOf(g)]
           v == [g \in D' |-> VolumeOf(g)]
           slack == MaxVolume * (Cardinality(Handlers) - 1)
<1>1. /\ req[h].step = "debit" /\ noms' = noms /\ req'[h].step = "submit"
      /\ \A g \in Handlers \ {h} : req'[g] = req[g]
      /\ Debit(ContractOf(h), VolumeOf(h))
  BY DEF ReserveDebit, Goto, TypeInv, TypeOK, Request
<1>2. h \in D /\ D' = D \ {h}
  BY <1>1 DEF Debiting, ContractOf
<1>3. IsFiniteSet(D) /\ IsFiniteSet(D \ {h}) /\ \A g \in D : w[g] \in Nat
  BY DebitingTyped, FS_RemoveElement
<1>4. VolumeDebiting(c)' = SumFunctionOnSet(v, D \ {h})
  <2>1. \A g \in D' : VolumeOf(g)' = VolumeOf(g)
    BY <1>1, <1>2 DEF VolumeOf, Debiting
  <2>2. [g \in D |-> VolumeOf(g)]' = v
    BY <2>1
  <2>. QED
    BY <1>2, <2>2 DEF VolumeDebiting
<1>5. SumFunctionOnSet(v, D \ {h}) = SumFunctionOnSet(w, D \ {h})
  <2>1. \A g \in D \ {h} : v[g] = w[g]
    BY <1>2
  <2>. HIDE DEF w, v, D
  <2>. QED
    BY <1>3, <2>1, SumCongruent
<1>6. /\ SumFunctionOnSet(w, D) = w[h] + SumFunctionOnSet(w, D \ {h})
      /\ SumFunctionOnSet(w, D \ {h}) \in Nat
  <2>1. (\A g \in D : w[g] \in Int) /\ \A g \in D \ {h} : w[g] \in Nat
    BY <1>3
  <2>. HIDE DEF w, v, D
  <2>. QED
    BY <1>2, <1>3, <2>1, SumRemove, SumNonNegative
<1>7. VolumeDebiting(c) = SumFunctionOnSet(w, D)
  BY DEF VolumeDebiting
<1>8. w[h] = VolumeOf(h) /\ VolumeOf(h) \in Nat
  BY <1>2, <1>3
<1>9. /\ contracts'[c].used = contracts[c].used + VolumeOf(h)
      /\ contracts'[c].daily = contracts[c].daily
      /\ contracts[c].used \in Nat /\ contracts[c].daily \in Nat
  BY <1>1, <1>8, DebitFields DEF TypeInv, TypeOK, ContractRecord
<1>10. contracts[c].used + VolumeDebiting(c) =< contracts[c].daily + slack
  BY DEF TightAt
<1>11. slack \in Nat
  BY SlackNatural
<1> HIDE DEF w, v, D, slack
<1>12. contracts'[c].used + VolumeDebiting(c)' =< contracts'[c].daily + slack
  BY <1>4, <1>5, <1>6, <1>7, <1>8, <1>9, <1>10, <1>11
<1>. QED
  BY <1>12 DEF TightAt, slack

LEMMA NextTightInv ==
  ASSUME ~ReuseContractIds
  PROVE  TightInv /\ [Next]_vars => TightInv'
<1> SUFFICES ASSUME TightInv, [Next]_vars, NEW c \in Contracts
             PROVE  IF Handlers = {} THEN ~ContractExists(c)' ELSE TightAt(c)'
  BY NextTypeInv DEF TightInv
<1>0. TypeInv /\ TypeInv'
  BY NextTypeInv DEF TightInv
<1>1. CASE TickStep \/ UNCHANGED vars
  <2>1. UNCHANGED <<contracts, noms, req>>
    BY <1>1 DEF TickStep, Tick, vars
  <2>2. TightAt(c)' <=> TightAt(c)
    BY <2>1 DEF TightAt, VolumeDebiting, Debiting, VolumeOf, ContractOf
  <2>. QED
    BY <2>1, <2>2 DEF TightInv, ContractExists
<1>2. ASSUME NEW h \in Handlers, ContractRequest(h)
      PROVE  TightAt(c)'
  <2>1. TightAt(c)
    BY DEF TightInv
  <2>2. CASE /\ contracts'[c].used = contracts[c].used
             /\ contracts'[c].daily = contracts[c].daily
    <3>1. contracts'[c].used =< contracts[c].used
      BY <1>0, <2>2 DEF TypeInv, TypeOK, ContractRecord
    <3>. QED
      BY <1>0, <1>2, <2>1, <2>2, <3>1, ContractRequestLocal, TightKept DEF NomStep
  <2>3. CASE /\ ~ContractExists(c)
             /\ contracts'[c].used = 0 /\ contracts'[c].daily \in Nat
    <3>1. \A g \in Handlers : req'[g].step = "debit" =>
                                req'[g] = req[g] /\ ContractOf(g) # c
      BY <1>0, <1>2, <2>3, ContractRequestLocal
      DEF TypeInv, RequestsOK, RecordsOK, ContractOf, NomStep
    <3>2. Debiting(c)' = {}
      BY <1>0, <1>2, <3>1, ContractRequestLocal DEF Debiting, ContractOf
    <3>3. VolumeDebiting(c)' = 0
      BY <3>2, SumEmpty DEF VolumeDebiting
    <3>. QED
      BY <1>2, <2>3, <3>3, SlackNatural DEF TightAt
  <2>. QED
    BY <1>0, <1>2, <2>2, <2>3, ContractRequestLocal
<1>3. ASSUME NEW h \in Handlers, NominationRequest(h)
      PROVE  TightAt(c)'
  <2>0. TightAt(c)
    BY DEF TightInv
  (* Nothing is reserved and no request is about to. *)
  <2>1. ASSUME \A g \in Handlers : \/ req'[g] = req[g]
                                   \/ req[g].step # "debit" /\ req'[g].step # "debit",
               \A n \in Noms : noms[n].state # "none" =>
                  noms'[n].contract = noms[n].contract /\ noms'[n].volume = noms[n].volume,
               contracts' = contracts
        PROVE  TightAt(c)'
    <3>1. contracts'[c].used =< contracts[c].used /\ contracts'[c].daily = contracts[c].daily
      BY <1>0, <2>1 DEF TypeInv, TypeOK, ContractRecord
    <3>. QED
      BY <1>0, <1>3, <2>0, <2>1, <3>1, TightKept
  <2>2. ASSUME NEW n \in Noms, NEW d \in Contracts, NEW v \in Volumes, CreateNomination(h, n, d, v)
        PROVE  TightAt(c)'
    <3>1. /\ req' = req /\ contracts' = contracts /\ noms[n].state = "none"
          /\ \A m \in Noms \ {n} : noms'[m] = noms[m]
      BY <1>0, <2>2 DEF CreateNomination, PutNomination, TypeInv, TypeOK
    <3>. QED
      BY <2>1, <3>1
  <2>3. ASSUME NEW n \in Noms, SubmitRead(h, n) \/ ConfirmRead(h, n) \/ ExecuteRead(h, n)
                                 \/ CancelRead(h, n)
        PROVE  TightAt(c)'
    <3>1. ASSUME NEW t, NEW s, Begin(h, n, t, s), s # "debit"
          PROVE  /\ noms' = noms /\ contracts' = contracts /\ req[h].step = "idle"
                 /\ req'[h].step # "debit" /\ \A g \in Handlers \ {h} : req'[g] = req[g]
      BY <1>0, <3>1 DEF Begin, IsIdle, Become, Operation, TypeInv, TypeOK
    <3>2. /\ noms' = noms /\ contracts' = contracts /\ req[h].step = "idle"
          /\ req'[h].step # "debit" /\ \A g \in Handlers \ {h} : req'[g] = req[g]
      BY <2>3, <3>1 DEF SubmitRead, ConfirmRead, ExecuteRead, CancelRead
    <3>. QED
      BY <2>1, <3>2
  <2>4. CASE ReserveCheck(h)
    <3>1. CASE c = ContractOf(h)
      BY <1>0, <1>3, <2>4, <3>1, TightChecked
    <3>2. CASE c # ContractOf(h)
      <4>1. /\ UNCHANGED <<noms, contracts>> /\ h \notin Debiting(c)
            /\ req'[h].nom = req[h].nom /\ \A g \in Handlers \ {h} : req'[g] = req[g]
        BY <1>0, <2>4, <3>2 DEF ReserveCheck, Goto, Debiting, TypeInv, TypeOK, Request
      <4>2. Debiting(c)' = Debiting(c) /\ \A g \in Debiting(c) : VolumeOf(g)' = VolumeOf(g)
        BY <3>2, <4>1 DEF Debiting, ContractOf, VolumeOf
      <4>3. VolumeDebiting(c)' = VolumeDebiting(c)
        BY <4>2 DEF VolumeDebiting
      <4>. QED
        BY <2>0, <4>1, <4>3 DEF TightAt
    <3>. QED
      BY <3>1, <3>2
  <2>5. CASE ReserveDebit(h)
    <3>1. CASE c = ContractOf(h)
      BY <1>0, <1>3, <2>0, <2>5, <3>1, TightDebited
    <3>2. CASE c # ContractOf(h)
      <4>1. /\ noms' = noms /\ contracts'[c] = contracts[c] /\ h \notin Debiting(c)
            /\ req'[h].step # "debit" /\ \A g \in Handlers \ {h} : req'[g] = req[g]
        BY <1>0, <2>5, <3>2 DEF ReserveDebit, Debit, Goto, Debiting, TypeInv, TypeOK, Request
      <4>2. Debiting(c)' = Debiting(c) /\ \A g \in Debiting(c) : VolumeOf(g)' = VolumeOf(g)
        BY <4>1 DEF Debiting, ContractOf, VolumeOf
      <4>3. VolumeDebiting(c)' = VolumeDebiting(c)
        BY <4>2 DEF VolumeDebiting
      <4>. QED
        BY <2>0, <4>1, <4>3 DEF TightAt
    <3>. QED
      BY <3>1, <3>2
  <2>6. CASE ReleaseCredit(h)
    <3>1. /\ req[h].step = "release" /\ req'[h].step # "debit" /\ noms' = noms
          /\ \A g \in Handlers \ {h} : req'[g] = req[g]
          /\ Credit(ContractOf(h), VolumeOf(h))
      BY <1>0, <2>6 DEF ReleaseCredit, Goto, TypeInv, TypeOK, Request
    <3>2. /\ ContractOf(h) \in Contracts /\ VolumeOf(h) \in Nat
          /\ contracts[ContractOf(h)].used \in Nat /\ contracts[c].used \in Nat
      BY <1>0, <1>3, <3>1, OperandsTyped DEF NomStep, TypeInv, TypeOK, ContractRecord
    <3>3. contracts'[c].used =< contracts[c].used /\ contracts'[c].daily = contracts[c].daily
      BY <1>0, <3>1, <3>2, CreditFields
    <3>. QED
      BY <1>0, <1>3, <2>0, <3>1, <3>3, TightKept
  <2>7. CASE ReserveReject(h) \/ SubmitWrite(h) \/ MoveWrite(h) \/ CancelWrite(h)
    <3>1. /\ contracts' = contracts /\ req[h].step # "debit" /\ req'[h].step # "debit"
          /\ \A g \in Handlers \ {h} : req'[g] = req[g]
      BY <1>0, <2>7 DEF ReserveReject, SubmitWrite, MoveWrite, CancelWrite, Return, Become, Idle,
                        TypeInv, TypeOK, contractVars
    <3>2. \A n \in Noms : /\ noms'[n].contract = noms[n].contract
                          /\ noms'[n].volume = noms[n].volume
      BY <1>0, <2>7 DEF ReserveReject, SubmitWrite, MoveWrite, CancelWrite, TypeInv, TypeOK,
                        NomRecord
    <3>. QED
      BY <2>1, <3>1, <3>2
  <2>. QED
    BY <1>3, <2>2, <2>3, <2>4, <2>5, <2>6, <2>7 DEF NominationRequest
<1>. QED
  BY <1>1, <1>2, <1>3 DEF Next

(***************************************************************************)
(* A contract that is not created again is overbooked by less than one     *)
(* nomination of the largest volume for each request in flight but one,    *)
(* whatever else clients send and however many requests are served at once *)
(* (OverbookTight).                                                        *)
(***************************************************************************)
THEOREM OverbookExact ==
  ASSUME ~ReuseContractIds
  PROVE  Spec => []OverbookTight
<1>1. Init => TightInv
  <2> SUFFICES ASSUME Init, NEW c \in Contracts
               PROVE  IF Handlers = {} THEN ~ContractExists(c) ELSE TightAt(c)
    BY InitTypeInv DEF TightInv
  <2>1. ~ContractExists(c) /\ contracts[c].used = 0 /\ contracts[c].daily = 0
    BY DEF Init, ContractInit, NoContract, ContractExists
  <2>2. ASSUME NEW h \in Handlers PROVE TightAt(c)
    <3>1. Debiting(c) = {}
      BY DEF Init, Idle, Debiting
    <3>2. VolumeDebiting(c) = 0
      BY <3>1, SumEmpty DEF VolumeDebiting
    <3>. QED
      BY <2>1, <3>2, SlackNatural DEF TightAt
  <2>. QED
    BY <2>1, <2>2
<1>2. TightInv => OverbookTight
  BY DEF TightInv, TightAt, OverbookTight
<1>. QED
  BY <1>1, <1>2, NextTightInv, PTL DEF Spec

=============================================================================
