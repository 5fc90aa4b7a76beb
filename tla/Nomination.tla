----------------------------- MODULE Nomination -----------------------------
(***************************************************************************)
(* internal/nomination on top of internal/contract, served by concurrent   *)
(* HTTP requests.  A service method reads a copy of a record, validates    *)
(* the copy, calls the other service, and writes the record with a later,  *)
(* separate store call; only the store calls are atomic.  One action is    *)
(* the stretch of a request between two store calls: a read with the       *)
(* checks made on what it returned, or a write.                            *)
(*                                                                         *)
(* A nomination's contract and volume never change after it is created, so *)
(* a request uses the stored ones where the code uses its copy's.          *)
(***************************************************************************)
EXTENDS NominationStore, FiniteSets

CONSTANTS
  Handlers,          \* goroutines of the HTTP server: the requests in flight
  OnePerNomination,  \* TRUE when clients never have two requests about one
                     \* nomination in flight (the code does not prevent it)
  Steady,            \* the contracts of which they never have two changes of
                     \* state in flight (the code does not prevent it)
  ReuseContractIds   \* TRUE when a client may create a contract under the id
                     \* of an existing one (the code allows it)

ASSUME HandlersOK == IsFiniteSet(Handlers)
ASSUME FlagsOK ==
  OnePerNomination \in BOOLEAN /\ Steady \subseteq Contracts /\ ReuseContractIds \in BOOLEAN

VARIABLE
  req                \* req[h]: where request h is, and its local variables

vars == <<contracts, now, noms, req>>

-----------------------------------------------------------------------------
(***************************************************************************)
(* A request's next step:                                                  *)
(*   "reserve"  Submit, before Reserve reads the contract                  *)
(*   "debit"    Submit, after Reserve's checks, before its Update          *)
(*   "submit"   Submit, before its Update of the nomination                *)
(*   "move"     Confirm or Execute, before its Update                      *)
(*   "release"  Cancel, before Release's Update                            *)
(*   "cancel"   Cancel, before its Update of the nomination                *)
(*   "scan"     ExpireDue, with contracts of its snapshot left to expire   *)
(*   "setState" contract.SetState, before its Update                       *)
(***************************************************************************)
NomStep == {"reserve", "debit", "submit", "move", "release", "cancel"}
Step == NomStep \cup {"idle", "scan", "setState"}

Request ==
  [step : Step, nom : Noms \cup {None}, contract : Contracts \cup {None},
   target : NomState \cup ContractState \cup {"none"}, todo : SUBSET Contracts]

Idle == [step |-> "idle", nom |-> None, contract |-> None, target |-> "none", todo |-> {}]

(* The local variables of an operation on nomination n, of SetState, and   *)
(* of ExpireDue, which returns when it has no contract left.               *)
Operation(s, n, target) ==
  [step |-> s, nom |-> n, contract |-> None, target |-> target, todo |-> {}]
SettingState(c, target, todo) ==
  [step |-> "setState", nom |-> None, contract |-> c, target |-> target, todo |-> todo]
Scanning(todo) ==
  IF todo = {} THEN Idle
  ELSE [step |-> "scan", nom |-> None, contract |-> None, target |-> "none", todo |-> todo]

IsIdle(h) == req[h].step = "idle"
Become(h, r) == req' = [req EXCEPT ![h] = r]
Goto(h, s) == req' = [req EXCEPT ![h].step = s]
Return(h) == Become(h, Idle)

(* The contract and the volume of the nomination that request h is about. *)
ContractOf(h) == noms[req[h].nom].contract
VolumeOf(h) == noms[req[h].nom].volume

(* What the clients' discipline allows them to send. *)
MayRequest(n) ==
  OnePerNomination => \A g \in Handlers : req[g].nom # n

MayChangeState(c) ==
  c \in Steady => \A g \in Handlers : req[g].contract # c /\ c \notin req[g].todo

Init ==
  /\ ContractInit
  /\ NomInit
  /\ req = [h \in Handlers |-> Idle]

-----------------------------------------------------------------------------
(* contract.Create: one Put, of a new id or (when clients do that) of an   *)
(* existing one.                                                           *)
CreateContract(h, c, in) ==
  /\ IsIdle(h)
  /\ ContractExists(c) => ReuseContractIds
  /\ PutContract(c, in)
  /\ UNCHANGED <<noms, req>>

(* contract.SetState: the read and MustTransition on the copy, ... *)
SetStateReadUnchecked(h, c, s) ==  \* Mutation: no MustTransition
  /\ IsIdle(h)
  /\ MayChangeState(c)
  /\ ContractExists(c)
  /\ Become(h, SettingState(c, s, {}))
  /\ UNCHANGED <<contracts, now, noms>>

SetStateRead(h, c, s) ==
  /\ IsIdle(h)
  /\ MayChangeState(c)
  /\ ContractMove(contracts[c].state, s)
  /\ Become(h, SettingState(c, s, {}))
  /\ UNCHANGED <<contracts, now, noms>>

(* ... and the write.  A scan then goes on with the rest of its snapshot. *)
SetStateWrite(h) ==
  /\ req[h].step = "setState"
  /\ WriteContractState(req[h].contract, req[h].target)
  /\ Become(h, Scanning(req[h].todo))
  /\ UNCHANGED noms

(* contract.ExpireDue: the snapshot of all contracts, ... *)
ExpireDueRead(h) ==
  LET due == {c \in Contracts : IsDue(c)} IN
  /\ IsIdle(h)
  /\ due # {}
  /\ \A c \in due : MayChangeState(c)
  /\ Become(h, Scanning(due))
  /\ UNCHANGED <<contracts, now, noms>>

(* ... then SetState of each one that was due: its read, ... *)
ExpireNext(h, c) ==
  /\ req[h].step = "scan"
  /\ c \in req[h].todo
  /\ ContractMove(contracts[c].state, "expired")
  /\ Become(h, SettingState(c, "expired", req[h].todo \ {c}))
  /\ UNCHANGED <<contracts, now, noms>>

(* ... which fails for one that has reached a terminal state since. *)
ExpireSkip(h, c) ==
  /\ req[h].step = "scan"
  /\ c \in req[h].todo
  /\ ~ContractMove(contracts[c].state, "expired")
  /\ Become(h, Scanning(req[h].todo \ {c}))
  /\ UNCHANGED <<contracts, now, noms>>

-----------------------------------------------------------------------------
(* nomination.Create: contracts are never removed, so the check that the   *)
(* contract exists and the Put of a fresh id are one step.                 *)
CreateNomination(h, n, c, v) ==
  /\ IsIdle(h)
  /\ noms[n].state = "none"
  /\ ContractExists(c)
  /\ PutNomination(n, c, v)
  /\ UNCHANGED <<contracts, now, req>>

(* The start of every operation on a nomination: Get, MustTransition on    *)
(* the copy; s is the request's next step.                                 *)
BeginUnchecked(h, n, target, s) ==  \* Mutation: no MustTransition
  /\ IsIdle(h)
  /\ MayRequest(n)
  /\ noms[n].state # "none"
  /\ Become(h, Operation(s, n, target))
  /\ UNCHANGED <<contracts, now, noms>>

Begin(h, n, target, s) ==
  /\ IsIdle(h)
  /\ MayRequest(n)
  /\ NomMove(noms[n].state, target)
  /\ Become(h, Operation(s, n, target))
  /\ UNCHANGED <<contracts, now, noms>>

SubmitRead(h, n) == Begin(h, n, "submitted", "reserve")
ConfirmRead(h, n) == Begin(h, n, "confirmed", "move")
ExecuteRead(h, n) == Begin(h, n, "executed", "move")

(* Cancel releases first if its copy says that capacity is held. *)
CancelRead(h, n) ==
  Begin(h, n, "cancelled", IF noms[n].reserved THEN "release" ELSE "cancel")

(* contract.Reserve, called by Submit: the read and the checks, ... *)
ReserveCheck(h) ==
  /\ req[h].step = "reserve"
  /\ CanReserve(ContractOf(h), VolumeOf(h))
  /\ Goto(h, "debit")
  /\ UNCHANGED <<contracts, now, noms>>

(* ... the error return of both Reserve and Submit, ... *)
ReserveReject(h) ==
  /\ req[h].step = "reserve"
  /\ ~CanReserve(ContractOf(h), VolumeOf(h))
  /\ Return(h)
  /\ UNCHANGED <<contracts, now, noms>>

(* ... and the Update, which adds the amount whatever the record holds now.*)
ReserveDebit(h) ==
  /\ req[h].step = "debit"
  /\ Debit(ContractOf(h), VolumeOf(h))
  /\ Goto(h, "submit")
  /\ UNCHANGED noms

SubmitWriteUnheld(h) ==  \* Mutation: the hold is not recorded
  /\ req[h].step = "submit"
  /\ noms' = [noms EXCEPT ![req[h].nom].state = "submitted"]
  /\ Return(h)
  /\ UNCHANGED contractVars

SubmitWrite(h) ==
  /\ req[h].step = "submit"
  /\ noms' = [noms EXCEPT ![req[h].nom].state = "submitted", ![req[h].nom].reserved = TRUE]
  /\ Return(h)
  /\ UNCHANGED contractVars

(* The Update of Confirm and of Execute. *)
MoveWrite(h) ==
  /\ req[h].step = "move"
  /\ noms' = [noms EXCEPT ![req[h].nom].state = req[h].target]
  /\ Return(h)
  /\ UNCHANGED contractVars

(* contract.Release, called by Cancel.  Its errors (no such contract, an   *)
(* amount that is not positive) cannot occur: contracts are never removed  *)
(* and volumes are positive.                                               *)
ReleaseCredit(h) ==
  /\ req[h].step = "release"
  /\ Credit(ContractOf(h), VolumeOf(h))
  /\ Goto(h, "cancel")
  /\ UNCHANGED noms

CancelWrite(h) ==
  /\ req[h].step = "cancel"
  /\ noms' = [noms EXCEPT ![req[h].nom].state = "cancelled", ![req[h].nom].reserved = FALSE]
  /\ Return(h)
  /\ UNCHANGED contractVars

-----------------------------------------------------------------------------
ContractRequest(h) ==
  \/ \E c \in Contracts, in \in ContractInputs : CreateContract(h, c, in)
  \/ \E c \in Contracts, s \in ContractState : SetStateRead(h, c, s)
  \/ SetStateWrite(h)
  \/ ExpireDueRead(h)
  \/ \E c \in Contracts : ExpireNext(h, c)
  \/ \E c \in Contracts : ExpireSkip(h, c)

NominationRequest(h) ==
  \/ \E n \in Noms, c \in Contracts, v \in Volumes : CreateNomination(h, n, c, v)
  \/ \E n \in Noms : SubmitRead(h, n)
  \/ \E n \in Noms : ConfirmRead(h, n)
  \/ \E n \in Noms : ExecuteRead(h, n)
  \/ \E n \in Noms : CancelRead(h, n)
  \/ ReserveCheck(h)
  \/ ReserveReject(h)
  \/ ReserveDebit(h)
  \/ SubmitWrite(h)
  \/ MoveWrite(h)
  \/ ReleaseCredit(h)
  \/ CancelWrite(h)

TickStep == Tick /\ UNCHANGED <<noms, req>>

Next ==
  \/ \E h \in Handlers : ContractRequest(h) \/ NominationRequest(h)
  \/ TickStep

Spec == Init /\ [][Next]_vars

-----------------------------------------------------------------------------
TypeOK ==
  /\ contracts \in [Contracts -> ContractRecord]
  /\ now \in 1..MaxTime
  /\ noms \in [Noms -> NomRecord]
  /\ req \in [Handlers -> Request]

(***************************************************************************)
(* Whatever requests overlap, a draft or a cancelled nomination is not     *)
(* recorded as holding capacity and a submitted one is (Submit and Cancel  *)
(* write the state and the mark in one Update).                            *)
(***************************************************************************)
MarkMatchesState ==
  \A n \in Noms :
    /\ noms[n].state \in {"none", "draft", "cancelled"} => ~noms[n].reserved
    /\ noms[n].state = "submitted" => noms[n].reserved

(* The requests that have passed Reserve's checks for contract c and have  *)
(* not debited it yet.                                                     *)
Debiting(c) == {h \in Handlers : req[h].step = "debit" /\ ContractOf(h) = c}

(***************************************************************************)
(* What Contract.Reserve and the contract store promise (service.go:111,   *)
(* store.go:79): nominations never reserve more than the daily volume.     *)
(***************************************************************************)
NoOverbook == \A c \in Contracts : contracts[c].used =< contracts[c].daily

(***************************************************************************)
(* A nomination moves along the transition table only: executed and        *)
(* cancelled ones never change (nomination/state.go).                      *)
(***************************************************************************)
NominationLifecycle ==
  [][\A n \in Noms :
       noms'[n].state # noms[n].state /\ noms[n].state # "none"
         => NomMove(noms[n].state, noms'[n].state)]_vars

(***************************************************************************)
(* A nomination holds capacity exactly while it is submitted, confirmed or *)
(* executed: execution keeps what Submit debited, cancellation gives it    *)
(* back.                                                                   *)
(***************************************************************************)
LiveHoldsCapacity ==
  \A n \in Noms : noms[n].reserved <=> noms[n].state \in {"submitted", "confirmed", "executed"}

(***************************************************************************)
(* A steady contract moves along its transition table only, so an expired  *)
(* or terminated one stays so (contract/state.go), whatever becomes of the *)
(* others.  Of one that is not, two changes of state may overlap, one of   *)
(* them by an ExpireDue, which writes what it decided on the copies of its *)
(* snapshot.                                                               *)
(***************************************************************************)
ContractLifecycle ==
  [][\A c \in Steady :
       contracts'[c].state # contracts[c].state /\ contracts[c].state # "none"
         => ContractMove(contracts[c].state, contracts'[c].state)]_vars

Ended(c) == contracts[c].state \in {"expired", "terminated"}

(* What c has reserved, and what a request may still add to it. *)
Committed(c) == contracts[c].used + MaxVolume * Cardinality(Debiting(c))

(***************************************************************************)
(* A contract that is over commits no further volume.  A Submit that had   *)
(* passed Reserve's checks while it was active may still debit it, but no  *)
(* new one passes them, however the requests overlap.                      *)
(***************************************************************************)
EndedTakesNoMore ==
  [][\A c \in Contracts :
       Ended(c) /\ Ended(c)' => Committed(c)' =< Committed(c)]_vars
=============================================================================
