------------------------- MODULE NominationAccounts -------------------------
(***************************************************************************)
(* The books of a contract: its reserved volume against the nominations    *)
(* that hold it.  In a module of its own because it adds up volumes.       *)
(***************************************************************************)
EXTENDS Nomination, Functions

(* The nominations whose volume is in c's reserved volume: those marked as *)
(* holding capacity, until a Cancel has credited it, and those a Submit    *)
(* has debited but not marked yet.                                         *)
Charged(c) ==
  {n \in Noms : /\ noms[n].contract = c
                /\ \/ /\ noms[n].reserved
                      /\ \A h \in Handlers : ~(req[h].step = "cancel" /\ req[h].nom = n)
                   \/ \E h \in Handlers : req[h].step = "submit" /\ req[h].nom = n}

VolumeCharged(c) == SumFunctionOnSet([n \in Noms |-> noms[n].volume], Charged(c))

(***************************************************************************)
(* Conservation: a contract's reserved volume is the sum of what its       *)
(* nominations hold.  Nothing is reserved twice, leaked by a failed or     *)
(* cancelled submission, or released twice, however the requests about     *)
(* different nominations interleave.                                       *)
(***************************************************************************)
CapacityConserved == \A c \in Contracts : contracts[c].used = VolumeCharged(c)

(* The overbooking bound, exactly: what is reserved and what is about to   *)
(* be exceeds the daily volume by less than one nomination per other       *)
(* request in flight.                                                      *)
VolumeDebiting(c) == SumFunctionOnSet([h \in Debiting(c) |-> VolumeOf(h)], Debiting(c))

(***************************************************************************)
(* A contract that is never created again is overbooked by at most one     *)
(* nomination of the largest volume for each request in flight but one.    *)
(***************************************************************************)
OverbookTight ==
  \A c \in Contracts : ContractExists(c) =>
    contracts[c].used + VolumeDebiting(c)
      =< contracts[c].daily + MaxVolume * (Cardinality(Handlers) - 1)
=============================================================================
