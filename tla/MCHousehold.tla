---------------------------- MODULE MCHousehold ----------------------------
(***************************************************************************)
(* Household for TLC.  Every part of a record has an erasure that is told  *)
(* from a write of it.                                                     *)
(***************************************************************************)
EXTENDS Household

ASSUME HouseholdAssumption
ASSUME \A f \in DOMAIN NoRecords : \A k \in DOMAIN NoRecords[f] : IsErase(Erase(f, k))
=============================================================================
