-------------------------- MODULE MCToManyChanges --------------------------
(***************************************************************************)
(* Instances of ToManyChanges for TLC.                                     *)
(***************************************************************************)
EXTENDS ToManyChangesInvariants

CONSTANTS m1, m2, d1, d2
=============================================================================
