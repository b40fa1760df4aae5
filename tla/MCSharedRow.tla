---------------------------- MODULE MCSharedRow ----------------------------
(***************************************************************************)
(* Instances of SharedRow for TLC.                                         *)
(***************************************************************************)
EXTENDS SharedRowInvariants

CONSTANTS c1, c2, a1, a2
=============================================================================
