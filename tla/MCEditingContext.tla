-------------------------- MODULE MCEditingContext --------------------------
(***************************************************************************)
(* Instances of EditingContext for TLC.                                    *)
(***************************************************************************)
EXTENDS EditingContextInvariants

CONSTANTS m1, m2, d1, d2

Nullify == [m \in Master |-> "nullify"]

(* One master of each rule that a save can carry out.                      *)
Mixed == [m \in Master |-> IF m = m1 THEN "nullify" ELSE "cascade"]
=============================================================================
