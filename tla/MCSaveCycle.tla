----------------------------- MODULE MCSaveCycle -----------------------------
(* Instances of SaveCycle for TLC.  Symmetry is not used: the properties   *)
(* include liveness, and the instances are small.                          *)
EXTENDS SaveCycleInvariants

CONSTANTS c1, c2, c3, t1, t2

OneThread == [c \in Context |-> t1]
TwoThreads == [c \in Context |-> IF c = c2 THEN t2 ELSE t1]
=============================================================================
