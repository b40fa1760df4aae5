---------------------------- MODULE MCStoreLocks ----------------------------
(***************************************************************************)
(* Instances of StoreLocks for TLC.                                        *)
(***************************************************************************)
EXTENDS StoreLocks

CONSTANTS t1, t2, c1, c2, c3

(* Two contexts of the first thread, one nested in the other, and one of   *)
(* the second thread.                                                      *)
TwoThreads == [c \in Context |-> IF c = c2 THEN t2 ELSE t1]

Nested == [c \in Context |-> IF c = c3 THEN c1 ELSE Coordinator]
=============================================================================
