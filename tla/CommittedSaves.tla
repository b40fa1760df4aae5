--------------------------- MODULE CommittedSaves ---------------------------
(***************************************************************************)
(* What EOObjectStoreCoordinator promises of a save, seen from the         *)
(* databases: there is no two-phase commit between them.  A save reaches   *)
(* the stores in the order of _objectStores, one at a time; it returns     *)
(* when it is committed everywhere, and when it raises the stores it has   *)
(* not reached never commit it.                                            *)
(***************************************************************************)
EXTENDS Integers

CONSTANTS
  Change,      \* saves that may be started
  NumStores,
  LostAnswers  \* a database may commit and the answer be lost

VARIABLES durable, acked, refused

Store == 1 .. NumStores

Init ==
  /\ durable = [s \in Store |-> {}]
  /\ acked = {}
  /\ refused = {}

InProgress(ch) == ch \notin acked \cup refused

(* The next store commits the rows of one save, and of no other.           *)
CommitStore(ch, s) ==
  /\ InProgress(ch)
  /\ ch \notin durable[s]
  /\ \A r \in Store : r < s => ch \in durable[r]
  /\ durable' = [durable EXCEPT ![s] = @ \cup {ch}]
  /\ UNCHANGED <<acked, refused>>

Return(ch) ==
  /\ InProgress(ch)
  /\ \A s \in Store : ch \in durable[s]
  /\ acked' = acked \cup {ch}
  /\ UNCHANGED <<durable, refused>>

Refuse(ch) ==
  /\ InProgress(ch)
  /\ LostAnswers \/ \E s \in Store : ch \notin durable[s]
  /\ refused' = refused \cup {ch}
  /\ UNCHANGED <<durable, acked>>

Next ==
  \E ch \in Change : Return(ch) \/ Refuse(ch) \/ \E s \in Store : CommitStore(ch, s)

Spec == Init /\ [][Next]_<<durable, acked, refused>>
=============================================================================
