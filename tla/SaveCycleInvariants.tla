------------------------- MODULE SaveCycleInvariants -------------------------
(***************************************************************************)
(* The inductive invariants behind the theorems of SaveCycleProofs.  They  *)
(* stand in a module of their own so that TLC checks them too.             *)
(***************************************************************************)
EXTENDS SaveCycle

(* TypeOK is not inductive: change(c) is a Change only when c has started  *)
(* a save.                                                                 *)
Started ==
  /\ \A c \in Context : pc[c] # "idle" => attempt[c] > 0
  /\ \A s \in Store : saving[s] # None => attempt[saving[s]] > 0

TypeInv == TypeOK /\ Started

-----------------------------------------------------------------------------
(* The stores' locks.                                                      *)

(* The coordinator, saving c, has locked s and not yet unlocked it.        *)
Holds(c, s) ==
  \/ pc[c] = "lock" /\ s < at[c]
  \/ InFirstPhase(c)
  \/ pc[c] = "unlock" /\ s >= at[c]
  \/ pc[c] \in {"finish", "announce", "release"} /\ s = at[c]

Holders(s) == {c \in Context : Holds(c, s)}

(* A save that holds a store belongs to the owner of its lock.  The depth  *)
(* covers all of them, so that the lock is not free before the last one    *)
(* lets go of it; it may exceed them, for a save that raises in the first  *)
(* phase leaves its locks behind.                                          *)
LockInv ==
  \A s \in Store :
    /\ owner[s] = None <=> depth[s] = 0
    /\ Cardinality(Holders(s)) <= depth[s]
    /\ \A c \in Holders(s) : owner[s] = ThreadOf[c]

-----------------------------------------------------------------------------
(* Save cycles of different editing contexts, when delegates save nothing  *)
(* and the adaptors neither veto a commit nor fail to roll back.           *)

NoInterference ==
  /\ Callbacks = {}
  /\ Faults \cap {"veto", "rollback", "announce"} = {}

(* A thread runs at most one save, and a save that holds an exception is   *)
(* in its second phase.                                                    *)
FrameInv ==
  /\ \A c \in Context : /\ pc[c] # "idle" <=> top[ThreadOf[c]] = c
                        /\ below[c] = None
  /\ \A t \in Thread : top[t] # None => ThreadOf[top[t]] = t
  /\ \A c \in Context : err[c] => pc[c] \in {"idle", "relock", "finish", "release"}

(* The locks of a save that raised in the first phase are still taken.     *)
Leaked(s) == Cardinality(Holders(s)) < depth[s]

(* The save of c has prepared s and not finished with it (or has raised    *)
(* before it came to prepare s).                                           *)
InCycle(c, s) ==
  \/ pc[c] = "prepare" /\ s < at[c]
  \/ pc[c] = "keys" /\ s <= at[c]
  \/ pc[c] \in {"record", "perform", "operate", "unlock"}
  \/ pc[c] \in {"relock", "finish", "announce"} /\ s >= at[c]
  \/ pc[c] = "release" /\ s > at[c]

(* ... has performed its changes in s and not committed them.              *)
Performed(c, s) ==
  \/ pc[c] \in {"perform", "operate"} /\ s < at[c]
  \/ pc[c] = "unlock"
  \/ pc[c] \in {"relock", "finish"} /\ s >= at[c]
  \/ pc[c] \in {"announce", "release"} /\ s > at[c]

(* A save keeps the stores it has prepared until it comes back to them.    *)
(* The exception is a save that another one has found in progress: that    *)
(* one has left its locks behind, and a save of another thread never gets  *)
(* as far as to commit.                                                    *)
CycleAt(c, s) ==
  InCycle(c, s) =>
    \/ saving[s] = c /\ (~err[c] /\ Performed(c, s) => change(c) \in work[s])
    \/ Leaked(s) /\ (err[c] \/ owner[s] # ThreadOf[c])

CycleInv == \A c \in Context, s \in Store : CycleAt(c, s)

(* A store in a save cycle belongs to a running save; its transaction      *)
(* holds the changes of that save alone.                                   *)
OwnAt(s) ==
  /\ saving[s] # None => InCycle(saving[s], s) /\ work[s] \subseteq {change(saving[s])}
  /\ saving[s] = None => work[s] = {}

OwnInv ==
  /\ \A s \in Store : OwnAt(s)
  /\ \A c \in Context : pc[c] = "announce" => work[at[c]] = {}

(* The second phase has committed c's save in s.                           *)
Reached(c, s) ==
  \/ pc[c] \in {"relock", "finish"} /\ s < at[c]
  \/ pc[c] \in {"announce", "release"} /\ s <= at[c]

(* The databases hold what the second phases of the saves have reached.    *)
ReachInv ==
  \A c \in Context :
    /\ pc[c] # "idle" /\ ~err[c] =>
         \A s \in Store : change(c) \in durable[s] <=> Reached(c, s)
    /\ pc[c] # "idle" /\ err[c] /\ "lostAnswer" \notin Faults =>
         \E s \in Store : change(c) \notin durable[s]

(* Nothing is known of a save before it has started, and of its outcome    *)
(* before it is over.                                                      *)
PastInv ==
  /\ \A s \in Store : \A ch \in durable[s] : ch[2] <= attempt[ch[1]]
  /\ \A ch \in acked \cup refused :
       /\ ch[2] <= attempt[ch[1]]
       /\ ch[2] = attempt[ch[1]] => pc[ch[1]] = "idle"

CommitInv == FrameInv /\ CycleInv /\ OwnInv /\ ReachInv /\ PastInv

-----------------------------------------------------------------------------
(* What a save cycle leaves behind.                                        *)

(* A store outside a cycle is clean ...                                    *)
CleanInv ==
  \A s \in Store : saving[s] = None => ~local[s] /\ ops[s] = None /\ ~txn[s]

(* ... its transaction is over before the cycle is ...                     *)
EndedInv ==
  \A c \in Context : pc[c] = "announce" => ~txn[at[c]]

(* ... and a new key belongs to the insertion that the store saves.        *)
KeyInv ==
  \A c \in Context, s \in Store :
    gid[c][s] = "keyed" => saving[s] = c /\ pending[c] = "insert"

ResidueInv == CleanInv /\ EndedInv /\ KeyInv
=============================================================================
