-------------------------- MODULE SaveResidueProofs --------------------------
(***************************************************************************)
(* What saves leave behind, whether they have returned or raised, when     *)
(* delegates save nothing and the adaptors neither veto a commit nor fail  *)
(* to roll back.                                                           *)
(***************************************************************************)
EXTENDS SaveCommitProofs

-----------------------------------------------------------------------------
(* The save at work and the store it works on.                             *)

LEMMA AtStore ==
  ASSUME CycleFacts, NEW c \in Context
  PROVE  at[c] \in Store
BY DEF CycleFacts, TypeInv, TypeOK, FrameType

(* Until it has committed, a save works on stores in its own cycle.        *)
LEMMA WorksInItsCycle ==
  ASSUME CycleFacts, NEW c \in Context,
         pc[c] \in {"keys", "record", "perform", "operate", "announce"}
  PROVE  saving[at[c]] = c
<1>1. at[c] \in Store
  BY AtStore
<1>2. ~err[c]
  BY DEF CycleFacts, FrameInv
<1>3. Holds(c, at[c]) /\ InCycle(c, at[c])
  BY <1>1, ConstantFacts DEF Holds, InFirstPhase, InCycle
<1> QED
  BY <1>1, <1>2, <1>3, HeldCycle DEF CycleFacts

(* No other save is about to announce a commit of that store.              *)
LEMMA AnnouncesAlone ==
  ASSUME CycleFacts, NEW c \in Context, NEW d \in Context \ {c},
         Holds(c, at[c]), pc[c] # "idle", pc[d] = "announce"
  PROVE  at[d] # at[c]
<1>1. at[c] \in Store /\ at[d] \in Store
  BY AtStore
<1>2. Holds(d, at[d])
  BY DEF Holds
<1>3. ThreadOf[c] # ThreadOf[d]
  BY OneSavePerThread DEF CycleFacts
<1> QED
  BY <1>1, <1>2, <1>3 DEF CycleFacts, LockInv, Holders

LEMMA ActorHolds ==
  ASSUME CycleFacts, NEW c \in Context,
         pc[c] \in {"prepare", "keys", "record", "perform", "operate", "finish", "announce", "release"}
  PROVE  Holds(c, at[c])
BY DEF Holds, InFirstPhase

-----------------------------------------------------------------------------
(* Stores outside a cycle, and transactions.                               *)

(* A step of c disturbs the transaction of its own store only, so that it  *)
(* has to answer for its own commit only.                                  *)
LEMMA EndedKept ==
  ASSUME CycleFacts, EndedInv, NEW c \in Context, pc[c] # "idle", Others(c),
         \/ UNCHANGED txn
         \/ /\ Holds(c, at[c])
            /\ \A s \in Store \ {at[c]} : txn'[s] = txn[s],
         pc'[c] = "announce" => ~txn'[at'[c]]
  PROVE  EndedInv'
<1> SUFFICES ASSUME NEW d \in Context, pc'[d] = "announce"
             PROVE  ~txn'[at'[d]]
  BY DEF EndedInv
<1>1. CASE d = c
  BY <1>1
<1>2. CASE d # c
  <2>1. pc[d] = "announce" /\ at'[d] = at[d] /\ at[d] \in Store
    BY <1>2, AtStore DEF Others
  <2>2. ~txn[at[d]]
    BY <2>1 DEF EndedInv
  <2>3. Holds(c, at[c]) => at[d] # at[c]
    BY <1>2, <2>1, AnnouncesAlone
  <2> QED
    BY <2>1, <2>2, <2>3
<1> QED
  BY <1>1, <1>2

(* A rollback leaves nothing.                                              *)
LEMMA RollbackCleans ==
  ASSUME NoInterference, CycleFacts, CleanInv, KeyInv, NEW s \in Store,
         saving[s] # None, RollbackChanges(s), UNCHANGED pending
  PROVE  /\ CleanInv' /\ KeyInv'
         /\ \A r \in Store \ {s} : txn'[r] = txn[r]
<1>1. StoreType /\ KeyType /\ txn \in [Store -> BOOLEAN]
  BY DEF CycleFacts, TypeInv, TypeOK, DatabaseType
<1>2. txn' = [txn EXCEPT ![s] = FALSE]
  BY DEF RollbackChanges, RollbackTransaction, NoInterference
<1>3. CleanInv'
  BY <1>1, <1>2 DEF CleanInv, RollbackChanges, CleanUp, StoreType
<1>4. ASSUME NEW d \in Context, NEW r \in Store, gid'[d][r] = "keyed"
      PROVE  saving'[r] = d /\ pending'[d] = "insert"
  <2>1. gid[d][r] = "keyed" /\ ~(d = saving[s] /\ r = s)
    BY <1>1, <1>4 DEF RollbackChanges, ClearNewGlobalIDs, KeyType, StoreType
  <2>2. saving[r] = d /\ pending[d] = "insert"
    BY <2>1 DEF KeyInv
  <2> QED
    BY <1>1, <2>1, <2>2 DEF RollbackChanges, CleanUp, StoreType
<1> QED
  BY <1>1, <1>2, <1>3, <1>4 DEF KeyInv

-----------------------------------------------------------------------------
(* The steps of a save.                                                    *)

LEMMA FirstPhaseResidue ==
  ASSUME NoInterference, CycleFacts, ResidueInv, NEW c \in Context,
         Prepare(c) \/ Keys(c) \/ Record(c) \/ Perform(c) \/ Operate(c)
  PROVE  ResidueInv'
<1>1. /\ FrameType /\ StoreType /\ KeyType /\ txn \in [Store -> BOOLEAN]
      /\ at[c] \in Store /\ c # None
  BY AtStore, ConstantsAssumption
  DEF CycleFacts, TypeInv, TypeOK, DatabaseType, ConstantsAssumption
<1>2. pc[c] # "idle" /\ Holds(c, at[c]) /\ Others(c)
  BY ActorHolds, StepKeepsOthers
  DEF Prepare, Keys, Record, Perform, Operate, Running, Step, CycleFacts
<1>3. pc'[c] # "announce"
  BY <1>1 DEF Prepare, Keys, Record, Perform, Operate, Goto, NextStore, Raise, FrameType
<1>4. pc[c] # "prepare" => saving[at[c]] = c
  BY WorksInItsCycle DEF Prepare, Keys, Record, Perform, Operate, Running
<1>5. \A s \in Store \ {at[c]} : txn'[s] = txn[s]
  BY <1>1 DEF Prepare, Keys, Record, Perform, Operate, dbVars
<1>6. EndedInv'
  BY <1>2, <1>3, <1>5, EndedKept DEF ResidueInv
<1>7. CASE Prepare(c)
  <2>1. UNCHANGED <<local, ops, gid, txn, pending>>
    BY <1>7 DEF Prepare, dbVars
  <2>2. \/ saving' = saving
        \/ saving[at[c]] = None /\ saving' = [saving EXCEPT ![at[c]] = c]
    BY <1>7 DEF Prepare, AlreadySaving
  <2>3. CleanInv'
    BY <1>1, <2>1, <2>2 DEF ResidueInv, CleanInv, StoreType
  <2>4. KeyInv'
    BY <1>1, <2>1, <2>2, ConstantsAssumption
    DEF ResidueInv, KeyInv, StoreType, ConstantsAssumption
  <2> QED
    BY <1>6, <2>3, <2>4 DEF ResidueInv
<1>8. CASE Keys(c)
  <2>1. saving[at[c]] = c /\ UNCHANGED <<saving, ops, txn, pending>>
    BY <1>4, <1>8 DEF Keys, Running, dbVars
  <2>2. CleanInv'
    BY <1>1, <1>8, <2>1 DEF ResidueInv, CleanInv, Keys, StoreType
  <2>3. gid' = gid \/ (pending[c] = "insert" /\ gid' = [gid EXCEPT ![c][at[c]] = "keyed"])
    BY <1>8 DEF Keys
  <2>4. KeyInv'
    BY <1>1, <2>1, <2>3 DEF ResidueInv, KeyInv, KeyType
  <2> QED
    BY <1>6, <2>2, <2>4 DEF ResidueInv
<1>9. CASE Record(c) \/ Perform(c) \/ Operate(c)
  <2>1. saving[at[c]] = c /\ UNCHANGED <<saving, local, pending, gid>>
    BY <1>4, <1>9 DEF Record, Perform, Operate, Running, storeVars
  <2>2. \A s \in Store \ {at[c]} : ops'[s] = ops[s]
    BY <1>1, <1>9 DEF Record, Perform, Operate, StoreType, storeVars
  <2> QED
    BY <1>1, <1>5, <1>6, <2>1, <2>2 DEF ResidueInv, CleanInv, KeyInv
<1> QED
  BY <1>7, <1>8, <1>9

LEMMA CommitResidue ==
  ASSUME NoInterference, CycleFacts, ResidueInv, NEW c \in Context,
         Commit(c) \/ Announce(c)
  PROVE  ResidueInv'
<1>1. /\ FrameType /\ StoreType /\ KeyType /\ txn \in [Store -> BOOLEAN]
      /\ at[c] \in Store /\ c # None
  BY AtStore, ConstantsAssumption
  DEF CycleFacts, TypeInv, TypeOK, DatabaseType, ConstantsAssumption
<1>2. pc[c] # "idle" /\ Holds(c, at[c]) /\ Others(c) /\ at' = at
  BY ActorHolds, StepKeepsOthers DEF Commit, Announce, Running, Goto, Step, CycleFacts
<1>3. CASE Commit(c)
  <2>1. txn' = [txn EXCEPT ![at[c]] = FALSE] /\ UNCHANGED <<saving, local, ops, gid, pending>>
    BY <1>3 DEF Commit, CommitTransaction, NoInterference, storeVars
  <2>2. EndedInv'
    BY <1>1, <1>2, <2>1, EndedKept DEF ResidueInv
  <2> QED
    BY <1>1, <2>1, <2>2 DEF ResidueInv, CleanInv, KeyInv
<1>4. CASE Announce(c)
  <2>1. saving[at[c]] = c /\ ~txn[at[c]]
    BY <1>4, WorksInItsCycle DEF Announce, Running, ResidueInv, EndedInv
  <2>2. /\ CleanUp(at[c]) /\ UNCHANGED <<txn, pending>> /\ pc'[c] = "release"
        /\ gid' = IF pending[c] = "insert"
                  THEN [gid EXCEPT ![c][at[c]] = "permanent"] ELSE gid
    BY <1>1, <1>4 DEF Announce, NoInterference, Goto, dbVars, FrameType
  <2>3. EndedInv'
    BY <1>2, <2>2, EndedKept DEF ResidueInv
  <2>4. CleanInv'
    BY <1>1, <2>1, <2>2 DEF ResidueInv, CleanInv, CleanUp, StoreType
  <2>5. ASSUME NEW d \in Context, NEW r \in Store, gid'[d][r] = "keyed"
        PROVE  saving'[r] = d /\ pending'[d] = "insert"
    <3>1. gid[d][r] = "keyed"
      BY <1>1, <2>2, <2>5 DEF KeyType
    <3>2. saving[r] = d /\ pending[d] = "insert"
      BY <3>1 DEF ResidueInv, KeyInv
    <3>3. r # at[c]
      BY <1>1, <2>1, <2>2, <2>5, <3>2 DEF KeyType
    <3> QED
      BY <1>1, <2>2, <3>2, <3>3 DEF CleanUp, StoreType
  <2> QED
    BY <2>3, <2>4, <2>5 DEF ResidueInv, KeyInv
<1> QED
  BY <1>3, <1>4

LEMMA RollbackResidue ==
  ASSUME NoInterference, CycleFacts, ResidueInv, NEW c \in Context,
         Rollback(c) \/ CommitFails(c)
  PROVE  ResidueInv'
<1>1. FrameType /\ at[c] \in Store
  BY AtStore DEF CycleFacts, TypeInv, TypeOK
<1>2. pc[c] # "idle" /\ Holds(c, at[c]) /\ Others(c) /\ pc'[c] = "release" /\ UNCHANGED pending
  BY <1>1, ActorHolds, StepKeepsOthers
  DEF Rollback, CommitFails, Running, Goto, Step, CycleFacts, FrameType
<1>3. CASE saving[at[c]] = None
  <2>1. UNCHANGED <<saving, local, ops, gid, txn>>
    BY <1>3 DEF Rollback, CommitFails, storeVars
  <2>2. EndedInv'
    BY <1>2, <2>1, EndedKept DEF ResidueInv
  <2> QED
    BY <1>2, <2>1, <2>2 DEF ResidueInv, CleanInv, KeyInv
<1>4. CASE saving[at[c]] # None
  <2>1. RollbackChanges(at[c])
    BY <1>4 DEF Rollback, CommitFails
  <2>2. CleanInv' /\ KeyInv' /\ \A r \in Store \ {at[c]} : txn'[r] = txn[r]
    BY <1>1, <1>2, <1>4, <2>1, RollbackCleans DEF ResidueInv
  <2>3. EndedInv'
    BY <1>2, <2>2, EndedKept DEF ResidueInv
  <2> QED
    BY <2>2, <2>3 DEF ResidueInv
<1> QED
  BY <1>3, <1>4

LEMMA LockResidue ==
  ASSUME CycleFacts, ResidueInv, NEW c \in Context,
         LockStore(c) \/ UnlockStore(c) \/ Relock(c)
  PROVE  ResidueInv'
<1>1. FrameType
  BY DEF CycleFacts, TypeInv, TypeOK
<1>2. pc[c] # "idle" /\ Others(c) /\ pc'[c] # "announce"
  BY <1>1, StepKeepsOthers
  DEF LockStore, UnlockStore, Relock, Running, Goto, NextStore, Step, CycleFacts, FrameType
<1>3. UNCHANGED <<saving, local, ops, gid, txn, pending>>
  BY DEF LockStore, UnlockStore, Relock, storeVars, dbVars
<1>4. EndedInv'
  BY <1>2, <1>3, EndedKept DEF ResidueInv
<1> QED
  BY <1>3, <1>4 DEF ResidueInv, CleanInv, KeyInv

(* The last step of a save: no store is in its cycle any more.             *)
LEMMA ReleaseResidue ==
  ASSUME CycleFacts, ResidueInv, NEW c \in Context, Release(c)
  PROVE  ResidueInv'
<1>1. FrameType /\ at[c] \in Store /\ c # None
  BY AtStore, ConstantsAssumption DEF CycleFacts, TypeInv, TypeOK, ConstantsAssumption
<1>2. pc[c] = "release" /\ Others(c) /\ pc'[c] # "announce"
  BY <1>1, StepKeepsOthers DEF Release, Running, NextStore, Step, CycleFacts, FrameType
<1>3. UNCHANGED <<saving, local, ops, gid, txn>>
  BY DEF Release, storeVars, dbVars
<1>4. EndedInv'
  BY <1>2, <1>3, EndedKept DEF ResidueInv
<1>5. ASSUME NEW d \in Context, NEW s \in Store, gid[d][s] = "keyed"
      PROVE  pending'[d] = "insert"
  <2>1. saving[s] = d /\ pending[d] = "insert"
    BY <1>5 DEF ResidueInv, KeyInv
  <2>2. CASE at[c] < NumStores \/ d # c
    BY <1>1, <2>1, <2>2 DEF Release, FrameType
  <2>3. CASE ~(at[c] < NumStores) /\ d = c
    <3>1. InCycle(c, s)
      BY <1>1, <2>1, <2>3 DEF CycleFacts, OwnInv, OwnAt
    <3> QED
      BY <1>1, <1>2, <2>3, <3>1, ConstantFacts DEF InCycle, Store
  <2> QED
    BY <2>2, <2>3
<1> QED
  BY <1>3, <1>4, <1>5 DEF ResidueInv, CleanInv, KeyInv

(* The application outside of a save has no keys to lose.                  *)
LEMMA IdleResidue ==
  ASSUME CycleFacts, ResidueInv, NEW c \in Context, Edit(c) \/ Revert(c) \/ Begin(c)
  PROVE  ResidueInv'
<1>1. FrameType /\ KeyType /\ c # None
  BY ConstantsAssumption DEF CycleFacts, TypeInv, TypeOK, ConstantsAssumption
<1>2. UNCHANGED <<saving, local, ops, txn>> /\ pc[c] = "idle"
  BY DEF Edit, Revert, Begin, storeVars, dbVars
<1>3. EndedInv'
  BY <1>1, <1>2 DEF ResidueInv, EndedInv, Edit, Revert, Begin, FrameType
<1>4. \A s \in Store : gid[c][s] # "keyed"
  BY <1>1, <1>2 DEF ResidueInv, KeyInv, CycleFacts, OwnInv, OwnAt, InCycle
<1>5. \A d \in Context, s \in Store : gid'[d][s] = "keyed" => d # c /\ gid[d][s] = "keyed"
  BY <1>1, <1>4 DEF Edit, Revert, Begin, KeyType
<1>6. \A d \in Context \ {c} : pending'[d] = pending[d]
  BY <1>1 DEF Edit, Revert, Begin, FrameType
<1> QED
  BY <1>2, <1>3, <1>5, <1>6 DEF ResidueInv, CleanInv, KeyInv

-----------------------------------------------------------------------------
LEMMA NextResidue ==
  ASSUME NoInterference, TypeInv, LockInv, CommitInv, ResidueInv, [Next]_vars
  PROVE  ResidueInv'
<1>1. CycleFacts
  BY DEF CycleFacts, CommitInv
<1>2. ASSUME NEW c \in Context, Edit(c) \/ Revert(c) \/ Begin(c) \/ Step(c)
      PROVE  ResidueInv'
  BY <1>1, <1>2, IdleResidue, LockResidue, FirstPhaseResidue, CommitResidue,
     RollbackResidue, ReleaseResidue DEF Step
<1>3. ASSUME UNCHANGED <<frameVars, gid, storeVars, txn>>
      PROVE  ResidueInv'
  BY <1>3 DEF frameVars, storeVars, ResidueInv, CleanInv, EndedInv, KeyInv
<1>4. ASSUME NEW t \in Readers, NEW s \in Store, Fetch(t, s)
      PROVE  ResidueInv'
  BY <1>3, <1>4 DEF Fetch
<1>5. CASE UNCHANGED vars
  BY <1>3, <1>5 DEF vars, dbVars
<1> QED
  BY <1>2, <1>4, <1>5 DEF Next

LEMMA ResidueInvariant ==
  ASSUME NoInterference
  PROVE  Spec => [](TypeInv /\ LockInv /\ CommitInv /\ ResidueInv)
<1>1. Init => ResidueInv
  BY ConstantFacts DEF Init, ResidueInv, CleanInv, EndedInv, KeyInv
<1>2. TypeInv /\ LockInv /\ CommitInv /\ ResidueInv /\ [Next]_vars => ResidueInv'
  BY NextResidue
<1> QED
  BY <1>1, <1>2, CommitInvariant, PTL DEF Spec

(* When a save is over, whether it has returned or raised in whatever      *)
(* phase, its stores have no snapshots, operations or transaction left:    *)
(* the next prepareForSave finds them ready.                               *)
THEOREM SavesLeaveNoResidue ==
  ASSUME NoInterference
  PROVE  Spec => []NoResidue
<1>1. TypeInv /\ CommitInv /\ ResidueInv => NoResidue
  BY ConstantsAssumption
  DEF CommitInv, OwnInv, OwnAt, InCycle, ResidueInv, CleanInv, NoResidue, TypeInv, TypeOK,
      StoreType, ConstantsAssumption
<1> QED
  BY <1>1, ResidueInvariant, PTL

(* The keys that a failed save has asked for are given back                *)
(* (_clearNewGlobalIDs), those of a successful one are the rows'.          *)
THEOREM KeysAreSettled ==
  ASSUME NoInterference
  PROVE  Spec => []KeysSettled
<1>1. CommitInv /\ ResidueInv => KeysSettled
  BY ConstantsAssumption
  DEF CommitInv, OwnInv, OwnAt, InCycle, ResidueInv, KeyInv, KeysSettled, ConstantsAssumption
<1> QED
  BY <1>1, ResidueInvariant, PTL
=============================================================================
