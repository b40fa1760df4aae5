--------------------------- MODULE SaveCycleProofs ---------------------------
(***************************************************************************)
(* Theorems about SaveCycle, for every number of contexts, threads, stores *)
(* and saves.                                                              *)
(***************************************************************************)
EXTENDS SaveCycleInvariants, FiniteSetTheorems, TLAPS

-----------------------------------------------------------------------------
(* Type correctness.                                                       *)

LEMMA ConstantFacts ==
  /\ NumStores \in Nat /\ NumStores > 0
  /\ MaxSaves \in Nat
  /\ 1 \in Store
  /\ \A s \in Store : s \in Nat /\ (s < NumStores => s + 1 \in Store)
  /\ \A c \in Context : ThreadOf[c] \in Thread
BY ConstantsAssumption DEF ConstantsAssumption, Store

(* Step c moves from anywhere to another step.                             *)
Moves(c) ==
  /\ pc' \in [Context -> Steps]
  /\ at' \in [Context -> Store]
  /\ pc' = [pc EXCEPT ![c] = pc'[c]]
  /\ at' = [at EXCEPT ![c] = at'[c]]

LEMMA NextStoreType ==
  ASSUME FrameType, NEW c \in Context, NEW p \in Steps, NEW q \in Steps, NextStore(c, p, q)
  PROVE  Moves(c)
BY ConstantFacts DEF FrameType, NextStore, Moves

LEMMA GotoType ==
  ASSUME FrameType, NEW c \in Context, NEW p \in Steps, Goto(c, p)
  PROVE  Moves(c)
BY ConstantFacts DEF FrameType, Goto, Moves

LEMMA RaiseType ==
  ASSUME FrameType, NEW c \in Context, Raise(c)
  PROVE  Moves(c) /\ err' \in [Context -> BOOLEAN]
BY ConstantFacts DEF FrameType, Raise, Fail, Steps, Moves

LEMMA AcquireType ==
  ASSUME LockType, NEW t \in Thread, NEW s \in Store, Acquire(t, s)
  PROVE  LockType'
BY DEF LockType, Acquire

LEMMA FreeType ==
  ASSUME LockType, NEW s \in Store, Free(s)
  PROVE  LockType'
BY DEF LockType, Free

LEMMA RollbackType ==
  ASSUME KeyType, StoreType, txn \in [Store -> BOOLEAN], work \in [Store -> SUBSET Change],
         NEW s \in Store, saving[s] # None, RollbackChanges(s)
  PROVE  /\ KeyType' /\ StoreType'
         /\ txn' \in [Store -> BOOLEAN]
         /\ work' \in [Store -> SUBSET Change]
<1>1. KeyType'
  BY DEF KeyType, StoreType, RollbackChanges, ClearNewGlobalIDs
<1>2. StoreType'
  BY DEF StoreType, RollbackChanges, CleanUp
<1>3. txn' \in [Store -> BOOLEAN] /\ work' \in [Store -> SUBSET Change]
  BY DEF RollbackChanges, RollbackTransaction
<1> QED
  BY <1>1, <1>2, <1>3

LEMMA KeyUpdate ==
  ASSUME KeyType, NEW c \in Context, NEW s \in Store,
         NEW v \in {"temporary", "keyed", "permanent"},
         gid' = gid \/ gid' = [gid EXCEPT ![c][s] = v]
  PROVE  KeyType'
BY DEF KeyType

LEMMA ChangeType ==
  ASSUME FrameType, NEW c \in Context, attempt[c] > 0
  PROVE  change(c) \in Change
BY ConstantFacts DEF FrameType, change, Change

LEMMA InitType == Init => TypeInv
<1> SUFFICES ASSUME Init
             PROVE  TypeInv
  OBVIOUS
<1> USE ConstantFacts DEF Init
<1>1. FrameType
  BY DEF FrameType, Steps
<1>2. KeyType /\ LockType
  BY DEF KeyType, LockType
<1>3. StoreType /\ DatabaseType
  BY DEF StoreType, DatabaseType
<1>4. Started
  BY DEF Started
<1> QED
  BY <1>1, <1>2, <1>3, <1>4 DEF TypeInv, TypeOK

LEMMA NextType == TypeInv /\ [Next]_vars => TypeInv'
<1> SUFFICES ASSUME TypeInv, [Next]_vars
             PROVE  TypeInv'
  OBVIOUS
<1> USE ConstantFacts DEF TypeInv, TypeOK, vars, frameVars, lockVars, storeVars, dbVars, history

<1>1. ASSUME NEW c \in Context, Edit(c)
      PROVE  TypeInv'
  <2>1. FrameType' /\ KeyType'
    BY <1>1 DEF Edit, FrameType, KeyType
  <2> QED
    BY <1>1, <2>1 DEF Edit, Started, LockType, StoreType, DatabaseType
<1>2. ASSUME NEW c \in Context, Revert(c)
      PROVE  TypeInv'
  <2>1. FrameType'
    BY <1>2 DEF Revert, FrameType
  <2> QED
    BY <1>2, <2>1 DEF Revert, Started, KeyType, LockType, StoreType, DatabaseType
<1>3. ASSUME NEW c \in Context, Begin(c)
      PROVE  TypeInv'
  <2>1. FrameType'
    BY <1>3 DEF Begin, FrameType, Steps
  <2>2. Started'
    BY <1>3 DEF Begin, Started, FrameType, StoreType
  <2> QED
    BY <1>3, <2>1, <2>2 DEF Begin, KeyType, LockType, StoreType, DatabaseType
<1>4. ASSUME NEW c \in Context, LockStore(c)
      PROVE  TypeInv'
  <2>1. LockType'
    BY <1>4, AcquireType DEF LockStore, FrameType
  <2>2. Moves(c)
    BY <1>4, NextStoreType DEF LockStore, Steps
  <2>3. FrameType' /\ Started'
    BY <1>4, <2>2 DEF LockStore, Running, FrameType, Moves, Started
  <2> QED
    BY <1>4, <2>1, <2>2, <2>3 DEF LockStore, KeyType, StoreType, DatabaseType
<1>5. ASSUME NEW c \in Context, Prepare(c)
      PROVE  TypeInv'
  <2>1. Moves(c) /\ err' \in [Context -> BOOLEAN]
    BY <1>5, RaiseType, GotoType DEF Prepare, FrameType, Steps
  <2>2. StoreType'
    BY <1>5 DEF Prepare, StoreType, FrameType
  <2>3. FrameType'
    BY <1>5, <2>1 DEF Prepare, FrameType, Moves
  <2>4. Started'
    BY <1>5, <2>1 DEF Prepare, Running, Started, FrameType, StoreType, Moves
  <2> QED
    BY <1>5, <2>1, <2>2, <2>3, <2>4 DEF Prepare, KeyType, LockType, DatabaseType
<1>6. ASSUME NEW c \in Context, Keys(c)
      PROVE  TypeInv'
  <2>1. KeyType'
    BY <1>6, KeyUpdate DEF Keys, FrameType
  <2>2. StoreType'
    BY <1>6 DEF Keys, StoreType
  <2>3. Moves(c) /\ err' \in [Context -> BOOLEAN]
    BY <1>6, RaiseType, NextStoreType DEF Keys, FrameType, Steps
  <2>4. FrameType' /\ Started'
    BY <1>6, <2>3 DEF Keys, Running, FrameType, Moves, Started
  <2> QED
    BY <1>6, <2>1, <2>2, <2>3, <2>4 DEF Keys, LockType, DatabaseType
<1>7. ASSUME NEW c \in Context, Record(c)
      PROVE  TypeInv'
  <2>1. StoreType'
    BY <1>7 DEF Record, StoreType, FrameType
  <2>2. Moves(c) /\ err' \in [Context -> BOOLEAN]
    BY <1>7, RaiseType, NextStoreType DEF Record, FrameType, Steps
  <2>3. FrameType' /\ Started'
    BY <1>7, <2>2 DEF Record, Running, FrameType, Moves, Started
  <2> QED
    BY <1>7, <2>1, <2>2, <2>3 DEF Record, KeyType, LockType, DatabaseType
<1>8. ASSUME NEW c \in Context, Perform(c)
      PROVE  TypeInv'
  <2>1. Moves(c) /\ err' \in [Context -> BOOLEAN]
    BY <1>8, RaiseType, GotoType DEF Perform, FrameType, Steps
  <2>2. FrameType' /\ Started'
    BY <1>8, <2>1 DEF Perform, Running, FrameType, Moves, Started
  <2> QED
    BY <1>8, <2>1, <2>2 DEF Perform, KeyType, LockType, StoreType, DatabaseType
<1>9. ASSUME NEW c \in Context, Operate(c)
      PROVE  TypeInv'
  <2>1. change(c) \in Change
    BY <1>9, ChangeType DEF Operate, Running, Started
  <2>2. work' \in [Store -> SUBSET Change]
    BY <1>9, <2>1 DEF Operate, DatabaseType
  <2>3. txn' \in [Store -> BOOLEAN]
    BY <1>9 DEF Operate, DatabaseType
  <2>4. Moves(c) /\ err' \in [Context -> BOOLEAN]
    BY <1>9, RaiseType, NextStoreType DEF Operate, FrameType, Steps
  <2>5. FrameType' /\ Started'
    BY <1>9, <2>4 DEF Operate, Running, FrameType, Moves, Started
  <2> QED
    BY <1>9, <2>1, <2>2, <2>3, <2>4, <2>5 DEF Operate, DatabaseType, KeyType, LockType, StoreType
<1>10. ASSUME NEW c \in Context, UnlockStore(c)
      PROVE  TypeInv'
  <2>1. LockType'
    BY <1>10, FreeType DEF UnlockStore, FrameType
  <2>2. Moves(c)
    BY <1>10, NextStoreType DEF UnlockStore, Steps
  <2>3. FrameType' /\ Started'
    BY <1>10, <2>2 DEF UnlockStore, Running, FrameType, Moves, Started
  <2> QED
    BY <1>10, <2>1, <2>2, <2>3 DEF UnlockStore, KeyType, StoreType, DatabaseType
<1>11. ASSUME NEW c \in Context, Relock(c)
      PROVE  TypeInv'
  <2>1. LockType'
    BY <1>11, AcquireType DEF Relock, FrameType
  <2>2. Moves(c)
    BY <1>11, GotoType DEF Relock, Steps
  <2>3. FrameType' /\ Started'
    BY <1>11, <2>2 DEF Relock, Running, FrameType, Moves, Started
  <2> QED
    BY <1>11, <2>1, <2>2, <2>3 DEF Relock, KeyType, StoreType, DatabaseType
<1>12. ASSUME NEW c \in Context, Rollback(c)
      PROVE  TypeInv'
  <2>1. at[c] \in Store
    BY <1>12 DEF FrameType
  <2>2. KeyType' /\ StoreType' /\ DatabaseType'
    BY <1>12, <2>1, RollbackType DEF Rollback, KeyType, StoreType, DatabaseType
  <2>3. Moves(c)
    BY <1>12, GotoType DEF Rollback, Steps
  <2>4. saving' = [saving EXCEPT ![at[c]] = saving'[at[c]]] /\ saving'[at[c]] = None
    BY <1>12 DEF Rollback, RollbackChanges, CleanUp, StoreType, FrameType
  <2>5. FrameType' /\ Started'
    BY <1>12, <2>3, <2>4 DEF Rollback, Running, FrameType, Moves, Started, StoreType
  <2> QED
    BY <1>12, <2>1, <2>2, <2>3, <2>4, <2>5 DEF Rollback, LockType
<1>13. ASSUME NEW c \in Context, Commit(c)
      PROVE  TypeInv'
  <2>1. change(saving[at[c]]) \in Change
    BY <1>13, ChangeType DEF Commit, FrameType, StoreType, Started
  <2>2. durable' \in [Store -> SUBSET Change] /\ work' \in [Store -> SUBSET Change]
    BY <1>13 DEF Commit, CommitTransaction, DatabaseType, FrameType
  <2>3. cache' \in [Store -> SUBSET Change] /\ txn' \in [Store -> BOOLEAN]
    BY <1>13, <2>1 DEF Commit, CommitTransaction, DatabaseType, FrameType
  <2>4. Moves(c)
    BY <1>13, GotoType DEF Commit, Steps
  <2>5. FrameType' /\ Started'
    BY <1>13, <2>4 DEF Commit, Running, FrameType, Moves, Started
  <2> QED
    BY <1>13, <2>1, <2>2, <2>3, <2>4, <2>5 DEF Commit, DatabaseType, KeyType, LockType, StoreType
<1>14. ASSUME NEW c \in Context, CommitFails(c)
      PROVE  TypeInv'
  <2>1. at[c] \in Store
    BY <1>14 DEF FrameType
  <2>2. KeyType' /\ StoreType' /\ txn' \in [Store -> BOOLEAN] /\ work' \in [Store -> SUBSET Change]
    BY <1>14, <2>1, RollbackType DEF CommitFails, KeyType, StoreType, DatabaseType
  <2>3. DatabaseType'
    BY <1>14, <2>2 DEF CommitFails, DatabaseType
  <2>4. Moves(c) /\ err' \in [Context -> BOOLEAN]
    BY <1>14, GotoType DEF CommitFails, Fail, FrameType, Steps
  <2>5. saving' = [saving EXCEPT ![at[c]] = saving'[at[c]]] /\ saving'[at[c]] = None
    BY <1>14 DEF CommitFails, RollbackChanges, CleanUp, StoreType, FrameType
  <2>6. FrameType' /\ Started'
    BY <1>14, <2>4, <2>5 DEF CommitFails, Running, FrameType, Moves, Started, StoreType
  <2> QED
    BY <1>14, <2>1, <2>2, <2>3, <2>4, <2>5, <2>6 DEF CommitFails, LockType
<1>15. ASSUME NEW c \in Context, Announce(c)
      PROVE  TypeInv'
  <2>1. at[c] \in Store
    BY <1>15 DEF FrameType
  <2>2. KeyType'
    BY <1>15, KeyUpdate DEF Announce, FrameType
  <2>3. StoreType'
    BY <1>15 DEF Announce, CleanUp, StoreType, FrameType
  <2>4. Moves(c) /\ err' \in [Context -> BOOLEAN]
    BY <1>15, GotoType DEF Announce, Fail, FrameType, Steps
  <2>5. saving' = saving \/ saving' = [saving EXCEPT ![at[c]] = None]
    BY <1>15 DEF Announce, CleanUp
  <2>6. FrameType' /\ Started'
    BY <1>15, <2>4, <2>5 DEF Announce, Running, FrameType, Moves, Started, StoreType
  <2> QED
    BY <1>15, <2>1, <2>2, <2>3, <2>4, <2>5, <2>6 DEF Announce, LockType, DatabaseType
<1>16. ASSUME NEW c \in Context, Release(c)
      PROVE  TypeInv'
  <2>1. LockType'
    BY <1>16, FreeType DEF Release, FrameType
  <2>2. Moves(c)
    BY <1>16, NextStoreType DEF Release, Steps
  <2>3. change(c) \in Change
    BY <1>16, ChangeType DEF Release, Running, Started
  <2>4. acked' \subseteq Change /\ refused' \subseteq Change
    BY <1>16, <2>3 DEF Release
  <2>5. FrameType' /\ Started'
    BY <1>16, <2>2 DEF Release, Running, FrameType, Moves, Started
  <2> QED
    BY <1>16, <2>1, <2>2, <2>3, <2>4, <2>5 DEF Release, KeyType, StoreType, DatabaseType
<1>17. ASSUME NEW t \in Readers, NEW s \in Store, Fetch(t, s)
      PROVE  TypeInv'
  <2>1. DatabaseType'
    BY <1>17 DEF Fetch, DatabaseType
  <2> QED
    BY <1>17, <2>1 DEF Fetch, FrameType, KeyType, LockType, StoreType, Started
<1>18. CASE UNCHANGED vars
  BY <1>18 DEF FrameType, KeyType, LockType, StoreType, DatabaseType, Started
<1> QED
  BY <1>1, <1>2, <1>3, <1>4, <1>5, <1>6, <1>7, <1>8, <1>9, <1>10, <1>11, <1>12,
     <1>13, <1>14, <1>15, <1>16, <1>17, <1>18 DEF Next, Step

(* Every variable of a save cycle keeps its type, whatever fails and       *)
(* whatever the delegates do.                                              *)
THEOREM TypeCorrect == Spec => []TypeOK
<1>1. Spec => []TypeInv
  BY InitType, NextType, PTL DEF Spec
<1>2. TypeInv => TypeOK
  BY DEF TypeInv
<1> QED
  BY <1>1, <1>2, PTL

-----------------------------------------------------------------------------
(* The stores' locks.                                                      *)

LEMMA HoldersFinite ==
  \A s \in Store : IsFiniteSet(Holders(s)) /\ Cardinality(Holders(s)) \in Nat
<1>1. \A s \in Store : Holders(s) \in SUBSET Context
  BY DEF Holders
<1>2. IsFiniteSet(Context)
  BY ConstantsAssumption DEF ConstantsAssumption
<1> QED
  BY <1>1, <1>2, FS_Subset, FS_CardinalityType

(* A store whose lock was left behind stays with its owner.                *)
LeaksStay == \A s \in Store : Leaked(s) => Leaked(s)' /\ owner'[s] = owner[s]

LEMMA LocksKept ==
  ASSUME LockInv, LockType, UNCHANGED <<owner, depth>>,
         \A d \in Context, r \in Store : Holds(d, r)' => Holds(d, r)
  PROVE  LockInv' /\ LeaksStay
<1>1. \A s \in Store : Holders(s)' \in SUBSET Holders(s)
  BY DEF Holders
<1>2. \A s \in Store : /\ Cardinality(Holders(s)') <= Cardinality(Holders(s))
                       /\ Cardinality(Holders(s)') \in Nat
  BY <1>1, HoldersFinite, FS_Subset, FS_CardinalityType
<1> QED
  BY <1>1, <1>2, HoldersFinite DEF LockInv, LockType, Leaked, LeaksStay

LEMMA LockTaken ==
  ASSUME LockInv, LockType, NEW c \in Context, NEW s \in Store,
         Acquire(ThreadOf[c], s), ~Holds(c, s),
         \A d \in Context, r \in Store :
            Holds(d, r)' <=> Holds(d, r) \/ (d = c /\ r = s)
  PROVE  LockInv' /\ LeaksStay
<1>1. Holders(s)' = Holders(s) \cup {c}
  BY DEF Holders
<1>2. \A r \in Store \ {s} : Holders(r)' = Holders(r)
  BY DEF Holders
<1>3. Cardinality(Holders(s)') = Cardinality(Holders(s)) + 1
  <2>1. c \notin Holders(s)
    BY DEF Holders
  <2> QED
    BY <1>1, <2>1, HoldersFinite, FS_AddElement
<1>4. ASSUME NEW r \in Store \ {s}
      PROVE  owner'[r] = owner[r] /\ depth'[r] = depth[r]
  BY DEF Acquire, LockType
<1>5. /\ owner'[s] = ThreadOf[c] /\ depth'[s] = depth[s] + 1 /\ depth[s] \in Nat
      /\ owner[s] \in {None, ThreadOf[c]}
      /\ ThreadOf[c] # None
  BY ConstantsAssumption DEF Acquire, LockType, ConstantsAssumption
<1>6. \A d \in Holders(s)' : owner'[s] = ThreadOf[d]
  <2>1. \A d \in Holders(s) : owner[s] = ThreadOf[d] /\ ThreadOf[d] # None
    BY ConstantsAssumption DEF LockInv, Holders, ConstantsAssumption
  <2> QED
    BY <1>1, <1>5, <2>1
<1>7. (owner'[s] = None <=> depth'[s] = 0) /\ Cardinality(Holders(s)') <= depth'[s]
  BY <1>3, <1>5, HoldersFinite DEF LockInv
<1>8. Leaked(s) => Leaked(s)' /\ owner'[s] = owner[s]
  BY <1>3, <1>5, HoldersFinite DEF Leaked, LockInv
<1> QED
  BY <1>2, <1>4, <1>6, <1>7, <1>8 DEF LockInv, Leaked, LeaksStay

LEMMA LockReturned ==
  ASSUME LockInv, LockType, NEW c \in Context, NEW s \in Store,
         Free(s), Holds(c, s),
         \A d \in Context, r \in Store :
            Holds(d, r)' <=> Holds(d, r) /\ ~(d = c /\ r = s)
  PROVE  LockInv' /\ LeaksStay
<1>1. Holders(s)' = Holders(s) \ {c}
  BY DEF Holders
<1>2. \A r \in Store \ {s} : Holders(r)' = Holders(r)
  BY DEF Holders
<1>3. Cardinality(Holders(s)') = Cardinality(Holders(s)) - 1
  <2>1. c \in Holders(s)
    BY DEF Holders
  <2> QED
    BY <1>1, <2>1, HoldersFinite, FS_RemoveElement
<1>4. ASSUME NEW r \in Store \ {s}
      PROVE  owner'[r] = owner[r] /\ depth'[r] = depth[r]
  BY DEF Free, LockType
<1>5. /\ depth'[s] = depth[s] - 1 /\ depth[s] \in Nat /\ depth[s] > 0
      /\ owner'[s] = IF depth[s] = 1 THEN None ELSE owner[s]
  BY DEF Free, LockType
<1>6. depth[s] = 1 => Holders(s)' = {}
  <2>1. IsFiniteSet(Holders(s)') /\ Cardinality(Holders(s)') \in Nat
    BY <1>1, HoldersFinite, FS_RemoveElement, FS_CardinalityType
  <2>2. Cardinality(Holders(s)) <= depth[s]
    BY DEF LockInv
  <2>3. ASSUME depth[s] = 1
        PROVE  Cardinality(Holders(s)') = 0
    BY <1>3, <2>1, <2>2, <2>3, HoldersFinite
  <2> QED
    BY <2>1, <2>3, FS_EmptySet
<1>7. \A d \in Holders(s)' : owner'[s] = ThreadOf[d]
  BY <1>1, <1>5, <1>6 DEF LockInv
<1>8. (owner'[s] = None <=> depth'[s] = 0) /\ Cardinality(Holders(s)') <= depth'[s]
  BY <1>3, <1>5, HoldersFinite DEF LockInv
<1>9. Cardinality(Holders(s)) > 0
  BY <1>1, <1>3, HoldersFinite, FS_RemoveElement, FS_CardinalityType
<1>10. Leaked(s) => Leaked(s)' /\ owner'[s] = owner[s]
  BY <1>3, <1>5, <1>9, HoldersFinite DEF Leaked
<1> QED
  BY <1>2, <1>4, <1>7, <1>8, <1>10 DEF LockInv, Leaked, LeaksStay

LEMMA InitLocks == Init => LockInv
<1> SUFFICES ASSUME Init
             PROVE  LockInv
  OBVIOUS
<1>1. \A s \in Store : Holders(s) = {}
  BY ConstantFacts DEF Init, Holders, Holds, InFirstPhase
<1>2. Cardinality({}) = 0
  BY FS_EmptySet
<1>3. \A s \in Store : owner[s] = None /\ depth[s] = 0
  BY DEF Init
<1> QED
  BY <1>1, <1>2, <1>3 DEF LockInv

LEMMA NextLocks == TypeInv /\ LockInv /\ [Next]_vars => LockInv' /\ LeaksStay
<1> SUFFICES ASSUME TypeInv, LockInv, [Next]_vars
             PROVE  LockInv' /\ LeaksStay
  OBVIOUS
<1>1. FrameType /\ LockType
  BY DEF TypeInv, TypeOK
<1>2. ASSUME NEW c \in Context, LockStore(c)
      PROVE  LockInv' /\ LeaksStay
  <2>1. at[c] \in Store /\ Acquire(ThreadOf[c], at[c]) /\ ~Holds(c, at[c])
    BY <1>1, <1>2, ConstantFacts DEF LockStore, Running, FrameType, Holds, InFirstPhase, Store
  <2>2. \A d \in Context, r \in Store :
          Holds(d, r)' <=> Holds(d, r) \/ (d = c /\ r = at[c])
    BY <1>1, <1>2, ConstantFacts
       DEF LockStore, Running, NextStore, FrameType, Holds, InFirstPhase, Store
  <2> QED
    BY <1>1, <2>1, <2>2, LockTaken
<1>3. ASSUME NEW c \in Context, UnlockStore(c)
      PROVE  LockInv' /\ LeaksStay
  <2>1. at[c] \in Store /\ Free(at[c]) /\ Holds(c, at[c])
    BY <1>1, <1>3, ConstantFacts DEF UnlockStore, Running, FrameType, Holds, Store
  <2>2. \A d \in Context, r \in Store :
          Holds(d, r)' <=> Holds(d, r) /\ ~(d = c /\ r = at[c])
    BY <1>1, <1>3, ConstantFacts
       DEF UnlockStore, Running, NextStore, FrameType, Holds, InFirstPhase, Store
  <2> QED
    BY <1>1, <2>1, <2>2, LockReturned
<1>4. ASSUME NEW c \in Context, Relock(c)
      PROVE  LockInv' /\ LeaksStay
  <2>1. at[c] \in Store /\ Acquire(ThreadOf[c], at[c]) /\ ~Holds(c, at[c])
    BY <1>1, <1>4 DEF Relock, Running, FrameType, Holds, InFirstPhase
  <2>2. \A d \in Context, r \in Store :
          Holds(d, r)' <=> Holds(d, r) \/ (d = c /\ r = at[c])
    BY <1>1, <1>4 DEF Relock, Running, Goto, FrameType, Holds, InFirstPhase
  <2> QED
    BY <1>1, <2>1, <2>2, LockTaken
<1>5. ASSUME NEW c \in Context, Release(c)
      PROVE  LockInv' /\ LeaksStay
  <2>1. at[c] \in Store /\ Free(at[c]) /\ Holds(c, at[c])
    BY <1>1, <1>5 DEF Release, Running, FrameType, Holds
  <2>2. \A d \in Context, r \in Store :
          Holds(d, r)' <=> Holds(d, r) /\ ~(d = c /\ r = at[c])
    BY <1>1, <1>5, ConstantFacts
       DEF Release, Running, NextStore, FrameType, Holds, InFirstPhase, Store
  <2> QED
    BY <1>1, <2>1, <2>2, LockReturned
<1>6. ASSUME NEW c \in Context, UNCHANGED lockVars,
             Prepare(c) \/ Keys(c) \/ Record(c) \/ Perform(c) \/ Operate(c)
      PROVE  LockInv' /\ LeaksStay
  <2>1. InFirstPhase(c)
    BY <1>6 DEF Prepare, Keys, Record, Perform, Operate, Running, InFirstPhase
  <2>2. \A d \in Context \ {c} : pc'[d] = pc[d] /\ at'[d] = at[d]
    BY <1>1, <1>6 DEF Prepare, Keys, Record, Perform, Operate, Raise, NextStore, Goto, FrameType
  <2>3. \A d \in Context, r \in Store : Holds(d, r)' => Holds(d, r)
    BY <2>1, <2>2 DEF Holds, InFirstPhase
  <2> QED
    BY <1>1, <1>6, <2>3, LocksKept DEF lockVars
<1>7. ASSUME NEW c \in Context, Rollback(c) \/ Commit(c) \/ CommitFails(c) \/ Announce(c)
      PROVE  LockInv' /\ LeaksStay
  <2>1. /\ pc[c] \in {"finish", "announce"} /\ pc'[c] \in {"announce", "release"}
        /\ at' = at
        /\ \A d \in Context \ {c} : pc'[d] = pc[d]
    BY <1>1, <1>7 DEF Rollback, Commit, CommitFails, Announce, Running, Goto, FrameType
  <2>2. \A d \in Context, r \in Store : Holds(d, r)' => Holds(d, r)
    BY <2>1 DEF Holds, InFirstPhase
  <2>3. UNCHANGED <<owner, depth>>
    BY <1>7 DEF Rollback, Commit, CommitFails, Announce, lockVars
  <2> QED
    BY <1>1, <2>2, <2>3, LocksKept
<1>8. ASSUME NEW c \in Context, Begin(c)
      PROVE  LockInv' /\ LeaksStay
  <2>1. \A d \in Context, r \in Store : Holds(d, r)' => Holds(d, r)
    BY <1>1, <1>8, ConstantFacts DEF Begin, FrameType, Holds, InFirstPhase, Store
  <2> QED
    BY <1>1, <1>8, <2>1, LocksKept DEF Begin, lockVars
<1>9. ASSUME UNCHANGED <<pc, at, owner, depth>>
      PROVE  LockInv' /\ LeaksStay
  BY <1>1, <1>9, LocksKept DEF Holds, InFirstPhase
<1>10. ASSUME NEW c \in Context, Prepare(c) \/ Keys(c) \/ Record(c) \/ Perform(c) \/ Operate(c)
       PROVE  UNCHANGED lockVars
  BY <1>10 DEF Prepare, Keys, Record, Perform, Operate, lockVars
<1>11. ASSUME NEW c \in Context, Edit(c) \/ Revert(c)
       PROVE  UNCHANGED <<pc, at, owner, depth>>
  BY <1>11 DEF Edit, Revert, lockVars
<1>12. ASSUME NEW t \in Readers, NEW s \in Store, Fetch(t, s)
       PROVE  UNCHANGED <<pc, at, owner, depth>>
  BY <1>12 DEF Fetch, lockVars, frameVars
<1>13. ASSUME UNCHANGED vars
       PROVE  UNCHANGED <<pc, at, owner, depth>>
  BY <1>13 DEF vars, lockVars, frameVars
<1> QED
  BY <1>2, <1>3, <1>4, <1>5, <1>6, <1>7, <1>8, <1>9, <1>10, <1>11, <1>12, <1>13
     DEF Next, Step

(* Two threads are never between prepareForSave and performChanges at the  *)
(* same time, also when saves raise and leave their locks behind, and when *)
(* delegates save other editing contexts meanwhile.                        *)
THEOREM FirstPhaseIsExclusive == Spec => []FirstPhaseExclusive
<1>1. Spec => [](TypeInv /\ LockInv)
  <2>1. Init => TypeInv /\ LockInv
    BY InitType, InitLocks
  <2>2. (TypeInv /\ LockInv) /\ [Next]_vars => (TypeInv /\ LockInv)'
    BY NextType, NextLocks
  <2> QED
    BY <2>1, <2>2, PTL DEF Spec
<1>2. LockInv => FirstPhaseExclusive
  <2> SUFFICES ASSUME LockInv, NEW c \in Context, NEW d \in Context,
                      InFirstPhase(c), InFirstPhase(d)
               PROVE  ThreadOf[c] = ThreadOf[d]
    BY DEF FirstPhaseExclusive
  <2>1. 1 \in Store /\ c \in Holders(1) /\ d \in Holders(1)
    BY ConstantFacts DEF Holders, Holds
  <2> QED
    BY <2>1 DEF LockInv
<1> QED
  BY <1>1, <1>2, PTL

=============================================================================
