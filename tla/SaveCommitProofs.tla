--------------------------- MODULE SaveCommitProofs ---------------------------
(***************************************************************************)
(* What saves of several threads commit, when delegates save nothing and   *)
(* the adaptors neither veto a commit nor fail to roll back.               *)
(***************************************************************************)
EXTENDS SaveCycleProofs

-----------------------------------------------------------------------------
(* One step of one save.                                                   *)

Others(c) ==
  \A d \in Context \ {c} : pc'[d] = pc[d] /\ at'[d] = at[d] /\ err'[d] = err[d]

LEMMA StepKeepsOthers ==
  ASSUME TypeInv, NEW c \in Context, Step(c)
  PROVE  Others(c) /\ attempt' = attempt
<1>1. FrameType
  BY DEF TypeInv, TypeOK
<1>2. CASE LockStore(c) \/ UnlockStore(c) \/ Relock(c) \/ Release(c)
  BY <1>1, <1>2 DEF LockStore, UnlockStore, Relock, Release, Others, NextStore, Goto, FrameType
<1>3. CASE Prepare(c) \/ Keys(c)
  BY <1>1, <1>3 DEF Prepare, Keys, Others, NextStore, Goto, Raise, Fail, FrameType
<1>4. CASE Record(c) \/ Perform(c) \/ Operate(c)
  BY <1>1, <1>4 DEF Record, Perform, Operate, Others, NextStore, Goto, Raise, Fail, FrameType
<1>5. CASE Rollback(c) \/ Commit(c) \/ CommitFails(c) \/ Announce(c)
  BY <1>1, <1>5 DEF Rollback, Commit, CommitFails, Announce, Others, Goto, Fail, FrameType
<1> QED
  BY <1>2, <1>3, <1>4, <1>5 DEF Step

-----------------------------------------------------------------------------
(* A thread runs at most one save.                                         *)

LEMMA NextFrames ==
  ASSUME NoInterference, TypeInv, FrameInv, [Next]_vars
  PROVE  FrameInv'
<1>1. FrameType
  BY DEF TypeInv, TypeOK
<1>2. ASSUME NEW c \in Context, Begin(c)
      PROVE  FrameInv'
  <2>1. top[ThreadOf[c]] = None
    BY <1>2 DEF Begin, Application, NoInterference
  <2> QED
    BY <1>1, <1>2, <2>1, ConstantFacts, ConstantsAssumption
       DEF Begin, FrameInv, FrameType, ConstantsAssumption
<1>3. ASSUME NEW c \in Context, Release(c)
      PROVE  FrameInv'
  <2>1. below[c] = None /\ pc[c] = "release" /\ top[ThreadOf[c]] = c
    BY <1>3 DEF Release, Running, FrameInv
  <2>2. CASE at[c] < NumStores
    BY <1>1, <1>3, <2>1, <2>2, StepKeepsOthers
       DEF Release, NextStore, FrameInv, FrameType
  <2>3. CASE ~(at[c] < NumStores)
    BY <1>1, <1>3, <2>1, <2>3, ConstantFacts, ConstantsAssumption
       DEF Release, NextStore, FrameInv, FrameType, ConstantsAssumption
  <2> QED
    BY <2>2, <2>3
<1>4. ASSUME NEW c \in Context, Step(c), ~Release(c)
      PROVE  FrameInv'
  <2>1. UNCHANGED <<top, below>>
    BY <1>4 DEF Step, LockStore, Prepare, Keys, Record, Perform, Operate, UnlockStore,
                Relock, Rollback, Commit, CommitFails, Announce
  <2>2. Others(c)
    BY <1>4, StepKeepsOthers
  <2>3. pc[c] # "idle" /\ top[ThreadOf[c]] = c
    BY <1>4 DEF Step, LockStore, Prepare, Keys, Record, Perform, Operate, UnlockStore,
                Relock, Rollback, Commit, CommitFails, Announce, Running
  <2>4. pc'[c] # "idle" /\ (err'[c] => pc'[c] \in {"relock", "finish", "release"})
    <3>1. CASE LockStore(c) \/ UnlockStore(c) \/ Relock(c)
      BY <1>1, <3>1 DEF LockStore, UnlockStore, Relock, Running, NextStore, Goto, FrameInv, FrameType
    <3>2. CASE Prepare(c) \/ Keys(c)
      BY <1>1, <3>2 DEF Prepare, Keys, Running, NextStore, Goto, Raise, Fail, FrameInv, FrameType
    <3>3. CASE Record(c) \/ Perform(c) \/ Operate(c)
      BY <1>1, <3>3 DEF Record, Perform, Operate, Running, NextStore, Goto, Raise, Fail, FrameInv, FrameType
    <3>4. CASE Rollback(c) \/ Commit(c) \/ CommitFails(c) \/ Announce(c)
      BY <1>1, <3>4 DEF Rollback, Commit, CommitFails, Announce, Running, Goto, Fail, FrameInv, FrameType
    <3> QED
      BY <1>4, <3>1, <3>2, <3>3, <3>4 DEF Step
  <2> QED
    BY <2>1, <2>2, <2>3, <2>4 DEF FrameInv, Others
<1>5. ASSUME UNCHANGED frameVars
      PROVE  FrameInv'
  BY <1>5 DEF frameVars, FrameInv
<1>6. ASSUME NEW c \in Context, Edit(c) \/ Revert(c)
      PROVE  FrameInv'
  BY <1>6 DEF Edit, Revert, FrameInv
<1>7. ASSUME NEW t \in Readers, NEW s \in Store, Fetch(t, s)
      PROVE  FrameInv'
  BY <1>5, <1>7 DEF Fetch
<1> QED
  BY <1>2, <1>3, <1>4, <1>5, <1>6, <1>7 DEF Next, vars

LEMMA OneSavePerThread ==
  ASSUME FrameInv, NEW c \in Context, NEW d \in Context \ {c},
         pc[c] # "idle", pc[d] # "idle"
  PROVE  ThreadOf[c] # ThreadOf[d]
BY DEF FrameInv

-----------------------------------------------------------------------------
(* Who owns the save cycle of a store.                                     *)

LEMMA OtherCycles ==
  ASSUME CycleInv, LeaksStay, NEW c \in Context, Others(c), attempt' = attempt,
         NEW d \in Context \ {c}, NEW s \in Store,
         \/ saving'[s] = saving[s] /\ work[s] \subseteq work'[s]
         \/ saving[s] # d
         \/ Leaked(s) /\ owner[s] # ThreadOf[d]
  PROVE  CycleAt(d, s)'
<1>1. (InCycle(d, s)' <=> InCycle(d, s)) /\ (Performed(d, s)' <=> Performed(d, s))
  BY DEF Others, InCycle, Performed
<1>2. err'[d] = err[d] /\ change(d)' = change(d)
  BY DEF Others, change
<1>3. CycleAt(d, s)
  BY DEF CycleInv
<1> QED
  BY <1>1, <1>2, <1>3 DEF CycleAt, LeaksStay

(* A save that holds a store it has prepared is the one the store is in.   *)
LEMMA HeldCycle ==
  ASSUME LockInv, CycleInv, NEW c \in Context, NEW s \in Store,
         Holds(c, s), InCycle(c, s), ~err[c]
  PROVE  saving[s] = c /\ (Performed(c, s) => change(c) \in work[s])
<1>1. owner[s] = ThreadOf[c]
  BY DEF LockInv, Holders
<1>2. CycleAt(c, s)
  BY DEF CycleInv
<1> QED
  BY <1>1, <1>2 DEF CycleAt

(* Steps that leave the stores' save cycles as they are.                   *)
LEMMA WalkKeeps ==
  ASSUME TypeInv, CycleInv, OwnInv, LeaksStay, NEW c \in Context, Others(c),
         UNCHANGED <<attempt, saving, work>>, err'[c] = err[c],
         pc'[c] # "announce",
         \A s \in Store : /\ InCycle(c, s)' <=> InCycle(c, s)
                          /\ Performed(c, s)' => Performed(c, s)
  PROVE  CycleInv' /\ OwnInv'
<1>1. ASSUME NEW s \in Store
      PROVE  CycleAt(c, s)'
  BY DEF CycleInv, CycleAt, LeaksStay, change
<1>2. ASSUME NEW d \in Context \ {c}, NEW s \in Store
      PROVE  CycleAt(d, s)'
  BY OtherCycles
<1>3. ASSUME NEW s \in Store
      PROVE  OwnAt(s)'
  <2>1. \A d \in Context : InCycle(d, s) => InCycle(d, s)'
    BY DEF InCycle, Others
  <2>2. saving[s] \in Context \cup {None}
    BY DEF TypeInv, TypeOK, StoreType
  <2> QED
    BY <2>1, <2>2 DEF OwnInv, OwnAt, change
<1>4. \A d \in Context : pc'[d] = "announce" => work'[at'[d]] = {}
  BY DEF OwnInv, Others
<1> QED
  BY <1>1, <1>2, <1>3, <1>4 DEF CycleInv, OwnInv

(* A save that raises in the first phase leaves every store locked.        *)
LEMMA RaiseLeaks ==
  ASSUME TypeInv, LockInv, NEW c \in Context, InFirstPhase(c), Raise(c), Others(c),
         UNCHANGED lockVars
  PROVE  \A s \in Store : Leaked(s)'
<1> SUFFICES ASSUME NEW s \in Store
             PROVE  Leaked(s)'
  OBVIOUS
<1>1. pc'[c] = "relock"
  BY DEF TypeInv, TypeOK, FrameType, Raise
<1>2. c \in Holders(s) /\ Holders(s)' = Holders(s) \ {c}
  BY <1>1 DEF Holders, Holds, InFirstPhase, Others
<1>3. Cardinality(Holders(s)') = Cardinality(Holders(s)) - 1
  BY <1>2, HoldersFinite, FS_RemoveElement
<1>4. depth'[s] = depth[s] /\ depth[s] \in Nat
  BY DEF lockVars, TypeInv, TypeOK, LockType
<1> QED
  BY <1>3, <1>4, HoldersFinite DEF LockInv, Leaked

LEMMA RaiseKeeps ==
  ASSUME TypeInv, LockInv, FrameInv, CycleInv, OwnInv, LeaksStay,
         NEW c \in Context, InFirstPhase(c), Raise(c), Others(c),
         UNCHANGED <<attempt, saving, lockVars>>,
         \/ UNCHANGED work
         \/ /\ InCycle(c, at[c])
            /\ work' = [work EXCEPT ![at[c]] = @ \cup {change(c)}]
  PROVE  CycleInv' /\ OwnInv'
<1>1. FrameType /\ DatabaseType /\ StoreType
  BY DEF TypeInv, TypeOK
<1>2. pc'[c] = "relock" /\ at'[c] = 1 /\ err'[c]
  BY <1>1 DEF Raise, Fail, FrameType
<1>3. \A s \in Store : InCycle(c, s)'
  BY <1>2 DEF InCycle, Store
<1>4. ASSUME NEW s \in Store
      PROVE  CycleAt(c, s)'
  BY <1>2, RaiseLeaks DEF CycleAt
<1>5. ASSUME NEW d \in Context \ {c}, NEW s \in Store
      PROVE  CycleAt(d, s)'
  <2>1. saving'[s] = saving[s] /\ work[s] \subseteq work'[s]
    BY <1>1 DEF DatabaseType
  <2> QED
    BY <2>1, OtherCycles
<1>6. ASSUME NEW s \in Store
      PROVE  OwnAt(s)'
  <2>1. CASE work'[s] = work[s]
    <3>1. \A d \in Context : InCycle(d, s) => InCycle(d, s)'
      BY <1>3 DEF InCycle, Others
    <3> QED
      BY <1>1, <2>1, <3>1 DEF OwnInv, OwnAt, change, StoreType
  <2>2. CASE work'[s] # work[s]
    <3>1. s = at[c] /\ InCycle(c, s) /\ work'[s] = work[s] \cup {change(c)}
      BY <1>1, <2>2 DEF DatabaseType, FrameType
    <3>2. Holds(c, s) /\ ~err[c]
      BY DEF Holds, InFirstPhase, FrameInv
    <3>3. saving[s] = c
      BY <3>1, <3>2, HeldCycle
    <3> QED
      BY <1>3, <3>1, <3>3, ConstantsAssumption DEF OwnInv, OwnAt, change, ConstantsAssumption
  <2> QED
    BY <2>1, <2>2
<1>7. \A d \in Context : pc'[d] = "announce" => work'[at'[d]] = {}
  <2> SUFFICES ASSUME NEW d \in Context, pc'[d] = "announce"
               PROVE  work'[at'[d]] = {}
    OBVIOUS
  <2>1. d # c /\ pc[d] = "announce" /\ at'[d] = at[d] /\ at[d] \in Store
    BY <1>1, <1>2 DEF Others, FrameType
  <2>2. d \in Holders(at[d]) /\ c \in Holders(at[d])
    BY <2>1 DEF Holders, Holds
  <2>3. ThreadOf[d] = ThreadOf[c]
    BY <2>1, <2>2 DEF LockInv
  <2> QED
    BY <2>1, <2>3, OneSavePerThread DEF InFirstPhase
<1> QED
  BY <1>4, <1>5, <1>6, <1>7 DEF CycleInv, OwnInv

(* While a save holds a store, no other save has one just committed there. *)
LEMMA AnnounceKept ==
  ASSUME TypeInv, LockInv, FrameInv, OwnInv, NEW c \in Context, pc[c] # "idle",
         Holds(c, at[c]), Others(c),
         \A s \in Store \ {at[c]} : work'[s] = work[s],
         pc'[c] = "announce" => at'[c] = at[c] /\ work'[at[c]] = {}
  PROVE  \A d \in Context : pc'[d] = "announce" => work'[at'[d]] = {}
<1> SUFFICES ASSUME NEW d \in Context \ {c}, pc'[d] = "announce"
             PROVE  work'[at'[d]] = {}
  OBVIOUS
<1>1. pc[d] = "announce" /\ at'[d] = at[d] /\ at[d] \in Store /\ work[at[d]] = {}
  BY DEF Others, TypeInv, TypeOK, FrameType, OwnInv
<1>2. ASSUME at[d] = at[c]
      PROVE  FALSE
  <2>1. d \in Holders(at[d]) /\ c \in Holders(at[d])
    BY <1>1, <1>2 DEF Holders, Holds
  <2>2. ThreadOf[d] = ThreadOf[c]
    BY <1>1, <2>1 DEF LockInv
  <2> QED
    BY <1>1, <2>2, OneSavePerThread
<1> QED
  BY <1>1, <1>2

LEMMA NextCycles ==
  ASSUME NoInterference, TypeInv, LockInv, FrameInv, CycleInv, OwnInv, LeaksStay, [Next]_vars
  PROVE  CycleInv' /\ OwnInv'
<1>1. FrameType /\ DatabaseType /\ StoreType
  BY DEF TypeInv, TypeOK
<1>2. ASSUME NEW c \in Context, Step(c)
      PROVE  Others(c) /\ attempt' = attempt
  BY <1>2, StepKeepsOthers
<1>3. ASSUME NEW c \in Context, LockStore(c) \/ UnlockStore(c) \/ Relock(c) \/ Release(c)
      PROVE  CycleInv' /\ OwnInv'
  <2>1. UNCHANGED <<saving, work>> /\ err' = err /\ pc'[c] # "announce"
    BY <1>1, <1>3 DEF LockStore, UnlockStore, Relock, Release, NextStore, Goto,
                      storeVars, dbVars, FrameType
  <2>2. \A s \in Store : InCycle(c, s)' <=> InCycle(c, s)
    <3>1. at[c] \in Store
      BY <1>1 DEF FrameType
    <3> QED
      BY <1>1, <1>3, <3>1, ConstantFacts
         DEF LockStore, UnlockStore, Relock, Release, Running, NextStore, Goto,
             InCycle, FrameType, Store
  <2>3. \A s \in Store : Performed(c, s)' => Performed(c, s)
    <3>1. at[c] \in Store
      BY <1>1 DEF FrameType
    <3> QED
      BY <1>1, <1>3, <3>1, ConstantFacts
         DEF LockStore, UnlockStore, Relock, Release, Running, NextStore, Goto,
             Performed, FrameType, Store
  <2> QED
    BY <1>2, <1>3, <2>1, <2>2, <2>3, WalkKeeps DEF Step
<1>4. ASSUME NEW c \in Context, Prepare(c)
      PROVE  CycleInv' /\ OwnInv'
  <2> DEFINE s == at[c]
  <2>1. Others(c) /\ attempt' = attempt /\ UNCHANGED <<work, lockVars>> /\ s \in Store
    BY <1>1, <1>2, <1>4 DEF Step, Prepare, dbVars, FrameType
  <2>2. CASE Raise(c) /\ UNCHANGED saving
    BY <1>4, <2>1, <2>2, RaiseKeeps DEF Prepare, Running, InFirstPhase
  <2>3. CASE saving[s] = None /\ saving' = [saving EXCEPT ![s] = c] /\ Goto(c, "keys")
    <3>1. /\ pc[c] = "prepare" /\ pc'[c] = "keys" /\ at'[c] = s
          /\ saving'[s] = c /\ \A r \in Store \ {s} : saving'[r] = saving[r]
          /\ s \in Nat
      BY <1>1, <1>4, <2>1, <2>3, ConstantFacts DEF Prepare, Running, Goto, FrameType, StoreType
    <3>2. ~Performed(c, s)' /\ \A r \in Store : ~Performed(c, r)'
      BY <3>1 DEF Performed
    <3>3. \A r \in Store : InCycle(c, r)' <=> InCycle(c, r) \/ r = s
      BY <3>1, ConstantFacts DEF InCycle, Store
    <3>4. ASSUME NEW r \in Store
          PROVE  CycleAt(c, r)'
      <4>1. CASE r = s
        BY <3>1, <3>2, <4>1 DEF CycleAt
      <4>2. CASE r # s
        <5>1. err'[c] = err[c] /\ CycleAt(c, r)
          BY <1>4, <2>3 DEF Prepare, AlreadySaving, CycleInv
        <5> QED
          BY <3>1, <3>2, <3>3, <4>2, <5>1 DEF CycleAt, LeaksStay
      <4> QED
        BY <4>1, <4>2
    <3>5. ASSUME NEW d \in Context \ {c}, NEW r \in Store
          PROVE  CycleAt(d, r)'
      BY <2>1, <2>3, <3>1, OtherCycles, ConstantsAssumption DEF ConstantsAssumption
    <3>6. ASSUME NEW r \in Store
          PROVE  OwnAt(r)'
      <4>1. CASE r = s
        BY <2>1, <2>3, <3>1, <3>3, <4>1, ConstantsAssumption DEF OwnInv, OwnAt, ConstantsAssumption
      <4>2. CASE r # s
        <5>1. \A d \in Context : InCycle(d, r) => InCycle(d, r)'
          BY <2>1, <3>3 DEF InCycle, Others
        <5> QED
          BY <1>1, <2>1, <3>1, <4>2, <5>1 DEF OwnInv, OwnAt, change, StoreType
      <4> QED
        BY <4>1, <4>2
    <3>7. \A d \in Context : pc'[d] = "announce" => work'[at'[d]] = {}
      BY <2>1, <3>1 DEF OwnInv, Others
    <3> QED
      BY <3>4, <3>5, <3>6, <3>7 DEF CycleInv, OwnInv
  <2> QED
    BY <1>4, <2>2, <2>3 DEF Prepare, AlreadySaving
<1>5. ASSUME NEW c \in Context, Keys(c) \/ Record(c) \/ Perform(c)
      PROVE  CycleInv' /\ OwnInv'
  <2>1. Others(c) /\ UNCHANGED <<attempt, saving, work, lockVars>> /\ at[c] \in Store
    BY <1>1, <1>2, <1>5 DEF Step, Keys, Record, Perform, dbVars, storeVars, FrameType
  <2>2. CASE Raise(c)
    BY <1>5, <2>1, <2>2, RaiseKeeps DEF Keys, Record, Perform, Running, InFirstPhase
  <2>3. CASE UNCHANGED err
    <3>1. \/ pc[c] = "keys" /\ NextStore(c, "prepare", "record")
          \/ pc[c] = "record" /\ NextStore(c, "record", "perform")
          \/ pc[c] = "perform" /\ Goto(c, "operate")
      <4>1. ~Raise(c)
        BY <1>1, <1>5, <2>3 DEF Raise, Fail, FrameInv, FrameType, Keys, Record, Perform, Running
      <4> QED
        BY <1>5, <4>1 DEF Keys, Record, Perform, Running
    <3>2. \A r \in Store : InCycle(c, r)' <=> InCycle(c, r)
      BY <1>1, <2>1, <3>1, ConstantFacts DEF NextStore, Goto, InCycle, FrameType, Store
    <3>3. \A r \in Store : Performed(c, r)' => Performed(c, r)
      BY <1>1, <2>1, <3>1, ConstantFacts DEF NextStore, Goto, Performed, FrameType, Store
    <3>4. pc'[c] # "announce"
      BY <1>1, <3>1 DEF NextStore, Goto, FrameType
    <3> QED
      BY <2>1, <2>3, <3>2, <3>3, <3>4, WalkKeeps
  <2> QED
    BY <1>5, <2>2, <2>3 DEF Keys, Record, Perform
<1>6. ASSUME NEW c \in Context, Operate(c)
      PROVE  CycleInv' /\ OwnInv'
  <2> DEFINE s == at[c]
  <2>1. /\ Others(c) /\ UNCHANGED <<attempt, saving, lockVars>> /\ s \in Store
        /\ pc[c] = "operate" /\ ~err[c]
        /\ \A r \in Store : InCycle(c, r) /\ Holds(c, r)
    BY <1>1, <1>2, <1>6
       DEF Step, Operate, Running, storeVars, FrameType, FrameInv, InCycle, Holds, InFirstPhase
  <2>2. CASE Raise(c)
    BY <1>6, <2>1, <2>2, RaiseKeeps DEF Operate, InFirstPhase
  <2>3. CASE /\ work' = [work EXCEPT ![s] = @ \cup {change(c)}]
             /\ NextStore(c, "perform", "unlock")
             /\ UNCHANGED err
    <3>1. \A r \in Store : saving[r] = c /\ (Performed(c, r) => change(c) \in work[r])
      BY <2>1, HeldCycle
    <3>2. /\ work'[s] = work[s] \cup {change(c)}
          /\ \A r \in Store \ {s} : work'[r] = work[r]
      BY <1>1, <2>1, <2>3 DEF DatabaseType
    <3>3. \A r \in Store : InCycle(c, r)' /\ (Performed(c, r)' => Performed(c, r) \/ r = s)
      BY <1>1, <2>1, <2>3, ConstantFacts DEF NextStore, InCycle, Performed, FrameType, Store
    <3>4. ASSUME NEW r \in Store
          PROVE  CycleAt(c, r)'
      BY <2>1, <2>3, <3>1, <3>2, <3>3 DEF CycleAt, change
    <3>5. ASSUME NEW d \in Context \ {c}, NEW r \in Store
          PROVE  CycleAt(d, r)'
      BY <2>1, <3>1, OtherCycles
    <3>6. ASSUME NEW r \in Store
          PROVE  OwnAt(r)'
      BY <2>1, <3>1, <3>2, <3>3, ConstantsAssumption
         DEF OwnInv, OwnAt, change, ConstantsAssumption
    <3>7. pc'[c] # "announce"
      BY <1>1, <2>3 DEF NextStore, FrameType
    <3>8. \A d \in Context : pc'[d] = "announce" => work'[at'[d]] = {}
      BY <2>1, <3>2, <3>7, AnnounceKept
    <3> QED
      BY <3>4, <3>5, <3>6, <3>8 DEF CycleInv, OwnInv
  <2> QED
    BY <1>6, <2>2, <2>3 DEF Operate
<1>7. ASSUME NEW c \in Context, Rollback(c)
      PROVE  CycleInv' /\ OwnInv'
  <2> DEFINE s == at[c]
  <2>1. /\ Others(c) /\ UNCHANGED <<attempt, lockVars, err, at>> /\ s \in Store
        /\ pc[c] = "finish" /\ err[c] /\ pc'[c] = "release"
        /\ Holds(c, s) /\ InCycle(c, s)
    <3>1. Others(c) /\ attempt' = attempt
      BY <1>2, <1>7 DEF Step
    <3>2. /\ UNCHANGED <<lockVars, err, at>> /\ s \in Store
          /\ pc[c] = "finish" /\ err[c] /\ pc' = [pc EXCEPT ![c] = "release"]
      BY <1>1, <1>7 DEF Rollback, Running, Goto, FrameType
    <3>3. Holds(c, s) /\ InCycle(c, s)
      BY <3>2, ConstantFacts DEF Holds, InCycle, Store
    <3> QED
      BY <1>1, <3>1, <3>2, <3>3 DEF FrameType
  <2>2. /\ saving'[s] = None /\ work'[s] = {}
        /\ \A r \in Store \ {s} : saving'[r] = saving[r] /\ work'[r] = work[r]
    <3>1. CASE saving[s] = None
      BY <1>1, <1>7, <2>1, <3>1 DEF Rollback, storeVars, OwnInv, OwnAt
    <3>2. CASE saving[s] # None
      BY <1>1, <1>7, <2>1, <3>2
         DEF Rollback, RollbackChanges, RollbackTransaction, CleanUp, NoInterference,
             StoreType, DatabaseType
    <3> QED
      BY <3>1, <3>2
  <2>3. \A r \in Store : /\ InCycle(c, r)' <=> InCycle(c, r) /\ r # s
                         /\ Performed(c, r)' => Performed(c, r)
    BY <1>1, <2>1, ConstantFacts DEF InCycle, Performed, FrameType, Store
  <2>4. ASSUME NEW r \in Store
        PROVE  CycleAt(c, r)'
    <3>1. CycleAt(c, r)
      BY DEF CycleInv
    <3> QED
      BY <2>1, <2>2, <2>3, <3>1 DEF CycleAt, LeaksStay
  <2>5. ASSUME NEW d \in Context \ {c}, NEW r \in Store
        PROVE  CycleAt(d, r)'
    <3>1. CASE r # s
      BY <2>1, <2>2, <3>1, OtherCycles
    <3>2. CASE r = s /\ saving[s] = d
      <4>1. Leaked(s) /\ owner[s] = ThreadOf[c]
        BY <2>1, <3>2 DEF CycleInv, CycleAt, LockInv, Holders
      <4>2. pc[d] # "idle" /\ pc[c] # "idle"
        BY <2>1, <3>2, ConstantsAssumption DEF OwnInv, OwnAt, InCycle, ConstantsAssumption
      <4> QED
        BY <2>1, <3>2, <4>1, <4>2, OneSavePerThread, OtherCycles
    <3>3. CASE saving[s] # d /\ r = s
      BY <2>1, <3>3, OtherCycles
    <3> QED
      BY <3>1, <3>2, <3>3
  <2>6. ASSUME NEW r \in Store
        PROVE  OwnAt(r)'
    <3>1. CASE r = s
      BY <2>2, <3>1 DEF OwnAt
    <3>2. CASE r # s
      <4>1. \A d \in Context : InCycle(d, r) => InCycle(d, r)'
        BY <2>1, <2>3, <3>2 DEF InCycle, Others
      <4> QED
        BY <1>1, <2>1, <2>2, <3>2, <4>1 DEF OwnInv, OwnAt, change, StoreType
    <3> QED
      BY <3>1, <3>2
  <2>7. \A d \in Context : pc'[d] = "announce" => work'[at'[d]] = {}
    BY <2>1, <2>2, AnnounceKept
  <2> QED
    BY <2>4, <2>5, <2>6, <2>7 DEF CycleInv, OwnInv
<1>8. ASSUME NEW c \in Context, Commit(c)
      PROVE  CycleInv' /\ OwnInv'
  <2> DEFINE s == at[c]
  <2>1. /\ Others(c) /\ UNCHANGED <<attempt, lockVars, err, at, saving>> /\ s \in Store
        /\ pc[c] = "finish" /\ ~err[c] /\ pc'[c] = "announce"
        /\ Holds(c, s) /\ InCycle(c, s)
    <3>1. Others(c) /\ attempt' = attempt
      BY <1>2, <1>8 DEF Step
    <3>2. /\ UNCHANGED <<lockVars, err, at, saving>> /\ s \in Store
          /\ pc[c] = "finish" /\ ~err[c] /\ pc' = [pc EXCEPT ![c] = "announce"]
      BY <1>1, <1>8 DEF Commit, Running, Goto, FrameType, storeVars
    <3>3. Holds(c, s) /\ InCycle(c, s)
      BY <3>2, ConstantFacts DEF Holds, InCycle, Store
    <3> QED
      BY <1>1, <3>1, <3>2, <3>3 DEF FrameType
  <2>2. work'[s] = {} /\ \A r \in Store \ {s} : work'[r] = work[r]
    BY <1>1, <1>8, <2>1 DEF Commit, CommitTransaction, NoInterference, DatabaseType
  <2>3. saving[s] = c
    BY <2>1, HeldCycle
  <2>4. \A r \in Store : /\ InCycle(c, r)' <=> InCycle(c, r)
                         /\ Performed(c, r)' => Performed(c, r) /\ r # s
    BY <1>1, <2>1, ConstantFacts DEF InCycle, Performed, FrameType, Store
  <2>5. ASSUME NEW r \in Store
        PROVE  CycleAt(c, r)'
    <3>1. CycleAt(c, r)
      BY DEF CycleInv
    <3> QED
      BY <2>1, <2>2, <2>4, <3>1 DEF CycleAt, LeaksStay, change
  <2>6. ASSUME NEW d \in Context \ {c}, NEW r \in Store
        PROVE  CycleAt(d, r)'
    BY <2>1, <2>2, <2>3, OtherCycles
  <2>7. ASSUME NEW r \in Store
        PROVE  OwnAt(r)'
    <3>1. \A d \in Context : InCycle(d, r) => InCycle(d, r)'
      BY <2>1, <2>4 DEF InCycle, Others
    <3>2. work'[r] \subseteq work[r]
      BY <2>2
    <3> QED
      BY <1>1, <2>1, <3>1, <3>2 DEF OwnInv, OwnAt, change, StoreType
  <2>8. \A d \in Context : pc'[d] = "announce" => work'[at'[d]] = {}
    BY <2>1, <2>2, AnnounceKept
  <2> QED
    BY <2>5, <2>6, <2>7, <2>8 DEF CycleInv, OwnInv
<1>9. ASSUME NEW c \in Context, CommitFails(c) \/ Announce(c)
      PROVE  CycleInv' /\ OwnInv'
  <2> DEFINE s == at[c]
  <2>1. /\ Others(c) /\ UNCHANGED <<attempt, lockVars, at>> /\ s \in Store
        /\ pc[c] \in {"finish", "announce"} /\ ~err[c] /\ pc'[c] = "release"
        /\ Holds(c, s) /\ InCycle(c, s)
    BY <1>1, <1>2, <1>9, ConstantFacts
       DEF Step, CommitFails, Announce, Running, Goto, FrameType, FrameInv, Holds, InCycle, Store
  <2>2. saving[s] = c /\ c # None
    BY <2>1, HeldCycle, ConstantsAssumption DEF ConstantsAssumption
  <2>3. /\ saving'[s] = None /\ work'[s] = {}
        /\ \A r \in Store \ {s} : saving'[r] = saving[r] /\ work'[r] = work[r]
    <3>1. CASE CommitFails(c)
      BY <1>1, <2>1, <2>2, <3>1
         DEF CommitFails, RollbackChanges, RollbackTransaction, CleanUp, NoInterference,
             StoreType, DatabaseType
    <3>2. CASE Announce(c)
      <4>1. work[s] = {}
        BY <3>2 DEF Announce, Running, OwnInv
      <4> QED
        BY <1>1, <2>1, <3>2, <4>1 DEF Announce, CleanUp, NoInterference, dbVars, StoreType
    <3> QED
      BY <1>9, <3>1, <3>2
  <2>4. \A r \in Store : /\ InCycle(c, r)' <=> InCycle(c, r) /\ r # s
                         /\ Performed(c, r)' => Performed(c, r)
    BY <1>1, <2>1, ConstantFacts DEF InCycle, Performed, FrameType, Store
  <2>5. ASSUME NEW r \in Store
        PROVE  CycleAt(c, r)'
    <3>1. CycleAt(c, r)
      BY DEF CycleInv
    <3> QED
      BY <2>1, <2>3, <2>4, <3>1 DEF CycleAt, LeaksStay, change
  <2>6. ASSUME NEW d \in Context \ {c}, NEW r \in Store
        PROVE  CycleAt(d, r)'
    BY <2>1, <2>2, <2>3, OtherCycles
  <2>7. ASSUME NEW r \in Store
        PROVE  OwnAt(r)'
    <3>1. CASE r = s
      BY <2>3, <3>1 DEF OwnAt
    <3>2. CASE r # s
      <4>1. \A d \in Context : InCycle(d, r) => InCycle(d, r)'
        BY <2>1, <2>4, <3>2 DEF InCycle, Others
      <4> QED
        BY <1>1, <2>1, <2>3, <3>2, <4>1 DEF OwnInv, OwnAt, change, StoreType
    <3> QED
      BY <3>1, <3>2
  <2>8. \A d \in Context : pc'[d] = "announce" => work'[at'[d]] = {}
    BY <2>1, <2>3, AnnounceKept
  <2> QED
    BY <2>5, <2>6, <2>7, <2>8 DEF CycleInv, OwnInv
<1>10. ASSUME NEW c \in Context, Begin(c)
       PROVE  CycleInv' /\ OwnInv'
  <2>1. /\ pc[c] = "idle" /\ pc'[c] = "lock" /\ UNCHANGED <<saving, work>>
        /\ \A d \in Context \ {c} : /\ pc'[d] = pc[d] /\ at'[d] = at[d] /\ err'[d] = err[d]
                                    /\ change(d)' = change(d)
    BY <1>1, <1>10 DEF Begin, storeVars, dbVars, FrameType, change
  <2>2. \A r \in Store : ~InCycle(c, r) /\ ~InCycle(c, r)'
    BY <2>1 DEF InCycle
  <2>3. \A d \in Context \ {c}, r \in Store : InCycle(d, r)' <=> InCycle(d, r)
    BY <2>1 DEF InCycle
  <2>4. \A d \in Context \ {c}, r \in Store : Performed(d, r)' <=> Performed(d, r)
    BY <2>1 DEF Performed
  <2>5. CycleInv'
    BY <2>1, <2>2, <2>3, <2>4 DEF CycleInv, CycleAt, LeaksStay
  <2>6. ASSUME NEW r \in Store
        PROVE  OwnAt(r)'
    <3>1. OwnAt(r) /\ saving[r] # c
      BY <2>2, ConstantsAssumption DEF OwnInv, OwnAt, ConstantsAssumption
    <3> QED
      BY <1>1, <2>1, <2>3, <3>1 DEF OwnAt, StoreType
  <2>7. \A d \in Context : pc'[d] = "announce" => work'[at'[d]] = {}
    BY <2>1 DEF OwnInv
  <2> QED
    BY <2>5, <2>6, <2>7 DEF OwnInv
<1>11. ASSUME UNCHANGED <<pc, at, err, attempt, saving, work, owner, depth>>
       PROVE  CycleInv' /\ OwnInv'
  BY <1>11 DEF CycleInv, CycleAt, OwnInv, OwnAt, InCycle, Performed, change, Leaked,
               Holders, Holds, InFirstPhase
<1>12. ASSUME NEW c \in Context, Edit(c) \/ Revert(c)
       PROVE  CycleInv' /\ OwnInv'
  BY <1>11, <1>12 DEF Edit, Revert, storeVars, dbVars, lockVars
<1>13. ASSUME NEW t \in Readers, NEW s \in Store, Fetch(t, s)
       PROVE  CycleInv' /\ OwnInv'
  BY <1>11, <1>13 DEF Fetch, frameVars, storeVars, lockVars
<1>14. ASSUME UNCHANGED vars
       PROVE  CycleInv' /\ OwnInv'
  BY <1>11, <1>14 DEF vars, frameVars, storeVars, dbVars, lockVars
<1> QED
  BY <1>3, <1>4, <1>5, <1>6, <1>7, <1>8, <1>9, <1>10, <1>12, <1>13, <1>14 DEF Next, Step

-----------------------------------------------------------------------------
(* What the databases hold.                                                *)

CycleFacts == TypeInv /\ LockInv /\ FrameInv /\ CycleInv /\ OwnInv

(* A save commits its own changes, all of them, and nothing else.          *)
LEMMA CommitsItsOwn ==
  ASSUME CycleFacts, NEW c \in Context, pc[c] = "finish", ~err[c]
  PROVE  /\ at[c] \in Store /\ saving[at[c]] = c
         /\ work[at[c]] = {change(c)}
<1>1. at[c] \in Store
  BY DEF CycleFacts, TypeInv, TypeOK, FrameType
<1>2. Holds(c, at[c]) /\ InCycle(c, at[c]) /\ Performed(c, at[c])
  BY <1>1 DEF Holds, InCycle, Performed, Store
<1>3. saving[at[c]] = c /\ change(c) \in work[at[c]]
  BY <1>1, <1>2, HeldCycle DEF CycleFacts
<1> QED
  BY <1>1, <1>3, ConstantsAssumption DEF CycleFacts, OwnInv, OwnAt, ConstantsAssumption

Adds(c) == durable' = [durable EXCEPT ![at[c]] = @ \cup {change(c)}]

LEMMA DurableSteps ==
  ASSUME NoInterference, CycleFacts, NEW c \in Context, Step(c)
  PROVE  /\ Commit(c) => Adds(c)
         /\ CommitFails(c) => durable' = durable \/ ("lostAnswer" \in Faults /\ Adds(c))
         /\ ~Commit(c) /\ ~CommitFails(c) => durable' = durable
<1>1. Commit(c) => Adds(c)
  BY CommitsItsOwn DEF Commit, Running, CommitTransaction, NoInterference, Adds
<1>2. CommitFails(c) => durable' = durable \/ ("lostAnswer" \in Faults /\ Adds(c))
  BY CommitsItsOwn DEF CommitFails, Running, Adds
<1>3. ~Commit(c) /\ ~CommitFails(c) => durable' = durable
  BY DEF Step, LockStore, Prepare, Keys, Record, Perform, Operate, UnlockStore,
         Relock, Rollback, Announce, Release, dbVars
<1> QED
  BY <1>1, <1>2, <1>3

(* The part of ReachInv that speaks of c.                                  *)
ReachAt(c) ==
  /\ pc[c] # "idle" /\ ~err[c] =>
       \A s \in Store : change(c) \in durable[s] <=> Reached(c, s)
  /\ pc[c] # "idle" /\ err[c] /\ "lostAnswer" \notin Faults =>
       \E s \in Store : change(c) \notin durable[s]

LEMMA OthersReach ==
  ASSUME ReachInv, DatabaseType, NEW c \in Context, Others(c), attempt' = attempt,
         at[c] \in Store, durable' = durable \/ Adds(c), NEW d \in Context \ {c}
  PROVE  ReachAt(d)'
<1>1. change(d)' = change(d) /\ change(d) # change(c)
  BY DEF change
<1>2. \A s \in Store : change(d) \in durable'[s] <=> change(d) \in durable[s]
  BY <1>1 DEF Adds, DatabaseType
<1>3. \A s \in Store : Reached(d, s)' <=> Reached(d, s)
  BY DEF Reached, Others
<1> QED
  BY <1>1, <1>2, <1>3 DEF ReachInv, ReachAt, Others

LEMMA NextReach ==
  ASSUME NoInterference, CycleFacts, ReachInv, PastInv, [Next]_vars
  PROVE  ReachInv'
<1>1. FrameType /\ DatabaseType
  BY DEF CycleFacts, TypeInv, TypeOK
<1>2. ASSUME NEW c \in Context, Step(c)
      PROVE  ReachInv'
  <2>1. Others(c) /\ attempt' = attempt /\ at[c] \in Store /\ change(c)' = change(c)
    BY <1>1, <1>2, StepKeepsOthers DEF CycleFacts, FrameType, change
  <2>2. \A d \in Context \ {c} : ReachAt(d)'
    BY <1>1, <1>2, <2>1, DurableSteps, OthersReach
  <2>3. ReachAt(c)
    BY DEF ReachInv, ReachAt
  <2>4. CASE LockStore(c) \/ UnlockStore(c) \/ Relock(c) \/ Release(c)
    <3>1. durable' = durable /\ err' = err /\ pc[c] # "idle"
      BY <2>4 DEF LockStore, UnlockStore, Relock, Release, Running, dbVars
    <3>2. \A s \in Store : pc'[c] # "idle" => (Reached(c, s)' <=> Reached(c, s))
      BY <1>1, <2>1, <2>4, ConstantFacts
         DEF LockStore, UnlockStore, Relock, Release, Running, NextStore, Goto,
             Reached, FrameType, Store
    <3>3. ReachAt(c)'
      BY <2>1, <2>3, <3>1, <3>2 DEF ReachAt
    <3> QED
      BY <2>2, <3>3 DEF ReachInv, ReachAt
  <2>5. CASE Prepare(c) \/ Keys(c) \/ Record(c) \/ Perform(c) \/ Operate(c)
    <3>1. durable' = durable /\ InFirstPhase(c) /\ ~err[c]
      BY <2>5 DEF Prepare, Keys, Record, Perform, Operate, Running, dbVars, InFirstPhase,
                  CycleFacts, FrameInv
    <3>2. \A s \in Store : change(c) \notin durable[s]
      BY <2>3, <3>1 DEF ReachAt, Reached, InFirstPhase
    <3>3. \A s \in Store : err'[c] \/ ~Reached(c, s)'
      <4>1. CASE Raise(c)
        BY <1>1, <4>1 DEF Raise, Fail, FrameType
      <4>2. CASE pc'[c] \in {"keys", "prepare", "record", "perform", "operate", "unlock"}
        BY <4>2 DEF Reached
      <4>3. Raise(c) \/ pc'[c] \in {"keys", "prepare", "record", "perform", "operate", "unlock"}
        BY <1>1, <2>5 DEF Prepare, Keys, Record, Perform, Operate, NextStore, Goto, FrameType
      <4> QED
        BY <4>1, <4>2, <4>3
    <3>4. ReachAt(c)'
      BY <2>1, <3>1, <3>2, <3>3, ConstantFacts DEF ReachAt
    <3> QED
      BY <2>2, <3>4 DEF ReachInv, ReachAt
  <2>6. CASE Rollback(c)
    <3>1. durable' = durable /\ err' = err /\ err[c] /\ pc[c] = "finish"
      BY <2>6 DEF Rollback, Running
    <3>2. ReachAt(c)'
      BY <2>1, <2>3, <3>1 DEF ReachAt
    <3> QED
      BY <2>2, <3>2 DEF ReachInv, ReachAt
  <2>7. CASE Commit(c)
    <3>1. Adds(c) /\ err' = err /\ ~err[c] /\ at' = at /\ pc[c] = "finish" /\ pc'[c] = "announce"
      BY <1>1, <1>2, <2>7, DurableSteps DEF Commit, Running, Goto, FrameType
    <3>2. \A s \in Store : change(c) \in durable'[s] <=> change(c) \in durable[s] \/ s = at[c]
      BY <1>1, <2>1, <3>1 DEF Adds, DatabaseType
    <3>3. \A s \in Store : Reached(c, s)' <=> Reached(c, s) \/ s = at[c]
      BY <2>1, <3>1 DEF Reached, Store
    <3>4. ReachAt(c)'
      BY <2>1, <2>3, <3>1, <3>2, <3>3 DEF ReachAt
    <3> QED
      BY <2>2, <3>4 DEF ReachInv, ReachAt
  <2>8. CASE CommitFails(c)
    <3>1. ~err[c] /\ pc[c] = "finish" /\ err'[c]
      BY <1>1, <2>8 DEF CommitFails, Running, Fail, FrameType
    <3>2. change(c) \notin durable[at[c]]
      BY <2>1, <2>3, <3>1 DEF ReachAt, Reached, Store
    <3>3. durable' = durable \/ "lostAnswer" \in Faults
      BY <1>2, <2>8, DurableSteps
    <3>4. ReachAt(c)'
      BY <2>1, <3>1, <3>2, <3>3 DEF ReachAt
    <3> QED
      BY <2>2, <3>4 DEF ReachInv, ReachAt
  <2>9. CASE Announce(c)
    <3>1. durable' = durable /\ err' = err /\ at' = at /\ pc[c] = "announce" /\ pc'[c] = "release"
      BY <1>1, <2>9 DEF Announce, Running, Goto, NoInterference, dbVars, FrameType
    <3>2. ReachAt(c)'
      BY <2>1, <2>3, <3>1 DEF ReachAt, Reached
    <3> QED
      BY <2>2, <3>2 DEF ReachInv, ReachAt
  <2> QED
    BY <1>2, <2>4, <2>5, <2>6, <2>7, <2>8, <2>9 DEF Step
<1>3. ASSUME NEW c \in Context, Begin(c)
      PROVE  ReachInv'
  <2>1. /\ pc[c] = "idle" /\ pc'[c] = "lock" /\ durable' = durable /\ ~err'[c]
        /\ attempt'[c] = attempt[c] + 1 /\ attempt[c] \in Nat
        /\ \A d \in Context \ {c} : /\ pc'[d] = pc[d] /\ at'[d] = at[d] /\ err'[d] = err[d]
                                    /\ change(d)' = change(d)
    BY <1>1, <1>3, ConstantFacts DEF Begin, dbVars, FrameType, change
  <2>2. change(c)' = <<c, attempt[c] + 1>>
    BY <2>1 DEF change
  <2>3. \A s \in Store : change(c)' \notin durable[s]
    BY <2>1, <2>2 DEF PastInv
  <2>4. ReachAt(c)'
    BY <2>1, <2>3 DEF ReachAt, Reached
  <2>5. ASSUME NEW d \in Context \ {c}
        PROVE  ReachAt(d)'
    <3>1. \A s \in Store : Reached(d, s)' <=> Reached(d, s)
      BY <2>1 DEF Reached
    <3> QED
      BY <2>1, <3>1 DEF ReachInv, ReachAt
  <2> QED
    BY <2>4, <2>5 DEF ReachInv, ReachAt
<1>4. ASSUME UNCHANGED <<pc, at, err, attempt, durable>>
      PROVE  ReachInv'
  BY <1>4 DEF ReachInv, Reached, change
<1>5. ASSUME NEW c \in Context, Edit(c) \/ Revert(c)
      PROVE  ReachInv'
  BY <1>4, <1>5 DEF Edit, Revert, dbVars
<1>6. ASSUME NEW t \in Readers, NEW s \in Store, Fetch(t, s)
      PROVE  ReachInv'
  BY <1>4, <1>6 DEF Fetch, frameVars
<1>7. ASSUME UNCHANGED vars
      PROVE  ReachInv'
  BY <1>4, <1>7 DEF vars, frameVars, dbVars
<1> QED
  BY <1>2, <1>3, <1>5, <1>6, <1>7 DEF Next

LEMMA NextPast ==
  ASSUME NoInterference, CycleFacts, ReachInv, PastInv, [Next]_vars
  PROVE  PastInv'
<1>1. FrameType /\ DatabaseType /\ acked \subseteq Change /\ refused \subseteq Change
  BY DEF CycleFacts, TypeInv, TypeOK
<1>2. /\ \A s \in Store : durable[s] \subseteq Change
      /\ \A ch \in Change : ch[1] \in Context /\ ch[2] \in Nat
      /\ \A c \in Context : attempt[c] \in Nat
  BY <1>1, ConstantFacts DEF DatabaseType, FrameType, Change
<1>3. ASSUME NEW c \in Context, Step(c)
      PROVE  PastInv'
  <2>1. Others(c) /\ attempt' = attempt /\ at[c] \in Store /\ pc[c] # "idle"
    <3>1. pc[c] # "idle"
      BY <1>3 DEF Step, LockStore, Prepare, Keys, Record, Perform, Operate, UnlockStore,
                  Relock, Rollback, Commit, CommitFails, Announce, Release, Running
    <3> QED
      BY <1>1, <1>3, <3>1, StepKeepsOthers DEF CycleFacts, FrameType
  <2>2. \A s \in Store : durable'[s] \subseteq durable[s] \cup {change(c)}
    BY <1>1, <1>3, <2>1, DurableSteps DEF Adds, DatabaseType
  <2>3. change(c)[1] = c /\ change(c)[2] = attempt[c]
    BY DEF change
  <2>4. \A s \in Store : \A ch \in durable'[s] : ch[2] <= attempt'[ch[1]]
    BY <1>2, <2>1, <2>2, <2>3 DEF PastInv
  <2>5. \/ acked' \cup refused' = acked \cup refused
        \/ pc'[c] = "idle" /\ acked' \cup refused' = acked \cup refused \cup {change(c)}
    <3>1. CASE Release(c)
      BY <1>1, <3>1, ConstantFacts DEF Release, NextStore, FrameType
    <3>2. CASE ~Release(c)
      BY <1>3, <3>2 DEF Step, LockStore, Prepare, Keys, Record, Perform, Operate, UnlockStore,
                  Relock, Rollback, Commit, CommitFails, Announce, history
    <3> QED
      BY <3>1, <3>2
  <2>6. ASSUME NEW ch \in acked' \cup refused'
        PROVE  /\ ch[2] <= attempt'[ch[1]]
               /\ ch[2] = attempt'[ch[1]] => pc'[ch[1]] = "idle"
    <3>1. CASE ch \in acked \cup refused
      <4>1. ch[1] \in Context /\ ch[2] <= attempt[ch[1]]
            /\ (ch[2] = attempt[ch[1]] => pc[ch[1]] = "idle")
        BY <1>1, <1>2, <3>1 DEF PastInv
      <4> QED
        BY <2>1, <4>1 DEF Others
    <3>2. CASE ch = change(c) /\ pc'[c] = "idle"
      BY <1>2, <2>1, <2>3, <3>2
    <3> QED
      BY <2>5, <2>6, <3>1, <3>2
  <2> QED
    BY <2>4, <2>6 DEF PastInv
<1>4. ASSUME NEW c \in Context, Begin(c)
      PROVE  PastInv'
  <2>1. /\ durable' = durable /\ acked' = acked /\ refused' = refused
        /\ attempt'[c] = attempt[c] + 1
        /\ \A d \in Context \ {c} : pc'[d] = pc[d] /\ attempt'[d] = attempt[d]
    BY <1>1, <1>4 DEF Begin, dbVars, history, FrameType
  <2>2. \A s \in Store : \A ch \in durable'[s] : ch[2] <= attempt'[ch[1]]
    <3> SUFFICES ASSUME NEW s \in Store, NEW ch \in durable[s]
                 PROVE  ch[2] <= attempt'[ch[1]]
      BY <2>1
    <3>1. ch[1] \in Context /\ ch[2] \in Nat /\ attempt[ch[1]] \in Nat /\ ch[2] <= attempt[ch[1]]
      BY <1>2 DEF PastInv
    <3> QED
      BY <2>1, <3>1
  <2>3. ASSUME NEW ch \in acked \cup refused
        PROVE  /\ ch[2] <= attempt'[ch[1]]
               /\ ch[2] = attempt'[ch[1]] => pc'[ch[1]] = "idle"
    <3>1. /\ ch[1] \in Context /\ ch[2] \in Nat /\ attempt[ch[1]] \in Nat
          /\ ch[2] <= attempt[ch[1]]
          /\ (ch[2] = attempt[ch[1]] => pc[ch[1]] = "idle")
      BY <1>1, <1>2 DEF PastInv
    <3> QED
      BY <2>1, <3>1
  <2> QED
    BY <2>1, <2>2, <2>3 DEF PastInv
<1>5. ASSUME UNCHANGED <<pc, attempt, durable, acked, refused>>
      PROVE  PastInv'
  BY <1>5 DEF PastInv
<1>6. ASSUME NEW c \in Context, Edit(c) \/ Revert(c)
      PROVE  PastInv'
  BY <1>5, <1>6 DEF Edit, Revert, dbVars, history
<1>7. ASSUME NEW t \in Readers, NEW s \in Store, Fetch(t, s)
      PROVE  PastInv'
  BY <1>5, <1>7 DEF Fetch, frameVars, history
<1>8. ASSUME UNCHANGED vars
      PROVE  PastInv'
  BY <1>5, <1>8 DEF vars, frameVars, dbVars, history
<1> QED
  BY <1>3, <1>4, <1>6, <1>7, <1>8 DEF Next

-----------------------------------------------------------------------------
(* The theorems.                                                           *)

LEMMA InitCommit == Init => CommitInv
<1> SUFFICES ASSUME Init
             PROVE  CommitInv
  OBVIOUS
<1>1. FrameInv
  BY ConstantFacts, ConstantsAssumption DEF Init, FrameInv, ConstantsAssumption
<1>2. CycleInv /\ OwnInv
  BY DEF Init, CycleInv, CycleAt, InCycle, OwnInv, OwnAt
<1>3. ReachInv /\ PastInv
  BY DEF Init, ReachInv, PastInv
<1> QED
  BY <1>1, <1>2, <1>3 DEF CommitInv

LEMMA NextCommit ==
  ASSUME NoInterference, TypeInv, LockInv, CommitInv, [Next]_vars
  PROVE  (TypeInv /\ LockInv /\ CommitInv)'
<1>1. TypeInv' /\ LockInv' /\ LeaksStay
  BY NextType, NextLocks
<1>2. FrameInv' /\ CycleInv' /\ OwnInv'
  BY <1>1, NextFrames, NextCycles DEF CommitInv
<1>3. ReachInv' /\ PastInv'
  BY NextReach, NextPast DEF CommitInv, CycleFacts
<1> QED
  BY <1>1, <1>2, <1>3 DEF CommitInv

LEMMA CommitInvariant ==
  ASSUME NoInterference
  PROVE  Spec => [](TypeInv /\ LockInv /\ CommitInv)
<1>1. Init => TypeInv /\ LockInv /\ CommitInv
  BY InitType, InitLocks, InitCommit
<1>2. (TypeInv /\ LockInv /\ CommitInv) /\ [Next]_vars => (TypeInv /\ LockInv /\ CommitInv)'
  BY NextCommit
<1> QED
  BY <1>1, <1>2, PTL DEF Spec

(* Between the two phases of a save, when the coordinator has unlocked the *)
(* stores, no other save gets its rows into the open transaction.          *)
THEOREM TransactionsAreOwned ==
  ASSUME NoInterference
  PROVE  Spec => []TransactionOwnership
<1>1. CommitInv => TransactionOwnership
  BY DEF CommitInv, OwnInv, OwnAt, TransactionOwnership
<1> QED
  BY <1>1, CommitInvariant, PTL

LEMMA CommitRefines ==
  ASSUME NoInterference, TypeInv, LockInv, CommitInv, [Next]_vars
  PROVE  [Committed!Next]_<<durable, acked, refused>>
<1> SUFFICES ASSUME ~UNCHANGED <<durable, acked, refused>>
             PROVE  Committed!Next
  OBVIOUS
<1>1. FrameType /\ DatabaseType /\ CycleFacts
  BY DEF TypeInv, TypeOK, CommitInv, CycleFacts
<1>2. PICK c \in Context : Step(c)
  BY DEF Next, vars, Edit, Revert, Begin, Fetch, dbVars, history
<1>3. at[c] \in Store /\ Store = Committed!Store /\ ReachAt(c)
  BY <1>1 DEF FrameType, Store, Committed!Store, CommitInv, ReachInv, ReachAt
<1>4. ASSUME pc[c] # "idle"
      PROVE  change(c) \in Change /\ change(c) \notin acked \cup refused
  <2>1. change(c)[1] = c /\ change(c)[2] = attempt[c]
    BY DEF change
  <2> QED
    BY <1>1, <1>4, <2>1, ChangeType DEF TypeInv, Started, CommitInv, PastInv
<1>5. ASSUME pc[c] = "finish", ~err[c], Adds(c), UNCHANGED <<acked, refused>>
      PROVE  Committed!Next
  <2>1. change(c) \notin durable[at[c]]
    BY <1>3, <1>5 DEF ReachAt, Reached, Store
  <2>2. \A r \in Store : r < at[c] => change(c) \in durable[r]
    BY <1>3, <1>5 DEF ReachAt, Reached
  <2>3. Committed!CommitStore(change(c), at[c])
    BY <1>3, <1>4, <1>5, <2>1, <2>2 DEF Committed!CommitStore, Committed!InProgress, Adds
  <2> QED
    BY <1>3, <1>4, <1>5, <2>3 DEF Committed!Next
<1>6. CASE Commit(c)
  <2>1. pc[c] = "finish" /\ ~err[c] /\ UNCHANGED <<acked, refused>> /\ Adds(c)
    BY <1>1, <1>2, <1>6, DurableSteps DEF Commit, Running, history
  <2> QED
    BY <1>5, <2>1
<1>7. CASE CommitFails(c)
  <2>1. pc[c] = "finish" /\ ~err[c] /\ UNCHANGED <<acked, refused>>
    BY <1>7 DEF CommitFails, Running, history
  <2>2. Adds(c)
    BY <1>1, <1>2, <1>7, <2>1, DurableSteps
  <2> QED
    BY <1>5, <2>1, <2>2
<1>8. CASE Release(c)
  <2>1. pc[c] = "release" /\ durable' = durable
    BY <1>8 DEF Release, Running, dbVars
  <2>2. ~(at[c] < NumStores)
    BY <1>8, <2>1 DEF Release
  <2>3. CASE err[c]
    <3>1. refused' = refused \cup {change(c)} /\ acked' = acked
      BY <1>8, <2>2, <2>3 DEF Release
    <3>2. "lostAnswer" \in Faults \/ \E s \in Store : change(c) \notin durable[s]
      BY <1>3, <2>1, <2>3 DEF ReachAt
    <3>3. Committed!Refuse(change(c))
      BY <1>3, <1>4, <2>1, <3>1, <3>2 DEF Committed!Refuse, Committed!InProgress
    <3> QED
      BY <1>4, <2>1, <3>3 DEF Committed!Next
  <2>4. CASE ~err[c]
    <3>1. acked' = acked \cup {change(c)} /\ refused' = refused
      BY <1>8, <2>2, <2>4 DEF Release
    <3>2. \A s \in Store : change(c) \in durable[s]
      BY <1>3, <2>1, <2>2, <2>4, ConstantFacts DEF ReachAt, Reached, Store
    <3>3. Committed!Return(change(c))
      BY <1>3, <1>4, <2>1, <3>1, <3>2 DEF Committed!Return, Committed!InProgress
    <3> QED
      BY <1>4, <2>1, <3>3 DEF Committed!Next
  <2> QED
    BY <2>3, <2>4
<1>9. CASE ~Commit(c) /\ ~CommitFails(c) /\ ~Release(c)
  BY <1>2, <1>9 DEF Step, LockStore, Prepare, Keys, Record, Perform, Operate, UnlockStore,
                Relock, Rollback, Announce, dbVars, history
<1> QED
  BY <1>6, <1>7, <1>8, <1>9

(* The coordinator keeps its promise to the databases: each save is        *)
(* committed store by store in the order of _objectStores, alone in its    *)
(* transaction; it returns only when every store has it, and nothing of it *)
(* is committed after it has raised.                                       *)
THEOREM SavesCommitInOrder ==
  ASSUME NoInterference
  PROVE  Spec => CommittedInOrder
<1>1. Init => Committed!Init
  BY DEF Init, Committed!Init, Store, Committed!Store
<1>2. (TypeInv /\ LockInv /\ CommitInv) /\ [Next]_vars
        => [Committed!Next]_<<durable, acked, refused>>
  BY CommitRefines
<1> QED
  BY <1>1, <1>2, CommitInvariant, PTL DEF Spec, CommittedInOrder, Committed!Spec

(* No database commits anything of a save that has raised: what a failed   *)
(* phase leaves in a transaction or among the operations is not carried    *)
(* into the next save's commit.                                            *)
THEOREM RefusedSavesStayRefused ==
  ASSUME NoInterference
  PROVE  Spec => RefusedStaysRefused
<1>1. ASSUME TypeInv, LockInv, CommitInv, [Next]_vars
      PROVE  [\A s \in Store : (durable'[s] \ durable[s]) \cap refused = {}]_vars
  <2> SUFFICES ASSUME NEW s \in Store
               PROVE  (durable'[s] \ durable[s]) \cap refused = {}
    OBVIOUS
  <2>1. DatabaseType /\ Store = Committed!Store
    BY <1>1 DEF TypeInv, TypeOK, Store, Committed!Store
  <2>2. [Committed!Next]_<<durable, acked, refused>>
    BY <1>1, CommitRefines
  <2>3. CASE UNCHANGED durable
    BY <2>3
  <2>4. ASSUME NEW ch \in Change, NEW r \in Store, Committed!CommitStore(ch, r)
        PROVE  (durable'[s] \ durable[s]) \cap refused = {}
    BY <2>1, <2>4 DEF Committed!CommitStore, Committed!InProgress, DatabaseType
  <2>5. ASSUME NEW ch \in Change, Committed!Return(ch) \/ Committed!Refuse(ch)
        PROVE  UNCHANGED durable
    BY <2>5 DEF Committed!Return, Committed!Refuse
  <2> QED
    BY <2>1, <2>2, <2>3, <2>4, <2>5 DEF Committed!Next
<1> QED
  BY <1>1, CommitInvariant, PTL DEF Spec, RefusedStaysRefused

(* A save that has returned is durable in every database.                  *)
THEOREM AckedSavesAreDurable ==
  ASSUME NoInterference
  PROVE  Spec => []AckedDurable
<1>1. Init => AckedDurable
  BY DEF Init, AckedDurable
<1>2. ASSUME TypeInv, LockInv, CommitInv, AckedDurable, [Next]_vars
      PROVE  AckedDurable'
  <2>1. DatabaseType
    BY <1>2 DEF TypeInv, TypeOK
  <2>2. [Committed!Next]_<<durable, acked, refused>>
    BY <1>2, CommitRefines
  <2>3. Store = Committed!Store
    BY DEF Store, Committed!Store
  <2>4. ASSUME NEW ch \in Change, NEW s \in Store, Committed!CommitStore(ch, s)
        PROVE  AckedDurable'
    BY <1>2, <2>1, <2>4 DEF Committed!CommitStore, AckedDurable, DatabaseType
  <2>5. ASSUME NEW ch \in Change, Committed!Return(ch) \/ Committed!Refuse(ch)
        PROVE  AckedDurable'
    BY <1>2, <2>3, <2>5 DEF Committed!Return, Committed!Refuse, AckedDurable
  <2> QED
    BY <1>2, <2>2, <2>3, <2>4, <2>5 DEF Committed!Next, AckedDurable
<1> QED
  BY <1>1, <1>2, CommitInvariant, PTL DEF Spec

(* Without a fetch that slips in between the two phases, the snapshots     *)
(* that later updates are locked against are committed rows.               *)
THEOREM SnapshotsAreCommitted ==
  ASSUME NoInterference, Readers = {}
  PROVE  Spec => []SnapshotsCommitted
<1>1. Init => SnapshotsCommitted
  BY DEF Init, SnapshotsCommitted
<1>2. ASSUME TypeInv, LockInv, CommitInv, SnapshotsCommitted, [Next]_vars
      PROVE  SnapshotsCommitted'
  <2>1. FrameType /\ DatabaseType /\ CycleFacts
    BY <1>2 DEF TypeInv, TypeOK, CommitInv, CycleFacts
  <2>2. ASSUME NEW c \in Context, Commit(c)
        PROVE  SnapshotsCommitted'
    <3>1. at[c] \in Store /\ saving[at[c]] = c /\ Adds(c)
      BY <2>1, <2>2, CommitsItsOwn, DurableSteps DEF Commit, Running, Step
    <3>2. cache' = [cache EXCEPT ![at[c]] = @ \cup {change(c)}]
      BY <2>2, <3>1 DEF Commit
    <3> QED
      BY <1>2, <2>1, <3>1, <3>2 DEF Adds, SnapshotsCommitted, DatabaseType
  <2>3. ASSUME NEW c \in Context, Step(c), ~Commit(c)
        PROVE  SnapshotsCommitted'
    <3>1. cache' = cache
      BY <2>3 DEF Step, LockStore, Prepare, Keys, Record, Perform, Operate, UnlockStore,
                  Relock, Rollback, CommitFails, Announce, Release, dbVars
    <3>2. \A s \in Store : durable[s] \subseteq durable'[s]
      BY <2>1, <2>3, DurableSteps DEF Adds, DatabaseType
    <3> QED
      BY <1>2, <3>1, <3>2 DEF SnapshotsCommitted
  <2>4. ASSUME UNCHANGED <<cache, durable>>
        PROVE  SnapshotsCommitted'
    BY <1>2, <2>4 DEF SnapshotsCommitted
  <2>5. ASSUME NEW c \in Context, Edit(c) \/ Revert(c) \/ Begin(c)
        PROVE  UNCHANGED <<cache, durable>>
    BY <2>5 DEF Edit, Revert, Begin, dbVars
  <2>6. ~ \E t \in Readers, s \in Store : Fetch(t, s)
    OBVIOUS
  <2>7. ASSUME UNCHANGED vars
        PROVE  UNCHANGED <<cache, durable>>
    BY <2>7 DEF vars, dbVars
  <2> QED
    BY <1>2, <2>2, <2>3, <2>4, <2>5, <2>6, <2>7 DEF Next
<1> QED
  BY <1>1, <1>2, CommitInvariant, PTL DEF Spec
=============================================================================
