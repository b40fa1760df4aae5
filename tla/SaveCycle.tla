------------------------------ MODULE SaveCycle ------------------------------
(***************************************************************************)
(* Saving an editing context through an EOObjectStoreCoordinator.          *)
(*                                                                         *)
(* The coordinator drives its cooperating object stores (one               *)
(* EODatabaseContext per database, numbered here in the order of           *)
(* _objectStores) through two phases.  First it locks every store and      *)
(* sends each prepareForSaveWithCoordinator:editingContext:, then          *)
(* recordChangesInEditingContext, then performChanges, and unlocks them.   *)
(* Then, store by store, it locks, sends commitChanges (rollbackChanges    *)
(* after an exception) and unlocks.  Saves run on several threads, and a   *)
(* delegate or an observer that a store calls in the middle of a save may  *)
(* save another editing context on the same thread.                        *)
(*                                                                         *)
(* A change <<c, k>> stands for all the row changes of the k-th            *)
(* saveChanges of the editing context c in one store.                      *)
(***************************************************************************)
EXTENDS Integers, FiniteSets

CONSTANTS
  Context,      \* editing contexts; each has objects in every store
  Thread,       \* threads
  ThreadOf,     \* the thread an editing context is used on
  NumStores,    \* number of cooperating stores
  MaxSaves,     \* bound: saves per editing context
  Faults,       \* what the environment may make fail (see FaultKinds)
  Callbacks,    \* where application code may save another context
  Readers,      \* threads that fetch while others save
  None

Store == 1 .. NumStores
Change == Context \X (1 .. MaxSaves)

FaultKinds == {"prepare", "record", "perform", "commit", "lostAnswer",
               "veto", "rollback", "announce"}

(* Where a store calls a delegate or an observer in the middle of a save:  *)
(* newPrimaryKeyForObject:, willOrder/willPerformAdaptorOperations and the *)
(* notifications of a commit.                                              *)
CallbackPoints == {"keys", "operate", "announce"}

ASSUME ConstantsAssumption ==
  /\ ThreadOf \in [Context -> Thread]
  /\ IsFiniteSet(Context)
  /\ NumStores \in Nat \ {0}
  /\ MaxSaves \in Nat
  /\ Faults \subseteq FaultKinds
  /\ Callbacks \subseteq CallbackPoints
  /\ Readers \subseteq Thread
  /\ None \notin Context
  /\ None \notin Thread

VARIABLES
  pc,       \* step of the save an editing context is in
  at,       \* store the coordinator's loop has reached
  err,      \* the coordinator holds an exception
  attempt,  \* how many saves the editing context has started
  pending,  \* unsaved changes of the editing context
  gid,      \* global ID of the context's object in each store
  top,      \* innermost save running on a thread
  below,    \* the save in whose callback this one was started
  owner,    \* thread that holds the store's recursive lock
  depth,    \* and how many times
  saving,   \* EODatabaseContext savingContext
  local,    \* snapshots (and forgetSnapshots) are allocated
  ops,      \* whose changes databaseOperations holds
  txn,      \* EOAdaptorContext openTransaction
  work,     \* row changes of the open transaction
  durable,  \* row changes the database has committed
  cache,    \* row changes the EODatabase snapshots reflect
  acked,    \* saves that returned
  refused   \* saves that raised

frameVars == <<pc, at, err, attempt, pending, top, below>>
lockVars  == <<owner, depth>>
storeVars == <<saving, local, ops>>
dbVars    == <<txn, work, durable, cache>>
history   == <<acked, refused>>
vars == <<frameVars, gid, lockVars, storeVars, dbVars, history>>

Steps == {"idle", "lock", "prepare", "keys", "record", "perform", "operate",
          "unlock", "relock", "finish", "announce", "release"}

FrameType ==
  /\ pc \in [Context -> Steps]
  /\ at \in [Context -> Store]
  /\ err \in [Context -> BOOLEAN]
  /\ attempt \in [Context -> 0 .. MaxSaves]
  /\ pending \in [Context -> {"none", "insert", "update"}]
  /\ top \in [Thread -> Context \cup {None}]
  /\ below \in [Context -> Context \cup {None}]

KeyType == gid \in [Context -> [Store -> {"temporary", "keyed", "permanent"}]]

LockType ==
  /\ owner \in [Store -> Thread \cup {None}]
  /\ depth \in [Store -> Nat]

StoreType ==
  /\ saving \in [Store -> Context \cup {None}]
  /\ local \in [Store -> BOOLEAN]
  /\ ops \in [Store -> Context \cup {None}]

DatabaseType ==
  /\ txn \in [Store -> BOOLEAN]
  /\ work \in [Store -> SUBSET Change]
  /\ durable \in [Store -> SUBSET Change]
  /\ cache \in [Store -> SUBSET Change]

(* Every variable has its type, whatever fails and whatever delegates do.  *)
TypeOK ==
  /\ FrameType
  /\ KeyType
  /\ LockType
  /\ StoreType
  /\ DatabaseType
  /\ acked \subseteq Change
  /\ refused \subseteq Change

Init ==
  /\ pc = [c \in Context |-> "idle"]
  /\ at = [c \in Context |-> 1]
  /\ err = [c \in Context |-> FALSE]
  /\ attempt = [c \in Context |-> 0]
  /\ pending = [c \in Context |-> "none"]
  /\ gid = [c \in Context |-> [s \in Store |-> "permanent"]]
  /\ top = [t \in Thread |-> None]
  /\ below = [c \in Context |-> None]
  /\ owner = [s \in Store |-> None]
  /\ depth = [s \in Store |-> 0]
  /\ saving = [s \in Store |-> None]
  /\ local = [s \in Store |-> FALSE]
  /\ ops = [s \in Store |-> None]
  /\ txn = [s \in Store |-> FALSE]
  /\ work = [s \in Store |-> {}]
  /\ durable = [s \in Store |-> {}]
  /\ cache = [s \in Store |-> {}]
  /\ acked = {}
  /\ refused = {}

-----------------------------------------------------------------------------
(* Control of the coordinator's loops.                                     *)

change(c) == <<c, attempt[c]>>

(* The innermost save of its thread, at step p: the only one that runs.    *)
Running(c, p) == pc[c] = p /\ top[ThreadOf[c]] = c

(* Application code runs on thread t: outside any save, or in a callback.  *)
Application(t) == top[t] # None => pc[top[t]] \in Callbacks

Goto(c, p) ==
  /\ pc' = [pc EXCEPT ![c] = p]
  /\ UNCHANGED at

(* Faulty variants, named after what goes wrong, precede the definitions   *)
(* they replace; no specification uses them.                               *)
NextStoreOffByOne(c, p, q) ==
  IF at[c] <= NumStores
  THEN /\ pc' = [pc EXCEPT ![c] = p]
       /\ at' = [at EXCEPT ![c] = @ + 1]
  ELSE /\ pc' = [pc EXCEPT ![c] = q]
       /\ at' = [at EXCEPT ![c] = 1]

(* One store done: the next one at step p, or step q for the first store.  *)
NextStore(c, p, q) ==
  IF at[c] < NumStores
  THEN /\ pc' = [pc EXCEPT ![c] = p]
       /\ at' = [at EXCEPT ![c] = @ + 1]
  ELSE /\ pc' = [pc EXCEPT ![c] = q]
       /\ at' = [at EXCEPT ![c] = 1]

FailUnnoticed(c) == UNCHANGED err

(* exception = [localException retain]                                     *)
Fail(c) == err' = [err EXCEPT ![c] = TRUE]

(* NS_HANDLER: keep the exception and go to the second phase.  The         *)
(* unlocking loop is skipped.                                              *)
Raise(c) ==
  /\ Fail(c)
  /\ pc' = [pc EXCEPT ![c] = "relock"]
  /\ at' = [at EXCEPT ![c] = 1]

AcquireUnchecked(t, s) ==
  /\ owner' = [owner EXCEPT ![s] = t]
  /\ depth' = [depth EXCEPT ![s] = @ + 1]

AcquireOnce(t, s) ==
  /\ owner[s] = None
  /\ owner' = [owner EXCEPT ![s] = t]
  /\ depth' = [depth EXCEPT ![s] = @ + 1]

(* The store's lock is an NSRecursiveLock.                                 *)
Acquire(t, s) ==
  /\ owner[s] \in {None, t}
  /\ owner' = [owner EXCEPT ![s] = t]
  /\ depth' = [depth EXCEPT ![s] = @ + 1]

Free(s) ==
  /\ depth[s] > 0
  /\ depth' = [depth EXCEPT ![s] = @ - 1]
  /\ owner' = [owner EXCEPT ![s] = IF depth[s] = 1 THEN None ELSE @]

-----------------------------------------------------------------------------
(* The editing context outside a save.                                     *)

(* The user inserts or modifies objects of c.                              *)
Edit(c) ==
  /\ pc[c] = "idle" /\ Application(ThreadOf[c])
  /\ pending[c] = "none" /\ attempt[c] < MaxSaves
  /\ \E kind \in {"insert", "update"} :
       /\ pending' = [pending EXCEPT ![c] = kind]
       /\ gid' = [gid EXCEPT ![c] = [s \in Store |->
                   IF kind = "insert" THEN "temporary" ELSE "permanent"]]
  /\ UNCHANGED <<pc, at, err, attempt, top, below,
                 lockVars, storeVars, dbVars, history>>

(* revert: the changes are dropped without a save.                         *)
Revert(c) ==
  /\ pc[c] = "idle" /\ Application(ThreadOf[c])
  /\ pending[c] # "none"
  /\ pending' = [pending EXCEPT ![c] = "none"]
  /\ UNCHANGED <<pc, at, err, attempt, top, below, gid,
                 lockVars, storeVars, dbVars, history>>

(* A thread fetches (or fires a fault) with the store locked: the rows are *)
(* read on the connection of the open transaction and become the           *)
(* EODatabase snapshots.                                                   *)
Fetch(t, s) ==
  /\ Application(t)
  /\ owner[s] \in {None, t}
  /\ cache[s] # durable[s] \cup work[s]
  /\ cache' = [cache EXCEPT ![s] = durable[s] \cup work[s]]
  /\ UNCHANGED <<frameVars, gid, lockVars, storeVars, txn, work, durable, history>>

-----------------------------------------------------------------------------
(* The first phase.                                                        *)

Begin(c) ==
  LET t == ThreadOf[c] IN
  /\ pc[c] = "idle" /\ Application(t)
  /\ pending[c] # "none" /\ attempt[c] < MaxSaves
  /\ attempt' = [attempt EXCEPT ![c] = @ + 1]
  /\ err' = [err EXCEPT ![c] = FALSE]
  /\ below' = [below EXCEPT ![c] = top[t]]
  /\ top' = [top EXCEPT ![t] = c]
  /\ pc' = [pc EXCEPT ![c] = "lock"]
  /\ at' = [at EXCEPT ![c] = 1]
  /\ UNCHANGED <<pending, gid, lockVars, storeVars, dbVars, history>>

LockStore(c) ==
  /\ Running(c, "lock")
  /\ Acquire(ThreadOf[c], at[c])
  /\ NextStore(c, "lock", "prepare")
  /\ UNCHANGED <<err, attempt, pending, top, below, gid, storeVars, dbVars, history>>

AlreadySavingUnchecked(s) == FALSE

AlreadySaving(s) == saving[s] # None

(* prepareForSaveWithCoordinator:editingContext: up to the first call of   *)
(* the delegate.                                                           *)
Prepare(c) ==
  LET s == at[c] IN
  /\ Running(c, "prepare")
  /\ \/ /\ AlreadySaving(s)
        /\ Raise(c)
        /\ UNCHANGED saving
     \/ /\ ~AlreadySaving(s)
        /\ saving' = [saving EXCEPT ![s] = c]
        /\ Goto(c, "keys")
        /\ UNCHANGED err
  /\ UNCHANGED <<attempt, pending, top, below, gid, lockVars, local, ops,
                 dbVars, history>>

(* The rest of it: primary keys for the inserted objects, kept in their    *)
(* temporary global IDs, then the local snapshots.                         *)
Keys(c) ==
  LET s == at[c]
      keyed == IF pending[c] = "insert" /\ gid[c][s] = "temporary"
               THEN [gid EXCEPT ![c][s] = "keyed"] ELSE gid
  IN
  /\ Running(c, "keys")
  /\ \/ /\ ~local[s]
        /\ gid' = keyed
        /\ local' = [local EXCEPT ![s] = TRUE]
        /\ NextStore(c, "prepare", "record")
        /\ UNCHANGED err
     \/ /\ local[s]               \* nesting transactions are not supported
        /\ gid' = keyed
        /\ Raise(c)
        /\ UNCHANGED local
     \/ /\ "prepare" \in Faults
        /\ gid' \in {gid, keyed}
        /\ Raise(c)
        /\ UNCHANGED local
  /\ UNCHANGED <<attempt, pending, top, below, lockVars, saving, ops, dbVars, history>>

(* recordChangesInEditingContext                                           *)
Record(c) ==
  LET s == at[c] IN
  /\ Running(c, "record")
  /\ \/ /\ saving[s] = None        \* _assertSaving:
        /\ Raise(c)
        /\ UNCHANGED ops
     \/ /\ saving[s] # None
        /\ ops' = [ops EXCEPT ![s] = saving[s]]
        /\ \/ NextStore(c, "record", "perform") /\ UNCHANGED err
           \/ "record" \in Faults /\ Raise(c)
  /\ UNCHANGED <<attempt, pending, top, below, gid, lockVars, saving, local,
                 dbVars, history>>

(* performChanges: the adaptor operations are built, the delegate may      *)
(* reorder or replace them ...                                             *)
Perform(c) ==
  LET s == at[c] IN
  /\ Running(c, "perform")
  /\ \/ /\ saving[s] = None
        /\ Raise(c)
     \/ /\ saving[s] # None
        /\ Goto(c, "operate")
        /\ UNCHANGED err
  /\ UNCHANGED <<attempt, pending, top, below, gid, lockVars, storeVars,
                 dbVars, history>>

(* ... and they are performed, in the open transaction if there is one.    *)
(* A row inserted again under its old primary key is rejected.             *)
Operate(c) ==
  LET s == at[c]
      added == [work EXCEPT ![s] = @ \cup {change(c)}]
      duplicate == pending[c] = "insert" /\ gid[c][s] = "permanent"
  IN
  /\ Running(c, "operate")
  /\ \/ /\ ~duplicate
        /\ txn' = [txn EXCEPT ![s] = TRUE]
        /\ work' = added
        /\ NextStore(c, "perform", "unlock")
        /\ UNCHANGED err
     \/ /\ "perform" \in Faults \/ duplicate
        /\ \/ UNCHANGED <<txn, work>>                  \* beginTransaction raised
           \/ /\ txn' = [txn EXCEPT ![s] = TRUE]       \* an operation raised
              /\ work' \in {work, added}
        /\ Raise(c)
  /\ UNCHANGED <<attempt, pending, top, below, gid, lockVars, storeVars,
                 durable, cache, history>>

UnlockStore(c) ==
  /\ Running(c, "unlock")
  /\ Free(at[c])
  /\ NextStore(c, "unlock", "relock")
  /\ UNCHANGED <<err, attempt, pending, top, below, gid, storeVars, dbVars, history>>

-----------------------------------------------------------------------------
(* The second phase.                                                       *)

Relock(c) ==
  /\ Running(c, "relock")
  /\ Acquire(ThreadOf[c], at[c])
  /\ Goto(c, "finish")
  /\ UNCHANGED <<err, attempt, pending, top, below, gid, storeVars, dbVars, history>>

CleanUpKeepsSnapshots(s) ==
  /\ saving' = [saving EXCEPT ![s] = None]
  /\ ops' = [ops EXCEPT ![s] = None]
  /\ UNCHANGED local

(* _cleanUpTransactions                                                    *)
CleanUp(s) ==
  /\ saving' = [saving EXCEPT ![s] = None]
  /\ local' = [local EXCEPT ![s] = FALSE]
  /\ ops' = [ops EXCEPT ![s] = None]

RollbackTransactionSkipped(s) == UNCHANGED <<txn, work>>

(* rollbackTransaction, when a transaction is open.  When the adaptor      *)
(* fails to roll back the transaction stays open.                          *)
RollbackTransaction(s) ==
  \/ /\ txn' = [txn EXCEPT ![s] = FALSE]
     /\ work' = [work EXCEPT ![s] = {}]
  \/ /\ txn[s] /\ "rollback" \in Faults
     /\ UNCHANGED <<txn, work>>

ClearNewGlobalIDsSkipped(s) == UNCHANGED gid

(* _clearNewGlobalIDs: the saving context's objects lose their new keys.   *)
ClearNewGlobalIDs(s) ==
  LET d == saving[s] IN
  gid' = IF gid[d][s] = "keyed" THEN [gid EXCEPT ![d][s] = "temporary"] ELSE gid

(* rollbackChanges, in a save cycle.                                       *)
RollbackChanges(s) ==
  /\ RollbackTransaction(s)
  /\ ClearNewGlobalIDs(s)
  /\ CleanUp(s)

Rollback(c) ==
  LET s == at[c] IN
  /\ Running(c, "finish") /\ err[c]
  /\ \/ saving[s] = None /\ UNCHANGED <<txn, work, gid, storeVars>>
     \/ saving[s] # None /\ RollbackChanges(s)
  /\ Goto(c, "release")
  /\ UNCHANGED <<err, attempt, pending, top, below, lockVars, durable, cache, history>>

CommitTransactionSkipped(s) == UNCHANGED <<txn, work, durable>>

CommitTransaction(s) ==
  /\ durable' = [durable EXCEPT ![s] = @ \cup work[s]]
  /\ work' = [work EXCEPT ![s] = {}]
  /\ txn' = [txn EXCEPT ![s] = FALSE]

(* commitChanges: the adaptor commits, then the snapshots of the saving    *)
(* context go to the EODatabase.                                           *)
Commit(c) ==
  LET s == at[c] IN
  /\ Running(c, "finish") /\ ~err[c] /\ saving[s] # None
  /\ \/ CommitTransaction(s)
     \/ /\ "veto" \in Faults     \* the adaptor returns without committing
        /\ UNCHANGED <<txn, work, durable>>
  /\ cache' = [cache EXCEPT ![s] = @ \cup {change(saving[s])}]
  /\ Goto(c, "announce")
  /\ UNCHANGED <<err, attempt, pending, top, below, gid, lockVars, storeVars, history>>

(* commitTransaction raises, perhaps after the database did commit:        *)
(* commitChanges rolls back and raises.                                    *)
CommitFails(c) ==
  LET s == at[c] IN
  /\ Running(c, "finish") /\ ~err[c]
  /\ \/ /\ saving[s] = None        \* _assertSaving:
        /\ UNCHANGED <<gid, storeVars, txn, work, durable>>
     \/ /\ saving[s] # None /\ txn[s]
        /\ \/ "commit" \in Faults /\ UNCHANGED durable
           \/ "lostAnswer" \in Faults /\ durable' = [durable EXCEPT ![s] = @ \cup work[s]]
        /\ RollbackChanges(s)
  /\ Fail(c)
  /\ Goto(c, "release")
  /\ UNCHANGED <<attempt, pending, top, below, lockVars, cache, history>>

(* The notifications of a commit: the editing contexts replace the         *)
(* temporary global IDs, then the save cycle of the store is over.  An     *)
(* observer that raises ends commitChanges on the spot.                    *)
Announce(c) ==
  LET s == at[c] IN
  /\ Running(c, "announce")
  /\ \/ /\ gid' = IF pending[c] = "insert"
                  THEN [gid EXCEPT ![c][s] = "permanent"] ELSE gid
        /\ CleanUp(s)
        /\ UNCHANGED err
     \/ /\ "announce" \in Faults
        /\ Fail(c)
        /\ UNCHANGED <<gid, storeVars>>
  /\ Goto(c, "release")
  /\ UNCHANGED <<attempt, pending, top, below, lockVars, dbVars, history>>

(* The store is unlocked; after the last one the exception is raised again *)
(* or the editing context forgets the changes it has saved.                *)
Release(c) ==
  /\ Running(c, "release")
  /\ Free(at[c])
  /\ NextStore(c, "relock", "idle")
  /\ IF at[c] < NumStores
     THEN UNCHANGED <<pending, top, below, acked, refused>>
     ELSE /\ top' = [top EXCEPT ![ThreadOf[c]] = below[c]]
          /\ below' = [below EXCEPT ![c] = None]
          /\ IF err[c]
             THEN /\ refused' = refused \cup {change(c)}
                  /\ UNCHANGED <<pending, acked>>
             ELSE /\ acked' = acked \cup {change(c)}
                  /\ pending' = [pending EXCEPT ![c] = "none"]
                  /\ UNCHANGED refused
  /\ UNCHANGED <<err, attempt, gid, storeVars, dbVars>>

-----------------------------------------------------------------------------
Step(c) ==
  \/ LockStore(c) \/ Prepare(c) \/ Keys(c) \/ Record(c) \/ Perform(c)
  \/ Operate(c) \/ UnlockStore(c) \/ Relock(c) \/ Rollback(c) \/ Commit(c)
  \/ CommitFails(c) \/ Announce(c) \/ Release(c)

Next ==
  \/ \E c \in Context : Edit(c) \/ Revert(c) \/ Begin(c) \/ Step(c)
  \/ \E t \in Readers, s \in Store : Fetch(t, s)

Spec == Init /\ [][Next]_vars

(* A thread in saveChanges keeps running.                                  *)
FairSpec == Spec /\ \A c \in Context : WF_vars(Step(c))

-----------------------------------------------------------------------------
(* What the save cycle promises.                                           *)

(* A save that returned is durable in every store: commitChanges of no     *)
(* store failed and none was skipped.                                      *)
AckedDurable == \A ch \in acked, s \in Store : ch \in durable[s]

(* What a save that raised has not committed is never committed later, on  *)
(* the back of another save's transaction.                                 *)
RefusedStaysRefused ==
  [][\A s \in Store : (durable'[s] \ durable[s]) \cap refused = {}]_vars

(* The EODatabase snapshots, which later updates are compared with and     *)
(* locked against, reflect committed rows only.                            *)
SnapshotsCommitted == \A s \in Store : cache[s] \subseteq durable[s]

(* A store outside a save cycle has no local snapshots, no operations and  *)
(* no transaction, and no cycle outlives the save it belongs to: the next  *)
(* prepareForSave finds the store ready.                                   *)
NoResidue ==
  \A s \in Store :
    /\ saving[s] = None => ~local[s] /\ ops[s] = None /\ ~txn[s] /\ work[s] = {}
    /\ saving[s] # None => pc[saving[s]] # "idle"

(* A primary key handed out for a save that failed is taken back: no       *)
(* object waits outside a save with a key that no row has.                 *)
KeysSettled ==
  \A c \in Context, s \in Store : pc[c] = "idle" => gid[c][s] # "keyed"

(* The open transaction of a store in a save cycle holds the changes of    *)
(* the saving context's current save and nobody else's, also while the     *)
(* coordinator has the stores unlocked between its two phases.             *)
TransactionOwnership ==
  \A s \in Store : saving[s] # None => work[s] \subseteq {change(saving[s])}

InFirstPhase(c) == pc[c] \in {"prepare", "keys", "record", "perform", "operate"}

(* Saves of two threads are never between prepareForSave and the end of    *)
(* performChanges at the same time.                                        *)
FirstPhaseExclusive ==
  \A c, d \in Context :
    InFirstPhase(c) /\ InFirstPhase(d) => ThreadOf[c] = ThreadOf[d]

(* The databases see each save store by store, in the coordinator's order, *)
(* alone in its transaction, and nothing of it after it has raised.        *)
Committed == INSTANCE CommittedSaves WITH LostAnswers <- "lostAnswer" \in Faults
CommittedInOrder == Committed!Spec

(* Every saveChanges returns or raises.                                    *)
EverySaveReturns == \A c \in Context : pc[c] # "idle" ~> pc[c] = "idle"

(* After saveChanges, whether it returned or raised, the thread holds no   *)
(* store ("unlock the stores").                                            *)
LocksReleased ==
  \A s \in Store : owner[s] # None => top[owner[s]] # None
=============================================================================
