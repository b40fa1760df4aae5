# A verification of ajrdatabase

ajrdatabase is an Objective-C object-relational framework after Apple's
Enterprise Objects Framework (EOF): editing contexts hold objects, an object
store coordinator distributes their changes over database contexts, and these
turn them into SQL on database connections.  This directory holds TLA+ models
of the parts that decide whether data survives, the TLC runs that check them on
small instances, and proofs of their main properties.

To repeat the work:

    tlc -workers 2 -config MCSaveSolo.cfg MCSaveCycle     # one run
    tlapm SaveCommitProofs.tla                            # one proof module

`PROJECT.json` lists the components, the runs with their properties, the source
lines every definition stands for, one faulty variant of the code per property
(`mutants`: the property must then fail), the findings and the hazards.

## The system

| component | state it keeps | operations | talks to |
| --- | --- | --- | --- |
| `EOEditingContext` | objects by global ID, `updatedQueue`/`insertedQueue`/`deletedQueue` of recent changes, `updatedObjects`/`insertedObjects`/`deletedObjects`, an undo manager, a lock count, `isValidating` | insert, delete, `objectWillChange:`, `processRecentChanges`, `saveChanges`, revert, refault, invalidate, undo, lock | its parent object store (calls), other contexts (notifications), the observer center (callbacks) |
| nested editing context | the same, its parent is another context | `saveChangesInEditingContext:` of the parent takes the child's changes | parent and child, by notification |
| `EOObjectStoreCoordinator` | `_objectStores` in order, its lock | drives the two phases of a save; routes fetches, faults and invalidations to a store | every `EOCooperatingObjectStore` |
| `EODatabaseContext` | `savingContext`, `databaseOperations`, stacks of local snapshots, `forgetSnapshots`, channels, a recursive lock | `prepareForSave…`, `recordChanges…`, `performChanges`, `commitChanges`, `rollbackChanges`, fetch, fault, refault, invalidate | its `EODatabase`, its `EOAdaptorContext`, delegates, the saving context |
| `EODatabase` | reference-counted row snapshots shared by all contexts, to-many snapshots, time stamps | record, forget, increment, decrement | nobody |
| `EOAdaptorContext`, `EOAdaptorChannel` | `openTransaction`, the connection, a fetch in progress | begin, commit, rollback, insert, update, delete, select | the database client library |
| global IDs | class name and key values; a temporary ID carries its permanent one once it is known | equality, hash, `setTempGlobalID:` | editing and database contexts |
| faults | the handler of an object not yet fetched | fire on any message, refault, deallocate | the store that created them |
| observer center | observers of an object, a process-wide suppression count | add, remove, notify, suppress | editing contexts |
| qualifiers, sort orderings | none | parse, evaluate, compare | fetches |
| model (entities, attributes, relationships), SQL generation | metadata | read, generate text | adaptors |
| display groups, associations, EOModeler | user interface state | selection, editing | editing contexts |

What is hard about it:

* **Several databases, no two-phase commit.**  A save reaches the databases one
  after the other; any of them may refuse, and in each of three places an
  exception may cut a phase short.
* **The stores are unlocked in the middle of a save**, between
  `performChanges` and `commitChanges`, with their transactions open.
* **Callbacks.**  Delegates and notification observers run inside a save, on
  the same thread, and the locks are recursive.
* **One snapshot for all contexts.**  What one context fetches changes what
  another context's next update is compared with and locked against.
* **Reference counts kept by hand**, incremented and decremented in different
  classes.
* **Notifications between contexts** that refault or forget the objects of the
  receiver, whatever the receiver was doing with them.
* **Process-wide state**: the observer suppression count.

What makes each component correct is stated in the sections below for the parts
that are modelled; the others are under "Not modelled".

## Module `SaveCycle`: saving through several databases

| state | in the code |
| --- | --- |
| `pc`, `at`, `err` | where `-[EOObjectStoreCoordinator saveChangesInEditingContext:]` stands: step, index into `_objectStores`, its variable `exception` |
| `top`, `below` | the call stack of a thread, as far as it consists of saves |
| `attempt`, `pending` | how often a context has called `saveChanges`, and what it has to save |
| `gid` | the temporary global ID of an inserted object: without a key, with the key of a save in progress, replaced |
| `owner`, `depth` | the `NSRecursiveLock` of each database context |
| `saving`, `local`, `ops` | `savingContext`, the local snapshot stack, `databaseOperations` |
| `txn`, `work` | `openTransaction` and the rows of the open transaction |
| `durable`, `cache` | rows committed in the database; rows the `EODatabase` snapshots reflect |
| `acked`, `refused` | history: saves that returned, saves that raised |

The actions follow the coordinator's loops in order: `Begin`, `LockStore`,
`Prepare`, `Keys`, `Record`, `Perform`, `Operate`, `UnlockStore`, then per store
`Relock`, `Commit`/`CommitFails`/`Rollback`, `Announce`, `Release`.  A handler is
split where application code runs inside it (`Prepare`/`Keys` at
`newPrimaryKeyForObject:`, `Perform`/`Operate` at the delegate's
`willPerformAdaptorOperations:`, `Commit`/`Announce` at the notifications), since
another save may start there.  `Edit` and `Revert` are the application; `Fetch`
is another thread that reads rows on whichever connection `availableChannel`
hands it.  `Faults` says what the environment may make fail, `Callbacks` where
application code may save again, `Readers` which threads fetch.

All row changes of one save in one store are one value `<<context, attempt>>`;
the rows themselves are the subject of `SharedRow`.

`CommittedSaves` is what the save promises, seen from the databases: each save
commits store by store, in the coordinator's order, alone in its transaction;
it returns only when it is committed everywhere, and after it has raised nothing
more of it is committed.  `SaveCycle` implements it (`CommittedInOrder`) with the
identity on `durable`, `acked` and `refused` as refinement mapping.

### Runs

| run | instance | shows |
| --- | --- | --- |
| `MCSaveSolo` | 2 contexts on one thread, 2 stores, failing operations, a callback may save at each of the three places | saves within saves disturb each other, but `TypeOK`, `AckedDurable` and `SnapshotsCommitted` still hold, and every save returns (`EverySaveReturns`) |
| `MCSaveThreads` | 2 contexts on 2 threads, 2 stores, 2 saves each, a reader; failures of every phase, lost commit answers | `AckedDurable`, `RefusedStaysRefused` (what a save that raised left unwritten is never committed later), `TransactionOwnership` (a transaction never carries another save's rows, also while the stores are unlocked), `FirstPhaseExclusive` (the stores' locks keep first phases apart), `NoResidue` (a finished cycle leaves nothing for the next one to trip over), `KeysSettled` (a failed save's keys are gone before it is tried again), and the refinement (`CommittedInOrder`) |

Two stores are enough for every question about order ("committed in the first,
not in the second"), two saves per context for every question about what a
failed save leaves to the next one, two contexts for interference.

The runs switch deadlock checking off: contexts stop after `MaxSaves` saves, and
a leaked lock (first finding) really does block.

*Fairness.*  `FairSpec` has weak fairness on the steps of each context's save: a
thread inside `saveChanges` keeps running.  Nothing is assumed of the
application, which need not start a save, nor of the lock's queueing.

### Findings

* `MCSaveLocks`.  An exception in the first phase jumps over the loop under the
  comment `// unlock the stores` (EOObjectStoreCoordinator.m:206).  Two threads
  that save at the same time are enough, no database has to fail: the second
  finds the first between its phases, raises, keeps the locks, and the first
  waits for them for ever.  (This is why `EverySaveReturns` is checked with one
  thread: there the leaked locks are recursive and harm nobody.)

Further divergences that the model has and no run is kept for:

* After a `rollbackTransaction` that raised, the transaction stays open
  (EODatabaseContext.m:2402), and the next save joins and commits it:
  `RefusedStaysRefused` with `"rollback"` in `Faults`.
* The second save of `MCSaveLocks` also sends `rollbackChanges` to the store,
  which ends the first save's cycle and transaction.
* A fetch between the phases runs on the connection of the open transaction
  (`availableChannel` does not look at threads) and caches rows that may be
  rolled back: `SnapshotsCommitted` with a thread in `Readers`.
* A commit refused by `adaptorContextShouldCommit:` is taken for a commit:
  `SnapshotsCommitted`, `AckedDurable` and `NoResidue` with `"veto"` in `Faults`.

### Proofs

`SaveCycleProofs` proves, for any number of contexts, threads, stores and saves
and for every fault and callback:

* `TypeCorrect`: `[]TypeOK`.  `TypeOK` alone is not inductive, since
  `<<c, attempt[c]>>` is a `Change` only once `c` has started a save, so the
  induction runs over `TypeInv`.
* `FirstPhaseIsExclusive`: `[]FirstPhaseExclusive`, from `LockInv`.  The depth of
  a recursive lock says nothing about who counted it, so `LockInv` relates it
  to the set of saves that hold the store: the depth is at least their number
  (more, once locks have leaked), and they all belong to the owner's thread.

`SaveCommitProofs` proves, assuming `NoInterference` (no reentrant saves, no
vetoes, no failing rollbacks or observers; the findings show what happens
otherwise):

* `TransactionsAreOwned`, `SavesCommitInOrder` (the refinement: every step maps
  to a step of `CommittedSaves` or to a stutter), `AckedSavesAreDurable`,
  `RefusedSavesStayRefused`, and, without concurrent readers, `SnapshotsAreCommitted`.

The inductive invariant is `CommitInv`.  Its heart is `CycleInv`: a save keeps the
stores it has prepared until it comes back to them, unless another save has
found it there; that one has then left its locks behind (`Leaked`), and a save
that does not own them never gets as far as to commit.  `OwnInv`, `ReachInv` and
`PastInv` relate the transaction, the databases and the outcome to the position
of the save.

`SaveResidueProofs` proves, under the same assumption, `SavesLeaveNoResidue`
(`[]NoResidue`) and `KeysAreSettled` (`[]KeysSettled`).  They follow from `ResidueInv`:
a store outside a cycle is clean, its transaction is over before its cycle is,
and a key that waits for its row belongs to the insertion that the store saves.
That the cycle of every store in it ends with the save is `CommitInv`'s part.

Left to TLC: `EverySaveReturns` (liveness), and everything under reentrant saves.


## Module `SharedRow`: one row, several editing contexts

| state | in the code |
| --- | --- |
| `row` | the row in the database; `None` once it is deleted |
| `snap` | the entry of the `EODatabase` snapshot dictionary: the row and its reference count |
| `obj`, `values` | what a context has for the row's global ID (nothing, a fault, an object), and the object's values |
| `queued` | whether it is in `updatedQueue`, `deletedQueue` |
| `tracked` | whether it is in `updatedObjects`, `deletedObjects` |
| `saver` | the context inside `saveChanges` |
| `edits`, `erase`, `seen`, `outcome` | history: what the application has changed or deleted and neither saved nor given up, the row the object was last loaded from or saved as, and how the last save ended |

Each operation of a context is one action: `Fetch` (a new object or a fault),
`Refresh` (with `refreshesObjects`), `CreateFault`, `Fire`, `Edit`, `Delete`,
`HasChanges` (which is `processRecentChanges`), `Revert`, `Refault`,
`Invalidate`, `Release` (deallocation).  A save is two actions: `BeginSave` up to
the object store, and `StoreSave` (or `StoreSaveUnknown`, when there is no snapshot), since
another program may write the row in between (`ClientWrites`).  All contexts are
used by one thread; saves on several threads are the subject of `SaveCycle`.

Most of what goes wrong here goes through two things.  `Notify` is
`EOObjectsChangedInStoreNotification`: whoever processes changes, saved or not,
makes every other context refault or forget its object.  `Recorded`, `Retained`
and `Released` are the snapshot dictionary: every fetch replaces the row that
the next update of every context is diffed and locked against.

### Runs

| run | instance | shows |
| --- | --- | --- |
| `MCRowSolo` | 1 context, 2 attributes, 3 writes, other programs write, commits fail; everything but `revert` and releasing faults | `SavedIsStored`, `UpdatesBasedOnRow`, `RefusedOnlyWhenStale` (no optimistic locking failure without a reason), and the inductive `SnapshotIsSeen` |
| `MCRowShared` | 2 contexts, 2 attributes, 2 writes, nobody else writes | `CacheCoherent`, `ObjectsHoldSnapshot`, `UpdatesBasedOnRow` |
| `MCRowHostile` | 2 contexts, every operation, failing commits, no row counts, nobody else writes | `TypeOK`, and the inductive `Reachable` and `SnapshotCurrent` |
| `MCRowTold` | 2 contexts that edit and save the same object, nothing else | a finding |

Two attributes are what it takes to tell "overwrites the other's attribute" from
"writes its own"; values only have to differ, so each write takes the next number and
`MaxValue` bounds the writes, not the data.  Two contexts are one that acts and
one that is told.  Two objects hold two references, and up to four when both were
fetched over faults, which count twice; `MaxRefs` (3 or 4) cuts off histories
that refault and fire for ever, which only add references.  The runs switch deadlock checking off, since a behaviour may use up its
values, and no property needs fairness.

### Findings

* `MCRowTold`.  A context that is told of another's save loses its own unsaved
  changes of the object.  `_processChangedObjects:` means to keep them: it takes the
  differences between the object and `[object snapshot]`, refaults the object and
  applies the differences again.  But that snapshot is built from the object's own
  current values (EOEditingContext.m:190), so there are no differences, and the object
  leaves the change trackers as if it had not been changed.  The comment at
  EOEditingContext.m:155 says that the method was modified "to correctly re-apply
  changes made in this context to those made in the notifying context".
  (`hasChanges` in one context, which notifies as well, does the same to the others.)

### Divergences

What else the code does against its comments, or against what its callers must
expect; each is one counterexample away when the run is given the constants
named here.

* Deleting an object while another context has an unfired fault for it saves
  nothing and says nothing: `processRecentChanges` makes the other context
  forget the fault, which gives back a reference to the snapshot that it never
  took, and `_recordDeleteForObject:` (EODatabaseContext.m:1573) finds no
  snapshot.  `SavedIsStored` with two contexts, `"fault"` and `"delete"`.
* A fault or a fetch in one context moves the snapshot under the edits of
  another (EOObjectFaultHandler.m:193), which then overwrites another program's
  write.  `UpdatesBasedOnRow` with two contexts and `Clients`.
* With SQLite and OpenBase, which do not look at the number of rows an UPDATE
  hit, a failed optimistic lock goes unnoticed: `SavedIsStored` with
  `CountsRows = FALSE` (SQLiteChannel.m:498).
* An edited, then deleted object cannot be saved: its own UPDATE makes its
  DELETE fail the lock (EOAdaptorOperation.m:134 sorts them); this is why
  `RefusedOnlyWhenStale` leaves out objects in both trackers.
* `revert` leaves the changed values in the object and forgets that they are
  changed (EOEditingContext.m:1177): `CacheCoherent` with `"revert"` in `Uses`.
* The reference count goes down for faults that never counted (EOFault.m:205):
  `ObjectsHoldSnapshot` with `"releaseFault"`.  It goes up without coming down
  for objects that are refaulted (EODatabaseContext.m:644), so that a snapshot
  can outlive all objects.

### Proofs

`SharedRowProofs` proves, for any contexts and attributes and all values of the
other constants:

* `TypeCorrect` (`[]TypeOK`) and `ReachableAlways` (`[]Reachable`), together
  (`TypeInv`): that a save writes a row, and not the `None` of a deleted one, needs
  the fact that a deletion reaches the object of every context, and that only an
  object with changes is saved.

`SharedRowSnapshotProofs` proves

* without other programs: `SnapshotStaysCurrent` and `ContextsUpdateTheirRow`,
  from `CurrentInv` (the snapshot is the row, and so is what each object has
  seen).  The heart is that a save whose snapshot is current writes exactly the
  object's row, which is what `commitChanges` records, and that nobody else
  keeps an object through it.
* with a single context, and other programs that write what they like:
  `OwnSnapshotIsSeen` and `NoWriteIsLost`, from `OwnInv`.  A second
  context breaks it, see above.
* without deletions and released faults: `SnapshotOutlivesObjects`, from
  `CountInv`.  What a deletion does to the counts of unfired faults, see above,
  is why those are excluded; the proof counts objects with the theorems on finite sets.

* with a single context that does not revert (see above for what a revert does):
  `SavesRefusedForCause` and, if the adaptor counts rows, `SavesStoreChanges`, from `KeptInv`.  An object is what was loaded overlaid with the
  edits, and the trackers know of them.  That each edit differs from what was loaded
  (`Clocked`: a new value is one that was written nowhere) is what makes rowDiffs find it.
* without other programs, deletions, reverts and released faults, for any number of
  contexts: `UnchangedObjectsAreCoherent`, from `CoherentInv`.

So every property the passing runs check of this module is proved, under these
assumptions, for any number of attributes and values.

### What it leaves out

Rows do not interact in it: no insertions, relationships or primary key changes;
the updates it saves are of known rows.  Rows are not deleted by other programs,
so a fault without a row comes only from a deletion in the contexts themselves,
and `Fire` needs a row.  Pessimistic locking and time stamps are not modelled.
All attributes are used for locking.

## Module `EditingContext`: what a context tracks, and what a save asks

The model has two kinds of objects, masters and details.  A detail has a to-one
relationship to a master, its only value; each master's inverse to-many has a
delete rule of its own (`Rule`).

| state | in the code |
| --- | --- |
| `db` | the rows, in a database without other users |
| `ctx.values`, `ctx.objects`, `ctx.gone` | the objects' values, which are registered, which of them the application has deleted |
| `ctx.queued` | `updatedQueue`, `insertedQueue`, `deletedQueue` |
| `ctx.tracked` | `updatedObjects`, `insertedObjects`, `deletedObjects` |
| `ctx.cache` | `insertedCache`, the answer of `insertedObjects`; empty is invalid |
| `validating` | `isValidating` |
| `phase`, `pass`, `todo` | where `saveChanges` is: its step, the dictionary it enumerates, the objects in it that have not been called |
| `invalid` | the exception that `sendValidateMethods` collects |
| `told` | history: the objects called in this step and unchanged since |

An operation of the context is an operator from the context before to the
context after (`Edited`, `Inserted`, `Enqueued`, `Deleted`, `Processed`, `Peeked`,
`Forgotten`), since the application calls the same operations in two places:
between saves (`Edit`, `Insert`, `Delete`, `HasChanges`, `Peek`) and out of the
methods a save calls (`Call`: `prepareFor…`, `validateFor…`, `objectDidSave`).  The
latter is what makes the save hard: the callbacks change the dictionaries that
the save goes through.  `Save`, `Call`, `CallRaises`, `NextTracked`, `NextQueued`,
`Prepared`, `Validated`, `StoreWrites`, `StoreRefuses` and `Finish` are
`saveChanges`, in steps that end where application code may run.

`UnitOfWork` is what the context promises: the application changes its view at
will, also while a save runs, and a save that gets as far as to write makes the
database equal to the view of one moment, in one step.  `SavesAsUnit` says that
`EditingContext` implements it; the mapping takes the values of the objects that are
registered and not deleted for the view, and the phases for the state of the save.

### Runs

| run | instance | shows |
| --- | --- | --- |
| `MCEditing` | 2 masters (one nullifies, one cascades; one of them stored, one new), 1 stored detail; callbacks edit, insert and delete; validation errors that raise or are only presented, vetoes, exceptions, a store that refuses | `ChangesTracked` (the trackers know exactly the differences between the application's view and the rows), `NoDanglingReference`, `EveryoneAsked` (every changed object is called after its last change, in each round), the refinement `SavesAsUnit`, `SaveReturns`, and the proofs' invariant `ContextInv` |
| `MCEditingRefused` | 1 master, 1 detail, validation errors | a finding |

One master with a row and one without make every transition of an object
possible (insert, save, delete, uninsert), for either rule and in combination: a
detail may move from a new master to an old one in a callback of the third object.
With the second master new or a second detail instead of it the same
properties hold.

*Fairness.*  `FairSpec` has weak fairness on the steps of a save: a thread in
`saveChanges` keeps running and the methods it calls return.  `SaveReturns` needs
`Chained = FALSE`: callbacks of objects that callbacks have changed change nothing
more.  Otherwise two objects can keep each other changed for ever, which is the
application's doing.

### Findings

* `MCEditingRefused`.  The exception that reports validation errors leaves
  `sendValidateMethods` before `isValidating` is reset, and nothing else resets
  it: from then on `insertObject:` and `deleteObject:` raise.

Further divergences that the model has and no run is kept for:

* With `Chained`, a callback of an object in a queue adds to the queue that is being
  enumerated and then emptied: objects that the comment at EOEditingContext.m:954
  promises another `prepareForUpdate` get none (`EveryoneAsked`), or the
  enumerator raises in the middle (`ChangesTracked`).
* A deletion that the rule `"deny"` refuses raises after the object has been
  queued (EOEditingContext.m:1329): the next save deletes it if its members are
  gone by then, although the application has kept it (`SavesAsUnit`).
* `insertedObjects` caches its answer, and `deleteObject:` does not invalidate the
  cache: asked in between, the save inserts what has been deleted (`SavesAsUnit`
  with `"peek"`).
* An exception, or an insertion or deletion, in `objectDidSave` comes after the
  commit: the trackers still hold the changes of that save, and later changes of
  the same objects are dropped or repeated (`ChangesTracked` with `"late"`).
* An application whose delegate or message handler presents validation errors makes
  `handleException:` return instead of raise (EOEditingContext.m:248).  `isValidating` is then
  reset, but the save goes on with the objects that have just been refused
  (`"present"` in `Faults`; `MCEditing` includes it, since everything else it checks
  holds on this path too).
* The first pass sends `prepareForSave` to updated objects (EOEditingContext.m:966),
  where the comment above it and the loop below it have `prepareForUpdate`.

### Proofs

`EditingContextProofs` proves, for any sets of masters and details and any delete rules
of the two kinds:

* `TypeCorrect`: `[]TypeOK`, without further assumptions.
* Under `Calm` (no `Chained` callbacks, nothing but edits after the commit, no
  peeking at `insertedObjects`, no deny rule; the divergences above show what
  happens otherwise): `ContextCorrect` (`[]ContextInv`), and from it `TracksChanges`,
  `KeepsReferences`, `SavesInOneStep` (`Spec => SavesAsUnit`: every step maps to a
  step of `UnitOfWork` or to a stutter), and `AsksEveryone` (`EveryoneAsked`).

`ChangesTracked` is not inductive: it says nothing of what a save is about to
forget.  `ContextInv` adds, for every phase, what the trackers owe to the rows.
`Registered`: every object with a row is known, and the visible ones refer to visible
masters only.  `Unsaved`, until the store has written: a visible object without a
row is an insertion and only such are, one unlike its row is an update, an invisible
one with a row is a deletion.  `Saved`, from then on: the trackers are obsolete, and
what differs from its row is in `updatedQueue`.  `PassInv`: the queues are empty when
the store is called, and what a pass has taken from a queue is in its tracker
before the queue is emptied.  The application's operations are proved to keep
these once, as lemmas on the operators, used both between and inside saves.

`EveryoneAsked` is about the history variable `told`, and needs an invariant of its own
on top, `AskedInv`: what differs from its row has been called since it last changed, or
is still ahead of the enumeration (`Ahead`: in the rest of this dictionary, in a later
one, or in a queue other than the one gone through, which will be emptied).  Callbacks
keep it because they queue what they change and leave everything else where it is
(`HooksKeep`).  Where a queue's own objects are called, `Calm` is needed: what is added
to the queue gone through is lost.

Left to TLC: `SaveReturns` (liveness).

### What it leaves out

Relationships that own their destination (they insert and delete on their own),
undo, other contexts (in `SharedRow`), and `_processRelationships`, which has nothing
to add where both sides of a relationship are edited together; see `ToManyChanges`
for where they are not.  The callbacks of one object are one step.

## Module `ToManyChanges`: from lists to foreign keys

The foreign key of a one-to-many relationship is in the members' rows, so a
save has to find out which lists have changed and to tell the members.
`_processRelationships` compares each updated or inserted master's list with the
to-many snapshot of the master (`relationshipChangesForObject:`), touches the
members that have been added or removed, or deletes the removed ones that the
relationship owns, and leaves a dictionary of the changes for the database
context, which sets the foreign keys.

| state | in the code |
| --- | --- |
| `rel` | the relationship's properties: an inverse to-one, `ownsDestination`; every combination is an initial state |
| `db` | the rows: of a detail, its foreign key |
| `toMany` | the to-many snapshots in `EODatabase`, one for all contexts; a fetch of the master's row replaces the dictionary that holds it, so it gets lost (`Unknown`) |
| `ctx.list` | the lists, `Fault` until they fire |
| `ctx.toOne` | the inverse |
| `ctx.touched`, `updated`, `inserted`, `deleted`, `objects`, `gone` | `updatedQueue`, the trackers, the registered and the deleted objects |
| `added` | `toManyUpdatedMembers`: for each member, the masters whose list it was added to |
| `phase` | where `saveChanges` is: `UnitOfWork`'s states |

`Save` is `_processRelationships` and the two `processRecentChanges` around it;
`StoreWrites` is the store's part, which replaces foreign keys (`NewRow`), writes,
and records the lists as the new to-many snapshots; `StoreRefuses` and `Finish`
are its two ends.  `Move`, `Delete`, `Insert`, `Touch` and `Fire` are the application;
`OtherFetches` and `OtherFires` are what other contexts do to the shared
snapshots.  The view of `UnitOfWork` is here what the lists say: a detail's master
is the one in whose list it is; an owned detail that no list has any more is
gone.

### Runs

| run | instance | shows |
| --- | --- | --- |
| `MCToMany` | 2 masters, 2 details, one of each stored; all four relationships; other contexts read where the relationship does not own | `ToManyCurrent` (a known to-many snapshot has the rows that refer to the master) and the refinement `SavesAsUnit` |
| `MCToManyUnlinked` | 1 detail, no inverse | a finding |

Two masters make moves, two details make moves in opposite directions and a list
that gains and loses in one save; with every object stored, and with both
masters stored, the same properties hold.

### Findings

* `MCToManyUnlinked`.  The loop over the removed changes reads `memberChanges`
  where it means `memberChange` (EODatabaseContext.m:1691), finds no relationship and
  does nothing: the comment above promises `we need to null out the destination
  foreign keys`.  Without an inverse a detail cannot leave its master; the
  snapshot says that it has, so no later save repairs it.

Further divergences that the model has and no run is kept for:

* `relationshipChangesForObject:` takes a to-many snapshot for the sign that its own
  list has fired (EOEntityClassDescription.m:1126: `if the toManyArray was never fired
  then toManyArray should be nil`), but the snapshots are shared.  When another context
  has fired the list, a save of the touched master takes all its members for
  removed, and deletes them if it owns them (`SavesAsUnit` with `"readOwned"`).  If it
  does not, only the finding above keeps the keys in place: to mend that one
  alone would null them all.
* What a callback of the save does to a list comes too late for
  `_processRelationships`, but the list is recorded as the new snapshot: the
  change is neither saved nor noticed later (`SavesAsUnit`, `ToManyCurrent` with
  `"late"`).
* What accessors take out of an owned list with an inverse is updated (its to-one
  has changed) and then deleted in one save; the deletion does not find the
  updated row, so every save is refused until the trackers are cleared.  (Through
  `removeObject:fromPropertyWithKey:` it is deleted at once and the save works.)
* When another context refetches a master that owns its details, the to-many
  snapshot is lost, and details that have left the list are not deleted
  (`SavesAsUnit` with `"readOwned"`).

### Proofs

`ToManyChangesProofs` proves, for any sets of masters and details:

* `TypeCorrect`: `[]TypeOK`, whatever `Uses` allows.
* `SnapshotsAreCurrent`: `[]ToManyCurrent`, and `SavesWhatListsSay`: `Spec => SavesAsUnit`,
  assuming `Calm` (`Uses` is `{"read"}` or empty; the divergences above are what
  happens otherwise).

The inductive invariant is `ToManyInv` (in `ToManyChangesInvariants`).  `Consistent`
makes a detail's owner the one master that has it `In` its list, fired or not.
`Unsaved` says that the trackers have every master whose list differs from its
rows, so that `_processRelationships` looks at it; `Snapshots`, that the to-many
snapshot is then fit to be compared with: it lists the rows that refer to the
master and no detail that may still get one, and that of an owning
relationship is known as soon as the list has fired.
`Told` is what the store is called with: every detail in another list than its
row says has the master that it was added to, and no orphan is left.
`RelatedKeeps` proves `Told` and that the application sees no difference;
`WritesTheView` that the rows are then what the application sees; the rest is
that `StoreWrites` leaves nothing unsaved (`Saved`) and the operations of the
application keep `Consistent` and `Unsaved`.

### What it leaves out

To-one relationships that own their destination (EOEntityClassDescription.m:1013), flattened and
many-to-many relationships, owners in another database (their entity is looked up in
the member's database, so that no key is set), several relationships between
two entities, deletion of masters (in `EditingContext`), and writes of other
contexts (in `SharedRow`).

## Module `StoreLocks`: who holds which lock

Contexts, the coordinator and the stores each have a recursive lock.  A context
counts how often it wants its object store (`lockObjectStore`) and locks it for the
first and unlocks it for the last; the lock of the coordinator takes all stores.
A save takes the stores without the coordinator.  Fetching and initialising
objects suppresses the observers, in the whole process, in the meantime.

| state | in the code |
| --- | --- |
| `owner`, `depth`, `lockCount` | the `NSRecursiveLock` and `lockCount` of each `EOObjectStore` |
| `storeCount` | `objectStoreLockCount` of each context |
| `suppressed` | `suppressionCount` of `EOObserverCenter` |
| `locked` | the contexts that the application has locked itself |
| `todo` | what the operation in which a thread is has still to do |
| `lost` | history: the changes that no context was told of |

An operation (`Fetch`, `FirePaths`, `RefaultPaths`, `InvalidatePaths`, `SavePaths`, `LockSteps`,
`UnlockSteps`) is the sequence of lock operations on one of the paths through it, an
exception's included; what a path does depends on nothing but the context's
ancestors.  A thread performs it one step at a time, interleaved with the others,
and a `take` or `give` that finds its count at zero puts the lock operations of the
parent in front.  A message that the operation sends to the object store (`ask`,
`fetch`, `invalidate`), the notification that a store posts (`tell`) and the next
store of the second phase of a save (`commit`) are steps that put what the receiver
does in front (`Message`, `Commit`), so that nothing is defined by recursion over the
ancestors.  That a context's ancestors end at the coordinator is an assumption on
`Parent` (`LocksAssumption`): a context is created with the object store that it keeps.

### Run

`MCLocks`: two threads, three contexts (one nested in another of the same thread), two
stores, every operation and an application that locks contexts and changes
objects.  It shows `UsedUnderLock` (what `_assertLock` logs), `NoDeadlock` (and TLC's
own check: some thread can always go on), `LocksBalanced` (between operations
a thread has exactly the locks its application has asked for)
and `LockedChangesNoticed`.  Two stores are needed for locks taken
in different orders, and a nested context for every path through `lockObjectStore`; all
counts stay small because every operation gives back what it took.

`LockedChangesNoticed` is what the process-wide suppression leaves: the suppressing
thread has locked its object store, so another thread whose application has
locked its context cannot be in between.  Without that lock changes are lost:
`lost = {}` does not hold.  An object changed while another thread fetches is not
told to its context (EOObserver.m:143), and no later save writes it.

Divergences that the model has and no run is kept for (`Uses` and `Faults` switch
them on):

* `"share"`: a store that commits posts `EOObjectsChangedInStoreNotification` while
  it is locked (EODatabaseContext.m:959), and contexts that have the objects refault
  them in the saving thread, for which they lock the coordinator.  A thread that
  fetches has the coordinator and waits for the store: `NoDeadlock` does not hold.
  (`objectStoreLockCount`, which is then used by two threads, is not protected either.)
* `"open"`: a fault locks, and opens its channel before the handler that would unlock
  (EOObjectFaultHandler.m:106): after a failing connection the thread keeps every
  store (`LocksBalanced`).
* `"initialize"`: `refaultObject:` of an inserted object returns out of its inner
  handler (EOEditingContext.m:1783) and keeps the store, if the application
  presents the exception and goes on (`LocksBalanced`).
* `"recent"`: `invalidateAllObjects` unlocks in its handler and again after it
  (EOEditingContext.m:1213, 1216); the count becomes -1, the next operation makes it
  0 without unlocking, and the one after works without a lock (`UsedUnderLock`).
* `"perform"`: an exception in the first phase of a save keeps the stores
  (`LocksBalanced`; the finding of `MCSaveLocks`).
* `"bare"`: `refaultObjects` does not lock (EOEditingContext.m:1404), so an
  application has to (`UsedUnderLock`).

### Proofs

`StoreLocksProofs` proves, for any threads, finitely many contexts, nested to any
depth, and any number of stores:

* `TypeCorrect`: `[]TypeOK`, for all `Uses` and `Faults`.  What is not obvious in it is that
  the suppression count, which all threads share, never goes below zero.
* Under `Calm` (`Faults` is empty, `Uses` has neither `"share"` nor `"bare"`, and a nested
  context is used by its parent's thread): `StoresUsedUnderLock`, `DeadlockFree`,
  `Balanced` and `ChangesNoticed`, the four properties of `MCLocks`.  `MCLocks` is an
  instance of `Calm`; each of the divergences above is a way in which one of the four
  fails without it.

None of the properties is inductive, because what is left of an operation
(`todo`) is not a function of what is locked: a lock may be taken as long as the rest of
the operation gives it back.  The invariant therefore speaks of sequences of
steps, in `StoreLocksInvariants`:

* `Path(R, S, steps, a, b)`: there is a way from `a` to `b` through `S`, each step of the
  sequence related by `R` to what holds before and after it.  Joining paths, and taking
  the first step off one, are lemmas; nothing has to be computed over a sequence.
* `Hushed` (for the types): every thread has a number of suppressions that a path through
  the rest of its operation takes back to zero, and `suppressed` is the sum of these
  (the cardinality of `Outstanding`, since sums over threads would need a recursive
  definition).
* `Planned(t)` (for the rest): there is a debt (the locks a thread has taken itself, the
  contexts whose object store it has locked, its suppressions) from which the rest of
  the operation leads to what the application keeps between operations (`Kept`), where
  each step may rely on something of the debt and must change it in its way (`Does`): the
  coordinator's lock only without those of stores, a store's only without that of a later
  one, a use only with the store's lock or inside of a context, and so on.
* `Matches`: the debt is what is locked.  A lock's depth is what the thread has taken of
  it itself, plus one for every context that counts on it; a context's count likewise.
  The hard steps are the first `lockObjectStore` and the last `unlockObjectStore` of a context,
  where one own lock of the object store becomes the context's or the reverse.

Every operation is proved once to have such a plan from any debt that a thread can have
when it begins with it (`PlanOperation`, `KeepsReplies`, `StartsSecondPhase`), and every step
to follow the plan.  `DeadlockFree` then takes the largest store that a thread of the
set waits for: its owner is in the set and can only wait for a later one, since
contexts are not contested and whoever waits for the coordinator owns no store.  The
sets are finite but of any size; well-founded induction and the cardinality of finite
sets are those of the library.

The plans quantify over functions from the natural numbers, so TLC cannot evaluate the
invariant as it stands; it checks the four properties.  Left to TLC is also that some
thread can always go on (its deadlock check), which is about `ENABLED`.

### What it leaves out

`tryLock`, contexts used by several threads, stores added while others are in
use, and what the operations do under their locks (the other modules).
## Plan

In order of importance; each module gets its runs, its findings and, where the
provers reach, its proofs.

1. `SaveCycle`, `CommittedSaves` (done): does a save reach the databases?
2. `SharedRow` (done): does it reach them with the right values?  One row, several
   editing contexts, the shared reference-counted snapshot, faults,
   notifications, optimistic locking.
3. `EditingContext`, `UnitOfWork` (done): does a save see what the application
   has changed?  Trackers, queues, propagation of deletions, callbacks.
4. `ToManyChanges` (done): do the foreign keys follow the lists?
5. `StoreLocks` (done): do operations give back what they lock, and does
   everybody get on?
6. Left: `AdaptorFetch` (the life of a fetch on a channel and its transaction),
   and ordering and evaluation of qualifiers against reference definitions.

Theorems worth proving next: the lock properties with nested contexts used by several
threads, where contexts' own locks are contested as well (they are locked from the
inside out, so the order still holds); and which of the save's properties survive
reentrant saves (`MCSaveSolo` checks two safety properties).  Liveness (`EverySaveReturns`, `SaveReturns`)
stays with TLC.

## Not modelled

SQL text, type conversion and client-library calls (formatting and I/O; only
their failures matter here), model files and their editor, key-value archiving,
formatters, logging, and the user interface layer.

Undo: the context only registers invocations; what they undo, in which groups, is
`NSUndoManager`'s, a class that is not here.

What a nested context gives to its parent: `saveChangesInEditingContext:` inserts a
new object into the parent without copying its values (EOEditingContext.m:1697), and
initialises the parent's copy of an updated one with the parent's observers
listening, so that there is little it could be said to promise.  The locks of nested
contexts are in `StoreLocks`.

The table of observers: editing contexts are the only observers of enterprise
objects.  (`removeObserver:forObject:` takes away an object's only observer even when it
is another one, EOObserver.m:118.)

`PROJECT.json` lists every component with its reason.
