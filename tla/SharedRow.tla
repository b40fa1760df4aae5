------------------------------ MODULE SharedRow ------------------------------
(***************************************************************************)
(* One row of a database, as several editing contexts see it.              *)
(*                                                                         *)
(* Each editing context has at most one object for the row's global ID: a  *)
(* fault, or an object with values.  All of them share the snapshot that   *)
(* the EODatabase keeps of the row: it is reference counted, it is what    *)
(* an update is compared with (rowDiffs) and locked against                *)
(* (_lockingQualifierForObject:snapshot:entity:).  Contexts tell each      *)
(* other of changes with EOObjectsChangedInStoreNotification.              *)
(*                                                                         *)
(* The contexts are used by one thread, so an operation is one step, and   *)
(* other programs may write the row between any two of them.  Rows do not  *)
(* interact here; saves of several rows and stores are in SaveCycle.       *)
(***************************************************************************)
EXTENDS Integers, FiniteSets

CONSTANTS
  Context,     \* editing contexts
  Attr,        \* attributes of the row, all used for locking
  MaxValue,    \* bound: values written to the row or to an object
  MaxRefs,     \* bound: the snapshot's reference count
  Uses,        \* what the application does besides fetch, edit and save
  Clients,     \* other programs write the row
  CountsRows,  \* the adaptor reports how many rows an UPDATE or DELETE hit
  CommitFails, \* a commit may fail
  None

UseKinds == {"fault", "refresh", "refault", "invalidate", "revert", "delete",
             "hasChanges", "release", "releaseFault"}

Value == 0 .. MaxValue
Row == [Attr -> Value]
Kinds == {"update", "delete"}

ASSUME RowAssumption ==
  /\ IsFiniteSet(Context)
  /\ MaxValue \in Nat
  /\ MaxRefs \in Nat
  /\ Uses \subseteq UseKinds
  /\ {Clients, CountsRows, CommitFails} \subseteq BOOLEAN
  /\ None \notin Context
  /\ None \notin Row
  /\ None \notin Value
  /\ None \notin [row : Row, refs : Nat]

VARIABLES
  row,      \* the row in the database, None once it is deleted
  snap,     \* the EODatabase snapshot of the row and its reference count
  obj,      \* what a context has for the global ID
  values,   \* the values of its object
  queued,   \* updatedQueue, deletedQueue
  tracked,  \* updatedObjects, deletedObjects
  saver,    \* the context in saveChanges
  clock,    \* the last value written anywhere
  edits,    \* what the application has set and neither saved nor given up
  erase,    \* contexts whose application has deleted the object, likewise
  seen,     \* the row the object was last loaded from or saved as
  outcome   \* of the last save

database == <<row, snap>>
context  == <<obj, values, queued, tracked>>
history  == <<edits, erase, seen, outcome>>
vars == <<database, context, saver, clock, history>>

NoEdits == [a \in Attr |-> None]

(* Every variable has its type.                                            *)
TypeOK ==
  /\ row \in Row \cup {None}
  /\ snap \in [row : Row, refs : 0 .. MaxRefs] \cup {None}
  /\ obj \in [Context -> {"none", "fault", "object"}]
  /\ values \in [Context -> Row]
  /\ queued \in [Context -> SUBSET Kinds]
  /\ tracked \in [Context -> SUBSET Kinds]
  /\ saver \in Context \cup {None}
  /\ clock \in Value
  /\ edits \in [Context -> [Attr -> Value \cup {None}]]
  /\ erase \in [Context -> BOOLEAN]
  /\ seen \in [Context -> Row]
  /\ outcome \in {"none", "saved", "refused", "failed"}

Init ==
  LET zero == [a \in Attr |-> 0] IN
  /\ row = zero
  /\ snap = None
  /\ obj = [c \in Context |-> "none"]
  /\ values = [c \in Context |-> zero]
  /\ queued = [c \in Context |-> {}]
  /\ tracked = [c \in Context |-> {}]
  /\ saver = None
  /\ clock = 0
  /\ edits = [c \in Context |-> NoEdits]
  /\ erase = [c \in Context |-> FALSE]
  /\ seen = [c \in Context |-> zero]
  /\ outcome = "none"

-----------------------------------------------------------------------------
(* The snapshot dictionary of the EODatabase.  Definitions named after     *)
(* what goes wrong are faulty variants; no specification uses them.        *)

RecordedAsNew(s, r) == [row |-> r, refs |-> 0]

RecordedFirstOnly(s, r) == IF s = None THEN [row |-> r, refs |-> 0] ELSE s

(* setObject:forKey: replaces the snapshot and keeps its count.            *)
Recorded(s, r) ==
  IF s = None THEN [row |-> r, refs |-> 0] ELSE [s EXCEPT !.row = r]

Within(s) == s # None => s.refs <= MaxRefs

(* incrementReferenceCountForKey:, k times.                                *)
Retained(s, k) == IF s = None THEN None ELSE [s EXCEPT !.refs = @ + k]

ReleasedBelowZero(s, k) ==
  IF s = None \/ k = 0 THEN s
  ELSE IF s.refs = k THEN None
  ELSE [s EXCEPT !.refs = @ - k]

(* decrementReferenceCountForKey:, k times: the last one removes it.       *)
Released(s, k) ==
  IF s = None \/ k = 0 THEN s
  ELSE IF s.refs <= k THEN None
  ELSE [s EXCEPT !.refs = @ - k]

-----------------------------------------------------------------------------
(* EOObjectsChangedInStoreNotification: context c tells the others that    *)
(* the row was updated or deleted (kinds).                                 *)

ToldNobody(c, kinds) == {}

Told(c, kinds) == {d \in Context \ {c} : kinds # {} /\ obj[d] # "none"}

(* An update refaults the others' objects, a deletion makes them forget    *)
(* them; either way they stop tracking changes of it.                      *)
ToldObj(c, kinds, mine) ==
  [d \in Context |->
    IF d = c THEN mine
    ELSE IF d \notin Told(c, kinds) THEN obj[d]
    ELSE IF "delete" \in kinds THEN "none" ELSE "fault"]

ToldChanges(f, c, kinds, mine) ==
  [d \in Context |->
    IF d = c THEN mine ELSE IF d \in Told(c, kinds) THEN {} ELSE f[d]]

(* A context asks its object for changes before it refaults it, so that a  *)
(* fault is fired first, and recorded and counted with it.  Forgetting     *)
(* decrements the count.                                                   *)
ToldSnap(c, kinds, s, r) ==
  LET fired == {d \in Told(c, kinds) : obj[d] = "fault"} IN
  IF "delete" \in kinds THEN Released(s, Cardinality(Told(c, kinds)))
  ELSE IF fired = {} THEN s
  ELSE Retained(Recorded(s, r), Cardinality(fired))

Notify(c, kinds, mine, q, t, s, r) ==
  /\ obj' = ToldObj(c, kinds, mine)
  /\ queued' = ToldChanges(queued, c, kinds, q)
  /\ tracked' = ToldChanges(tracked, c, kinds, t)
  /\ snap' = ToldSnap(c, kinds, s, r) /\ Within(snap')

(* _processRecentChanges: an update of a deleted object is dropped.        *)
Processed(c) ==
  LET deleted == (tracked[c] \cup queued[c]) \cap {"delete"} IN
  tracked[c] \cup deleted
    \cup (IF deleted = {} THEN queued[c] \cap {"update"} ELSE {})

-----------------------------------------------------------------------------
(* Reading the row.                                                        *)

Loaded(s, refs) == Retained(Recorded(s, row), refs)

(* The object of c gets the row's values, as a fault that fires does.      *)
Load(c, refs) ==
  /\ obj' = [obj EXCEPT ![c] = "object"]
  /\ values' = [values EXCEPT ![c] = row]
  /\ seen' = [seen EXCEPT ![c] = row]
  /\ snap' = Loaded(snap, refs) /\ Within(snap')

(* fetchObject, of a new object or of a fault.  The fault handler has      *)
(* counted the fault already when fetchObject counts it again.             *)
Fetch(c) ==
  /\ saver = None /\ row # None /\ obj[c] # "object"
  /\ Load(c, IF obj[c] = "fault" THEN 2 ELSE 1)
  /\ UNCHANGED <<row, queued, tracked, saver, clock, edits, erase, outcome>>

(* fetchObject of an object the context has, with refreshesObjects.        *)
Refresh(c) ==
  /\ "refresh" \in Uses
  /\ saver = None /\ row # None /\ obj[c] = "object"
  /\ values' = [values EXCEPT ![c] = row]
  /\ seen' = [seen EXCEPT ![c] = row]
  /\ edits' = [edits EXCEPT ![c] = NoEdits]
  /\ Notify(c, {"update"}, "object", queued[c], tracked[c], Recorded(snap, row), row)
  /\ UNCHANGED <<row, saver, clock, erase, outcome>>

(* faultForGlobalID:, for a relationship to the row.                       *)
CreateFault(c) ==
  /\ "fault" \in Uses
  /\ saver = None /\ row # None /\ obj[c] = "none"
  /\ obj' = [obj EXCEPT ![c] = "fault"]
  /\ UNCHANGED <<database, values, queued, tracked, saver, clock, history>>

(* Any message to a fault fires it.                                        *)
Fire(c) ==
  /\ saver = None /\ row # None /\ obj[c] = "fault"
  /\ Load(c, 1)
  /\ UNCHANGED <<row, queued, tracked, saver, clock, edits, erase, outcome>>

-----------------------------------------------------------------------------
(* Changing the object.                                                    *)

Edit(c, a) ==
  /\ saver = None /\ obj[c] = "object" /\ ~erase[c] /\ clock < MaxValue
  /\ "delete" \notin queued[c] \cup tracked[c]
  /\ clock' = clock + 1
  /\ values' = [values EXCEPT ![c][a] = clock + 1]
  /\ edits' = [edits EXCEPT ![c][a] = clock + 1]
  /\ queued' = [queued EXCEPT ![c] = @ \cup {"update"}]
  /\ UNCHANGED <<database, obj, tracked, saver, erase, seen, outcome>>

(* deleteObject:, which fires a fault.                                     *)
Delete(c) ==
  /\ "delete" \in Uses
  /\ saver = None /\ obj[c] # "none" /\ row # None
  /\ "delete" \notin queued[c] \cup tracked[c]
  /\ queued' = [queued EXCEPT ![c] = @ \cup {"delete"}]
  /\ erase' = [erase EXCEPT ![c] = TRUE]
  /\ edits' = [edits EXCEPT ![c] = NoEdits]
  /\ IF obj[c] = "fault" THEN Load(c, 1) ELSE UNCHANGED <<snap, obj, values, seen>>
  /\ UNCHANGED <<row, tracked, saver, clock, outcome>>

(* hasChanges is processRecentChanges, which tells the other contexts.     *)
HasChanges(c) ==
  /\ "hasChanges" \in Uses
  /\ saver = None /\ queued[c] \cup tracked[c] # {}
  /\ Notify(c, Processed(c), obj[c], {}, Processed(c), snap, row)
  /\ UNCHANGED <<row, values, saver, clock, history>>

GiveUp(c) ==
  /\ edits' = [edits EXCEPT ![c] = NoEdits]
  /\ erase' = [erase EXCEPT ![c] = FALSE]

(* revert takes the object out of the change trackers.  The values would   *)
(* come back from a snapshot built by [self classDescription], but the     *)
(* editing context has none.                                               *)
Revert(c) ==
  /\ "revert" \in Uses
  /\ saver = None /\ queued[c] \cup tracked[c] # {}
  /\ Notify(c, Processed(c), obj[c], {}, {}, snap, row)
  /\ GiveUp(c)
  /\ UNCHANGED <<row, values, saver, clock, seen, outcome>>

(* refaultObjects                                                          *)
Refault(c) ==
  /\ "refault" \in Uses
  /\ saver = None /\ obj[c] = "object"
  /\ Notify(c, Processed(c), "fault", {}, Processed(c), snap, row)
  /\ edits' = [edits EXCEPT ![c] = NoEdits]
  /\ UNCHANGED <<row, values, saver, clock, erase, seen, outcome>>

(* invalidateObjectsWithGlobalIDs: forgets the snapshot and refaults the   *)
(* object in every context.                                                *)
Invalidate(c) ==
  /\ "invalidate" \in Uses
  /\ saver = None /\ obj[c] # "none"
  /\ LET kinds == Processed(c)
         after == ToldObj(c, kinds, "fault")
         live == {d \in Context : after[d] = "object"} IN
     /\ obj' = [d \in Context |-> IF d \in live THEN "fault" ELSE after[d]]
     /\ queued' = [d \in Context |->
          IF d \in live THEN {} ELSE ToldChanges(queued, c, kinds, {})[d]]
     /\ tracked' = [d \in Context |->
          IF d \in live THEN {} ELSE ToldChanges(tracked, c, kinds, {})[d]]
  /\ snap' = None
  /\ GiveUp(c)
  /\ UNCHANGED <<row, values, saver, clock, seen, outcome>>

(* The application drops an object without changes: forgetObject:.         *)
Release(c) ==
  /\ \/ "release" \in Uses /\ obj[c] = "object"
     \/ "releaseFault" \in Uses /\ obj[c] = "fault"
  /\ saver = None /\ queued[c] \cup tracked[c] = {}
  /\ obj' = [obj EXCEPT ![c] = "none"]
  /\ snap' = Released(snap, 1)
  /\ UNCHANGED <<row, values, queued, tracked, saver, clock, history>>

(* Another program updates the row.                                        *)
ClientWrites(a) ==
  /\ Clients /\ row # None /\ clock < MaxValue
  /\ clock' = clock + 1
  /\ row' = [row EXCEPT ![a] = clock + 1]
  /\ UNCHANGED <<snap, context, saver, history>>

-----------------------------------------------------------------------------
(* Saving.                                                                 *)

(* saveChanges up to the object store.  A fault among the changed objects  *)
(* is fired: an updated one by _processRelationships, before the other     *)
(* contexts are told, a deleted one by prepareForDelete, after it.         *)
BeginSave(c) ==
  LET kinds == Processed(c)
      fires == obj[c] = "fault"
      upd == "update" \in kinds
      told == ToldSnap(c, kinds, IF fires /\ upd THEN Loaded(snap, 1) ELSE snap, row)
  IN
  /\ saver = None /\ kinds # {} /\ (fires => row # None)
  /\ obj' = ToldObj(c, kinds, "object")
  /\ queued' = ToldChanges(queued, c, kinds, {})
  /\ tracked' = ToldChanges(tracked, c, kinds, kinds)
  /\ snap' = IF fires /\ ~upd THEN Loaded(told, 1) ELSE told
  /\ Within(snap')
  /\ values' = IF fires THEN [values EXCEPT ![c] = row] ELSE values
  /\ seen' = IF fires THEN [seen EXCEPT ![c] = row] ELSE seen
  /\ saver' = c
  /\ outcome' = "none"
  /\ UNCHANGED <<row, clock, edits, erase>>

(* rowDiffs: the attributes in which the object's new row and the shared   *)
(* snapshot differ.                                                        *)
RowDiffs(new, s) == {a \in Attr : new[a] # s.row[a]}

MatchesAnyRow(r, s) == r # None

(* _lockingQualifierForObject:snapshot:entity: over the row and the        *)
(* snapshot.                                                               *)
Matches(r, s) == r # None /\ r = s.row

AnyRowCount(hit) == TRUE

(* A statement that did not hit exactly one row raises, if the adaptor     *)
(* counts rows.                                                            *)
RowCountAccepted(hit) == hit \/ ~CountsRows

(* performChanges.  UPDATE comes before DELETE, and both are locked        *)
(* against the snapshot.                                                   *)
Updated(r, new, s) ==
  IF Matches(r, s)
  THEN [a \in Attr |-> IF a \in RowDiffs(new, s) THEN new[a] ELSE r[a]]
  ELSE r

(* What the save does to the row: the new row and whether it raised.       *)
Performed(kinds, new, s) ==
  LET upd == "update" \in kinds /\ RowDiffs(new, s) # {}
      r1 == IF upd THEN Updated(row, new, s) ELSE row
      del == "delete" \in kinds
      r2 == IF del /\ Matches(r1, s) THEN None ELSE r1
  IN [row |-> r2,
      ok |-> /\ upd => RowCountAccepted(Matches(row, s))
             /\ del => RowCountAccepted(Matches(r1, s))]

(* saveChanges of the store, for an object whose snapshot is known.  It    *)
(* raises when a statement is refused or the commit fails.  A committed    *)
(* deletion forgets the snapshot and then the object; the local  *)
(* snapshot of an update is recorded in between.                           *)
StoreSave(c) ==
  LET kinds == tracked[c]
      new == values[c]
      done == Performed(kinds, new, snap)
      del == "delete" \in kinds
      s1 == IF del THEN None ELSE snap
      s2 == IF "update" \in kinds THEN Recorded(s1, new) ELSE s1
  IN
  /\ saver = c /\ snap # None
  /\ saver' = None
  /\ \/ /\ done.ok
        /\ row' = done.row
        /\ Notify(c, kinds, IF del THEN "none" ELSE "object", {}, {},
                  IF del THEN Released(s2, 1) ELSE s2, done.row)
        /\ seen' = [seen EXCEPT ![c] = new]
        /\ GiveUp(c)
        /\ outcome' = "saved"
     \/ /\ outcome' = IF done.ok THEN "failed" ELSE "refused"
        /\ done.ok => CommitFails
        /\ UNCHANGED <<row, snap, context, edits, erase, seen>>
  /\ UNCHANGED <<values, clock>>

(* Without a snapshot a deletion is dropped, an update raises.             *)
StoreSaveUnknown(c) ==
  /\ saver = c /\ snap = None
  /\ saver' = None
  /\ IF "update" \in tracked[c]
     THEN /\ outcome' = "refused"
          /\ UNCHANGED <<tracked, edits, erase>>
     ELSE /\ outcome' = "saved"
          /\ tracked' = [tracked EXCEPT ![c] = {}]
          /\ GiveUp(c)
  /\ UNCHANGED <<database, obj, values, queued, clock, seen>>

-----------------------------------------------------------------------------
Next ==
  \/ \E c \in Context :
       \/ Fetch(c) \/ Refresh(c) \/ CreateFault(c) \/ Fire(c)
       \/ Delete(c) \/ HasChanges(c) \/ Revert(c) \/ Refault(c)
       \/ Invalidate(c) \/ Release(c)
       \/ BeginSave(c) \/ StoreSave(c) \/ StoreSaveUnknown(c)
       \/ \E a \in Attr : Edit(c, a)
  \/ \E a \in Attr : ClientWrites(a)

Spec == Init /\ [][Next]_vars

-----------------------------------------------------------------------------
(* What the application may rely on.                                       *)

SaveEnds == saver # None /\ saver' = None

Overlaid(r, e) == [a \in Attr |-> IF e[a] = None THEN r[a] ELSE e[a]]

(* A save that returned has put into the row what the application had      *)
(* changed, and nothing else; a deletion has removed it.                   *)
SavedIsStored ==
  [][SaveEnds /\ outcome' = "saved" =>
       row' = IF erase[saver] THEN None ELSE Overlaid(row, edits[saver])]_vars

(* Optimistic locking: a save changes the row only if the row is the one   *)
(* that the object was loaded from, so no other program's write is lost.   *)
UpdatesBasedOnRow ==
  [][SaveEnds /\ row' # row => row = seen[saver]]_vars

(* ... and it is refused only if somebody else has written the row.  (An   *)
(* object edited and then deleted is refused by itself: its UPDATE makes   *)
(* its DELETE stale.)                                                      *)
RefusedOnlyWhenStale ==
  [][SaveEnds /\ outcome' = "refused" /\ tracked[saver] # Kinds => row # seen[saver]]_vars

(* _processChangedObjects: reapplies what this context has changed to what *)
(* the notifying context has: unsaved changes stay in the object, and the  *)
(* next save will know of them.                                            *)
ChangesKept ==
  \A c \in Context :
    LET kinds == queued[c] \cup tracked[c] IN
    /\ erase[c] => "delete" \in kinds
    /\ edits[c] # NoEdits =>
         /\ obj[c] = "object" /\ "update" \in kinds
         /\ values[c] = Overlaid(values[c], edits[c])

Live == {c \in Context : obj[c] = "object"}

(* Every object in memory holds the snapshot that its next update needs:   *)
(* it does not go before the last of them.                                 *)
ObjectsHoldSnapshot ==
  Live # {} => snap # None /\ Cardinality(Live) <= snap.refs

(* An object without changes shows the shared snapshot.                    *)
CacheCoherent ==
  \A c \in Live :
    queued[c] \cup tracked[c] = {} => snap # None /\ values[c] = snap.row

(* As long as no other program writes the row the shared snapshot is the   *)
(* row: no context leaves a stale one to the others.                       *)
SnapshotCurrent == snap # None => row # None /\ snap.row = row
=============================================================================
