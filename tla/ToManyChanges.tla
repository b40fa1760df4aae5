--------------------------- MODULE ToManyChanges ---------------------------
(***************************************************************************)
(* How a save finds out what the lists of a to-many relationship have      *)
(* become.  The foreign key is in the members' rows, so the save compares  *)
(* the lists with the to-many snapshots, tells the members (or deletes     *)
(* them, when the relationship owns them), and the store sets the keys.    *)
(*                                                                         *)
(* Masters have lists of details.  The relationship has an inverse or not, *)
(* and owns the details or not.  The application mutates a list that has   *)
(* fired, and both sides if there are two.  Masters are not deleted here,  *)
(* and the store is as in EditingContext; the other editing contexts only  *)
(* read.                                                                   *)
(***************************************************************************)
CONSTANTS
  Master, Detail,  \* objects
  Stored,          \* those with a row at the start
  Uses,            \* what may happen, see UseNames
  None,            \* no master
  Absent,          \* no row, no object
  Fault,           \* a list that has not fired
  Unknown          \* no to-many snapshot

Object == Master \cup Detail
Value == Master \cup {None, Absent}

UseNames ==
  {"unlink",     \* a detail leaves its master without being deleted or moved,
                 \* and there is no inverse
   "read",       \* other contexts fetch masters and fire their lists
   "readOwned",  \* also when the relationship owns the details
   "late"}       \* the callbacks of a save change lists

ASSUME ToManyAssumption ==
  /\ Master \cap Detail = {}
  /\ {None, Absent} \cap Object = {}
  /\ None # Absent
  /\ \A S \in SUBSET Detail : S \notin {Fault, Unknown}
  /\ Stored \subseteq Object
  /\ Uses \subseteq UseNames

VARIABLES
  rel,     \* the relationship
  db,      \* the rows; of a detail, the foreign key
  toMany,  \* the to-many snapshots, which the contexts share
  ctx,     \* the editing context and its objects
  added,   \* toManyUpdatedMembers: the lists that a detail has been added to
  phase    \* where saveChanges is

vars == <<rel, db, toMany, ctx, added, phase>>

Relationship == [inverse : BOOLEAN, owns : BOOLEAN]

Context ==
  [list     : [Master -> {Fault} \cup SUBSET Detail],
   toOne    : [Detail -> Master \cup {None}],  \* if there is an inverse
   objects  : SUBSET Object,  \* registered and observed
   gone     : SUBSET Object,  \* objects that have been deleted; their global
                              \* IDs do not come back
   touched  : SUBSET Object,  \* updatedQueue
   updated  : SUBSET Object,
   inserted : SUBSET Object,
   deleted  : SUBSET Object]

NoneAdded == [d \in Detail |-> {}]

TypeOK ==
  /\ rel \in Relationship
  /\ db \in [Object -> Value]
  /\ toMany \in [Master -> {Unknown} \cup SUBSET Detail]
  /\ ctx \in Context
  /\ added \in [Detail -> SUBSET Master]
  /\ phase \in {"none", "open", "written"}

Init ==
  /\ rel \in Relationship
  /\ db \in {r \in [Object -> Value] :
       \A o \in Object :
         IF o \in Stored THEN r[o] \in {None} \cup (IF o \in Detail THEN Master \cap Stored ELSE {})
                         ELSE r[o] = Absent}
  /\ toMany = [m \in Master |-> Unknown]
  /\ ctx = [list     |-> [m \in Master |-> Fault],
            toOne    |-> [d \in Detail |-> IF rel.inverse /\ db[d] \in Master THEN db[d] ELSE None],
            objects  |-> Stored,
            gone     |-> {},
            touched  |-> {}, updated |-> {}, inserted |-> {}, deleted |-> {}]
  /\ added = NoneAdded
  /\ phase = "none"

-----------------------------------------------------------------------------
(* The state of a context, and its operations, from the context before to  *)
(* the one after.  Definitions named after what goes wrong are faulty      *)
(* variants; no specification uses them.                                   *)

Live(x) == x.objects \ x.gone

(* The details that a fetch of a list finds.                               *)
Linked(m) == {d \in Detail : db[d] = m}

Members(x, m) == IF x.list[m] = Fault THEN {} ELSE x.list[m]

Holders(x, d) == {m \in Master : d \in Members(x, m)}

(* A detail's master, as the application finds it.                         *)
Owner(x, d) ==
  IF rel.inverse THEN x.toOne[d]
  ELSE IF Holders(x, d) # {} THEN CHOOSE m \in Holders(x, d) : TRUE
  ELSE IF db[d] \in Master /\ x.list[db[d]] = Fault THEN db[d]
  ELSE None

(* Details that have lost the master who owns them are to be deleted.      *)
Orphaned(x, d) == rel.owns /\ db[d] \in Master /\ Owner(x, d) = None

View(x) ==
  [o \in Object |->
    IF o \notin Live(x) \/ (o \in Detail /\ Orphaned(x, o)) THEN Absent
    ELSE IF o \in Detail THEN Owner(x, o) ELSE None]

WillChange(x, S) == [x EXCEPT !.touched = @ \cup (S \cap x.objects)]

(* d leaves the list it is in and enters that of m, if m is a master.      *)
Moved(x, d, m) ==
  LET from == Holders(x, d)
      y == [x EXCEPT
             !.list = [n \in Master |-> IF n = m THEN @[n] \cup {d}
                                        ELSE IF n \in from THEN @[n] \ {d} ELSE @[n]],
             !.toOne[d] = IF rel.inverse THEN m ELSE @]
  IN WillChange(y, from \cup ({m} \cap Master) \cup (IF rel.inverse THEN {d} ELSE {}))

Inserted(x, o) ==
  [x EXCEPT !.list = [m \in Master |-> IF m = o THEN {} ELSE @[m]],
            !.toOne = [d \in Detail |-> IF d = o THEN None ELSE @[d]],
            !.objects = @ \cup {o},
            !.inserted = @ \cup {o}]

(* Details are deleted: through an inverse they leave their masters' lists.*)
Deleted(x, S) ==
  LET owners == IF rel.inverse THEN {x.toOne[d] : d \in S} \cap Master ELSE {}
      y == [x EXCEPT
             !.list = [m \in Master |->
                        IF m \in owners THEN (IF @[m] = Fault THEN Linked(m) ELSE @[m]) \ S
                                        ELSE @[m]],
             !.toOne = [d \in Detail |-> IF d \in S THEN None ELSE @[d]],
             !.gone = @ \cup S,
             !.inserted = @ \ S,
             !.deleted = @ \cup S]
  IN WillChange(y, S \cup owners)

(* _processRecentChanges                                                   *)
Processed(x) ==
  [x EXCEPT !.touched = {},
            !.updated = @ \cup (x.touched \ (x.inserted \cup x.deleted))]

-----------------------------------------------------------------------------
(* The application                                                         *)

MayChange == phase = "none" \/ (phase = "open" /\ "late" \in Uses)

Unchanged == UNCHANGED <<rel, db, added, phase>>

(* A list fires, and records what it has found.                            *)
Fire(m) ==
  /\ m \in Live(ctx) /\ ctx.list[m] = Fault
  /\ ctx' = [ctx EXCEPT !.list[m] = Linked(m)]
  /\ toMany' = [toMany EXCEPT ![m] = Linked(m)]
  /\ Unchanged

MayLeave(x, d) == Owner(x, d) \in Master => x.list[Owner(x, d)] # Fault

Move(d, m) ==
  /\ MayChange
  /\ d \in Live(ctx) /\ MayLeave(ctx, d) /\ Owner(ctx, d) # m
  /\ m # None => m \in Live(ctx) /\ ctx.list[m] # Fault
  /\ m = None => rel.inverse \/ rel.owns \/ db[d] \notin Master \/ "unlink" \in Uses
  /\ ctx' = Moved(ctx, d, m)
  /\ UNCHANGED toMany /\ Unchanged

(* removeObject:fromPropertyWithKey: deletes what the relationship owns    *)
(* right away; with an inverse the list that propagation changes has fired.*)
Delete(d) ==
  /\ MayChange
  /\ d \in Live(ctx)
  /\ rel.inverse => MayLeave(ctx, d)
  /\ ctx' = Deleted(ctx, {d})
  /\ UNCHANGED toMany /\ Unchanged

Insert(o) ==
  /\ MayChange
  /\ db[o] = Absent /\ o \notin ctx.objects \cup ctx.gone
  /\ ctx' = Inserted(ctx, o)
  /\ UNCHANGED toMany /\ Unchanged

(* An attribute of a master changes.                                       *)
Touch(m) ==
  /\ MayChange
  /\ m \in Live(ctx)
  /\ ctx' = WillChange(ctx, {m})
  /\ UNCHANGED toMany /\ Unchanged

HasChanges ==
  /\ MayChange
  /\ ctx' = Processed(ctx)
  /\ UNCHANGED toMany /\ Unchanged

(* Other contexts: a fetched row replaces the shared snapshot with         *)
(* everything in it, and their lists fire, too.                            *)
MayRead == {"read", "readOwned"} \cap Uses # {} /\ (rel.owns => "readOwned" \in Uses)

OtherFetches(m) ==
  /\ MayRead /\ db[m] # Absent
  /\ toMany' = [toMany EXCEPT ![m] = Unknown]
  /\ UNCHANGED ctx /\ Unchanged

OtherFires(m) ==
  /\ MayRead /\ db[m] # Absent
  /\ toMany' = [toMany EXCEPT ![m] = Linked(m)]
  /\ UNCHANGED ctx /\ Unchanged

-----------------------------------------------------------------------------
(* saveChanges                                                             *)

(* relationshipChangesForObject: of a master.                              *)
Added(x, m) ==
  IF toMany[m] = Unknown THEN Members(x, m) ELSE Members(x, m) \ toMany[m]

Removed(x, m) ==
  IF toMany[m] = Unknown THEN {} ELSE toMany[m] \ Members(x, m)

AddedTo(x) ==
  [d \in Detail |-> {m \in (x.updated \cup x.inserted) \cap Master : d \in Added(x, m)}]

Missing(x) == {d \in Detail : \E m \in x.updated \cap Master : d \in Removed(x, m)} \cap x.objects

RelatedInAnyCase(x) ==
  IF rel.owns THEN Deleted(x, Missing(x))
  ELSE WillChange(x, Missing(x) \cup {d \in Detail : AddedTo(x)[d] # {}})

(* _processRelationships: what has been moved is neither deleted nor told  *)
(* that it has been removed.                                               *)
Related(x) ==
  LET new == {d \in Detail : AddedTo(x)[d] # {}}
      y == IF rel.owns THEN Deleted(x, Missing(x) \ new) ELSE x
  IN WillChange(y, (IF rel.owns THEN {} ELSE Missing(x)) \cup new)

Save ==
  /\ phase = "none"
  /\ phase' = "open"
  /\ added' = AddedTo(Processed(ctx))
  /\ ctx' = Processed(Related(Processed(ctx)))
  /\ UNCHANGED <<rel, db, toMany>>

ToUpdate == ctx.updated \cup ctx.touched
ToInsert == ctx.inserted
ToDelete == {o \in ctx.deleted : db[o] # Absent}

(* The keys that the inverse gives, or that are known.                     *)
OwnKey(o) ==
  IF o \in Master THEN None
  ELSE IF rel.inverse THEN ctx.toOne[o]
  ELSE IF db[o] = Absent THEN None ELSE db[o]

NewRowSwapped(o, last) == IF o \in Detail /\ added[o] # {} THEN o ELSE OwnKey(o)

(* _recordToManyRelationshipChangesForObject: the master that a detail has *)
(* been added to last gives the foreign key.  For one that it has been     *)
(* removed from the relationship is not found, and nothing happens.        *)
NewRow(o, last) == IF o \in Detail /\ added[o] # {} THEN last[o] ELSE OwnKey(o)

(* As in EditingContext.                                                   *)
Storable(last) ==
  /\ \A o \in ToUpdate : db[o] # Absent
  /\ \A o \in ToInsert : db[o] = Absent
  /\ \A o \in ToUpdate \cap ToDelete : NewRow(o, last) = db[o]

Written(last) ==
  [o \in Object |->
    IF o \in ToDelete THEN Absent
    ELSE IF o \in ToUpdate \cup ToInsert THEN NewRow(o, last) ELSE db[o]]

RecordedNever == toMany

(* The snapshots of what is saved have the lists that have fired.          *)
Recorded ==
  [m \in Master |->
    IF m \in ToUpdate \cup ToInsert /\ ctx.list[m] # Fault THEN ctx.list[m] ELSE toMany[m]]

(* forgetObject: of what the store has deleted.  A list may keep such an   *)
(* object, but it has no global ID any more.                               *)
Forgotten(x, S) ==
  [x EXCEPT !.list = [m \in Master |-> IF @[m] = Fault THEN Fault ELSE @[m] \ S],
            !.objects = @ \ S,
            !.touched = @ \ S,
            !.updated = @ \ S,
            !.deleted = @ \ S]

StoreWrites ==
  /\ phase = "open"
  /\ \E last \in [Detail -> Value] :
       /\ \A d \in Detail : IF added[d] # {} THEN last[d] \in added[d] ELSE last[d] = None
       /\ Storable(last)
       /\ db' = Written(last)
  /\ toMany' = Recorded
  /\ ctx' = Forgotten(ctx, ToDelete)
  /\ phase' = "written"
  /\ UNCHANGED <<rel, added>>

(* For whatever reason.                                                    *)
StoreRefuses ==
  /\ phase = "open"
  /\ phase' = "none"
  /\ UNCHANGED <<rel, db, toMany, ctx, added>>

Finish ==
  /\ phase = "written"
  /\ phase' = "none"
  /\ added' = NoneAdded
  /\ ctx' = [ctx EXCEPT !.updated = {}, !.inserted = {}, !.deleted = {}]
  /\ UNCHANGED <<rel, db, toMany>>

-----------------------------------------------------------------------------
Next ==
  \/ \E m \in Master : Fire(m) \/ Touch(m) \/ OtherFetches(m) \/ OtherFires(m)
  \/ \E d \in Detail : Delete(d) \/ \E m \in Master \cup {None} : Move(d, m)
  \/ \E o \in Object : Insert(o)
  \/ HasChanges \/ Save \/ StoreWrites \/ StoreRefuses \/ Finish

Spec == Init /\ [][Next]_vars

-----------------------------------------------------------------------------
(* A save that returns has made the database what the lists say: members   *)
(* refer to their masters, and owned details without one are deleted.      *)
Unit == INSTANCE UnitOfWork WITH stored <- db, view <- View(ctx), save <- phase

SavesAsUnit == Unit!Spec

Rows == {d \in Detail : db[d] # Absent}

(* A known to-many snapshot has the rows that refer to the master, so that *)
(* the next save finds out what has changed since.                         *)
ToManyCurrent ==
  \A m \in Master : toMany[m] # Unknown => toMany[m] \cap Rows = Linked(m)
=============================================================================
