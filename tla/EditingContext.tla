--------------------------- MODULE EditingContext ---------------------------
(***************************************************************************)
(* An editing context of one thread: how it keeps track of what its        *)
(* application changes, and what it gives to its object store to save.     *)
(*                                                                         *)
(* The objects are masters and details.  A detail has a to-one             *)
(* relationship to a master, its only value here; the master's inverse     *)
(* to-many has a delete rule, and the to-one has the rule that models      *)
(* default to (nullify).  A save calls the application back, object by     *)
(* object (prepareFor..., validateFor..., objectDidSave), and the          *)
(* application may change objects there.                                   *)
(*                                                                         *)
(* The store is a single database without other users, all objects with a  *)
(* row have been fetched, and statements that hit no row raise; what other *)
(* contexts and stores do is the subject of SharedRow and SaveCycle.       *)
(***************************************************************************)
EXTENDS Naturals

CONSTANTS
  Master, Detail,  \* objects
  Stored,          \* those with a row at the start
  Rule,            \* the delete rule of each master's to-many relationship
  HookOps,         \* what the application does when a save calls it back
                   \* ("late": inserts, deletes and raises after the save, too)
  Chained,         \* also when it is called back for such a change
  Faults,          \* "invalid" objects, a "veto" of the validation, a store that
                   \* "refuses", hooks that "raise", an application that
                   \* "present"s what validation has found and goes on
  None,            \* no master
  Absent           \* no row, no object

Object == Master \cup Detail
Value == Master \cup {None, Absent}
Kind == {"updated", "inserted", "deleted"}
Rules == {"nullify", "cascade", "deny", "noAction"}

ASSUME ContextAssumption ==
  /\ Master \cap Detail = {}
  /\ {None, Absent} \cap Object = {}
  /\ None # Absent
  /\ Stored \subseteq Object
  /\ Rule \in [Master -> Rules]
  /\ HookOps \subseteq {"edit", "insert", "delete", "peek", "late"}
  /\ Chained \in BOOLEAN
  /\ Faults \subseteq {"invalid", "veto", "refuses", "raise", "present"}

VARIABLES
  db,          \* the rows
  ctx,         \* the editing context and its objects
  validating,  \* isValidating
  phase,       \* where saveChanges is
  pass,        \* the dictionary it goes through
  todo,        \* the objects there that have not been called yet
  invalid,     \* a validation method has returned an exception
  told         \* history: objects called in this phase, unchanged since

saving == <<phase, pass, todo, invalid, told>>
vars == <<db, ctx, validating, saving>>

Sets == [Kind -> SUBSET Object]

Context ==
  [values   : [Object -> Value],
   objects  : SUBSET Object,  \* registered and observed
   gone     : SUBSET Object,  \* of these, the ones the application has deleted
   queued   : Sets,           \* updatedQueue, insertedQueue, deletedQueue
   tracked  : Sets,           \* updatedObjects, insertedObjects, deletedObjects
   cache    : SUBSET Object]  \* insertedCache; the empty one is not valid

Pass == [src : {"tracked", "queued"}, kind : Kind]

NothingIn == [k \in Kind |-> {}]

FirstPass == [src |-> "tracked", kind |-> "updated"]

TypeOK ==
  /\ db \in [Object -> Value]
  /\ ctx \in Context
  /\ validating \in BOOLEAN
  /\ phase \in {"idle", "prepare", "validate", "store", "done"}
  /\ pass \in Pass
  /\ todo \subseteq Object
  /\ invalid \in BOOLEAN
  /\ told \subseteq Object

(* Any rows without a dangling reference.                                  *)
Init ==
  /\ db \in {r \in [Object -> Value] :
       \A o \in Object :
         IF o \in Stored THEN r[o] \in {None} \cup (IF o \in Detail THEN Master \cap Stored ELSE {})
                         ELSE r[o] = Absent}
  /\ ctx = [values |-> db, objects |-> Stored, gone |-> {}, queued |-> NothingIn,
            tracked |-> NothingIn, cache |-> {}]
  /\ validating = FALSE
  /\ phase = "idle"
  /\ pass = FirstPass
  /\ todo = {}
  /\ invalid = FALSE
  /\ told = {}

-----------------------------------------------------------------------------
(* The operations of a context, from the context before to the one after.  *)
(* Definitions named after what goes wrong are faulty variants; no         *)
(* specification uses them.                                                *)

Live(x) == x.objects \ x.gone

(* What the application sees.                                              *)
View(x) == [o \in Object |-> IF o \in Live(x) THEN x.values[o] ELSE Absent]

Members(x, m) == {d \in Live(x) \cap Detail : x.values[d] = m}

(* willChange of each of S reaches the context that observes it.           *)
WillChange(x, S) == [x EXCEPT !.queued.updated = @ \cup (S \cap x.objects)]

(* A new value on both sides of the relationship.                          *)
Edited(x, d, m) ==
  WillChange([x EXCEPT !.values[d] = m], {d, x.values[d], m})

(* insertObject:                                                           *)
Inserted(x, o) ==
  [x EXCEPT !.values[o] = None,
            !.objects = @ \cup {o},
            !.queued.inserted = @ \cup {o},
            !.cache = {}]

EnqueuedWithInserts(x, S) ==
  [x EXCEPT !.queued.inserted = @ \ S,
            !.queued.deleted = @ \cup S]

(* deleteObject: uninserts a new object, and queues the deletion.          *)
Enqueued(x, S) ==
  [x EXCEPT !.queued.inserted = @ \ S,
            !.tracked.inserted = @ \ S,
            !.queued.deleted = @ \cup S]

Denied(x, o) == o \in Master /\ Rule[o] = "deny" /\ Members(x, o) # {}

DeletedWithoutMembers(x, o) ==
  [Enqueued(x, {o}) EXCEPT !.gone = @ \cup {o}]

(* ... and propagates it: members are deleted or lose their master, and a  *)
(* deleted detail leaves its master.                                       *)
Deleted(x, o) ==
  LET rule == IF o \in Master THEN Rule[o] ELSE "nullify"
      members == IF rule \in {"nullify", "cascade"} THEN Members(x, o) ELSE {}
      unlinked == {d \in members \cup {o} : x.values[d] # None}
      deleted == {o} \cup (IF rule = "cascade" THEN members ELSE {})
      y == [Enqueued(x, deleted) EXCEPT
              !.gone = @ \cup deleted,
              !.values = [d \in Object |-> IF d \in unlinked THEN None ELSE @[d]]]
  IN WillChange(y, unlinked \cup {x.values[d] : d \in unlinked})

InsertedAnswer(x) ==
  IF x.cache = {} THEN x.tracked.inserted \cup x.queued.inserted ELSE x.cache

(* insertedObjects                                                         *)
Peeked(x) == [x EXCEPT !.cache = InsertedAnswer(x)]

(* _processRecentChanges                                                   *)
Processed(x) ==
  LET inserted == x.tracked.inserted \cup x.queued.inserted
      deleted == x.tracked.deleted \cup x.queued.deleted
      updated == x.tracked.updated \cup (x.queued.updated \ (inserted \cup deleted))
  IN [x EXCEPT !.queued = NothingIn,
               !.tracked.updated = updated,
               !.tracked.inserted = inserted,
               !.tracked.deleted = deleted,
               !.cache = {}]

(* forgetObject: of each of S.                                             *)
Forgotten(x, S) ==
  [x EXCEPT !.objects = @ \ S,
            !.gone = @ \ S,
            !.queued = [k \in Kind |-> @[k] \ S],
            !.tracked = [k \in Kind |-> @[k] \ S],
            !.cache = @ \ S]

(* Objects that are not what they were.                                    *)
Disturbed(x, y) ==
  {o \in Object : View(x)[o] # View(y)[o]}

-----------------------------------------------------------------------------
(* The application's operations, wherever it may call them.                *)

NewValues(x, d) == {Edited(x, d, m) : m \in (Live(x) \cap Master) \cup {None}}

Edits(x) ==
  (UNION {NewValues(x, d) : d \in Live(x) \cap Detail})
    \cup {WillChange(x, {m}) : m \in Live(x) \cap Master}

Fresh(x) == {o \in Object \ x.objects : db[o] = Absent}

Inserts(x) == {Inserted(x, o) : o \in Fresh(x)}

Deletes(x) == {Deleted(x, o) : o \in {p \in Live(x) : ~Denied(x, p)}}

(* A denied deletion raises after it has queued the object.                *)
Denials(x) == {Enqueued(x, {o}) : o \in {p \in Live(x) : Denied(x, p)}}

Idle == phase = "idle"

Edit == Idle /\ ctx' \in Edits(ctx) /\ UNCHANGED <<db, validating, saving>>

(* insertObject: and deleteObject: raise while isValidating is set.        *)
Insert ==
  /\ Idle /\ ~validating
  /\ ctx' \in Inserts(ctx)
  /\ UNCHANGED <<db, validating, saving>>

Delete ==
  /\ Idle /\ ~validating
  /\ ctx' \in Deletes(ctx) \cup Denials(ctx)
  /\ UNCHANGED <<db, validating, saving>>

HasChanges ==
  /\ Idle
  /\ ctx' = Processed(ctx)
  /\ UNCHANGED <<db, validating, saving>>

Peek ==
  /\ Idle
  /\ ctx' = Peeked(ctx)
  /\ UNCHANGED <<db, validating, saving>>

-----------------------------------------------------------------------------
(* saveChanges                                                             *)

EnterPhase(p, x) ==
  /\ phase' = p
  /\ pass' = FirstPass
  /\ todo' = IF p \in {"idle", "store"} THEN {} ELSE x.tracked.updated
  /\ invalid' = FALSE
  /\ told' = {}

(* _processRelationships has nothing to add, since both sides of every     *)
(* relationship are edited together.                                       *)
Save ==
  /\ Idle
  /\ ctx' = Processed(ctx)
  /\ EnterPhase("prepare", Processed(ctx))
  /\ UNCHANGED <<db, validating>>

CalledBack == phase \in {"prepare", "validate", "done"}

May(op) ==
  /\ op \in HookOps
  /\ pass.src = "queued" => Chained
  /\ phase = "done" /\ op # "edit" => "late" \in HookOps

(* What the called object may do: the contexts it may leave.               *)
HookResults(x) ==
  {x}
    \cup (IF May("edit") THEN Edits(x) ELSE {})
    \cup (IF May("peek") THEN {Peeked(x)} ELSE {})
    \cup (IF May("insert") /\ ~validating THEN Inserts(x) ELSE {})
    \cup (IF May("delete") /\ ~validating THEN Deletes(x) ELSE {})

(* ... and when it raises: it has deleted what it may not, or inserted or  *)
(* deleted while validating, or done something else.                       *)
HookRaises(x) ==
  (IF "raise" \in Faults /\ (phase = "done" => "late" \in HookOps)
   THEN HookResults(x) ELSE {})
    \cup (IF (May("insert") \/ May("delete")) /\ validating THEN {x} ELSE {})
    \cup (IF May("delete") /\ ~validating THEN Denials(x) ELSE {})

Current(x) == IF pass.src = "tracked" THEN x.tracked[pass.kind] ELSE x.queued[pass.kind]

MovedNowhere(x, o) == x

(* _sendSelector:toObjects:moveTo: moves the objects of a queue.           *)
Moved(x, o) ==
  IF pass.src = "tracked" THEN x ELSE [x EXCEPT !.tracked[pass.kind] = @ \cup {o}]

(* A dictionary that changes while it is enumerated may make the           *)
(* enumerator raise; otherwise new objects may be missed.                  *)
Call(o) ==
  /\ CalledBack /\ o \in todo
  /\ \E y \in HookResults(ctx) :
       /\ ctx' = Moved(y, o)
       /\ \E seen \in SUBSET (Current(y) \ Current(ctx)) :
            todo' = ((todo \ {o}) \cap Current(y)) \cup seen
       /\ told' = (told \cup {o}) \ Disturbed(ctx, y)
  /\ invalid' \in {invalid} \cup
       (IF phase # "validate" THEN {}
        ELSE (IF "invalid" \in Faults THEN {TRUE} ELSE {})
          \cup (IF pass.kind = "deleted" /\ Denied(ctx, o) THEN {TRUE} ELSE {}))
  /\ (phase = "validate" /\ pass.kind = "deleted" /\ Denied(ctx, o)) => invalid'
  /\ UNCHANGED <<db, validating, phase, pass>>

(* The exception leaves saveChanges, and isValidating as it is.            *)
CallRaises(o) ==
  /\ CalledBack /\ o \in todo
  /\ \/ ctx' \in HookRaises(ctx)
     \/ /\ ctx' \in HookResults(ctx)
        /\ Current(ctx') # Current(ctx)
  /\ EnterPhase("idle", ctx')
  /\ UNCHANGED <<db, validating>>

EmptiedNever(x) == x

(* The queue just gone through is emptied.                                 *)
Emptied(x) == IF pass.src = "tracked" THEN x ELSE [x EXCEPT !.queued[pass.kind] = {}]

(* The queues in the order of the loop, which goes on until all are empty. *)
After(k) ==
  CASE k = "deleted" -> <<"inserted", "updated", "deleted">>
    [] k = "inserted" -> <<"updated", "deleted", "inserted">>
    [] k = "updated" -> <<"deleted", "inserted", "updated">>

NextQueueOnce(x) ==
  IF pass.src = "tracked" /\ x.queued.inserted # {} THEN "inserted" ELSE "none"

NextQueue(x) ==
  LET order == After(IF pass.src = "tracked" THEN "updated" ELSE pass.kind)
      first == {i \in 1 .. 3 : x.queued[order[i]] # {}} IN
  IF first = {} THEN "none"
  ELSE order[CHOOSE i \in first : \A j \in first : i <= j]

LastTracked == pass.src = "tracked" /\ pass.kind = "deleted"

(* updatedObjects, insertedObjects, deletedObjects, each once.             *)
NextTracked ==
  LET k == IF pass.kind = "updated" THEN "inserted" ELSE "deleted" IN
  /\ CalledBack /\ todo = {} /\ pass.src = "tracked" /\ ~LastTracked
  /\ pass' = [src |-> "tracked", kind |-> k]
  /\ todo' = ctx.tracked[k]
  /\ UNCHANGED <<db, ctx, validating, phase, invalid, told>>

Looping == phase \in {"prepare", "validate"} /\ todo = {} /\ (pass.src = "queued" \/ LastTracked)

NextQueued ==
  /\ Looping /\ NextQueue(Emptied(ctx)) # "none"
  /\ ctx' = Emptied(ctx)
  /\ pass' = [src |-> "queued", kind |-> NextQueue(ctx')]
  /\ todo' = ctx'.queued[NextQueue(ctx')]
  /\ UNCHANGED <<db, validating, phase, invalid, told>>

Settled == Looping /\ NextQueue(Emptied(ctx)) = "none" /\ ctx' = Emptied(ctx)

(* The delegate may veto the validation.                                   *)
Prepared ==
  /\ phase = "prepare" /\ Settled
  /\ \/ EnterPhase("validate", ctx') /\ validating' = TRUE
     \/ "veto" \in Faults /\ EnterPhase("store", ctx') /\ UNCHANGED validating
  /\ UNCHANGED db

(* handleException: raises, and nobody takes back isValidating, or it lets *)
(* the application present the exception, and the save goes on.            *)
Validated ==
  /\ phase = "validate" /\ Settled
  /\ \/ invalid /\ EnterPhase("idle", ctx') /\ UNCHANGED validating
     \/ /\ invalid => "present" \in Faults
        /\ EnterPhase("store", ctx') /\ validating' = FALSE
  /\ UNCHANGED db

(* What the context tells the store, and the rows that this concerns.      *)
ToUpdate(x) == x.tracked.updated \cup x.queued.updated
ToInsert(x) == InsertedAnswer(x)
ToDelete(x) == {o \in x.tracked.deleted \cup x.queued.deleted : db[o] # Absent}

(* An update needs a snapshot, an insertion a free key, and an UPDATE of a *)
(* row makes the DELETE of the same row miss it.                           *)
Storable(x) ==
  /\ \A o \in ToUpdate(x) : db[o] # Absent
  /\ \A o \in ToInsert(x) : db[o] = Absent
  /\ \A o \in ToUpdate(x) \cap ToDelete(x) : x.values[o] = db[o]

WrittenByOwnKey(x) ==
  [o \in Object |->
    IF o \in ToDelete(x) THEN Absent
    ELSE IF o \in ToUpdate(x) \cup ToInsert(x) THEN o ELSE db[o]]

Written(x) ==
  [o \in Object |->
    IF o \in ToDelete(x) THEN Absent
    ELSE IF o \in ToUpdate(x) \cup ToInsert(x) THEN x.values[o] ELSE db[o]]

(* saveChangesInEditingContext: of the store, which forgets the objects it *)
(* has deleted.                                                            *)
StoreWrites ==
  LET y == Peeked(ctx) IN
  /\ phase = "store" /\ Storable(y)
  /\ db' = Written(y)
  /\ ctx' = Forgotten(y, ToDelete(y))
  /\ EnterPhase("done", ctx')
  /\ UNCHANGED validating

StoreRefuses ==
  /\ phase = "store"
  /\ ~Storable(Peeked(ctx)) \/ "refuses" \in Faults
  /\ ctx' = Peeked(ctx)
  /\ EnterPhase("idle", ctx')
  /\ UNCHANGED <<db, validating>>

(* The change trackers are cleared; the queues keep what the objects have  *)
(* changed after the save.                                                 *)
Finish ==
  /\ phase = "done" /\ todo = {} /\ LastTracked
  /\ ctx' = [ctx EXCEPT !.tracked = NothingIn, !.cache = {}]
  /\ EnterPhase("idle", ctx')
  /\ UNCHANGED <<db, validating>>

-----------------------------------------------------------------------------
SaveStep ==
  \/ \E o \in Object : Call(o) \/ CallRaises(o)
  \/ NextTracked \/ NextQueued \/ Prepared \/ Validated
  \/ StoreWrites \/ StoreRefuses \/ Finish

Next == Edit \/ Insert \/ Delete \/ HasChanges \/ Peek \/ Save \/ SaveStep

Spec == Init /\ [][Next]_vars

FairSpec == Spec /\ WF_vars(SaveStep)

-----------------------------------------------------------------------------
(* What the application may rely on.                                       *)

Pending(x) == {o \in Object : View(x)[o] # db[o]}

InSome(x, k) == x.tracked[k] \cup x.queued[k]

(* Every difference between what the application sees and what the         *)
(* database has is known to the context as what it is, and nothing that    *)
(* the application has is going to be deleted.                             *)
ChangesTracked ==
  /\ \A o \in Live(ctx) :
       /\ db[o] = Absent => o \in InSome(ctx, "inserted")
       /\ db[o] \notin {Absent, ctx.values[o]} => o \in InSome(ctx, "updated")
       /\ o \notin InSome(ctx, "deleted")
  /\ \A o \in Object \ Live(ctx) :
       /\ db[o] # Absent => o \in InSome(ctx, "deleted")
       /\ o \notin InSome(ctx, "inserted")

(* A save that returns has made the database what the application sees.    *)
Unit ==
  INSTANCE UnitOfWork WITH
    stored <- db,
    view <- View(ctx),
    save <- CASE phase = "idle" -> "none" [] phase = "done" -> "written" [] OTHER -> "open"

SavesAsUnit == Unit!Spec

(* No row refers to a row that is gone.                                    *)
NoDanglingReference == \A o \in Object : db[o] \in Master => db[db[o]] # Absent

Asked == /\ phase \in {"prepare", "validate"}
         /\ phase' \in {"validate", "store"} \ {phase}

(* sendPrepareMessages and sendValidateMethods call every changed object   *)
(* after its last change: what is saved has been validated as it is saved. *)
EveryoneAsked ==
  [][Asked => Pending(ctx) \subseteq told]_vars

(* saveChanges returns or raises, as long as callbacks do not change       *)
(* objects again and again.                                                *)
SaveReturns == phase # "idle" ~> phase = "idle"

(* Insertions and deletions are refused in validation methods only.        *)
RefusedOnlyInValidation == validating => phase = "validate"
=============================================================================
