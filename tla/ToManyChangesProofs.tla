------------------------- MODULE ToManyChangesProofs -------------------------
(***************************************************************************)
(* Theorems about ToManyChanges, for every set of masters and details.     *)
(***************************************************************************)
EXTENDS ToManyChangesInvariants, TLAPS

-----------------------------------------------------------------------------
(* Types.                                                                  *)

LEMMA Constants ==
  /\ Master \subseteq Object /\ Detail \subseteq Object /\ Object = Master \cup Detail
  /\ Master \cap Detail = {}
  /\ None \notin Object /\ Absent \notin Object /\ None # Absent
  /\ Value = Master \cup {None, Absent}
  /\ \A S \in SUBSET Detail : S # Fault /\ S # Unknown
  /\ Stored \subseteq Object
BY ToManyAssumption DEF ToManyAssumption, Object, Value

LEMMA LinkedType ==
  ASSUME NEW m
  PROVE  Linked(m) \in SUBSET Detail
BY DEF Linked

LEMMA ContextFields ==
  ASSUME NEW x \in Context
  PROVE  /\ \A m \in Master : x.list[m] # Fault => x.list[m] \in SUBSET Detail
         /\ x.toOne \in [Detail -> Master \cup {None}]
         /\ x.objects \subseteq Object /\ x.gone \subseteq Object
         /\ x.touched \subseteq Object /\ x.updated \subseteq Object
         /\ x.inserted \subseteq Object /\ x.deleted \subseteq Object
BY DEF Context

LEMMA WillChangeType ==
  ASSUME NEW x \in Context, NEW S
  PROVE  WillChange(x, S) \in Context
BY DEF WillChange, Context

LEMMA ProcessedType ==
  ASSUME NEW x \in Context
  PROVE  Processed(x) \in Context
BY DEF Processed, Context

LEMMA MovedType ==
  ASSUME NEW x \in Context, NEW d \in Detail, NEW m \in Master \cup {None},
         m \in Master => x.list[m] # Fault
  PROVE  Moved(x, d, m) \in Context
<1> DEFINE from == Holders(x, d)
           list == [n \in Master |-> IF n = m THEN x.list[n] \cup {d}
                                     ELSE IF n \in from THEN x.list[n] \ {d} ELSE x.list[n]]
           y == [x EXCEPT !.list = list, !.toOne[d] = IF rel.inverse THEN m ELSE @]
<1>1. list \in [Master -> {Fault} \cup SUBSET Detail]
  <2>1. \A n \in from : x.list[n] # Fault
    BY DEF Holders, Members
  <2>2. \A n \in Master : x.list[n] \in {Fault} \cup SUBSET Detail
    BY DEF Context
  <2> QED
    BY <2>1, <2>2
<1>2. y \in Context
  <2> HIDE DEF list
  <2> QED
    BY <1>1 DEF Context
<1>3. Moved(x, d, m)
        = WillChange(y, from \cup ({m} \cap Master) \cup (IF rel.inverse THEN {d} ELSE {}))
  BY DEF Moved
<1> QED
  BY <1>2, <1>3, WillChangeType

LEMMA InsertedType ==
  ASSUME NEW x \in Context, NEW o \in Object
  PROVE  Inserted(x, o) \in Context
BY DEF Inserted, Context

LEMMA DeletedType ==
  ASSUME NEW x \in Context, NEW S \in SUBSET Detail
  PROVE  Deleted(x, S) \in Context
<1> DEFINE owners == IF rel.inverse THEN {x.toOne[d] : d \in S} \cap Master ELSE {}
           list == [m \in Master |->
                      IF m \in owners THEN (IF x.list[m] = Fault THEN Linked(m) ELSE x.list[m]) \ S
                                      ELSE x.list[m]]
           toOne == [d \in Detail |-> IF d \in S THEN None ELSE x.toOne[d]]
           y == [x EXCEPT !.list = list, !.toOne = toOne, !.gone = @ \cup S,
                          !.inserted = @ \ S, !.deleted = @ \cup S]
<1>1. list \in [Master -> {Fault} \cup SUBSET Detail]
  BY LinkedType DEF Context
<1>2. toOne \in [Detail -> Master \cup {None}]
  BY DEF Context
<1>3. y \in Context
  <2> HIDE DEF list, toOne
  <2> QED
    BY <1>1, <1>2, Constants DEF Context
<1>4. Deleted(x, S) = WillChange(y, S \cup owners)
  BY DEF Deleted
<1> QED
  BY <1>3, <1>4, WillChangeType

LEMMA RelatedType ==
  ASSUME NEW x \in Context
  PROVE  Related(x) \in Context
<1>1. \A S : Missing(x) \ S \in SUBSET Detail
  BY DEF Missing
<1> QED
  BY <1>1, DeletedType, WillChangeType DEF Related

LEMMA AddedToType ==
  ASSUME NEW x
  PROVE  AddedTo(x) \in [Detail -> SUBSET Master]
BY DEF AddedTo

LEMMA ForgottenType ==
  ASSUME NEW x \in Context, NEW S
  PROVE  Forgotten(x, S) \in Context
BY DEF Forgotten, Context

LEMMA OwnerType ==
  ASSUME NEW x \in Context, NEW d \in Detail
  PROVE  Owner(x, d) \in Master \cup {None}
BY DEF Owner, Holders, Context

LEMMA ViewType ==
  ASSUME NEW x \in Context
  PROVE  View(x) \in [Object -> Value]
BY OwnerType, Constants DEF View

LEMMA WrittenType ==
  ASSUME TypeOK, NEW last \in [Detail -> Value]
  PROVE  Written(last) \in [Object -> Value]
<1>1. \A o \in Object : NewRow(o, last) \in Value
  BY Constants DEF NewRow, OwnKey, TypeOK, Context
<1> QED
  BY <1>1, Constants DEF Written, TypeOK

LEMMA RecordedType ==
  ASSUME TypeOK
  PROVE  Recorded \in [Master -> {Unknown} \cup SUBSET Detail]
BY DEF Recorded, TypeOK, Context

LEMMA InitType == Init => TypeOK
BY Constants DEF Init, TypeOK, Context, NoneAdded

LEMMA NextType == TypeOK /\ [Next]_vars => TypeOK'
<1> SUFFICES ASSUME TypeOK, [Next]_vars
             PROVE  TypeOK'
  OBVIOUS
<1> USE DEF Unchanged
<1>0. ctx \in Context
  BY DEF TypeOK
<1>1. ASSUME NEW m \in Master, Fire(m)
      PROVE  TypeOK'
  BY <1>0, <1>1, LinkedType DEF Fire, TypeOK, Context
<1>2. ASSUME NEW m \in Master, Touch(m)
      PROVE  TypeOK'
  BY <1>0, <1>2, WillChangeType DEF Touch, TypeOK
<1>3. ASSUME NEW m \in Master, OtherFetches(m) \/ OtherFires(m)
      PROVE  TypeOK'
  BY <1>3, LinkedType DEF OtherFetches, OtherFires, TypeOK
<1>4. ASSUME NEW d \in Detail, Delete(d)
      PROVE  TypeOK'
  BY <1>0, <1>4, DeletedType DEF Delete, TypeOK
<1>5. ASSUME NEW d \in Detail, NEW m \in Master \cup {None}, Move(d, m)
      PROVE  TypeOK'
  BY <1>0, <1>5, MovedType, Constants DEF Move, TypeOK
<1>6. ASSUME NEW o \in Object, Insert(o)
      PROVE  TypeOK'
  BY <1>0, <1>6, InsertedType DEF Insert, TypeOK
<1>7. ASSUME HasChanges
      PROVE  TypeOK'
  BY <1>0, <1>7, ProcessedType DEF HasChanges, TypeOK
<1>8. ASSUME Save
      PROVE  TypeOK'
  BY <1>0, <1>8, ProcessedType, RelatedType, AddedToType DEF Save, TypeOK
<1>9. ASSUME StoreWrites
      PROVE  TypeOK'
  BY <1>0, <1>9, WrittenType, RecordedType, ForgottenType DEF StoreWrites, TypeOK
<1>10. ASSUME StoreRefuses \/ Finish
       PROVE  TypeOK'
  BY <1>0, <1>10 DEF StoreRefuses, Finish, TypeOK, Context, NoneAdded
<1>11. CASE UNCHANGED vars
  BY <1>11 DEF vars, TypeOK
<1> QED
  BY <1>1, <1>2, <1>3, <1>4, <1>5, <1>6, <1>7, <1>8, <1>9, <1>10, <1>11 DEF Next

(* Whatever relationship, whatever other contexts and callbacks do.        *)
THEOREM TypeCorrect == Spec => []TypeOK
BY InitType, NextType, PTL DEF Spec

-----------------------------------------------------------------------------
(* Lists and owners.                                                       *)

(* The owner of a detail is the master in whose list it is.                *)
LEMMA OwnerIn ==
  ASSUME NEW x \in Context, Consistent(x), NEW d \in LiveDetail(x), NEW m \in Master
  PROVE  Owner(x, d) = m <=> In(x, d, m)
<1> d \in Detail
  BY DEF LiveDetail
<1>1. CASE rel.inverse
  BY <1>1 DEF Owner, Consistent
<1>2. CASE ~rel.inverse /\ Holders(x, d) # {}
  <2>1. Owner(x, d) \in Holders(x, d)
    BY <1>2 DEF Owner
  <2>2. Owner(x, d) \in Master /\ In(x, d, Owner(x, d))
    BY <2>1 DEF Holders, Members, In
  <2> QED
    BY <2>2 DEF Consistent
<1>3. CASE ~rel.inverse /\ Holders(x, d) = {}
  <2>1. In(x, d, m) <=> x.list[m] = Fault /\ db[d] = m
    BY <1>3 DEF Holders, Members, In
  <2>2. Owner(x, d) = IF db[d] \in Master /\ x.list[db[d]] = Fault THEN db[d] ELSE None
    BY <1>3 DEF Owner
  <2> QED
    BY <2>1, <2>2, Constants
<1> QED
  BY <1>1, <1>2, <1>3

LEMMA NoOwner ==
  ASSUME NEW x \in Context, Consistent(x), NEW d \in LiveDetail(x)
  PROVE  Owner(x, d) = None <=> \A m \in Master : ~In(x, d, m)
<1>1. d \in Detail
  BY DEF LiveDetail
<1> QED
  BY <1>1, OwnerIn, OwnerType, Constants

(* y has the same objects as x in the same lists ...                       *)
Alike(x, y) ==
  /\ Live(y) = Live(x)
  /\ \A d \in LiveDetail(x), m \in Master : In(y, d, m) <=> In(x, d, m)

(* ... and the application does not see the difference.                    *)
LEMMA AlikeView ==
  ASSUME NEW x \in Context, NEW y \in Context, Consistent(x), Consistent(y), Alike(x, y)
  PROVE  View(y) = View(x)
<1>1. LiveDetail(y) = LiveDetail(x)
  BY DEF Alike, LiveDetail
<1>2. ASSUME NEW d \in LiveDetail(x)
      PROVE  Owner(y, d) = Owner(x, d)
  <2>1. d \in Detail /\ Owner(x, d) \in Master \cup {None} /\ Owner(y, d) \in Master \cup {None}
    BY OwnerType DEF LiveDetail
  <2>2. \A m \in Master : Owner(y, d) = m <=> Owner(x, d) = m
    BY <1>1, OwnerIn DEF Alike
  <2> QED
    BY <2>1, <2>2, Constants
<1>3. \A o \in Detail : o \in Live(x) => /\ Owner(y, o) = Owner(x, o)
                                         /\ Orphaned(y, o) <=> Orphaned(x, o)
  BY <1>2 DEF LiveDetail, Orphaned
<1> QED
  BY <1>3 DEF View, Alike

(* What does not depend on the phase.                                      *)
Base(x) == Consistent(x) /\ Registered(x) /\ RowsKnown(x)

LEMMA DetailsAreNoMasters ==
  ASSUME NEW x \in Context, Base(x)
  PROVE  /\ Live(x) \subseteq x.objects
         /\ \A m \in Master : m \in x.objects => m \in Live(x)
         /\ \A d \in Detail : d \in Live(x) <=> d \in LiveDetail(x)
         /\ \A o \in Live(x) : o \notin x.deleted
         /\ \A m \in Master : m \notin x.deleted
BY Constants DEF Base, Registered, Live, LiveDetail

(* A change of trackers only.                                              *)
Same(x, y) ==
  /\ y.list = x.list /\ y.toOne = x.toOne /\ y.objects = x.objects /\ y.gone = x.gone
  /\ y.inserted = x.inserted /\ y.deleted = x.deleted

LEMMA SameBase ==
  ASSUME NEW x \in Context, NEW y \in Context, Same(x, y), Base(x)
  PROVE  Base(y) /\ Alike(x, y)
BY DEF Same, Base, Consistent, Registered, RowsKnown, Alike, Live, LiveDetail, In

LEMMA SameUnsaved ==
  ASSUME NEW x \in Context, NEW y \in Context, Same(x, y), Base(x), Unsaved(x),
         \A o \in Live(x) : o \in Tracked(x) => o \in Tracked(y),
         \A m \in Master : m \in Tracked(x) => m \in Tracked(y)
  PROVE  Unsaved(y)
<1>1. Live(y) = Live(x) /\ LiveDetail(y) = LiveDetail(x) /\ \A d, m : In(y, d, m) <=> In(x, d, m)
  BY DEF Same, Live, LiveDetail, In
<1>2. LiveDetail(x) \subseteq Live(x)
  BY DEF LiveDetail
<1> QED
  BY <1>1, <1>2 DEF Same, Unsaved

LEMMA SameSnapshots ==
  ASSUME NEW x, NEW y, Same(x, y), Snapshots(x)
  PROVE  Snapshots(y)
BY DEF Same, Snapshots

LEMMA WillChangeFields ==
  ASSUME NEW x \in Context, NEW S
  PROVE  /\ Same(x, WillChange(x, S))
         /\ WillChange(x, S).touched = x.touched \cup (S \cap x.objects)
         /\ WillChange(x, S).updated = x.updated
         /\ Tracked(x) \subseteq Tracked(WillChange(x, S))
BY DEF Same, WillChange, Tracked, Context

LEMMA ProcessedFields ==
  ASSUME NEW x \in Context
  PROVE  /\ Same(x, Processed(x))
         /\ Processed(x).touched = {}
         /\ Processed(x).updated = x.updated \cup (x.touched \ (x.inserted \cup x.deleted))
         /\ Tracked(x) \ x.deleted \subseteq Tracked(Processed(x))
BY DEF Same, Processed, Tracked, Context

LEMMA WillChangeKeeps ==
  ASSUME NEW x \in Context, NEW S, Base(x), Unsaved(x), Snapshots(x)
  PROVE  LET y == WillChange(x, S) IN Base(y) /\ Alike(x, y) /\ Unsaved(y) /\ Snapshots(y)
BY WillChangeType, WillChangeFields, SameBase, SameUnsaved, SameSnapshots

LEMMA ProcessedKeeps ==
  ASSUME NEW x \in Context, Base(x), Unsaved(x), Snapshots(x)
  PROVE  LET y == Processed(x) IN Base(y) /\ Alike(x, y) /\ Unsaved(y) /\ Snapshots(y)
<1>1. \A o \in Live(x) \cup Master : o \in Tracked(x) => o \in Tracked(Processed(x))
  BY ProcessedFields, DetailsAreNoMasters
<1> QED
  BY <1>1, ProcessedType, ProcessedFields, SameBase, SameUnsaved, SameSnapshots

-----------------------------------------------------------------------------
(* The application's operations keep what the save relies on.              *)

(* The masters whose lists a deletion changes.                             *)
Losers(x, S) == IF rel.inverse THEN {x.toOne[d] : d \in S} \cap Master ELSE {}

(* Deletion does not touch the lists of the other details ...              *)
LEMMA DeletedFields ==
  ASSUME NEW x \in Context, NEW S \in SUBSET Detail
  PROVE  LET y == Deleted(x, S)
         IN /\ \A m \in Master : y.list[m] = IF m \in Losers(x, S)
                                   THEN (IF x.list[m] = Fault THEN Linked(m) ELSE x.list[m]) \ S
                                   ELSE x.list[m]
            /\ \A d \in Detail : y.toOne[d] = IF d \in S THEN None ELSE x.toOne[d]
            /\ y.objects = x.objects /\ y.gone = x.gone \cup S
            /\ y.inserted = x.inserted \ S /\ y.deleted = x.deleted \cup S
            /\ y.updated = x.updated
            /\ x.touched \subseteq y.touched
BY DEF Deleted, WillChange, Context, Losers

LEMMA DeletedIn ==
  ASSUME NEW x \in Context, NEW S \in SUBSET Detail, NEW d \in Detail \ S, NEW m \in Master
  PROVE  In(Deleted(x, S), d, m) <=> In(x, d, m)
<1> DEFINE y == Deleted(x, S)
<1> DEFINE fired == (IF x.list[m] = Fault THEN Linked(m) ELSE x.list[m]) \ S
<1>1. y.list[m] = x.list[m] \/ y.list[m] = fired
  <2>1. y.list[m] = IF m \in Losers(x, S) THEN fired ELSE x.list[m]
    BY DeletedFields
  <2> QED
    BY <2>1
<1>2. CASE y.list[m] = x.list[m]
  BY <1>2 DEF In
<1>3. CASE y.list[m] = (IF x.list[m] = Fault THEN Linked(m) ELSE x.list[m]) \ S
  <2>1. y.list[m] \in SUBSET Detail
    BY <1>3, LinkedType, ContextFields
  <2>2. y.list[m] # Fault
    BY <2>1, Constants
  <2>3. d \in Linked(m) <=> db[d] = m
    BY DEF Linked
  <2> QED
    BY <1>3, <2>2, <2>3 DEF In
<1> QED
  BY <1>1, <1>2, <1>3

LEMMA DeletedLive ==
  ASSUME NEW x \in Context, NEW S \in SUBSET Detail
  PROVE  /\ Live(Deleted(x, S)) = Live(x) \ S
         /\ LiveDetail(Deleted(x, S)) = LiveDetail(x) \ S
BY DeletedFields DEF Live, LiveDetail

(* ... provided that those it takes the deleted from have fired.           *)
LEMMA DeletedKeeps ==
  ASSUME NEW x \in Context, NEW S \in SUBSET Detail, Base(x), Unsaved(x), Snapshots(x),
         rel.inverse => \A d \in S : x.toOne[d] \in Master => x.list[x.toOne[d]] # Fault
  PROVE  LET y == Deleted(x, S) IN Base(y) /\ Unsaved(y) /\ Snapshots(y)
<1> DEFINE y == Deleted(x, S)
<1>0. /\ y \in Context
      /\ LiveDetail(x) \subseteq Detail
  BY DeletedType DEF LiveDetail
<1>1. \A m \in Master : /\ y.list[m] = Fault <=> x.list[m] = Fault
                        /\ x.list[m] # Fault => y.list[m] \subseteq x.list[m]
  <2> SUFFICES ASSUME NEW m \in Master
               PROVE  /\ y.list[m] = Fault <=> x.list[m] = Fault
                      /\ x.list[m] # Fault => y.list[m] \subseteq x.list[m]
    OBVIOUS
  <2>0. y.list[m] = IF m \in Losers(x, S) THEN (IF x.list[m] = Fault THEN Linked(m) ELSE x.list[m]) \ S
                                         ELSE x.list[m]
    BY DeletedFields
  <2>1. CASE m \in Losers(x, S)
    <3>1. x.list[m] # Fault
      BY <2>1 DEF Losers
    <3>2. y.list[m] = x.list[m] \ S
      BY <2>0, <2>1, <3>1
    <3>3. y.list[m] \in SUBSET Detail
      BY <3>1, <3>2, ContextFields
    <3> QED
      BY <3>1, <3>2, <3>3, Constants
  <2>2. CASE m \notin Losers(x, S)
    BY <2>0, <2>2
  <2> QED
    BY <2>1, <2>2
<1>2. \A d \in LiveDetail(x) \ S, m \in Master : /\ In(y, d, m) <=> In(x, d, m)
                                                 /\ y.toOne[d] = x.toOne[d]
  BY <1>0, DeletedIn, DeletedFields
<1>3. Consistent(y)
  BY <1>2, DeletedLive DEF Base, Consistent
<1>4. Registered(y)
  <2>1. \A m \in Master : y.list[m] # Fault => /\ m \in y.objects
                                               /\ y.list[m] \subseteq y.objects \cup y.gone
    BY <1>1, DeletedFields DEF Base, Registered
  <2>2. rel.inverse => \A d \in y.gone : y.toOne[d] = None
    BY DeletedFields DEF Base, Registered
  <2> QED
    BY <2>1, <2>2, DeletedFields DEF Base, Registered
<1>5. RowsKnown(y)
  BY DeletedFields DEF Base, RowsKnown
<1>6. \A o \in (Live(x) \ S) \cup Master : o \in Tracked(x) => o \in Tracked(y)
  BY DeletedFields, Constants DEF Tracked
<1>7. Unsaved(y)
  <2>1. \A o \in Object : o \in y.inserted <=> o \in Live(y) /\ db[o] = Absent
    BY DeletedFields, DeletedLive DEF Unsaved
  <2>2. \A o \in Object \ Live(y) : db[o] # Absent => o \in y.deleted
    BY DeletedFields, DeletedLive DEF Unsaved
  <2>3. \A d \in LiveDetail(y), m \in Master : (In(y, d, m) <=> db[d] = m) \/ m \in Tracked(y)
    BY <1>2, <1>6, DeletedLive DEF Unsaved
  <2>4. rel.inverse => \A d \in LiveDetail(y) : y.toOne[d] = db[d] \/ d \in Tracked(y)
    <3>1. \A d \in LiveDetail(y) : d \in Live(x) \ S
      BY DeletedLive DEF LiveDetail
    <3> QED
      BY <1>0, <1>6, <3>1, DeletedFields, DeletedLive DEF Unsaved
  <2>5. ~rel.inverse /\ ~rel.owns =>
          \A d \in LiveDetail(y) : db[d] \in Master => \E m \in Master : In(y, d, m)
    BY <1>2, DeletedLive DEF Unsaved
  <2> QED
    BY <2>1, <2>2, <2>3, <2>4, <2>5 DEF Unsaved
<1>8. Snapshots(y)
  BY <1>1, DeletedFields DEF Snapshots
<1> QED
  BY <1>3, <1>4, <1>5, <1>7, <1>8 DEF Base

(* A detail that moves is in the list of its new master only ...           *)
LEMMA MovedIn ==
  ASSUME NEW x \in Context, Base(x), NEW d \in LiveDetail(x), NEW m \in Master \cup {None},
         MayLeave(x, d), m \in Master => x.list[m] # Fault
  PROVE  LET y == Moved(x, d, m)
         IN /\ \A n \in Master : /\ y.list[n] = Fault <=> x.list[n] = Fault
                                 /\ x.list[n] # Fault => y.list[n] \subseteq x.list[n] \cup {d}
            /\ \A n \in Master : In(y, d, n) <=> n = m
            /\ \A e \in Detail \ {d}, n \in Master : In(y, e, n) <=> In(x, e, n)
            /\ \A e \in Detail \ {d} : y.toOne[e] = x.toOne[e]
            /\ rel.inverse => y.toOne[d] = m
            /\ y.objects = x.objects /\ y.gone = x.gone
            /\ y.inserted = x.inserted /\ y.deleted = x.deleted /\ y.updated = x.updated
            /\ x.touched \subseteq y.touched
            /\ Holders(x, d) \cap x.objects \subseteq y.touched
            /\ m \in Master \cap x.objects => m \in y.touched
            /\ rel.inverse => d \in y.touched
<1> DEFINE y == Moved(x, d, m)
           from == Holders(x, d)
<1>0. d \in Detail /\ d \in x.objects
  BY DEF LiveDetail, Live
<1>1. /\ y.list = [n \in Master |-> IF n = m THEN x.list[n] \cup {d}
                                    ELSE IF n \in from THEN x.list[n] \ {d} ELSE x.list[n]]
      /\ y.toOne = [x.toOne EXCEPT ![d] = IF rel.inverse THEN m ELSE @]
      /\ y.objects = x.objects /\ y.gone = x.gone
      /\ y.inserted = x.inserted /\ y.deleted = x.deleted /\ y.updated = x.updated
      /\ y.touched = x.touched \cup ((from \cup ({m} \cap Master)
                                      \cup (IF rel.inverse THEN {d} ELSE {})) \cap x.objects)
  BY DEF Moved, WillChange, Context
<1>2. \A n \in from : x.list[n] # Fault /\ d \in x.list[n]
  BY DEF Holders, Members
<1>3. \A n \in Master : n \notin from /\ x.list[n] # Fault => d \notin x.list[n]
  BY DEF Holders, Members
<1>4. \A n \in Master : x.list[n] = Fault => db[d] # n
  <2> SUFFICES ASSUME NEW n \in Master, x.list[n] = Fault, db[d] = n
               PROVE  FALSE
    OBVIOUS
  <2>1. Owner(x, d) = n
    BY OwnerIn DEF Base, In
  <2> QED
    BY <2>1 DEF MayLeave
<1>5. ASSUME NEW n \in Master, x.list[n] # Fault
      PROVE  /\ y.list[n] # Fault
             /\ y.list[n] \subseteq x.list[n] \cup {d}
             /\ d \in y.list[n] <=> n = m
             /\ \A e \in Detail \ {d} : e \in y.list[n] <=> e \in x.list[n]
  <2>1. x.list[n] \in SUBSET Detail
    BY <1>5, ContextFields
  <2>2. y.list[n] = IF n = m THEN x.list[n] \cup {d}
                    ELSE IF n \in from THEN x.list[n] \ {d} ELSE x.list[n]
    BY <1>1
  <2>3. y.list[n] \in SUBSET Detail
    BY <1>0, <2>1, <2>2
  <2> QED
    BY <1>3, <1>5, <2>2, <2>3, Constants
<1>6. ASSUME NEW n \in Master, x.list[n] = Fault
      PROVE  n # m /\ y.list[n] = Fault
  BY <1>1, <1>2, <1>6
<1>7. \A n \in Master : y.list[n] = Fault <=> x.list[n] = Fault
  BY <1>5, <1>6
<1>8. \A n \in Master : In(y, d, n) <=> n = m
  BY <1>4, <1>5, <1>6 DEF In
<1>9. \A e \in Detail \ {d}, n \in Master : In(y, e, n) <=> In(x, e, n)
  BY <1>5, <1>6 DEF In
<1>10. \A e \in Detail : y.toOne[e] = IF e = d /\ rel.inverse THEN m ELSE x.toOne[e]
  BY <1>0, <1>1, ContextFields
<1> QED
  BY <1>0, <1>1, <1>5, <1>7, <1>8, <1>9, <1>10

(* ... and every master whose list it changes is tracked.                  *)
LEMMA MovedKeeps ==
  ASSUME NEW x \in Context, Base(x), Unsaved(x), Snapshots(x),
         NEW d \in LiveDetail(x), NEW m \in Master \cup {None},
         MayLeave(x, d), m \in Master => m \in Live(x) /\ x.list[m] # Fault,
         m = None => rel.inverse \/ rel.owns \/ db[d] \notin Master
  PROVE  LET y == Moved(x, d, m) IN Base(y) /\ Unsaved(y) /\ Snapshots(y)
<1> DEFINE y == Moved(x, d, m)
<1>0. LiveDetail(x) \subseteq Detail /\ LiveDetail(x) \subseteq Live(x) /\ Live(x) \subseteq x.objects
  BY DEF LiveDetail, Live
<1>1. Live(y) = Live(x) /\ LiveDetail(y) = LiveDetail(x)
  BY MovedIn DEF LiveDetail, Live
<1>2. \A n \in Master : In(y, d, n) <=> n = m
  BY MovedIn
<1>3. \A e \in LiveDetail(x) \ {d} : /\ \A n \in Master : In(y, e, n) <=> In(x, e, n)
                                     /\ y.toOne[e] = x.toOne[e]
  BY <1>0, MovedIn
<1>4. Consistent(y)
  <2>1. \A e \in LiveDetail(x), k, n \in Master : In(y, e, k) /\ In(y, e, n) => k = n
    BY <1>2, <1>3 DEF Base, Consistent
  <2>2. rel.inverse => \A e \in LiveDetail(x), n \in Master : y.toOne[e] = n <=> In(y, e, n)
    <3> SUFFICES ASSUME rel.inverse, NEW e \in LiveDetail(x), NEW n \in Master
                 PROVE  y.toOne[e] = n <=> In(y, e, n)
      OBVIOUS
    <3>1. y.toOne[d] = m
      BY MovedIn
    <3>2. x.toOne[e] = n <=> In(x, e, n)
      BY DEF Base, Consistent
    <3>3. CASE e = d
      BY <1>2, <3>1, <3>3
    <3>4. CASE e # d
      BY <1>3, <3>2, <3>4
    <3> QED
      BY <3>3, <3>4
  <2> QED
    BY <1>1, <2>1, <2>2 DEF Consistent
<1>5. Registered(y)
  <2>1. \A n \in Master : y.list[n] # Fault => /\ n \in y.objects
                                               /\ y.list[n] \subseteq y.objects \cup y.gone
    BY <1>0, MovedIn DEF Base, Registered
  <2>2. rel.inverse => \A e \in y.gone : y.toOne[e] = None
    <3>1. x.gone \subseteq Detail \ {d}
      BY DEF Base, Registered, LiveDetail, Live
    <3>2. \A e \in x.gone : y.toOne[e] = x.toOne[e]
      BY <3>1, MovedIn
    <3>3. y.gone = x.gone
      BY MovedIn
    <3> QED
      BY <3>2, <3>3 DEF Base, Registered
  <2> QED
    BY <2>1, <2>2, MovedIn DEF Base, Registered
<1>6. RowsKnown(y)
  BY MovedIn DEF Base, RowsKnown
<1>7. Tracked(x) \subseteq Tracked(y)
  BY MovedIn DEF Tracked
<1>8. \A n \in Master : (In(y, d, n) <=> db[d] = n) \/ n \in Tracked(y)
  <2> SUFFICES ASSUME NEW n \in Master, n # m, db[d] = n
               PROVE  n \in Tracked(y)
    <3>1. m \in Master => m \in Tracked(y)
      BY <1>0, MovedIn DEF Tracked
    <3> QED
      BY <1>2, <3>1
  <2>1. CASE ~In(x, d, n)
    BY <1>7, <2>1 DEF Unsaved
  <2>2. CASE In(x, d, n)
    <3>1. x.list[n] # Fault
      BY <2>2, OwnerIn DEF Base, MayLeave
    <3>2. n \in Holders(x, d) /\ n \in x.objects
      BY <2>2, <3>1 DEF In, Holders, Members, Base, Registered
    <3> QED
      BY <3>2, MovedIn DEF Tracked
  <2> QED
    BY <2>1, <2>2
<1>9. Unsaved(y)
  <2>1. \A e \in LiveDetail(x), n \in Master : (In(y, e, n) <=> db[e] = n) \/ n \in Tracked(y)
    BY <1>3, <1>7, <1>8 DEF Unsaved
  <2>2. rel.inverse => \A e \in LiveDetail(x) : y.toOne[e] = db[e] \/ e \in Tracked(y)
    <3>1. rel.inverse => d \in Tracked(y)
      BY MovedIn DEF Tracked
    <3> QED
      BY <1>3, <1>7, <3>1 DEF Unsaved
  <2>3. ~rel.inverse /\ ~rel.owns =>
          \A e \in LiveDetail(x) : db[e] \in Master => \E n \in Master : In(y, e, n)
    BY <1>2, <1>3 DEF Unsaved
  <2>4. y.inserted = x.inserted /\ y.deleted = x.deleted
    BY MovedIn
  <2> QED
    BY <1>1, <2>1, <2>2, <2>3, <2>4 DEF Unsaved
<1>10. Snapshots(y)
  BY MovedIn DEF Snapshots
<1> QED
  BY <1>4, <1>5, <1>6, <1>9, <1>10 DEF Base

(* A new object is in no list, and a new master's list is empty.           *)
LEMMA InsertedKeeps ==
  ASSUME NEW x \in Context, Base(x), Unsaved(x), Snapshots(x),
         NEW o \in Object, db[o] = Absent, o \notin x.objects \cup x.gone
  PROVE  LET y == Inserted(x, o) IN Base(y) /\ Unsaved(y) /\ Snapshots(y)
<1> DEFINE y == Inserted(x, o)
<1>1. /\ \A m \in Master : y.list[m] = IF m = o THEN {} ELSE x.list[m]
      /\ \A d \in Detail : y.toOne[d] = IF d = o THEN None ELSE x.toOne[d]
      /\ y.objects = x.objects \cup {o} /\ y.inserted = x.inserted \cup {o}
      /\ y.gone = x.gone /\ y.deleted = x.deleted
      /\ y.touched = x.touched /\ y.updated = x.updated
  BY DEF Inserted, Context
<1>2. /\ Live(y) = Live(x) \cup {o} /\ o \notin Live(x)
      /\ LiveDetail(y) = LiveDetail(x) \cup ({o} \cap Detail)
      /\ LiveDetail(x) \subseteq Detail
  BY <1>1 DEF Live, LiveDetail
<1>3. \A m \in Master : x.list[m] # Fault => m \in x.objects /\ o \notin x.list[m]
  BY DEF Base, Registered
<1>4. \A d \in Detail : db[d] \in Master => db[d] # o
  BY DEF Base, RowsKnown
<1>5. Absent \notin Master /\ None \notin Master /\ {} # Fault
  BY Constants
<1>6. \A d \in LiveDetail(x), m \in Master : In(y, d, m) <=> In(x, d, m)
  <2> SUFFICES ASSUME NEW d \in LiveDetail(x), NEW m \in Master
               PROVE  In(y, d, m) <=> In(x, d, m)
    OBVIOUS
  <2>1. CASE m = o
    <3>1. x.list[m] = Fault /\ db[d] # m
      BY <1>2, <1>3, <1>4, <2>1
    <3>2. y.list[m] = {}
      BY <1>1, <2>1
    <3> QED
      BY <1>5, <3>1, <3>2 DEF In
  <2>2. CASE m # o
    BY <1>1, <2>2 DEF In
  <2> QED
    BY <2>1, <2>2
<1>7. o \in Detail => \A m \in Master : ~In(y, o, m)
  <2> SUFFICES ASSUME o \in Detail, NEW m \in Master
               PROVE  ~In(y, o, m)
    OBVIOUS
  <2>1. m # o
    BY Constants
  <2>2. y.list[m] = x.list[m]
    BY <1>1, <2>1
  <2> QED
    BY <1>3, <1>5, <2>2 DEF In
<1>8. \A d \in LiveDetail(x) : y.toOne[d] = x.toOne[d]
  BY <1>1, <1>2 DEF LiveDetail
<1>9. o \in Detail => y.toOne[o] = None
  BY <1>1
<1>10. Consistent(y)
  <2>1. \A d \in LiveDetail(y), k, n \in Master : In(y, d, k) /\ In(y, d, n) => k = n
    BY <1>2, <1>6, <1>7 DEF Base, Consistent
  <2>2. ASSUME rel.inverse, NEW d \in LiveDetail(y), NEW m \in Master
        PROVE  y.toOne[d] = m <=> In(y, d, m)
    <3>1. CASE d = o
      BY <1>2, <1>5, <1>7, <1>9, <3>1, Constants
    <3>2. CASE d # o
      <4>1. d \in LiveDetail(x)
        BY <1>2, <3>2
      <4>2. x.toOne[d] = m <=> In(x, d, m)
        BY <2>2, <4>1 DEF Base, Consistent
      <4> QED
        BY <1>6, <1>8, <4>1, <4>2
    <3> QED
      BY <3>1, <3>2
  <2> QED
    BY <2>1, <2>2 DEF Consistent
<1>11. Registered(y)
  <2>1. \A m \in Master : y.list[m] # Fault => /\ m \in y.objects
                                               /\ y.list[m] \subseteq y.objects \cup y.gone
    BY <1>1, <1>3 DEF Base, Registered
  <2>2. rel.inverse => \A d \in y.gone : y.toOne[d] = None
    <3>1. \A d \in x.gone : y.toOne[d] = x.toOne[d]
      BY <1>1 DEF Base, Registered
    <3> QED
      BY <1>1, <3>1 DEF Base, Registered
  <2> QED
    BY <1>1, <2>1, <2>2 DEF Base, Registered
<1>12. RowsKnown(y)
  BY <1>1 DEF Base, RowsKnown
<1>13. Tracked(y) = Tracked(x) \cup {o}
  BY <1>1 DEF Tracked
<1>14. Unsaved(y)
  <2>1. \A p \in Object : p \in y.inserted <=> p \in Live(y) /\ db[p] = Absent
    BY <1>1, <1>2 DEF Unsaved
  <2>2. \A p \in Object \ Live(y) : db[p] # Absent => p \in y.deleted
    BY <1>1, <1>2 DEF Unsaved
  <2>3. \A d \in LiveDetail(y), m \in Master : (In(y, d, m) <=> db[d] = m) \/ m \in Tracked(y)
    BY <1>2, <1>5, <1>6, <1>7, <1>13 DEF Unsaved
  <2>4. rel.inverse => \A d \in LiveDetail(y) : y.toOne[d] = db[d] \/ d \in Tracked(y)
    BY <1>2, <1>8, <1>13 DEF Unsaved
  <2>5. ~rel.inverse /\ ~rel.owns =>
          \A d \in LiveDetail(y) : db[d] \in Master => \E m \in Master : In(y, d, m)
    BY <1>2, <1>5, <1>6 DEF Unsaved
  <2> QED
    BY <2>1, <2>2, <2>3, <2>4, <2>5 DEF Unsaved
<1>15. Snapshots(y)
  BY <1>1, <1>5 DEF Snapshots
<1> QED
  BY <1>10, <1>11, <1>12, <1>14, <1>15 DEF Base

-----------------------------------------------------------------------------
(* _processRelationships finds out everything, and the application sees    *)
(* no difference: what it deletes is what no list has any more.            *)
LEMMA RelatedKeeps ==
  ASSUME NEW x \in Context, db \in [Object -> Value], x.touched = {},
         Base(x), Unsaved(x), Snapshots(x), added' = AddedTo(x)
  PROVE  LET y == Processed(Related(x))
         IN Base(y) /\ Unsaved(y) /\ Snapshots(y) /\ View(y) = View(x)
            /\ (db' = db /\ rel' = rel /\ ctx' = y => Told(ctx)')
<1> DEFINE new == {d \in Detail : AddedTo(x)[d] # {}}
           S == IF rel.owns THEN Missing(x) \ new ELSE {}
           z == IF rel.owns THEN Deleted(x, S) ELSE x
           told == (IF rel.owns THEN {} ELSE Missing(x)) \cup new
           y == Processed(Related(x))
<1>0. /\ Tracked(x) = x.updated \cup x.inserted
      /\ LiveDetail(x) \subseteq Detail /\ LiveDetail(x) \subseteq Live(x)
      /\ Live(x) \subseteq x.objects
      /\ S \in SUBSET Detail
      /\ \A d \in Detail : d \in new <=> \E m \in Master : m \in AddedTo(x)[d]
  BY DEF Tracked, LiveDetail, Live, Missing, AddedTo
<1>1. Related(x) = WillChange(z, told)
  BY DEF Related
(* What has been added is in the list,                                     *)
<1>2. ASSUME NEW d \in Detail, NEW m \in AddedTo(x)[d]
      PROVE  m \in Master /\ x.list[m] # Fault /\ d \in x.list[m]
  <2>1. m \in Master /\ d \in Added(x, m)
    BY <1>2 DEF AddedTo
  <2>2. d \in Members(x, m)
    BY <2>1 DEF Added
  <2> QED
    BY <2>1, <2>2 DEF Members
(* and what is in a list without the row to match has been added.          *)
<1>3. ASSUME NEW d \in LiveDetail(x), NEW m \in Master, In(x, d, m), db[d] # m
      PROVE  m \in AddedTo(x)[d]
  <2>1. m \in x.updated \cup x.inserted
    BY <1>0, <1>3 DEF Unsaved
  <2>2. d \in Members(x, m)
    BY <1>3 DEF In, Members
  <2>3. toMany[m] # Unknown => d \notin toMany[m]
    <3> SUFFICES ASSUME toMany[m] # Unknown, d \in toMany[m]
                 PROVE  FALSE
      OBVIOUS
    <3>1. d \in Rows \cup x.gone
      BY DEF Snapshots
    <3>2. d \notin x.gone
      BY DEF LiveDetail, Live
    <3>3. d \in Linked(m)
      BY <3>1, <3>2 DEF Snapshots
    <3> QED
      BY <1>3, <3>3 DEF Linked
  <2> QED
    BY <1>0, <2>1, <2>2, <2>3 DEF AddedTo, Added
(* What is to be deleted has been lost by the master of its row            *)
<1>4. ASSUME NEW d \in S, d \in LiveDetail(x)
      PROVE  /\ db[d] \in Master
             /\ \A n \in Master : ~In(x, d, n)
  <2>1. PICK m \in Master : d \in Removed(x, m)
    BY <1>4 DEF Missing
  <2>2. toMany[m] # Unknown /\ d \in toMany[m] /\ d \notin Members(x, m)
    BY <2>1 DEF Removed
  <2>3. x.list[m] # Fault
    BY <1>4, <2>2 DEF Snapshots
  <2>4. ~In(x, d, m)
    BY <2>2, <2>3 DEF In, Members
  <2>5. d \in Rows
    BY <1>4, <2>2 DEF Snapshots, LiveDetail, Live
  <2>6. db[d] = m
    BY <2>2, <2>5 DEF Snapshots, Linked
  <2>7. \A n \in Master : n \notin AddedTo(x)[d]
    BY <1>0, <1>4
  <2> QED
    BY <1>3, <1>4, <2>4, <2>6, <2>7
(* and is in no other list.                                                *)
<1>5. rel.inverse => \A d \in S : x.toOne[d] \notin Master
  <2> SUFFICES ASSUME rel.inverse, NEW d \in S
               PROVE  x.toOne[d] \notin Master
    OBVIOUS
  <2>1. CASE d \in LiveDetail(x)
    BY <1>4, <2>1 DEF Base, Consistent
  <2>2. CASE d \notin LiveDetail(x)
    <3>1. d \in x.gone
      BY <1>0, <2>2 DEF Missing, LiveDetail, Live
    <3> QED
      BY <3>1, Constants DEF Base, Registered
  <2> QED
    BY <2>1, <2>2
<1>6. /\ z \in Context
      /\ Base(z) /\ Unsaved(z) /\ Snapshots(z)
      /\ \A m \in Master : z.list[m] = x.list[m]
      /\ Live(z) = Live(x) \ S /\ LiveDetail(z) = LiveDetail(x) \ S
      /\ z.objects = x.objects
  <2>1. CASE rel.owns
    <3>1. z = Deleted(x, S)
      BY <2>1
    <3> HIDE DEF z, S
    <3>2. Losers(x, S) = {}
      BY <1>5 DEF Losers
    <3>3. \A m \in Master : z.list[m] = x.list[m]
      <4> SUFFICES ASSUME NEW m \in Master
                   PROVE  z.list[m] = x.list[m]
        OBVIOUS
      <4>1. z.list[m] = IF m \in Losers(x, S)
                          THEN (IF x.list[m] = Fault THEN Linked(m) ELSE x.list[m]) \ S
                          ELSE x.list[m]
        BY <1>0, <3>1, DeletedFields
      <4> QED
        BY <3>2, <4>1
    <3>4. z.objects = x.objects
      BY <1>0, <3>1, DeletedFields
    <3> QED
      BY <1>0, <1>5, <3>1, <3>3, <3>4, DeletedKeeps, DeletedType, DeletedLive
  <2>2. CASE ~rel.owns
    BY <2>2
  <2> QED
    BY <2>1, <2>2
<1>7. \A d \in LiveDetail(z), m \in Master : In(z, d, m) <=> In(x, d, m)
  BY <1>6 DEF In
<1>8. View(z) = View(x)
  <2>1. ASSUME NEW d \in LiveDetail(z)
        PROVE  Owner(z, d) = Owner(x, d)
    <3>1. d \in LiveDetail(x) /\ d \in Detail
      BY <1>0, <1>6, <2>1
    <3>2. \A m \in Master : Owner(z, d) = m <=> Owner(x, d) = m
      BY <1>6, <1>7, <2>1, <3>1, OwnerIn DEF Base
    <3> QED
      BY <1>6, <3>1, <3>2, OwnerType, Constants
  <2>2. ASSUME NEW d \in S, d \in Live(x)
        PROVE  Orphaned(x, d)
    <3>1. d \in LiveDetail(x)
      BY <1>0, <2>2 DEF LiveDetail
    <3>2. Owner(x, d) = None
      BY <1>4, <2>2, <3>1, NoOwner DEF Base
    <3> QED
      BY <1>4, <2>2, <3>1, <3>2 DEF Orphaned
  <2>3. \A o \in Object : o \in Live(z) <=> o \in Live(x) /\ o \notin S
    BY <1>6
  <2>4. \A o \in Detail : o \in Live(z) => /\ Owner(z, o) = Owner(x, o)
                                           /\ Orphaned(z, o) <=> Orphaned(x, o)
    BY <2>1 DEF LiveDetail, Orphaned
  <2> HIDE DEF z, S
  <2> QED
    BY <1>0, <2>2, <2>3, <2>4 DEF View
<1> HIDE DEF z, S, told
<1>9. /\ Related(x) \in Context /\ Base(Related(x)) /\ Unsaved(Related(x))
      /\ Snapshots(Related(x)) /\ Alike(z, Related(x)) /\ Same(z, Related(x))
  BY <1>1, <1>6, WillChangeKeeps, WillChangeType, WillChangeFields
<1>10. /\ y \in Context /\ Base(y) /\ Unsaved(y) /\ Snapshots(y) /\ Alike(Related(x), y)
       /\ Same(Related(x), y)
  BY <1>9, ProcessedKeeps, ProcessedType, ProcessedFields
<1>11. View(y) = View(x)
  BY <1>6, <1>8, <1>9, <1>10, AlikeView DEF Base
<1>12. Live(y) = Live(z) /\ LiveDetail(y) = LiveDetail(z) /\ y.list = z.list
  BY <1>9, <1>10 DEF Alike, Same, LiveDetail
(* So what has been added, and not what has been lost, is told,            *)
<1>13. ASSUME NEW d \in LiveDetail(z), d \in new
       PROVE  d \in y.updated \cup y.inserted
  <2>1. d \in told /\ d \in z.objects
    BY <1>0, <1>6, <1>13 DEF told
  <2>2. d \in Related(x).touched
    BY <1>1, <1>6, <2>1, WillChangeFields
  <2>3. d \notin Related(x).deleted
    BY <1>6, <1>9, DetailsAreNoMasters DEF Same, LiveDetail
  <2>4. Related(x).inserted = y.inserted
    BY <1>10 DEF Same
  <2> QED
    BY <1>9, <2>2, <2>3, <2>4, ProcessedFields
(* and nothing is left to be deleted.                                      *)
<1>14. ASSUME NEW d \in LiveDetail(y), rel.owns, db[d] \in Master
       PROVE  Owner(y, d) # None
  <2> SUFFICES ASSUME Owner(y, d) = None
               PROVE  FALSE
    OBVIOUS
  <2> DEFINE m == db[d]
  <2>1. d \in LiveDetail(x) /\ d \notin S /\ d \in Detail
    BY <1>0, <1>6, <1>12, <1>14
  <2>2. \A n \in Master : ~In(x, d, n)
    <3>1. \A n \in Master : ~In(y, d, n)
      BY <1>10, <1>14, NoOwner DEF Base
    <3> QED
      BY <1>6, <1>12, <3>1 DEF In
  <2>3. m \in x.updated
    <3>1. m \in x.updated \cup x.inserted
      BY <1>0, <1>14, <2>1, <2>2 DEF Unsaved
    <3>2. db[m] # Absent
      BY <1>14, <2>1 DEF Base, RowsKnown
    <3> QED
      BY <1>14, <3>1, <3>2, Constants DEF Unsaved
  <2>4. x.list[m] # Fault
    BY <1>14, <2>2 DEF In
  <2>5. toMany[m] # Unknown
    <3>1. db[m] # Absent
      BY <1>14, <2>1 DEF Base, RowsKnown
    <3> QED
      BY <1>14, <2>4, <3>1 DEF Snapshots
  <2>6. d \in toMany[m]
    <3>1. d \in Linked(m)
      BY <2>1 DEF Linked
    <3> QED
      BY <1>14, <2>5, <3>1 DEF Snapshots
  <2>7. d \notin Members(x, m)
    BY <1>14, <2>2, <2>4 DEF In, Members
  <2>8. d \in Missing(x)
    <3>1. d \in Removed(x, m)
      BY <2>5, <2>6, <2>7 DEF Removed
    <3>2. d \in x.objects
      BY <1>0, <2>1
    <3> QED
      BY <1>14, <2>1, <2>3, <3>1, <3>2 DEF Missing
  <2>9. d \notin new
    <3> SUFFICES ASSUME NEW n \in Master, n \in AddedTo(x)[d]
                 PROVE  FALSE
      BY <1>0, <2>1
    <3>1. In(x, d, n)
      BY <1>2, <2>1 DEF In
    <3> QED
      BY <2>2, <3>1
  <2> QED
    BY <1>14, <2>1, <2>8, <2>9 DEF S
<1>15. ASSUME db' = db, rel' = rel, ctx' = y
       PROVE  Told(ctx)'
  <2>1. y.touched = {}
    BY <1>9, ProcessedFields
  <2>2. \A d \in Detail : \A m \in AddedTo(x)[d] : y.list[m] # Fault /\ d \in y.list[m]
    BY <1>2, <1>6, <1>12
  <2>3. \A d \in LiveDetail(y), m \in Master :
          In(y, d, m) /\ db[d] # m => m \in AddedTo(x)[d] /\ d \in y.updated \cup y.inserted
    <3> SUFFICES ASSUME NEW d \in LiveDetail(y), NEW m \in Master, In(y, d, m), db[d] # m
                 PROVE  m \in AddedTo(x)[d] /\ d \in y.updated \cup y.inserted
      OBVIOUS
    <3>1. d \in LiveDetail(z) /\ d \in LiveDetail(x) /\ In(x, d, m)
      BY <1>6, <1>12 DEF In
    <3>2. m \in AddedTo(x)[d]
      BY <1>3, <3>1
    <3> QED
      BY <1>0, <1>13, <3>1, <3>2
  <2>4. \A d \in LiveDetail(y) : ~(rel.owns /\ db[d] \in Master /\ Owner(y, d) = None)
    BY <1>14
  <2> HIDE DEF y
  <2>5. LiveDetail(ctx)' = LiveDetail(y) /\ \A d, m : In(ctx, d, m)' <=> In(y, d, m)
    BY <1>15 DEF LiveDetail, Live, In
  <2>6. \A d : Owner(ctx, d)' = Owner(y, d)
    BY <1>15 DEF Owner, Holders, Members
  <2> QED
    BY <1>15, <2>1, <2>2, <2>3, <2>4, <2>5, <2>6 DEF Told, Orphaned
<1> QED
  BY <1>10, <1>11, <1>15

-----------------------------------------------------------------------------
(* The store writes what the application sees.                             *)

LastMasters(last) == \A d \in Detail : IF added[d] # {} THEN last[d] \in added[d] ELSE last[d] = None

LEMMA OwnKeys ==
  ASSUME TypeOK, Base(ctx), Unsaved(ctx), Told(ctx), NEW d \in LiveDetail(ctx), added[d] = {}
  PROVE  /\ OwnKey(d) = Owner(ctx, d)
         /\ d \notin ctx.updated \cup ctx.inserted => db[d] = Owner(ctx, d)
<1>0. /\ ctx \in Context /\ d \in Detail /\ d \in Object /\ d \in Live(ctx) /\ d \notin Master
      /\ db[d] \in Value
      /\ Owner(ctx, d) \in Master \cup {None}
  BY OwnerType, Constants DEF LiveDetail, TypeOK
<1>1. \A m \in Master : In(ctx, d, m) => db[d] = m
  BY DEF Told
<1>2. d \notin ctx.updated \cup ctx.inserted => d \notin Tracked(ctx) /\ db[d] # Absent
  BY <1>0 DEF Told, Tracked, Unsaved
<1>3. CASE rel.inverse
  <2>1. Owner(ctx, d) = ctx.toOne[d] /\ OwnKey(d) = ctx.toOne[d]
    BY <1>0, <1>3 DEF Owner, OwnKey
  <2> QED
    BY <1>2, <1>3, <2>1 DEF Unsaved
<1>4. CASE ~rel.inverse
  <2>1. OwnKey(d) = IF db[d] = Absent THEN None ELSE db[d]
    BY <1>0, <1>4 DEF OwnKey
  <2>2. CASE \E m \in Master : In(ctx, d, m)
    <3>1. PICK m \in Master : In(ctx, d, m)
      BY <2>2
    <3> QED
      BY <1>0, <1>1, <2>1, <3>1, OwnerIn, Constants DEF Base
  <2>3. CASE \A m \in Master : ~In(ctx, d, m)
    <3>1. Owner(ctx, d) = None
      BY <1>0, <2>3, NoOwner DEF Base
    <3>2. db[d] \notin Master
      <4>1. rel.owns => ~(db[d] \in Master)
        BY <3>1 DEF Told, Orphaned
      <4>2. ~rel.owns => ~(db[d] \in Master)
        BY <1>4, <2>3 DEF Unsaved
      <4> QED
        BY <4>1, <4>2
    <3> QED
      BY <1>0, <1>2, <2>1, <3>1, <3>2, Constants
  <2> QED
    BY <2>2, <2>3
<1> QED
  BY <1>3, <1>4

LEMMA WritesTheView ==
  ASSUME TypeOK, Base(ctx), Unsaved(ctx), Told(ctx),
         NEW last \in [Detail -> Value], LastMasters(last), Storable(last)
  PROVE  Written(last) = View(ctx)
<1> SUFFICES ASSUME NEW o \in Object
             PROVE  Written(last)[o] = View(ctx)[o]
  BY DEF Written, View
<1>0. /\ ctx \in Context /\ db[o] \in Value
      /\ ToUpdate = ctx.updated /\ ToInsert = ctx.inserted
      /\ Written(last)[o] = IF o \in ToDelete THEN Absent
                            ELSE IF o \in ToUpdate \cup ToInsert THEN NewRow(o, last) ELSE db[o]
      /\ View(ctx)[o] = IF o \notin Live(ctx) \/ (o \in Detail /\ Orphaned(ctx, o)) THEN Absent
                        ELSE IF o \in Detail THEN Owner(ctx, o) ELSE None
  BY DEF TypeOK, ToUpdate, ToInsert, Told, Written, View
<1>1. CASE o \notin Live(ctx)
  <2>1. db[o] # Absent => o \in ToDelete
    BY <1>1 DEF Unsaved, ToDelete
  <2>2. db[o] = Absent => o \notin ToUpdate \cup ToInsert
    BY <1>0, <1>1 DEF Storable, Unsaved
  <2> QED
    BY <1>0, <1>1, <2>1, <2>2
<1>2. CASE o \in Live(ctx) /\ o \in Master
  <2>1. o \notin Detail /\ o \notin ToDelete
    BY <1>0, <1>2, DetailsAreNoMasters, Constants DEF ToDelete
  <2>2. NewRow(o, last) = None
    BY <1>2, <2>1 DEF NewRow, OwnKey
  <2>3. o \notin ToInsert => db[o] = None
    BY <1>0, <1>2 DEF Unsaved, Base, RowsKnown
  <2> QED
    BY <1>0, <1>2, <2>1, <2>2, <2>3
<1>3. CASE o \in Live(ctx) /\ o \in Detail
  <2>1. o \in LiveDetail(ctx) /\ o \notin ToDelete
    BY <1>0, <1>3, DetailsAreNoMasters DEF ToDelete, LiveDetail
  <2>2. View(ctx)[o] = Owner(ctx, o)
    BY <1>0, <1>3, <2>1 DEF Told
  <2>3. CASE added[o] = {}
    <3>1. NewRow(o, last) = OwnKey(o)
      BY <2>3 DEF NewRow
    <3> QED
      BY <1>0, <2>1, <2>2, <2>3, <3>1, OwnKeys
  <2>4. CASE added[o] # {}
    <3> DEFINE m == last[o]
    <3>1. m \in added[o] /\ m \in Master /\ NewRow(o, last) = m
      BY <1>3, <2>4 DEF LastMasters, NewRow, TypeOK
    <3>2. In(ctx, o, m)
      BY <1>3, <3>1 DEF Told, In
    <3>3. Owner(ctx, o) = m
      BY <1>0, <2>1, <3>1, <3>2, OwnerIn DEF Base
    <3>4. db[o] # m => o \in ToUpdate \cup ToInsert
      BY <1>0, <2>1, <3>1, <3>2 DEF Told
    <3> QED
      BY <1>0, <2>1, <2>2, <3>1, <3>3, <3>4
  <2> QED
    BY <2>3, <2>4
<1> QED
  BY <1>1, <1>2, <1>3, Constants

OwnersFit ==
  ctx \in Context /\ Consistent(ctx) =>
    \A d \in LiveDetail(ctx) :
      /\ Owner(ctx, d) \in Master \cup {None}
      /\ \A m \in Master : Owner(ctx, d) = m <=> In(ctx, d, m)

LEMMA OwnersFitNow == OwnersFit
BY OwnerIn, OwnerType DEF OwnersFit, LiveDetail

LEMMA OwnersFitNext == OwnersFit'
BY OwnersFitNow, PTL

(* After the write the trackers and the lists agree with the rows.         *)
LEMMA StoreWritesKeeps ==
  ASSUME TypeOK, TypeOK', ToManyInv, StoreWrites
  PROVE  /\ db' = View(ctx)
         /\ View(ctx)' = View(ctx)
         /\ ToManyInv'
<1> DEFINE x == ctx
<1>0. /\ ctx \in Context /\ ctx' \in Context /\ phase = "open" /\ phase' = "written"
      /\ rel' = rel /\ Base(ctx) /\ Snapshots(ctx) /\ Unsaved(ctx) /\ Told(ctx)
  BY DEF TypeOK, StoreWrites, ToManyInv, Base
<1>1. db' = View(ctx)
  BY <1>0, WritesTheView DEF StoreWrites, LastMasters
<1>2. /\ \A m \in Master : ctx'.list[m] = IF ctx.list[m] = Fault THEN Fault
                                          ELSE ctx.list[m] \ ToDelete
      /\ ctx'.toOne = ctx.toOne /\ ctx'.gone = ctx.gone
      /\ ctx'.objects = ctx.objects \ ToDelete
      /\ ctx'.touched = ctx.touched \ ToDelete
      /\ ctx'.deleted = ctx.deleted \ ToDelete
  BY <1>0 DEF StoreWrites, Forgotten, Context
<1>3. ToDelete \subseteq ctx.gone /\ ctx.gone \subseteq Detail
  BY DEF ToDelete, ToManyInv, Registered
<1>4. /\ Live(ctx') = Live(ctx) /\ LiveDetail(ctx') = LiveDetail(ctx)
      /\ Live(ctx)' = Live(ctx) /\ LiveDetail(ctx)' = LiveDetail(ctx)
      /\ LiveDetail(ctx) \subseteq Detail /\ LiveDetail(ctx) \subseteq Live(ctx)
      /\ LiveDetail(ctx) \cap ToDelete = {}
  BY <1>2, <1>3 DEF Live, LiveDetail
<1>5. \A o \in Object : db'[o] # Absent <=> o \in Live(ctx)
  <2> SUFFICES ASSUME NEW o \in Object
               PROVE  View(ctx)[o] # Absent <=> o \in Live(ctx)
    BY <1>1
  <2>1. o \in Live(ctx) /\ o \in Detail => ~Orphaned(ctx, o) /\ Owner(ctx, o) # Absent
    BY <1>0, OwnerType, Constants DEF Told, LiveDetail
  <2> QED
    BY <2>1, Constants DEF View
<1>6. \A d \in LiveDetail(ctx) : db'[d] = Owner(ctx, d)
  <2>1. \A d \in LiveDetail(ctx) : ~Orphaned(ctx, d) /\ d \in Object
    BY <1>0, <1>4, Constants DEF Told
  <2> QED
    BY <1>1, <1>4, <2>1 DEF View
<1>7. \A d \in LiveDetail(ctx), m \in Master : In(ctx, d, m) <=> db'[d] = m
  BY <1>0, <1>6, OwnerIn DEF Base
<1>8. \A d \in Detail, m \in Master : db'[d] = m <=> d \in LiveDetail(ctx) /\ In(ctx, d, m)
  <2> SUFFICES ASSUME NEW d \in Detail, NEW m \in Master, db'[d] = m
               PROVE  d \in LiveDetail(ctx)
    BY <1>7
  <2> QED
    BY <1>5, Constants DEF LiveDetail
<1>9. \A m \in Master : /\ ctx'.list[m] = Fault <=> ctx.list[m] = Fault
                        /\ ctx.list[m] # Fault => ctx'.list[m] \in SUBSET Detail
  BY <1>0, <1>2, ContextFields, Constants
<1>10. \A d \in LiveDetail(ctx), m \in Master : In(ctx, d, m)' <=> In(ctx, d, m)
  <2> SUFFICES ASSUME NEW d \in LiveDetail(ctx), NEW m \in Master
               PROVE  In(ctx, d, m)' <=> In(ctx, d, m)
    OBVIOUS
  <2>1. CASE ctx.list[m] = Fault
    BY <1>7, <1>9, <2>1 DEF In
  <2>2. CASE ctx.list[m] # Fault
    <3>1. d \in ctx'.list[m] <=> d \in ctx.list[m]
      BY <1>2, <1>4, <2>2
    <3> QED
      BY <1>9, <2>2, <3>1 DEF In
  <2> QED
    BY <2>1, <2>2
<1>11. Consistent(ctx)'
  <2>1. rel.inverse => \A d \in LiveDetail(ctx), m \in Master : ctx'.toOne[d] = m <=> In(ctx, d, m)'
    BY <1>2, <1>10 DEF ToManyInv, Consistent
  <2> QED
    BY <1>0, <1>4, <1>7, <1>10, <2>1 DEF Consistent
<1>12. View(ctx)' = View(ctx)
  <2>1. ASSUME NEW d \in LiveDetail(ctx)
        PROVE  Owner(ctx, d)' = Owner(ctx, d)
    <3>1. /\ Owner(ctx, d)' \in Master \cup {None}
          /\ \A m \in Master : Owner(ctx, d)' = m <=> In(ctx, d, m)'
      BY <1>0, <1>4, <1>11, <2>1, OwnersFitNext DEF OwnersFit
    <3>2. /\ Owner(ctx, d) \in Master \cup {None}
          /\ \A m \in Master : Owner(ctx, d) = m <=> In(ctx, d, m)
      BY <1>0, <2>1, OwnersFitNow DEF OwnersFit, Base
    <3> QED
      BY <1>10, <2>1, <3>1, <3>2, Constants
  <2>2. ASSUME NEW o \in Object
        PROVE  View(ctx)'[o] = View(ctx)[o]
    <3>1. /\ View(ctx)[o] = IF o \notin Live(ctx) \/ (o \in Detail /\ Orphaned(ctx, o)) THEN Absent
                            ELSE IF o \in Detail THEN Owner(ctx, o) ELSE None
          /\ View(ctx)'[o] = IF o \notin Live(ctx)' \/ (o \in Detail /\ Orphaned(ctx, o)') THEN Absent
                            ELSE IF o \in Detail THEN Owner(ctx, o)' ELSE None
      BY DEF View
    <3>2. o \in Live(ctx) /\ o \in Detail =>
            ~Orphaned(ctx, o) /\ ~Orphaned(ctx, o)' /\ Owner(ctx, o)' = Owner(ctx, o)
      BY <1>0, <1>6, <2>1, Constants DEF Told, Orphaned, LiveDetail
    <3> QED
      BY <1>4, <3>1, <3>2
  <2> QED
    BY <2>2 DEF View
<1>13. Registered(ctx)'
  <2>1. \A m \in Master : ctx'.list[m] # Fault =>
          m \in ctx'.objects /\ ctx'.list[m] \subseteq ctx'.objects \cup ctx'.gone
    <3> SUFFICES ASSUME NEW m \in Master, ctx'.list[m] # Fault
                 PROVE  m \in ctx'.objects /\ ctx'.list[m] \subseteq ctx'.objects \cup ctx'.gone
      OBVIOUS
    <3>1. m \in ctx.objects /\ ctx.list[m] \subseteq ctx.objects \cup ctx.gone
      BY <1>0, <1>9 DEF Base, Registered
    <3>2. m \notin ToDelete
      BY <1>3, Constants
    <3> QED
      BY <1>2, <1>9, <3>1, <3>2
  <2> QED
    BY <1>0, <1>2, <1>3, <2>1 DEF Base, Registered
<1>14. RowsKnown(ctx)'
  <2>1. \A o \in Object : db'[o] # Absent => o \in ctx'.objects
    BY <1>4, <1>5 DEF Live
  <2>2. \A m \in Master : db'[m] \in {None, Absent}
    BY <1>1, Constants DEF View
  <2>3. \A d \in Detail : db'[d] \in Master => db'[db'[d]] # Absent
    <3> SUFFICES ASSUME NEW d \in Detail, NEW m \in Master, db'[d] = m
                 PROVE  db'[m] # Absent
      OBVIOUS
    <3>1. d \in LiveDetail(ctx) /\ In(ctx, d, m)
      BY <1>8
    <3>2. m \in ctx.objects
      BY <1>0, <1>4, <3>1, Constants DEF Base, Registered, RowsKnown, In
    <3>3. m \in Live(ctx)
      BY <1>3, <3>2, Constants DEF Live
    <3> QED
      BY <1>5, <3>3, Constants
  <2> QED
    BY <2>1, <2>2, <2>3 DEF RowsKnown
<1>15. Saved(ctx)'
  BY <1>0, <1>2, <1>4, <1>5, <1>7, <1>10 DEF Saved, Told
<1>16. Snapshots(ctx)'
  <2>0. /\ toMany' = Recorded
        /\ \A m \in Master : toMany'[m] = IF m \in ToUpdate \cup ToInsert /\ ctx.list[m] # Fault
                                           THEN ctx.list[m] ELSE toMany[m]
        /\ ToUpdate \cup ToInsert = Tracked(ctx)
        /\ Rows' = LiveDetail(ctx)
    BY <1>0, <1>5, Constants
       DEF StoreWrites, Recorded, ToUpdate, ToInsert, Tracked, Rows, LiveDetail, Told
  (* Lists that are recorded,                                              *)
  <2>1. ASSUME NEW m \in Master, m \in Tracked(ctx), ctx.list[m] # Fault
        PROVE  /\ toMany'[m] \cap Rows' = Linked(m)'
               /\ toMany'[m] \subseteq Rows' \cup ctx.gone
               /\ toMany'[m] # Unknown
    <3>1. toMany'[m] = ctx.list[m] /\ ctx.list[m] \in SUBSET Detail
      BY <1>0, <2>0, <2>1, ContextFields
    <3>2. \A d \in Detail : db'[d] = m <=> d \in LiveDetail(ctx) /\ d \in ctx.list[m]
      BY <1>8, <2>1 DEF In
    <3>3. ctx.list[m] \subseteq LiveDetail(ctx) \cup ctx.gone
      BY <1>0, <2>1, <3>1 DEF Base, Registered, LiveDetail, Live
    <3> QED
      BY <2>0, <3>1, <3>2, <3>3, Constants DEF Linked
  (* and those that are not.                                               *)
  <2>2. ASSUME NEW m \in Master, m \notin Tracked(ctx) \/ ctx.list[m] = Fault, toMany'[m] # Unknown
        PROVE  /\ toMany'[m] \cap Rows' = Linked(m)'
               /\ toMany'[m] \subseteq Rows' \cup ctx.gone
    <3>1. toMany'[m] = toMany[m]
      BY <2>0, <2>2
    <3>2. \A d \in LiveDetail(ctx) : db'[d] = m <=> db[d] = m
      <4>1. \A d \in LiveDetail(ctx) : In(ctx, d, m) <=> db[d] = m
        BY <1>0, <2>2 DEF Unsaved, In
      <4> QED
        BY <1>7, <4>1
    <3>3. toMany[m] \cap Rows = Linked(m) /\ toMany[m] \subseteq Rows \cup ctx.gone
      BY <1>0, <2>2, <3>1 DEF Snapshots
    <3>4. Rows \subseteq LiveDetail(ctx) \cup ctx.gone
      BY <1>0, Constants DEF Rows, Base, RowsKnown, LiveDetail, Live
    <3>5. toMany[m] \subseteq LiveDetail(ctx) \cup ctx.gone
      BY <3>3, <3>4
    <3>6. \A d \in LiveDetail(ctx) : d \in toMany[m] <=> db'[d] = m
      <4> SUFFICES ASSUME NEW d \in LiveDetail(ctx)
                   PROVE  d \in toMany[m] <=> db[d] = m
        BY <3>2
      <4>1. d \in Detail /\ d \notin ctx.gone
        BY DEF LiveDetail, Live
      <4>2. d \in toMany[m] => d \in Rows
        BY <3>3, <4>1
      <4> QED
        BY <3>3, <4>1, <4>2 DEF Linked
    <3>7. \A d \in Detail : db'[d] = m => d \in LiveDetail(ctx)
      BY <1>8
    <3> QED
      BY <1>4, <2>0, <3>1, <3>5, <3>6, <3>7 DEF Linked
  <2>3. ASSUME rel.owns, NEW m \in Master
        PROVE  /\ toMany'[m] # Unknown => ctx'.list[m] # Fault
               /\ ctx'.list[m] # Fault /\ db'[m] # Absent => toMany'[m] # Unknown
    <3>1. toMany'[m] # Unknown => ctx.list[m] # Fault
      BY <1>0, <2>0, <2>3 DEF Snapshots
    <3>2. ctx.list[m] # Fault /\ db[m] # Absent => toMany[m] # Unknown
      BY <1>0, <2>3 DEF Snapshots
    <3>3. db'[m] # Absent /\ db[m] = Absent => m \in Tracked(ctx)
      BY <1>0, <1>5, Constants DEF Unsaved, Tracked
    <3> QED
      BY <1>9, <2>0, <2>1, <3>1, <3>2, <3>3
  <2> QED
    BY <1>0, <1>2, <2>1, <2>2, <2>3 DEF Snapshots
<1> QED
  BY <1>0, <1>1, <1>11, <1>12, <1>13, <1>14, <1>15, <1>16 DEF ToManyInv

-----------------------------------------------------------------------------
(* The other actions.                                                      *)

LEMMA ToManyInvInit == Init => ToManyInv
<1> SUFFICES ASSUME Init
             PROVE  ToManyInv
  OBVIOUS
<1>1. /\ ctx.objects = Stored /\ ctx.gone = {} /\ ctx.touched = {} /\ ctx.updated = {}
      /\ ctx.inserted = {} /\ ctx.deleted = {}
      /\ \A m \in Master : ctx.list[m] = Fault
      /\ \A d \in Detail : ctx.toOne[d] = IF rel.inverse /\ db[d] \in Master THEN db[d] ELSE None
      /\ \A m \in Master : toMany[m] = Unknown
      /\ phase = "none"
  BY DEF Init
<1>2. /\ \A o \in Object : db[o] # Absent <=> o \in Stored
      /\ \A m \in Master : db[m] \in {None, Absent}
      /\ \A d \in Detail : db[d] \in Master => db[d] \in Stored
  BY Constants DEF Init
<1>3. Live(ctx) = Stored /\ \A d \in Detail : d \in LiveDetail(ctx) <=> d \in Stored
  BY <1>1 DEF Live, LiveDetail
<1>4. \A d, m : m \in Master => (In(ctx, d, m) <=> db[d] = m)
  BY <1>1 DEF In
<1>5. Consistent(ctx)
  BY <1>1, <1>4, Constants DEF Consistent, LiveDetail
<1>6. Registered(ctx)
  BY <1>1 DEF Registered
<1>7. RowsKnown(ctx)
  BY <1>1, <1>2, Constants DEF RowsKnown
<1>8. Unsaved(ctx)
  <2>1. rel.inverse => \A d \in LiveDetail(ctx) : ctx.toOne[d] = db[d]
    <3> SUFFICES ASSUME rel.inverse, NEW d \in LiveDetail(ctx)
                 PROVE  ctx.toOne[d] = db[d]
      OBVIOUS
    <3>1. d \in Detail /\ d \in Object /\ d \in Stored
      BY <1>3, Constants DEF LiveDetail
    <3>2. db[d] \in {None} \cup Master
      BY <3>1 DEF Init
    <3> QED
      BY <1>1, <3>1, <3>2, Constants
  <2> QED
    BY <1>1, <1>2, <1>3, <1>4, <2>1, Constants DEF Unsaved
<1>9. Snapshots(ctx)
  BY <1>1 DEF Snapshots
<1> QED
  BY <1>1, <1>5, <1>6, <1>7, <1>8, <1>9 DEF ToManyInv

(* A list that fires shows what it has stood for.                          *)
LEMMA FireKeeps ==
  ASSUME TypeOK, ToManyInv, NEW m \in Master, Fire(m)
  PROVE  ToManyInv'
<1>0. /\ ctx \in Context /\ rel' = rel /\ db' = db /\ phase' = phase /\ added' = added
      /\ Linked(m) \in SUBSET Detail /\ Linked(m) # Fault /\ Linked(m) # Unknown
      /\ m \in Live(ctx) /\ ctx.list[m] = Fault
      /\ \A d \in Detail : d \in Linked(m) <=> db[d] = m
  BY LinkedType, Constants DEF Fire, Unchanged, TypeOK, Linked
<1>1. /\ ctx'.list = [ctx.list EXCEPT ![m] = Linked(m)] /\ ctx'.list[m] = Linked(m)
      /\ \A n \in Master : n # m => ctx'.list[n] = ctx.list[n]
      /\ ctx'.toOne = ctx.toOne /\ ctx'.objects = ctx.objects /\ ctx'.gone = ctx.gone
      /\ ctx'.touched = ctx.touched /\ ctx'.updated = ctx.updated
      /\ ctx'.inserted = ctx.inserted /\ ctx'.deleted = ctx.deleted
      /\ toMany'[m] = Linked(m)
      /\ \A n \in Master : n # m => toMany'[n] = toMany[n]
  BY <1>0 DEF Fire, Context, TypeOK
<1>2. /\ Live(ctx)' = Live(ctx) /\ LiveDetail(ctx)' = LiveDetail(ctx)
      /\ Tracked(ctx)' = Tracked(ctx) /\ LiveDetail(ctx) \subseteq Detail
  BY <1>1 DEF Live, LiveDetail, Tracked
<1>3. \A d \in Detail, n \in Master : In(ctx, d, n)' <=> In(ctx, d, n)
  BY <1>0, <1>1 DEF In
<1>4. Consistent(ctx)'
  BY <1>0, <1>1, <1>2, <1>3 DEF ToManyInv, Consistent
<1>5. Registered(ctx)'
  <2>1. m \in ctx.objects /\ Linked(m) \subseteq ctx.objects
    BY <1>0, Constants DEF Live, ToManyInv, RowsKnown
  <2>2. \A n \in Master : ctx'.list[n] # Fault =>
          n \in ctx'.objects /\ ctx'.list[n] \subseteq ctx'.objects \cup ctx'.gone
    BY <1>1, <2>1 DEF ToManyInv, Registered
  <2> QED
    BY <1>0, <1>1, <2>2 DEF ToManyInv, Registered
<1>6. RowsKnown(ctx)'
  BY <1>0, <1>1 DEF ToManyInv, RowsKnown
<1>7. phase # "written" => Unsaved(ctx)'
  BY <1>0, <1>1, <1>2, <1>3 DEF ToManyInv, Unsaved
<1>8. phase = "written" => Saved(ctx)'
  BY <1>0, <1>1, <1>2, <1>3 DEF ToManyInv, Saved
<1>9. phase = "open" => Told(ctx)'
  <2> SUFFICES ASSUME phase = "open"
               PROVE  Told(ctx)'
    OBVIOUS
  <2>1. Told(ctx)
    BY DEF ToManyInv
  <2>2. \A d \in Detail : \A n \in added[d] : ctx'.list[n] # Fault /\ d \in ctx'.list[n]
    BY <1>0, <1>1, <2>1 DEF Told, TypeOK
  <2>3. \A d \in LiveDetail(ctx) : Owner(ctx, d)' = Owner(ctx, d)
    <3> SUFFICES ASSUME NEW d \in LiveDetail(ctx)
                 PROVE  Owner(ctx, d)' = Owner(ctx, d)
      OBVIOUS
    <3>1. ctx' \in Context
      BY <1>0, <1>1 DEF Fire, Context
    <3>2. /\ Owner(ctx, d)' \in Master \cup {None}
          /\ \A n \in Master : Owner(ctx, d)' = n <=> In(ctx, d, n)'
      BY <1>2, <1>4, <3>1, OwnersFitNext DEF OwnersFit
    <3>3. /\ Owner(ctx, d) \in Master \cup {None}
          /\ \A n \in Master : Owner(ctx, d) = n <=> In(ctx, d, n)
      BY <1>0, OwnersFitNow DEF OwnersFit, ToManyInv
    <3> QED
      BY <1>2, <1>3, <3>2, <3>3, Constants
  <2> QED
    BY <1>0, <1>1, <1>2, <1>3, <2>1, <2>2, <2>3 DEF Told, Orphaned
<1>10. Snapshots(ctx)'
  <2>1. Linked(m) \cap Rows = Linked(m) /\ Linked(m) \subseteq Rows
    BY <1>0, Constants DEF Rows
  <2>2. Rows' = Rows /\ \A n \in Master : Linked(n)' = Linked(n)
    BY <1>0 DEF Rows, Linked
  <2> QED
    BY <1>0, <1>1, <2>1, <2>2 DEF ToManyInv, Snapshots
<1> QED
  BY <1>0, <1>4, <1>5, <1>6, <1>7, <1>8, <1>9, <1>10 DEF ToManyInv

(* Other contexts replace snapshots by what the rows say, or by nothing.   *)
LEMMA OthersKeep ==
  ASSUME Calm, TypeOK, ToManyInv, NEW m \in Master, OtherFetches(m) \/ OtherFires(m)
  PROVE  ToManyInv'
<1>0. /\ rel' = rel /\ db' = db /\ phase' = phase /\ added' = added /\ ctx' = ctx
      /\ ~rel.owns
      /\ toMany'[m] \in {Unknown, Linked(m)}
      /\ \A n \in Master : n # m => toMany'[n] = toMany[n]
  BY DEF OtherFetches, OtherFires, Unchanged, TypeOK, MayRead, Calm
<1>1. Consistent(ctx)' /\ Registered(ctx)' /\ RowsKnown(ctx)'
  BY <1>0 DEF ToManyInv, Consistent, Registered, RowsKnown, LiveDetail, Live, In
<1>2. /\ phase # "written" => Unsaved(ctx)'
      /\ phase = "written" => Saved(ctx)'
      /\ phase = "open" => Told(ctx)'
  BY <1>0 DEF ToManyInv, Unsaved, Saved, Told, Orphaned, Owner, Holders, Members, LiveDetail,
              Live, In, Tracked
<1>3. Snapshots(ctx)'
  <2>1. Linked(m) \cap Rows = Linked(m) /\ Linked(m) \subseteq Rows
    BY Constants DEF Rows, Linked
  <2>2. Rows' = Rows /\ \A n \in Master : Linked(n)' = Linked(n)
    BY <1>0 DEF Rows, Linked
  <2> QED
    BY <1>0, <2>1, <2>2 DEF ToManyInv, Snapshots
<1> QED
  BY <1>0, <1>1, <1>2, <1>3 DEF ToManyInv

(* What an edit and a save have established of the new context holds then. *)
LEMMA UnsavedNext ==
  ASSUME NEW y, rel' = rel, db' = db, toMany' = toMany, ctx' = y,
         Base(y), Unsaved(y), Snapshots(y), phase' # "written", phase' = "open" => Told(ctx)'
  PROVE  ToManyInv'
<1>1. Consistent(ctx)' /\ Registered(ctx)' /\ RowsKnown(ctx)'
  BY DEF Base, Consistent, Registered, RowsKnown, LiveDetail, Live, In
<1>2. Unsaved(ctx)'
  BY DEF Unsaved, LiveDetail, Live, In, Tracked
<1>3. Snapshots(ctx)'
  BY DEF Snapshots, Rows, Linked
<1> QED
  BY <1>1, <1>2, <1>3 DEF ToManyInv

LEMMA EditsKeep ==
  ASSUME Calm, TypeOK, ToManyInv,
         \/ \E m \in Master : Touch(m)
         \/ \E d \in Detail : Delete(d) \/ \E m \in Master \cup {None} : Move(d, m)
         \/ \E o \in Object : Insert(o)
         \/ HasChanges
  PROVE  ToManyInv'
<1>0. /\ ctx \in Context /\ phase = "none" /\ phase' = "none"
      /\ rel' = rel /\ db' = db /\ toMany' = toMany
      /\ Base(ctx) /\ Unsaved(ctx) /\ Snapshots(ctx)
  BY DEF Touch, Delete, Move, Insert, HasChanges, MayChange, Calm, Unchanged, TypeOK, ToManyInv,
         Base
<1>1. ASSUME NEW m \in Master, Touch(m)
      PROVE  ToManyInv'
  BY <1>0, <1>1, WillChangeKeeps, UnsavedNext DEF Touch
<1>2. ASSUME NEW d \in Detail, Delete(d)
      PROVE  ToManyInv'
  <2>1. d \in LiveDetail(ctx)
    BY <1>2 DEF Delete, LiveDetail
  <2>2. rel.inverse => \A e \in {d} : ctx.toOne[e] \in Master => ctx.list[ctx.toOne[e]] # Fault
    BY <1>2 DEF Delete, MayLeave, Owner
  <2>3. Base(Deleted(ctx, {d})) /\ Unsaved(Deleted(ctx, {d})) /\ Snapshots(Deleted(ctx, {d}))
    BY <1>0, <2>2, DeletedKeeps
  <2> QED
    BY <1>0, <1>2, <2>3, UnsavedNext DEF Delete
<1>3. ASSUME NEW d \in Detail, NEW m \in Master \cup {None}, Move(d, m)
      PROVE  ToManyInv'
  <2>1. /\ d \in LiveDetail(ctx) /\ MayLeave(ctx, d)
        /\ m \in Master => m \in Live(ctx) /\ ctx.list[m] # Fault
        /\ m = None => rel.inverse \/ rel.owns \/ db[d] \notin Master
    BY <1>3, Constants DEF Move, LiveDetail, Calm
  <2>2. Base(Moved(ctx, d, m)) /\ Unsaved(Moved(ctx, d, m)) /\ Snapshots(Moved(ctx, d, m))
    BY <1>0, <2>1, MovedKeeps
  <2> QED
    BY <1>0, <1>3, <2>2, UnsavedNext DEF Move
<1>4. ASSUME NEW o \in Object, Insert(o)
      PROVE  ToManyInv'
  <2>1. Base(Inserted(ctx, o)) /\ Unsaved(Inserted(ctx, o)) /\ Snapshots(Inserted(ctx, o))
    BY <1>0, <1>4, InsertedKeeps DEF Insert
  <2> QED
    BY <1>0, <1>4, <2>1, UnsavedNext DEF Insert
<1>5. ASSUME HasChanges
      PROVE  ToManyInv'
  BY <1>0, <1>5, ProcessedKeeps, UnsavedNext DEF HasChanges
<1> QED
  BY <1>1, <1>2, <1>3, <1>4, <1>5

LEMMA SaveKeeps ==
  ASSUME TypeOK, ToManyInv, Save
  PROVE  ToManyInv' /\ View(ctx)' = View(ctx)
<1> DEFINE x == Processed(ctx)
           y == Processed(Related(x))
<1>0. /\ ctx \in Context /\ phase = "none" /\ phase' = "open"
      /\ rel' = rel /\ db' = db /\ toMany' = toMany /\ db \in [Object -> Value]
      /\ Base(ctx) /\ Unsaved(ctx) /\ Snapshots(ctx)
      /\ added' = AddedTo(x) /\ ctx' = y
  BY DEF Save, TypeOK, ToManyInv, Base
<1>1. /\ x \in Context /\ x.touched = {}
      /\ Base(x) /\ Alike(ctx, x) /\ Unsaved(x) /\ Snapshots(x)
  BY <1>0, ProcessedKeeps, ProcessedType, ProcessedFields
<1>2. View(x) = View(ctx)
  BY <1>0, <1>1, AlikeView DEF Base
<1> HIDE DEF x
<1>3. Base(y) /\ Unsaved(y) /\ Snapshots(y) /\ View(y) = View(x) /\ Told(ctx)'
  BY <1>0, <1>1, RelatedKeeps
<1> HIDE DEF y
<1>4. View(ctx)' = View(y)
  BY <1>0 DEF View, Live, Orphaned, Owner, Holders, Members
<1> QED
  BY <1>0, <1>2, <1>3, <1>4, UnsavedNext

LEMMA RefusesKeeps ==
  ASSUME ToManyInv, StoreRefuses
  PROVE  ToManyInv'
BY UnsavedNext DEF ToManyInv, StoreRefuses, Base

LEMMA FinishKeeps ==
  ASSUME TypeOK, ToManyInv, Finish
  PROVE  ToManyInv'
<1> DEFINE y == [ctx EXCEPT !.updated = {}, !.inserted = {}, !.deleted = {}]
<1>0. /\ rel' = rel /\ db' = db /\ toMany' = toMany /\ phase' = "none" /\ phase = "written"
      /\ ctx' = y /\ ctx \in Context /\ db \in [Object -> Value]
      /\ Base(ctx) /\ Snapshots(ctx) /\ Saved(ctx)
  BY DEF Finish, TypeOK, ToManyInv, Base
<1>1. /\ y.list = ctx.list /\ y.toOne = ctx.toOne /\ y.objects = ctx.objects /\ y.gone = ctx.gone
      /\ y.touched = {} /\ y.updated = {} /\ y.inserted = {} /\ y.deleted = {}
  BY <1>0 DEF Context, Saved
<1> HIDE DEF y
<1>2. /\ Live(y) = Live(ctx) /\ LiveDetail(y) = LiveDetail(ctx)
      /\ \A d, m : In(y, d, m) <=> In(ctx, d, m)
      /\ LiveDetail(ctx) \subseteq Detail /\ LiveDetail(ctx) \subseteq Live(ctx)
  BY <1>1 DEF Live, LiveDetail, In
<1>3. Base(y)
  BY <1>0, <1>1, <1>2 DEF Base, Consistent, Registered, RowsKnown
<1>4. Unsaved(y)
  <2>1. ASSUME rel.inverse, NEW d \in LiveDetail(ctx)
        PROVE  ctx.toOne[d] = db[d]
    <3>1. d \in Detail /\ d \in Live(ctx) /\ d \in Object
      BY <1>2, Constants
    <3>2. \A m \in Master : ctx.toOne[d] = m <=> db[d] = m
      BY <1>0, <2>1 DEF Base, Consistent, Saved
    <3>3. ctx.toOne[d] \in Master \cup {None} /\ db[d] \in Master \cup {None}
      BY <1>0, <3>1, ContextFields, Constants DEF Saved
    <3> QED
      BY <3>2, <3>3, Constants
  <2> QED
    BY <1>0, <1>1, <1>2, <2>1 DEF Unsaved, Saved
<1>5. Snapshots(y)
  BY <1>0, <1>1 DEF Snapshots
<1> QED
  BY <1>0, <1>3, <1>4, <1>5, UnsavedNext

LEMMA ToManyInvNext ==
  ASSUME Calm
  PROVE  TypeOK /\ TypeOK' /\ ToManyInv /\ [Next]_vars => ToManyInv'
<1> SUFFICES ASSUME TypeOK, TypeOK', ToManyInv, [Next]_vars
             PROVE  ToManyInv'
  OBVIOUS
<1>1. ASSUME NEW m \in Master, Fire(m) \/ OtherFetches(m) \/ OtherFires(m)
      PROVE  ToManyInv'
  BY <1>1, FireKeeps, OthersKeep
<1>2. ASSUME Save \/ StoreWrites \/ StoreRefuses \/ Finish
      PROVE  ToManyInv'
  BY <1>2, SaveKeeps, StoreWritesKeeps, RefusesKeeps, FinishKeeps
<1>3. CASE UNCHANGED vars
  <2>1. /\ rel' = rel /\ db' = db /\ toMany' = toMany /\ ctx' = ctx /\ added' = added /\ phase' = phase
    BY <1>3 DEF vars
  <2>2. (phase = "open" => Told(ctx)') /\ (phase = "written" => Saved(ctx)')
    BY <2>1 DEF ToManyInv, Told, Saved, LiveDetail, Live, In, Orphaned, Owner, Holders, Members
  <2>3. CASE phase # "written"
    BY <2>1, <2>2, <2>3, UnsavedNext DEF ToManyInv, Base
  <2>4. CASE phase = "written"
    <3>1. Consistent(ctx)' /\ Registered(ctx)' /\ RowsKnown(ctx)' /\ Snapshots(ctx)'
      BY <2>1 DEF ToManyInv, Consistent, Registered, RowsKnown, Snapshots, LiveDetail, Live, In,
                  Rows, Linked
    <3> QED
      BY <2>1, <2>2, <2>4, <3>1 DEF ToManyInv
  <2> QED
    BY <2>3, <2>4
<1> QED
  BY <1>1, <1>2, <1>3, EditsKeep DEF Next

(* The inductive invariant, of applications that change no lists in        *)
(* callbacks and unlink no details, and whose owning relationships no      *)
(* other context reads.                                                    *)
LEMMA ToManyInvariant ==
  ASSUME Calm
  PROVE  Spec => [](TypeOK /\ ToManyInv)
BY InitType, NextType, ToManyInvInit, ToManyInvNext, PTL DEF Spec

(* Known to-many snapshots have the rows that refer to their masters,      *)
(* after every save and whatever other contexts read.                      *)
THEOREM SnapshotsAreCurrent ==
  ASSUME Calm
  PROVE  Spec => []ToManyCurrent
<1>1. ToManyInv => ToManyCurrent
  BY DEF ToManyInv, Snapshots, ToManyCurrent
<1> QED
  BY <1>1, ToManyInvariant, PTL

-----------------------------------------------------------------------------
(* The refinement.                                                         *)

LEMMA ViewTypeNow == TypeOK => View(ctx) \in [Object -> Value]
BY ViewType DEF TypeOK

LEMMA ViewTypeNext == TypeOK' => View(ctx)' \in [Object -> Value]
<1>1. (TypeOK => View(ctx) \in [Object -> Value])'
  BY ViewTypeNow, PTL
<1> QED
  BY <1>1

LEMMA UnitInit == Init => Unit!Init
<1> SUFFICES ASSUME Init
             PROVE  Unit!Init
  OBVIOUS
<1>1. db \in [Object -> Value] /\ TypeOK /\ ctx \in Context
  BY InitType DEF TypeOK
<1>2. /\ Live(ctx) = Stored /\ \A m \in Master : ctx.list[m] = Fault
      /\ \A o \in Object : db[o] = Absent <=> o \notin Stored
      /\ \A m \in Master : m \in Stored => db[m] = None
      /\ \A d \in Detail : d \in Stored => db[d] \in Master \cup {None}
  BY Constants DEF Init, Live
<1>3. ASSUME NEW d \in Detail, d \in Stored
      PROVE  Owner(ctx, d) = db[d]
  <2>1. Holders(ctx, d) = {}
    BY <1>2 DEF Holders, Members
  <2>2. rel.inverse => ctx.toOne[d] = IF db[d] \in Master THEN db[d] ELSE None
    BY DEF Init
  <2> QED
    BY <1>2, <1>3, <2>1, <2>2, Constants DEF Owner
<1>4. \A o \in Object : View(ctx)[o] = db[o]
  BY <1>2, <1>3, Constants DEF View, Orphaned
<1>5. View(ctx) = db
  BY <1>1, <1>4, ViewTypeNow
<1> QED
  BY <1>1, <1>5 DEF Init, Unit!Init

LEMMA UnitNext ==
  TypeOK /\ TypeOK' /\ ToManyInv /\ [Next]_vars => [Unit!Next]_(Unit!vars)
<1> SUFFICES ASSUME TypeOK, TypeOK', ToManyInv, [Next]_vars
             PROVE  [Unit!Next]_(Unit!vars)
  OBVIOUS
<1>0. View(ctx)' \in [Object -> Value]
  BY ViewTypeNext
<1>1. ASSUME UNCHANGED <<db, phase>>
      PROVE  Unit!Next
  BY <1>0, <1>1 DEF Unit!Next, Unit!Change
<1>2. CASE Save
  BY <1>2, SaveKeeps DEF Save, Unit!Next, Unit!Start
<1>3. CASE StoreWrites
  BY <1>3, StoreWritesKeeps DEF StoreWrites, Unit!Next, Unit!Write
<1>4. CASE StoreRefuses
  BY <1>0, <1>4 DEF StoreRefuses, Unit!Next, Unit!Raise
<1>5. CASE Finish
  BY <1>0, <1>5 DEF Finish, Unit!Next, Unit!Return
<1>6. ASSUME NEW m \in Master, Fire(m) \/ Touch(m) \/ OtherFetches(m) \/ OtherFires(m)
      PROVE  UNCHANGED <<db, phase>>
  BY <1>6 DEF Fire, Touch, OtherFetches, OtherFires, Unchanged
<1>7. ASSUME NEW d \in Detail, Delete(d) \/ \E m \in Master \cup {None} : Move(d, m)
      PROVE  UNCHANGED <<db, phase>>
  BY <1>7 DEF Delete, Move, Unchanged
<1>8. ASSUME NEW o \in Object, Insert(o)
      PROVE  UNCHANGED <<db, phase>>
  BY <1>8 DEF Insert, Unchanged
<1>9. HasChanges \/ UNCHANGED vars => UNCHANGED <<db, phase>>
  BY DEF HasChanges, Unchanged, vars
<1> QED
  BY <1>1, <1>2, <1>3, <1>4, <1>5, <1>6, <1>7, <1>8, <1>9 DEF Next

(* A save makes the rows what the lists say, in one step: members refer to *)
(* their masters, and what an owning relationship has lost is deleted.     *)
THEOREM SavesWhatListsSay ==
  ASSUME Calm
  PROVE  Spec => SavesAsUnit
BY UnitInit, UnitNext, ToManyInvariant, PTL DEF Spec, SavesAsUnit, Unit!Spec
=============================================================================
