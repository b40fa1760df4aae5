------------------------ MODULE EditingContextProofs ------------------------
(***************************************************************************)
(* Theorems about EditingContext, for every set of objects: its types, and *)
(* for every rule that carries deletions out that the context tracks every *)
(* change, that a save asks every changed object and that it is one step   *)
(* of UnitOfWork.                                                          *)
(***************************************************************************)
EXTENDS EditingContextInvariants, TLAPS

-----------------------------------------------------------------------------
(* The operations of a context keep its type.                              *)

LEMMA MasterValues == Master \subseteq Object /\ Detail \subseteq Object /\ Master \subseteq Value
                      /\ None \in Value /\ Absent \in Value
BY DEF Object, Value

LEMMA WillChangeType ==
  ASSUME NEW x \in Context, NEW S
  PROVE  WillChange(x, S) \in Context
BY DEF WillChange, Context, Sets, Kind

LEMMA EditsType ==
  ASSUME NEW x \in Context, NEW y \in Edits(x)
  PROVE  y \in Context
<1>1. ASSUME NEW d \in Detail, NEW m \in Master \cup {None}
      PROVE  [x EXCEPT !.values[d] = m] \in Context
  BY MasterValues DEF Context
<1>2. ASSUME NEW d \in Detail, NEW m \in Master \cup {None}
      PROVE  Edited(x, d, m) \in Context
  BY <1>1, WillChangeType DEF Edited
<1>3. ASSUME NEW d \in Detail, NEW m \in Master \cup {None}, y = Edited(x, d, m)
      PROVE  y \in Context
  BY <1>2, <1>3
<1>4. ASSUME NEW m \in Master, y = WillChange(x, {m})
      PROVE  y \in Context
  BY <1>4, WillChangeType
<1>5. \/ \E d \in Live(x) \cap Detail, m \in (Live(x) \cap Master) \cup {None} : y = Edited(x, d, m)
      \/ \E m \in Live(x) \cap Master : y = WillChange(x, {m})
  <2>1. \/ \E d \in Live(x) \cap Detail : y \in NewValues(x, d)
        \/ \E m \in Live(x) \cap Master : y = WillChange(x, {m})
    BY DEF Edits
  <2> QED
    BY <2>1 DEF NewValues
<1> QED
  BY <1>3, <1>4, <1>5

LEMMA InsertsType ==
  ASSUME NEW x \in Context, NEW y \in Inserts(x)
  PROVE  y \in Context
<1>1. PICK o \in Object : y = Inserted(x, o)
  BY DEF Inserts, Fresh
<1> QED
  BY <1>1, MasterValues DEF Inserted, Context, Sets, Kind

LEMMA EnqueuedType ==
  ASSUME NEW x \in Context, NEW S \in SUBSET Object
  PROVE  Enqueued(x, S) \in Context
BY DEF Enqueued, Context, Sets, Kind

LEMMA DeletedType ==
  ASSUME NEW x \in Context, NEW o \in Object
  PROVE  Deleted(x, o) \in Context
<1> DEFINE rule == IF o \in Master THEN Rule[o] ELSE "nullify"
           members == IF rule \in {"nullify", "cascade"} THEN Members(x, o) ELSE {}
           unlinked == {d \in members \cup {o} : x.values[d] # None}
           deleted == {o} \cup (IF rule = "cascade" THEN members ELSE {})
           z == Enqueued(x, deleted)
           y == [z EXCEPT
                   !.gone = @ \cup deleted,
                   !.values = [d \in Object |-> IF d \in unlinked THEN None ELSE @[d]]]
<1>1. deleted \in SUBSET Object
  BY MasterValues DEF Members, Live
<1>2. z \in Context
  BY <1>1, EnqueuedType
<1>3. y \in Context
  <2> HIDE DEF z
  <2> QED
    BY <1>1, <1>2, MasterValues DEF Context
<1>4. Deleted(x, o) = WillChange(y, unlinked \cup {x.values[d] : d \in unlinked})
  BY DEF Deleted
<1> QED
  BY <1>3, <1>4, WillChangeType

LEMMA DeletesType ==
  ASSUME NEW x \in Context, NEW y \in Deletes(x) \cup Denials(x)
  PROVE  y \in Context
<1>1. CASE y \in Deletes(x)
  <2>1. PICK o \in Object : y = Deleted(x, o)
    BY <1>1 DEF Deletes, Live, Context
  <2> QED
    BY <2>1, DeletedType
<1>2. CASE y \in Denials(x)
  <2>1. PICK o \in Object : y = Enqueued(x, {o})
    BY <1>2 DEF Denials, Live, Context
  <2> QED
    BY <2>1, EnqueuedType
<1> QED
  BY <1>1, <1>2

LEMMA PeekedType ==
  ASSUME NEW x \in Context
  PROVE  Peeked(x) \in Context /\ InsertedAnswer(x) \in SUBSET Object
BY DEF Peeked, InsertedAnswer, Context, Sets, Kind

LEMMA ProcessedType ==
  ASSUME NEW x \in Context
  PROVE  Processed(x) \in Context
BY DEF Processed, NothingIn, Context, Sets, Kind

LEMMA ForgottenType ==
  ASSUME NEW x \in Context, NEW S
  PROVE  Forgotten(x, S) \in Context
BY DEF Forgotten, Context, Sets, Kind

LEMMA MovedType ==
  ASSUME NEW x \in Context, NEW o \in Object, pass \in Pass
  PROVE  Moved(x, o) \in Context
BY DEF Moved, Context, Sets, Kind, Pass

LEMMA EmptiedType ==
  ASSUME NEW x \in Context, pass \in Pass
  PROVE  Emptied(x) \in Context
BY DEF Emptied, Context, Sets, Kind, Pass

LEMMA HookType ==
  ASSUME NEW x \in Context, NEW y \in HookResults(x) \cup HookRaises(x)
  PROVE  y \in Context
<1>1. HookResults(x) \subseteq Context
  BY EditsType, InsertsType, DeletesType, PeekedType DEF HookResults
<1> QED
  BY <1>1, DeletesType DEF HookRaises

-----------------------------------------------------------------------------
(* Types.                                                                  *)

LEMMA KindsOf ==
  ASSUME NEW x \in Context, NEW k \in Kind
  PROVE  /\ x.tracked[k] \in SUBSET Object
         /\ x.queued[k] \in SUBSET Object
BY DEF Context, Sets

LEMMA UpdatedIsKind == "updated" \in Kind /\ "inserted" \in Kind /\ "deleted" \in Kind
BY DEF Kind

LEMMA InitType == Init => TypeOK
<1> SUFFICES ASSUME Init
             PROVE  TypeOK
  OBVIOUS
<1>1. db \in [Object -> Value] /\ Stored \in SUBSET Object
  BY ContextAssumption DEF ContextAssumption, Init
<1>2. ctx \in Context
  BY <1>1 DEF Init, Context, Sets, NothingIn
<1>3. pass \in Pass
  BY DEF Init, FirstPass, Pass, Kind
<1> QED
  BY <1>1, <1>2, <1>3 DEF Init, TypeOK

LEMMA EnterType ==
  ASSUME NEW p \in {"idle", "prepare", "validate", "store", "done"}, NEW x \in Context,
         EnterPhase(p, x)
  PROVE  /\ phase' = p
         /\ pass' \in Pass
         /\ todo' \subseteq Object
         /\ invalid' \in BOOLEAN
         /\ told' \subseteq Object
BY KindsOf, UpdatedIsKind DEF EnterPhase, FirstPass, Pass

LEMMA AppType ==
  ASSUME TypeOK, Edit \/ Insert \/ Delete \/ HasChanges \/ Peek
  PROVE  TypeOK'
<1>1. ctx \in Context
  BY DEF TypeOK
<1>2. ctx' \in Context
  BY <1>1, EditsType, InsertsType, DeletesType, ProcessedType, PeekedType
  DEF Edit, Insert, Delete, HasChanges, Peek
<1>3. UNCHANGED <<db, validating, saving>>
  BY DEF Edit, Insert, Delete, HasChanges, Peek
<1> QED
  BY <1>2, <1>3 DEF TypeOK, saving

LEMMA CurrentType ==
  ASSUME NEW x \in Context, pass \in Pass
  PROVE  Current(x) \in SUBSET Object
BY KindsOf DEF Current, Pass

LEMMA CallType ==
  ASSUME TypeOK, NEW o \in Object, Call(o)
  PROVE  TypeOK'
<1>1. ctx \in Context /\ pass \in Pass
  BY DEF TypeOK
<1>2. PICK y \in HookResults(ctx) :
         /\ ctx' = Moved(y, o)
         /\ \E seen \in SUBSET (Current(y) \ Current(ctx)) :
              todo' = ((todo \ {o}) \cap Current(y)) \cup seen
         /\ told' = (told \cup {o}) \ Disturbed(ctx, y)
  BY DEF Call
<1>3. y \in Context
  BY <1>1, HookType
<1>4. ctx' \in Context /\ todo' \subseteq Object
  BY <1>1, <1>2, <1>3, MovedType, CurrentType
<1>5. told' \subseteq Object
  BY <1>2 DEF TypeOK
<1>6. invalid' \in BOOLEAN
  BY DEF Call, TypeOK
<1> QED
  BY <1>4, <1>5, <1>6 DEF Call, TypeOK

LEMMA CallRaisesType ==
  ASSUME TypeOK, NEW o \in Object, CallRaises(o)
  PROVE  TypeOK'
<1>1. ctx' \in Context
  BY HookType DEF CallRaises, TypeOK
<1> QED
  BY <1>1, EnterType DEF CallRaises, TypeOK

LEMMA OrderType ==
  ASSUME NEW k \in Kind
  PROVE  \A i \in 1 .. 3 : After(k)[i] \in Kind
<1>1. After(k) \in {<<"inserted", "updated", "deleted">>, <<"updated", "deleted", "inserted">>,
                   <<"deleted", "inserted", "updated">>}
  BY DEF After, Kind
<1>2. After(k)[1] \in Kind /\ After(k)[2] \in Kind /\ After(k)[3] \in Kind
  BY <1>1 DEF Kind
<1>3. \A i \in 1 .. 3 : i \in {1, 2, 3}
  OBVIOUS
<1> QED
  BY <1>2, <1>3

LEMMA NextQueueType ==
  ASSUME NEW x \in Context, pass \in Pass
  PROVE  \/ NextQueue(x) = "none" /\ \A l \in Kind : x.queued[l] = {}
         \/ NextQueue(x) \in Kind /\ x.queued[NextQueue(x)] # {}
<1> DEFINE k == IF pass.src = "tracked" THEN "updated" ELSE pass.kind
           order == After(k)
           first == {i \in 1 .. 3 : x.queued[order[i]] # {}}
           i == CHOOSE i \in first : \A j \in first : i <= j
<1>1. k \in Kind
  BY DEF Pass, Kind
<1>2. \A j \in 1 .. 3 : order[j] \in Kind
  BY <1>1, OrderType
<1>3. CASE first = {}
  <2>1. order \in {<<"inserted", "updated", "deleted">>, <<"updated", "deleted", "inserted">>,
                   <<"deleted", "inserted", "updated">>}
    <3> HIDE DEF k
    <3> QED
      BY <1>1 DEF After, Kind
  <2>2. \A l \in Kind : order[1] = l \/ order[2] = l \/ order[3] = l
    <3> HIDE DEF order
    <3> QED
      BY <2>1 DEF Kind
  <2>3. x.queued[order[1]] = {} /\ x.queued[order[2]] = {} /\ x.queued[order[3]] = {}
    BY <1>3
  <2>4. NextQueue(x) = "none"
    BY <1>3 DEF NextQueue
  <2> QED
    BY <2>2, <2>3, <2>4
<1>4. CASE first # {}
  <2>1. \E n \in first : \A j \in first : n <= j
    <3>1. first \subseteq {1, 2, 3}
      OBVIOUS
    <3> QED
      BY <3>1, <1>4
  <2>2. i \in first
    BY <2>1
  <2>3. NextQueue(x) = order[i]
    BY <1>4 DEF NextQueue
  <2> QED
    BY <1>2, <2>2, <2>3
<1> QED
  BY <1>3, <1>4

LEMMA PassType ==
  ASSUME TypeOK, NextTracked \/ NextQueued \/ Prepared \/ Validated
  PROVE  TypeOK'
<1>1. ctx \in Context /\ pass \in Pass
  BY DEF TypeOK
<1>2. Emptied(ctx) \in Context
  BY <1>1, EmptiedType
<1>3. CASE NextTracked
  <2> DEFINE k == IF pass.kind = "updated" THEN "inserted" ELSE "deleted"
  <2>1. k \in Kind
    BY DEF Kind
  <2>2. pass' = [src |-> "tracked", kind |-> k] /\ todo' = ctx.tracked[k]
    BY <1>3 DEF NextTracked
  <2>3. pass' \in Pass /\ todo' \subseteq Object
    BY <1>1, <2>1, <2>2, KindsOf DEF Pass
  <2> QED
    BY <1>3, <2>3 DEF NextTracked, TypeOK
<1>4. CASE NextQueued
  <2>1. ctx' = Emptied(ctx) /\ NextQueue(ctx') \in Kind
    BY <1>1, <1>2, <1>4, NextQueueType DEF NextQueued
  <2>2. pass' \in Pass /\ todo' \subseteq Object
    BY <1>2, <1>4, <2>1, KindsOf DEF NextQueued, Pass
  <2> QED
    BY <1>2, <1>4, <2>1, <2>2 DEF NextQueued, TypeOK
<1>5. CASE Prepared
  <2>1. ctx' \in Context
    BY <1>2, <1>5 DEF Prepared, Settled
  <2> QED
    BY <1>5, <2>1, EnterType DEF Prepared, TypeOK
<1>6. CASE Validated
  <2>1. ctx' \in Context
    BY <1>2, <1>6 DEF Validated, Settled
  <2> QED
    BY <1>6, <2>1, EnterType DEF Validated, TypeOK
<1> QED
  BY <1>3, <1>4, <1>5, <1>6

LEMMA StoreType ==
  ASSUME TypeOK, Save \/ StoreWrites \/ StoreRefuses \/ Finish
  PROVE  TypeOK'
<1>1. ctx \in Context
  BY DEF TypeOK
<1>2. CASE Save
  BY <1>1, <1>2, ProcessedType, EnterType DEF Save, TypeOK
<1>3. CASE StoreWrites
  <2>1. Peeked(ctx) \in Context
    BY <1>1, PeekedType
  <2>2. ctx' \in Context
    BY <2>1, <1>3, ForgottenType DEF StoreWrites
  <2>3. Written(Peeked(ctx)) \in [Object -> Value]
    <3>1. Peeked(ctx).values \in [Object -> Value]
      BY <2>1 DEF Context
    <3> QED
      BY <3>1, MasterValues DEF Written, TypeOK
  <2> QED
    BY <1>3, <2>2, <2>3, EnterType DEF StoreWrites, TypeOK
<1>4. CASE StoreRefuses
  BY <1>1, <1>4, PeekedType, EnterType DEF StoreRefuses, TypeOK
<1>5. CASE Finish
  <2>1. ctx' \in Context
    BY <1>1, <1>5 DEF Finish, Context, Sets, NothingIn
  <2> QED
    BY <1>5, <2>1, EnterType DEF Finish, TypeOK
<1> QED
  BY <1>2, <1>3, <1>4, <1>5

LEMMA NextType == TypeOK /\ [Next]_vars => TypeOK'
<1> SUFFICES ASSUME TypeOK, [Next]_vars
             PROVE  TypeOK'
  OBVIOUS
<1>1. CASE UNCHANGED vars
  BY <1>1 DEF TypeOK, vars, saving
<1> QED
  BY <1>1, AppType, CallType, CallRaisesType, PassType, StoreType DEF Next, SaveStep

(* Every variable keeps its type, whatever the application, its callbacks  *)
(* and the store do.                                                       *)
THEOREM TypeCorrect == Spec => []TypeOK
BY InitType, NextType, PTL DEF Spec

-----------------------------------------------------------------------------
(* All that the proofs need to know of a context.                          *)
Consistent(x) == x \in Context /\ Registered(x) /\ Unsaved(x)

-----------------------------------------------------------------------------
(* What the operations of a context change.                                *)

LEMMA WillChangeFacts ==
  ASSUME NEW x \in Context, NEW S
  PROVE  /\ WillChange(x, S).values = x.values
         /\ WillChange(x, S).objects = x.objects
         /\ WillChange(x, S).gone = x.gone
         /\ WillChange(x, S).tracked = x.tracked
         /\ WillChange(x, S).cache = x.cache
         /\ WillChange(x, S).queued.updated = x.queued.updated \cup (S \cap x.objects)
         /\ WillChange(x, S).queued.inserted = x.queued.inserted
         /\ WillChange(x, S).queued.deleted = x.queued.deleted
BY DEF WillChange, Context, Sets, Kind

LEMMA EditedFacts ==
  ASSUME NEW x \in Context, NEW d \in Detail, NEW m \in Master \cup {None}
  PROVE  /\ Edited(x, d, m) \in Context
         /\ Edited(x, d, m).values = [x.values EXCEPT ![d] = m]
         /\ Edited(x, d, m).objects = x.objects
         /\ Edited(x, d, m).gone = x.gone
         /\ Edited(x, d, m).tracked = x.tracked
         /\ Edited(x, d, m).cache = x.cache
         /\ Edited(x, d, m).queued.updated =
              x.queued.updated \cup ({d, x.values[d], m} \cap x.objects)
         /\ Edited(x, d, m).queued.inserted = x.queued.inserted
         /\ Edited(x, d, m).queued.deleted = x.queued.deleted
<1> DEFINE z == [x EXCEPT !.values[d] = m]
<1>1. z \in Context
  BY MasterValues DEF Context
<1>2. /\ z.values = [x.values EXCEPT ![d] = m]
      /\ z.objects = x.objects /\ z.gone = x.gone
      /\ z.tracked = x.tracked /\ z.cache = x.cache /\ z.queued = x.queued
  BY DEF Context
<1>3. Edited(x, d, m) = WillChange(z, {d, x.values[d], m})
  BY DEF Edited
<1> HIDE DEF z
<1> QED
  BY <1>1, <1>2, <1>3, WillChangeFacts, WillChangeType

LEMMA EditsAre ==
  ASSUME NEW x \in Context, NEW y \in Edits(x)
  PROVE  \/ \E d \in Live(x) \cap Detail, m \in (Live(x) \cap Master) \cup {None} :
              y = Edited(x, d, m)
         \/ \E m \in Live(x) \cap Master : y = WillChange(x, {m})
<1>1. \/ \E d \in Live(x) \cap Detail : y \in NewValues(x, d)
      \/ \E m \in Live(x) \cap Master : y = WillChange(x, {m})
  BY DEF Edits
<1> QED
  BY <1>1 DEF NewValues

(* An edit keeps who is there, and queues what it changes.                 *)
LEMMA EditsFacts ==
  ASSUME NEW x \in Context, Registered(x), NEW y \in Edits(x)
  PROVE  /\ y \in Context
         /\ Registered(y)
         /\ Live(y) = Live(x)
         /\ y.tracked = x.tracked
         /\ y.cache = x.cache
         /\ y.queued.inserted = x.queued.inserted
         /\ y.queued.deleted = x.queued.deleted
         /\ x.queued.updated \subseteq y.queued.updated
         /\ \A o \in Live(x) : y.values[o] = x.values[o] \/ o \in y.queued.updated
<1>1. CASE \E m \in Live(x) \cap Master : y = WillChange(x, {m})
  BY <1>1, WillChangeFacts, WillChangeType DEF Registered, Live, InSome
<1>2. ASSUME NEW d \in Live(x) \cap Detail, NEW m \in (Live(x) \cap Master) \cup {None},
             y = Edited(x, d, m)
      PROVE  /\ y \in Context
             /\ Registered(y)
             /\ Live(y) = Live(x)
             /\ y.tracked = x.tracked
             /\ y.cache = x.cache
             /\ y.queued.inserted = x.queued.inserted
             /\ y.queued.deleted = x.queued.deleted
             /\ x.queued.updated \subseteq y.queued.updated
             /\ \A o \in Live(x) : y.values[o] = x.values[o] \/ o \in y.queued.updated
  <2>1. /\ y \in Context
        /\ y.values = [x.values EXCEPT ![d] = m]
        /\ y.objects = x.objects /\ y.gone = x.gone
        /\ y.tracked = x.tracked /\ y.cache = x.cache
        /\ y.queued.updated = x.queued.updated \cup ({d, x.values[d], m} \cap x.objects)
        /\ y.queued.inserted = x.queued.inserted
        /\ y.queued.deleted = x.queued.deleted
    BY <1>2, EditedFacts
  <2>2. Live(y) = Live(x) /\ Live(x) \subseteq x.objects
    BY <2>1 DEF Live
  <2>3. x.values \in [Object -> Value] /\ Live(x) \subseteq Object
    BY DEF Context, Live
  <2>4. m # Absent /\ (m \in Master => m \in Live(x))
    BY ContextAssumption DEF ContextAssumption, Object
  <2>5. \A o \in Live(x) : y.values[o] = IF o = d THEN m ELSE x.values[o]
    BY <2>1, <2>3
  <2>6. \A n \in Live(x) \cap Master : y.values[n] = x.values[n]
    BY <2>5, ContextAssumption DEF ContextAssumption
  <2>7. Registered(y)
    BY <2>1, <2>2, <2>4, <2>5, <2>6 DEF Registered, InSome
  <2> QED
    BY <2>1, <2>2, <2>5, <2>7
<1> QED
  BY <1>1, <1>2, EditsAre

LEMMA EditsConsistent ==
  ASSUME NEW x, Consistent(x), NEW y \in Edits(x)
  PROVE  Consistent(y) /\ y.cache = x.cache
BY EditsFacts DEF Consistent, Unsaved, InSome

LEMMA EditsSaved ==
  ASSUME NEW x \in Context, Registered(x), Saved(x), NEW y \in Edits(x)
  PROVE  y \in Context /\ Registered(y) /\ Saved(y)
BY EditsFacts DEF Saved

LEMMA InsertsConsistent ==
  ASSUME NEW x, Consistent(x), NEW y \in Inserts(x)
  PROVE  Consistent(y) /\ y.cache = {}
<1>1. PICK o \in Object \ x.objects : db[o] = Absent /\ y = Inserted(x, o)
  BY DEF Inserts, Fresh
<1>2. x \in Context /\ Registered(x) /\ Unsaved(x)
  BY DEF Consistent
<1>3. y \in Context
  BY <1>2, InsertsType
<1>4. /\ y.values = [x.values EXCEPT ![o] = None]
      /\ y.objects = x.objects \cup {o}
      /\ y.gone = x.gone
      /\ y.cache = {}
      /\ y.tracked = x.tracked
      /\ y.queued.updated = x.queued.updated
      /\ y.queued.inserted = x.queued.inserted \cup {o}
      /\ y.queued.deleted = x.queued.deleted
  BY <1>1, <1>2 DEF Inserted, Context, Sets, Kind
<1>5. Live(y) = Live(x) \cup {o}
  BY <1>1, <1>2, <1>4 DEF Live, Registered
<1>6. /\ y.values[o] = None
      /\ \A p \in Live(x) : y.values[p] = x.values[p]
  BY <1>1, <1>2, <1>4 DEF Context, Live
<1>7. None # Absent /\ None \notin Master
  BY ContextAssumption DEF ContextAssumption, Object
<1>8. Registered(y)
  BY <1>2, <1>4, <1>5, <1>6, <1>7 DEF Registered, InSome
<1>9. Unsaved(y)
  BY <1>1, <1>2, <1>4, <1>5, <1>6 DEF Unsaved, InSome
<1> QED
  BY <1>3, <1>4, <1>8, <1>9 DEF Consistent

LEMMA EnqueuedFacts ==
  ASSUME NEW x \in Context, NEW S \in SUBSET Object
  PROVE  /\ Enqueued(x, S).values = x.values
         /\ Enqueued(x, S).objects = x.objects
         /\ Enqueued(x, S).gone = x.gone
         /\ Enqueued(x, S).cache = x.cache
         /\ Enqueued(x, S).queued.updated = x.queued.updated
         /\ Enqueued(x, S).queued.inserted = x.queued.inserted \ S
         /\ Enqueued(x, S).queued.deleted = x.queued.deleted \cup S
         /\ Enqueued(x, S).tracked.updated = x.tracked.updated
         /\ Enqueued(x, S).tracked.inserted = x.tracked.inserted \ S
         /\ Enqueued(x, S).tracked.deleted = x.tracked.deleted
BY DEF Enqueued, Context, Sets, Kind

LEMMA RecordOfContext ==
  ASSUME NEW z \in Context, NEW gone \in SUBSET Object, NEW values \in [Object -> Value]
  PROVE  [z EXCEPT !.gone = gone, !.values = values] \in Context
BY DEF Context

(* A deletion takes o and some of its members away, and unlinks whatever   *)
(* refers to o.                                                            *)
LEMMA DeletedFacts ==
  ASSUME Calm, NEW x, Consistent(x), NEW o \in Live(x)
  PROVE  \E deleted \in SUBSET Live(x), unlinked \in SUBSET Live(x) :
           LET y == Deleted(x, o) IN
           /\ o \in deleted
           /\ \A d \in Live(x) : x.values[d] \in deleted => d \in unlinked
           /\ y \in Context
           /\ y.values = [d \in Object |-> IF d \in unlinked THEN None ELSE x.values[d]]
           /\ y.objects = x.objects
           /\ y.gone = x.gone \cup deleted
           /\ y.cache = x.cache
           /\ unlinked \cup x.queued.updated \subseteq y.queued.updated
           /\ y.queued.inserted = x.queued.inserted \ deleted
           /\ y.queued.deleted = x.queued.deleted \cup deleted
           /\ y.tracked.updated = x.tracked.updated
           /\ y.tracked.inserted = x.tracked.inserted \ deleted
           /\ y.tracked.deleted = x.tracked.deleted
<1> DEFINE rule == IF o \in Master THEN Rule[o] ELSE "nullify"
           members == IF rule \in {"nullify", "cascade"} THEN Members(x, o) ELSE {}
           unlinked == {d \in members \cup {o} : x.values[d] # None}
           deleted == {o} \cup (IF rule = "cascade" THEN members ELSE {})
           z == Enqueued(x, deleted)
           w == [z EXCEPT
                   !.gone = @ \cup deleted,
                   !.values = [d \in Object |-> IF d \in unlinked THEN None ELSE @[d]]]
           S == unlinked \cup {x.values[d] : d \in unlinked}
<1>1. x \in Context /\ Registered(x) /\ Live(x) \subseteq Object /\ Live(x) \subseteq x.objects
  BY DEF Consistent, Context, Live
<1>2. rule \in {"nullify", "cascade"} /\ members = Members(x, o)
  BY DEF Calm
<1>3. members \in SUBSET Live(x) /\ members \subseteq Detail
  BY DEF Members
<1>4. deleted \in SUBSET Live(x) /\ unlinked \in SUBSET Live(x) /\ deleted \in SUBSET Object
  BY <1>1, <1>3
<1>5. \A d \in Live(x) : x.values[d] \in deleted => d \in unlinked
  <2> SUFFICES ASSUME NEW d \in Live(x), x.values[d] \in deleted
               PROVE  d \in unlinked
    OBVIOUS
  <2>1. x.values[d] \in Value /\ x.values[d] # Absent /\ x.values[d] \in Object
    BY <1>1, <1>4 DEF Context, Registered
  <2>2. x.values[d] \in Master /\ x.values[d] # None
    BY <2>1, ContextAssumption DEF ContextAssumption, Value
  <2>3. x.values[d] = o
    <3>1. Master \cap Detail = {}
      BY ContextAssumption DEF ContextAssumption
    <3> QED
      BY <1>3, <2>2, <3>1
  <2>4. d \in Detail
    BY <1>1, <2>2 DEF Registered, Object
  <2> QED
    BY <1>2, <2>2, <2>3, <2>4 DEF Members
<1>6. /\ z \in Context
      /\ z.values = x.values /\ z.objects = x.objects /\ z.gone = x.gone /\ z.cache = x.cache
      /\ z.queued.updated = x.queued.updated
      /\ z.queued.inserted = x.queued.inserted \ deleted
      /\ z.queued.deleted = x.queued.deleted \cup deleted
      /\ z.tracked.updated = x.tracked.updated
      /\ z.tracked.inserted = x.tracked.inserted \ deleted
      /\ z.tracked.deleted = x.tracked.deleted
  BY <1>1, <1>4, EnqueuedFacts, EnqueuedType
<1> DEFINE values == [d \in Object |-> IF d \in unlinked THEN None ELSE x.values[d]]
<1>7. Deleted(x, o) = WillChange(w, S)
  BY DEF Deleted
<1> HIDE DEF z, S, deleted
<1>8. /\ w.values = values /\ w.objects = z.objects /\ w.gone = x.gone \cup deleted
      /\ w.cache = z.cache /\ w.queued = z.queued /\ w.tracked = z.tracked
  BY <1>6 DEF Context
<1>9. w \in Context
  <2>1. values \in [Object -> Value]
    BY <1>1 DEF Context, Value
  <2>2. w = [z EXCEPT !.gone = x.gone \cup deleted, !.values = values]
    BY <1>6
  <2> HIDE DEF values
  <2>3. x.gone \cup deleted \in SUBSET Object
    BY <1>1, <1>4 DEF Context
  <2> QED
    BY <1>6, <2>1, <2>2, <2>3, RecordOfContext
<1> HIDE DEF w, values
<1>10. /\ WillChange(w, S).values = values
       /\ WillChange(w, S).objects = x.objects
       /\ WillChange(w, S).gone = x.gone \cup deleted
       /\ WillChange(w, S).cache = x.cache
       /\ WillChange(w, S).tracked = z.tracked
       /\ WillChange(w, S).queued.updated = x.queued.updated \cup (S \cap x.objects)
       /\ WillChange(w, S).queued.inserted = z.queued.inserted
       /\ WillChange(w, S).queued.deleted = z.queued.deleted
       /\ WillChange(w, S) \in Context
  BY <1>6, <1>8, <1>9, WillChangeFacts, WillChangeType
<1>11. unlinked \subseteq S \cap x.objects /\ o \in deleted
  BY <1>1, <1>4 DEF S, deleted
<1> HIDE DEF unlinked
<1> QED
  BY <1>4, <1>5, <1>6, <1>7, <1>10, <1>11 DEF values

LEMMA DeletesConsistent ==
  ASSUME Calm, NEW x, Consistent(x), NEW y \in Deletes(x)
  PROVE  Consistent(y) /\ y.cache = x.cache
<1>1. PICK o \in Live(x) : y = Deleted(x, o)
  BY DEF Deletes
<1>2. x \in Context /\ Registered(x) /\ Unsaved(x)
  BY DEF Consistent
<1>3. PICK deleted \in SUBSET Live(x), unlinked \in SUBSET Live(x) :
        /\ o \in deleted
        /\ \A d \in Live(x) : x.values[d] \in deleted => d \in unlinked
        /\ y \in Context
        /\ y.values = [d \in Object |-> IF d \in unlinked THEN None ELSE x.values[d]]
        /\ y.objects = x.objects
        /\ y.gone = x.gone \cup deleted
        /\ y.cache = x.cache
        /\ unlinked \cup x.queued.updated \subseteq y.queued.updated
        /\ y.queued.inserted = x.queued.inserted \ deleted
        /\ y.queued.deleted = x.queued.deleted \cup deleted
        /\ y.tracked.updated = x.tracked.updated
        /\ y.tracked.inserted = x.tracked.inserted \ deleted
        /\ y.tracked.deleted = x.tracked.deleted
  BY <1>1, DeletedFacts
<1>4. Live(y) = Live(x) \ deleted /\ Live(x) \subseteq Object /\ Live(x) \subseteq x.objects
  BY <1>2, <1>3 DEF Live, Context
<1>5. \A d \in Live(y) : y.values[d] = IF d \in unlinked THEN None ELSE x.values[d]
  BY <1>3, <1>4
<1>6. None # Absent /\ None \notin Master
  BY ContextAssumption DEF ContextAssumption, Object
<1>7. /\ InSome(y, "deleted") = InSome(x, "deleted") \cup deleted
      /\ InSome(y, "inserted") = InSome(x, "inserted") \ deleted
      /\ InSome(x, "updated") \cup unlinked \subseteq InSome(y, "updated")
  BY <1>3 DEF InSome
<1>8. Registered(y)
  <2>1. y.gone \subseteq y.objects /\ InSome(y, "deleted") \subseteq y.gone
    BY <1>2, <1>3, <1>4, <1>7 DEF Registered
  <2>2. \A p \in Object : db[p] # Absent => p \in y.objects
    BY <1>2, <1>3 DEF Registered
  <2>3. \A d \in Live(y) : y.values[d] # Absent /\ (y.values[d] \in Master => y.values[d] \in Live(y))
    BY <1>2, <1>3, <1>4, <1>5, <1>6 DEF Registered
  <2>4. \A m \in Live(y) \cap Master : y.values[m] = None
    BY <1>2, <1>4, <1>5 DEF Registered
  <2> QED
    BY <2>1, <2>2, <2>3, <2>4 DEF Registered
<1>9. Unsaved(y)
  BY <1>2, <1>4, <1>5, <1>7 DEF Unsaved
<1> QED
  BY <1>3, <1>8, <1>9 DEF Consistent

LEMMA NothingDenied ==
  ASSUME Calm, NEW x
  PROVE  Denials(x) = {}
BY DEF Calm, Denials, Denied

-----------------------------------------------------------------------------
(* The rest of the operations do not change what the application sees or   *)
(* what the context knows, only where it keeps it.                         *)

Same(x, y) ==
  /\ y \in Context
  /\ y.values = x.values /\ y.objects = x.objects /\ y.gone = x.gone
  /\ InSome(y, "inserted") = InSome(x, "inserted")
  /\ InSome(y, "deleted") = InSome(x, "deleted")
  /\ InSome(y, "updated") \cup InSome(x, "inserted") \cup InSome(x, "deleted")
       = InSome(x, "updated") \cup InSome(x, "inserted") \cup InSome(x, "deleted")

LEMMA SameConsistent ==
  ASSUME NEW x, Consistent(x), NEW y, Same(x, y)
  PROVE  Consistent(y)
<1>1. x \in Context /\ Registered(x) /\ Unsaved(x) /\ y \in Context
  BY DEF Consistent, Same
<1>2. Live(y) = Live(x)
  BY DEF Live, Same
<1>3. Registered(y)
  BY <1>1, <1>2 DEF Registered, Same
<1>4. \A o \in Live(x) : o \in InSome(x, "updated") => o \in InSome(y, "updated") \/ db[o] = Absent
  BY <1>1 DEF Registered, Unsaved, Same, Live
<1>5. Unsaved(y)
  BY <1>1, <1>2, <1>4 DEF Unsaved, Same
<1> QED
  BY <1>1, <1>3, <1>5 DEF Consistent

LEMMA ProcessedSame ==
  ASSUME NEW x \in Context
  PROVE  /\ Same(x, Processed(x))
         /\ Processed(x).cache = {}
         /\ \A k \in Kind : Processed(x).queued[k] = {}
<1>1. Processed(x) \in Context
  BY ProcessedType
<1>2. /\ Processed(x).values = x.values
      /\ Processed(x).objects = x.objects
      /\ Processed(x).gone = x.gone
      /\ Processed(x).cache = {}
      /\ Processed(x).queued = NothingIn
      /\ Processed(x).tracked.inserted = InSome(x, "inserted")
      /\ Processed(x).tracked.deleted = InSome(x, "deleted")
      /\ Processed(x).tracked.updated =
           x.tracked.updated \cup (x.queued.updated \ (InSome(x, "inserted") \cup InSome(x, "deleted")))
  BY DEF Processed, Context, Sets, Kind, InSome
<1>3. \A k \in Kind : Processed(x).queued[k] = {}
  BY <1>2 DEF NothingIn
<1>4. /\ InSome(Processed(x), "inserted") = InSome(x, "inserted")
      /\ InSome(Processed(x), "deleted") = InSome(x, "deleted")
      /\ InSome(Processed(x), "updated") = Processed(x).tracked.updated
  BY <1>2, <1>3 DEF InSome, Kind
<1>5. InSome(Processed(x), "updated") \cup InSome(x, "inserted") \cup InSome(x, "deleted")
        = InSome(x, "updated") \cup InSome(x, "inserted") \cup InSome(x, "deleted")
  BY <1>2, <1>4 DEF InSome
<1> QED
  BY <1>1, <1>2, <1>3, <1>4, <1>5 DEF Same

LEMMA PeekedSame ==
  ASSUME NEW x \in Context
  PROVE  /\ Same(x, Peeked(x))
         /\ Peeked(x).tracked = x.tracked /\ Peeked(x).queued = x.queued
         /\ x.cache = {} => InsertedAnswer(Peeked(x)) = InSome(x, "inserted")
<1>1. /\ Peeked(x).values = x.values
      /\ Peeked(x).objects = x.objects
      /\ Peeked(x).gone = x.gone
      /\ Peeked(x).tracked = x.tracked
      /\ Peeked(x).queued = x.queued
      /\ Peeked(x).cache = InsertedAnswer(x)
      /\ Peeked(x) \in Context
  BY PeekedType DEF Peeked, Context
<1> QED
  BY <1>1 DEF Same, InSome, InsertedAnswer

LEMMA MovedFacts ==
  ASSUME NEW x \in Context, pass \in Pass, NEW o \in Object
  PROVE  /\ Moved(x, o) \in Context
         /\ Moved(x, o).values = x.values
         /\ Moved(x, o).objects = x.objects
         /\ Moved(x, o).gone = x.gone
         /\ Moved(x, o).cache = x.cache
         /\ Moved(x, o).queued = x.queued
         /\ \A k \in Kind : Moved(x, o).tracked[k] =
              IF pass.src = "queued" /\ k = pass.kind THEN x.tracked[k] \cup {o} ELSE x.tracked[k]
BY MovedType DEF Moved, Context, Sets, Pass

LEMMA EmptiedFacts ==
  ASSUME NEW x \in Context, pass \in Pass
  PROVE  /\ Emptied(x) \in Context
         /\ Emptied(x).values = x.values
         /\ Emptied(x).objects = x.objects
         /\ Emptied(x).gone = x.gone
         /\ Emptied(x).cache = x.cache
         /\ Emptied(x).tracked = x.tracked
         /\ \A k \in Kind : Emptied(x).queued[k] =
              IF pass.src = "queued" /\ k = pass.kind THEN {} ELSE x.queued[k]
BY EmptiedType DEF Emptied, Context, Sets, Pass

(* When no queue is next, all are empty.                                   *)
LEMMA NoQueueLeft ==
  ASSUME NEW x \in Context, pass \in Pass, NextQueue(x) = "none"
  PROVE  \A k \in Kind : x.queued[k] = {}
BY NextQueueType DEF Kind

-----------------------------------------------------------------------------
(* What a callback may leave behind.                                       *)

LEMMA HooksConsistent ==
  ASSUME Calm, phase # "done", NEW x, Consistent(x), NEW y \in HookResults(x) \cup HookRaises(x)
  PROVE  /\ Consistent(y)
         /\ x.cache = {} => y.cache = {}
         /\ pass.src = "queued" => y = x
<1>1. ~May("peek") /\ (pass.src = "queued" => ~May("edit") /\ ~May("insert") /\ ~May("delete"))
  BY DEF May, Calm
<1>2. Denials(x) = {}
  BY NothingDenied
<1>3. \/ y = x
      \/ y \in Edits(x) /\ May("edit")
      \/ y \in Inserts(x) /\ May("insert")
      \/ y \in Deletes(x) /\ May("delete")
  BY <1>1, <1>2 DEF HookResults, HookRaises
<1> QED
  BY <1>1, <1>3, EditsConsistent, InsertsConsistent, DeletesConsistent

LEMMA LateHooks ==
  ASSUME Calm, phase = "done", NEW x
  PROVE  HookResults(x) \subseteq {x} \cup Edits(x) /\ HookRaises(x) = {}
<1>1. "late" \notin HookOps
  BY DEF Calm
<1>2. ~May("peek") /\ ~May("insert") /\ ~May("delete")
  BY <1>1 DEF May
<1> QED
  BY <1>1, <1>2 DEF HookResults, HookRaises

-----------------------------------------------------------------------------
(* Every step preserves ContextInv.                                        *)

LEMMA KeptRows ==
  ASSUME db' = db, Consistent(ctx'), phase' # "done", PassInv'
  PROVE  ContextInv'
<1>1. Registered(ctx)' /\ Unsaved(ctx)'
  BY DEF Consistent, Registered, Unsaved, Live, InSome
<1> QED
  BY <1>1 DEF ContextInv

LEMMA OpenConsistent ==
  ASSUME TypeOK, ContextInv, phase # "done"
  PROVE  Consistent(ctx) /\ PassInv
BY DEF TypeOK, ContextInv, Consistent

LEMMA AppSteps ==
  ASSUME Calm, TypeOK, ContextInv, Edit \/ Insert \/ Delete \/ HasChanges \/ Peek
  PROVE  ContextInv'
<1>1. phase = "idle" /\ UNCHANGED <<db, saving>>
  BY DEF Edit, Insert, Delete, HasChanges, Peek, Idle
<1>2. Consistent(ctx) /\ PassInv /\ ctx \in Context
  BY <1>1, OpenConsistent DEF TypeOK
<1>3. \/ ctx' \in Edits(ctx) \/ ctx' \in Inserts(ctx) \/ ctx' \in Deletes(ctx)
      \/ ctx' = Processed(ctx) \/ ctx' = Peeked(ctx)
  BY NothingDenied DEF Edit, Insert, Delete, HasChanges, Peek
<1>4. Consistent(ctx')
  BY <1>2, <1>3, EditsConsistent, InsertsConsistent, DeletesConsistent, ProcessedSame, PeekedSame,
     SameConsistent
<1>5. PassInv'
  BY <1>1, <1>2 DEF PassInv, saving
<1> QED
  BY <1>1, <1>4, <1>5, KeptRows DEF saving

LEMMA SaveSteps ==
  ASSUME TypeOK, ContextInv, Save
  PROVE  ContextInv'
<1>1. phase = "idle" /\ ctx' = Processed(ctx) /\ db' = db /\ EnterPhase("prepare", Processed(ctx))
  BY DEF Save, Idle
<1>2. Consistent(ctx) /\ ctx \in Context
  BY <1>1, OpenConsistent DEF TypeOK
<1>3. Consistent(ctx') /\ ctx'.cache = {}
  BY <1>1, <1>2, ProcessedSame, SameConsistent
<1>4. phase' = "prepare" /\ pass'.src = "tracked"
  BY <1>1 DEF EnterPhase, FirstPass
<1>5. PassInv'
  BY <1>3, <1>4 DEF PassInv
<1> QED
  BY <1>1, <1>3, <1>4, <1>5, KeptRows

LEMMA CallSteps ==
  ASSUME Calm, TypeOK, ContextInv, NEW o \in Object, Call(o)
  PROVE  ContextInv'
<1>1. PICK y \in HookResults(ctx) :
        /\ ctx' = Moved(y, o)
        /\ \E seen \in SUBSET (Current(y) \ Current(ctx)) :
             todo' = ((todo \ {o}) \cap Current(y)) \cup seen
  BY DEF Call
<1>2. o \in todo /\ phase \in {"prepare", "validate", "done"} /\ db' = db /\ phase' = phase /\ pass' = pass
  BY DEF Call, CalledBack
<1>3. ctx \in Context /\ pass \in Pass /\ PassInv /\ Registered(ctx)
  BY DEF TypeOK, ContextInv
<1>4. CASE phase = "done"
  <2>1. pass.src = "tracked" /\ Saved(ctx)
    BY <1>3, <1>4 DEF PassInv, ContextInv
  <2>2. ctx' = y
    BY <1>1, <2>1 DEF Moved
  <2>3. Registered(ctx') /\ Saved(ctx')
    BY <1>1, <1>3, <1>4, <2>1, <2>2, LateHooks, EditsSaved
  <2>4. Registered(ctx)' /\ Saved(ctx)'
    BY <1>2, <2>3 DEF Registered, Saved, Live, InSome
  <2>5. PassInv'
    BY <1>2, <1>4, <2>1 DEF PassInv
  <2> QED
    BY <1>2, <1>4, <2>4, <2>5 DEF ContextInv
<1>5. CASE phase # "done"
  <2>1. Consistent(ctx) /\ ctx.cache = {}
    BY <1>2, <1>3, <1>5, OpenConsistent DEF PassInv
  <2>2. Consistent(y) /\ y.cache = {} /\ (pass.src = "queued" => y = ctx)
    BY <1>1, <1>5, <2>1, HooksConsistent
  <2>3. CASE pass.src = "tracked"
    <3>1. ctx' = y
      BY <1>1, <2>3 DEF Moved
    <3>2. PassInv'
      BY <1>2, <1>5, <2>2, <2>3, <3>1 DEF PassInv
    <3> QED
      BY <1>2, <1>5, <2>2, <3>1, <3>2, KeptRows
  <2>4. CASE pass.src = "queued"
    <3>1. /\ ctx' = Moved(ctx, o)
          /\ todo \subseteq ctx.queued[pass.kind]
          /\ ctx.queued[pass.kind] \subseteq ctx.tracked[pass.kind] \cup todo
          /\ pass.kind \in Kind
      BY <1>1, <1>3, <2>2, <2>4 DEF PassInv, Pass
    <3>2. todo' = todo \ {o}
      BY <1>1, <2>2, <2>4, <3>1 DEF Current
    <3>3. Same(ctx, ctx')
      <4>1. \A k \in Kind : InSome(ctx', k) = InSome(ctx, k)
        <5>1. o \in ctx.queued[pass.kind]
          BY <1>2, <3>1
        <5>2. /\ ctx'.queued = ctx.queued
              /\ \A k \in Kind : ctx'.tracked[k] = IF k = pass.kind THEN ctx.tracked[k] \cup {o}
                                                   ELSE ctx.tracked[k]
          BY <1>3, <2>4, <3>1, MovedFacts
        <5> QED
          BY <5>1, <5>2 DEF InSome
      <4> QED
        BY <1>3, <3>1, <4>1, MovedFacts, UpdatedIsKind DEF Same
    <3>4. /\ ctx'.cache = {} /\ ctx'.queued = ctx.queued
          /\ ctx'.tracked[pass.kind] = ctx.tracked[pass.kind] \cup {o}
      BY <1>3, <2>1, <2>4, <3>1, MovedFacts
    <3>5. PassInv'
      BY <1>2, <1>5, <2>4, <3>1, <3>2, <3>4 DEF PassInv
    <3> QED
      BY <1>2, <1>5, <2>1, <3>3, <3>5, SameConsistent, KeptRows
  <2> QED
    BY <1>3, <2>3, <2>4 DEF Pass
<1> QED
  BY <1>4, <1>5

LEMMA CallRaisesSteps ==
  ASSUME Calm, TypeOK, ContextInv, NEW o \in Object, CallRaises(o)
  PROVE  phase # "done" /\ ContextInv'
<1>1. /\ ctx' \in HookResults(ctx) \cup HookRaises(ctx)
      /\ ctx' \in HookRaises(ctx) \/ Current(ctx') # Current(ctx)
      /\ EnterPhase("idle", ctx')
      /\ db' = db
  BY DEF CallRaises
<1>2. ctx \in Context /\ pass \in Pass /\ PassInv /\ Registered(ctx)
  BY DEF TypeOK, ContextInv
<1>3. phase # "done"
  <2> SUFFICES ASSUME phase = "done"
               PROVE  FALSE
    OBVIOUS
  <2>1. pass.src = "tracked"
    BY <1>2 DEF PassInv
  <2>2. ctx' \in {ctx} \cup Edits(ctx) /\ Current(ctx') # Current(ctx)
    BY <1>1, LateHooks
  <2> QED
    BY <1>2, <2>1, <2>2, EditsFacts DEF Current
<1>4. Consistent(ctx')
  BY <1>1, <1>3, OpenConsistent, HooksConsistent
<1>5. phase' = "idle" /\ pass'.src = "tracked"
  BY <1>1 DEF EnterPhase, FirstPass
<1>6. PassInv'
  BY <1>5 DEF PassInv
<1> QED
  BY <1>1, <1>3, <1>4, <1>5, <1>6, KeptRows

LEMMA EmptiedKeeps ==
  ASSUME TypeOK, ContextInv, Looping
  PROVE  /\ Same(ctx, Emptied(ctx)) /\ Consistent(Emptied(ctx))
         /\ Emptied(ctx).cache = {} /\ phase # "done"
<1>1. ctx \in Context /\ pass \in Pass /\ phase \in {"prepare", "validate"} /\ todo = {}
  BY DEF TypeOK, Looping
<1>2. Consistent(ctx) /\ PassInv /\ ctx.cache = {}
  BY <1>1, OpenConsistent DEF PassInv
<1>3. pass.src = "queued" => ctx.queued[pass.kind] \subseteq ctx.tracked[pass.kind]
  BY <1>1, <1>2 DEF PassInv
<1>4. \A k \in Kind : InSome(Emptied(ctx), k) = InSome(ctx, k)
  BY <1>1, <1>3, EmptiedFacts DEF InSome
<1>5. Same(ctx, Emptied(ctx))
  BY <1>1, <1>4, EmptiedFacts, UpdatedIsKind DEF Same
<1> QED
  BY <1>1, <1>2, <1>5, EmptiedFacts, SameConsistent

LEMMA PassSteps ==
  ASSUME TypeOK, ContextInv, NextTracked \/ NextQueued \/ Prepared \/ Validated
  PROVE  ContextInv'
<1>1. ctx \in Context /\ pass \in Pass /\ PassInv
  BY DEF TypeOK, ContextInv
<1>2. CASE NextTracked
  <2>1. UNCHANGED <<db, ctx, phase>> /\ pass'.src = "tracked"
    BY <1>2 DEF NextTracked
  <2>2. PassInv'
    BY <1>1, <2>1 DEF PassInv
  <2>3. Registered(ctx)' /\ (IF phase = "done" THEN Saved(ctx) ELSE Unsaved(ctx))'
    BY <2>1 DEF ContextInv, Registered, Saved, Unsaved, Live, InSome
  <2> QED
    BY <2>2, <2>3 DEF ContextInv
<1>3. CASE NextQueued
  <2>1. /\ ctx' = Emptied(ctx) /\ db' = db /\ phase' = phase
        /\ pass'.src = "queued"
        /\ todo' = ctx'.queued[pass'.kind]
        /\ phase \in {"prepare", "validate"}
    BY <1>3 DEF NextQueued, Looping
  <2>2. Consistent(ctx') /\ ctx'.cache = {}
    BY <1>3, <2>1, EmptiedKeeps DEF NextQueued
  <2>3. PassInv'
    BY <2>1, <2>2 DEF PassInv
  <2> QED
    BY <2>1, <2>2, <2>3, KeptRows
<1>4. CASE Prepared \/ Validated
  <2>1. /\ Looping /\ ctx' = Emptied(ctx) /\ NextQueue(Emptied(ctx)) = "none" /\ db' = db
        /\ \E p \in {"validate", "store", "idle"} : EnterPhase(p, ctx')
    BY <1>4 DEF Prepared, Validated, Settled
  <2>2. phase' \in {"validate", "store", "idle"} /\ pass'.src = "tracked"
    BY <2>1 DEF EnterPhase, FirstPass
  <2>3. Consistent(ctx') /\ ctx'.cache = {}
    BY <2>1, EmptiedKeeps
  <2>4. \A k \in Kind : ctx'.queued[k] = {}
    BY <1>1, <2>1, EmptiedFacts, NoQueueLeft
  <2>5. PassInv'
    BY <2>2, <2>3, <2>4 DEF PassInv
  <2> QED
    BY <2>1, <2>2, <2>3, <2>5, KeptRows
<1> QED
  BY <1>2, <1>3, <1>4

LEMMA RefusedSteps ==
  ASSUME TypeOK, ContextInv, StoreRefuses
  PROVE  ContextInv'
<1>1. phase = "store" /\ ctx' = Peeked(ctx) /\ db' = db /\ EnterPhase("idle", ctx')
  BY DEF StoreRefuses
<1>2. Consistent(ctx) /\ ctx \in Context
  BY <1>1, OpenConsistent DEF TypeOK
<1>3. Consistent(ctx')
  BY <1>1, <1>2, PeekedSame, SameConsistent
<1>4. phase' = "idle" /\ pass'.src = "tracked"
  BY <1>1 DEF EnterPhase, FirstPass
<1>5. PassInv'
  BY <1>4 DEF PassInv
<1> QED
  BY <1>1, <1>3, <1>4, <1>5, KeptRows

LEMMA ForgottenFacts ==
  ASSUME NEW x \in Context, NEW S
  PROVE  /\ Forgotten(x, S).values = x.values
         /\ Forgotten(x, S).objects = x.objects \ S
         /\ Forgotten(x, S).gone = x.gone \ S
         /\ \A k \in Kind : /\ Forgotten(x, S).queued[k] = x.queued[k] \ S
                            /\ Forgotten(x, S).tracked[k] = x.tracked[k] \ S
BY DEF Forgotten, Context, Sets

(* The store writes what the application sees, no more and no less.        *)
LEMMA WritesView ==
  ASSUME TypeOK, ContextInv, StoreWrites
  PROVE  /\ db' = View(ctx)
         /\ \E S \in SUBSET ctx.gone : ctx' = Forgotten(Peeked(ctx), S)
<1> DEFINE y == Peeked(ctx)
<1>1. phase = "store" /\ Storable(y) /\ db' = Written(y) /\ ctx' = Forgotten(y, ToDelete(y))
  BY DEF StoreWrites
<1>2. Consistent(ctx) /\ PassInv /\ ctx \in Context /\ db \in [Object -> Value]
  BY <1>1, OpenConsistent DEF TypeOK
<1>3. ctx.cache = {} /\ \A k \in Kind : ctx.queued[k] = {}
  BY <1>1, <1>2 DEF PassInv
<1>4. /\ y.values = ctx.values
      /\ ToUpdate(y) = InSome(ctx, "updated")
      /\ ToInsert(y) = InSome(ctx, "inserted")
      /\ ToDelete(y) = {o \in InSome(ctx, "deleted") : db[o] # Absent}
  BY <1>2, <1>3, PeekedSame DEF Same, ToUpdate, ToInsert, ToDelete, InSome
<1> HIDE DEF y
<1>5. Registered(ctx) /\ Unsaved(ctx) /\ Live(ctx) \subseteq Object
  BY <1>2 DEF Consistent, Context, Live
<1>6. \A o \in ToUpdate(y) : db[o] # Absent
  BY <1>1 DEF Storable
<1>7. ASSUME NEW o \in Object
      PROVE  Written(y)[o] = View(ctx)[o]
  <2>1. Written(y)[o] = IF o \in ToDelete(y) THEN Absent
                        ELSE IF o \in ToUpdate(y) \cup ToInsert(y) THEN ctx.values[o] ELSE db[o]
    BY <1>4 DEF Written
  <2>2. CASE o \in Live(ctx)
    <3>1. o \notin ToDelete(y)
      BY <1>4, <1>5, <2>2 DEF Registered, Live
    <3>2. db[o] = Absent => o \in ToInsert(y)
      BY <1>4, <1>5, <2>2 DEF Unsaved
    <3>3. db[o] \notin {Absent, ctx.values[o]} => o \in ToUpdate(y)
      BY <1>4, <1>5, <2>2 DEF Unsaved
    <3> QED
      BY <2>1, <2>2, <3>1, <3>2, <3>3 DEF View
  <2>3. CASE o \notin Live(ctx)
    <3>1. db[o] # Absent => o \in ToDelete(y)
      BY <1>4, <1>5, <2>3 DEF Unsaved
    <3>2. o \notin ToInsert(y) /\ (db[o] = Absent => o \notin ToUpdate(y))
      BY <1>4, <1>5, <1>6, <2>3 DEF Unsaved
    <3> QED
      BY <2>1, <2>3, <3>1, <3>2 DEF View
  <2> QED
    BY <2>2, <2>3
<1>8. ToDelete(y) \subseteq ctx.gone
  BY <1>4, <1>5 DEF Registered
<1> QED
  BY <1>1, <1>7, <1>8 DEF Written, View, y

LEMMA WritesSteps ==
  ASSUME TypeOK, ContextInv, StoreWrites
  PROVE  ContextInv' /\ View(ctx') = View(ctx)
<1>1. PICK S \in SUBSET ctx.gone : ctx' = Forgotten(Peeked(ctx), S)
  BY WritesView
<1>2. /\ phase = "store" /\ db' = View(ctx) /\ phase' = "done" /\ pass'.src = "tracked"
  BY WritesView DEF StoreWrites, EnterPhase, FirstPass
<1>3. Consistent(ctx) /\ PassInv /\ ctx \in Context
  BY <1>2, OpenConsistent DEF TypeOK
<1>4. \A k \in Kind : ctx.queued[k] = {}
  BY <1>2, <1>3 DEF PassInv
<1>5. /\ Peeked(ctx) \in Context
      /\ Peeked(ctx).values = ctx.values
      /\ Peeked(ctx).objects = ctx.objects
      /\ Peeked(ctx).gone = ctx.gone
      /\ Peeked(ctx).tracked = ctx.tracked
      /\ Peeked(ctx).queued = ctx.queued
  BY <1>3, PeekedSame DEF Same
<1>6. /\ ctx'.values = ctx.values
      /\ ctx'.objects = ctx.objects \ S
      /\ ctx'.gone = ctx.gone \ S
      /\ \A k \in Kind : ctx'.queued[k] = {} /\ ctx'.tracked[k] = ctx.tracked[k] \ S
  BY <1>1, <1>4, <1>5, ForgottenFacts
<1>7. Registered(ctx) /\ Unsaved(ctx) /\ Live(ctx) \subseteq Object
  BY <1>3 DEF Consistent, Context, Live
<1>8. Live(ctx') = Live(ctx)
  BY <1>6 DEF Live
<1>9. \A o \in Object : db'[o] = IF o \in Live(ctx) THEN ctx.values[o] ELSE Absent
  BY <1>2 DEF View
<1>10. \A o \in Live(ctx) : ctx.values[o] # Absent
  BY <1>7 DEF Registered
<1>11. /\ ctx'.queued.inserted = {} /\ ctx'.queued.deleted = {}
       /\ ctx'.tracked.inserted \subseteq InSome(ctx, "inserted")
       /\ InSome(ctx', "deleted") \subseteq InSome(ctx, "deleted") \ S
  BY <1>6, UpdatedIsKind DEF InSome
<1>12. Registered(ctx)'
  <2>1. ctx'.gone \subseteq ctx'.objects /\ InSome(ctx', "deleted") \subseteq ctx'.gone
    BY <1>6, <1>7, <1>11 DEF Registered
  <2>2. \A o \in Object : db'[o] # Absent => o \in ctx'.objects
    BY <1>8, <1>9 DEF Live
  <2>3. \A o \in Live(ctx') : /\ ctx'.values[o] # Absent
                              /\ ctx'.values[o] \in Master => ctx'.values[o] \in Live(ctx')
    BY <1>6, <1>7, <1>8 DEF Registered
  <2>4. \A m \in Live(ctx') \cap Master : ctx'.values[m] = None
    BY <1>6, <1>7, <1>8 DEF Registered
  <2> QED
    BY <2>1, <2>2, <2>3, <2>4 DEF Registered, Live, InSome
<1>13. Saved(ctx)'
  <2>1. ctx'.tracked.inserted \subseteq Live(ctx')
    BY <1>7, <1>8, <1>11 DEF Unsaved
  <2>2. \A o \in Live(ctx') : db'[o] # Absent /\ db'[o] = ctx'.values[o]
    BY <1>6, <1>7, <1>8, <1>9, <1>10
  <2>3. \A o \in Object \ Live(ctx') : db'[o] = Absent
    BY <1>8, <1>9
  <2> QED
    BY <1>11, <2>1, <2>2, <2>3 DEF Saved, Live
<1>14. PassInv'
  BY <1>2 DEF PassInv
<1>15. View(ctx') = View(ctx)
  BY <1>6, <1>8 DEF View
<1> QED
  BY <1>2, <1>12, <1>13, <1>14, <1>15 DEF ContextInv

LEMMA FinishSteps ==
  ASSUME TypeOK, ContextInv, Finish
  PROVE  ContextInv'
<1>1. /\ phase = "done" /\ ctx' = [ctx EXCEPT !.tracked = NothingIn, !.cache = {}]
      /\ db' = db /\ phase' = "idle" /\ pass'.src = "tracked"
  BY DEF Finish, EnterPhase, FirstPass
<1>2. ctx \in Context /\ Registered(ctx) /\ Saved(ctx)
  BY <1>1 DEF TypeOK, ContextInv
<1>3. /\ ctx'.values = ctx.values /\ ctx'.objects = ctx.objects /\ ctx'.gone = ctx.gone
      /\ ctx'.queued = ctx.queued /\ ctx'.tracked = NothingIn
  BY <1>1, <1>2 DEF Context
<1>4. ctx' \in Context
  BY <1>1, <1>2 DEF Context, Sets, NothingIn
<1>5. Live(ctx') = Live(ctx)
  BY <1>3 DEF Live
<1>6. \A k \in Kind : InSome(ctx', k) = ctx.queued[k]
  BY <1>3 DEF InSome, NothingIn
<1>7. /\ InSome(ctx', "inserted") = {} /\ InSome(ctx', "deleted") = {}
      /\ InSome(ctx', "updated") = ctx.queued.updated
  BY <1>2, <1>6, UpdatedIsKind DEF Saved
<1>8. Registered(ctx')
  BY <1>2, <1>3, <1>5, <1>7 DEF Registered
<1>9. Unsaved(ctx')
  BY <1>2, <1>3, <1>5, <1>7 DEF Unsaved, Saved
<1>10. PassInv'
  BY <1>1 DEF PassInv
<1> QED
  BY <1>1, <1>4, <1>8, <1>9, <1>10, KeptRows DEF Consistent

LEMMA InitFacts ==
  ASSUME Init
  PROVE  /\ ctx \in Context /\ Live(ctx) = Stored /\ ctx.values = db
         /\ \A k \in Kind : InSome(ctx, k) = {}
         /\ \A o \in Stored : db[o] \in {None} \cup (IF o \in Detail THEN Master \cap Stored ELSE {})
         /\ \A o \in Object \ Stored : db[o] = Absent
<1>1. Stored \subseteq Object
  BY ContextAssumption DEF ContextAssumption
<1>2. ctx \in Context
  BY InitType DEF TypeOK
<1>3. /\ ctx.values = db /\ ctx.objects = Stored /\ ctx.gone = {}
      /\ ctx.queued = NothingIn /\ ctx.tracked = NothingIn
  BY DEF Init
<1>4. Live(ctx) = Stored
  BY <1>3 DEF Live
<1>5. \A k \in Kind : InSome(ctx, k) = {}
  BY <1>3 DEF InSome, NothingIn
<1>6. \A o \in Object :
         IF o \in Stored THEN db[o] \in {None} \cup (IF o \in Detail THEN Master \cap Stored ELSE {})
                         ELSE db[o] = Absent
  BY DEF Init
<1> QED
  BY <1>1, <1>2, <1>3, <1>4, <1>5, <1>6

LEMMA InitContext == Init => ContextInv
<1> SUFFICES ASSUME Init
             PROVE  ContextInv
  OBVIOUS
<1>1. phase = "idle" /\ pass.src = "tracked" /\ ctx.objects = Stored /\ ctx.gone = {}
  BY DEF Init, FirstPass
<1>2. /\ Live(ctx) = Stored /\ ctx.values = db /\ Stored \subseteq Object
      /\ InSome(ctx, "updated") = {} /\ InSome(ctx, "inserted") = {} /\ InSome(ctx, "deleted") = {}
  BY InitFacts, UpdatedIsKind, ContextAssumption DEF ContextAssumption
<1>3. /\ \A o \in Stored : db[o] \in {None} \cup (IF o \in Detail THEN Master \cap Stored ELSE {})
      /\ \A o \in Object \ Stored : db[o] = Absent
  BY InitFacts
<1>4. None # Absent /\ Absent \notin Master /\ None \notin Master /\ Master \cap Detail = {}
  BY ContextAssumption DEF ContextAssumption, Object
<1>5. Registered(ctx)
  BY <1>1, <1>2, <1>3, <1>4 DEF Registered
<1>6. Unsaved(ctx)
  BY <1>2, <1>3, <1>4 DEF Unsaved
<1> QED
  BY <1>1, <1>5, <1>6 DEF ContextInv, PassInv

LEMMA NextContext ==
  ASSUME Calm
  PROVE  TypeOK /\ ContextInv /\ [Next]_vars => ContextInv'
<1> SUFFICES ASSUME TypeOK, ContextInv, [Next]_vars
             PROVE  ContextInv'
  OBVIOUS
<1>1. CASE UNCHANGED vars
  BY <1>1 DEF ContextInv, Registered, Saved, Unsaved, PassInv, Live, InSome, vars, saving
<1>2. CASE Edit \/ Insert \/ Delete \/ HasChanges \/ Peek
  BY <1>2, AppSteps
<1>3. CASE \E o \in Object : Call(o) \/ CallRaises(o)
  BY <1>3, CallSteps, CallRaisesSteps
<1>4. CASE NextTracked \/ NextQueued \/ Prepared \/ Validated
  BY <1>4, PassSteps
<1> QED
  BY <1>1, <1>2, <1>3, <1>4, SaveSteps, WritesSteps, RefusedSteps, FinishSteps DEF Next, SaveStep

-----------------------------------------------------------------------------
(* The inductive invariant, for applications and rules that are Calm.      *)
THEOREM ContextCorrect ==
  ASSUME Calm
  PROVE  Spec => [](TypeOK /\ ContextInv)
<1>1. Init => TypeOK /\ ContextInv
  BY InitType, InitContext
<1>2. TypeOK /\ ContextInv /\ [Next]_vars => (TypeOK /\ ContextInv)'
  BY NextType, NextContext
<1> QED
  BY <1>1, <1>2, PTL DEF Spec

(* No change of the application is lost or invented, at any time, during   *)
(* and after a save, refused or not (objectWillChange:, insertObject:,     *)
(* deleteObject:, saveChanges).                                            *)
THEOREM TracksChanges ==
  ASSUME Calm
  PROVE  Spec => []ChangesTracked
<1>1. TypeOK /\ ContextInv => ChangesTracked
  <2> SUFFICES ASSUME TypeOK, ContextInv
               PROVE  ChangesTracked
    OBVIOUS
  <2>1. Registered(ctx)
    BY DEF ContextInv
  <2>2. \A o \in Live(ctx) : o \notin InSome(ctx, "deleted")
    BY <2>1 DEF Registered, Live
  <2>3. CASE phase = "done"
    <3>1. Saved(ctx)
      BY <2>3 DEF ContextInv
    <3>2. InSome(ctx, "inserted") \subseteq Live(ctx) /\ ctx.queued.updated \subseteq InSome(ctx, "updated")
      BY <3>1 DEF Saved, InSome
    <3> QED
      BY <2>2, <3>1, <3>2 DEF Saved, ChangesTracked
  <2>4. CASE phase # "done"
    <3>1. Unsaved(ctx)
      BY <2>4 DEF ContextInv
    <3> QED
      BY <2>2, <3>1 DEF Unsaved, ChangesTracked
  <2> QED
    BY <2>3, <2>4
<1> QED
  BY <1>1, ContextCorrect, PTL

(* A save never leaves a row that refers to a row it has deleted           *)
(* (propagateDeleteForObject:editingContext:, saveChanges).                *)
THEOREM KeepsReferences ==
  ASSUME Calm
  PROVE  Spec => []NoDanglingReference
<1>1. Init => NoDanglingReference
  <2> SUFFICES ASSUME Init
               PROVE  NoDanglingReference
    OBVIOUS
  <2>1. /\ \A o \in Stored : db[o] \in {None} \cup (IF o \in Detail THEN Master \cap Stored ELSE {})
        /\ \A o \in Object \ Stored : db[o] = Absent
    BY InitFacts
  <2>2. None # Absent /\ Absent \notin Master /\ None \notin Master
    BY ContextAssumption DEF ContextAssumption, Object
  <2> QED
    BY <2>1, <2>2 DEF NoDanglingReference
<1>2. TypeOK /\ ContextInv /\ NoDanglingReference /\ [Next]_vars => NoDanglingReference'
  <2> SUFFICES ASSUME TypeOK, ContextInv, NoDanglingReference, [Next]_vars
               PROVE  NoDanglingReference'
    OBVIOUS
  <2>1. CASE db' = db
    BY <2>1 DEF NoDanglingReference
  <2>2. CASE StoreWrites
    <3>1. db' = View(ctx) /\ Registered(ctx)
      BY <2>2, WritesView DEF ContextInv
    <3>2. ASSUME NEW o \in Object, db'[o] \in Master
          PROVE  db'[db'[o]] # Absent
      <4>1. o \in Live(ctx) /\ db'[o] = ctx.values[o]
        BY <3>1, <3>2, ContextAssumption DEF View, ContextAssumption, Object
      <4>2. db'[o] \in Live(ctx) /\ db'[o] \in Object
        BY <3>1, <3>2, <4>1 DEF Registered, Object
      <4>3. db'[db'[o]] = ctx.values[db'[o]]
        BY <3>1, <4>2 DEF View
      <4> QED
        BY <3>1, <4>2, <4>3 DEF Registered
    <3> QED
      BY <3>2 DEF NoDanglingReference
  <2> QED
    BY <2>1, <2>2 DEF Next, SaveStep, vars, saving, Edit, Insert, Delete, HasChanges, Peek, Save,
       Call, CallRaises, NextTracked, NextQueued, Prepared, Validated, StoreRefuses, Finish
<1> QED
  BY <1>1, <1>2, ContextCorrect, PTL DEF Spec

-----------------------------------------------------------------------------
(* A save is one step of UnitOfWork.                                       *)

SaveState == CASE phase = "idle" -> "none" [] phase = "done" -> "written" [] OTHER -> "open"

LEMMA ViewType ==
  ASSUME NEW x \in Context
  PROVE  View(x) \in [Object -> Value]
BY MasterValues DEF View, Context

(* The application's own steps, and a callback that returns.               *)
LEMMA UnitChange ==
  ASSUME TypeOK', db' = db, SaveState' = SaveState
  PROVE  Unit!Next
<1>1. View(ctx') \in [Object -> Value]
  BY ViewType DEF TypeOK
<1>2. View(ctx)' = View(ctx')
  BY DEF View, Live
<1> QED
  BY <1>1, <1>2 DEF Unit!Next, Unit!Change, SaveState

(* An exception out of a save that has not written.                        *)
LEMMA UnitRaise ==
  ASSUME TypeOK', db' = db, phase \in {"prepare", "validate", "store"}, phase' = "idle"
  PROVE  Unit!Next
<1>1. View(ctx') \in [Object -> Value]
  BY ViewType DEF TypeOK
<1>2. View(ctx)' = View(ctx')
  BY DEF View, Live
<1> QED
  BY <1>1, <1>2 DEF Unit!Next, Unit!Raise

LEMMA UnitStep ==
  ASSUME Calm, TypeOK, TypeOK', ContextInv, [Next]_vars
  PROVE  [Unit!Next]_(Unit!vars)
<1>1. CASE UNCHANGED vars
  BY <1>1 DEF vars, saving, Unit!vars, View, Live
<1>2. CASE Edit \/ Insert \/ Delete \/ HasChanges \/ Peek \/ NextTracked \/ NextQueued
  <2>1. db' = db /\ phase' = phase
    BY <1>2 DEF Edit, Insert, Delete, HasChanges, Peek, NextTracked, NextQueued, saving
  <2> QED
    BY <2>1, UnitChange DEF SaveState
<1>3. CASE Save
  <2>1. ctx' = Processed(ctx) /\ db' = db /\ phase = "idle" /\ phase' = "prepare"
    BY <1>3 DEF Save, Idle, EnterPhase
  <2>2. View(ctx)' = View(ctx)
    BY <2>1, ProcessedSame DEF TypeOK, Same, View, Live
  <2> QED
    BY <2>1, <2>2 DEF Unit!Next, Unit!Start
<1>4. ASSUME NEW o \in Object, Call(o)
      PROVE  Unit!Next
  BY <1>4, UnitChange DEF Call, SaveState
<1>5. ASSUME NEW o \in Object, CallRaises(o)
      PROVE  Unit!Next
  <2>1. phase # "done" /\ phase \in {"prepare", "validate", "done"} /\ db' = db /\ phase' = "idle"
    BY <1>5, CallRaisesSteps DEF CallRaises, CalledBack, EnterPhase
  <2> QED
    BY <2>1, UnitRaise
<1>6. CASE Prepared \/ Validated
  <2>1. phase \in {"prepare", "validate"} /\ db' = db /\ phase' \in {"idle", "validate", "store"}
    BY <1>6 DEF Prepared, Validated, EnterPhase
  <2>2. CASE phase' = "idle"
    BY <2>1, <2>2, UnitRaise
  <2>3. CASE phase' # "idle"
    BY <2>1, <2>3, UnitChange DEF SaveState
  <2> QED
    BY <2>2, <2>3
<1>7. CASE StoreWrites
  <2>1. db' = View(ctx) /\ View(ctx') = View(ctx) /\ phase = "store" /\ phase' = "done"
    BY <1>7, WritesView, WritesSteps DEF StoreWrites, EnterPhase
  <2>2. View(ctx)' = View(ctx')
    BY DEF View, Live
  <2> QED
    BY <2>1, <2>2 DEF Unit!Next, Unit!Write
<1>8. CASE StoreRefuses
  BY <1>8, UnitRaise DEF StoreRefuses, EnterPhase
<1>9. CASE Finish
  <2>1. phase = "done" /\ phase' = "idle" /\ db' = db
    BY <1>9 DEF Finish, EnterPhase
  <2>2. View(ctx') \in [Object -> Value]
    BY ViewType DEF TypeOK
  <2>3. View(ctx)' = View(ctx')
    BY DEF View, Live
  <2> QED
    BY <2>1, <2>2, <2>3 DEF Unit!Next, Unit!Return
<1> QED
  BY <1>1, <1>2, <1>3, <1>4, <1>5, <1>6, <1>7, <1>8, <1>9 DEF Next, SaveStep

(* saveChanges makes the database what the application sees, all of it and *)
(* at one moment, or raises and has written nothing.                       *)
THEOREM SavesInOneStep ==
  ASSUME Calm
  PROVE  Spec => SavesAsUnit
<1>1. Init => Unit!Init
  <2> SUFFICES ASSUME Init
               PROVE  Unit!Init
    OBVIOUS
  <2>1. db \in [Object -> Value] /\ phase = "idle"
    BY InitType DEF TypeOK, Init
  <2>2. \A o \in Object : View(ctx)[o] = db[o]
    BY InitFacts DEF View
  <2>3. View(ctx) = db
    BY <2>1, <2>2 DEF View
  <2> QED
    BY <2>1, <2>3 DEF Unit!Init
<1>2. TypeOK /\ TypeOK' /\ ContextInv /\ [Next]_vars => [Unit!Next]_(Unit!vars)
  BY UnitStep
<1> QED
  BY <1>1, <1>2, ContextCorrect, PTL DEF Spec, SavesAsUnit, Unit!Spec

-----------------------------------------------------------------------------
(* The callbacks before a save reach everything that has changed.  What a  *)
(* callback changes is queued, and what it leaves alone stays where it is. *)

LEMMA HooksKeep ==
  ASSUME Calm, phase # "done", NEW x, Consistent(x), NEW y \in HookResults(x), NEW p \in Pending(y)
  PROVE  \/ \E k \in Kind : p \in y.queued[k]
         \/ /\ p \in Pending(x) /\ p \notin Disturbed(x, y)
            /\ \A k \in Kind : /\ p \in x.tracked[k] => p \in y.tracked[k]
                               /\ p \in x.queued[k] => p \in y.queued[k]
<1>1. x \in Context /\ Registered(x) /\ Unsaved(x)
  BY DEF Consistent
<1>2. p \in Object /\ View(y)[p] # db[p]
  BY DEF Pending
<1>3. SUFFICES ASSUME \A k \in Kind : p \notin y.queued[k]
               PROVE  /\ View(x)[p] = View(y)[p]
                      /\ \A k \in Kind : /\ p \in x.tracked[k] => p \in y.tracked[k]
                                         /\ p \in x.queued[k] => p \in y.queued[k]
  BY <1>2 DEF Pending, Disturbed
<1>4. p \notin y.queued.updated /\ p \notin y.queued.inserted /\ p \notin y.queued.deleted
  BY <1>3 DEF Kind
<1>5. CASE y \in Edits(x)
  <2>1. /\ Live(y) = Live(x) /\ y.tracked = x.tracked
        /\ y.queued.inserted = x.queued.inserted /\ y.queued.deleted = x.queued.deleted
        /\ x.queued.updated \subseteq y.queued.updated
        /\ p \in Live(x) => y.values[p] = x.values[p]
    BY <1>1, <1>4, <1>5, EditsFacts
  <2>2. View(x)[p] = View(y)[p]
    BY <1>2, <2>1 DEF View
  <2> QED
    BY <2>1, <2>2 DEF Kind
<1>6. CASE y \in Inserts(x)
  <2>1. PICK o \in Object \ x.objects : y = Inserted(x, o)
    BY <1>6 DEF Inserts, Fresh
  <2>2. /\ y.values = [x.values EXCEPT ![o] = None] /\ y.objects = x.objects \cup {o} /\ y.gone = x.gone
        /\ y.tracked = x.tracked
        /\ y.queued.inserted = x.queued.inserted \cup {o}
        /\ y.queued.updated = x.queued.updated /\ y.queued.deleted = x.queued.deleted
    BY <1>1, <2>1 DEF Inserted, Context, Sets, Kind
  <2>3. p # o
    BY <1>4, <2>2
  <2>4. (p \in Live(y) <=> p \in Live(x)) /\ y.values[p] = x.values[p]
    BY <1>1, <1>2, <2>2, <2>3 DEF Live, Context
  <2>5. View(x)[p] = View(y)[p]
    BY <1>2, <2>4 DEF View
  <2> QED
    BY <2>2, <2>5 DEF Kind
<1>7. CASE y \in Deletes(x)
  <2>1. PICK o \in Live(x) : y = Deleted(x, o)
    BY <1>7 DEF Deletes
  <2>2. PICK deleted \in SUBSET Live(x), unlinked \in SUBSET Live(x) :
          /\ o \in deleted
          /\ \A d \in Live(x) : x.values[d] \in deleted => d \in unlinked
          /\ y \in Context
          /\ y.values = [d \in Object |-> IF d \in unlinked THEN None ELSE x.values[d]]
          /\ y.objects = x.objects
          /\ y.gone = x.gone \cup deleted
          /\ y.cache = x.cache
          /\ unlinked \cup x.queued.updated \subseteq y.queued.updated
          /\ y.queued.inserted = x.queued.inserted \ deleted
          /\ y.queued.deleted = x.queued.deleted \cup deleted
          /\ y.tracked.updated = x.tracked.updated
          /\ y.tracked.inserted = x.tracked.inserted \ deleted
          /\ y.tracked.deleted = x.tracked.deleted
    BY <2>1, DeletedFacts
  <2>3. p \notin deleted /\ p \notin unlinked
    BY <1>4, <2>2
  <2>4. (p \in Live(y) <=> p \in Live(x)) /\ y.values[p] = x.values[p]
    BY <1>2, <2>2, <2>3 DEF Live
  <2>5. View(x)[p] = View(y)[p]
    BY <1>2, <2>4 DEF View
  <2> QED
    BY <2>2, <2>3, <2>5 DEF Kind
<1>8. y = x \/ y \in Edits(x) \/ y \in Inserts(x) \/ y \in Deletes(x)
  <2>1. ~May("peek")
    BY DEF May, Calm
  <2> QED
    BY <2>1 DEF HookResults
<1> QED
  BY <1>5, <1>6, <1>7, <1>8

LEMMA AskedCall ==
  ASSUME Calm, TypeOK, ContextInv, AskedInv, NEW o \in Object, Call(o)
  PROVE  AskedInv'
<1>1. PICK y \in HookResults(ctx) :
        /\ ctx' = Moved(y, o)
        /\ \E seen \in SUBSET (Current(y) \ Current(ctx)) :
             todo' = ((todo \ {o}) \cap Current(y)) \cup seen
        /\ told' = (told \cup {o}) \ Disturbed(ctx, y)
  BY DEF Call
<1>2. db' = db /\ phase' = phase /\ pass' = pass
  BY DEF Call
<1>3. SUFFICES ASSUME phase \in {"prepare", "validate"}
               PROVE  /\ pass.src = "tracked" => todo' \subseteq ctx'.tracked[pass.kind]
                      /\ Pending(ctx)' \subseteq told' \cup Ahead'
  BY <1>2 DEF AskedInv
<1>4. /\ pass.src = "tracked" => todo \subseteq ctx.tracked[pass.kind]
      /\ Pending(ctx) \subseteq told \cup Ahead
  BY <1>3 DEF AskedInv
<1>5. ctx \in Context /\ pass \in Pass /\ PassInv /\ Consistent(ctx) /\ phase # "done"
  BY <1>3, OpenConsistent DEF TypeOK
<1>6. Consistent(y) /\ (pass.src = "queued" => y = ctx) /\ y \in Context
  BY <1>1, <1>5, HooksConsistent DEF Consistent
<1>7. ctx'.values = y.values /\ ctx'.objects = y.objects /\ ctx'.gone = y.gone /\ ctx'.queued = y.queued
  BY <1>1, <1>5, <1>6, MovedFacts
<1>8. Pending(ctx)' = Pending(y)
  BY <1>2, <1>7 DEF Pending, View, Live
<1>9. CASE pass.src = "tracked"
  <2>1. ctx' = y /\ Current(y) = y.tracked[pass.kind] /\ pass.kind \in Kind
    BY <1>1, <1>5, <1>9 DEF Moved, Current, Pass
  <2>2. todo' \subseteq y.tracked[pass.kind] /\ (todo \ {o}) \cap y.tracked[pass.kind] \subseteq todo'
    BY <1>1, <2>1
  <2>3. Ahead' = todo' \cup {q \in Object : \/ \E k \in Later(pass.kind) : q \in y.tracked[k]
                                           \/ \E k \in Kind : q \in y.queued[k]}
    BY <1>2, <1>9, <2>1 DEF Ahead
  <2>4. Ahead = todo \cup {q \in Object : \/ \E k \in Later(pass.kind) : q \in ctx.tracked[k]
                                         \/ \E k \in Kind : q \in ctx.queued[k]}
    BY <1>9 DEF Ahead
  <2>5. Later(pass.kind) \subseteq Kind
    BY <2>1 DEF Later, Kind
  <2>6. ASSUME NEW p \in Pending(y) PROVE p \in told' \cup Ahead'
    <3>1. p \in Object
      BY DEF Pending
    <3>2. CASE \E k \in Kind : p \in y.queued[k]
      BY <2>3, <3>1, <3>2
    <3>3. CASE /\ p \in Pending(ctx) /\ p \notin Disturbed(ctx, y)
               /\ \A k \in Kind : /\ p \in ctx.tracked[k] => p \in y.tracked[k]
                                  /\ p \in ctx.queued[k] => p \in y.queued[k]
      <4>1. CASE p \in told \cup {o}
        BY <1>1, <3>3, <4>1
      <4>2. CASE p \in todo \ {o}
        BY <1>4, <1>9, <2>1, <2>2, <2>3, <3>3, <4>2
      <4>3. CASE p \in Ahead \ todo
        BY <2>3, <2>4, <2>5, <3>1, <3>3, <4>3
      <4> QED
        BY <1>4, <3>3, <4>1, <4>2, <4>3
    <3> QED
      BY <1>1, <1>5, <3>2, <3>3, HooksKeep
  <2> QED
    BY <1>8, <2>1, <2>2, <2>6
<1>10. CASE pass.src = "queued"
  <2>1. y = ctx /\ todo \subseteq ctx.queued[pass.kind] /\ Current(ctx) = ctx.queued[pass.kind]
    BY <1>5, <1>6, <1>10 DEF PassInv, Current
  <2>2. told' = told \cup {o} /\ todo' = todo \ {o}
    BY <1>1, <2>1 DEF Disturbed
  <2>3. Ahead' = todo' \cup {q \in Object : \E k \in Kind : q \in ctx.queued[k] /\ pass # [src |-> "queued", kind |-> k]}
    BY <1>2, <1>7, <1>10, <2>1 DEF Ahead
  <2>4. Ahead = todo \cup {q \in Object : \E k \in Kind : q \in ctx.queued[k] /\ pass # [src |-> "queued", kind |-> k]}
    BY <1>10 DEF Ahead
  <2> QED
    BY <1>4, <1>8, <1>10, <2>1, <2>2, <2>3, <2>4
<1> QED
  BY <1>5, <1>9, <1>10 DEF Pass

(* A phase begins with all that has changed in the change trackers.        *)
LEMMA AskedEntered ==
  ASSUME NEW p, p # "idle" /\ p # "store", Consistent(ctx'), \A k \in Kind : ctx'.queued[k] = {}, db' = db,
         EnterPhase(p, ctx')
  PROVE  AskedInv'
<1>1. pass' = FirstPass /\ todo' = ctx'.tracked.updated
  BY DEF EnterPhase
<1>2. pass'.src = "tracked" /\ pass'.kind = "updated" /\ Later("updated") = {"inserted", "deleted"}
  BY <1>1 DEF FirstPass, Later
<1>3. \A k \in Kind : InSome(ctx', k) = ctx'.tracked[k]
  BY DEF InSome
<1>4. ASSUME NEW q \in Pending(ctx)' PROVE q \in Ahead'
  <2>1. q \in Object /\ View(ctx')[q] # db[q]
    BY <1>4 DEF Pending, View, Live
  <2>2. \E k \in Kind : q \in ctx'.tracked[k]
    BY <1>3, <2>1, UpdatedIsKind DEF Consistent, Unsaved, View
  <2>3. q \in ctx'.tracked.updated \/ \E k \in Later(pass'.kind) : q \in ctx'.tracked[k]
    BY <1>2, <2>2 DEF Kind
  <2> QED
    BY <1>1, <1>2, <2>1, <2>3 DEF Ahead
<1> QED
  BY <1>1, <1>2, <1>4 DEF AskedInv

LEMMA AskedPass ==
  ASSUME TypeOK, ContextInv, AskedInv, NextTracked \/ NextQueued \/ Prepared \/ Validated \/ Save
  PROVE  AskedInv'
<1>1. ctx \in Context /\ pass \in Pass /\ pass.kind \in Kind
  BY DEF TypeOK, Pass
<1>2. CASE NextTracked
  <2>1. /\ UNCHANGED <<db, ctx, phase, told>> /\ todo = {}
        /\ pass.src = "tracked" /\ pass.kind \in {"updated", "inserted"}
        /\ pass'.src = "tracked" /\ pass'.kind = (IF pass.kind = "updated" THEN "inserted" ELSE "deleted")
        /\ todo' = ctx.tracked[pass'.kind]
    BY <1>1, <1>2 DEF NextTracked, LastTracked, Kind
  <2>2. Later(pass.kind) = {pass'.kind} \cup Later(pass'.kind)
    BY <2>1 DEF Later
  <2>3. Pending(ctx)' = Pending(ctx)
    BY <2>1 DEF Pending, View, Live
  <2>4. Ahead \subseteq Ahead'
    BY <2>1, <2>2 DEF Ahead
  <2> QED
    BY <2>1, <2>3, <2>4 DEF AskedInv
<1>3. CASE NextQueued
  <2>1. /\ ctx' = Emptied(ctx) /\ UNCHANGED <<db, phase, told>> /\ todo = {}
        /\ pass'.src = "queued" /\ pass' = [src |-> "queued", kind |-> pass'.kind]
        /\ todo' = ctx'.queued[pass'.kind]
        /\ pass.src = "queued" \/ LastTracked
    BY <1>3 DEF NextQueued, Looping
  <2>2. Pending(ctx)' = Pending(ctx)
    BY <1>1, <2>1, EmptiedFacts DEF Pending, View, Live
  <2>3. Ahead \subseteq {q \in Object : \E k \in Kind : q \in ctx'.queued[k]}
    <3>1. LastTracked => Later(pass.kind) = {} /\ pass.src = "tracked"
      BY DEF LastTracked, Later
    <3>2. \A k \in Kind : pass # [src |-> "queued", kind |-> k] => ctx'.queued[k] = ctx.queued[k]
      BY <1>1, <2>1, EmptiedFacts DEF Pass
    <3> QED
      BY <2>1, <3>1, <3>2 DEF Ahead
  <2>4. {q \in Object : \E k \in Kind : q \in ctx'.queued[k]} \subseteq Ahead'
    <3> SUFFICES ASSUME NEW q \in Object, NEW k \in Kind, q \in ctx'.queued[k] PROVE q \in Ahead'
      OBVIOUS
    <3>1. CASE pass'.kind = k
      BY <2>1, <3>1 DEF Ahead
    <3>2. CASE pass'.kind # k
      <4>1. pass' # [src |-> "queued", kind |-> k]
        BY <3>2
      <4> QED
        BY <4>1 DEF Ahead
    <3> QED
      BY <3>1, <3>2
  <2> QED
    BY <2>1, <2>2, <2>3, <2>4 DEF AskedInv
<1>4. CASE Prepared \/ Validated
  <2>1. /\ Looping /\ ctx' = Emptied(ctx) /\ NextQueue(Emptied(ctx)) = "none" /\ db' = db
        /\ \E p \in {"validate", "store", "idle"} : EnterPhase(p, ctx')
    BY <1>4 DEF Prepared, Validated, Settled
  <2>2. Consistent(ctx')
    BY <2>1, EmptiedKeeps
  <2>3. \A k \in Kind : ctx'.queued[k] = {}
    BY <1>1, <2>1, EmptiedFacts, NoQueueLeft
  <2>4. CASE EnterPhase("validate", ctx')
    BY <2>1, <2>2, <2>3, <2>4, AskedEntered
  <2>5. CASE \E p \in {"store", "idle"} : EnterPhase(p, ctx')
    BY <2>5 DEF EnterPhase, AskedInv
  <2> QED
    BY <2>1, <2>4, <2>5
<1>5. CASE Save
  <2>1. phase = "idle" /\ ctx' = Processed(ctx) /\ db' = db /\ EnterPhase("prepare", ctx')
    BY <1>5 DEF Save, Idle
  <2>2. Consistent(ctx') /\ \A k \in Kind : ctx'.queued[k] = {}
    BY <1>1, <2>1, OpenConsistent, ProcessedSame, SameConsistent
  <2> QED
    BY <2>1, <2>2, AskedEntered
<1> QED
  BY <1>2, <1>3, <1>4, <1>5

LEMMA NextAsked ==
  ASSUME Calm, TypeOK, ContextInv, AskedInv, [Next]_vars
  PROVE  AskedInv'
<1>1. ASSUME NEW o \in Object, Call(o) PROVE AskedInv'
  BY <1>1, AskedCall
<1>2. CASE NextTracked \/ NextQueued \/ Prepared \/ Validated \/ Save
  BY <1>2, AskedPass
<1>3. CASE Edit \/ Insert \/ Delete \/ HasChanges \/ Peek
  <2>1. phase' = "idle"
    BY <1>3 DEF Edit, Insert, Delete, HasChanges, Peek, Idle, saving
  <2> QED
    BY <2>1 DEF AskedInv
<1>4. CASE (\E o \in Object : CallRaises(o)) \/ StoreWrites \/ StoreRefuses \/ Finish
  <2>1. phase' \in {"idle", "done"}
    BY <1>4 DEF CallRaises, StoreWrites, StoreRefuses, Finish, EnterPhase
  <2> QED
    BY <2>1 DEF AskedInv
<1>5. CASE UNCHANGED vars
  BY <1>5 DEF vars, saving, AskedInv, Ahead, Pending, View, Live
<1> QED
  BY <1>1, <1>2, <1>3, <1>4, <1>5 DEF Next, SaveStep

LEMMA AskedLeaves ==
  ASSUME TypeOK, AskedInv, [Next]_vars, Asked
  PROVE  Pending(ctx) \subseteq told
<1>1. phase \in {"prepare", "validate"} /\ phase' \in {"validate", "store"} /\ phase' # phase
  BY DEF Asked
<1>2. Prepared \/ Validated
  BY <1>1 DEF Next, SaveStep, Edit, Insert, Delete, HasChanges, Peek, Save, Idle, Call, CallRaises,
     NextTracked, NextQueued, StoreWrites, StoreRefuses, Finish, EnterPhase, vars, saving
<1>3. Looping /\ NextQueue(Emptied(ctx)) = "none" /\ ctx \in Context /\ pass \in Pass /\ todo = {}
  BY <1>2 DEF Prepared, Validated, Settled, Looping, TypeOK
<1>4. \A k \in Kind : Emptied(ctx).queued[k] = {}
  BY <1>3, EmptiedFacts, NoQueueLeft
<1>5. \A k \in Kind : pass # [src |-> "queued", kind |-> k] => ctx.queued[k] = {}
  BY <1>3, <1>4, EmptiedFacts DEF Pass
<1>6. pass.src = "tracked" => Later(pass.kind) = {}
  BY <1>3 DEF Looping, LastTracked, Later
<1>7. Ahead = {}
  BY <1>3, <1>5, <1>6 DEF Ahead
<1> QED
  BY <1>1, <1>7 DEF AskedInv

(* sendPrepareMessages and sendValidateMethods do not end before they have *)
(* called every object that differs from its row, after its last change:   *)
(* what a save writes has been validated as it is written.                 *)
THEOREM AsksEveryone ==
  ASSUME Calm
  PROVE  Spec => EveryoneAsked
<1>1. Init => AskedInv
  BY DEF Init, AskedInv
<1>2. TypeOK /\ ContextInv /\ AskedInv /\ [Next]_vars => AskedInv'
  BY NextAsked
<1>3. TypeOK /\ AskedInv /\ [Next]_vars => [Asked => Pending(ctx) \subseteq told]_vars
  BY AskedLeaves
<1> QED
  BY <1>1, <1>2, <1>3, ContextCorrect, PTL DEF Spec, EveryoneAsked
=============================================================================
