--------------------------- MODULE SharedRowProofs ---------------------------
(***************************************************************************)
(* Theorems about SharedRow, for every set of contexts, attributes, and    *)
(* for all bounds.                                                         *)
(***************************************************************************)
EXTENDS SharedRowInvariants, FiniteSetTheorems, TLAPS

Known == [row : Row, refs : Nat]
Snapshot == Known \cup {None}
ObjKinds == {"none", "fault", "object"}

-----------------------------------------------------------------------------
(* The snapshot dictionary.                                                *)

LEMMA RecordedFacts ==
  ASSUME NEW s \in Snapshot, NEW r \in Row
  PROVE  /\ Recorded(s, r) \in Known
         /\ Recorded(s, r) # None
         /\ Recorded(s, r).row = r
         /\ Recorded(s, r).refs = IF s = None THEN 0 ELSE s.refs
BY RowAssumption DEF RowAssumption, Recorded, Known, Snapshot

LEMMA RetainedFacts ==
  ASSUME NEW s \in Known, NEW k \in Nat
  PROVE  /\ Retained(s, k) \in Known
         /\ Retained(s, k) # None
         /\ Retained(s, k).row = s.row
         /\ Retained(s, k).refs = s.refs + k
BY RowAssumption DEF RowAssumption, Retained, Known

LEMMA ReleasedFacts ==
  ASSUME NEW s \in Snapshot, NEW k \in Nat
  PROVE  /\ Released(s, k) \in Snapshot
         /\ Released(s, k) # None =>
              s # None /\ Released(s, k).row = s.row /\ Released(s, k).refs = s.refs - k
BY RowAssumption DEF RowAssumption, Released, Known, Snapshot

LEMMA LoadedFacts ==
  ASSUME NEW s \in Snapshot, NEW k \in Nat, row \in Row
  PROVE  /\ Loaded(s, k) \in Known
         /\ Loaded(s, k) # None
         /\ Loaded(s, k).row = row
         /\ Loaded(s, k).refs = k + (IF s = None THEN 0 ELSE s.refs)
<1>1. Recorded(s, row) \in Known /\ Recorded(s, row).row = row
  BY RecordedFacts
<1>2. Recorded(s, row).refs = IF s = None THEN 0 ELSE s.refs
  BY RecordedFacts
<1>3. s # None => s.refs \in Nat
  BY DEF Snapshot, Known
<1>4. /\ Loaded(s, k) \in Known
      /\ Loaded(s, k) # None
      /\ Loaded(s, k).row = row
      /\ Loaded(s, k).refs = Recorded(s, row).refs + k
  BY <1>1, RetainedFacts DEF Loaded
<1> QED
  BY <1>2, <1>3, <1>4

LEMMA SnapType ==
  ASSUME TypeOK
  PROVE  snap \in Snapshot
BY RowAssumption DEF RowAssumption, TypeOK, Snapshot, Known

LEMMA WithinType ==
  ASSUME snap' \in Snapshot, Within(snap')
  PROVE  snap' \in [row : Row, refs : 0 .. MaxRefs] \cup {None}
BY RowAssumption DEF RowAssumption, Snapshot, Known, Within

LEMMA KeptType ==
  ASSUME TypeOK, snap' = snap
  PROVE  snap' \in [row : Row, refs : 0 .. MaxRefs] \cup {None}
BY DEF TypeOK

-----------------------------------------------------------------------------
(* What the other contexts are told.                                       *)

LEMMA FiniteContexts ==
  ASSUME NEW S \in SUBSET Context
  PROVE  IsFiniteSet(S) /\ Cardinality(S) \in Nat
BY RowAssumption, FS_Subset, FS_CardinalityType DEF RowAssumption

LEMMA ProcessedFacts ==
  ASSUME TypeOK, NEW c \in Context
  PROVE  /\ Processed(c) \in SUBSET Kinds
         /\ Processed(c) \subseteq queued[c] \cup tracked[c]
         /\ Processed(c) = {} <=> queued[c] \cup tracked[c] = {}
<1>1. queued[c] \subseteq {"update", "delete"} /\ tracked[c] \subseteq {"update", "delete"}
  BY DEF TypeOK, Kinds
<1> QED
  BY <1>1 DEF Processed, Kinds

LEMMA ToldSnapFacts ==
  ASSUME NEW c \in Context, NEW kinds, NEW s \in Snapshot, NEW r \in Row \cup {None},
         r \in Row \/ "delete" \in kinds
  PROVE  /\ ToldSnap(c, kinds, s, r) \in Snapshot
         /\ ToldSnap(c, kinds, s, r) # None =>
              \/ s # None /\ ToldSnap(c, kinds, s, r).row = s.row
              \/ "delete" \notin kinds /\ ToldSnap(c, kinds, s, r).row = r
         /\ "delete" \in kinds /\ s = None => ToldSnap(c, kinds, s, r) = None
         /\ "delete" \notin kinds /\ s # None =>
              /\ ToldSnap(c, kinds, s, r) # None
              /\ ToldSnap(c, kinds, s, r).refs >= s.refs
         /\ Told(c, kinds) = {} => ToldSnap(c, kinds, s, r) = s
<1> DEFINE fired == {d \in Told(c, kinds) : obj[d] = "fault"}
<1>1. /\ Told(c, kinds) \in SUBSET Context
      /\ fired \in SUBSET Context
  BY DEF Told
<1>2. Cardinality(Told(c, kinds)) \in Nat /\ Cardinality(fired) \in Nat
  BY <1>1, FiniteContexts
<1>3. CASE "delete" \in kinds
  <2>1. ToldSnap(c, kinds, s, r) = Released(s, Cardinality(Told(c, kinds)))
    BY <1>3 DEF ToldSnap
  <2>2. Told(c, kinds) = {} => Released(s, Cardinality(Told(c, kinds))) = s
    BY FS_EmptySet DEF Released
  <2> QED
    BY <1>2, <1>3, <2>1, <2>2, ReleasedFacts
<1>4. CASE "delete" \notin kinds /\ fired = {}
  BY <1>4 DEF ToldSnap, Snapshot, Known
<1>5. CASE "delete" \notin kinds /\ fired # {}
  <2>1. ToldSnap(c, kinds, s, r) = Retained(Recorded(s, r), Cardinality(fired))
    BY <1>5 DEF ToldSnap
  <2>2. r \in Row
    BY <1>5
  <2>3. /\ Recorded(s, r) \in Known
        /\ Recorded(s, r).row = r
        /\ s # None => Recorded(s, r).refs = s.refs
    BY <2>2, RecordedFacts
  <2>4. /\ ToldSnap(c, kinds, s, r) \in Known
        /\ ToldSnap(c, kinds, s, r) # None
        /\ ToldSnap(c, kinds, s, r).row = r
        /\ ToldSnap(c, kinds, s, r).refs = Recorded(s, r).refs + Cardinality(fired)
    BY <1>2, <2>1, <2>3, RetainedFacts
  <2>5. s # None => s.refs \in Nat
    BY DEF Snapshot, Known
  <2> QED
    BY <1>1, <1>2, <1>5, <2>3, <2>4, <2>5 DEF Snapshot
<1> QED
  BY <1>3, <1>4, <1>5

(* The other contexts' objects are left alone, or have become faults or    *)
(* nothing, without changes.                                               *)
OthersTold(c, kinds) ==
  \A d \in Context :
    /\ d # c /\ d \notin Told(c, kinds) =>
         obj'[d] = obj[d] /\ queued'[d] = queued[d] /\ tracked'[d] = tracked[d]
    /\ d # c /\ d \in Told(c, kinds) =>
         /\ obj'[d] = IF "delete" \in kinds THEN "none" ELSE "fault"
         /\ queued'[d] = {} /\ tracked'[d] = {}

LEMMA ToldTypes ==
  ASSUME TypeOK, NEW c \in Context, NEW kinds, NEW mine \in ObjKinds,
         NEW q \in SUBSET Kinds, NEW t \in SUBSET Kinds,
         obj' = ToldObj(c, kinds, mine),
         queued' = ToldChanges(queued, c, kinds, q),
         tracked' = ToldChanges(tracked, c, kinds, t)
  PROVE  /\ obj' \in [Context -> ObjKinds]
         /\ queued' \in [Context -> SUBSET Kinds]
         /\ tracked' \in [Context -> SUBSET Kinds]
         /\ obj'[c] = mine /\ queued'[c] = q /\ tracked'[c] = t
         /\ OthersTold(c, kinds)
<1>1. obj' \in [Context -> ObjKinds]
  BY DEF TypeOK, ToldObj, ObjKinds
<1>2. queued' \in [Context -> SUBSET Kinds] /\ tracked' \in [Context -> SUBSET Kinds]
  BY DEF TypeOK, ToldChanges
<1>3. OthersTold(c, kinds)
  BY DEF ToldObj, ToldChanges, OthersTold
<1>4. obj'[c] = mine /\ queued'[c] = q /\ tracked'[c] = t
  BY DEF ToldObj, ToldChanges
<1> QED
  BY <1>1, <1>2, <1>3, <1>4

LEMMA NotifyTypes ==
  ASSUME TypeOK, NEW c \in Context, NEW kinds, NEW mine \in ObjKinds,
         NEW q \in SUBSET Kinds, NEW t \in SUBSET Kinds,
         NEW s \in Snapshot, NEW r \in Row \cup {None}, r \in Row \/ "delete" \in kinds,
         Notify(c, kinds, mine, q, t, s, r)
  PROVE  /\ obj' \in [Context -> ObjKinds]
         /\ queued' \in [Context -> SUBSET Kinds]
         /\ tracked' \in [Context -> SUBSET Kinds]
         /\ snap' \in [row : Row, refs : 0 .. MaxRefs] \cup {None}
         /\ obj'[c] = mine /\ queued'[c] = q /\ tracked'[c] = t
         /\ OthersTold(c, kinds)
<1>1. snap' \in Snapshot /\ Within(snap')
  BY ToldSnapFacts DEF Notify
<1> QED
  BY <1>1, ToldTypes, WithinType DEF Notify

(* A fault in one of these invariants would have to come from c: the       *)
(* others only lose objects, and their changes with them.                  *)
LEMMA OthersReachable ==
  ASSUME TypeInv, NEW c \in Context, NEW kinds, OthersTold(c, kinds)
  PROVE  \A d \in Context \ {c} :
           /\ queued'[d] \cup tracked'[d] # {} => obj'[d] # "none"
           /\ obj[d] = "none" => obj'[d] = "none"
           /\ "delete" \in kinds => obj'[d] = "none"
           /\ obj'[d] = "object" =>
                /\ obj[d] = "object" /\ d \notin Told(c, kinds)
                /\ queued'[d] = queued[d] /\ tracked'[d] = tracked[d]
BY DEF TypeInv, TypeOK, Reachable, OthersTold, Told

-----------------------------------------------------------------------------
(* What the statements of a save do to the row.                            *)

LEMMA UpdatedFacts ==
  ASSUME NEW r \in Row \cup {None}, NEW new \in Row, NEW s \in Known
  PROVE  /\ Updated(r, new, s) \in Row \cup {None}
         /\ Updated(r, new, s) = None <=> r = None
         /\ Updated(r, new, s) # r => r = s.row
         /\ r = s.row => Updated(r, new, s) = new
<1>1. CASE Matches(r, s)
  <2>1. r \in Row /\ r = s.row
    BY <1>1 DEF Matches
  <2>2. Updated(r, new, s) = [a \in Attr |-> IF new[a] # s.row[a] THEN new[a] ELSE r[a]]
    BY <1>1 DEF Updated, RowDiffs
  <2>3. Updated(r, new, s) = new
    BY <2>1, <2>2 DEF Row
  <2> QED
    BY <2>1, <2>3, RowAssumption DEF RowAssumption
<1>2. CASE ~Matches(r, s)
  <2>1. Updated(r, new, s) = r
    BY <1>2 DEF Updated
  <2>2. r # s.row
    BY <1>2, RowAssumption DEF Matches, Known, RowAssumption
  <2> QED
    BY <2>1, <2>2
<1> QED
  BY <1>1, <1>2

LEMMA PerformedFacts ==
  ASSUME NEW kinds, NEW new \in Row, NEW s \in Known, row \in Row \cup {None}
  PROVE  /\ Performed(kinds, new, s).row \in Row \cup {None}
         /\ Performed(kinds, new, s).row # row => row = s.row
         /\ "delete" \notin kinds /\ row # None => Performed(kinds, new, s).row # None
         /\ "delete" \notin kinds /\ "update" \in kinds /\ row = s.row =>
              Performed(kinds, new, s).row = new
<1> DEFINE upd == "update" \in kinds /\ RowDiffs(new, s) # {}
           r1 == IF upd THEN Updated(row, new, s) ELSE row
           done == Performed(kinds, new, s).row
<1>1. /\ r1 \in Row \cup {None}
      /\ r1 # row => row = s.row
      /\ row # None => r1 # None
  BY UpdatedFacts
<1>2. "update" \in kinds /\ row = s.row => r1 = new
  <2> SUFFICES ASSUME "update" \in kinds, row = s.row, RowDiffs(new, s) = {}
               PROVE  row = new
    BY UpdatedFacts
  <2>1. \A a \in Attr : new[a] = s.row[a]
    BY DEF RowDiffs
  <2> QED
    BY <2>1 DEF Known, Row
<1>3. done = IF "delete" \in kinds /\ Matches(r1, s) THEN None ELSE r1
  BY DEF Performed
<1>4. Matches(r1, s) => r1 = s.row
  BY DEF Matches
<1> HIDE DEF r1, done
<1>5. /\ done \in Row \cup {None}
      /\ done # row => row = s.row
      /\ "delete" \notin kinds /\ row # None => done # None
      /\ "delete" \notin kinds /\ "update" \in kinds /\ row = s.row => done = new
  BY <1>1, <1>2, <1>3, <1>4
<1> QED
  BY <1>5 DEF done

-----------------------------------------------------------------------------
(* Type correctness, and what is reachable.                                *)

(* A step after which the remaining variables have their types.            *)
RestTyped ==
  /\ row' \in Row \cup {None}
  /\ values' \in [Context -> Row]
  /\ saver' \in Context \cup {None}
  /\ clock' \in Value
  /\ edits' \in [Context -> [Attr -> Value \cup {None}]]
  /\ erase' \in [Context -> BOOLEAN]
  /\ seen' \in [Context -> Row]
  /\ outcome' \in {"none", "saved", "refused", "failed"}

SharedTyped ==
  /\ snap' \in [row : Row, refs : 0 .. MaxRefs] \cup {None}
  /\ obj' \in [Context -> ObjKinds]
  /\ queued' \in [Context -> SUBSET Kinds]
  /\ tracked' \in [Context -> SUBSET Kinds]

LEMMA Typed ==
  ASSUME RestTyped, SharedTyped
  PROVE  TypeOK'
BY DEF RestTyped, SharedTyped, TypeOK, ObjKinds

LEMMA NoEditsType == NoEdits \in [Attr -> Value \cup {None}]
BY DEF NoEdits

LEMMA InitType == Init => TypeInv
<1> SUFFICES ASSUME Init
             PROVE  TypeInv
  OBVIOUS
<1>1. [a \in Attr |-> 0] \in Row
  BY RowAssumption DEF RowAssumption, Row, Value
<1>2. TypeOK
  BY <1>1, NoEditsType, RowAssumption DEF Init, TypeOK, Value, RowAssumption
<1>3. Reachable
  BY <1>1, RowAssumption DEF Init, Reachable, RowAssumption
<1> QED
  BY <1>2, <1>3 DEF TypeInv

LEMMA LoadTypes ==
  ASSUME TypeOK, row # None, NEW c \in Context, NEW k \in Nat, Load(c, k)
  PROVE  /\ obj' = [obj EXCEPT ![c] = "object"]
         /\ obj' \in [Context -> ObjKinds]
         /\ values' \in [Context -> Row]
         /\ seen' \in [Context -> Row]
         /\ snap' \in [row : Row, refs : 0 .. MaxRefs] \cup {None}
<1>1. row \in Row
  BY DEF TypeOK
<1>2. snap' \in Snapshot /\ Within(snap')
  BY <1>1, SnapType, LoadedFacts DEF Load, Snapshot
<1> QED
  BY <1>1, <1>2, WithinType DEF TypeOK, Load, ObjKinds

LEMMA TypedUnchanged ==
  ASSUME TypeInv, UNCHANGED vars
  PROVE  TypeInv'
BY DEF TypeInv, TypeOK, Reachable, vars, database, context, history

LEMMA FetchType ==
  ASSUME TypeInv, NEW c \in Context, Fetch(c) \/ Fire(c)
  PROVE  TypeInv'
<1>1. PICK k \in Nat : Load(c, k)
  BY DEF Fetch, Fire
<1>2. row # None /\ saver = None
  BY DEF Fetch, Fire
<1>3. SharedTyped
  BY <1>1, <1>2, LoadTypes DEF SharedTyped, TypeInv, TypeOK, Fetch, Fire
<1>4. RestTyped
  BY <1>1, <1>2, LoadTypes DEF RestTyped, TypeInv, TypeOK, Fetch, Fire
<1>5. Reachable'
  BY <1>1, <1>2, LoadTypes DEF TypeInv, TypeOK, Reachable, Fetch, Fire
<1> QED
  BY <1>3, <1>4, <1>5, Typed DEF TypeInv

LEMMA ObjectHasRow ==
  ASSUME TypeInv, NEW c \in Context, obj[c] # "none"
  PROVE  row \in Row
BY DEF TypeInv, TypeOK, Reachable

LEMMA RefreshType ==
  ASSUME TypeInv, NEW c \in Context, Refresh(c)
  PROVE  TypeInv'
<1>1. row \in Row /\ saver = None /\ obj[c] = "object"
  BY ObjectHasRow DEF Refresh
<1>2. Recorded(snap, row) \in Snapshot
  BY <1>1, SnapType, RecordedFacts DEF TypeInv, Snapshot
<1>3. queued[c] \in SUBSET Kinds /\ tracked[c] \in SUBSET Kinds
  BY DEF TypeInv, TypeOK
<1>4. /\ SharedTyped
      /\ obj'[c] = "object"
      /\ OthersTold(c, {"update"})
  BY <1>1, <1>2, <1>3, NotifyTypes DEF Refresh, SharedTyped, TypeInv, ObjKinds
<1>5. RestTyped
  BY <1>1, NoEditsType DEF RestTyped, TypeInv, TypeOK, Refresh
<1>6. Reachable'
  BY <1>1, <1>4, OthersReachable DEF TypeInv, Reachable, Refresh, Row
<1> QED
  BY <1>4, <1>5, <1>6, Typed DEF TypeInv

LEMMA EditType ==
  ASSUME TypeInv, NEW c \in Context, NEW a \in Attr, Edit(c, a)
  PROVE  TypeInv'
<1>1. clock + 1 \in Value
  BY RowAssumption DEF Edit, TypeInv, TypeOK, Value, RowAssumption
<1>2. SharedTyped
  BY KeptType DEF Edit, TypeInv, TypeOK, SharedTyped, Kinds, ObjKinds, database
<1>3. RestTyped
  BY <1>1 DEF Edit, TypeInv, TypeOK, RestTyped, Row, database
<1>4. Reachable'
  BY DEF Edit, TypeInv, TypeOK, Reachable, database
<1> QED
  BY <1>2, <1>3, <1>4, Typed DEF TypeInv

LEMMA DeleteType ==
  ASSUME TypeInv, NEW c \in Context, Delete(c)
  PROVE  TypeInv'
<1>1. row \in Row
  BY ObjectHasRow DEF Delete
<1>2. /\ obj' = obj \/ obj' = [obj EXCEPT ![c] = "object"]
      /\ obj' \in [Context -> ObjKinds]
      /\ values' \in [Context -> Row]
      /\ seen' \in [Context -> Row]
      /\ snap' \in [row : Row, refs : 0 .. MaxRefs] \cup {None}
  <2>1. CASE obj[c] = "fault"
    BY <2>1, LoadTypes DEF Delete, TypeInv
  <2>2. CASE obj[c] # "fault"
    BY <2>2, KeptType DEF Delete, TypeInv, TypeOK, ObjKinds
  <2> QED
    BY <2>1, <2>2
<1>3. SharedTyped
  BY <1>2 DEF Delete, TypeInv, TypeOK, SharedTyped, Kinds
<1>4. RestTyped
  BY <1>2, NoEditsType DEF Delete, TypeInv, TypeOK, RestTyped
<1>5. Reachable'
  BY <1>1, <1>2, RowAssumption DEF Delete, TypeInv, TypeOK, Reachable, RowAssumption
<1> QED
  BY <1>3, <1>4, <1>5, Typed DEF TypeInv

(* HasChanges, Revert and Refault tell the others, and the context itself  *)
(* keeps an object or a fault.                                             *)
LEMMA AnnounceType ==
  ASSUME TypeInv, NEW c \in Context, saver = None, obj[c] # "none",
         NEW mine \in {"fault", "object"}, NEW t \in SUBSET Kinds,
         Notify(c, Processed(c), mine, {}, t, snap, row),
         RestTyped, row' = row, saver' = None
  PROVE  TypeInv'
<1>1. row \in Row
  BY ObjectHasRow
<1>2. snap \in Snapshot
  BY SnapType DEF TypeInv
<1>3. SharedTyped /\ obj'[c] = mine /\ OthersTold(c, Processed(c))
  <2>1. TypeOK /\ mine \in ObjKinds /\ {} \in SUBSET Kinds /\ row \in Row \cup {None}
    BY <1>1 DEF TypeInv, ObjKinds
  <2> QED
    BY <1>1, <1>2, <2>1, NotifyTypes DEF SharedTyped
<1>4. Reachable'
  BY <1>1, <1>3, OthersReachable, RowAssumption DEF TypeInv, Reachable, RowAssumption
<1> QED
  BY <1>3, <1>4, Typed DEF TypeInv

LEMMA ChangesType ==
  ASSUME TypeInv, NEW c \in Context, HasChanges(c) \/ Revert(c) \/ Refault(c)
  PROVE  TypeInv'
<1>1. saver = None /\ saver' = None /\ row' = row /\ obj[c] # "none"
  BY DEF HasChanges, Revert, Refault, TypeInv, Reachable
<1>2. RestTyped
  BY NoEditsType DEF HasChanges, Revert, Refault, GiveUp, RestTyped, TypeInv, TypeOK, history
<1>3. Processed(c) \in SUBSET Kinds /\ {} \in SUBSET Kinds /\ obj[c] \in {"fault", "object"}
  BY <1>1, ProcessedFacts DEF TypeInv, TypeOK
<1>4. \E mine \in {"fault", "object"}, t \in SUBSET Kinds :
        Notify(c, Processed(c), mine, {}, t, snap, row)
  BY <1>3 DEF HasChanges, Revert, Refault
<1> QED
  BY <1>1, <1>2, <1>4, AnnounceType

(* What Invalidate does to objects and changes.                            *)
LEMMA InvalidateFacts ==
  ASSUME TypeInv, NEW c \in Context, Invalidate(c)
  PROVE  /\ obj' \in [Context -> {"none", "fault"}]
         /\ queued' \in [Context -> SUBSET Kinds]
         /\ tracked' \in [Context -> SUBSET Kinds]
         /\ \A d \in Context : queued'[d] \cup tracked'[d] # {} =>
              /\ obj'[d] # "none"
              /\ queued'[d] \subseteq queued[d] /\ tracked'[d] \subseteq tracked[d]
         /\ \A d \in Context : obj[d] = "none" => obj'[d] = "none"
<1> DEFINE kinds == Processed(c)
           after == ToldObj(c, kinds, "fault")
           q == ToldChanges(queued, c, kinds, {})
           t == ToldChanges(tracked, c, kinds, {})
<1>1. /\ after \in [Context -> ObjKinds]
      /\ \A d \in Context : obj[d] = "none" => after[d] = "none"
  BY DEF ToldObj, Told, TypeInv, TypeOK, ObjKinds, Invalidate
<1>2. q \in [Context -> SUBSET Kinds] /\ t \in [Context -> SUBSET Kinds]
  BY DEF ToldChanges, TypeInv, TypeOK
<1>3. \A d \in Context : q[d] \cup t[d] # {} =>
        after[d] # "none" /\ q[d] \subseteq queued[d] /\ t[d] \subseteq tracked[d]
  BY DEF ToldChanges, ToldObj, Told, TypeInv, Reachable
<1>4. /\ obj' = [d \in Context |-> IF after[d] = "object" THEN "fault" ELSE after[d]]
      /\ queued' = [d \in Context |-> IF after[d] = "object" THEN {} ELSE q[d]]
      /\ tracked' = [d \in Context |-> IF after[d] = "object" THEN {} ELSE t[d]]
  BY DEF Invalidate
<1> HIDE DEF after, q, t
<1> QED
  BY <1>1, <1>2, <1>3, <1>4 DEF ObjKinds

LEMMA InvalidateType ==
  ASSUME TypeInv, NEW c \in Context, Invalidate(c)
  PROVE  TypeInv'
<1>1. SharedTyped
  BY InvalidateFacts DEF SharedTyped, Invalidate, ObjKinds
<1>2. RestTyped
  BY NoEditsType DEF RestTyped, Invalidate, GiveUp, TypeInv, TypeOK
<1>3. Reachable'
  BY InvalidateFacts DEF Reachable, TypeInv, Invalidate
<1> QED
  BY <1>1, <1>2, <1>3, Typed DEF TypeInv

LEMMA ReleaseType ==
  ASSUME TypeInv, NEW c \in Context, Release(c)
  PROVE  TypeInv'
<1>1. Released(snap, 1) \in Snapshot /\ Within(Released(snap, 1))
  <2>1. snap \in Snapshot
    BY SnapType DEF TypeInv
  <2>2. snap # None => snap.refs \in Nat /\ snap.refs <= MaxRefs
    BY RowAssumption DEF TypeInv, TypeOK, RowAssumption
  <2> QED
    BY <2>1, <2>2, ReleasedFacts, RowAssumption DEF Within, RowAssumption
<1>2. SharedTyped
  BY <1>1, WithinType DEF Release, SharedTyped, TypeInv, TypeOK, ObjKinds
<1>3. RestTyped
  BY DEF Release, RestTyped, TypeInv, TypeOK, history
<1>4. Reachable'
  BY DEF Release, Reachable, TypeInv, TypeOK
<1> QED
  BY <1>2, <1>3, <1>4, Typed DEF TypeInv

LEMMA OtherStepsType ==
  ASSUME TypeInv,
         \/ \E c \in Context : CreateFault(c)
         \/ \E a \in Attr : ClientWrites(a)
  PROVE  TypeInv'
<1>1. ASSUME NEW c \in Context, CreateFault(c)
      PROVE  TypeInv'
  <2>1. SharedTyped
    BY <1>1, KeptType DEF CreateFault, SharedTyped, TypeInv, TypeOK, ObjKinds, database
  <2>2. RestTyped /\ Reachable'
    BY <1>1 DEF CreateFault, RestTyped, Reachable, TypeInv, TypeOK, database, history
  <2> QED
    BY <2>1, <2>2, Typed DEF TypeInv
<1>2. ASSUME NEW a \in Attr, ClientWrites(a)
      PROVE  TypeInv'
  <2>1. clock + 1 \in Value /\ row \in Row
    BY <1>2, RowAssumption DEF ClientWrites, TypeInv, TypeOK, Value, RowAssumption
  <2>2. row' \in Row
    BY <1>2, <2>1 DEF ClientWrites, Row
  <2>3. SharedTyped /\ RestTyped
    BY <1>2, <2>1, <2>2, KeptType
    DEF ClientWrites, SharedTyped, RestTyped, TypeInv, TypeOK, ObjKinds, context, history
  <2>4. Reachable'
    BY <1>2, <2>2, RowAssumption
    DEF ClientWrites, Reachable, TypeInv, context, RowAssumption
  <2> QED
    BY <2>3, <2>4, Typed DEF TypeInv
<1> QED
  BY <1>1, <1>2

(* What saveChanges does before the stores come in.                        *)
LEMMA BeginSaveFacts ==
  ASSUME TypeInv, NEW c \in Context, BeginSave(c)
  PROVE  /\ row \in Row /\ row' = row
         /\ SharedTyped
         /\ values' \in [Context -> Row] /\ seen' \in [Context -> Row]
         /\ obj'[c] = "object" /\ queued'[c] = {}
         /\ tracked'[c] = Processed(c) /\ Processed(c) # {}
         /\ OthersTold(c, Processed(c))
<1> DEFINE kinds == Processed(c)
           fires == obj[c] = "fault"
           s == IF fires /\ "update" \in kinds THEN Loaded(snap, 1) ELSE snap
           told == ToldSnap(c, kinds, s, row)
<1>1. kinds \in SUBSET Kinds /\ kinds # {} /\ obj[c] # "none"
  BY ProcessedFacts DEF BeginSave, TypeInv, Reachable
<1>2. row \in Row
  BY <1>1, ObjectHasRow
<1>3. s \in Snapshot
  BY <1>2, SnapType, LoadedFacts DEF TypeInv, Snapshot
<1>4. told \in Snapshot
  BY <1>2, <1>3, ToldSnapFacts
<1>5. snap' \in Snapshot /\ Within(snap')
  <2>1. snap' = (IF fires /\ ~("update" \in kinds) THEN Loaded(told, 1) ELSE told) /\ Within(snap')
    BY DEF BeginSave
  <2>2. Loaded(told, 1) \in Snapshot
    BY <1>2, <1>4, LoadedFacts DEF Snapshot
  <2> QED
    BY <1>4, <2>1, <2>2
<1>6. /\ obj' \in [Context -> ObjKinds]
      /\ queued' \in [Context -> SUBSET Kinds]
      /\ tracked' \in [Context -> SUBSET Kinds]
      /\ obj'[c] = "object" /\ queued'[c] = {} /\ tracked'[c] = kinds
      /\ OthersTold(c, kinds)
  <2>1. /\ obj' = ToldObj(c, kinds, "object")
        /\ queued' = ToldChanges(queued, c, kinds, {})
        /\ tracked' = ToldChanges(tracked, c, kinds, kinds)
    BY DEF BeginSave
  <2>2. TypeOK /\ "object" \in ObjKinds /\ {} \in SUBSET Kinds
    BY DEF TypeInv, ObjKinds
  <2> QED
    BY <1>1, <2>1, <2>2, ToldTypes
<1>7. values' \in [Context -> Row] /\ seen' \in [Context -> Row]
  BY <1>2 DEF BeginSave, TypeInv, TypeOK
<1> QED
  BY <1>1, <1>2, <1>5, <1>6, <1>7, WithinType DEF SharedTyped, BeginSave

LEMMA BeginSaveType ==
  ASSUME TypeInv, NEW c \in Context, BeginSave(c)
  PROVE  TypeInv'
<1>1. SharedTyped
  BY BeginSaveFacts
<1>2. RestTyped
  BY BeginSaveFacts DEF BeginSave, RestTyped, TypeInv, TypeOK
<1>3. Reachable'
  <2>1. saver' = c
    BY DEF BeginSave
  <2>2. \A d \in Context \ {c} : queued'[d] \cup tracked'[d] # {} => obj'[d] # "none"
    BY BeginSaveFacts, OthersReachable
  <2> QED
    BY <2>1, <2>2, BeginSaveFacts, RowAssumption DEF Reachable, RowAssumption
<1> QED
  BY <1>1, <1>2, <1>3, Typed DEF TypeInv

(* The snapshot a committed save leaves before it tells the others.        *)
Committed(c) ==
  LET s1 == IF "delete" \in tracked[c] THEN None ELSE snap
      s2 == IF "update" \in tracked[c] THEN Recorded(s1, values[c]) ELSE s1
  IN IF "delete" \in tracked[c] THEN Released(s2, 1) ELSE s2

Done(c) == Performed(tracked[c], values[c], snap)

(* The two ways a store's part of a save ends.                             *)
Commits(c) ==
  /\ Done(c).ok
  /\ row' = Done(c).row
  /\ Notify(c, tracked[c], IF "delete" \in tracked[c] THEN "none" ELSE "object", {}, {},
            Committed(c), Done(c).row)
  /\ seen' = [seen EXCEPT ![c] = values[c]]
  /\ GiveUp(c)
  /\ outcome' = "saved"

Raises(c) ==
  /\ outcome' \in {"refused", "failed"}
  /\ UNCHANGED <<row, snap, context, edits, erase, seen>>

LEMMA StoreSaveEnds ==
  ASSUME NEW c \in Context, StoreSave(c)
  PROVE  /\ saver = c /\ snap # None /\ saver' = None
         /\ UNCHANGED <<values, clock>>
         /\ Commits(c) \/ Raises(c)
BY DEF StoreSave, Commits, Raises, Done, Committed

LEMMA CommittedFacts ==
  ASSUME TypeInv, NEW c \in Context, saver = c, snap # None
  PROVE  /\ snap \in Known /\ values[c] \in Row /\ row \in Row
         /\ tracked[c] \in SUBSET {"update", "delete"} /\ tracked[c] # {}
         /\ obj[c] = "object"
         /\ Done(c).row \in Row \cup {None}
         /\ "delete" \notin tracked[c] => Done(c).row \in Row
         /\ Committed(c) \in Snapshot
         /\ "delete" \in tracked[c] => Committed(c) = None
         /\ "delete" \notin tracked[c] =>
              Committed(c) # None /\ Committed(c).row = values[c] /\ Committed(c).refs = snap.refs
<1>1. /\ snap \in Known /\ values[c] \in Row
      /\ tracked[c] \in SUBSET {"update", "delete"} /\ tracked[c] # {}
      /\ obj[c] = "object"
  <2>1. snap \in Known
    BY SnapType DEF TypeInv, Snapshot
  <2>2. values[c] \in Row /\ tracked[c] \in SUBSET {"update", "delete"}
    BY DEF TypeInv, TypeOK, Kinds
  <2> QED
    BY <2>1, <2>2, RowAssumption DEF TypeInv, Reachable, RowAssumption
<1>2. row \in Row
  BY <1>1, ObjectHasRow
<1>3. Done(c).row \in Row \cup {None} /\ ("delete" \notin tracked[c] => Done(c).row \in Row)
  <2>1. row # None
    BY <1>2, RowAssumption DEF RowAssumption
  <2> QED
    BY <1>1, <1>2, <2>1, PerformedFacts DEF Done
<1>4. CASE "delete" \in tracked[c]
  <2>1. Committed(c) = Released(IF "update" \in tracked[c] THEN Recorded(None, values[c]) ELSE None, 1)
    BY <1>4 DEF Committed
  <2>2. Committed(c) = None
    BY <2>1, RowAssumption DEF Released, Recorded, RowAssumption
  <2> QED
    BY <1>1, <1>2, <1>3, <1>4, <2>2 DEF Snapshot
<1>5. CASE "delete" \notin tracked[c]
  <2>1. Committed(c) = Recorded(snap, values[c])
    BY <1>1, <1>5 DEF Committed
  <2>2. /\ Recorded(snap, values[c]) \in Known
        /\ Recorded(snap, values[c]) # None
        /\ Recorded(snap, values[c]).row = values[c]
        /\ Recorded(snap, values[c]).refs = snap.refs
    BY <1>1, RecordedFacts DEF Snapshot
  <2> QED
    BY <1>1, <1>2, <1>3, <1>5, <2>1, <2>2 DEF Snapshot
<1> QED
  BY <1>4, <1>5

(* What the others, and the context itself, keep after a commit.           *)
LEMMA CommitsFacts ==
  ASSUME TypeInv, NEW c \in Context, saver = c, snap # None, Commits(c)
  PROVE  /\ SharedTyped
         /\ obj'[c] = IF "delete" \in tracked[c] THEN "none" ELSE "object"
         /\ queued'[c] = {} /\ tracked'[c] = {}
         /\ OthersTold(c, tracked[c])
<1> DEFINE mine == IF "delete" \in tracked[c] THEN "none" ELSE "object"
<1>1. /\ Committed(c) \in Snapshot
      /\ Done(c).row \in Row \cup {None}
      /\ Done(c).row \in Row \/ "delete" \in tracked[c]
  BY CommittedFacts
<1>2. Notify(c, tracked[c], mine, {}, {}, Committed(c), Done(c).row)
  BY DEF Commits
<1>3. TypeOK /\ mine \in ObjKinds /\ {} \in SUBSET Kinds
  BY DEF TypeInv, ObjKinds
<1> HIDE DEF mine
<1>4. /\ SharedTyped
      /\ obj'[c] = mine /\ queued'[c] = {} /\ tracked'[c] = {}
      /\ OthersTold(c, tracked[c])
  <2>1. /\ obj' \in [Context -> ObjKinds]
        /\ queued' \in [Context -> SUBSET Kinds]
        /\ tracked' \in [Context -> SUBSET Kinds]
        /\ snap' \in [row : Row, refs : 0 .. MaxRefs] \cup {None}
        /\ obj'[c] = mine /\ queued'[c] = {} /\ tracked'[c] = {}
        /\ OthersTold(c, tracked[c])
    BY ONLY <1>1, <1>2, <1>3, NotifyTypes, ZenonT(20)
  <2> QED
    BY <2>1 DEF SharedTyped
<1> QED
  BY <1>4 DEF mine

LEMMA StoreSaveType ==
  ASSUME TypeInv, NEW c \in Context, StoreSave(c)
  PROVE  TypeInv'
<1>1. saver = c /\ snap # None /\ saver' = None /\ UNCHANGED <<values, clock>>
  BY StoreSaveEnds
<1>2. CASE Commits(c)
  <2>1. SharedTyped /\ OthersTold(c, tracked[c])
    BY <1>1, <1>2, CommitsFacts
  <2>2. /\ values[c] \in Row
        /\ Done(c).row \in Row \cup {None}
        /\ "delete" \notin tracked[c] => Done(c).row \in Row
    BY <1>1, CommittedFacts
  <2>3. RestTyped
    BY <1>1, <1>2, <2>2, NoEditsType DEF Commits, GiveUp, RestTyped, TypeInv, TypeOK
  <2>4. Reachable'
    <3>1. row' = Done(c).row
      BY <1>2 DEF Commits
    <3>2. /\ obj'[c] = IF "delete" \in tracked[c] THEN "none" ELSE "object"
          /\ queued'[c] = {} /\ tracked'[c] = {}
      BY <1>1, <1>2, CommitsFacts
    <3>3. \A d \in Context \ {c} :
            /\ queued'[d] \cup tracked'[d] # {} => obj'[d] # "none"
            /\ "delete" \in tracked[c] => obj'[d] = "none"
      BY <2>1, OthersReachable
    <3> QED
      BY <1>1, <2>2, <3>1, <3>2, <3>3, RowAssumption DEF Reachable, RowAssumption
  <2> QED
    BY <2>1, <2>3, <2>4, Typed DEF TypeInv
<1>3. CASE Raises(c)
  <2>1. SharedTyped
    BY <1>3, KeptType DEF Raises, SharedTyped, TypeInv, TypeOK, ObjKinds, context
  <2>2. RestTyped
    BY <1>1, <1>3 DEF Raises, RestTyped, TypeInv, TypeOK, context
  <2>3. Reachable'
    BY <1>1, <1>3 DEF Raises, Reachable, TypeInv, context
  <2> QED
    BY <2>1, <2>2, <2>3, Typed DEF TypeInv
<1> QED
  BY <1>2, <1>3, StoreSaveEnds

LEMMA StoreSaveUnknownType ==
  ASSUME TypeInv, NEW c \in Context, StoreSaveUnknown(c)
  PROVE  TypeInv'
<1>1. SharedTyped
  BY KeptType DEF StoreSaveUnknown, SharedTyped, TypeInv, TypeOK, ObjKinds, database
<1>2. RestTyped
  BY NoEditsType DEF StoreSaveUnknown, GiveUp, RestTyped, TypeInv, TypeOK, database
<1>3. Reachable'
  BY DEF StoreSaveUnknown, Reachable, TypeInv, TypeOK, database
<1> QED
  BY <1>1, <1>2, <1>3, Typed DEF TypeInv

LEMMA NextType ==
  ASSUME TypeInv, [Next]_vars
  PROVE  TypeInv'
BY TypedUnchanged, FetchType, RefreshType, EditType, DeleteType, ChangesType,
   InvalidateType, ReleaseType, OtherStepsType, BeginSaveType, StoreSaveType,
   StoreSaveUnknownType
DEF Next

(* No operation stores a value outside its type; the count of the snapshot *)
(* in particular never becomes negative.                                   *)
THEOREM TypeCorrect == Spec => []TypeOK
<1>1. TypeInv => TypeOK
  BY DEF TypeInv
<1> QED
  BY <1>1, InitType, NextType, PTL DEF Spec

(* No context keeps an object, or changes, of a row that a save deleted.   *)
THEOREM ReachableAlways == Spec => []Reachable
<1>1. TypeInv => Reachable
  BY DEF TypeInv
<1> QED
  BY <1>1, InitType, NextType, PTL DEF Spec
=============================================================================
