----------------------- MODULE SharedRowSnapshotProofs -----------------------
(***************************************************************************)
(* Theorems about the shared snapshot: when it is current, when it is the  *)
(* row a context's edits are based on, and that it stays while objects     *)
(* need it; and about what rests on it: that a context's changes are kept, *)
(* stored, and refused only for a cause, and that unchanged objects agree. *)
(***************************************************************************)
EXTENDS SharedRowProofs

(* Only a commit by the saving context changes the row at the end of a     *)
(* save, and only the row that the snapshot shows.                         *)
LEMMA SaveChangesSnapshotRow ==
  ASSUME TypeInv, Next, SaveEnds, row' # row
  PROVE  snap # None /\ row = snap.row /\ obj[saver] = "object" /\ saver \in Context
<1>1. PICK c \in Context : StoreSave(c)
  BY DEF Next, SaveEnds, Fetch, Refresh, CreateFault, Fire, Delete, HasChanges, Revert,
         Refault, Invalidate, Release, BeginSave, StoreSaveUnknown, Edit, ClientWrites, database
<1>2. saver = c /\ snap # None /\ row' = Done(c).row
  BY <1>1, StoreSaveEnds DEF Commits, Raises
<1>3. snap \in Known /\ values[c] \in Row /\ row \in Row /\ obj[c] = "object"
  BY <1>2, CommittedFacts
<1>4. Performed(tracked[c], values[c], snap).row # row => row = snap.row
  <2>1. row \in Row \cup {None}
    BY <1>3
  <2>2. ASSUME NEW kinds, NEW new \in Row, NEW s \in Known, Performed(kinds, new, s).row # row
        PROVE  row = s.row
    BY <2>1, <2>2, PerformedFacts
  <2> QED
    BY <1>3, <2>2
<1> QED
  BY <1>2, <1>3, <1>4 DEF Done

LEMMA SaveLeavesUnknown ==
  ASSUME TypeInv, UNCHANGED vars
  PROVE  ~SaveEnds
BY DEF SaveEnds, vars

-----------------------------------------------------------------------------
(* Nobody else writes the row.                                             *)

(* Contexts tell each other of changes while the row stays as it is.       *)
LEMMA ToldCurrent ==
  ASSUME CurrentInv, NEW c \in Context, NEW kinds, NEW s \in Snapshot,
         row \in Row, row' = row, s # None => s.row = row,
         snap' = ToldSnap(c, kinds, s, row),
         OthersTold(c, kinds),
         seen' = seen \/ seen' = [seen EXCEPT ![c] = row],
         obj'[c] = "object" => obj[c] = "object" \/ seen' = [seen EXCEPT ![c] = row]
  PROVE  SnapshotCurrent' /\ SeenCurrent'
<1>1. SnapshotCurrent'
  <2>1. snap' # None => snap'.row = row
    BY ToldSnapFacts
  <2> QED
    BY <2>1, RowAssumption DEF SnapshotCurrent, RowAssumption
<1>2. SeenCurrent'
  <2>1. \A d \in Context \ {c} : obj'[d] = "object" => obj[d] = "object"
    BY OthersReachable DEF CurrentInv
  <2> QED
    BY <2>1 DEF SeenCurrent, Live, CurrentInv, TypeInv, TypeOK
<1> QED
  BY <1>1, <1>2

LEMMA LoadCurrent ==
  ASSUME CurrentInv, row # None, NEW c \in Context, NEW k \in Nat, Load(c, k), row' = row
  PROVE  SnapshotCurrent' /\ SeenCurrent'
<1>1. snap \in Snapshot /\ row \in Row
  BY SnapType DEF CurrentInv, TypeInv, TypeOK
<1>2. snap'.row = row
  BY <1>1, LoadedFacts DEF Load
<1>3. SeenCurrent'
  BY DEF SeenCurrent, Live, Load, CurrentInv, TypeInv, TypeOK
<1> QED
  BY <1>2, <1>3 DEF SnapshotCurrent

LEMMA AnnounceCurrent ==
  ASSUME CurrentInv, NEW c \in Context,
         Refresh(c) \/ HasChanges(c) \/ Revert(c) \/ Refault(c)
  PROVE  SnapshotCurrent' /\ SeenCurrent'
<1>1. TypeInv /\ TypeOK /\ obj[c] # "none" /\ row' = row
  BY DEF CurrentInv, TypeInv, Reachable, Refresh, HasChanges, Revert, Refault
<1>2. row \in Row /\ snap \in Snapshot /\ {} \in SUBSET Kinds
  BY <1>1, SnapType, ObjectHasRow
<1>3. Processed(c) \in SUBSET Kinds /\ tracked[c] \in SUBSET Kinds /\ queued[c] \in SUBSET Kinds
      /\ obj[c] \in ObjKinds
  BY <1>1, ProcessedFacts DEF TypeOK, ObjKinds
<1>4. snap # None => snap.row = row
  BY DEF CurrentInv, SnapshotCurrent
<1>5. Recorded(snap, row) \in Snapshot /\ Recorded(snap, row).row = row
  BY <1>2, RecordedFacts DEF Snapshot
<1>6. PICK kinds \in SUBSET Kinds, mine \in ObjKinds,
           q \in SUBSET Kinds, t \in SUBSET Kinds, s \in Snapshot :
        /\ Notify(c, kinds, mine, q, t, s, row)
        /\ s # None => s.row = row
        /\ mine = "object" => obj[c] = "object"
  <2>1. CASE Refresh(c)
    <3>1. Notify(c, {"update"}, "object", queued[c], tracked[c], Recorded(snap, row), row)
          /\ obj[c] = "object" /\ {"update"} \in SUBSET Kinds /\ "object" \in ObjKinds
      BY <2>1 DEF Refresh, Kinds, ObjKinds
    <3> QED
      BY <1>3, <1>5, <3>1
  <2>2. CASE HasChanges(c)
    BY <1>2, <1>3, <1>4, <2>2 DEF HasChanges
  <2>3. CASE Revert(c)
    BY <1>2, <1>3, <1>4, <2>3 DEF Revert
  <2>4. CASE Refault(c)
    <3>1. Notify(c, Processed(c), "fault", {}, Processed(c), snap, row) /\ "fault" \in ObjKinds
      BY <2>4 DEF Refault, ObjKinds
    <3> QED
      BY <1>2, <1>3, <1>4, <3>1
  <2> QED
    BY <2>1, <2>2, <2>3, <2>4
<1>7. obj'[c] = mine /\ OthersTold(c, kinds)
  BY <1>1, <1>2, <1>6, NotifyTypes
<1>8. snap' = ToldSnap(c, kinds, s, row)
  BY <1>6 DEF Notify
<1>9. seen' = seen \/ seen' = [seen EXCEPT ![c] = row]
  BY DEF Refresh, HasChanges, Revert, Refault, history
<1> QED
  BY <1>1, <1>2, <1>6, <1>7, <1>8, <1>9, ToldCurrent

LEMMA BeginSaveCurrent ==
  ASSUME CurrentInv, NEW c \in Context, BeginSave(c)
  PROVE  SnapshotCurrent' /\ SeenCurrent'
<1> DEFINE kinds == Processed(c)
           fires == obj[c] = "fault"
           s == IF fires /\ "update" \in kinds THEN Loaded(snap, 1) ELSE snap
           told == ToldSnap(c, kinds, s, row)
<1>1. /\ row \in Row /\ row' = row /\ kinds # {}
      /\ OthersTold(c, kinds) /\ obj'[c] = "object"
      /\ snap \in Snapshot /\ obj[c] \in {"fault", "object"}
  <2>1. obj[c] \in {"none", "fault", "object"} /\ kinds # {} /\ obj[c] # "none"
    BY BeginSaveFacts, ProcessedFacts DEF CurrentInv, TypeInv, TypeOK, Reachable
  <2> QED
    BY <2>1, BeginSaveFacts, SnapType DEF CurrentInv, TypeInv
<1>2. s \in Snapshot /\ (s # None => s.row = row)
  BY <1>1, LoadedFacts DEF CurrentInv, SnapshotCurrent, Snapshot
<1>3. told \in Snapshot /\ (told # None => told.row = row)
  <2> HIDE DEF s, kinds
  <2>1. told \in Snapshot
    BY <1>1, <1>2, ToldSnapFacts
  <2>2. told # None => (s # None /\ told.row = s.row) \/ told.row = row
    BY <1>1, <1>2, ToldSnapFacts
  <2> QED
    BY <1>2, <2>1, <2>2
<1>4. snap' # None => snap'.row = row
  <2>1. snap' = (IF fires /\ ~("update" \in kinds) THEN Loaded(told, 1) ELSE told)
    BY DEF BeginSave
  <2>2. Loaded(told, 1).row = row
    BY <1>1, <1>3, LoadedFacts
  <2> QED
    BY <1>3, <2>1, <2>2
<1>5. SnapshotCurrent'
  BY <1>1, <1>4, RowAssumption DEF SnapshotCurrent, RowAssumption
<1>6. SeenCurrent'
  <2>1. \A d \in Context \ {c} : obj'[d] = "object" => obj[d] = "object"
    BY <1>1, OthersReachable DEF CurrentInv
  <2>2. seen' = IF fires THEN [seen EXCEPT ![c] = row] ELSE seen
    BY DEF BeginSave
  <2> QED
    BY <1>1, <2>1, <2>2 DEF SeenCurrent, Live, CurrentInv, TypeInv, TypeOK
<1> QED
  BY <1>5, <1>6

(* A commit leaves nobody but the saving context with an object.           *)
LEMMA CommitLeaves ==
  ASSUME TypeInv, NEW c \in Context, saver = c, snap # None, Commits(c)
  PROVE  /\ \A d \in Context \ {c} : obj'[d] # "object"
         /\ "delete" \in tracked[c] => obj'[c] = "none" /\ snap' = None
         /\ "delete" \notin tracked[c] =>
              obj'[c] = "object" /\ seen'[c] = values[c] /\ "update" \in tracked[c]
<1>1. /\ tracked[c] # {} /\ tracked[c] \in SUBSET {"update", "delete"}
      /\ Committed(c) \in Snapshot
      /\ Done(c).row \in Row \cup {None}
      /\ Done(c).row \in Row \/ "delete" \in tracked[c]
      /\ "delete" \in tracked[c] => Committed(c) = None
  BY CommittedFacts
<1>2. obj'[c] = IF "delete" \in tracked[c] THEN "none" ELSE "object"
  BY CommitsFacts
<1>3. OthersTold(c, tracked[c])
  BY CommitsFacts
<1>4. \A d \in Context \ {c} : obj'[d] # "object"
  BY <1>1, <1>3 DEF OthersTold, Told
<1>5. "delete" \in tracked[c] => snap' = None
  <2>1. snap' = ToldSnap(c, tracked[c], Committed(c), Done(c).row)
    BY DEF Commits, Notify
  <2> QED
    BY <1>1, <2>1, ToldSnapFacts
<1>6. seen'[c] = values[c]
  BY DEF Commits, TypeInv, TypeOK
<1> QED
  BY <1>1, <1>2, <1>4, <1>5, <1>6

LEMMA StoreSaveCurrent ==
  ASSUME CurrentInv, NEW c \in Context, StoreSave(c)
  PROVE  SnapshotCurrent' /\ SeenCurrent'
<1>1. TypeInv /\ saver = c /\ snap # None
  BY StoreSaveEnds DEF CurrentInv
<1>2. CASE Raises(c)
  BY <1>2 DEF Raises, context, CurrentInv, SnapshotCurrent, SeenCurrent, Live
<1>3. CASE Commits(c) /\ "delete" \in tracked[c]
  BY <1>1, <1>3, CommitLeaves DEF SnapshotCurrent, SeenCurrent, Live
<1>4. CASE Commits(c) /\ "delete" \notin tracked[c]
  <2>1. /\ snap \in Known /\ values[c] \in Row /\ row \in Row /\ row # None
        /\ Done(c).row \in Row
        /\ Committed(c) \in Snapshot /\ Committed(c) # None /\ Committed(c).row = values[c]
    BY <1>1, <1>4, CommittedFacts, RowAssumption DEF RowAssumption
  <2>2. "update" \in tracked[c] /\ seen'[c] = values[c] /\ \A d \in Context \ {c} : obj'[d] # "object"
    BY <1>1, <1>4, CommitLeaves
  <2>3. row = snap.row
    BY <1>1 DEF CurrentInv, SnapshotCurrent
  <2>4. row' = values[c] /\ Done(c).row = values[c]
    BY <1>4, <2>1, <2>2, <2>3, PerformedFacts DEF Done, Commits
  <2>5. snap' = ToldSnap(c, tracked[c], Committed(c), Done(c).row)
    BY <1>4 DEF Commits, Notify
  <2>6. snap' # None => snap'.row = values[c]
    BY <2>1, <2>4, <2>5, ToldSnapFacts
  <2>7. row' # None
    BY <2>1, <2>4, RowAssumption DEF RowAssumption
  <2> QED
    BY <2>2, <2>4, <2>6, <2>7 DEF SnapshotCurrent, SeenCurrent, Live
<1> QED
  BY <1>2, <1>3, <1>4, StoreSaveEnds

LEMMA QuietCurrent ==
  ASSUME CurrentInv,
         \/ UNCHANGED <<row, snap, obj, seen>>
         \/ \E c \in Context : Release(c) \/ CreateFault(c) \/ Invalidate(c)
  PROVE  SnapshotCurrent' /\ SeenCurrent'
<1>1. CASE UNCHANGED <<row, snap, obj, seen>>
  BY <1>1 DEF CurrentInv, SnapshotCurrent, SeenCurrent, Live
<1>2. ASSUME NEW c \in Context, Release(c)
      PROVE  SnapshotCurrent' /\ SeenCurrent'
  <2>1. snap \in Snapshot
    BY SnapType DEF CurrentInv, TypeInv
  <2>2. SnapshotCurrent'
    BY <1>2, <2>1, ReleasedFacts DEF Release, CurrentInv, SnapshotCurrent
  <2>3. SeenCurrent'
    BY <1>2 DEF Release, history, CurrentInv, TypeInv, TypeOK, SeenCurrent, Live
  <2> QED
    BY <2>2, <2>3
<1>3. ASSUME NEW c \in Context, CreateFault(c)
      PROVE  SnapshotCurrent' /\ SeenCurrent'
  BY <1>3 DEF CreateFault, database, history, CurrentInv, TypeInv, TypeOK,
              SnapshotCurrent, SeenCurrent, Live
<1>4. ASSUME NEW c \in Context, Invalidate(c)
      PROVE  SnapshotCurrent' /\ SeenCurrent'
  <2>1. \A d \in Context : obj'[d] # "object"
    BY <1>4, InvalidateFacts DEF CurrentInv
  <2> QED
    BY <1>4, <2>1 DEF Invalidate, SnapshotCurrent, SeenCurrent, Live
<1> QED
  BY <1>1, <1>2, <1>3, <1>4

LEMMA NextCurrent ==
  ASSUME ~Clients, CurrentInv, [Next]_vars
  PROVE  CurrentInv'
<1>1. TypeInv'
  BY NextType DEF CurrentInv
<1>2. ASSUME NEW c \in Context, Fetch(c) \/ Fire(c)
      PROVE  SnapshotCurrent' /\ SeenCurrent'
  <2>1. PICK k \in Nat : Load(c, k)
    BY <1>2 DEF Fetch, Fire
  <2> QED
    BY <1>2, <2>1, LoadCurrent DEF Fetch, Fire
<1>3. ASSUME NEW c \in Context, Delete(c)
      PROVE  SnapshotCurrent' /\ SeenCurrent'
  <2>1. CASE obj[c] = "fault"
    BY <1>3, <2>1, LoadCurrent DEF Delete
  <2>2. CASE obj[c] # "fault"
    BY <1>3, <2>2, QuietCurrent DEF Delete
  <2> QED
    BY <2>1, <2>2
<1>4. ASSUME \/ \E c \in Context : StoreSaveUnknown(c) \/ \E a \in Attr : Edit(c, a)
             \/ UNCHANGED vars
      PROVE  UNCHANGED <<row, snap, obj, seen>>
  BY <1>4 DEF StoreSaveUnknown, Edit, vars, database, context, history
<1>5. ~ \E a \in Attr : ClientWrites(a)
  BY DEF ClientWrites
<1> QED
  BY <1>1, <1>2, <1>3, <1>4, <1>5, AnnounceCurrent, BeginSaveCurrent, StoreSaveCurrent, QuietCurrent
  DEF Next, CurrentInv

LEMMA CurrentInvariant ==
  ASSUME ~Clients
  PROVE  Spec => []CurrentInv
<1>1. Init => CurrentInv
  <2> SUFFICES ASSUME Init
               PROVE  CurrentInv
    OBVIOUS
  <2>1. SnapshotCurrent /\ SeenCurrent
    BY DEF Init, SnapshotCurrent, SeenCurrent, Live
  <2> QED
    BY <2>1, InitType DEF CurrentInv
<1> QED
  BY <1>1, NextCurrent, PTL DEF Spec

(* Without other programs the snapshot that the EODatabase keeps is the    *)
(* row, through every fetch, save, failed commit, release, refault and     *)
(* deletion of any number of contexts.                                     *)
THEOREM SnapshotStaysCurrent ==
  ASSUME ~Clients
  PROVE  Spec => []SnapshotCurrent
<1>1. CurrentInv => SnapshotCurrent
  BY DEF CurrentInv
<1> QED
  BY <1>1, CurrentInvariant, PTL

(* ... so the contexts do not overwrite each other's saves.                *)
THEOREM ContextsUpdateTheirRow ==
  ASSUME ~Clients
  PROVE  Spec => UpdatesBasedOnRow
<1>1. ASSUME CurrentInv, [Next]_vars
      PROVE  [SaveEnds /\ row' # row => row = seen[saver]]_vars
  <2> SUFFICES ASSUME Next, SaveEnds, row' # row
               PROVE  row = seen[saver]
    BY <1>1
  <2>1. obj[saver] = "object" /\ saver \in Context
    BY <1>1, SaveChangesSnapshotRow DEF CurrentInv
  <2> QED
    BY <1>1, <2>1 DEF CurrentInv, SeenCurrent, Live
<1> QED
  BY <1>1, CurrentInvariant, PTL DEF Spec, UpdatesBasedOnRow

-----------------------------------------------------------------------------
(* A single context, whatever other programs write.                        *)

Single == \A c, d \in Context : c = d

LEMMA NobodyTold ==
  ASSUME Single, NEW c \in Context, NEW kinds
  PROVE  Told(c, kinds) = {}
BY DEF Single, Told

LEMMA QuietOwn ==
  ASSUME OwnInv, TypeInv', snap' = snap, seen' = seen,
         \A c \in Context : obj'[c] = "object" => obj[c] = "object"
  PROVE  SnapshotIsSeen'
BY DEF OwnInv, SnapshotIsSeen, Live

LEMMA LoadOwn ==
  ASSUME OwnInv, Single, row # None, NEW c \in Context, NEW k \in Nat, Load(c, k)
  PROVE  SnapshotIsSeen'
<1>1. snap \in Snapshot /\ row \in Row
  BY SnapType DEF OwnInv, TypeInv, TypeOK
<1>2. snap'.row = row
  BY <1>1, LoadedFacts DEF Load
<1>3. seen'[c] = row
  BY DEF Load, OwnInv, TypeInv, TypeOK
<1> QED
  BY <1>2, <1>3 DEF SnapshotIsSeen, Live, Single

LEMMA RefreshOwn ==
  ASSUME OwnInv, Single, NEW c \in Context, Refresh(c)
  PROVE  SnapshotIsSeen'
<1>1. row \in Row /\ snap \in Snapshot
  BY SnapType, ObjectHasRow DEF OwnInv, TypeInv, Refresh
<1>2. Recorded(snap, row) \in Snapshot /\ Recorded(snap, row).row = row
  BY <1>1, RecordedFacts DEF Snapshot
<1>3. snap' = ToldSnap(c, {"update"}, Recorded(snap, row), row)
  BY DEF Refresh, Notify
<1>4. Told(c, {"update"}) = {}
  BY NobodyTold
<1>5. snap' = Recorded(snap, row)
  BY <1>1, <1>2, <1>3, <1>4, ToldSnapFacts
<1>6. seen'[c] = row
  BY DEF Refresh, OwnInv, TypeInv, TypeOK
<1> QED
  BY <1>2, <1>5, <1>6 DEF SnapshotIsSeen, Live, Single

LEMMA AnnounceOwn ==
  ASSUME OwnInv, Single, TypeInv', NEW c \in Context, HasChanges(c) \/ Revert(c) \/ Refault(c)
  PROVE  SnapshotIsSeen'
<1>1. TypeInv /\ obj[c] # "none"
  BY DEF OwnInv, TypeInv, Reachable, HasChanges, Revert, Refault
<1>2. row \in Row /\ snap \in Snapshot
  BY <1>1, SnapType, ObjectHasRow DEF TypeInv
<1>3. snap' = ToldSnap(c, Processed(c), snap, row)
  BY DEF HasChanges, Revert, Refault, Notify
<1>4. Told(c, Processed(c)) = {}
  BY NobodyTold
<1>5. snap' = snap
  BY <1>2, <1>3, <1>4, ToldSnapFacts
<1>6. obj'[c] = obj[c] \/ obj'[c] = "fault"
  BY DEF HasChanges, Revert, Refault, Notify, ToldObj
<1>7. seen' = seen
  BY DEF HasChanges, Revert, Refault, history
<1> QED
  BY <1>5, <1>6, <1>7, QuietOwn DEF Single

LEMMA BeginSaveOwn ==
  ASSUME OwnInv, Single, TypeInv', NEW c \in Context, BeginSave(c)
  PROVE  SnapshotIsSeen'
<1> DEFINE kinds == Processed(c)
           fires == obj[c] = "fault"
           s == IF fires /\ "update" \in kinds THEN Loaded(snap, 1) ELSE snap
           told == ToldSnap(c, kinds, s, row)
<1>1. /\ row \in Row /\ snap \in Snapshot /\ kinds # {}
      /\ obj[c] \in {"fault", "object"}
  <2>1. obj[c] \in {"none", "fault", "object"} /\ kinds # {} /\ obj[c] # "none"
    BY BeginSaveFacts, ProcessedFacts DEF OwnInv, TypeInv, TypeOK, Reachable
  <2> QED
    BY <2>1, BeginSaveFacts, SnapType DEF OwnInv, TypeInv
<1>2. Loaded(snap, 1) \in Snapshot /\ Loaded(snap, 1).row = row
  BY <1>1, LoadedFacts DEF Snapshot
<1>3. told = s
  <2>1. Told(c, kinds) = {}
    BY NobodyTold
  <2>2. s \in Snapshot
    BY <1>1, <1>2
  <2> QED
    BY <1>1, <2>1, <2>2, ToldSnapFacts
<1>4. snap' = IF fires THEN Loaded(snap, 1) ELSE snap
  <2>1. snap' = (IF fires /\ ~("update" \in kinds) THEN Loaded(told, 1) ELSE told)
    BY DEF BeginSave
  <2> QED
    BY <1>3, <2>1
<1>5. seen' = IF fires THEN [seen EXCEPT ![c] = row] ELSE seen
  BY DEF BeginSave
<1>6. CASE fires
  <2>1. seen'[c] = row /\ snap'.row = row
    BY <1>2, <1>4, <1>5, <1>6 DEF OwnInv, TypeInv, TypeOK
  <2> QED
    BY <2>1 DEF SnapshotIsSeen, Live, Single
<1>7. CASE ~fires
  <2>1. snap' = snap /\ seen' = seen /\ obj[c] = "object"
    BY <1>1, <1>4, <1>5, <1>7
  <2> QED
    BY <2>1, QuietOwn DEF Single
<1> QED
  BY <1>6, <1>7

LEMMA StoreSaveOwn ==
  ASSUME OwnInv, Single, TypeInv', NEW c \in Context, StoreSave(c)
  PROVE  SnapshotIsSeen'
<1>1. TypeInv /\ saver = c /\ snap # None
  BY StoreSaveEnds DEF OwnInv
<1>2. CASE Raises(c)
  BY <1>2, QuietOwn DEF Raises, context
<1>3. CASE Commits(c) /\ "delete" \in tracked[c]
  BY <1>1, <1>3, CommitLeaves DEF SnapshotIsSeen, Live
<1>4. CASE Commits(c) /\ "delete" \notin tracked[c]
  <2>1. /\ Done(c).row \in Row
        /\ Committed(c) \in Snapshot /\ Committed(c).row = values[c]
    BY <1>1, <1>4, CommittedFacts
  <2>2. Told(c, tracked[c]) = {}
    BY NobodyTold
  <2>3. snap' = ToldSnap(c, tracked[c], Committed(c), Done(c).row)
    BY <1>4 DEF Commits, Notify
  <2>4. snap' = Committed(c)
    BY <2>1, <2>2, <2>3, ToldSnapFacts
  <2>5. seen'[c] = values[c]
    BY <1>1, <1>4, CommitLeaves
  <2> QED
    BY <2>1, <2>4, <2>5 DEF SnapshotIsSeen, Live, Single
<1> QED
  BY <1>2, <1>3, <1>4, StoreSaveEnds

LEMMA NextOwn ==
  ASSUME Single, OwnInv, [Next]_vars
  PROVE  OwnInv'
<1>1. TypeInv'
  BY NextType DEF OwnInv
<1>2. ASSUME NEW c \in Context, Fetch(c) \/ Fire(c)
      PROVE  SnapshotIsSeen'
  <2>1. PICK k \in Nat : Load(c, k)
    BY <1>2 DEF Fetch, Fire
  <2> QED
    BY <1>2, <2>1, LoadOwn DEF Fetch, Fire
<1>3. ASSUME NEW c \in Context, Invalidate(c) \/ Release(c)
      PROVE  SnapshotIsSeen'
  <2>1. obj'[c] # "object"
    BY <1>3, InvalidateFacts DEF Release, OwnInv, TypeInv, TypeOK
  <2> QED
    BY <2>1 DEF SnapshotIsSeen, Live, Single
<1>4. ASSUME \/ \E c \in Context : CreateFault(c) \/ StoreSaveUnknown(c)
             \/ \E c \in Context, a \in Attr : Edit(c, a)
             \/ \E a \in Attr : ClientWrites(a)
             \/ UNCHANGED vars
      PROVE  SnapshotIsSeen'
  <2>1. snap' = snap /\ seen' = seen
    BY <1>4 DEF CreateFault, StoreSaveUnknown, Edit, ClientWrites, vars, database, history
  <2>2. \A c \in Context : obj'[c] = "object" => obj[c] = "object"
    BY <1>4 DEF CreateFault, StoreSaveUnknown, Edit, ClientWrites, vars, context, OwnInv,
                TypeInv, TypeOK
  <2> QED
    BY <1>1, <2>1, <2>2, QuietOwn
<1>5. ASSUME NEW c \in Context, Delete(c)
      PROVE  SnapshotIsSeen'
  <2>1. CASE obj[c] = "fault"
    BY <1>5, <2>1, LoadOwn DEF Delete
  <2>2. CASE obj[c] # "fault"
    BY <1>1, <1>5, <2>2, QuietOwn DEF Delete
  <2> QED
    BY <2>1, <2>2
<1>6. ASSUME NEW c \in Context, \/ Refresh(c) \/ HasChanges(c) \/ Revert(c) \/ Refault(c)
                                 \/ BeginSave(c) \/ StoreSave(c)
      PROVE  SnapshotIsSeen'
  BY <1>1, <1>6, RefreshOwn, AnnounceOwn, BeginSaveOwn, StoreSaveOwn
<1> QED
  BY <1>1, <1>2, <1>3, <1>4, <1>5, <1>6 DEF Next, OwnInv

LEMMA OwnInvariant ==
  ASSUME Single
  PROVE  Spec => []OwnInv
<1>1. Init => OwnInv
  <2> SUFFICES ASSUME Init
               PROVE  OwnInv
    OBVIOUS
  <2>1. SnapshotIsSeen
    BY DEF Init, SnapshotIsSeen, Live
  <2> QED
    BY <2>1, InitType DEF OwnInv
<1> QED
  BY <1>1, NextOwn, PTL DEF Spec

(* The snapshot that a single context locks its updates against is the row *)
(* its object was loaded from.                                             *)
THEOREM OwnSnapshotIsSeen ==
  ASSUME Single
  PROVE  Spec => []SnapshotIsSeen
<1>1. OwnInv => SnapshotIsSeen
  BY DEF OwnInv
<1> QED
  BY <1>1, OwnInvariant, PTL

(* Optimistic locking works for a single context: its saves never          *)
(* overwrite what another program has written since it loaded the row.     *)
THEOREM NoWriteIsLost ==
  ASSUME Single
  PROVE  Spec => UpdatesBasedOnRow
<1>1. ASSUME OwnInv, [Next]_vars
      PROVE  [SaveEnds /\ row' # row => row = seen[saver]]_vars
  <2> SUFFICES ASSUME Next, SaveEnds, row' # row
               PROVE  row = seen[saver]
    BY <1>1
  <2>1. snap # None /\ row = snap.row /\ obj[saver] = "object" /\ saver \in Context
    BY <1>1, SaveChangesSnapshotRow DEF OwnInv
  <2> QED
    BY <1>1, <2>1 DEF OwnInv, SnapshotIsSeen, Live
<1> QED
  BY <1>1, OwnInvariant, PTL DEF Spec, UpdatesBasedOnRow

-----------------------------------------------------------------------------
(* Reference counts, as long as nothing is deleted and no unfired fault is *)
(* released.                                                               *)

NoDeletes == \A c \in Context : "delete" \notin queued[c] \cup tracked[c]

Refs(s) == IF s = None THEN 0 ELSE s.refs

LEMMA HeldCount ==
  ASSUME TypeOK
  PROVE  ObjectsHoldSnapshot <=> Cardinality(Live) <= Refs(snap)
<1>1. IsFiniteSet(Live) /\ Cardinality(Live) \in Nat
  BY FiniteContexts DEF Live
<1>2. Cardinality(Live) = 0 <=> Live = {}
  BY <1>1, FS_EmptySet
<1>3. snap # None => snap.refs \in Nat
  BY SnapType DEF Snapshot, Known
<1> QED
  BY <1>1, <1>2, <1>3 DEF ObjectsHoldSnapshot, Refs

LEMMA RefsOf ==
  ASSUME NEW s \in Snapshot
  PROVE  Refs(s) \in Nat
BY DEF Refs, Snapshot, Known

(* Counts that grow with the objects keep covering them.                   *)
LEMMA CountGrows ==
  ASSUME CountInv, TypeInv', NEW c \in Context,
         \/ Live' \subseteq Live /\ Refs(snap') >= Refs(snap)
         \/ Live' \subseteq Live \cup {c} /\ Refs(snap') >= Refs(snap) + 1
         \/ Live' = {}
  PROVE  ObjectsHoldSnapshot'
<1>1. /\ Cardinality(Live) \in Nat /\ Cardinality(Live') \in Nat
      /\ IsFiniteSet(Live) /\ IsFiniteSet(Live')
  <2>1. Live \in SUBSET Context /\ Live' \in SUBSET Context
    BY DEF Live
  <2> QED
    BY <2>1, FiniteContexts
<1>2. Refs(snap) \in Nat /\ Refs(snap') \in Nat
  <2>1. snap \in Snapshot /\ snap' \in Snapshot
    BY RowAssumption DEF RowAssumption, CountInv, TypeInv, TypeOK, Snapshot, Known
  <2> QED
    BY <2>1, RefsOf
<1>3. Cardinality(Live) <= Refs(snap)
  BY HeldCount DEF CountInv, TypeInv
<1>4. Live' \subseteq Live => Cardinality(Live') <= Cardinality(Live)
  BY <1>1, FS_Subset
<1>5. Live' \subseteq Live \cup {c} => Cardinality(Live') <= Cardinality(Live) + 1
  <2>1. IsFiniteSet(Live \cup {c}) /\ Cardinality(Live \cup {c}) <= Cardinality(Live) + 1
    <3>1. /\ IsFiniteSet(Live \cup {c})
          /\ Cardinality(Live \cup {c}) = IF c \in Live THEN Cardinality(Live) ELSE Cardinality(Live) + 1
      BY ONLY <1>1, FS_AddElement, Zenon
    <3> QED
      BY <1>1, <3>1
  <2>2. Cardinality(Live \cup {c}) \in Nat
    BY <2>1, FS_CardinalityType
  <2>3. Live' \subseteq Live \cup {c} => Cardinality(Live') <= Cardinality(Live \cup {c})
    BY <2>1, FS_Subset
  <2> QED
    BY <1>1, <2>1, <2>2, <2>3
<1>6. Live' = {} => Cardinality(Live') = 0
  BY FS_EmptySet
<1>7. Cardinality(Live') <= Refs(snap')
  BY <1>1, <1>2, <1>3, <1>4, <1>5, <1>6
<1>8. snap' # None => snap'.refs \in Nat
  BY RowAssumption DEF RowAssumption, TypeInv, TypeOK
<1>9. Cardinality(Live') = 0 <=> Live' = {}
  BY <1>1, FS_EmptySet
<1> QED
  BY <1>1, <1>7, <1>8, <1>9 DEF ObjectsHoldSnapshot, Refs

LEMMA LoadCounts ==
  ASSUME CountInv, TypeInv', row # None, NEW c \in Context, NEW k \in Nat \ {0}, Load(c, k)
  PROVE  ObjectsHoldSnapshot'
<1>1. snap \in Snapshot /\ row \in Row
  BY SnapType DEF CountInv, TypeInv, TypeOK
<1>2. Refs(snap') = k + Refs(snap) /\ Refs(snap) \in Nat
  BY <1>1, LoadedFacts, RefsOf DEF Load, Refs
<1>3. Live' \subseteq Live \cup {c}
  BY DEF Live, Load, CountInv, TypeInv, TypeOK
<1> QED
  BY <1>2, <1>3, CountGrows

LEMMA ToldCounts ==
  ASSUME NEW c \in Context, NEW kinds, "delete" \notin kinds,
         NEW s \in Snapshot, NEW r \in Row
  PROVE  Refs(ToldSnap(c, kinds, s, r)) >= Refs(s)
<1>1. ToldSnap(c, kinds, s, r) \in Snapshot
  BY ToldSnapFacts
<1>2. s # None => /\ ToldSnap(c, kinds, s, r) # None
                  /\ ToldSnap(c, kinds, s, r).refs >= s.refs
  BY ToldSnapFacts
<1> QED
  BY <1>1, <1>2, RefsOf DEF Refs

(* Telling the others takes no reference, and no object appears.           *)
LEMMA NotifyCounts ==
  ASSUME CountInv, TypeInv', NEW c \in Context, NEW kinds, "delete" \notin kinds,
         NEW mine \in ObjKinds, NEW q \in SUBSET Kinds, NEW t \in SUBSET Kinds,
         NEW s \in Snapshot, NEW r \in Row,
         Notify(c, kinds, mine, q, t, s, r),
         Refs(s) >= Refs(snap), mine = "object" => obj[c] = "object",
         "delete" \notin q, "delete" \notin t
  PROVE  NoDeletes' /\ ObjectsHoldSnapshot'
<1>1. TypeInv /\ TypeOK
  BY DEF CountInv, TypeInv
<1>2. obj'[c] = mine /\ queued'[c] = q /\ tracked'[c] = t /\ OthersTold(c, kinds)
  BY <1>1, NotifyTypes
<1>3. snap' = ToldSnap(c, kinds, s, r)
  BY DEF Notify
<1>4. Refs(snap') >= Refs(snap)
  <2>1. snap \in Snapshot /\ snap' \in Snapshot
    BY <1>1, <1>3, SnapType, ToldSnapFacts
  <2>2. Refs(snap') >= Refs(s)
    BY <1>3, ToldCounts
  <2> QED
    BY <2>1, <2>2, RefsOf
<1>5. Live' \subseteq Live
  <2>1. \A d \in Context \ {c} : obj'[d] = "object" => obj[d] = "object"
    BY <1>1, <1>2, OthersReachable
  <2> QED
    BY <1>2, <2>1 DEF Live
<1>6. NoDeletes'
  BY <1>2 DEF NoDeletes, OthersTold, CountInv
<1> QED
  BY <1>4, <1>5, <1>6, CountGrows

LEMMA AnnounceCounts ==
  ASSUME CountInv, TypeInv', NEW c \in Context,
         Refresh(c) \/ HasChanges(c) \/ Revert(c) \/ Refault(c)
  PROVE  NoDeletes' /\ ObjectsHoldSnapshot'
<1>1. TypeInv /\ TypeOK /\ obj[c] # "none"
  BY DEF CountInv, TypeInv, Reachable, Refresh, HasChanges, Revert, Refault
<1>2. row \in Row /\ snap \in Snapshot /\ {} \in SUBSET Kinds
  BY <1>1, SnapType, ObjectHasRow
<1>3. /\ Processed(c) \in SUBSET Kinds /\ tracked[c] \in SUBSET Kinds /\ queued[c] \in SUBSET Kinds
      /\ obj[c] \in ObjKinds
      /\ "delete" \notin Processed(c) /\ "delete" \notin queued[c] \cup tracked[c]
  <2>1. Processed(c) \subseteq queued[c] \cup tracked[c] /\ Processed(c) \in SUBSET Kinds
    BY <1>1, ProcessedFacts
  <2> QED
    BY <1>1, <2>1 DEF TypeOK, ObjKinds, CountInv
<1>4. Recorded(snap, row) \in Snapshot /\ Refs(Recorded(snap, row)) = Refs(snap)
  BY <1>2, RecordedFacts DEF Snapshot, Refs
<1>5. Refs(snap) \in Nat
  BY <1>2, RefsOf
<1>6. CASE Refresh(c)
  <2>1. Notify(c, {"update"}, "object", queued[c], tracked[c], Recorded(snap, row), row)
        /\ obj[c] = "object" /\ "delete" \notin {"update"} /\ "object" \in ObjKinds
    BY <1>6 DEF Refresh, Kinds, ObjKinds
  <2>2. Refs(Recorded(snap, row)) >= Refs(snap) /\ "delete" \notin queued[c] /\ "delete" \notin tracked[c]
    BY <1>3, <1>4, <1>5
  <2> QED
    BY <1>2, <1>3, <1>4, <2>1, <2>2, NotifyCounts
<1>7. ASSUME NEW mine \in ObjKinds, NEW t \in SUBSET Kinds,
             Notify(c, Processed(c), mine, {}, t, snap, row),
             mine = "object" => obj[c] = "object", "delete" \notin t
      PROVE  NoDeletes' /\ ObjectsHoldSnapshot'
  <2>1. Refs(snap) >= Refs(snap) /\ "delete" \notin {}
    BY <1>5
  <2> QED
    BY <1>2, <1>3, <1>7, <2>1, NotifyCounts
<1>8. CASE HasChanges(c)
  BY <1>2, <1>3, <1>7, <1>8 DEF HasChanges
<1>9. CASE Revert(c)
  BY <1>2, <1>3, <1>7, <1>9 DEF Revert
<1>10. CASE Refault(c)
  <2>1. Notify(c, Processed(c), "fault", {}, Processed(c), snap, row) /\ "fault" \in ObjKinds
    BY <1>10 DEF Refault, ObjKinds
  <2> QED
    BY <1>3, <1>7, <2>1
<1> QED
  BY <1>6, <1>8, <1>9, <1>10

LEMMA BeginSaveCounts ==
  ASSUME CountInv, TypeInv', NEW c \in Context, BeginSave(c)
  PROVE  NoDeletes' /\ ObjectsHoldSnapshot'
<1> DEFINE kinds == Processed(c)
           fires == obj[c] = "fault"
           s == IF fires THEN Loaded(snap, 1) ELSE snap
<1>1. /\ row \in Row /\ kinds # {} /\ snap \in Snapshot
      /\ kinds \subseteq queued[c] \cup tracked[c] /\ kinds \in SUBSET {"update", "delete"}
      /\ OthersTold(c, kinds) /\ queued'[c] = {} /\ tracked'[c] = kinds
      /\ obj[c] \in {"fault", "object"}
  <2>1. obj[c] \in {"none", "fault", "object"} /\ kinds # {} /\ obj[c] # "none"
    BY BeginSaveFacts, ProcessedFacts DEF CountInv, TypeInv, TypeOK, Reachable
  <2>2. kinds \subseteq queued[c] \cup tracked[c] /\ kinds \in SUBSET {"update", "delete"}
    BY ProcessedFacts DEF CountInv, TypeInv, Kinds
  <2> QED
    BY <2>1, <2>2, BeginSaveFacts, SnapType DEF CountInv, TypeInv
<1>2. "delete" \notin kinds /\ "update" \in kinds
  BY <1>1 DEF CountInv
<1>3. snap' = ToldSnap(c, kinds, s, row)
  BY <1>2 DEF BeginSave
<1>4. s \in Snapshot /\ Refs(s) = IF fires THEN Refs(snap) + 1 ELSE Refs(snap)
  <2>1. /\ Loaded(snap, 1) \in Known /\ Loaded(snap, 1) # None
        /\ Loaded(snap, 1).refs = 1 + (IF snap = None THEN 0 ELSE snap.refs)
    BY <1>1, LoadedFacts
  <2>2. Refs(snap) \in Nat
    BY <1>1, RefsOf
  <2> QED
    BY <1>1, <2>1, <2>2 DEF Snapshot, Refs
<1>5. Refs(snap') >= Refs(s) /\ Refs(s) \in Nat /\ Refs(snap') \in Nat
  <2> HIDE DEF s, kinds
  <2>1. ToldSnap(c, kinds, s, row) \in Snapshot
    BY <1>1, <1>4, ToldSnapFacts
  <2> QED
    BY <1>1, <1>2, <1>3, <1>4, <2>1, ToldCounts, RefsOf
<1>6. Live' \subseteq Live \cup {c} /\ (~fires => Live' \subseteq Live)
  <2>1. \A d \in Context \ {c} : obj'[d] = "object" => obj[d] = "object"
    BY <1>1, OthersReachable DEF CountInv
  <2> QED
    BY <1>1, <2>1 DEF Live
<1>7. NoDeletes'
  BY <1>1, <1>2 DEF NoDeletes, OthersTold, CountInv
<1> QED
  BY <1>4, <1>5, <1>6, <1>7, CountGrows

LEMMA StoreSaveCounts ==
  ASSUME CountInv, TypeInv', NEW c \in Context, StoreSave(c)
  PROVE  NoDeletes' /\ ObjectsHoldSnapshot'
<1>1. TypeInv /\ TypeOK /\ saver = c /\ snap # None
  BY StoreSaveEnds DEF CountInv, TypeInv
<1>2. CASE Raises(c)
  BY <1>2 DEF Raises, context, CountInv, NoDeletes, ObjectsHoldSnapshot, Live
<1>3. CASE Commits(c)
  <2>1. "delete" \notin tracked[c] /\ obj[c] = "object"
    BY <1>1, CommittedFacts DEF CountInv
  <2>2. /\ Done(c).row \in Row
        /\ Committed(c) \in Snapshot /\ Committed(c) # None
        /\ Committed(c).refs = snap.refs
    BY <1>1, <2>1, CommittedFacts
  <2>3. Refs(Committed(c)) >= Refs(snap)
    <3>1. Refs(Committed(c)) = Refs(snap) /\ Refs(snap) \in Nat
      BY <1>1, <2>2, SnapType, RefsOf DEF Refs
    <3> QED
      BY <3>1
  <2>4. Notify(c, tracked[c], "object", {}, {}, Committed(c), Done(c).row)
    BY <1>3, <2>1 DEF Commits
  <2>5. "object" \in ObjKinds /\ {} \in SUBSET Kinds /\ "delete" \notin {}
    BY DEF ObjKinds
  <2> QED
    BY <2>1, <2>2, <2>3, <2>4, <2>5, NotifyCounts
<1> QED
  BY <1>2, <1>3, StoreSaveEnds

LEMMA ReleaseCounts ==
  ASSUME CountInv, TypeInv', NEW c \in Context, Release(c), "releaseFault" \notin Uses
  PROVE  ObjectsHoldSnapshot'
<1>1. TypeOK /\ snap \in Snapshot /\ obj[c] = "object" /\ c \in Live
  BY SnapType DEF CountInv, TypeInv, Release, Live
<1>2. Live' = Live \ {c}
  BY <1>1 DEF Live, Release, TypeOK
<1>3. IsFiniteSet(Live) /\ Cardinality(Live) \in Nat
  BY FiniteContexts DEF Live
<1>4. Cardinality(Live') = Cardinality(Live) - 1 /\ Cardinality(Live') \in Nat
  <2>1. Cardinality(Live \ {c}) = Cardinality(Live) - 1
    BY <1>1, <1>3, FS_RemoveElement
  <2>2. Live' \in SUBSET Context
    BY DEF Live
  <2> QED
    BY <1>2, <2>1, <2>2, FiniteContexts
<1>5. Cardinality(Live) <= Refs(snap) /\ Refs(snap) \in Nat
  BY <1>1, HeldCount, RefsOf DEF CountInv
<1>6. Refs(snap') >= Refs(snap) - 1
  <2>1. snap' = Released(snap, 1)
    BY DEF Release
  <2>2. CASE snap = None
    BY <1>5, <2>1, <2>2 DEF Released
  <2>3. CASE snap # None
    <3>1. snap \in Known /\ Refs(snap) = snap.refs
      BY <1>1, <2>3 DEF Snapshot, Refs
    <3>2. snap.refs \in Nat
      BY <1>5, <3>1
    <3>3. snap' = None => snap.refs <= 1
      <4>1. snap.refs > 1 => snap' = [snap EXCEPT !.refs = @ - 1]
        BY <2>1, <2>3, <3>2 DEF Released
      <4>2. snap.refs > 1 => [snap EXCEPT !.refs = @ - 1] \in Known
        BY <3>1 DEF Known
      <4> QED
        BY <3>2, <4>1, <4>2, RowAssumption DEF RowAssumption, Known
    <3>4. snap' # None => snap'.refs = snap.refs - 1
      BY <1>1, <2>1, ReleasedFacts
    <3> QED
      BY <3>1, <3>2, <3>3, <3>4 DEF Refs
  <2> QED
    BY <2>2, <2>3
<1>7. Refs(snap') \in Nat
  <2>1. snap' \in Snapshot
    BY <1>1, ReleasedFacts DEF Release
  <2> QED
    BY <2>1, RefsOf
<1>8. Cardinality(Live') <= Refs(snap')
  BY <1>3, <1>4, <1>5, <1>6, <1>7
<1>9. Cardinality(Live') = 0 => Live' = {}
  <2>1. IsFiniteSet(Live')
    BY <1>2, <1>3, FS_RemoveElement
  <2> QED
    BY <2>1, FS_EmptySet
<1>10. Refs(snap') = IF snap' = None THEN 0 ELSE snap'.refs
  BY DEF Refs
<1>11. Live' # {} => snap' # None /\ Cardinality(Live') <= snap'.refs
  <2>1. Live' # {} => Cardinality(Live') > 0
    <3>1. Live' # {} => Cardinality(Live') # 0
      BY <1>9, Zenon
    <3> DEFINE n == Cardinality(Live')
    <3>2. n \in Nat
      BY <1>4
    <3> HIDE DEF n
    <3>3. n # 0 => n > 0
      BY <3>2
    <3> QED
      BY <3>1, <3>3, Zenon DEF n
  <2>2. Live' # {} => Refs(snap') > 0
    BY <1>4, <1>7, <1>8, <2>1
  <2>3. Live' # {} => snap' # None
    BY <1>10, <2>2
  <2> QED
    BY <1>8, <1>10, <2>3
<1> QED
  BY <1>11 DEF ObjectsHoldSnapshot

LEMMA NextCounts ==
  ASSUME Uses \cap {"delete", "releaseFault"} = {}, CountInv, [Next]_vars
  PROVE  CountInv'
<1>1. TypeInv'
  BY NextType DEF CountInv
<1>2. ASSUME NEW c \in Context, Fetch(c) \/ Fire(c)
      PROVE  NoDeletes' /\ ObjectsHoldSnapshot'
  <2>1. PICK k \in Nat \ {0} : Load(c, k)
    BY <1>2 DEF Fetch, Fire
  <2>2. NoDeletes'
    BY <1>2 DEF Fetch, Fire, NoDeletes, CountInv
  <2> QED
    BY <1>1, <1>2, <2>1, <2>2, LoadCounts DEF Fetch, Fire
<1>3. ASSUME NEW c \in Context, Invalidate(c)
      PROVE  NoDeletes' /\ ObjectsHoldSnapshot'
  <2>1. /\ \A d \in Context : obj'[d] # "object"
        /\ \A d \in Context : queued'[d] \cup tracked'[d] # {} =>
             queued'[d] \subseteq queued[d] /\ tracked'[d] \subseteq tracked[d]
    BY <1>3, InvalidateFacts DEF CountInv
  <2>2. NoDeletes'
    BY <2>1 DEF NoDeletes, CountInv
  <2> QED
    BY <2>1, <2>2 DEF ObjectsHoldSnapshot, Live
<1>4. ASSUME NEW c \in Context, Release(c)
      PROVE  NoDeletes' /\ ObjectsHoldSnapshot'
  <2>1. NoDeletes'
    BY <1>4 DEF Release, NoDeletes, CountInv
  <2> QED
    BY <1>1, <1>4, <2>1, ReleaseCounts
<1>5. ASSUME NEW c \in Context, CreateFault(c) \/ StoreSaveUnknown(c) \/ \E a \in Attr : Edit(c, a)
      PROVE  NoDeletes' /\ ObjectsHoldSnapshot'
  <2>1. snap' = snap
    BY <1>5 DEF CreateFault, StoreSaveUnknown, Edit, database
  <2>2. Live' = Live
    BY <1>5 DEF CreateFault, StoreSaveUnknown, Edit, Live, CountInv, TypeInv, TypeOK
  <2>3. NoDeletes'
    <3>1. queued' = queued \/ queued' = [queued EXCEPT ![c] = @ \cup {"update"}]
      BY <1>5 DEF CreateFault, StoreSaveUnknown, Edit
    <3>2. tracked' = tracked \/ tracked' = [tracked EXCEPT ![c] = {}]
      BY <1>5 DEF CreateFault, StoreSaveUnknown, Edit
    <3>3. NoDeletes /\ TypeOK
      BY DEF NoDeletes, CountInv, TypeInv
    <3> QED
      BY <3>1, <3>2, <3>3 DEF NoDeletes, TypeOK
  <2> QED
    BY <2>1, <2>2, <2>3 DEF CountInv, ObjectsHoldSnapshot
<1>6. ASSUME (\E a \in Attr : ClientWrites(a)) \/ UNCHANGED vars
      PROVE  NoDeletes' /\ ObjectsHoldSnapshot'
  BY <1>6 DEF ClientWrites, vars, database, context, NoDeletes, CountInv, ObjectsHoldSnapshot, Live
<1>7. ASSUME NEW c \in Context, \/ Refresh(c) \/ HasChanges(c) \/ Revert(c) \/ Refault(c)
                                 \/ BeginSave(c) \/ StoreSave(c)
      PROVE  NoDeletes' /\ ObjectsHoldSnapshot'
  BY <1>1, <1>7, AnnounceCounts, BeginSaveCounts, StoreSaveCounts
<1>8. ~ \E c \in Context : Delete(c)
  BY DEF Delete
<1> QED
  BY <1>1, <1>2, <1>3, <1>4, <1>5, <1>6, <1>7, <1>8 DEF Next, CountInv, NoDeletes

LEMMA CountInvariant ==
  ASSUME Uses \cap {"delete", "releaseFault"} = {}
  PROVE  Spec => []CountInv
<1>1. Init => CountInv
  <2> SUFFICES ASSUME Init
               PROVE  CountInv
    OBVIOUS
  <2>1. ObjectsHoldSnapshot /\ NoDeletes
    BY DEF Init, ObjectsHoldSnapshot, Live, NoDeletes
  <2> QED
    BY <2>1, InitType DEF CountInv, NoDeletes
<1> QED
  BY <1>1, NextCounts, PTL DEF Spec

(* The snapshot stays as long as an object needs it for its next update:   *)
(* counting a fault twice and never giving back what refaulting held makes *)
(* it stay too long, never too short, while no context deletes and no      *)
(* unfired fault is released.                                              *)
THEOREM SnapshotOutlivesObjects ==
  ASSUME Uses \cap {"delete", "releaseFault"} = {}
  PROVE  Spec => []ObjectsHoldSnapshot
<1>1. CountInv => ObjectsHoldSnapshot
  BY DEF CountInv
<1> QED
  BY <1>1, CountInvariant, PTL

-----------------------------------------------------------------------------
(* A single context saves what its application has changed.                *)

LEMMA OverlaidNothing ==
  ASSUME NEW r \in Row
  PROVE  Overlaid(r, NoEdits) = r
BY DEF Overlaid, NoEdits, Row

LEMMA NoEditsAt ==
  ASSUME NEW a \in Attr
  PROVE  NoEdits[a] = None
BY DEF NoEdits

LEMMA SingleNotify ==
  ASSUME TypeInv, Single, NEW c \in Context, NEW kinds, NEW mine \in ObjKinds,
         NEW q \in SUBSET Kinds, NEW t \in SUBSET Kinds, NEW s \in Snapshot, row \in Row,
         Notify(c, kinds, mine, q, t, s, row)
  PROVE  obj'[c] = mine /\ queued'[c] = q /\ tracked'[c] = t /\ snap' = s
<1>1. obj'[c] = mine /\ queued'[c] = q /\ tracked'[c] = t
  BY NotifyTypes DEF TypeInv
<1>2. Told(c, kinds) = {}
  BY NobodyTold
<1>3. snap' = ToldSnap(c, kinds, s, row)
  BY DEF Notify
<1> QED
  BY <1>1, <1>2, <1>3, ToldSnapFacts

LEMMA ProcessedKinds ==
  ASSUME TypeInv, NEW c \in Context
  PROVE  LET kinds == queued[c] \cup tracked[c]
         IN /\ "delete" \in Processed(c) <=> "delete" \in kinds
            /\ "delete" \notin kinds /\ "update" \in kinds => "update" \in Processed(c)
BY DEF Processed

LEMMA KeptTypes ==
  ASSUME KeptInv, NEW c \in Context
  PROVE  /\ TypeInv /\ KeptAt(c) /\ Clocked
         /\ values[c] \in Row /\ seen[c] \in Row /\ edits[c] \in [Attr -> Value \cup {None}]
         /\ erase[c] \in BOOLEAN /\ clock \in Nat /\ saver \in Context \cup {None} /\ c # None
         /\ obj[c] \in ObjKinds /\ queued[c] \in SUBSET Kinds /\ tracked[c] \in SUBSET Kinds
         /\ obj[c] # "none" => row \in Row
         /\ snap \in Snapshot
         /\ obj[c] # "object" => edits[c] = NoEdits
<1>1. TypeInv /\ KeptAt(c) /\ Clocked
  BY DEF KeptInv, OwnInv
<1>2. /\ values[c] \in Row /\ seen[c] \in Row /\ edits[c] \in [Attr -> Value \cup {None}]
      /\ erase[c] \in BOOLEAN /\ saver \in Context \cup {None}
      /\ obj[c] \in ObjKinds /\ queued[c] \in SUBSET Kinds /\ tracked[c] \in SUBSET Kinds
  BY <1>1 DEF TypeInv, TypeOK, ObjKinds
<1>3. clock \in Nat /\ c # None
  BY <1>1, RowAssumption DEF TypeInv, TypeOK, Value, RowAssumption
<1>4. snap \in Snapshot /\ (obj[c] # "none" => row \in Row)
  BY <1>1, SnapType, ObjectHasRow DEF TypeInv
<1>5. obj[c] # "object" => edits[c] = NoEdits
  BY <1>1 DEF KeptAt
<1> QED
  BY <1>1, <1>2, <1>3, <1>4, <1>5

(* A step that leaves the object with what it has loaded.                  *)
LEMMA LoadedKept ==
  ASSUME NEW c \in Context, snap' # None, saver' = None \/ queued'[c] = {},
         seen'[c] \in Row, values'[c] = seen'[c], edits'[c] = NoEdits,
         erase'[c] <=> "delete" \in queued'[c] \cup tracked'[c],
         c # None
  PROVE  KeptAt(c)'
BY OverlaidNothing, NoEditsAt DEF KeptAt

LEMMA LoadsKept ==
  ASSUME KeptInv, row # None, NEW c \in Context, NEW k \in Nat, Load(c, k)
  PROVE  /\ values'[c] = row /\ seen'[c] = row /\ row \in Row
         /\ snap' # None /\ obj'[c] = "object"
<1>1. row \in Row /\ TypeOK
  BY KeptTypes DEF TypeInv, TypeOK
<1>2. snap' = Loaded(snap, k)
  BY DEF Load
<1> QED
  BY <1>1, <1>2, KeptTypes, LoadedFacts DEF Load, TypeOK

LEMMA FetchKept ==
  ASSUME KeptInv, Single, NEW c \in Context, Fetch(c) \/ Fire(c)
  PROVE  KeptAt(c)'
<1>1. PICK k \in Nat : Load(c, k)
  BY DEF Fetch, Fire
<1>2. values'[c] = row /\ seen'[c] = row /\ row \in Row /\ snap' # None
  BY <1>1, LoadsKept DEF Fetch, Fire
<1>3. edits'[c] = NoEdits /\ erase' = erase /\ queued' = queued /\ tracked' = tracked /\ saver' = None
  BY KeptTypes DEF Fetch, Fire
<1>4. erase[c] <=> "delete" \in queued[c] \cup tracked[c]
  BY KeptTypes DEF KeptAt
<1> QED
  BY <1>2, <1>3, <1>4, KeptTypes, LoadedKept

LEMMA RefreshKept ==
  ASSUME KeptInv, Single, NEW c \in Context, Refresh(c)
  PROVE  KeptAt(c)'
<1>1. row \in Row /\ TypeInv /\ TypeOK
  BY KeptTypes DEF Refresh, TypeInv
<1>2. Recorded(snap, row) \in Snapshot /\ Recorded(snap, row) # None
  BY <1>1, KeptTypes, RecordedFacts DEF Snapshot
<1>3. Notify(c, {"update"}, "object", queued[c], tracked[c], Recorded(snap, row), row)
  BY DEF Refresh
<1>4. queued'[c] = queued[c] /\ tracked'[c] = tracked[c] /\ snap' = Recorded(snap, row)
  <2>1. "object" \in ObjKinds /\ queued[c] \in SUBSET Kinds /\ tracked[c] \in SUBSET Kinds
    BY KeptTypes DEF ObjKinds
  <2> QED
    BY <1>1, <1>2, <1>3, <2>1, SingleNotify
<1>5. /\ values'[c] = row /\ seen'[c] = row /\ edits'[c] = NoEdits /\ erase' = erase
      /\ saver' = None
  BY <1>1 DEF Refresh, TypeOK
<1>6. erase[c] <=> "delete" \in queued[c] \cup tracked[c]
  BY KeptTypes DEF KeptAt
<1> QED
  BY <1>1, <1>2, <1>4, <1>5, <1>6, KeptTypes, LoadedKept

(* A new value is one that the row has never had.                          *)
LEMMA EditKept ==
  ASSUME KeptInv, NEW c \in Context, NEW a \in Attr, Edit(c, a)
  PROVE  KeptAt(c)' /\ Clocked'
<1>1. TypeOK
  BY KeptTypes DEF TypeInv
<1>2. /\ values' = [values EXCEPT ![c] = [values[c] EXCEPT ![a] = clock + 1]]
      /\ edits' = [edits EXCEPT ![c] = [edits[c] EXCEPT ![a] = clock + 1]]
      /\ queued' = [queued EXCEPT ![c] = queued[c] \cup {"update"}]
      /\ UNCHANGED <<row, snap, obj, tracked, saver, erase, seen>>
      /\ clock' = clock + 1 /\ saver = None /\ obj[c] = "object" /\ ~erase[c]
      /\ "delete" \notin queued[c] \cup tracked[c]
  BY DEF Edit, database
<1>3. /\ values'[c] = [values[c] EXCEPT ![a] = clock + 1]
      /\ edits'[c] = [edits[c] EXCEPT ![a] = clock + 1]
      /\ queued'[c] = queued[c] \cup {"update"}
      /\ \A d \in Context \ {c} : values'[d] = values[d]
  BY <1>1, <1>2 DEF TypeOK
<1>4. clock + 1 # None
  BY <1>2, RowAssumption, KeptTypes DEF RowAssumption, Value, Edit
<1>5. values'[c] = Overlaid(seen[c], edits'[c])
  <2>1. values[c] = Overlaid(seen[c], edits[c])
    BY <1>2, KeptTypes DEF KeptAt
  <2> QED
    BY <1>3, <1>4, <2>1, KeptTypes DEF Overlaid, Row
<1>6. \A b \in Attr : edits'[c][b] # None => edits'[c][b] # seen[c][b]
  <2> SUFFICES ASSUME NEW b \in Attr, edits'[c][b] # None
               PROVE  edits'[c][b] # seen[c][b]
    OBVIOUS
  <2>1. CASE b = a
    <3>1. edits'[c][b] = clock + 1
      BY <1>3, <2>1, KeptTypes
    <3>2. seen[c][b] <= clock /\ seen[c][b] \in Nat
      BY KeptTypes DEF Clocked, Row, Value
    <3> QED
      BY <3>1, <3>2, KeptTypes
  <2>2. CASE b # a
    BY <1>3, <2>2, KeptTypes DEF KeptAt
  <2> QED
    BY <2>1, <2>2
<1>7. KeptAt(c)'
  <2>1. snap # None /\ c # None
    BY <1>2, KeptTypes DEF KeptAt
  <2> QED
    BY <1>2, <1>3, <1>5, <1>6, <2>1 DEF KeptAt
<1>8. Clocked'
  <2> SUFFICES ASSUME NEW b \in Attr
               PROVE  /\ row # None => row[b] <= clock + 1
                      /\ \A d \in Context : values'[d][b] <= clock + 1 /\ seen[d][b] <= clock + 1
    BY <1>2 DEF Clocked
  <2>1. row # None => row[b] \in Nat /\ row[b] <= clock
    BY <1>1, KeptTypes DEF Clocked, TypeOK, Row, Value
  <2>2. \A d \in Context : /\ values[d][b] \in Nat /\ values[d][b] <= clock
                           /\ seen[d][b] \in Nat /\ seen[d][b] <= clock
    BY <1>1, KeptTypes DEF Clocked, TypeOK, Row, Value
  <2>3. values'[c][b] = values[c][b] \/ values'[c][b] = clock + 1
    BY <1>3, KeptTypes DEF Row
  <2>4. \A d \in Context : values'[d][b] = values[d][b] \/ values'[d][b] = clock + 1
    BY <1>3, <2>3
  <2>5. clock \in Nat
    BY KeptTypes
  <2>6. \A v \in Nat : v <= clock => v <= clock + 1
    BY <2>5
  <2> QED
    BY <2>1, <2>2, <2>4, <2>5, <2>6
<1> QED
  BY <1>7, <1>8

(* A step that leaves no object with values.                               *)
LEMMA GoneKept ==
  ASSUME NEW c \in Context, obj'[c] # "object", saver' # c, edits'[c] = NoEdits,
         erase'[c] <=> "delete" \in queued'[c] \cup tracked'[c]
  PROVE  KeptAt(c)'
BY NoEditsAt DEF KeptAt

(* A step that leaves the object and its trackers as they are, or          *)
(* processes them.                                                         *)
LEMMA SameKept ==
  ASSUME KeptInv, NEW c \in Context,
         obj'[c] = obj[c], snap' = snap, values'[c] = values[c], seen'[c] = seen[c],
         edits' = edits, erase' = erase,
         \/ queued'[c] = queued[c] /\ tracked'[c] = tracked[c] /\ saver' = None
         \/ queued'[c] = {} /\ tracked'[c] = Processed(c)
  PROVE  KeptAt(c)'
<1>1. KeptAt(c) /\ TypeInv /\ c # None
  BY KeptTypes
<1>2. LET was == queued[c] \cup tracked[c]
          is == queued'[c] \cup tracked'[c]
      IN /\ "delete" \in is <=> "delete" \in was
         /\ "delete" \notin was /\ "update" \in was => "update" \in is
  BY <1>1, ProcessedKinds
<1> QED
  BY <1>1, <1>2 DEF KeptAt

LEMMA AnnounceKept ==
  ASSUME KeptInv, Single, NEW c \in Context, HasChanges(c) \/ Refault(c)
  PROVE  KeptAt(c)'
<1>1. TypeInv /\ obj[c] # "none" /\ saver' = None /\ c # None
  BY KeptTypes DEF TypeInv, Reachable, HasChanges, Refault
<1>2. /\ row \in Row /\ snap \in Snapshot /\ {} \in SUBSET Kinds /\ Processed(c) \in SUBSET Kinds
      /\ obj[c] \in ObjKinds /\ "fault" \in ObjKinds
  BY <1>1, KeptTypes, ProcessedFacts DEF TypeInv, ObjKinds
<1>3. CASE HasChanges(c)
  <2>1. Notify(c, Processed(c), obj[c], {}, Processed(c), snap, row)
    BY <1>3 DEF HasChanges
  <2>2. obj'[c] = obj[c] /\ queued'[c] = {} /\ tracked'[c] = Processed(c) /\ snap' = snap
    BY <1>1, <1>2, <2>1, SingleNotify
  <2> QED
    BY <1>3, <2>2, SameKept DEF HasChanges, history
<1>4. CASE Refault(c)
  <2>1. Notify(c, Processed(c), "fault", {}, Processed(c), snap, row)
    BY <1>4 DEF Refault
  <2>2. obj'[c] = "fault" /\ queued'[c] = {} /\ tracked'[c] = Processed(c)
    BY <1>1, <1>2, <2>1, SingleNotify
  <2>3. erase[c] <=> "delete" \in queued'[c] \cup tracked'[c]
    BY <1>1, <2>2, ProcessedKinds, KeptTypes DEF KeptAt
  <2>4. edits'[c] = NoEdits /\ erase' = erase
    BY <1>1, <1>4 DEF Refault, TypeInv, TypeOK
  <2> QED
    BY <1>1, <2>2, <2>3, <2>4, GoneKept
<1> QED
  BY <1>3, <1>4

LEMMA DropKept ==
  ASSUME KeptInv, NEW c \in Context, CreateFault(c) \/ Release(c) \/ Invalidate(c)
  PROVE  KeptAt(c)'
<1>1. TypeInv /\ TypeOK /\ KeptAt(c) /\ c # None /\ saver' = None
  BY KeptTypes DEF TypeInv, CreateFault, Release, Invalidate
<1>2. CASE CreateFault(c)
  <2>1. obj'[c] = "fault" /\ edits'[c] = NoEdits
    BY <1>1, <1>2, KeptTypes DEF CreateFault, history, TypeOK
  <2> QED
    BY <1>1, <1>2, <2>1, GoneKept DEF CreateFault, history, KeptAt
<1>3. CASE Release(c)
  <2>1. obj'[c] = "none" /\ edits'[c] = NoEdits
    BY <1>1, <1>3 DEF Release, history, TypeOK, KeptAt
  <2> QED
    BY <1>1, <1>3, <2>1, GoneKept DEF Release, history, KeptAt
<1>4. CASE Invalidate(c)
  <2>1. obj'[c] = "fault" /\ queued'[c] = {} /\ tracked'[c] = {}
    BY <1>4 DEF Invalidate, ToldObj, ToldChanges
  <2>2. edits'[c] = NoEdits /\ erase'[c] = FALSE
    BY <1>1, <1>4 DEF Invalidate, GiveUp, TypeOK
  <2> QED
    BY <1>1, <2>1, <2>2, GoneKept
<1> QED
  BY <1>2, <1>3, <1>4

LEMMA DeleteKept ==
  ASSUME KeptInv, NEW c \in Context, Delete(c)
  PROVE  KeptAt(c)'
<1>1. /\ TypeOK /\ KeptAt(c) /\ c # None /\ saver' = None /\ obj[c] \in ObjKinds
      /\ obj[c] # "none"
  BY KeptTypes DEF TypeInv, Delete
<1>2. /\ edits'[c] = NoEdits /\ erase'[c] = TRUE /\ tracked' = tracked
      /\ "delete" \in queued'[c]
  BY <1>1 DEF Delete, TypeOK
<1>3. CASE obj[c] = "fault"
  <2>1. Load(c, 1) /\ row # None
    BY <1>3 DEF Delete
  <2>2. values'[c] = row /\ seen'[c] = row /\ row \in Row /\ snap' # None
    BY <2>1, LoadsKept
  <2> QED
    BY <1>1, <1>2, <2>2, LoadedKept
<1>4. CASE obj[c] = "object"
  <2>1. snap' = snap /\ obj' = obj /\ snap # None
    BY <1>1, <1>4 DEF Delete, KeptAt
  <2> QED
    BY <1>1, <1>2, <2>1, NoEditsAt DEF KeptAt
<1> QED
  BY <1>1, <1>3, <1>4 DEF ObjKinds

LEMMA BeginSaveKept ==
  ASSUME KeptInv, Single, NEW c \in Context, BeginSave(c)
  PROVE  KeptAt(c)'
<1> DEFINE kinds == Processed(c)
           fires == obj[c] = "fault"
           s == IF fires /\ "update" \in kinds THEN Loaded(snap, 1) ELSE snap
           told == ToldSnap(c, kinds, s, row)
<1>1. /\ TypeInv /\ TypeOK /\ KeptAt(c) /\ c # None
      /\ row \in Row /\ snap \in Snapshot /\ obj[c] \in {"fault", "object"}
      /\ obj'[c] = "object" /\ queued'[c] = {} /\ tracked'[c] = kinds
      /\ edits' = edits /\ erase' = erase
  <2>1. TypeInv /\ KeptAt(c) /\ c # None /\ snap \in Snapshot
    BY KeptTypes
  <2>2. /\ row \in Row /\ obj'[c] = "object" /\ queued'[c] = {} /\ tracked'[c] = kinds
        /\ kinds # {}
    BY <2>1, BeginSaveFacts
  <2>3. obj[c] \in {"fault", "object"}
    BY <2>1, <2>2, ProcessedFacts DEF TypeInv, TypeOK, Reachable
  <2>4. edits' = edits /\ erase' = erase
    BY DEF BeginSave
  <2> QED
    BY <2>1, <2>2, <2>3, <2>4 DEF TypeInv
<1>2. Loaded(snap, 1) \in Snapshot /\ Loaded(snap, 1) # None
  BY <1>1, LoadedFacts DEF Snapshot
<1>3. told = s
  <2>1. Told(c, kinds) = {}
    BY NobodyTold
  <2>2. s \in Snapshot
    BY <1>1, <1>2
  <2> QED
    BY <1>1, <2>1, <2>2, ToldSnapFacts
<1>4. snap' = IF fires THEN Loaded(snap, 1) ELSE snap
  <2>1. snap' = (IF fires /\ ~("update" \in kinds) THEN Loaded(told, 1) ELSE told)
    BY DEF BeginSave
  <2> QED
    BY <1>3, <2>1
<1>5. CASE fires
  <2>1. values'[c] = row /\ seen'[c] = row
    BY <1>1, <1>5 DEF BeginSave, TypeOK
  <2>2. edits'[c] = NoEdits /\ snap' # None
    BY <1>1, <1>2, <1>4, <1>5, KeptTypes
  <2>3. erase'[c] <=> "delete" \in queued'[c] \cup tracked'[c]
    BY <1>1, ProcessedKinds DEF KeptAt
  <2> QED
    BY <1>1, <2>1, <2>2, <2>3, LoadedKept
<1>6. CASE ~fires
  <2>1. values' = values /\ seen' = seen
    BY <1>6 DEF BeginSave
  <2> QED
    BY <1>1, <1>4, <1>6, <2>1, SameKept
<1> QED
  BY <1>5, <1>6

LEMMA StoreSaveKept ==
  ASSUME KeptInv, Single, NEW c \in Context, StoreSave(c)
  PROVE  KeptAt(c)'
<1>1. /\ TypeInv /\ TypeOK /\ KeptAt(c) /\ c # None /\ saver = c /\ snap # None
      /\ saver' = None /\ values' = values
  BY KeptTypes, StoreSaveEnds DEF TypeInv
<1>2. CASE Raises(c)
  BY <1>1, <1>2, SameKept DEF Raises, context
<1>3. CASE Commits(c)
  <2>1. /\ queued'[c] = {} /\ tracked'[c] = {} /\ seen'[c] = values[c] /\ values[c] \in Row
        /\ edits'[c] = NoEdits /\ erase'[c] = FALSE
    BY <1>1, <1>3, CommitsFacts, KeptTypes DEF Commits, GiveUp, TypeOK
  <2>2. CASE "delete" \in tracked[c]
    <3>1. obj'[c] # "object"
      BY <1>1, <1>3, <2>2, CommitLeaves
    <3> QED
      BY <1>1, <2>1, <3>1, GoneKept
  <2>3. CASE "delete" \notin tracked[c]
    <3>1. /\ Done(c).row \in Row /\ Committed(c) \in Snapshot /\ Committed(c) # None
      BY <1>1, <2>3, CommittedFacts
    <3>2. snap' = Committed(c)
      <4>1. snap' = ToldSnap(c, tracked[c], Committed(c), Done(c).row)
        BY <1>3 DEF Commits, Notify
      <4> QED
        BY <3>1, <4>1, NobodyTold, ToldSnapFacts
    <3> QED
      BY <1>1, <2>1, <3>1, <3>2, LoadedKept
  <2> QED
    BY <2>2, <2>3
<1> QED
  BY <1>2, <1>3, StoreSaveEnds

(* A single context always has a snapshot to save against.                 *)
LEMMA SaveKnowsSnapshot ==
  ASSUME KeptInv, NEW c \in Context
  PROVE  ~StoreSaveUnknown(c)
BY KeptTypes DEF StoreSaveUnknown, TypeInv, Reachable, KeptAt

(* Only edits and other programs bring new values.                         *)
LEMMA ClockedStays ==
  ASSUME KeptInv, clock' = clock,
         row' \in {row, None} \/ \E c \in Context : row' = values[c],
         \A d \in Context :
           /\ values'[d] = values[d] \/ (row # None /\ values'[d] = row)
           /\ seen'[d] \in {seen[d], values[d]} \/ (row # None /\ seen'[d] = row)
  PROVE  Clocked'
BY DEF KeptInv, Clocked

LEMMA PerformedRow ==
  ASSUME NEW kinds, NEW new \in Row, NEW s \in Known, row \in Row \cup {None}
  PROVE  Performed(kinds, new, s).row \in {row, new, None}
<1> DEFINE r1 == IF "update" \in kinds /\ RowDiffs(new, s) # {} THEN Updated(row, new, s) ELSE row
<1>1. r1 \in {row, new}
  BY UpdatedFacts
<1>2. Performed(kinds, new, s).row \in {r1, None}
  BY DEF Performed
<1> QED
  BY <1>1, <1>2

LEMMA NextClocked ==
  ASSUME KeptInv, [Next]_vars
  PROVE  Clocked'
<1>1. TypeInv /\ TypeOK /\ Clocked /\ row \in Row \cup {None}
  BY DEF KeptInv, OwnInv, TypeInv, TypeOK
<1>2. ASSUME NEW c \in Context, NEW k, Load(c, k), row # None, row' = row, clock' = clock
      PROVE  Clocked'
  <2>1. values' = [values EXCEPT ![c] = row] /\ seen' = [seen EXCEPT ![c] = row]
    BY <1>2 DEF Load
  <2>2. \A d \in Context : values'[d] \in {values[d], row} /\ seen'[d] \in {seen[d], row}
    BY <1>1, <2>1 DEF TypeOK
  <2> QED
    BY <1>2, <2>2, ClockedStays
<1>3. ASSUME NEW c \in Context, \/ Fetch(c) \/ Fire(c) \/ Delete(c)
      PROVE  Clocked'
  <2>1. row # None /\ row' = row /\ clock' = clock
    BY <1>3 DEF Fetch, Fire, Delete
  <2>2. (\E k \in Nat : Load(c, k)) \/ (values' = values /\ seen' = seen)
    BY <1>3 DEF Fetch, Fire, Delete
  <2> QED
    BY <1>2, <2>1, <2>2, ClockedStays
<1>4. ASSUME NEW c \in Context, Refresh(c) \/ BeginSave(c)
      PROVE  Clocked'
  <2>1. row # None /\ row' = row /\ clock' = clock
    <3>1. CASE Refresh(c)
      BY <3>1 DEF Refresh
    <3>2. CASE BeginSave(c)
      BY <1>1, <3>2, BeginSaveFacts, RowAssumption DEF BeginSave, RowAssumption
    <3> QED
      BY <1>4, <3>1, <3>2
  <2>2. \/ values' = values /\ seen' = seen
        \/ values' = [values EXCEPT ![c] = row] /\ seen' = [seen EXCEPT ![c] = row]
    BY <1>4 DEF Refresh, BeginSave
  <2>3. \A d \in Context : values'[d] \in {values[d], row} /\ seen'[d] \in {seen[d], row}
    BY <1>1, <2>2 DEF TypeOK
  <2> QED
    BY <2>1, <2>3, ClockedStays
<1>5. ASSUME NEW c \in Context, StoreSave(c)
      PROVE  Clocked'
  <2>1. saver = c /\ snap # None /\ values' = values /\ clock' = clock
    BY <1>5, StoreSaveEnds
  <2>2. CASE Raises(c)
    BY <2>1, <2>2, ClockedStays DEF Raises
  <2>3. CASE Commits(c)
    <3>1. row' \in {row, values[c], None}
      <4>1. snap \in Known /\ values[c] \in Row
        BY <1>1, <2>1, CommittedFacts
      <4>2. Done(c).row \in {row, values[c], None}
        BY <1>1, <4>1, PerformedRow DEF Done
      <4> QED
        BY <2>3, <4>2 DEF Commits
    <3>2. \A d \in Context : seen'[d] \in {seen[d], values[d]}
      BY <1>1, <2>3 DEF Commits, TypeOK
    <3> QED
      BY <2>1, <3>1, <3>2, ClockedStays
  <2> QED
    BY <1>5, <2>2, <2>3, StoreSaveEnds
<1>6. ASSUME \/ \E c \in Context : \/ CreateFault(c) \/ HasChanges(c) \/ Revert(c) \/ Refault(c)
                                   \/ Invalidate(c) \/ Release(c) \/ StoreSaveUnknown(c)
             \/ UNCHANGED vars
      PROVE  Clocked'
  <2>1. row' = row /\ values' = values /\ seen' = seen /\ clock' = clock
    BY <1>6 DEF CreateFault, HasChanges, Revert, Refault, Invalidate, Release, StoreSaveUnknown,
                vars, database, context, history
  <2> QED
    BY <1>1, <2>1 DEF Clocked
<1>7. ASSUME NEW a \in Attr, ClientWrites(a)
      PROVE  Clocked'
  <2>1. /\ row # None /\ row' = [row EXCEPT ![a] = clock + 1] /\ clock' = clock + 1
        /\ values' = values /\ seen' = seen
    BY <1>7 DEF ClientWrites, context, history
  <2> SUFFICES ASSUME NEW b \in Attr
               PROVE  /\ row'[b] <= clock + 1
                      /\ \A d \in Context : values[d][b] <= clock + 1 /\ seen[d][b] <= clock + 1
    BY <2>1 DEF Clocked
  <2>2. clock \in Nat
    BY <1>1, RowAssumption DEF TypeOK, Value, RowAssumption
  <2>3. row[b] \in Nat /\ row[b] <= clock
    BY <1>1, <2>1 DEF Clocked, Row, Value
  <2>4. \A d \in Context : /\ values[d][b] \in Nat /\ values[d][b] <= clock
                           /\ seen[d][b] \in Nat /\ seen[d][b] <= clock
    BY <1>1 DEF Clocked, TypeOK, Row, Value
  <2>5. row'[b] = row[b] \/ row'[b] = clock + 1
    BY <1>1, <2>1 DEF Row
  <2>6. \A v \in Nat : v <= clock => v <= clock + 1
    BY <2>2
  <2> QED
    BY <2>2, <2>3, <2>4, <2>5, <2>6
<1> QED
  BY <1>3, <1>4, <1>5, <1>6, <1>7, EditKept DEF Next

LEMMA NextKept ==
  ASSUME Single, "revert" \notin Uses, KeptInv, [Next]_vars
  PROVE  KeptInv'
<1>1. OwnInv'
  BY NextOwn DEF KeptInv
<1>2. ASSUME NEW c \in Context
      PROVE  KeptAt(c)'
  <2>1. CASE (\E a \in Attr : ClientWrites(a)) \/ UNCHANGED vars
    <3>1. KeptAt(c) /\ UNCHANGED <<snap, obj, values, queued, tracked, saver, edits, erase, seen>>
      BY <2>1, KeptTypes DEF ClientWrites, vars, database, context, history
    <3> QED
      BY <3>1 DEF KeptAt
  <2>2. ASSUME NEW d \in Context,
               \/ Fetch(d) \/ Refresh(d) \/ CreateFault(d) \/ Fire(d) \/ Delete(d)
               \/ HasChanges(d) \/ Refault(d) \/ Invalidate(d) \/ Release(d)
               \/ BeginSave(d) \/ StoreSave(d) \/ \E a \in Attr : Edit(d, a)
        PROVE  KeptAt(c)'
    <3>1. KeptAt(d)'
      BY <2>2, FetchKept, RefreshKept, DropKept, DeleteKept, AnnounceKept, BeginSaveKept,
         StoreSaveKept, EditKept
    <3>2. c = d
      BY DEF Single
    <3> QED
      BY <3>1, <3>2
  <2>3. ~ \E d \in Context : Revert(d) \/ StoreSaveUnknown(d)
    BY SaveKnowsSnapshot DEF Revert
  <2> QED
    BY <2>1, <2>2, <2>3 DEF Next
<1> QED
  BY <1>1, <1>2, NextClocked DEF KeptInv

LEMMA KeptInvariant ==
  ASSUME Single, "revert" \notin Uses
  PROVE  Spec => []KeptInv
<1>1. Init => KeptInv
  <2> SUFFICES ASSUME Init
               PROVE  KeptInv
    OBVIOUS
  <2>1. SnapshotIsSeen /\ Clocked
    BY DEF Init, SnapshotIsSeen, Live, Clocked
  <2>2. ASSUME NEW c \in Context
        PROVE  KeptAt(c)
    BY NoEditsAt DEF Init, KeptAt
  <2> QED
    BY <2>1, <2>2, InitType DEF KeptInv, OwnInv
<1> QED
  BY <1>1, NextKept, PTL DEF Spec

LEMMA SaveEndsInStore ==
  ASSUME KeptInv, Next, SaveEnds
  PROVE  \E c \in Context : StoreSave(c)
BY SaveKnowsSnapshot
DEF Next, SaveEnds, Fetch, Refresh, CreateFault, Fire, Delete, HasChanges, Revert,
    Refault, Invalidate, Release, BeginSave, Edit, ClientWrites, database

(* What a context saves, and what it is compared with.                     *)
LEMMA SavedFacts ==
  ASSUME KeptInv, NEW c \in Context, StoreSave(c)
  PROVE  /\ snap \in Known /\ values[c] \in Row /\ row \in Row
         /\ snap.row = seen[c] /\ seen[c] \in Row
         /\ erase[c] <=> "delete" \in tracked[c]
         /\ tracked[c] \in SUBSET {"update", "delete"} /\ tracked[c] # {}
         /\ ~erase[c] => values[c] = Overlaid(seen[c], edits[c])
         /\ KeptAt(c)
<1>1. saver = c /\ snap # None
  BY StoreSaveEnds
<1>2. /\ TypeInv /\ KeptAt(c) /\ seen[c] \in Row /\ SnapshotIsSeen
  BY KeptTypes DEF KeptInv, OwnInv
<1>3. /\ snap \in Known /\ values[c] \in Row /\ row \in Row /\ obj[c] = "object"
      /\ tracked[c] \in SUBSET {"update", "delete"} /\ tracked[c] # {}
  BY <1>1, <1>2, CommittedFacts
<1>4. snap.row = seen[c]
  BY <1>1, <1>2, <1>3 DEF SnapshotIsSeen, Live
<1> QED
  BY <1>1, <1>2, <1>3, <1>4 DEF KeptAt

(* A save that returned has stored exactly what the application had        *)
(* changed, whatever other programs wrote before and during it, if the     *)
(* adaptor counts the rows it hits.                                        *)
THEOREM SavesStoreChanges ==
  ASSUME Single, "revert" \notin Uses, CountsRows
  PROVE  Spec => SavedIsStored
<1>1. ASSUME KeptInv, [Next]_vars
      PROVE  [SaveEnds /\ outcome' = "saved" =>
                row' = IF erase[saver] THEN None ELSE Overlaid(row, edits[saver])]_vars
  <2> SUFFICES ASSUME Next, SaveEnds, outcome' = "saved"
               PROVE  row' = IF erase[saver] THEN None ELSE Overlaid(row, edits[saver])
    BY <1>1
  <2>1. PICK c \in Context : StoreSave(c)
    BY <1>1, SaveEndsInStore
  <2> DEFINE new == values[c]
             upd == "update" \in tracked[c] /\ RowDiffs(new, snap) # {}
             r1 == IF upd THEN Updated(row, new, snap) ELSE row
  <2>2. saver = c /\ Commits(c)
    BY <2>1, StoreSaveEnds DEF Raises
  <2>3. /\ snap \in Known /\ new \in Row /\ row \in Row
        /\ snap.row = seen[c] /\ seen[c] \in Row
        /\ erase[c] <=> "delete" \in tracked[c]
        /\ tracked[c] \in SUBSET {"update", "delete"} /\ tracked[c] # {}
        /\ ~erase[c] => new = Overlaid(seen[c], edits[c])
        /\ KeptAt(c)
    BY <1>1, <2>1, SavedFacts
  <2>4. row' = IF "delete" \in tracked[c] /\ Matches(r1, snap) THEN None ELSE r1
    BY <2>2 DEF Commits, Done, Performed
  <2>5. /\ upd => Matches(row, snap)
        /\ "delete" \in tracked[c] => Matches(r1, snap)
    BY <2>2 DEF Commits, Done, Performed, RowCountAccepted
  <2>6. CASE erase[c]
    BY <2>2, <2>3, <2>4, <2>5, <2>6
  <2>7. CASE ~erase[c] /\ upd
    <3>1. row = seen[c]
      BY <2>3, <2>5, <2>7 DEF Matches
    <3>2. row' = new
      BY <2>3, <2>4, <2>7, <3>1, UpdatedFacts
    <3> QED
      BY <2>2, <2>3, <2>7, <3>1, <3>2
  <2>8. CASE ~erase[c] /\ ~upd
    <3>1. \A a \in Attr : new[a] = seen[c][a]
      BY <2>3, <2>8 DEF RowDiffs
    <3>2. \A a \in Attr : edits[c][a] = None
      BY <2>3, <2>8, <3>1 DEF KeptAt, Overlaid
    <3>3. Overlaid(row, edits[c]) = row
      BY <2>3, <3>2 DEF Overlaid, Row
    <3> QED
      BY <2>2, <2>3, <2>4, <2>8, <3>3
  <2> QED
    BY <2>6, <2>7, <2>8
<1> QED
  BY <1>1, KeptInvariant, PTL DEF Spec, SavedIsStored

(* A save is refused only because another program has written the row      *)
(* since the object was loaded, never because of what the context itself   *)
(* fetched, refreshed, refaulted, forgot or failed to save before.         *)
THEOREM SavesRefusedForCause ==
  ASSUME Single, "revert" \notin Uses
  PROVE  Spec => RefusedOnlyWhenStale
<1>1. ASSUME KeptInv, [Next]_vars
      PROVE  [SaveEnds /\ outcome' = "refused" /\ tracked[saver] # Kinds => row # seen[saver]]_vars
  <2> SUFFICES ASSUME Next, SaveEnds, outcome' = "refused", tracked[saver] # Kinds, row = seen[saver]
               PROVE  FALSE
    BY <1>1
  <2>1. PICK c \in Context : StoreSave(c)
    BY <1>1, SaveEndsInStore
  <2>2. saver = c
    BY <2>1, StoreSaveEnds
  <2>3. /\ snap \in Known /\ row \in Row /\ row = snap.row /\ row # None
        /\ tracked[c] \in SUBSET {"update", "delete"}
    BY <1>1, <2>1, <2>2, SavedFacts, RowAssumption DEF RowAssumption
  <2>4. ~("update" \in tracked[c] /\ "delete" \in tracked[c])
    BY <2>2, <2>3 DEF Kinds
  <2>5. Matches(row, snap)
    BY <2>3 DEF Matches
  <2>6. Performed(tracked[c], values[c], snap).ok
    BY <2>4, <2>5 DEF Performed, RowCountAccepted
  <2> QED
    BY <2>1, <2>6 DEF StoreSave
<1> QED
  BY <1>1, KeptInvariant, PTL DEF Spec, RefusedOnlyWhenStale

-----------------------------------------------------------------------------
(* Several contexts, none of which deletes or reverts.                     *)

(* Who is told of a change has no object with values any more, and nobody  *)
(* else gets one.                                                          *)
LEMMA ToldUnchanged ==
  ASSUME TypeInv, UnchangedAsSeen, NEW c \in Context, NEW kinds, OthersTold(c, kinds),
         \A d \in Context \ {c} : values'[d] = values[d] /\ seen'[d] = seen[d],
         obj'[c] = "object" /\ queued'[c] \cup tracked'[c] = {} => values'[c] = seen'[c]
  PROVE  UnchangedAsSeen'
<1> SUFFICES ASSUME NEW d \in Context, obj'[d] = "object", queued'[d] \cup tracked'[d] = {}
             PROVE  values'[d] = seen'[d]
  BY DEF UnchangedAsSeen, Live
<1>1. CASE d = c
  BY <1>1
<1>2. CASE d # c
  <2>1. obj[d] = "object" /\ queued[d] \cup tracked[d] = {}
    BY <1>2, OthersReachable
  <2> QED
    BY <1>2, <2>1 DEF UnchangedAsSeen, Live
<1> QED
  BY <1>1, <1>2

LEMMA NextUnchanged ==
  ASSUME Uses \cap {"delete", "revert"} = {}, CoherentInv, [Next]_vars
  PROVE  UnchangedAsSeen'
<1>1. /\ TypeInv /\ TypeOK /\ UnchangedAsSeen
      /\ \A c \in Context : "delete" \notin queued[c] \cup tracked[c]
  BY DEF CoherentInv, CountInv, TypeInv
<1>2. ASSUME NEW c \in Context, Fetch(c) \/ Fire(c)
      PROVE  UnchangedAsSeen'
  <2>1. /\ obj' = [obj EXCEPT ![c] = "object"]
        /\ values' = [values EXCEPT ![c] = row] /\ seen' = [seen EXCEPT ![c] = row]
        /\ queued' = queued /\ tracked' = tracked
    BY <1>2 DEF Fetch, Fire, Load
  <2> QED
    BY <1>1, <2>1 DEF UnchangedAsSeen, Live, TypeOK
<1>3. ASSUME NEW c \in Context, Refresh(c)
      PROVE  UnchangedAsSeen'
  <2>1. values' = [values EXCEPT ![c] = row] /\ seen' = [seen EXCEPT ![c] = row]
    BY <1>3 DEF Refresh
  <2>2. OthersTold(c, {"update"})
    <3>1. row \in Row /\ snap \in Snapshot
      BY <1>1, <1>3, ObjectHasRow, SnapType DEF Refresh
    <3>2. Recorded(snap, row) \in Snapshot
      BY <3>1, RecordedFacts DEF Snapshot
    <3>3. "object" \in ObjKinds /\ queued[c] \in SUBSET Kinds /\ tracked[c] \in SUBSET Kinds
      BY <1>1 DEF TypeOK, ObjKinds
    <3>4. Notify(c, {"update"}, "object", queued[c], tracked[c], Recorded(snap, row), row)
      BY <1>3 DEF Refresh
    <3> QED
      BY <1>1, <3>1, <3>2, <3>3, <3>4, NotifyTypes
  <2>3. /\ \A d \in Context \ {c} : values'[d] = values[d] /\ seen'[d] = seen[d]
        /\ values'[c] = seen'[c]
    BY <1>1, <2>1 DEF TypeOK
  <2> QED
    BY <1>1, <2>2, <2>3, ToldUnchanged
<1>4. ASSUME NEW c \in Context, HasChanges(c) \/ Refault(c)
      PROVE  UnchangedAsSeen'
  <2>1. values' = values /\ seen' = seen /\ obj[c] # "none"
    BY <1>1, <1>4 DEF HasChanges, Refault, history, TypeInv, Reachable
  <2>2. /\ row \in Row /\ snap \in Snapshot /\ {} \in SUBSET Kinds /\ Processed(c) \in SUBSET Kinds
        /\ obj[c] \in ObjKinds /\ "fault" \in ObjKinds
    BY <1>1, <2>1, ObjectHasRow, SnapType, ProcessedFacts DEF TypeOK, ObjKinds
  <2>3. CASE HasChanges(c)
    <3>1. Notify(c, Processed(c), obj[c], {}, Processed(c), snap, row)
          /\ queued[c] \cup tracked[c] # {}
      BY <2>3 DEF HasChanges
    <3>2. OthersTold(c, Processed(c)) /\ tracked'[c] = Processed(c)
      BY <1>1, <2>2, <3>1, NotifyTypes
    <3>3. Processed(c) # {}
      BY <1>1, <3>1, ProcessedFacts
    <3> QED
      BY <1>1, <2>1, <3>2, <3>3, ToldUnchanged
  <2>4. CASE Refault(c)
    <3>1. Notify(c, Processed(c), "fault", {}, Processed(c), snap, row)
      BY <2>4 DEF Refault
    <3>2. OthersTold(c, Processed(c)) /\ obj'[c] = "fault"
      BY <1>1, <2>2, <3>1, NotifyTypes
    <3> QED
      BY <1>1, <2>1, <3>2, ToldUnchanged
  <2> QED
    BY <1>4, <2>3, <2>4
<1>5. ASSUME NEW c \in Context, BeginSave(c)
      PROVE  UnchangedAsSeen'
  <2>1. OthersTold(c, Processed(c)) /\ tracked'[c] # {}
    BY <1>1, <1>5, BeginSaveFacts
  <2>2. \A d \in Context \ {c} : values'[d] = values[d] /\ seen'[d] = seen[d]
    BY <1>1, <1>5 DEF BeginSave, TypeOK
  <2> QED
    BY <1>1, <2>1, <2>2, ToldUnchanged
<1>6. ASSUME NEW c \in Context, StoreSave(c)
      PROVE  UnchangedAsSeen'
  <2>1. saver = c /\ snap # None /\ values' = values
    BY <1>6, StoreSaveEnds
  <2>2. CASE Raises(c)
    BY <1>1, <2>1, <2>2 DEF Raises, context, UnchangedAsSeen, Live
  <2>3. CASE Commits(c)
    <3>1. OthersTold(c, tracked[c])
      BY <1>1, <2>1, <2>3, CommitsFacts
    <3>2. seen' = [seen EXCEPT ![c] = values[c]]
      BY <2>3 DEF Commits
    <3>3. /\ \A d \in Context \ {c} : values'[d] = values[d] /\ seen'[d] = seen[d]
          /\ values'[c] = seen'[c]
      BY <1>1, <2>1, <3>2 DEF TypeOK
    <3> QED
      BY <1>1, <3>1, <3>3, ToldUnchanged
  <2> QED
    BY <1>6, <2>2, <2>3, StoreSaveEnds
<1>7. ASSUME NEW c \in Context, Invalidate(c)
      PROVE  UnchangedAsSeen'
  <2>1. \A d \in Context : obj'[d] # "object"
    BY <1>1, <1>7, InvalidateFacts
  <2> QED
    BY <2>1 DEF UnchangedAsSeen, Live
<1>8. ASSUME NEW c \in Context, NEW a \in Attr, Edit(c, a)
      PROVE  UnchangedAsSeen'
  <2>1. /\ values' = [values EXCEPT ![c] = [values[c] EXCEPT ![a] = clock + 1]]
        /\ queued' = [queued EXCEPT ![c] = queued[c] \cup {"update"}]
        /\ obj' = obj /\ tracked' = tracked /\ seen' = seen
    BY <1>8 DEF Edit
  <2>2. /\ "update" \in queued'[c]
        /\ \A d \in Context \ {c} : values'[d] = values[d] /\ queued'[d] = queued[d]
    BY <1>1, <2>1 DEF TypeOK
  <2> QED
    BY <1>1, <2>1, <2>2 DEF UnchangedAsSeen, Live
<1>9. ASSUME \/ \E c \in Context : CreateFault(c) \/ Release(c)
             \/ \E a \in Attr : ClientWrites(a)
             \/ UNCHANGED vars
      PROVE  UnchangedAsSeen'
  <2>1. /\ values' = values /\ seen' = seen /\ queued' = queued /\ tracked' = tracked
        /\ \A d \in Context : obj'[d] = "object" => obj[d] = "object"
    BY <1>1, <1>9 DEF CreateFault, Release, ClientWrites, vars, database, context, history, TypeOK
  <2> QED
    BY <1>1, <2>1 DEF UnchangedAsSeen, Live
<1>10. ASSUME NEW c \in Context
       PROVE  ~Delete(c) /\ ~Revert(c) /\ ~StoreSaveUnknown(c)
  <2>1. ~Delete(c) /\ ~Revert(c)
    BY DEF Delete, Revert
  <2>2. ~StoreSaveUnknown(c)
    <3>1. saver = c => c \in Live
      <4>1. c # None
        BY RowAssumption DEF RowAssumption
      <4> QED
        BY <1>1, <4>1 DEF TypeInv, Reachable, Live
    <3>2. ObjectsHoldSnapshot
      BY DEF CoherentInv, CountInv
    <3> QED
      BY <3>1, <3>2 DEF StoreSaveUnknown, ObjectsHoldSnapshot
  <2> QED
    BY <2>1, <2>2
<1> QED
  BY <1>2, <1>3, <1>4, <1>5, <1>6, <1>7, <1>8, <1>9, <1>10 DEF Next

(* A context that fetches, saves or refaults never leaves another one with *)
(* an old unchanged object: what was written over the snapshot is in the   *)
(* others' objects, or they are faults that read it when they are used.    *)
THEOREM UnchangedObjectsAreCoherent ==
  ASSUME ~Clients, Uses \cap {"delete", "revert", "releaseFault"} = {}
  PROVE  Spec => []CacheCoherent
<1>1. Init => UnchangedAsSeen
  BY DEF Init, UnchangedAsSeen, Live
<1>2. CurrentInv /\ CountInv /\ UnchangedAsSeen /\ [Next]_vars => UnchangedAsSeen'
  BY NextUnchanged DEF CoherentInv
<1>3. CurrentInv /\ CountInv /\ UnchangedAsSeen => CacheCoherent
  BY DEF CurrentInv, CountInv, ObjectsHoldSnapshot, SnapshotCurrent, SeenCurrent,
         UnchangedAsSeen, CacheCoherent, Live
<1>4. Spec => []CountInv
  BY CountInvariant
<1> QED
  BY <1>1, <1>2, <1>3, <1>4, CurrentInvariant, PTL DEF Spec
=============================================================================
