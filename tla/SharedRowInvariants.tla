------------------------- MODULE SharedRowInvariants -------------------------
(***************************************************************************)
(* The inductive invariants behind the theorems of SharedRowProofs and     *)
(* SharedRowSnapshotProofs, in a module of their own, which MCSharedRow    *)
(* extends, so that TLC can check them too.                                *)
(***************************************************************************)
EXTENDS SharedRow

(* Objects without a row would be fired in vain, changes without an object *)
(* would be saved for nothing: a deletion leaves neither in any context,   *)
(* and a save has an object with values and something to save.             *)
Reachable ==
  /\ row = None => \A c \in Context : obj[c] = "none"
  /\ \A c \in Context : queued[c] \cup tracked[c] # {} => obj[c] # "none"
  /\ saver # None => obj[saver] = "object" /\ tracked[saver] # {}

TypeInv == TypeOK /\ Reachable

(* When no other program writes the row, objects with values have the row  *)
(* itself to start from, whatever the contexts save.                       *)
SeenCurrent == \A c \in Live : seen[c] = row

CurrentInv == TypeInv /\ SnapshotCurrent /\ SeenCurrent

(* With a single context the shared snapshot is its own: it is the row     *)
(* that the object was last loaded from or saved as.                       *)
SnapshotIsSeen == \A c \in Live : snap # None => snap.row = seen[c]

OwnInv == TypeInv /\ SnapshotIsSeen

(* Its edits are on top of what it has loaded: the trackers know of them,  *)
(* and of its deletion, until a save is done with them or the application  *)
(* has given them up; each is a value that the row it has loaded does not  *)
(* have, so that rowDiffs finds it.                                        *)
KeptAt(c) ==
  LET kinds == queued[c] \cup tracked[c] IN
  /\ erase[c] <=> "delete" \in kinds
  /\ edits[c] # NoEdits => obj[c] = "object" /\ "update" \in kinds /\ ~erase[c]
  /\ obj[c] = "object" => snap # None
  /\ obj[c] = "object" /\ ~erase[c] => values[c] = Overlaid(seen[c], edits[c])
  /\ \A a \in Attr : edits[c][a] # None => edits[c][a] # seen[c][a]
  /\ saver = c => queued[c] = {}

(* No value is ahead of the clock: the next one is new everywhere.         *)
Clocked ==
  \A a \in Attr :
    /\ row # None => row[a] <= clock
    /\ \A c \in Context : values[c][a] <= clock /\ seen[c][a] <= clock

KeptInv == OwnInv /\ Clocked /\ \A c \in Context : KeptAt(c)

(* Reference counts when nothing is deleted.                               *)
CountInv ==
  /\ TypeInv
  /\ \A c \in Context : "delete" \notin queued[c] \cup tracked[c]
  /\ ObjectsHoldSnapshot

(* An object without changes has the values it was last loaded with.       *)
UnchangedAsSeen ==
  \A c \in Live : queued[c] \cup tracked[c] = {} => values[c] = seen[c]

CoherentInv == CurrentInv /\ CountInv /\ UnchangedAsSeen
=============================================================================
