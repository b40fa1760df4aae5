----------------------- MODULE ToManyChangesInvariants -----------------------
(***************************************************************************)
(* Why SavesAsUnit and ToManyCurrent hold: the inductive invariant behind  *)
(* them, for applications that change no lists in callbacks, and other     *)
(* contexts that read only what the relationship does not own.             *)
(***************************************************************************)
EXTENDS ToManyChanges

Calm == Uses \subseteq {"read"}

LiveDetail(x) == Live(x) \cap Detail

(* d is in m's list, or will be when the list fires.                       *)
In(x, d, m) == IF x.list[m] = Fault THEN db[d] = m ELSE d \in x.list[m]

Tracked(x) == x.touched \cup x.updated \cup x.inserted

(* The lists are disjoint, and an inverse agrees with them.                *)
Consistent(x) ==
  /\ \A d \in LiveDetail(x), m, n \in Master : In(x, d, m) /\ In(x, d, n) => m = n
  /\ rel.inverse => \A d \in LiveDetail(x), m \in Master : x.toOne[d] = m <=> In(x, d, m)

(* What the context knows of its objects.                                  *)
Registered(x) ==
  /\ \A m \in Master : x.list[m] # Fault => /\ m \in x.objects
                                            /\ x.list[m] \subseteq x.objects \cup x.gone
  /\ x.gone \subseteq Detail
  /\ x.deleted \subseteq x.gone
  /\ rel.inverse => \A d \in x.gone : x.toOne[d] = None

(* The rows are among its objects, and refer to rows.                      *)
RowsKnown(x) ==
  /\ \A o \in Object : db[o] # Absent => o \in x.objects
  /\ \A m \in Master : db[m] \in {None, Absent}
  /\ \A d \in Detail : db[d] \in Master => db[db[d]] # Absent

(* Before a save has written, the trackers have what differs from the      *)
(* rows: objects, the masters of lists, and details with an inverse.       *)
Unsaved(x) ==
  /\ \A o \in Object : o \in x.inserted <=> o \in Live(x) /\ db[o] = Absent
  /\ \A o \in Object \ Live(x) : db[o] # Absent => o \in x.deleted
  /\ \A d \in LiveDetail(x), m \in Master : (In(x, d, m) <=> db[d] = m) \/ m \in Tracked(x)
  /\ rel.inverse => \A d \in LiveDetail(x) : x.toOne[d] = db[d] \/ d \in Tracked(x)
  /\ ~rel.inverse /\ ~rel.owns =>
       \A d \in LiveDetail(x) : db[d] \in Master => \E m \in Master : In(x, d, m)

(* When the store is called, every detail that has another master than     *)
(* its row is told, and no orphan is left.                                 *)
Told(x) ==
  /\ x.touched = {}
  /\ \A d \in Detail : \A m \in added[d] : x.list[m] # Fault /\ d \in x.list[m]
  /\ \A d \in LiveDetail(x), m \in Master :
       In(x, d, m) /\ db[d] # m => m \in added[d] /\ d \in x.updated \cup x.inserted
  /\ \A d \in LiveDetail(x) : ~Orphaned(x, d)

(* After the store has written, nothing differs from the rows.             *)
Saved(x) ==
  /\ x.touched = {}
  /\ \A o \in Object : db[o] # Absent <=> o \in Live(x)
  /\ \A d \in LiveDetail(x), m \in Master : In(x, d, m) <=> db[d] = m

(* The to-many snapshots: ToManyCurrent; a snapshot lists no details that  *)
(* may still get a row; and those of an owning relationship, which nobody  *)
(* else reads, are known when the list has fired.                          *)
Snapshots(x) ==
  /\ \A m \in Master : toMany[m] # Unknown => toMany[m] \cap Rows = Linked(m)
  /\ \A m \in Master : toMany[m] # Unknown => toMany[m] \subseteq Rows \cup x.gone
  /\ rel.owns => \A m \in Master :
       /\ toMany[m] # Unknown => x.list[m] # Fault
       /\ x.list[m] # Fault /\ db[m] # Absent => toMany[m] # Unknown

ToManyInv ==
  /\ Consistent(ctx) /\ Registered(ctx) /\ RowsKnown(ctx) /\ Snapshots(ctx)
  /\ IF phase = "written" THEN Saved(ctx) ELSE Unsaved(ctx)
  /\ phase = "open" => Told(ctx)
=============================================================================
