------------------------ MODULE StoreLocksInvariants ------------------------
(***************************************************************************)
(* What an operation of StoreLocks owes while it is under way, and the     *)
(* inductive invariants that say so.                                       *)
(***************************************************************************)
EXTENDS StoreLocks

(* What the theorems about locks are for: no operation fails on the way,   *)
(* no context refaults in another one's thread, refaultObjects is only     *)
(* used on a locked context, and nested contexts are of one thread.        *)
Calm ==
  /\ Faults = {}
  /\ Uses \cap {"share", "bare"} = {}
  /\ \A c \in Context : Parent[c] \in Context => ThreadOf[Parent[c]] = ThreadOf[c]

-----------------------------------------------------------------------------
(* Sequences of steps, each of which relates what holds before to what     *)
(* holds after it: a path from a to b.                                     *)
Path(R, S, steps, a, b) ==
  \E at \in [1 .. Len(steps) + 1 -> S] :
    /\ at[1] = a /\ at[Len(steps) + 1] = b
    /\ \A i \in 1 .. Len(steps) : <<steps[i], at[i], at[i + 1]>> \in R

Deed == Verb \X Lock

(* Suppressions that are to be taken back.                                 *)
Hushing ==
  {r \in Deed \X Nat \X Nat :
     IF r[1][1] = "suppress" THEN r[3] = r[2] + 1
     ELSE IF r[1][1] = "enable" THEN r[2] = r[3] + 1
     ELSE r[2] = r[3]}

Outstanding(hush) == {p \in Thread \X (Nat \ {0}) : p[2] <= hush[p[1]]}

(* suppressionCount is the number of calls that each thread will undo.     *)
Hushed ==
  \E hush \in [Thread -> Nat] :
    /\ \A t \in Thread : Path(Hushing, Nat, todo[t], hush[t], 0)
    /\ IsFiniteSet(Outstanding(hush)) /\ suppressed = Cardinality(Outstanding(hush))

TypeInv ==
  /\ TypeOK
  /\ \A l \in Lock : owner[l] # None => depth[l] > 0
  /\ Hushed

-----------------------------------------------------------------------------
(* The debt of an operation: the locks that it has taken itself, the       *)
(* contexts whose object store it has locked, and its suppressions.        *)
Inside(D) == \E c \in Context : D.takes[c] > 0

Debt ==
  {D \in [locks : [Lock -> Nat], takes : [Context -> Nat], quiet : Nat] :
     D.quiet > 0 => Inside(D)}

NoStores(D) == \A s \in Store : D.locks[s] = 0

(* Nobody is inside of a context that leads to c.                          *)
NotTaken(c, D) == \A d \in Context : c \in Held(d) => D.takes[d] = 0

Locking(D, l) ==
  [locks |-> [D.locks EXCEPT ![l] = @ + 1], takes |-> D.takes, quiet |-> D.quiet]

Taking(D, c) ==
  [locks |-> D.locks, takes |-> [D.takes EXCEPT ![c] = @ + 1], quiet |-> D.quiet]

Quieting(D) == [locks |-> D.locks, takes |-> D.takes, quiet |-> D.quiet + 1]

EachLocked(D) ==
  [locks |-> [l \in Lock |-> IF l \in Store THEN D.locks[l] + 1 ELSE D.locks[l]],
   takes |-> D.takes, quiet |-> D.quiet]

(* After LockSteps(l).                                                     *)
Attached(D, l) ==
  IF l = Coordinator THEN EachLocked(Locking(D, l)) ELSE Taking(Locking(D, l), l)

(* What a step does to the debt of thread t, and what it relies on.  The   *)
(* coordinator comes before its stores, the stores in their order.         *)
InOrder(D, l) == \A s \in Store : l = Coordinator \/ (l \in Store /\ l <= s) => D.locks[s] = 0

Does(t, x, D, E) ==
  \/ \E l \in Lock : /\ x = <<"acquire", l>> /\ E = Locking(D, l)
                     /\ InOrder(D, l) /\ (l \in Context => ThreadOf[l] = t)
  \/ \E l \in Lock : x = <<"release", l>> /\ D = Locking(E, l)
  \/ \E c \in Context : /\ x = <<"take", c>> /\ E = Taking(D, c)
                        /\ ThreadOf[c] = t /\ NoStores(D)
  \/ \E c \in Context : /\ x = <<"taken", c>>
                        /\ \E F \in Debt : D = Attached(F, Parent[c]) /\ E = Taking(F, c)
                        /\ ThreadOf[c] = t /\ NotTaken(c, D)
  \/ \E c \in Context : x = <<"give", c>> /\ D = Taking(E, c) /\ ThreadOf[c] = t
  \/ \E s \in Store : x = <<"use", s>> /\ E = D /\ (D.locks[s] > 0 \/ Inside(D))
  \/ x = <<"suppress", Coordinator>> /\ E = Quieting(D)
  \/ x = <<"enable", Coordinator>> /\ D = Quieting(E)
  \/ \E c \in Context : /\ x \in {<<"ask", c>>, <<"fetch", c>>, <<"invalidate", c>>} /\ E = D
                        /\ ThreadOf[c] = t /\ NoStores(D)
                        /\ Parent[c] = Coordinator => Inside(D)
  \/ \E c \in Context : x = <<"tell", c>> /\ E = D
  \/ \E s \in Store : x = <<"commit", s>> /\ E = D /\ NoStores(D)

Doing(t) == {r \in Deed \X Debt \X Debt : Does(t, r[1], r[2], r[3])}

Plan(t, steps, D, E) == Path(Doing(t), Debt, steps, D, E)

(* What the application of a thread owes between operations.               *)
Kept(t) ==
  [locks |-> [l \in Lock |-> IF l \in locked /\ ThreadOf[l] = t THEN 1 ELSE 0],
   takes |-> [c \in Context |-> IF c \in locked /\ ThreadOf[c] = t THEN 1 ELSE 0],
   quiet |-> 0]

(* The debts are what is locked: a lock is held for its own sake and once  *)
(* for the contexts whose object store it is or is one of, as long as they *)
(* count.                                                                  *)
Holders(t, l, count) == {d \in Context : Parent[d] = l /\ ThreadOf[d] = t /\ count[d] > 0}

Behind(l) == IF l \in Store THEN Coordinator ELSE l

Matches(t, D, deep, count) ==
  /\ \A l \in Lock : deep[l] = D.locks[l] + Cardinality(Holders(t, Behind(l), count))
  /\ \A c \in Context : ThreadOf[c] = t => count[c] = D.takes[c] + Cardinality(Holders(t, c, count))
  /\ \A c \in Context : D.takes[c] > 0 => ThreadOf[c] = t

DepthOf(t) == [l \in Lock |-> IF owner[l] = t THEN depth[l] ELSE 0]

Quiet(t) == IF owner[Coordinator] = t THEN suppressed ELSE 0

Planned(t) ==
  \E D \in Debt :
    /\ Plan(t, todo[t], D, Kept(t))
    /\ Matches(t, D, DepthOf(t), storeCount)
    /\ D.quiet = Quiet(t)

Owned ==
  /\ \A l \in Lock : lockCount[l] = depth[l] /\ (depth[l] = 0 <=> owner[l] = None)
  /\ \A c \in Context : owner[c] \in {None, ThreadOf[c]}
  /\ owner[Coordinator] = None => suppressed = 0

(* The inductive invariant of the locks.                                   *)
LocksInv ==
  /\ TypeInv /\ Owned
  /\ \A t \in Thread : Planned(t)
  /\ LockedChangesNoticed
=============================================================================
