----------------------------- MODULE StoreLocks -----------------------------
(***************************************************************************)
(* The locks that editing contexts, the coordinator and its object stores  *)
(* take on each other, and the counter that suppresses the notification of *)
(* observers, for threads that each have contexts of their own.            *)
(*                                                                         *)
(* An operation is the sequence of lock operations that it performs, on    *)
(* one of the paths it may take, exceptions included; a thread performs    *)
(* them one at a time.  A message to a context's object store is a step    *)
(* that puts the steps of the receiver in front.                           *)
(***************************************************************************)
EXTENDS Integers, Sequences, FiniteSets

CONSTANTS
  Thread,
  Context,     \* editing contexts
  ThreadOf,    \* the thread whose application uses a context
  Parent,      \* a context's object store: another context, or the coordinator
  Coordinator,
  NumStores,   \* the coordinator's object stores are 1 .. NumStores
  None,        \* no owner
  Uses,        \* what applications do; "share": contexts have the same objects
  Faults       \* what goes wrong, see the operations

Store == 1 .. NumStores
Lock == Context \cup {Coordinator} \cup Store

(* A context is created with the object store that it keeps: some context  *)
(* of any set of them has an object store outside of it.                   *)
ASSUME LocksAssumption ==
  /\ ThreadOf \in [Context -> Thread]
  /\ Parent \in [Context -> Context \cup {Coordinator}]
  /\ IsFiniteSet(Context)
  /\ \A S \in (SUBSET Context) \ {{}} : \E c \in S : Parent[c] \notin S
  /\ NumStores \in Nat \ {0}
  /\ None \notin Thread
  /\ Coordinator \notin Context \cup Store
  /\ Context \cap Store = {}
  /\ Uses \subseteq {"lock", "edit", "fetch", "fire", "refault", "invalidate", "save", "share", "bare"}
  /\ Faults \subseteq {"open", "initialize", "recent", "perform"}

VARIABLES
  owner,       \* the thread that has a lock
  depth,       \* how often, since the locks are recursive
  lockCount,   \* lockCount of each object store
  storeCount,  \* objectStoreLockCount of each context
  suppressed,  \* suppressionCount
  locked,      \* the contexts that the application has locked
  todo,        \* what a thread still has to do
  lost         \* history: changes that no context was told of, and whether the
               \* application had locked its context

vars == <<owner, depth, lockCount, storeCount, suppressed, locked, todo, lost>>

Verb == {"acquire", "release", "take", "taken", "give", "use", "suppress", "enable",
         "ask", "fetch", "invalidate", "tell", "commit"}

(* The counter is never below zero: enableObserverNotification does not    *)
(* find that it is "Not paired with a prior suppressObserverNotification". *)
TypeOK ==
  /\ owner \in [Lock -> Thread \cup {None}]
  /\ depth \in [Lock -> Nat]
  /\ lockCount \in [Lock -> Nat]
  /\ storeCount \in [Context -> Int]
  /\ suppressed \in Nat
  /\ locked \subseteq Context
  /\ todo \in [Thread -> Seq(Verb \X Lock)]
  /\ lost \subseteq Context \X BOOLEAN

Init ==
  /\ owner = [l \in Lock |-> None]
  /\ depth = [l \in Lock |-> 0]
  /\ lockCount = [l \in Lock |-> 0]
  /\ storeCount = [c \in Context |-> 0]
  /\ suppressed = 0
  /\ locked = {}
  /\ todo = [t \in Thread |-> <<>>]
  /\ lost = {}

-----------------------------------------------------------------------------
(* The operations, as sequences of steps.  Definitions named after what    *)
(* goes wrong are faulty variants; no specification uses them.             *)

EachStore(verb) == [s \in Store |-> <<verb, s>>]

LockStepsBackwards(l) ==
  CASE l = Coordinator -> <<<<"acquire", l>>>> \o [s \in Store |-> <<"acquire", NumStores + 1 - s>>]
    [] l \in Context -> <<<<"acquire", l>>, <<"take", l>>>>

(* lock and unlock of a context's object store: the coordinator takes all  *)
(* of its stores, a context goes on to its own object store.               *)
LockSteps(l) ==
  CASE l = Coordinator -> <<<<"acquire", l>>>> \o EachStore("acquire")
    [] l \in Context -> <<<<"acquire", l>>, <<"take", l>>>>

UnlockStepsOwnOnly(l) ==
  CASE l = Coordinator -> <<<<"release", l>>>>
    [] l \in Context -> <<<<"release", l>>, <<"give", l>>>>

UnlockSteps(l) ==
  CASE l = Coordinator -> EachStore("release") \o <<<<"release", l>>>>
    [] l \in Context -> <<<<"release", l>>, <<"give", l>>>>

(* lockObjectStore and unlockObjectStore around body, which may raise: the *)
(* handler unlocks as well.                                                *)
Within(c, body) == <<<<"take", c>>>> \o body \o <<<<"give", c>>>>

QuietlyUnpaired(body) == body \o <<<<"enable", Coordinator>>>>

Quietly(body) == <<<<"suppress", Coordinator>>>> \o body \o <<<<"enable", Coordinator>>>>

(* A message that the coordinator passes to one of its stores.             *)
ToSomeStore(more) == {<<<<"use", s>>>> \o more : s \in Store}

(* What a context asks its object store is asked of the parent's, if that  *)
(* is a context.                                                           *)
Asked(c) ==
  IF Parent[c] = Coordinator THEN ToSomeStore(<<>>)
  ELSE {Within(Parent[c], <<<<"ask", Parent[c]>>>>)}

FetchSuppressedFirst(c) == Quietly(Within(c, <<<<"fetch", c>>>>))

(* objectsWithFetchSpecification:editingContext:                           *)
Fetch(c) == Within(c, Quietly(<<<<"fetch", c>>>>))

Fetched(c) ==
  IF Parent[c] = Coordinator THEN ToSomeStore(<<>>) ELSE {Fetch(Parent[c])}

(* faultObject: of a fault; a channel that does not open raises past the   *)
(* handler.                                                                *)
FirePaths(c) ==
  {Within(c, use \o Quietly(<<>>)) : use \in ToSomeStore(<<>>)}
    \cup (IF "open" \in Faults THEN {<<<<"take", c>>>> \o use : use \in ToSomeStore(<<>>)} ELSE {})

(* refaultObject: of a fetched object; of a new one, where the context may *)
(* present the exception and return from inside of the outer handler.      *)
Refault(c) == Within(c, <<<<"ask", c>>>>)

RefaultPaths(c) ==
  {Refault(c), Within(c, Quietly(<<<<"ask", c>>>>))}
    \cup (IF "initialize" \in Faults THEN {<<<<"take", c>>>> \o Quietly(<<<<"ask", c>>>>)} ELSE {})

(* EOObjectsChangedInStoreNotification: the contexts that have the objects *)
(* refault them, in the thread that posts it.                              *)
Notified(c) == IF "share" \in Uses THEN Context \ {c} ELSE {}

Told(c) == {<<>>} \cup {Refault(d) : d \in Notified(c)}

(* invalidateObjectsWithGlobalIDs:, which the object store does as well:   *)
(* the coordinator passes it to its stores in turn, and each of them tells.*)
Invalidate(c) == Within(c, Refault(c)) \o Within(c, <<<<"invalidate", c>>>>)

EachTells(c) ==
  [i \in 1 .. 2 * NumStores |-> IF i % 2 = 1 THEN <<"use", (i + 1) \div 2>> ELSE <<"tell", c>>]

Invalidated(c) ==
  IF Parent[c] = Coordinator THEN {EachTells(c)} ELSE {Invalidate(Parent[c])}

(* invalidateAllObjects; an exception out of processRecentChanges reaches  *)
(* its handler, which may present it and fall through to a second unlock.  *)
InvalidatePaths(c) ==
  {Within(c, Invalidate(c))}
    \cup (IF "recent" \in Faults THEN {<<<<"take", c>>, <<"give", c>>, <<"give", c>>>>} ELSE {})

(* The second phase, from store s on: each commits or rolls back, and      *)
(* tells.                                                                  *)
SecondPhase(s, told) ==
  <<<<"acquire", s>>, <<"use", s>>>> \o told \o <<<<"release", s>>>>
    \o (IF s < NumStores THEN <<<<"commit", s + 1>>>> ELSE <<>>)

(* saveChangesInEditingContext: of the coordinator, whose own lock it does *)
(* not take; an exception skips the unlocking after the first phase.       *)
SavePaths(c) ==
  IF Parent[c] = Coordinator
  THEN {EachStore("acquire") \o EachStore("use") \o EachStore("release")
          \o SecondPhase(1, <<<<"tell", c>>>>)}
         \cup (IF "perform" \in Faults
               THEN {EachStore("acquire") \o use \o SecondPhase(1, <<>>) : use \in ToSomeStore(<<>>)} ELSE {})
  ELSE {<<<<"ask", c>>>>}

-----------------------------------------------------------------------------
(* Threads.                                                                *)

Ready(t) == todo[t] = <<>>

Do(t, steps) ==
  /\ todo' = [todo EXCEPT ![t] = steps]
  /\ UNCHANGED <<owner, depth, lockCount, storeCount, suppressed, lost>>

(* lock and unlock of the context itself.                                  *)
LockContext(c) ==
  /\ "lock" \in Uses /\ Ready(ThreadOf[c]) /\ c \notin locked
  /\ locked' = locked \cup {c}
  /\ Do(ThreadOf[c], LockSteps(c))

UnlockContext(c) ==
  /\ Ready(ThreadOf[c]) /\ c \in locked
  /\ locked' = locked \ {c}
  /\ Do(ThreadOf[c], UnlockSteps(c))

(* refaultObjects does not lock, so the application has to.                *)
Operation(c) ==
  (IF "fetch" \in Uses THEN {Fetch(c)} ELSE {})
    \cup (IF "fire" \in Uses THEN FirePaths(c) ELSE {})
    \cup (IF "refault" \in Uses THEN RefaultPaths(c) ELSE {})
    \cup (IF "refault" \in Uses /\ (c \in locked \/ "bare" \in Uses) THEN {<<<<"ask", c>>>>} ELSE {})
    \cup (IF "invalidate" \in Uses THEN InvalidatePaths(c) ELSE {})
    \cup (IF "save" \in Uses THEN SavePaths(c) ELSE {})

Operate(c) ==
  /\ Ready(ThreadOf[c])
  /\ \E steps \in Operation(c) : Do(ThreadOf[c], steps)
  /\ UNCHANGED locked

(* willChange of an object; its context is told unless that is suppressed. *)
Edit(c) ==
  /\ "edit" \in Uses /\ Ready(ThreadOf[c])
  /\ lost' = IF suppressed = 0 THEN lost ELSE lost \cup {<<c, c \in locked>>}
  /\ UNCHANGED <<owner, depth, lockCount, storeCount, suppressed, locked, todo>>

-----------------------------------------------------------------------------
(* One step of a thread.                                                   *)

Upcoming(t, verb, l) == todo[t] # <<>> /\ Head(todo[t]) = <<verb, l>>

Then(t, steps) == todo' = [todo EXCEPT ![t] = steps \o Tail(@)]

Acquire(t, l) ==
  /\ Upcoming(t, "acquire", l) /\ owner[l] \in {None, t}
  /\ owner' = [owner EXCEPT ![l] = t]
  /\ depth' = [depth EXCEPT ![l] = @ + 1]
  /\ lockCount' = [lockCount EXCEPT ![l] = @ + 1]
  /\ Then(t, <<>>)
  /\ UNCHANGED <<storeCount, suppressed, locked, lost>>

(* A recursive lock ignores an unlock by a thread that does not own it.    *)
Release(t, l) ==
  LET unlocks == lockCount[l] > 0 /\ owner[l] = t IN
  /\ Upcoming(t, "release", l)
  /\ lockCount' = [lockCount EXCEPT ![l] = IF @ > 0 THEN @ - 1 ELSE 0]
  /\ depth' = [depth EXCEPT ![l] = IF unlocks THEN @ - 1 ELSE @]
  /\ owner' = [owner EXCEPT ![l] = IF unlocks /\ depth[l] = 1 THEN None ELSE @]
  /\ Then(t, <<>>)
  /\ UNCHANGED <<storeCount, suppressed, locked, lost>>

Count(c, n) ==
  /\ storeCount' = [storeCount EXCEPT ![c] = @ + n]
  /\ UNCHANGED <<owner, depth, lockCount, suppressed, locked, lost>>

(* lockObjectStore                                                         *)
Take(t, c) ==
  /\ Upcoming(t, "take", c)
  /\ IF storeCount[c] = 0
     THEN Then(t, LockSteps(Parent[c]) \o <<<<"taken", c>>>>) /\ Count(c, 0)
     ELSE Then(t, <<>>) /\ Count(c, 1)

Taken(t, c) == Upcoming(t, "taken", c) /\ Then(t, <<>>) /\ Count(c, 1)

GiveEarly(t, c) ==
  /\ Upcoming(t, "give", c)
  /\ Count(c, -1)
  /\ Then(t, IF storeCount[c] = 2 THEN UnlockSteps(Parent[c]) ELSE <<>>)

(* unlockObjectStore                                                       *)
Give(t, c) ==
  /\ Upcoming(t, "give", c)
  /\ Count(c, -1)
  /\ Then(t, IF storeCount[c] = 1 THEN UnlockSteps(Parent[c]) ELSE <<>>)

Use(t, s) ==
  /\ Upcoming(t, "use", s)
  /\ Then(t, <<>>)
  /\ UNCHANGED <<owner, depth, lockCount, storeCount, suppressed, locked, lost>>

Suppress(t) ==
  /\ Upcoming(t, "suppress", Coordinator)
  /\ suppressed' = suppressed + 1
  /\ Then(t, <<>>)
  /\ UNCHANGED <<owner, depth, lockCount, storeCount, locked, lost>>

Enable(t) ==
  /\ Upcoming(t, "enable", Coordinator)
  /\ suppressed' = suppressed - 1
  /\ Then(t, <<>>)
  /\ UNCHANGED <<owner, depth, lockCount, storeCount, locked, lost>>

(* A message to the object store, on one of the paths it may take there.   *)
Send(t, verb, l, paths) ==
  /\ Upcoming(t, verb, l)
  /\ \E steps \in paths : Then(t, steps)
  /\ UNCHANGED <<owner, depth, lockCount, storeCount, suppressed, locked, lost>>

Message(t, c) ==
  \/ Send(t, "ask", c, Asked(c))
  \/ Send(t, "fetch", c, Fetched(c))
  \/ Send(t, "invalidate", c, Invalidated(c))
  \/ Send(t, "tell", c, Told(c))

Commit(t, s) == Send(t, "commit", s, {SecondPhase(s, <<>>)})

Step(t) ==
  \/ \E l \in Lock : Acquire(t, l) \/ Release(t, l)
  \/ \E c \in Context : Take(t, c) \/ Taken(t, c) \/ Give(t, c) \/ Message(t, c)
  \/ \E s \in Store : Use(t, s) \/ Commit(t, s)
  \/ Suppress(t) \/ Enable(t)

Next ==
  \/ \E c \in Context : LockContext(c) \/ UnlockContext(c) \/ Operate(c) \/ Edit(c)
  \/ \E t \in Thread : Step(t)

Spec == Init /\ [][Next]_vars

-----------------------------------------------------------------------------
(* _assertLock: nobody uses a database context without its lock.           *)
UsedUnderLock == \A t \in Thread, s \in Store : Upcoming(t, "use", s) => owner[s] = t

(* No threads wait for each other's locks.                                 *)
WaitsFor(t, u) == \E l \in Lock : Upcoming(t, "acquire", l) /\ owner[l] = u /\ t # u

NoDeadlock ==
  \A T \in (SUBSET Thread) \ {{}} : \E t \in T : \A u \in T : ~WaitsFor(t, u)

(* The locks that come with another one: a context's with that of its      *)
(* object store, the coordinator's with those of all stores.               *)
Complete(S) ==
  /\ \A c \in S \cap Context : Parent[c] \in S
  /\ Coordinator \in S => Store \subseteq S

Held(l) == {k \in Lock : \A S \in SUBSET Lock : l \in S /\ Complete(S) => k \in S}

(* A thread between its operations has the locks that its application has  *)
(* asked for, and no others.                                               *)
LocksBalanced ==
  \A t \in Thread :
    Ready(t) => {l \in Lock : owner[l] = t} = UNION {Held(c) : c \in {d \in locked : ThreadOf[d] = t}}

(* An application that locks its context while it changes objects does not *)
(* lose a change.                                                          *)
LockedChangesNoticed == \A c \in Context : <<c, TRUE>> \notin lost
=============================================================================
