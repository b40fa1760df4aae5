-------------------------- MODULE StoreLocksProofs --------------------------
(***************************************************************************)
(* Theorems about StoreLocks, for every set of threads, contexts and       *)
(* object stores.                                                          *)
(***************************************************************************)
EXTENDS StoreLocksInvariants, FiniteSetTheorems, WellFoundedInduction, TLAPS

-----------------------------------------------------------------------------
(* Paths: an empty sequence of steps stays where it is, two paths in a     *)
(* row are one, and a path that is not empty begins with its first step.   *)

LEMMA PathEmpty ==
  ASSUME NEW R, NEW S, NEW a \in S
  PROVE  Path(R, S, <<>>, a, a)
<1> DEFINE at == [i \in 1 .. 1 |-> a]
<1>1. Len(<<>>) = 0 /\ Len(<<>>) + 1 = 1
  OBVIOUS
<1>2. at \in [1 .. Len(<<>>) + 1 -> S] /\ at[1] = a
  BY <1>1
<1>3. 1 .. Len(<<>>) = {}
  BY <1>1
<1> HIDE DEF at
<1> QED
  BY <1>1, <1>2, <1>3 DEF Path

LEMMA PathStays ==
  ASSUME NEW R, NEW S, NEW a, NEW b, Path(R, S, <<>>, a, b)
  PROVE  a = b /\ a \in S
BY DEF Path

LEMMA PathOne ==
  ASSUME NEW R, NEW S, NEW x, NEW a \in S, NEW b \in S, <<x, a, b>> \in R
  PROVE  Path(R, S, <<x>>, a, b)
<1> DEFINE at == [i \in 1 .. 2 |-> IF i = 1 THEN a ELSE b]
<1>1. Len(<<x>>) = 1 /\ <<x>>[1] = x
  OBVIOUS
<1>2. at \in [1 .. Len(<<x>>) + 1 -> S] /\ at[1] = a /\ at[2] = b
  BY <1>1
<1>3. \A i \in 1 .. Len(<<x>>) : i = 1
  BY <1>1
<1> HIDE DEF at
<1> QED
  BY <1>1, <1>2, <1>3 DEF Path

LEMMA PathJoined ==
  ASSUME NEW R, NEW S, NEW X, NEW u \in Seq(X), NEW v \in Seq(X), NEW a, NEW b, NEW c,
         Path(R, S, u, a, b), Path(R, S, v, b, c)
  PROVE  Path(R, S, u \o v, a, c)
<1>1. PICK p \in [1 .. Len(u) + 1 -> S] :
        /\ p[1] = a /\ p[Len(u) + 1] = b
        /\ \A i \in 1 .. Len(u) : <<u[i], p[i], p[i + 1]>> \in R
  BY DEF Path
<1>2. PICK q \in [1 .. Len(v) + 1 -> S] :
        /\ q[1] = b /\ q[Len(v) + 1] = c
        /\ \A i \in 1 .. Len(v) : <<v[i], q[i], q[i + 1]>> \in R
  BY DEF Path
<1> DEFINE n == Len(u)
           m == Len(v)
           w == u \o v
           at == [i \in 1 .. n + m + 1 |-> IF i <= n THEN p[i] ELSE q[i - n]]
<1>3. n \in Nat /\ m \in Nat /\ Len(w) = n + m
  OBVIOUS
<1>4. /\ \A i \in 1 .. n : at[i] = p[i] /\ i \in 1 .. n + 1
      /\ \A i \in n + 1 .. n + m + 1 : at[i] = q[i - n] /\ i - n \in 1 .. m + 1
      /\ \A i \in 1 .. n + m + 1 : i \in 1 .. n \/ i \in n + 1 .. n + m + 1
  BY <1>3
<1>5. at \in [1 .. Len(w) + 1 -> S]
  <2>1. \A i \in 1 .. n + m + 1 : at[i] \in S
    BY <1>4, <1>1, <1>2
  <2> QED
    BY <2>1, <1>3
<1>6. at[1] = a /\ at[n + m + 1] = c
  <2>1. CASE n = 0
    BY <2>1, <1>1, <1>2, <1>3, <1>4
  <2>2. CASE n # 0
    BY <2>2, <1>1, <1>2, <1>3, <1>4
  <2> QED
    BY <2>1, <2>2
<1>7. ASSUME NEW i \in 1 .. n + m PROVE <<w[i], at[i], at[i + 1]>> \in R
  <2>1. CASE i < n
    <3>1. w[i] = u[i] /\ i \in 1 .. n /\ i + 1 \in 1 .. n
      BY <2>1, <1>3
    <3> QED
      BY <3>1, <1>1, <1>4
  <2>2. CASE i = n
    <3>1. w[i] = u[i] /\ i \in 1 .. n /\ i + 1 \in n + 1 .. n + m + 1 /\ i + 1 - n = 1
      BY <2>2, <1>3
    <3>2. at[i] = p[i] /\ at[i + 1] = p[i + 1]
      BY <3>1, <2>2, <1>1, <1>2, <1>4
    <3> QED
      BY <3>1, <3>2, <1>1
  <2>3. CASE i > n
    <3>1. i - n \in 1 .. m /\ w[i] = v[i - n] /\ i \in n + 1 .. n + m + 1
          /\ i + 1 \in n + 1 .. n + m + 1 /\ (i - n) + 1 = i + 1 - n
      BY <2>3, <1>3
    <3>2. at[i] = q[i - n] /\ at[i + 1] = q[i + 1 - n]
      BY <3>1, <1>4
    <3>3. <<v[i - n], q[i - n], q[(i - n) + 1]>> \in R
      BY <3>1, <1>2
    <3>4. (i - n) + 1 = i + 1 - n /\ w[i] = v[i - n]
      BY <3>1
    <3> HIDE DEF at, n, w
    <3> QED
      BY <3>2, <3>3, <3>4, Zenon
  <2>4. i < n \/ i = n \/ i > n
    BY <1>3
  <2> QED
    BY <2>1, <2>2, <2>3, <2>4, Zenon
<1> HIDE DEF at, n, m, w
<1>8. Path(R, S, w, a, c)
  BY <1>3, <1>5, <1>6, <1>7 DEF Path
<1> QED
  BY <1>8 DEF w

LEMMA PathFirst ==
  ASSUME NEW R, NEW S, NEW X, NEW w \in Seq(X), w # <<>>, NEW a, NEW c, Path(R, S, w, a, c)
  PROVE  \E b \in S : <<Head(w), a, b>> \in R /\ Path(R, S, Tail(w), b, c)
<1>1. PICK p \in [1 .. Len(w) + 1 -> S] :
        /\ p[1] = a /\ p[Len(w) + 1] = c
        /\ \A i \in 1 .. Len(w) : <<w[i], p[i], p[i + 1]>> \in R
  BY DEF Path
<1> DEFINE n == Len(w)
           q == [i \in 1 .. n |-> p[i + 1]]
<1>2. n \in Nat \ {0} /\ Len(Tail(w)) = n - 1 /\ Head(w) = w[1]
  OBVIOUS
<1>3. p[2] \in S /\ <<Head(w), a, p[2]>> \in R
  BY <1>1, <1>2
<1>4. q \in [1 .. Len(Tail(w)) + 1 -> S] /\ q[1] = p[2] /\ q[Len(Tail(w)) + 1] = c
  BY <1>1, <1>2
<1>5. ASSUME NEW i \in 1 .. n - 1 PROVE <<Tail(w)[i], q[i], q[i + 1]>> \in R
  <2>1. Tail(w)[i] = w[i + 1] /\ i + 1 \in 1 .. n /\ q[i] = p[i + 1] /\ q[i + 1] = p[i + 1 + 1]
    BY <1>2
  <2> QED
    BY <2>1, <1>1
<1> HIDE DEF q, n
<1>6. Path(R, S, Tail(w), p[2], c)
  BY <1>2, <1>4, <1>5 DEF Path
<1> QED
  BY <1>3, <1>6

-----------------------------------------------------------------------------
(* Types.  Sequences of steps that take back every suppression that they   *)
(* begin with: all that operations, messages and locks are made of.        *)

Neutral(steps) ==
  /\ steps \in Seq(Deed)
  /\ \A m \in Nat : Path(Hushing, Nat, steps, m, m)

LEMMA Stores == Store \subseteq Lock /\ Context \subseteq Lock /\ Coordinator \in Lock /\ 1 \in Store
BY LocksAssumption DEF Lock, Store

LEMMA NeutralEmpty == Neutral(<<>>)
BY PathEmpty DEF Neutral

LEMMA NeutralStep ==
  ASSUME NEW verb \in Verb \ {"suppress", "enable"}, NEW l \in Lock
  PROVE  Neutral(<<<<verb, l>>>>)
<1> DEFINE x == <<verb, l>>
<1>1. x \in Deed /\ x[1] = verb
  BY DEF Deed
<1>2. \A m \in Nat : <<x, m, m>> \in Hushing
  BY <1>1 DEF Hushing
<1>3. <<x>> \in Seq(Deed)
  BY <1>1
<1> HIDE DEF x
<1>4. \A m \in Nat : Path(Hushing, Nat, <<x>>, m, m)
  BY <1>2, PathOne
<1> QED
  BY <1>3, <1>4 DEF Neutral, x

LEMMA NeutralJoined ==
  ASSUME NEW u, NEW v, Neutral(u), Neutral(v)
  PROVE  Neutral(u \o v)
<1>1. u \in Seq(Deed) /\ v \in Seq(Deed)
  BY DEF Neutral
<1>2. u \o v \in Seq(Deed)
  BY <1>1
<1>3. \A m \in Nat : Path(Hushing, Nat, u \o v, m, m)
  BY <1>1, PathJoined DEF Neutral
<1> QED
  BY <1>2, <1>3 DEF Neutral

LEMMA NeutralWithin ==
  ASSUME NEW c \in Context, NEW body, Neutral(body)
  PROVE  Neutral(Within(c, body))
<1>1. Neutral(<<<<"take", c>>>>) /\ Neutral(<<<<"give", c>>>>)
  BY Stores, NeutralStep DEF Verb
<1> QED
  BY <1>1, NeutralJoined DEF Within

LEMMA NeutralQuietly ==
  ASSUME NEW body, Neutral(body)
  PROVE  Neutral(Quietly(body))
<1> DEFINE x == <<"suppress", Coordinator>>
           y == <<"enable", Coordinator>>
<1>1. x \in Deed /\ y \in Deed /\ x[1] = "suppress" /\ y[1] = "enable"
  BY Stores DEF Deed, Verb
<1>2. \A m \in Nat : <<x, m, m + 1>> \in Hushing /\ <<y, m + 1, m>> \in Hushing
  BY <1>1 DEF Hushing
<1>3. <<x>> \in Seq(Deed) /\ <<y>> \in Seq(Deed) /\ body \in Seq(Deed) /\ <<x>> \o body \in Seq(Deed)
  BY <1>1 DEF Neutral
<1>4. <<x>> \o body \o <<y>> \in Seq(Deed)
  BY <1>3
<1> HIDE DEF x, y
<1>5. ASSUME NEW m \in Nat PROVE Path(Hushing, Nat, <<x>> \o body \o <<y>>, m, m)
  <2>1. m + 1 \in Nat
    OBVIOUS
  <2>2. Path(Hushing, Nat, <<x>>, m, m + 1) /\ Path(Hushing, Nat, <<y>>, m + 1, m)
    BY <1>2, <2>1, PathOne
  <2>3. Path(Hushing, Nat, body, m + 1, m + 1)
    BY <2>1 DEF Neutral
  <2>4. Path(Hushing, Nat, <<x>> \o body, m, m + 1)
    BY <1>3, <2>2, <2>3, PathJoined
  <2> QED
    BY <1>3, <2>2, <2>4, PathJoined
<1> QED
  BY <1>4, <1>5 DEF Neutral, Quietly, x, y

LEMMA EachStoreTyped ==
  ASSUME NEW verb \in Verb
  PROVE  EachStore(verb) \in Seq(Deed) /\ Len(EachStore(verb)) = NumStores
<1>1. NumStores \in Nat /\ Store = 1 .. NumStores
  BY LocksAssumption DEF Store
<1>2. EachStore(verb) \in [1 .. NumStores -> Deed]
  BY <1>1, Stores DEF EachStore, Deed
<1> QED
  BY <1>1, <1>2

LEMMA NeutralEach ==
  ASSUME NEW verb \in Verb \ {"suppress", "enable"}
  PROVE  Neutral(EachStore(verb))
<1>1. EachStore(verb) \in Seq(Deed) /\ Len(EachStore(verb)) = NumStores
  BY EachStoreTyped
<1>2. NumStores \in Nat /\ Store = 1 .. NumStores
  BY LocksAssumption DEF Store
<1>3. ASSUME NEW m \in Nat PROVE Path(Hushing, Nat, EachStore(verb), m, m)
  <2> DEFINE at == [i \in 1 .. NumStores + 1 |-> m]
  <2>1. at \in [1 .. Len(EachStore(verb)) + 1 -> Nat] /\ at[1] = m /\ at[NumStores + 1] = m
    BY <1>1, <1>2
  <2>2. ASSUME NEW i \in 1 .. NumStores PROVE <<EachStore(verb)[i], at[i], at[i + 1]>> \in Hushing
    <3>1. EachStore(verb)[i] = <<verb, i>> /\ at[i] = m /\ at[i + 1] = m
      BY <1>2 DEF EachStore
    <3>2. <<verb, i>> \in Deed /\ <<verb, i>>[1] = verb
      BY <1>2, Stores DEF Deed
    <3> QED
      BY <3>1, <3>2 DEF Hushing
  <2> HIDE DEF at
  <2> QED
    BY <1>1, <2>1, <2>2 DEF Path
<1> QED
  BY <1>1, <1>3 DEF Neutral

LEMMA NeutralLocking ==
  ASSUME NEW l \in Context \cup {Coordinator}
  PROVE  Neutral(LockSteps(l)) /\ Neutral(UnlockSteps(l))
<1>1. CASE l = Coordinator
  <2>1. LockSteps(l) = <<<<"acquire", l>>>> \o EachStore("acquire")
        /\ UnlockSteps(l) = EachStore("release") \o <<<<"release", l>>>>
    BY <1>1, LocksAssumption DEF LockSteps, UnlockSteps
  <2>2. Neutral(<<<<"acquire", l>>>>) /\ Neutral(<<<<"release", l>>>>)
        /\ Neutral(EachStore("acquire")) /\ Neutral(EachStore("release"))
    BY <1>1, Stores, NeutralStep, NeutralEach DEF Verb
  <2> QED
    BY <2>1, <2>2, NeutralJoined
<1>2. CASE l \in Context
  <2>1. LockSteps(l) = <<<<"acquire", l>>>> \o <<<<"take", l>>>>
        /\ UnlockSteps(l) = <<<<"release", l>>>> \o <<<<"give", l>>>>
    BY <1>2, LocksAssumption DEF LockSteps, UnlockSteps
  <2>2. Neutral(<<<<"acquire", l>>>>) /\ Neutral(<<<<"take", l>>>>)
        /\ Neutral(<<<<"release", l>>>>) /\ Neutral(<<<<"give", l>>>>)
    BY <1>2, Stores, NeutralStep DEF Verb
  <2> QED
    BY <2>1, <2>2, NeutralJoined
<1> QED
  BY <1>1, <1>2

LEMMA ParentTyped ==
  ASSUME NEW c \in Context
  PROVE  Parent[c] \in Context \cup {Coordinator} /\ (Parent[c] # Coordinator => Parent[c] \in Context)
BY LocksAssumption

LEMMA NeutralToSomeStore ==
  ASSUME NEW more, Neutral(more), NEW steps \in ToSomeStore(more)
  PROVE  Neutral(steps)
<1>1. PICK s \in Store : steps = <<<<"use", s>>>> \o more
  BY DEF ToSomeStore
<1>2. Neutral(<<<<"use", s>>>>)
  BY Stores, NeutralStep DEF Verb
<1> QED
  BY <1>1, <1>2, NeutralJoined

LEMMA NeutralOperations ==
  ASSUME NEW c \in Context
  PROVE  /\ Neutral(Fetch(c)) /\ Neutral(Refault(c)) /\ Neutral(Invalidate(c))
         /\ Neutral(<<<<"ask", c>>>>) /\ Neutral(<<<<"tell", c>>>>)
         /\ Neutral(<<<<"take", c>>>>) /\ Neutral(<<<<"give", c>>>>)
<1>1. /\ Neutral(<<<<"ask", c>>>>) /\ Neutral(<<<<"fetch", c>>>>) /\ Neutral(<<<<"tell", c>>>>)
      /\ Neutral(<<<<"invalidate", c>>>>) /\ Neutral(<<<<"take", c>>>>) /\ Neutral(<<<<"give", c>>>>)
  BY Stores, NeutralStep DEF Verb
<1>2. Neutral(Fetch(c)) /\ Neutral(Refault(c))
  BY <1>1, NeutralQuietly, NeutralWithin DEF Fetch, Refault
<1>3. Neutral(Within(c, Refault(c))) /\ Neutral(Within(c, <<<<"invalidate", c>>>>))
  BY <1>1, <1>2, NeutralWithin
<1>4. Neutral(Invalidate(c))
  BY <1>3, NeutralJoined DEF Invalidate
<1> QED
  BY <1>1, <1>2, <1>4

LEMMA EachTellsTyped ==
  ASSUME NEW c \in Context
  PROVE  /\ EachTells(c) \in Seq(Deed) /\ Len(EachTells(c)) = 2 * NumStores
         /\ \A i \in 1 .. 2 * NumStores :
              EachTells(c)[i] = <<"tell", c>> \/ \E s \in Store : EachTells(c)[i] = <<"use", s>>
<1>1. NumStores \in Nat /\ 2 * NumStores \in Nat /\ Store = 1 .. NumStores
  BY LocksAssumption DEF Store
<1>2. ASSUME NEW i \in 1 .. 2 * NumStores
      PROVE  EachTells(c)[i] = <<"tell", c>> \/ \E s \in Store : EachTells(c)[i] = <<"use", s>>
  <2>1. CASE i % 2 = 1
    <3>1. (i + 1) \div 2 \in Store
      BY <1>1, <2>1
    <3> QED
      BY <2>1, <3>1 DEF EachTells
  <2>2. CASE i % 2 # 1
    BY <2>2 DEF EachTells
  <2> QED
    BY <2>1, <2>2
<1>3. <<"tell", c>> \in Deed /\ \A s \in Store : <<"use", s>> \in Deed
  BY Stores DEF Deed, Verb
<1>4. EachTells(c) = [i \in 1 .. 2 * NumStores |-> EachTells(c)[i]]
  BY DEF EachTells
<1> DEFINE w == EachTells(c)
<1> HIDE DEF w
<1>5. w \in [1 .. 2 * NumStores -> Deed]
  <2>1. \A i \in 1 .. 2 * NumStores : w[i] \in Deed
    BY <1>2, <1>3 DEF w
  <2>2. w = [i \in 1 .. 2 * NumStores |-> w[i]]
    BY <1>4 DEF w
  <2> QED
    BY <2>1, <2>2
<1>6. w \in Seq(Deed) /\ Len(w) = 2 * NumStores
  BY <1>1, <1>5
<1> QED
  BY <1>2, <1>6 DEF w

LEMMA NeutralEachTells ==
  ASSUME NEW c \in Context
  PROVE  Neutral(EachTells(c))
<1> DEFINE w == EachTells(c)
<1>1. /\ w \in Seq(Deed) /\ Len(w) = 2 * NumStores
      /\ \A i \in 1 .. Len(w) : w[i] = <<"tell", c>> \/ \E s \in Store : w[i] = <<"use", s>>
  BY EachTellsTyped
<1> HIDE DEF w
<1>2. Len(w) \in Nat
  BY <1>1
<1>3. ASSUME NEW m \in Nat PROVE Path(Hushing, Nat, w, m, m)
  <2> DEFINE at == [i \in 1 .. Len(w) + 1 |-> m]
  <2>1. at \in [1 .. Len(w) + 1 -> Nat] /\ at[1] = m /\ at[Len(w) + 1] = m
    BY <1>2
  <2>2. ASSUME NEW i \in 1 .. Len(w) PROVE <<w[i], at[i], at[i + 1]>> \in Hushing
    <3>1. at[i] = m /\ at[i + 1] = m
      BY <1>2
    <3>2. w[i] \in Deed /\ w[i][1] \notin {"suppress", "enable"}
      BY <1>1
    <3> HIDE DEF at
    <3> QED
      BY <3>1, <3>2 DEF Hushing
  <2> HIDE DEF at
  <2> QED
    BY <2>1, <2>2 DEF Path
<1>4. Neutral(w)
  BY <1>1, <1>3 DEF Neutral
<1> QED
  BY <1>4 DEF w

LEMMA NeutralMessages ==
  ASSUME NEW c \in Context, NEW steps \in Asked(c) \cup Fetched(c) \cup Invalidated(c) \cup Told(c)
  PROVE  Neutral(steps)
<1>1. CASE steps \in Told(c)
  BY <1>1, NeutralOperations, NeutralEmpty DEF Told, Notified
<1>2. CASE Parent[c] = Coordinator /\ steps \notin Told(c)
  BY <1>2, NeutralToSomeStore, NeutralEmpty, NeutralEachTells DEF Asked, Fetched, Invalidated
<1>3. CASE Parent[c] # Coordinator /\ steps \notin Told(c)
  BY <1>3, ParentTyped, NeutralOperations, NeutralWithin DEF Asked, Fetched, Invalidated
<1> QED
  BY <1>1, <1>2, <1>3

LEMMA NeutralSecondPhase ==
  ASSUME NEW s \in Store, NEW told, Neutral(told)
  PROVE  Neutral(SecondPhase(s, told))
<1> DEFINE rest == IF s < NumStores THEN <<<<"commit", s + 1>>>> ELSE <<>>
<1>1. Neutral(<<<<"acquire", s>>>>) /\ Neutral(<<<<"use", s>>>>) /\ Neutral(<<<<"release", s>>>>)
  BY Stores, NeutralStep DEF Verb
<1>2. Neutral(rest)
  <2>1. CASE s < NumStores
    <3>1. s + 1 \in Store
      BY <2>1, LocksAssumption DEF Store
    <3> QED
      BY <2>1, <3>1, Stores, NeutralStep DEF Verb
  <2> QED
    BY <2>1, NeutralEmpty
<1>3. <<<<"acquire", s>>, <<"use", s>>>> = <<<<"acquire", s>>>> \o <<<<"use", s>>>>
  OBVIOUS
<1>4. Neutral(<<<<"acquire", s>>, <<"use", s>>>>)
  BY <1>1, <1>3, NeutralJoined
<1>5. Neutral(<<<<"acquire", s>>, <<"use", s>>>> \o told)
  BY <1>4, NeutralJoined
<1>6. Neutral(<<<<"acquire", s>>, <<"use", s>>>> \o told \o <<<<"release", s>>>>)
  BY <1>1, <1>5, NeutralJoined
<1> HIDE DEF rest
<1>7. Neutral((<<<<"acquire", s>>, <<"use", s>>>> \o told \o <<<<"release", s>>>>) \o rest)
  BY <1>2, <1>6, NeutralJoined
<1> QED
  BY <1>7 DEF SecondPhase, rest

LEMMA NeutralSave ==
  ASSUME NEW c \in Context, NEW steps \in SavePaths(c)
  PROVE  Neutral(steps)
<1>1. Neutral(EachStore("acquire")) /\ Neutral(EachStore("use")) /\ Neutral(EachStore("release"))
  BY NeutralEach DEF Verb
<1>2. Neutral(SecondPhase(1, <<<<"tell", c>>>>)) /\ Neutral(SecondPhase(1, <<>>))
  BY Stores, NeutralSecondPhase, NeutralOperations, NeutralEmpty
<1>3. Neutral(EachStore("acquire") \o EachStore("use"))
  BY <1>1, NeutralJoined
<1>4. Neutral(EachStore("acquire") \o EachStore("use") \o EachStore("release"))
  BY <1>1, <1>3, NeutralJoined
<1>5. Neutral(EachStore("acquire") \o EachStore("use") \o EachStore("release") \o SecondPhase(1, <<<<"tell", c>>>>))
  BY <1>2, <1>4, NeutralJoined
<1>6. ASSUME NEW use \in ToSomeStore(<<>>)
      PROVE  Neutral(EachStore("acquire") \o use \o SecondPhase(1, <<>>))
  <2>1. Neutral(use)
    BY NeutralToSomeStore, NeutralEmpty
  <2>2. Neutral(EachStore("acquire") \o use)
    BY <1>1, <2>1, NeutralJoined
  <2> QED
    BY <1>2, <2>2, NeutralJoined
<1>7. Neutral(<<<<"ask", c>>>>)
  BY NeutralOperations
<1> QED
  BY <1>5, <1>6, <1>7 DEF SavePaths

LEMMA NeutralPaths ==
  ASSUME NEW c \in Context, NEW steps \in Operation(c)
  PROVE  Neutral(steps)
<1>1. /\ Neutral(Fetch(c)) /\ Neutral(Refault(c)) /\ Neutral(Invalidate(c))
      /\ Neutral(<<<<"ask", c>>>>) /\ Neutral(<<<<"take", c>>>>) /\ Neutral(<<<<"give", c>>>>)
  BY NeutralOperations
<1>2. ASSUME steps \in FirePaths(c) PROVE Neutral(steps)
  <2>1. ASSUME NEW use \in ToSomeStore(<<>>)
        PROVE  Neutral(Within(c, use \o Quietly(<<>>))) /\ Neutral(<<<<"take", c>>>> \o use)
    <3>1. Neutral(use) /\ Neutral(Quietly(<<>>))
      BY NeutralToSomeStore, NeutralEmpty, NeutralQuietly
    <3>2. Neutral(use \o Quietly(<<>>)) /\ Neutral(<<<<"take", c>>>> \o use)
      BY <1>1, <3>1, NeutralJoined
    <3> QED
      BY <3>2, NeutralWithin
  <2> QED
    BY <1>2, <2>1 DEF FirePaths
<1>3. ASSUME steps \in RefaultPaths(c) PROVE Neutral(steps)
  <2>1. Neutral(Quietly(<<<<"ask", c>>>>))
    BY <1>1, NeutralQuietly
  <2>2. Neutral(Within(c, Quietly(<<<<"ask", c>>>>))) /\ Neutral(<<<<"take", c>>>> \o Quietly(<<<<"ask", c>>>>))
    BY <1>1, <2>1, NeutralWithin, NeutralJoined
  <2> QED
    BY <1>1, <1>3, <2>2 DEF RefaultPaths
<1>4. ASSUME steps \in InvalidatePaths(c) PROVE Neutral(steps)
  <2>1. Neutral(Within(c, Invalidate(c)))
    BY <1>1, NeutralWithin
  <2>2. Neutral(<<<<"take", c>>>> \o <<<<"give", c>>>>)
    BY <1>1, NeutralJoined
  <2>3. Neutral((<<<<"take", c>>>> \o <<<<"give", c>>>>) \o <<<<"give", c>>>>)
    BY <1>1, <2>2, NeutralJoined
  <2>4. <<<<"take", c>>, <<"give", c>>, <<"give", c>>>> = (<<<<"take", c>>>> \o <<<<"give", c>>>>) \o <<<<"give", c>>>>
    OBVIOUS
  <2> QED
    BY <1>4, <2>1, <2>3, <2>4 DEF InvalidatePaths
<1>5. ASSUME steps \in SavePaths(c) PROVE Neutral(steps)
  BY <1>5, NeutralSave
<1> QED
  BY <1>1, <1>2, <1>3, <1>4, <1>5 DEF Operation

-----------------------------------------------------------------------------
(* suppressionCount stays the number of calls that threads still have to   *)
(* undo, whatever they do.                                                 *)

LEMMA TypeInit == Init => TypeInv
<1> SUFFICES ASSUME Init PROVE TypeInv
  OBVIOUS
<1>1. TypeOK
  BY DEF Init, TypeOK
<1>2. \A l \in Lock : owner[l] # None => depth[l] > 0
  BY DEF Init
<1>3. Hushed
  <2> DEFINE hush == [t \in Thread |-> 0]
  <2>1. Outstanding(hush) = {}
    BY DEF Outstanding
  <2>2. hush \in [Thread -> Nat] /\ \A t \in Thread : Path(Hushing, Nat, todo[t], hush[t], 0)
    <3>1. Path(Hushing, Nat, <<>>, 0, 0)
      BY PathEmpty
    <3> QED
      BY <3>1 DEF Init
  <2> HIDE DEF hush
  <2>3. IsFiniteSet(Outstanding(hush)) /\ suppressed = Cardinality(Outstanding(hush))
    BY <2>1, FS_EmptySet DEF Init
  <2> QED
    BY <2>2, <2>3 DEF Hushed
<1> QED
  BY <1>1, <1>2, <1>3 DEF TypeInv

(* What is still to be done after the first step.                          *)
LEMMA Following ==
  ASSUME TypeOK, NEW t \in Thread, NEW verb, NEW l, Upcoming(t, verb, l)
  PROVE  /\ todo[t] \in Seq(Deed) /\ todo[t] # <<>> /\ Tail(todo[t]) \in Seq(Deed)
         /\ Head(todo[t]) = <<verb, l>> /\ verb \in Verb /\ l \in Lock
<1>1. todo[t] \in Seq(Deed) /\ todo[t] # <<>> /\ Head(todo[t]) = <<verb, l>>
  BY DEF TypeOK, Upcoming, Deed
<1>2. Head(todo[t]) \in Deed /\ Tail(todo[t]) \in Seq(Deed)
  BY <1>1
<1> QED
  BY <1>1, <1>2 DEF Deed

LEMMA ThenTyped ==
  ASSUME TypeOK, NEW t \in Thread, NEW verb, NEW l, Upcoming(t, verb, l),
         NEW steps \in Seq(Deed), Then(t, steps)
  PROVE  /\ todo' \in [Thread -> Seq(Deed)]
         /\ todo'[t] = steps \o Tail(todo[t])
         /\ \A u \in Thread \ {t} : todo'[u] = todo[u]
<1>1. todo \in [Thread -> Seq(Deed)] /\ Tail(todo[t]) \in Seq(Deed)
  BY Following DEF TypeOK, Deed
<1>2. steps \o Tail(todo[t]) \in Seq(Deed)
  BY <1>1
<1> QED
  BY <1>1, <1>2 DEF Then

LEMMA HushedOn ==
  ASSUME TypeInv, NEW t \in Thread, NEW verb, NEW l, Upcoming(t, verb, l),
         verb \notin {"suppress", "enable"}, NEW steps, Neutral(steps), Then(t, steps),
         suppressed' = suppressed
  PROVE  Hushed'
<1>1. /\ todo[t] \in Seq(Deed) /\ todo[t] # <<>> /\ Tail(todo[t]) \in Seq(Deed)
      /\ Head(todo[t]) = <<verb, l>> /\ verb \in Verb /\ l \in Lock /\ steps \in Seq(Deed)
  BY Following DEF TypeInv, Neutral
<1>2. todo'[t] = steps \o Tail(todo[t]) /\ \A u \in Thread \ {t} : todo'[u] = todo[u]
  BY <1>1, ThenTyped DEF TypeInv
<1>3. PICK hush \in [Thread -> Nat] :
        /\ \A u \in Thread : Path(Hushing, Nat, todo[u], hush[u], 0)
        /\ IsFiniteSet(Outstanding(hush)) /\ suppressed = Cardinality(Outstanding(hush))
  BY DEF TypeInv, Hushed
<1>4. PICK b \in Nat : /\ <<Head(todo[t]), hush[t], b>> \in Hushing
                       /\ Path(Hushing, Nat, Tail(todo[t]), b, 0)
  BY <1>1, <1>3, PathFirst
<1>5. b = hush[t]
  BY <1>1, <1>4 DEF Hushing
<1>6. Path(Hushing, Nat, todo'[t], hush[t], 0)
  <2>1. Path(Hushing, Nat, steps, hush[t], hush[t]) /\ Path(Hushing, Nat, Tail(todo[t]), hush[t], 0)
    BY <1>4, <1>5 DEF Neutral
  <2> QED
    BY <1>1, <1>2, <2>1, PathJoined
<1>7. \A u \in Thread : Path(Hushing, Nat, todo'[u], hush[u], 0)
  BY <1>2, <1>3, <1>6
<1>8. IsFiniteSet(Outstanding(hush)) /\ suppressed' = Cardinality(Outstanding(hush))
  BY <1>3
<1> QED
  BY <1>7, <1>8 DEF Hushed

LEMMA HushedAgain ==
  ASSUME TypeInv, NEW t \in Thread, Ready(t), NEW steps, Neutral(steps), Do(t, steps)
  PROVE  Hushed' /\ todo' \in [Thread -> Seq(Deed)]
<1>1. steps \in Seq(Deed) /\ todo \in [Thread -> Seq(Deed)]
  BY DEF Neutral, TypeInv, TypeOK, Deed
<1>2. todo' \in [Thread -> Seq(Deed)] /\ todo'[t] = steps /\ \A u \in Thread \ {t} : todo'[u] = todo[u]
  BY <1>1 DEF Do
<1>3. PICK hush \in [Thread -> Nat] :
        /\ \A u \in Thread : Path(Hushing, Nat, todo[u], hush[u], 0)
        /\ IsFiniteSet(Outstanding(hush)) /\ suppressed = Cardinality(Outstanding(hush))
  BY DEF TypeInv, Hushed
<1>4. hush[t] = 0
  BY <1>3, PathStays DEF Ready
<1>5. Path(Hushing, Nat, todo'[t], hush[t], 0)
  BY <1>2, <1>4 DEF Neutral
<1>6. \A u \in Thread : Path(Hushing, Nat, todo'[u], hush[u], 0)
  BY <1>2, <1>3, <1>5
<1>7. IsFiniteSet(Outstanding(hush)) /\ suppressed' = Cardinality(Outstanding(hush))
  BY <1>3 DEF Do
<1>8. Hushed'
  BY <1>6, <1>7 DEF Hushed
<1> QED
  BY <1>2, <1>8

LEMMA HushedMore ==
  ASSUME TypeInv, NEW t \in Thread, Suppress(t)
  PROVE  Hushed' /\ suppressed' \in Nat
<1>1. Upcoming(t, "suppress", Coordinator) /\ Then(t, <<>>) /\ suppressed' = suppressed + 1
      /\ <<>> \in Seq(Deed) /\ TypeOK
  BY DEF Suppress, TypeInv
<1>2. /\ todo[t] \in Seq(Deed) /\ todo[t] # <<>> /\ Tail(todo[t]) \in Seq(Deed)
      /\ Head(todo[t]) = <<"suppress", Coordinator>>
  BY <1>1, Following
<1>3. todo'[t] = Tail(todo[t]) /\ \A u \in Thread \ {t} : todo'[u] = todo[u]
  <2>1. todo'[t] = <<>> \o Tail(todo[t]) /\ \A u \in Thread \ {t} : todo'[u] = todo[u]
    BY <1>1, ThenTyped
  <2> QED
    BY <1>2, <2>1
<1>4. PICK hush \in [Thread -> Nat] :
        /\ \A u \in Thread : Path(Hushing, Nat, todo[u], hush[u], 0)
        /\ IsFiniteSet(Outstanding(hush)) /\ suppressed = Cardinality(Outstanding(hush))
  BY DEF TypeInv, Hushed
<1>5. PICK b \in Nat : /\ <<Head(todo[t]), hush[t], b>> \in Hushing
                       /\ Path(Hushing, Nat, Tail(todo[t]), b, 0)
  BY <1>2, <1>4, PathFirst
<1>6. b = hush[t] + 1
  BY <1>2, <1>5 DEF Hushing
<1> DEFINE next == [hush EXCEPT ![t] = b]
           new == <<t, b>>
<1>7. Outstanding(next) = Outstanding(hush) \cup {new} /\ new \notin Outstanding(hush)
  BY <1>4, <1>6 DEF Outstanding
<1>8. next \in [Thread -> Nat] /\ \A u \in Thread : Path(Hushing, Nat, todo'[u], next[u], 0)
  BY <1>3, <1>4, <1>5
<1> HIDE DEF next, new
<1>9. Cardinality(Outstanding(hush)) \in Nat
  BY <1>4, FS_CardinalityType
<1>10. IsFiniteSet(Outstanding(next)) /\ Cardinality(Outstanding(next)) = Cardinality(Outstanding(hush)) + 1
  BY <1>4, <1>7, FS_AddElement
<1> QED
  BY <1>1, <1>4, <1>8, <1>9, <1>10 DEF Hushed

LEMMA HushedLess ==
  ASSUME TypeInv, NEW t \in Thread, Enable(t)
  PROVE  Hushed' /\ suppressed' \in Nat
<1>1. Upcoming(t, "enable", Coordinator) /\ Then(t, <<>>) /\ suppressed' = suppressed - 1
      /\ <<>> \in Seq(Deed) /\ TypeOK
  BY DEF Enable, TypeInv
<1>2. /\ todo[t] \in Seq(Deed) /\ todo[t] # <<>> /\ Tail(todo[t]) \in Seq(Deed)
      /\ Head(todo[t]) = <<"enable", Coordinator>>
  BY <1>1, Following
<1>3. todo'[t] = Tail(todo[t]) /\ \A u \in Thread \ {t} : todo'[u] = todo[u]
  <2>1. todo'[t] = <<>> \o Tail(todo[t]) /\ \A u \in Thread \ {t} : todo'[u] = todo[u]
    BY <1>1, ThenTyped
  <2> QED
    BY <1>2, <2>1
<1>4. PICK hush \in [Thread -> Nat] :
        /\ \A u \in Thread : Path(Hushing, Nat, todo[u], hush[u], 0)
        /\ IsFiniteSet(Outstanding(hush)) /\ suppressed = Cardinality(Outstanding(hush))
  BY DEF TypeInv, Hushed
<1>5. PICK b \in Nat : /\ <<Head(todo[t]), hush[t], b>> \in Hushing
                       /\ Path(Hushing, Nat, Tail(todo[t]), b, 0)
  BY <1>2, <1>4, PathFirst
<1>6. hush[t] = b + 1
  BY <1>2, <1>5 DEF Hushing
<1> DEFINE next == [hush EXCEPT ![t] = b]
           old == <<t, b + 1>>
<1>7. Outstanding(next) = Outstanding(hush) \ {old} /\ old \in Outstanding(hush)
  BY <1>4, <1>6 DEF Outstanding
<1>8. next \in [Thread -> Nat] /\ \A u \in Thread : Path(Hushing, Nat, todo'[u], next[u], 0)
  BY <1>3, <1>4, <1>5
<1> HIDE DEF next, old
<1>9. Cardinality(Outstanding(hush)) \in Nat /\ Cardinality(Outstanding(next)) \in Nat
  BY <1>4, <1>7, FS_CardinalityType, FS_RemoveElement
<1>10. IsFiniteSet(Outstanding(next)) /\ Cardinality(Outstanding(next)) = Cardinality(Outstanding(hush)) - 1
  BY <1>4, <1>7, FS_RemoveElement
<1> QED
  BY <1>1, <1>4, <1>8, <1>9, <1>10 DEF Hushed

-----------------------------------------------------------------------------
(* Every step keeps the types.                                             *)

LEMMA TypeStep ==
  ASSUME TypeInv, [Next]_vars
  PROVE  TypeInv'
<1>1. TypeOK /\ \A l \in Lock : owner[l] # None => depth[l] > 0
  BY DEF TypeInv
<1>2. /\ owner \in [Lock -> Thread \cup {None}] /\ depth \in [Lock -> Nat] /\ lockCount \in [Lock -> Nat]
      /\ storeCount \in [Context -> Int] /\ suppressed \in Nat /\ locked \subseteq Context
      /\ todo \in [Thread -> Seq(Deed)] /\ lost \subseteq Context \X BOOLEAN
  BY <1>1 DEF TypeOK, Deed
<1>3. ASSUME /\ owner' = owner /\ depth' = depth /\ lockCount' = lockCount
             /\ storeCount' \in [Context -> Int] /\ suppressed' \in Nat /\ locked' \subseteq Context
             /\ todo' \in [Thread -> Seq(Deed)] /\ lost' \subseteq Context \X BOOLEAN /\ Hushed'
      PROVE  TypeInv'
  BY <1>1, <1>2, <1>3 DEF TypeInv, TypeOK, Deed
<1>4. ASSUME NEW c \in Context, LockContext(c) PROVE TypeInv'
  <2>1. ThreadOf[c] \in Thread /\ Ready(ThreadOf[c]) /\ Do(ThreadOf[c], LockSteps(c))
    BY <1>4, LocksAssumption DEF LockContext
  <2>2. Hushed' /\ todo' \in [Thread -> Seq(Deed)]
    BY <2>1, NeutralLocking, HushedAgain
  <2> QED
    BY <1>2, <1>3, <1>4, <2>1, <2>2 DEF LockContext, Do
<1>5. ASSUME NEW c \in Context, UnlockContext(c) PROVE TypeInv'
  <2>1. ThreadOf[c] \in Thread /\ Ready(ThreadOf[c]) /\ Do(ThreadOf[c], UnlockSteps(c))
    BY <1>5, LocksAssumption DEF UnlockContext
  <2>2. Hushed' /\ todo' \in [Thread -> Seq(Deed)]
    BY <2>1, NeutralLocking, HushedAgain
  <2> QED
    BY <1>2, <1>3, <1>5, <2>1, <2>2 DEF UnlockContext, Do
<1>6. ASSUME NEW c \in Context, Operate(c) PROVE TypeInv'
  <2>1. PICK steps \in Operation(c) : Do(ThreadOf[c], steps)
    BY <1>6 DEF Operate
  <2>2. ThreadOf[c] \in Thread /\ Ready(ThreadOf[c]) /\ Neutral(steps)
    BY <1>6, NeutralPaths, LocksAssumption DEF Operate
  <2>3. Hushed' /\ todo' \in [Thread -> Seq(Deed)]
    BY <2>1, <2>2, HushedAgain
  <2> QED
    BY <1>2, <1>3, <1>6, <2>1, <2>3 DEF Operate, Do
<1>7. ASSUME NEW c \in Context, Edit(c) PROVE TypeInv'
  <2>1. lost' \subseteq Context \X BOOLEAN
    <3>1. <<c, c \in locked>> \in Context \X BOOLEAN
      <4> DEFINE b == c \in locked
      <4>1. b \in BOOLEAN
        OBVIOUS
      <4> HIDE DEF b
      <4>2. <<c, b>> \in Context \X BOOLEAN
        BY <4>1
      <4> QED
        BY <4>2 DEF b
    <3>2. lost' = lost \/ lost' = lost \cup {<<c, c \in locked>>}
      BY <1>7 DEF Edit
    <3> QED
      BY <1>2, <3>1, <3>2
  <2>2. Hushed'
    BY <1>7 DEF TypeInv, Hushed, Edit
  <2> QED
    BY <1>2, <1>3, <1>7, <2>1, <2>2 DEF Edit
<1>8. ASSUME NEW t \in Thread, NEW l \in Lock, Acquire(t, l) PROVE TypeInv'
  <2>1. Upcoming(t, "acquire", l) /\ Then(t, <<>>) /\ suppressed' = suppressed /\ <<>> \in Seq(Deed)
    BY <1>8 DEF Acquire
  <2>2. Hushed' /\ todo' \in [Thread -> Seq(Deed)]
    BY <1>1, <2>1, HushedOn, NeutralEmpty, ThenTyped
  <2>3. /\ owner' \in [Lock -> Thread \cup {None}] /\ depth' \in [Lock -> Nat] /\ lockCount' \in [Lock -> Nat]
        /\ \A k \in Lock : owner'[k] # None => depth'[k] > 0
    BY <1>1, <1>2, <1>8 DEF Acquire
  <2> QED
    BY <1>2, <1>8, <2>2, <2>3 DEF Acquire, TypeInv, TypeOK, Deed
<1>9. ASSUME NEW t \in Thread, NEW l \in Lock, Release(t, l) PROVE TypeInv'
  <2>1. Upcoming(t, "release", l) /\ Then(t, <<>>) /\ suppressed' = suppressed /\ <<>> \in Seq(Deed)
    BY <1>9 DEF Release
  <2>2. Hushed' /\ todo' \in [Thread -> Seq(Deed)]
    BY <1>1, <2>1, HushedOn, NeutralEmpty, ThenTyped
  <2>3. t # None
    BY LocksAssumption
  <2>4. /\ owner' \in [Lock -> Thread \cup {None}] /\ depth' \in [Lock -> Nat] /\ lockCount' \in [Lock -> Nat]
        /\ \A k \in Lock : owner'[k] # None => depth'[k] > 0
    <3>1. CASE lockCount[l] > 0 /\ owner[l] = t
      BY <1>1, <1>2, <1>9, <2>3, <3>1 DEF Release
    <3>2. CASE ~(lockCount[l] > 0 /\ owner[l] = t)
      BY <1>1, <1>2, <1>9, <2>3, <3>2 DEF Release
    <3> QED
      BY <3>1, <3>2
  <2> QED
    BY <1>2, <1>9, <2>2, <2>4 DEF Release, TypeInv, TypeOK, Deed
<1>10. ASSUME NEW t \in Thread, NEW c \in Context, NEW verb \in Verb \ {"suppress", "enable"},
              NEW steps, Neutral(steps), NEW n \in Int, Upcoming(t, verb, c), Then(t, steps), Count(c, n)
       PROVE  TypeInv'
  <2>1. suppressed' = suppressed /\ storeCount' \in [Context -> Int]
    BY <1>2, <1>10 DEF Count
  <2>2. Hushed'
    BY <1>10, <2>1, HushedOn
  <2>3. todo' \in [Thread -> Seq(Deed)]
    BY <1>1, <1>10, ThenTyped DEF Neutral
  <2> QED
    BY <1>2, <1>3, <1>10, <2>1, <2>2, <2>3 DEF Count
<1>17. ASSUME NEW t \in Thread, NEW c \in Context, Take(t, c) \/ Taken(t, c) \/ Give(t, c) PROVE TypeInv'
  <2>1. Neutral(LockSteps(Parent[c])) /\ Neutral(UnlockSteps(Parent[c])) /\ Neutral(<<>>)
    BY ParentTyped, NeutralLocking, NeutralEmpty
  <2>2. Neutral(<<<<"taken", c>>>>)
    BY Stores, NeutralStep DEF Verb
  <2>3. Neutral(LockSteps(Parent[c]) \o <<<<"taken", c>>>>)
    BY <2>1, <2>2, NeutralJoined
  <2>4. {"take", "taken", "give"} \subseteq Verb \ {"suppress", "enable"} /\ 0 \in Int /\ 1 \in Int /\ -1 \in Int
    BY DEF Verb
  <2>5. CASE Take(t, c) /\ storeCount[c] = 0
    BY <1>10, <2>3, <2>4, <2>5 DEF Take
  <2>6. CASE Take(t, c) /\ storeCount[c] # 0
    BY <1>10, <2>1, <2>4, <2>6 DEF Take
  <2>7. CASE Taken(t, c)
    BY <1>10, <2>1, <2>4, <2>7 DEF Taken
  <2>8. CASE Give(t, c) /\ storeCount[c] = 1
    BY <1>10, <2>1, <2>4, <2>8 DEF Give
  <2>9. CASE Give(t, c) /\ storeCount[c] # 1
    BY <1>10, <2>1, <2>4, <2>9 DEF Give
  <2> QED
    BY <1>17, <2>5, <2>6, <2>7, <2>8, <2>9
<1>11. ASSUME NEW t \in Thread, NEW verb \in Verb \ {"suppress", "enable"}, NEW l, NEW steps, Neutral(steps),
              Upcoming(t, verb, l), Then(t, steps),
              UNCHANGED <<owner, depth, lockCount, storeCount, suppressed, locked, lost>>
       PROVE  TypeInv'
  <2>1. Hushed'
    BY <1>11, HushedOn
  <2>2. todo' \in [Thread -> Seq(Deed)]
    BY <1>1, <1>11, ThenTyped DEF Neutral
  <2> QED
    BY <1>2, <1>3, <1>11, <2>1, <2>2
<1>12. ASSUME NEW t \in Thread, NEW s \in Store, Use(t, s) PROVE TypeInv'
  BY <1>11, <1>12, NeutralEmpty DEF Use, Verb
<1>13. ASSUME NEW t \in Thread, NEW s \in Store, Commit(t, s) PROVE TypeInv'
  <2>1. Neutral(SecondPhase(s, <<>>))
    BY NeutralSecondPhase, NeutralEmpty
  <2> QED
    BY <1>11, <1>13, <2>1 DEF Commit, Send, Verb
<1>14. ASSUME NEW t \in Thread, NEW c \in Context, Message(t, c) PROVE TypeInv'
  <2>1. PICK verb \in {"ask", "fetch", "invalidate", "tell"},
             steps \in Asked(c) \cup Fetched(c) \cup Invalidated(c) \cup Told(c) :
          /\ Upcoming(t, verb, c) /\ Then(t, steps)
          /\ UNCHANGED <<owner, depth, lockCount, storeCount, suppressed, locked, lost>>
    BY <1>14 DEF Message, Send
  <2>2. Neutral(steps)
    BY NeutralMessages
  <2> QED
    BY <1>11, <2>1, <2>2 DEF Verb
<1>15. ASSUME NEW t \in Thread, Suppress(t) \/ Enable(t) PROVE TypeInv'
  <2>1. Hushed' /\ suppressed' \in Nat
    BY <1>15, HushedMore, HushedLess
  <2>2. PICK verb \in {"suppress", "enable"} : Upcoming(t, verb, Coordinator) /\ Then(t, <<>>)
    BY <1>15 DEF Suppress, Enable
  <2>3. <<>> \in Seq(Deed)
    OBVIOUS
  <2>4. todo' \in [Thread -> Seq(Deed)]
    BY <1>1, <2>2, <2>3, ThenTyped
  <2> QED
    BY <1>2, <1>3, <1>15, <2>1, <2>4 DEF Suppress, Enable
<1>16. CASE UNCHANGED vars
  <2>1. Hushed'
    BY <1>16 DEF TypeInv, Hushed, vars
  <2> QED
    BY <1>2, <1>3, <1>16, <2>1 DEF vars
<1> QED
  BY <1>4, <1>5, <1>6, <1>7, <1>8, <1>9, <1>12, <1>13, <1>14, <1>15, <1>16, <1>17 DEF Next, Step

(* The locks keep their types whatever applications do and whatever goes   *)
(* wrong: in particular suppressionCount is never below zero, so           *)
(* enableObserverNotification does not find that it is "Not paired with a  *)
(* prior suppressObserverNotification".                                    *)
THEOREM TypeCorrect == Spec => []TypeOK
<1>1. Init => TypeInv
  BY TypeInit
<1>2. TypeInv /\ [Next]_vars => TypeInv'
  BY TypeStep
<1>3. TypeInv => TypeOK
  BY DEF TypeInv
<1> QED
  BY <1>1, <1>2, <1>3, PTL DEF Spec

-----------------------------------------------------------------------------
(* Debts.  Operations that may begin with nothing but what a thread keeps  *)
(* between its operations (Starts), and parts of them that rely on the     *)
(* context's object store being locked (Keeps); both leave the debts as    *)
(* they were.                                                              *)

Keeps(t, steps) ==
  /\ steps \in Seq(Deed)
  /\ \A D \in Debt : NoStores(D) /\ Inside(D) => Plan(t, steps, D, D)

Starts(t, steps) ==
  /\ steps \in Seq(Deed)
  /\ \A D \in Debt : NoStores(D) => Plan(t, steps, D, D)

LEMMA DebtParts ==
  ASSUME NEW D \in Debt
  PROVE  /\ D.locks \in [Lock -> Nat] /\ D.takes \in [Context -> Nat] /\ D.quiet \in Nat
         /\ D = [locks |-> D.locks, takes |-> D.takes, quiet |-> D.quiet]
         /\ D.quiet > 0 => Inside(D)
BY DEF Debt

LEMMA DebtIs ==
  ASSUME NEW f \in [Lock -> Nat], NEW g \in [Context -> Nat], NEW q \in Nat,
         q > 0 => \E c \in Context : g[c] > 0
  PROVE  [locks |-> f, takes |-> g, quiet |-> q] \in Debt
BY DEF Debt, Inside

LEMMA LockingDebt ==
  ASSUME NEW D \in Debt, NEW l \in Lock
  PROVE  /\ Locking(D, l) \in Debt
         /\ Inside(D) => Inside(Locking(D, l))
         /\ NoStores(D) /\ l \notin Store => NoStores(Locking(D, l))
<1>1. D.locks \in [Lock -> Nat] /\ D.takes \in [Context -> Nat] /\ D.quiet \in Nat /\ (D.quiet > 0 => Inside(D))
  BY DebtParts
<1>2. [D.locks EXCEPT ![l] = @ + 1] \in [Lock -> Nat]
  BY <1>1
<1>3. Locking(D, l) \in Debt
  BY <1>1, <1>2, DebtIs DEF Locking, Inside
<1>4. NoStores(D) /\ l \notin Store => NoStores(Locking(D, l))
  BY <1>1, Stores DEF NoStores, Locking
<1> QED
  BY <1>3, <1>4 DEF Locking, Inside

LEMMA TakingDebt ==
  ASSUME NEW D \in Debt, NEW c \in Context
  PROVE  /\ Taking(D, c) \in Debt /\ Inside(Taking(D, c))
         /\ NoStores(D) => NoStores(Taking(D, c))
<1>1. D.locks \in [Lock -> Nat] /\ D.takes \in [Context -> Nat] /\ D.quiet \in Nat
  BY DebtParts
<1>2. [D.takes EXCEPT ![c] = @ + 1] \in [Context -> Nat] /\ [D.takes EXCEPT ![c] = @ + 1][c] > 0
  BY <1>1
<1>3. Taking(D, c) \in Debt
  BY <1>1, <1>2, DebtIs DEF Taking
<1> QED
  BY <1>2, <1>3 DEF Taking, Inside, NoStores

LEMMA QuietingDebt ==
  ASSUME NEW D \in Debt, Inside(D)
  PROVE  /\ Quieting(D) \in Debt /\ Inside(Quieting(D))
         /\ NoStores(D) => NoStores(Quieting(D))
<1>1. D.locks \in [Lock -> Nat] /\ D.takes \in [Context -> Nat] /\ D.quiet + 1 \in Nat
  BY DebtParts
<1>2. Quieting(D) \in Debt
  BY <1>1, DebtIs DEF Quieting, Inside
<1> QED
  BY <1>2 DEF Quieting, Inside, NoStores

LEMMA EachLockedDebt ==
  ASSUME NEW D \in Debt
  PROVE  /\ EachLocked(D) \in Debt
         /\ Inside(D) => Inside(EachLocked(D))
         /\ \A s \in Store : EachLocked(D).locks[s] = D.locks[s] + 1
<1>1. D.locks \in [Lock -> Nat] /\ D.takes \in [Context -> Nat] /\ D.quiet \in Nat /\ (D.quiet > 0 => Inside(D))
  BY DebtParts
<1>2. [l \in Lock |-> IF l \in Store THEN D.locks[l] + 1 ELSE D.locks[l]] \in [Lock -> Nat]
  BY <1>1
<1>3. EachLocked(D) \in Debt
  BY <1>1, <1>2, DebtIs DEF EachLocked, Inside
<1> QED
  BY <1>1, <1>3, Stores DEF EachLocked, Inside

LEMMA AttachedDebt ==
  ASSUME NEW D \in Debt, NEW l \in Context \cup {Coordinator}
  PROVE  Attached(D, l) \in Debt
<1>1. Locking(D, l) \in Debt
  BY Stores, LockingDebt
<1>2. CASE l = Coordinator
  BY <1>1, <1>2, EachLockedDebt DEF Attached
<1>3. CASE l # Coordinator
  BY <1>1, <1>3, TakingDebt DEF Attached
<1> QED
  BY <1>2, <1>3

LEMMA PlanOne ==
  ASSUME NEW t, NEW verb \in Verb, NEW l \in Lock, NEW D \in Debt, NEW E \in Debt,
         Does(t, <<verb, l>>, D, E)
  PROVE  Plan(t, <<<<verb, l>>>>, D, E) /\ <<<<verb, l>>>> \in Seq(Deed)
<1> DEFINE x == <<verb, l>>
<1>1. x \in Deed
  BY DEF Deed
<1>2. <<x, D, E>> \in Doing(t)
  BY <1>1 DEF Doing
<1> HIDE DEF x
<1>3. Plan(t, <<x>>, D, E) /\ <<x>> \in Seq(Deed)
  BY <1>1, <1>2, PathOne DEF Plan
<1> QED
  BY <1>3 DEF x

LEMMA PlanJoined ==
  ASSUME NEW t, NEW u \in Seq(Deed), NEW v \in Seq(Deed), NEW D, NEW E, NEW F,
         Plan(t, u, D, E), Plan(t, v, E, F)
  PROVE  Plan(t, u \o v, D, F) /\ u \o v \in Seq(Deed)
BY PathJoined DEF Plan

LEMMA StartsKeeps == ASSUME NEW t, NEW steps, Starts(t, steps) PROVE Keeps(t, steps)
BY DEF Starts, Keeps

LEMMA StartsEmpty == ASSUME NEW t PROVE Starts(t, <<>>)
BY PathEmpty DEF Starts, Plan

LEMMA KeepsJoined ==
  ASSUME NEW t, NEW u, NEW v, Keeps(t, u), Keeps(t, v)
  PROVE  Keeps(t, u \o v)
<1>1. u \in Seq(Deed) /\ v \in Seq(Deed)
  BY DEF Keeps
<1>2. u \o v \in Seq(Deed)
  BY <1>1
<1>3. \A D \in Debt : NoStores(D) /\ Inside(D) => Plan(t, u \o v, D, D)
  BY <1>1, PlanJoined DEF Keeps
<1> QED
  BY <1>2, <1>3 DEF Keeps

LEMMA StartsJoined ==
  ASSUME NEW t, NEW u, NEW v, Starts(t, u), Starts(t, v)
  PROVE  Starts(t, u \o v)
<1>1. u \in Seq(Deed) /\ v \in Seq(Deed)
  BY DEF Starts
<1>2. u \o v \in Seq(Deed)
  BY <1>1
<1>3. \A D \in Debt : NoStores(D) => Plan(t, u \o v, D, D)
  BY <1>1, PlanJoined DEF Starts
<1> QED
  BY <1>2, <1>3 DEF Starts

LEMMA StartsWithin ==
  ASSUME NEW c \in Context, NEW body, Keeps(ThreadOf[c], body)
  PROVE  Starts(ThreadOf[c], Within(c, body))
<1> DEFINE t == ThreadOf[c]
           x == <<"take", c>>
           y == <<"give", c>>
<1>1. c \in Lock /\ "take" \in Verb /\ "give" \in Verb /\ body \in Seq(Deed)
  BY Stores DEF Verb, Keeps
<1>2. ASSUME NEW D \in Debt, NoStores(D)
      PROVE  Plan(t, <<x>>, D, Taking(D, c)) /\ Plan(t, body, Taking(D, c), Taking(D, c))
             /\ Plan(t, <<y>>, Taking(D, c), D)
  <2>1. Taking(D, c) \in Debt /\ Inside(Taking(D, c)) /\ NoStores(Taking(D, c))
    BY <1>2, TakingDebt
  <2>2. Does(t, x, D, Taking(D, c)) /\ Does(t, y, Taking(D, c), D)
    BY <1>2 DEF Does
  <2> QED
    BY <1>1, <2>1, <2>2, PlanOne DEF Keeps
<1>3. x \in Deed /\ y \in Deed
  BY <1>1 DEF Deed
<1> HIDE DEF t, x, y
<1>4. <<x>> \in Seq(Deed) /\ <<y>> \in Seq(Deed) /\ <<x>> \o body \in Seq(Deed) /\ (<<x>> \o body) \o <<y>> \in Seq(Deed)
  BY <1>1, <1>3
<1>5. \A D \in Debt : NoStores(D) => Plan(t, (<<x>> \o body) \o <<y>>, D, D)
  BY <1>1, <1>2, <1>4, PlanJoined
<1> QED
  BY <1>4, <1>5 DEF Starts, Within, t, x, y

LEMMA KeepsQuietly ==
  ASSUME NEW t, NEW body, Keeps(t, body)
  PROVE  Keeps(t, Quietly(body))
<1> DEFINE x == <<"suppress", Coordinator>>
           y == <<"enable", Coordinator>>
<1>1. Coordinator \in Lock /\ "suppress" \in Verb /\ "enable" \in Verb /\ body \in Seq(Deed)
  BY Stores DEF Verb, Keeps
<1>2. ASSUME NEW D \in Debt, NoStores(D), Inside(D)
      PROVE  Plan(t, <<x>>, D, Quieting(D)) /\ Plan(t, body, Quieting(D), Quieting(D))
             /\ Plan(t, <<y>>, Quieting(D), D)
  <2>1. Quieting(D) \in Debt /\ Inside(Quieting(D)) /\ NoStores(Quieting(D))
    BY <1>2, QuietingDebt
  <2>2. Does(t, x, D, Quieting(D)) /\ Does(t, y, Quieting(D), D)
    BY DEF Does
  <2> QED
    BY <1>1, <2>1, <2>2, PlanOne DEF Keeps
<1>3. x \in Deed /\ y \in Deed
  BY <1>1 DEF Deed
<1> HIDE DEF x, y
<1>4. <<x>> \in Seq(Deed) /\ <<y>> \in Seq(Deed) /\ <<x>> \o body \in Seq(Deed) /\ (<<x>> \o body) \o <<y>> \in Seq(Deed)
  BY <1>1, <1>3
<1>5. \A D \in Debt : NoStores(D) /\ Inside(D) => Plan(t, (<<x>> \o body) \o <<y>>, D, D)
  BY <1>1, <1>2, <1>4, PlanJoined
<1> QED
  BY <1>4, <1>5 DEF Keeps, Quietly, x, y

LEMMA PlanEachAcquire ==
  ASSUME NEW t, NEW D \in Debt, NoStores(D)
  PROVE  Plan(t, EachStore("acquire"), D, EachLocked(D))
<1> DEFINE w == EachStore("acquire")
           at == [i \in 1 .. NumStores + 1 |->
                    [locks |-> [l \in Lock |-> IF l \in 1 .. i - 1 THEN D.locks[l] + 1 ELSE D.locks[l]],
                     takes |-> D.takes, quiet |-> D.quiet]]
<1>1. w \in Seq(Deed) /\ Len(w) = NumStores
  BY EachStoreTyped DEF Verb
<1>2. NumStores \in Nat \ {0} /\ Store = 1 .. NumStores /\ Store \subseteq Lock
  BY LocksAssumption, Stores DEF Store
<1>3. /\ D.locks \in [Lock -> Nat] /\ D.takes \in [Context -> Nat] /\ D.quiet \in Nat
      /\ D = [locks |-> D.locks, takes |-> D.takes, quiet |-> D.quiet] /\ (D.quiet > 0 => Inside(D))
  BY DebtParts
<1>4. ASSUME NEW i \in 1 .. NumStores + 1 PROVE at[i] \in Debt
  <2>1. [l \in Lock |-> IF l \in 1 .. i - 1 THEN D.locks[l] + 1 ELSE D.locks[l]] \in [Lock -> Nat]
    BY <1>3
  <2> QED
    BY <1>3, <2>1, DebtIs DEF Inside
<1>5. at[1] = D
  <2>1. [l \in Lock |-> IF l \in 1 .. 1 - 1 THEN D.locks[l] + 1 ELSE D.locks[l]] = D.locks
    BY <1>3
  <2> QED
    BY <1>2, <1>3, <2>1
<1>6. at[NumStores + 1] = EachLocked(D)
  <2>1. NumStores + 1 \in 1 .. NumStores + 1 /\ 1 .. (NumStores + 1) - 1 = Store
    BY <1>2
  <2> QED
    BY <2>1 DEF EachLocked
<1>7. ASSUME NEW i \in 1 .. NumStores PROVE Does(t, w[i], at[i], at[i + 1])
  <2>1. w[i] = <<"acquire", i>> /\ i \in Store /\ i \in Lock /\ i \notin Context
    BY <1>2, LocksAssumption DEF EachStore
  <2>2. i \in 1 .. NumStores + 1 /\ i + 1 \in 1 .. NumStores + 1
    BY <1>2
  <2>3. at[i + 1] = Locking(at[i], i)
    <3>1. [l \in Lock |-> IF l \in 1 .. (i + 1) - 1 THEN D.locks[l] + 1 ELSE D.locks[l]]
            = [[l \in Lock |-> IF l \in 1 .. i - 1 THEN D.locks[l] + 1 ELSE D.locks[l]] EXCEPT ![i] = @ + 1]
      <4>1. \A l \in Lock : l \in 1 .. (i + 1) - 1 <=> l \in 1 .. i - 1 \/ l = i
        BY <2>1
      <4>2. i \notin 1 .. i - 1
        BY <2>1
      <4> QED
        BY <4>1, <4>2, <2>1, <1>3
    <3> QED
      BY <2>2, <3>1 DEF Locking
  <2>4. InOrder(at[i], i)
    <3>1. i # Coordinator
      BY <2>1, LocksAssumption
    <3>2. \A s \in Store : i <= s => s \notin 1 .. i - 1
      BY <1>2, <2>1
    <3> QED
      BY <1>2, <2>2, <3>1, <3>2 DEF InOrder, NoStores
  <2> HIDE DEF at, w
  <2> QED
    BY <2>1, <2>3, <2>4 DEF Does
<1>8. ASSUME NEW i \in 1 .. NumStores PROVE <<w[i], at[i], at[i + 1]>> \in Doing(t)
  <2>1. i \in 1 .. NumStores + 1 /\ i + 1 \in 1 .. NumStores + 1 /\ i \in 1 .. NumStores
    BY <1>2
  <2> HIDE DEF at, w
  <2>2. w[i] \in Deed
    BY <1>1, <2>1
  <2>3. at[i] \in Debt /\ at[i + 1] \in Debt
    BY <1>4, <2>1
  <2> QED
    BY <2>2, <2>3, <1>7 DEF Doing
<1>9. at \in [1 .. Len(w) + 1 -> Debt]
  BY <1>1, <1>4
<1> HIDE DEF at, w
<1>10. Plan(t, w, D, EachLocked(D))
  BY <1>1, <1>5, <1>6, <1>8, <1>9 DEF Plan, Path
<1> QED
  BY <1>10 DEF w

LEMMA PlanEachRelease ==
  ASSUME NEW t, NEW D \in Debt
  PROVE  Plan(t, EachStore("release"), EachLocked(D), D)
<1> DEFINE w == EachStore("release")
           at == [i \in 1 .. NumStores + 1 |->
                    [locks |-> [l \in Lock |-> IF l \in i .. NumStores THEN D.locks[l] + 1 ELSE D.locks[l]],
                     takes |-> D.takes, quiet |-> D.quiet]]
<1>1. w \in Seq(Deed) /\ Len(w) = NumStores
  BY EachStoreTyped DEF Verb
<1>2. NumStores \in Nat \ {0} /\ Store = 1 .. NumStores /\ Store \subseteq Lock
  BY LocksAssumption, Stores DEF Store
<1>3. /\ D.locks \in [Lock -> Nat] /\ D.takes \in [Context -> Nat] /\ D.quiet \in Nat
      /\ D = [locks |-> D.locks, takes |-> D.takes, quiet |-> D.quiet] /\ (D.quiet > 0 => Inside(D))
  BY DebtParts
<1>4. ASSUME NEW i \in 1 .. NumStores + 1 PROVE at[i] \in Debt
  <2>1. [l \in Lock |-> IF l \in i .. NumStores THEN D.locks[l] + 1 ELSE D.locks[l]] \in [Lock -> Nat]
    BY <1>3
  <2> QED
    BY <1>3, <2>1, DebtIs DEF Inside
<1>5. at[NumStores + 1] = D
  <2>1. [l \in Lock |-> IF l \in NumStores + 1 .. NumStores THEN D.locks[l] + 1 ELSE D.locks[l]] = D.locks
    BY <1>2, <1>3
  <2> QED
    BY <1>2, <1>3, <2>1
<1>6. at[1] = EachLocked(D)
  BY <1>2 DEF EachLocked
<1>7. ASSUME NEW i \in 1 .. NumStores PROVE Does(t, w[i], at[i], at[i + 1])
  <2>1. w[i] = <<"release", i>> /\ i \in Store /\ i \in Lock
    BY <1>2 DEF EachStore
  <2>2. i \in 1 .. NumStores + 1 /\ i + 1 \in 1 .. NumStores + 1
    BY <1>2
  <2>3. at[i] = Locking(at[i + 1], i)
    <3>1. [l \in Lock |-> IF l \in i .. NumStores THEN D.locks[l] + 1 ELSE D.locks[l]]
            = [[l \in Lock |-> IF l \in i + 1 .. NumStores THEN D.locks[l] + 1 ELSE D.locks[l]] EXCEPT ![i] = @ + 1]
      <4>1. \A l \in Lock : l \in i .. NumStores <=> l \in i + 1 .. NumStores \/ l = i
        BY <1>2, <2>1
      <4>2. i \notin i + 1 .. NumStores
        BY <2>1
      <4> QED
        BY <4>1, <4>2, <2>1, <1>3
    <3> QED
      BY <2>2, <3>1 DEF Locking
  <2> HIDE DEF at, w
  <2> QED
    BY <2>1, <2>3 DEF Does
<1>8. ASSUME NEW i \in 1 .. NumStores PROVE <<w[i], at[i], at[i + 1]>> \in Doing(t)
  <2>1. i \in 1 .. NumStores + 1 /\ i + 1 \in 1 .. NumStores + 1 /\ i \in 1 .. NumStores
    BY <1>2
  <2> HIDE DEF at, w
  <2>2. w[i] \in Deed
    BY <1>1, <2>1
  <2>3. at[i] \in Debt /\ at[i + 1] \in Debt
    BY <1>4, <2>1
  <2> QED
    BY <2>2, <2>3, <1>7 DEF Doing
<1>9. at \in [1 .. Len(w) + 1 -> Debt]
  BY <1>1, <1>4
<1> HIDE DEF at, w
<1>10. Plan(t, w, EachLocked(D), D)
  BY <1>1, <1>5, <1>6, <1>8, <1>9 DEF Plan, Path
<1> QED
  BY <1>10 DEF w

LEMMA PlanEachUse ==
  ASSUME NEW t, NEW D \in Debt
  PROVE  Plan(t, EachStore("use"), EachLocked(D), EachLocked(D))
<1> DEFINE w == EachStore("use")
           E == EachLocked(D)
           at == [i \in 1 .. NumStores + 1 |-> E]
<1>1. w \in Seq(Deed) /\ Len(w) = NumStores
  BY EachStoreTyped DEF Verb
<1>2. NumStores \in Nat \ {0} /\ Store = 1 .. NumStores
  BY LocksAssumption DEF Store
<1>3. E \in Debt /\ \A s \in Store : E.locks[s] > 0
  <2>1. \A s \in Store : D.locks[s] \in Nat
    BY Stores, DebtParts
  <2> QED
    BY <2>1, EachLockedDebt
<1> HIDE DEF E
<1>4. ASSUME NEW i \in 1 .. NumStores PROVE <<w[i], E, E>> \in Doing(t)
  <2>1. w[i] = <<"use", i>> /\ i \in Store /\ w[i] \in Deed
    BY <1>1, <1>2 DEF EachStore
  <2> HIDE DEF w
  <2>2. Does(t, w[i], E, E)
    BY <2>1, <1>3 DEF Does
  <2> QED
    BY <2>1, <2>2, <1>3 DEF Doing
<1>5. at \in [1 .. Len(w) + 1 -> Debt] /\ at[1] = E /\ at[Len(w) + 1] = E
  BY <1>1, <1>2, <1>3
<1>6. \A i \in 1 .. Len(w) : at[i] = E /\ at[i + 1] = E
  BY <1>1, <1>2
<1> HIDE DEF at, w
<1>7. Plan(t, w, E, E)
  BY <1>1, <1>4, <1>5, <1>6 DEF Plan, Path
<1> QED
  BY <1>7 DEF w, E

(* LockSteps and UnlockSteps, of the object store of one of t's contexts.  *)
LEMMA PlanLock ==
  ASSUME NEW t, NEW l \in Context \cup {Coordinator}, l \in Context => ThreadOf[l] = t,
         NEW D \in Debt, NoStores(D)
  PROVE  LockSteps(l) \in Seq(Deed) /\ Plan(t, LockSteps(l), D, Attached(D, l))
<1>1. l \in Lock /\ l \notin Store
  BY LocksAssumption, Stores
<1>2. Locking(D, l) \in Debt /\ NoStores(Locking(D, l))
  BY <1>1, LockingDebt
<1>3. Does(t, <<"acquire", l>>, D, Locking(D, l))
  <2>1. InOrder(D, l)
    BY <1>1 DEF InOrder, NoStores
  <2> QED
    BY <1>1, <2>1 DEF Does
<1>4. Plan(t, <<<<"acquire", l>>>>, D, Locking(D, l)) /\ <<<<"acquire", l>>>> \in Seq(Deed)
  BY <1>1, <1>2, <1>3, PlanOne DEF Verb
<1>5. CASE l = Coordinator
  <2>1. LockSteps(l) = <<<<"acquire", l>>>> \o EachStore("acquire") /\ Attached(D, l) = EachLocked(Locking(D, l))
    BY <1>5, LocksAssumption DEF LockSteps, Attached
  <2>2. EachStore("acquire") \in Seq(Deed) /\ Plan(t, EachStore("acquire"), Locking(D, l), EachLocked(Locking(D, l)))
    BY <1>2, EachStoreTyped, PlanEachAcquire DEF Verb
  <2>3. /\ <<<<"acquire", l>>>> \o EachStore("acquire") \in Seq(Deed)
        /\ Plan(t, <<<<"acquire", l>>>> \o EachStore("acquire"), D, EachLocked(Locking(D, l)))
    BY <1>4, <2>2, PlanJoined
  <2> QED
    BY <2>1, <2>3
<1>6. CASE l \in Context
  <2>1. LockSteps(l) = <<<<"acquire", l>>>> \o <<<<"take", l>>>> /\ Attached(D, l) = Taking(Locking(D, l), l)
    BY <1>6, LocksAssumption DEF LockSteps, Attached
  <2>2. Taking(Locking(D, l), l) \in Debt
    BY <1>2, <1>6, TakingDebt
  <2>3. Does(t, <<"take", l>>, Locking(D, l), Taking(Locking(D, l), l))
    BY <1>2, <1>6 DEF Does
  <2>4. <<<<"take", l>>>> \in Seq(Deed) /\ Plan(t, <<<<"take", l>>>>, Locking(D, l), Taking(Locking(D, l), l))
    BY <1>1, <1>2, <2>2, <2>3, PlanOne DEF Verb
  <2> QED
    BY <1>4, <2>1, <2>4, PlanJoined
<1> QED
  BY <1>5, <1>6

LEMMA PlanUnlock ==
  ASSUME NEW t, NEW l \in Context \cup {Coordinator}, l \in Context => ThreadOf[l] = t, NEW D \in Debt
  PROVE  UnlockSteps(l) \in Seq(Deed) /\ Plan(t, UnlockSteps(l), Attached(D, l), D)
<1>1. l \in Lock
  BY Stores
<1>2. Locking(D, l) \in Debt
  BY <1>1, LockingDebt
<1>3. Does(t, <<"release", l>>, Locking(D, l), D)
  BY <1>1 DEF Does
<1>4. Plan(t, <<<<"release", l>>>>, Locking(D, l), D) /\ <<<<"release", l>>>> \in Seq(Deed)
  BY <1>1, <1>2, <1>3, PlanOne DEF Verb
<1>5. CASE l = Coordinator
  <2>1. UnlockSteps(l) = EachStore("release") \o <<<<"release", l>>>> /\ Attached(D, l) = EachLocked(Locking(D, l))
    BY <1>5, LocksAssumption DEF UnlockSteps, Attached
  <2>2. EachStore("release") \in Seq(Deed) /\ Plan(t, EachStore("release"), EachLocked(Locking(D, l)), Locking(D, l))
    BY <1>2, EachStoreTyped, PlanEachRelease DEF Verb
  <2>3. /\ EachStore("release") \o <<<<"release", l>>>> \in Seq(Deed)
        /\ Plan(t, EachStore("release") \o <<<<"release", l>>>>, EachLocked(Locking(D, l)), D)
    BY <1>4, <2>2, PlanJoined
  <2> QED
    BY <2>1, <2>3
<1>6. CASE l \in Context
  <2>1. UnlockSteps(l) = <<<<"release", l>>>> \o <<<<"give", l>>>>
    BY <1>6, LocksAssumption DEF UnlockSteps
  <2>2. Attached(D, l) = Locking(Taking(D, l), l) /\ Taking(D, l) \in Debt /\ Attached(D, l) \in Debt
    BY <1>6, LocksAssumption, TakingDebt, AttachedDebt DEF Attached, Taking, Locking
  <2>3. Does(t, <<"give", l>>, Taking(D, l), D) /\ Does(t, <<"release", l>>, Attached(D, l), Taking(D, l))
    BY <1>1, <1>6, <2>2 DEF Does
  <2>4. /\ Plan(t, <<<<"give", l>>>>, Taking(D, l), D) /\ Plan(t, <<<<"release", l>>>>, Attached(D, l), Taking(D, l))
        /\ <<<<"give", l>>>> \in Seq(Deed)
    BY <1>1, <2>2, <2>3, PlanOne DEF Verb
  <2> QED
    BY <1>4, <2>1, <2>4, PlanJoined
<1> QED
  BY <1>5, <1>6

LEMMA KeepsToSomeStore ==
  ASSUME NEW t, NEW more, Keeps(t, more), NEW steps \in ToSomeStore(more)
  PROVE  Keeps(t, steps)
<1>1. PICK s \in Store : steps = <<<<"use", s>>>> \o more
  BY DEF ToSomeStore
<1>2. ASSUME NEW D \in Debt, NoStores(D), Inside(D) PROVE Plan(t, <<<<"use", s>>>>, D, D)
  <2>1. Does(t, <<"use", s>>, D, D)
    BY <1>2 DEF Does
  <2> QED
    BY <2>1, Stores, PlanOne DEF Verb
<1>3. <<<<"use", s>>>> \in Seq(Deed)
  BY Stores DEF Verb, Deed
<1>4. Keeps(t, <<<<"use", s>>>>)
  BY <1>2, <1>3 DEF Keeps
<1> QED
  BY <1>1, <1>4, KeepsJoined

LEMMA PlanTell ==
  ASSUME NEW t, NEW c \in Context, NEW D \in Debt
  PROVE  Plan(t, <<<<"tell", c>>>>, D, D) /\ <<<<"tell", c>>>> \in Seq(Deed)
<1>1. Does(t, <<"tell", c>>, D, D)
  BY DEF Does
<1> QED
  BY <1>1, Stores, PlanOne DEF Verb

LEMMA KeepsMessage ==
  ASSUME NEW c \in Context, NEW verb \in {"ask", "fetch", "invalidate"}
  PROVE  /\ Keeps(ThreadOf[c], <<<<verb, c>>>>)
         /\ Parent[c] # Coordinator => Starts(ThreadOf[c], <<<<verb, c>>>>)
<1> DEFINE t == ThreadOf[c]
<1>1. ASSUME NEW D \in Debt, NoStores(D), Inside(D) \/ Parent[c] # Coordinator
      PROVE  Plan(t, <<<<verb, c>>>>, D, D)
  <2>1. Does(t, <<verb, c>>, D, D)
    BY <1>1 DEF Does
  <2> QED
    BY <2>1, Stores, PlanOne DEF Verb
<1>2. <<<<verb, c>>>> \in Seq(Deed)
  BY Stores DEF Verb, Deed
<1> HIDE DEF t
<1>3. Keeps(t, <<<<verb, c>>>>) /\ (Parent[c] # Coordinator => Starts(t, <<<<verb, c>>>>))
  BY <1>1, <1>2 DEF Keeps, Starts
<1> QED
  BY <1>3 DEF t

LEMMA StartsOperations ==
  ASSUME NEW c \in Context
  PROVE  Starts(ThreadOf[c], Fetch(c)) /\ Starts(ThreadOf[c], Refault(c)) /\ Starts(ThreadOf[c], Invalidate(c))
<1> DEFINE t == ThreadOf[c]
<1>1. Keeps(t, <<<<"ask", c>>>>) /\ Keeps(t, <<<<"fetch", c>>>>) /\ Keeps(t, <<<<"invalidate", c>>>>)
  BY KeepsMessage
<1>2. Starts(t, Fetch(c)) /\ Starts(t, Refault(c))
  BY <1>1, KeepsQuietly, StartsWithin DEF Fetch, Refault
<1>3. Starts(t, Within(c, Refault(c))) /\ Starts(t, Within(c, <<<<"invalidate", c>>>>))
  BY <1>1, <1>2, StartsKeeps, StartsWithin
<1>4. Starts(t, Invalidate(c))
  BY <1>3, StartsJoined DEF Invalidate
<1> QED
  BY <1>2, <1>4

LEMMA KeepsEachTells ==
  ASSUME NEW t, NEW c \in Context
  PROVE  Keeps(t, EachTells(c))
<1> DEFINE w == EachTells(c)
<1>1. /\ w \in Seq(Deed) /\ Len(w) = 2 * NumStores
      /\ \A i \in 1 .. Len(w) : w[i] = <<"tell", c>> \/ \E s \in Store : w[i] = <<"use", s>>
  BY EachTellsTyped
<1> HIDE DEF w
<1>2. Len(w) \in Nat
  BY <1>1
<1>3. ASSUME NEW D \in Debt, NoStores(D), Inside(D) PROVE Plan(t, w, D, D)
  <2> DEFINE at == [i \in 1 .. Len(w) + 1 |-> D]
  <2>1. at \in [1 .. Len(w) + 1 -> Debt] /\ at[1] = D /\ at[Len(w) + 1] = D
    BY <1>2
  <2>2. \A i \in 1 .. Len(w) : at[i] = D /\ at[i + 1] = D
    BY <1>2
  <2>3. ASSUME NEW i \in 1 .. Len(w) PROVE <<w[i], D, D>> \in Doing(t)
    <3>1. Does(t, w[i], D, D)
      BY <1>1, <1>3 DEF Does
    <3>2. w[i] \in Deed
      BY <1>1
    <3> QED
      BY <3>1, <3>2 DEF Doing
  <2> HIDE DEF at
  <2> QED
    BY <2>1, <2>2, <2>3 DEF Plan, Path
<1>4. Keeps(t, w)
  BY <1>1, <1>3 DEF Keeps
<1> QED
  BY <1>4 DEF w

(* What a message is replaced by does as well as the message.              *)
LEMMA KeepsReplies ==
  ASSUME Calm, NEW c \in Context, NEW verb \in {"ask", "fetch", "invalidate"},
         NEW steps, steps \in (IF verb = "ask" THEN Asked(c) ELSE IF verb = "fetch" THEN Fetched(c) ELSE Invalidated(c))
  PROVE  IF Parent[c] = Coordinator THEN Keeps(ThreadOf[c], steps) ELSE Starts(ThreadOf[c], steps)
<1>1. CASE Parent[c] = Coordinator
  <2>1. Keeps(ThreadOf[c], <<>>)
    BY StartsEmpty, StartsKeeps
  <2>2. steps \in ToSomeStore(<<>>) \/ steps = EachTells(c)
    BY <1>1 DEF Asked, Fetched, Invalidated
  <2>3. Keeps(ThreadOf[c], steps)
    BY <2>1, <2>2, KeepsToSomeStore, KeepsEachTells
  <2> QED
    BY <1>1, <2>3
<1>2. CASE Parent[c] # Coordinator
  <2> DEFINE p == Parent[c]
  <2>1. p \in Context /\ ThreadOf[p] = ThreadOf[c]
    BY <1>2, ParentTyped DEF Calm
  <2>2. Starts(ThreadOf[c], Within(p, <<<<"ask", p>>>>))
        /\ Starts(ThreadOf[c], Fetch(p)) /\ Starts(ThreadOf[c], Invalidate(p))
    BY <2>1, StartsOperations DEF Refault
  <2> QED
    BY <1>2, <2>2 DEF Asked, Fetched, Invalidated
<1> QED
  BY <1>1, <1>2

LEMMA PairJoined ==
  ASSUME NEW S, NEW x \in S, NEW y \in S
  PROVE  <<x, y>> = <<x>> \o <<y>>
<1>1. <<x>> \in Seq(S) /\ <<y>> \in Seq(S) /\ Len(<<x>>) = 1 /\ Len(<<y>>) = 1
  OBVIOUS
<1> DEFINE z == <<x>> \o <<y>>
<1>2. z \in Seq(S) /\ Len(z) = 2 /\ z[1] = x /\ z[2] = y
  BY <1>1
<1> HIDE DEF z
<1>3. z = <<z[1], z[2]>>
  BY <1>2
<1> QED
  BY <1>2, <1>3 DEF z

LEMMA StartsSecondPhase ==
  ASSUME NEW t, NEW s \in Store, NEW told \in Seq(Deed), \A D \in Debt : Plan(t, told, D, D)
  PROVE  Starts(t, SecondPhase(s, told))
<1> DEFINE a == <<<<"acquire", s>>>>
           b == <<<<"use", s>>>>
           d == <<<<"release", s>>>>
           rest == IF s < NumStores THEN <<<<"commit", s + 1>>>> ELSE <<>>
<1>1. s \in Lock /\ s \notin Context /\ {"acquire", "use", "release", "commit"} \subseteq Verb
  BY Stores, LocksAssumption DEF Verb
<1>2. Starts(t, rest)
  <2>1. CASE s < NumStores
    <3>1. s + 1 \in Store
      BY <2>1, LocksAssumption DEF Store
    <3>2. ASSUME NEW D \in Debt, NoStores(D) PROVE Plan(t, <<<<"commit", s + 1>>>>, D, D)
      <4>1. Does(t, <<"commit", s + 1>>, D, D)
        BY <3>1, <3>2 DEF Does
      <4> QED
        BY <1>1, <3>1, <4>1, Stores, PlanOne
    <3>3. <<<<"commit", s + 1>>>> \in Seq(Deed)
      BY <1>1, <3>1, Stores DEF Deed
    <3> QED
      BY <2>1, <3>2, <3>3 DEF Starts
  <2> QED
    BY <2>1, StartsEmpty
<1>3. a \in Seq(Deed) /\ b \in Seq(Deed) /\ d \in Seq(Deed) /\ rest \in Seq(Deed)
  BY <1>1, <1>2 DEF Deed, Starts
<1>4. ASSUME NEW D \in Debt, NoStores(D)
      PROVE  /\ Plan(t, a, D, Locking(D, s)) /\ Plan(t, b, Locking(D, s), Locking(D, s))
             /\ Plan(t, d, Locking(D, s), D) /\ Plan(t, told, Locking(D, s), Locking(D, s)) /\ Plan(t, rest, D, D)
  <2>1. Locking(D, s) \in Debt /\ Locking(D, s).locks[s] > 0
    <3>1. D.locks \in [Lock -> Nat]
      BY DebtParts
    <3> QED
      BY <1>1, <3>1, LockingDebt DEF Locking
  <2>2. InOrder(D, s)
    BY <1>4 DEF InOrder, NoStores
  <2>3. Does(t, <<"acquire", s>>, D, Locking(D, s))
    BY <1>1, <2>2 DEF Does
  <2>4. Does(t, <<"use", s>>, Locking(D, s), Locking(D, s)) /\ Does(t, <<"release", s>>, Locking(D, s), D)
    BY <1>1, <2>1 DEF Does
  <2>5. Plan(t, rest, D, D)
    BY <1>2, <1>4 DEF Starts
  <2> HIDE DEF rest
  <2> QED
    BY <1>1, <2>1, <2>3, <2>4, <2>5, PlanOne
<1>5. SecondPhase(s, told) = (((a \o b) \o told) \o d) \o rest
  <2>1. <<<<"acquire", s>>, <<"use", s>>>> = a \o b
    <3>1. <<"acquire", s>> \in Deed /\ <<"use", s>> \in Deed
      BY <1>1 DEF Deed
    <3> QED
      BY <3>1, PairJoined
  <2> HIDE DEF a, b
  <2> QED
    BY <2>1 DEF SecondPhase
<1> HIDE DEF a, b, d, rest
<1>6. /\ a \o b \in Seq(Deed) /\ (a \o b) \o told \in Seq(Deed) /\ ((a \o b) \o told) \o d \in Seq(Deed)
      /\ (((a \o b) \o told) \o d) \o rest \in Seq(Deed)
  BY <1>3
<1>7. ASSUME NEW D \in Debt, NoStores(D) PROVE Plan(t, (((a \o b) \o told) \o d) \o rest, D, D)
  <2>1. Plan(t, a \o b, D, Locking(D, s))
    BY <1>3, <1>4, <1>7, PlanJoined
  <2>2. Plan(t, (a \o b) \o told, D, Locking(D, s))
    BY <1>4, <1>6, <1>7, <2>1, PlanJoined
  <2>3. Plan(t, ((a \o b) \o told) \o d, D, D)
    BY <1>3, <1>4, <1>6, <1>7, <2>2, PlanJoined
  <2> QED
    BY <1>3, <1>4, <1>6, <1>7, <2>3, PlanJoined
<1> QED
  BY <1>5, <1>6, <1>7 DEF Starts

LEMMA StartsSave ==
  ASSUME Calm, NEW c \in Context, NEW steps \in SavePaths(c)
  PROVE  Starts(ThreadOf[c], steps)
<1> DEFINE t == ThreadOf[c]
           a == EachStore("acquire")
           b == EachStore("use")
           d == EachStore("release")
           rest == SecondPhase(1, <<<<"tell", c>>>>)
<1>1. CASE Parent[c] # Coordinator
  BY <1>1, KeepsMessage DEF SavePaths
<1>2. CASE Parent[c] = Coordinator
  <2>1. steps = ((a \o b) \o d) \o rest
    BY <1>2 DEF SavePaths, Calm
  <2>2. a \in Seq(Deed) /\ b \in Seq(Deed) /\ d \in Seq(Deed)
    BY EachStoreTyped DEF Verb
  <2>3. Starts(t, rest)
    <3>1. <<<<"tell", c>>>> \in Seq(Deed)
      BY Stores DEF Verb, Deed
    <3> QED
      BY <3>1, Stores, PlanTell, StartsSecondPhase
  <2>4. ASSUME NEW D \in Debt, NoStores(D)
        PROVE  /\ Plan(t, a, D, EachLocked(D)) /\ Plan(t, b, EachLocked(D), EachLocked(D))
               /\ Plan(t, d, EachLocked(D), D) /\ Plan(t, rest, D, D)
    BY <2>3, <2>4, PlanEachAcquire, PlanEachUse, PlanEachRelease DEF Starts
  <2>5. rest \in Seq(Deed)
    BY <2>3 DEF Starts
  <2> HIDE DEF a, b, d, rest, t
  <2>6. a \o b \in Seq(Deed) /\ (a \o b) \o d \in Seq(Deed) /\ ((a \o b) \o d) \o rest \in Seq(Deed)
    BY <2>2, <2>5
  <2>7. ASSUME NEW D \in Debt, NoStores(D) PROVE Plan(t, ((a \o b) \o d) \o rest, D, D)
    <3>1. Plan(t, a \o b, D, EachLocked(D))
      BY <2>2, <2>4, <2>7, PlanJoined
    <3>2. Plan(t, (a \o b) \o d, D, D)
      BY <2>2, <2>4, <2>6, <2>7, <3>1, PlanJoined
    <3> QED
      BY <2>4, <2>5, <2>6, <2>7, <3>2, PlanJoined
  <2>8. Starts(t, steps)
    BY <2>1, <2>6, <2>7 DEF Starts
  <2> QED
    BY <2>8 DEF t
<1> QED
  BY <1>1, <1>2

(* Every operation of a thread's context, from a state without debts to    *)
(* stores.                                                                 *)
LEMMA PlanOperation ==
  ASSUME Calm, NEW c \in Context, NEW steps \in Operation(c),
         NEW D \in Debt, NoStores(D), c \in locked => Inside(D)
  PROVE  steps \in Seq(Deed) /\ Plan(ThreadOf[c], steps, D, D)
<1> DEFINE t == ThreadOf[c]
<1>1. Keeps(t, <<<<"ask", c>>>>) /\ Starts(t, Fetch(c)) /\ Starts(t, Refault(c)) /\ Starts(t, Invalidate(c))
  BY KeepsMessage, StartsOperations
<1>2. ASSUME steps \in FirePaths(c) PROVE Starts(t, steps)
  <2>1. PICK use \in ToSomeStore(<<>>) : steps = Within(c, use \o Quietly(<<>>))
    BY <1>2 DEF FirePaths, Calm
  <2>2. Keeps(t, <<>>)
    BY StartsEmpty, StartsKeeps
  <2>3. Keeps(t, use) /\ Keeps(t, Quietly(<<>>))
    BY <2>2, KeepsToSomeStore, KeepsQuietly
  <2>4. Keeps(t, use \o Quietly(<<>>))
    BY <2>3, KeepsJoined
  <2> QED
    BY <2>1, <2>4, StartsWithin
<1>3. ASSUME steps \in RefaultPaths(c) PROVE Starts(t, steps)
  <2>1. Keeps(t, Quietly(<<<<"ask", c>>>>))
    BY <1>1, KeepsQuietly
  <2>2. Starts(t, Within(c, Quietly(<<<<"ask", c>>>>)))
    BY <2>1, StartsWithin
  <2> QED
    BY <1>1, <1>3, <2>2 DEF RefaultPaths, Calm
<1>4. ASSUME steps \in InvalidatePaths(c) PROVE Starts(t, steps)
  <2>1. Starts(t, Within(c, Invalidate(c)))
    BY <1>1, StartsKeeps, StartsWithin
  <2> QED
    BY <1>4, <2>1 DEF InvalidatePaths, Calm
<1>5. ASSUME steps \in SavePaths(c) PROVE Starts(t, steps)
  BY <1>5, StartsSave
<1>6. Starts(t, steps) \/ (Keeps(t, steps) /\ c \in locked)
  <2>1. steps = Fetch(c) \/ steps \in FirePaths(c) \/ steps \in RefaultPaths(c)
        \/ (steps = <<<<"ask", c>>>> /\ c \in locked) \/ steps \in InvalidatePaths(c) \/ steps \in SavePaths(c)
    BY DEF Operation, Calm
  <2> QED
    BY <1>1, <1>2, <1>3, <1>4, <1>5, <2>1
<1> QED
  BY <1>6 DEF Starts, Keeps

-----------------------------------------------------------------------------
(* What comes with a lock.  A context is never behind itself, and the      *)
(* contexts that count on a lock are found behind the ones that somebody   *)
(* is inside of.                                                           *)

LEMMA HeldComplete ==
  ASSUME NEW l \in Lock
  PROVE  l \in Held(l) /\ Held(l) \subseteq Lock /\ Complete(Held(l))
<1>1. l \in Held(l) /\ Held(l) \subseteq Lock
  BY DEF Held
<1>2. \A c \in Held(l) \cap Context : Parent[c] \in Held(l)
  <2>1. \A c \in Context : Parent[c] \in Lock
    BY ParentTyped, Stores
  <2> QED
    BY <2>1 DEF Held, Complete
<1>3. Coordinator \in Held(l) => Store \subseteq Held(l)
  BY Stores DEF Held, Complete
<1> QED
  BY <1>1, <1>2, <1>3 DEF Complete

LEMMA HeldLeast ==
  ASSUME NEW S \in SUBSET Lock, Complete(S), NEW l \in S
  PROVE  Held(l) \subseteq S
BY DEF Held

LEMMA HeldStep ==
  ASSUME NEW c \in Context
  PROVE  Held(Parent[c]) \subseteq Held(c) /\ Held(c) \subseteq {c} \cup Held(Parent[c])
<1>1. c \in Lock /\ Parent[c] \in Lock
  BY ParentTyped, Stores
<1>2. Held(Parent[c]) \subseteq Held(c)
  <2>1. Parent[c] \in Held(c) /\ Complete(Held(c)) /\ Held(c) \in SUBSET Lock
    BY <1>1, HeldComplete DEF Complete
  <2> QED
    BY <2>1, HeldLeast
<1>3. Held(c) \subseteq {c} \cup Held(Parent[c])
  <2> DEFINE S == {c} \cup Held(Parent[c])
  <2>1. Parent[c] \in Held(Parent[c]) /\ Complete(Held(Parent[c])) /\ Held(Parent[c]) \subseteq Lock
    BY <1>1, HeldComplete
  <2>2. S \in SUBSET Lock /\ c \in S
    BY <1>1, <2>1
  <2>3. c # Coordinator
    BY LocksAssumption
  <2>4. Complete(S)
    BY <2>1, <2>3 DEF Complete
  <2> HIDE DEF S
  <2>5. Held(c) \subseteq S
    BY <2>2, <2>4, HeldLeast
  <2> QED
    BY <2>5 DEF S
<1> QED
  BY <1>2, <1>3

LEMMA HeldTop == Held(Coordinator) \cap Context = {}
<1> DEFINE S == {Coordinator} \cup Store
<1>1. S \in SUBSET Lock /\ Coordinator \in S /\ S \cap Context = {}
  BY Stores, LocksAssumption
<1>2. Complete(S)
  BY <1>1 DEF Complete
<1> HIDE DEF S
<1>3. Held(Coordinator) \subseteq S
  BY <1>1, <1>2, HeldLeast
<1> QED
  BY <1>1, <1>3

LEMMA Topmost ==
  ASSUME NEW S \in SUBSET Context, S # {}
  PROVE  \E c \in S : Parent[c] \notin S
BY LocksAssumption

(* Contexts are finite, so in any set of them one is nobody's object       *)
(* store.                                                                  *)
LEMMA Innermost ==
  ASSUME NEW S \in SUBSET Context, S # {}
  PROVE  \E c \in S : \A d \in S : Parent[d] # c
<1>1. SUFFICES ASSUME \A c \in S : \E d \in S : Parent[d] = c PROVE FALSE
  OBVIOUS
<1>2. IsFiniteSet(S)
  <2>1. IsFiniteSet(Context)
    BY LocksAssumption
  <2> QED
    BY <2>1, FS_Subset
<1> DEFINE T == {d \in S : Parent[d] \in S}
           f == [d \in T |-> Parent[d]]
<1>3. f \in Surjection(T, S)
  <2>1. f \in [T -> S]
    OBVIOUS
  <2>2. \A c \in S : \E d \in T : f[d] = c
    BY <1>1
  <2> QED
    BY <2>1, <2>2 DEF Surjection
<1>4. T \in SUBSET S /\ T # S
  BY Topmost
<1>5. IsFiniteSet(T) /\ Cardinality(T) <= Cardinality(S) /\ (Cardinality(S) = Cardinality(T) => S = T)
  BY <1>2, <1>4, FS_Subset
<1>6. Cardinality(S) <= Cardinality(T)
  BY <1>3, <1>5, FS_Surjection
<1>7. Cardinality(T) \in Nat /\ Cardinality(S) \in Nat
  BY <1>2, <1>5, FS_CardinalityType
<1> QED
  BY <1>4, <1>5, <1>6, <1>7

(* No context is behind itself.                                            *)
LEMMA NotBehindItself ==
  ASSUME NEW c \in Context
  PROVE  c \notin Held(Parent[c])
<1> SUFFICES ASSUME c \in Held(Parent[c]) PROVE FALSE
  OBVIOUS
<1> DEFINE S == {x \in Context : c \in Held(x)}
           T == {x \in S : x \in Held(c)}
<1>1. c \in Lock /\ c \in Held(c) /\ Complete(Held(c))
  BY Stores, HeldComplete
<1>2. ASSUME NEW x \in T PROVE Parent[x] \in T
  <2>1. x \in Context /\ c \in Held(x) /\ x \in Held(c)
    OBVIOUS
  <2>2. c \in Held(Parent[x])
    BY <2>1, HeldStep
  <2>3. Parent[x] \in Context
    BY <2>1, <2>2, HeldTop, ParentTyped
  <2>4. Parent[x] \in Held(c)
    BY <1>1, <2>1 DEF Complete
  <2> QED
    BY <2>2, <2>3, <2>4
<1>3. c \in T /\ T \in SUBSET Context
  BY <1>1
<1> HIDE DEF T
<1> QED
  BY <1>2, <1>3, Topmost

LEMMA HoldersFinite ==
  ASSUME NEW t, NEW l, NEW count
  PROVE  /\ IsFiniteSet(Holders(t, l, count))
         /\ Cardinality(Holders(t, l, count)) \in Nat
         /\ Cardinality(Holders(t, l, count)) > 0 <=> Holders(t, l, count) # {}
<1>1. IsFiniteSet(Context) /\ Holders(t, l, count) \in SUBSET Context
  BY LocksAssumption DEF Holders
<1>2. IsFiniteSet(Holders(t, l, count))
  BY <1>1, FS_Subset
<1> QED
  BY <1>2, FS_CardinalityType, FS_EmptySet

(* Whoever counts has the coordinator and its stores.                      *)
LEMMA CountingOwns ==
  ASSUME Calm, NEW t, NEW D \in Debt, NEW deep, NEW count, Matches(t, D, deep, count),
         NEW d \in Context, ThreadOf[d] = t, count[d] > 0
  PROVE  /\ deep[Coordinator] > 0 /\ \A s \in Store : deep[s] > 0
         /\ \E e \in Holders(t, Coordinator, count) : TRUE
<1> DEFINE S == {c \in Context : ThreadOf[c] = t /\ count[c] > 0}
<1>1. PICK c \in S : Parent[c] \notin S
  <2> S \in SUBSET Context /\ S # {}
    OBVIOUS
  <2> HIDE DEF S
  <2> QED
    BY Topmost
<1>2. c \in Context /\ ThreadOf[c] = t /\ count[c] > 0 /\ c \in Holders(t, Parent[c], count)
  BY <1>1 DEF Holders
<1>3. D.locks \in [Lock -> Nat] /\ D.takes \in [Context -> Nat]
  BY DebtParts
<1>4. Parent[c] = Coordinator
  <2> SUFFICES ASSUME Parent[c] # Coordinator PROVE FALSE
    OBVIOUS
  <2>1. Parent[c] \in Context /\ ThreadOf[Parent[c]] = t
    BY <1>2, ParentTyped DEF Calm
  <2>2. count[Parent[c]] = D.takes[Parent[c]] + Cardinality(Holders(t, Parent[c], count))
    BY <2>1 DEF Matches
  <2>3. Cardinality(Holders(t, Parent[c], count)) \in Nat /\ Cardinality(Holders(t, Parent[c], count)) > 0
    BY <1>2, HoldersFinite
  <2>4. count[Parent[c]] > 0
    BY <1>3, <2>1, <2>2, <2>3
  <2> QED
    BY <1>1, <2>1, <2>4
<1>5. /\ Cardinality(Holders(t, Coordinator, count)) \in Nat
      /\ Cardinality(Holders(t, Coordinator, count)) > 0
  BY <1>2, <1>4, HoldersFinite
<1>6. Coordinator \notin Store
  BY LocksAssumption
<1>7. ASSUME NEW l \in Store \cup {Coordinator} PROVE deep[l] > 0
  <2>1. deep[l] = D.locks[l] + Cardinality(Holders(t, Coordinator, count)) /\ D.locks[l] \in Nat
    BY <1>3, <1>6, Stores DEF Matches, Behind
  <2> QED
    BY <1>5, <2>1
<1> QED
  BY <1>2, <1>4, <1>7

LEMMA InsideOwns ==
  ASSUME Calm, NEW t, NEW D \in Debt, NEW deep, NEW count, Matches(t, D, deep, count), Inside(D)
  PROVE  deep[Coordinator] > 0 /\ \A s \in Store : deep[s] > 0
<1>1. PICK c \in Context : D.takes[c] > 0
  BY DEF Inside
<1>2. ThreadOf[c] = t /\ count[c] > 0
  <2>1. ThreadOf[c] = t /\ count[c] = D.takes[c] + Cardinality(Holders(t, c, count))
    BY <1>1 DEF Matches
  <2>2. D.takes[c] \in Nat
    BY DebtParts
  <2> QED
    BY <1>1, <2>1, <2>2, HoldersFinite
<1> QED
  BY <1>2, CountingOwns

(* A context counts as long as somebody is inside of one that leads to it. *)
LEMMA CountsIfTaken ==
  ASSUME Calm, NEW t, NEW D \in Debt, NEW deep, NEW count, Matches(t, D, deep, count),
         NEW c \in Context, ThreadOf[c] = t
  PROVE  NotTaken(c, D) <=> ~ (count[c] > 0)
<1>1. ASSUME NEW d \in Context PROVE D.takes[d] \in Nat /\ Cardinality(Holders(t, d, count)) \in Nat
  BY DebtParts, HoldersFinite
<1>2. ASSUME NotTaken(c, D), count[c] > 0 PROVE FALSE
  <2> DEFINE S == {d \in Context : ThreadOf[d] = t /\ count[d] > 0 /\ c \in Held(d)}
  <2>1. c \in S
    BY <1>2, Stores, HeldComplete
  <2>2. PICK d \in S : \A e \in S : Parent[e] # d
    <3> S \in SUBSET Context /\ S # {}
      BY <2>1
    <3> HIDE DEF S
    <3> QED
      BY Innermost
  <2>3. d \in Context /\ ThreadOf[d] = t /\ count[d] > 0 /\ c \in Held(d) /\ D.takes[d] = 0
    BY <1>2, <2>2 DEF NotTaken
  <2>4. count[d] = Cardinality(Holders(t, d, count))
    BY <1>1, <2>3 DEF Matches
  <2>5. PICK e : e \in Holders(t, d, count)
    BY <2>3, <2>4, HoldersFinite
  <2>6. e \in Context /\ Parent[e] = d /\ ThreadOf[e] = t /\ count[e] > 0
    BY <2>5 DEF Holders
  <2>7. c \in Held(e)
    BY <2>3, <2>6, HeldStep
  <2> QED
    BY <2>2, <2>6, <2>7
<1>3. ASSUME ~ (count[c] > 0) PROVE NotTaken(c, D)
  <2> SUFFICES ASSUME NEW d \in Context, c \in Held(d), D.takes[d] # 0 PROVE FALSE
    BY DEF NotTaken
  <2> DEFINE S == {x \in Context : ThreadOf[x] = t /\ count[x] > 0} \cup {Coordinator} \cup Store
  <2>1. ThreadOf[d] = t /\ count[d] > 0
    <3>1. D.takes[d] > 0
      BY <1>1
    <3>2. ThreadOf[d] = t
      BY <3>1 DEF Matches
    <3>3. count[d] = D.takes[d] + Cardinality(Holders(t, d, count))
      BY <3>2 DEF Matches
    <3> QED
      BY <1>1, <3>1, <3>2, <3>3
  <2>2. ASSUME NEW x \in Context, ThreadOf[x] = t, count[x] > 0 PROVE Parent[x] \in S
    <3>1. CASE Parent[x] # Coordinator
      <4>1. Parent[x] \in Context /\ ThreadOf[Parent[x]] = t
        BY <2>2, <3>1, ParentTyped DEF Calm
      <4>2. x \in Holders(t, Parent[x], count)
        BY <2>2 DEF Holders
      <4>3. count[Parent[x]] = D.takes[Parent[x]] + Cardinality(Holders(t, Parent[x], count))
        BY <4>1 DEF Matches
      <4>4. count[Parent[x]] > 0
        BY <1>1, <4>1, <4>2, <4>3, HoldersFinite
      <4> QED
        BY <4>1, <4>4
    <3> QED
      BY <3>1
  <2>3. Complete(S)
    BY <2>2, LocksAssumption DEF Complete
  <2>4. S \in SUBSET Lock /\ d \in S
    BY <2>1, Stores
  <2>5. c \in S
    <3> HIDE DEF S
    <3> QED
      BY <2>3, <2>4, HeldLeast
  <2> QED
    BY <1>3, <2>5, LocksAssumption
<1> QED
  BY <1>2, <1>3

-----------------------------------------------------------------------------
(* What is locked follows the debts when a lock is taken, when a count     *)
(* goes from one to two, and when the first count takes over the lock      *)
(* that lockObjectStore has taken for it.                                  *)

LEMMA MatchesLocking ==
  ASSUME NEW t, NEW D \in Debt, NEW l \in Lock, NEW count, NEW deep \in [Lock -> Int]
  PROVE  Matches(t, D, deep, count) <=> Matches(t, Locking(D, l), [deep EXCEPT ![l] = @ + 1], count)
<1>1. D.locks \in [Lock -> Nat]
  BY DebtParts
<1> DEFINE more == [deep EXCEPT ![l] = @ + 1]
           h(k) == Cardinality(Holders(t, Behind(k), count))
<1>2. \A k \in Lock : h(k) \in Nat
  BY HoldersFinite
<1>3. Locking(D, l).takes = D.takes
  BY DEF Locking
<1>4. \A k \in Lock : Locking(D, l).locks[k] = IF k = l THEN D.locks[k] + 1 ELSE D.locks[k]
  BY <1>1 DEF Locking
<1>5. \A k \in Lock : more[k] = IF k = l THEN deep[k] + 1 ELSE deep[k]
  OBVIOUS
<1> HIDE DEF more, h
<1>6. \A k \in Lock : deep[k] = D.locks[k] + h(k) <=> more[k] = Locking(D, l).locks[k] + h(k)
  BY <1>1, <1>2, <1>4, <1>5
<1> QED
  BY <1>3, <1>6 DEF Matches, more, h

LEMMA MatchesTaking ==
  ASSUME NEW D \in Debt, NEW c \in Context, NEW count \in [Context -> Int], count[c] > 0, NEW deep
  PROVE  Matches(ThreadOf[c], D, deep, count)
           <=> Matches(ThreadOf[c], Taking(D, c), deep, [count EXCEPT ![c] = @ + 1])
<1> DEFINE t == ThreadOf[c]
           more == [count EXCEPT ![c] = @ + 1]
<1>1. D.takes \in [Context -> Nat]
  BY DebtParts
<1>2. \A d \in Context : more[d] = IF d = c THEN count[d] + 1 ELSE count[d]
  OBVIOUS
<1>3. \A k : Holders(t, k, more) = Holders(t, k, count)
  BY <1>2 DEF Holders
<1>4. Taking(D, c).locks = D.locks
  BY DEF Taking
<1>5. \A d \in Context : Taking(D, c).takes[d] = IF d = c THEN D.takes[d] + 1 ELSE D.takes[d]
  BY <1>1 DEF Taking
<1> DEFINE h(k) == Cardinality(Holders(t, k, count))
<1>6. \A d \in Context : h(d) \in Nat
  BY HoldersFinite
<1> HIDE DEF more, h, t
<1>7. \A d \in Context : count[d] = D.takes[d] + h(d) <=> more[d] = Taking(D, c).takes[d] + h(d)
  BY <1>1, <1>2, <1>5, <1>6
<1>8. (\A d \in Context : D.takes[d] > 0 => ThreadOf[d] = t)
        <=> (\A d \in Context : Taking(D, c).takes[d] > 0 => ThreadOf[d] = t)
  BY <1>1, <1>5 DEF t
<1>9. Matches(t, D, deep, count) <=> Matches(t, Taking(D, c), deep, more)
  BY <1>3, <1>4, <1>7, <1>8 DEF Matches, h
<1> QED
  BY <1>9 DEF t, more

LEMMA MatchesAttached ==
  ASSUME Calm, NEW F \in Debt, NEW c \in Context, NEW count \in [Context -> Int], count[c] = 0,
         NEW deep
  PROVE  Matches(ThreadOf[c], Attached(F, Parent[c]), deep, count)
           <=> Matches(ThreadOf[c], Taking(F, c), deep, [count EXCEPT ![c] = @ + 1])
<1> DEFINE t == ThreadOf[c]
           p == Parent[c]
           more == [count EXCEPT ![c] = @ + 1]
           D == Attached(F, p)
           E == Taking(F, c)
           h(k) == Cardinality(Holders(t, k, count))
           m(k) == Cardinality(Holders(t, k, more))
<1>1. F.takes \in [Context -> Nat] /\ F.locks \in [Lock -> Nat]
  BY DebtParts
<1>2. \A d \in Context : more[d] = IF d = c THEN count[d] + 1 ELSE count[d]
  OBVIOUS
<1>3. p # c /\ p \in Context \cup {Coordinator} /\ (p # Coordinator => p \in Context /\ ThreadOf[p] = t)
  <2>1. p # c
    <3> {c} \in SUBSET Context /\ {c} # {}
      OBVIOUS
    <3> QED
      BY Topmost
  <2> QED
    BY <2>1, ParentTyped DEF Calm
<1>4. p \in Lock /\ p \notin Store /\ Coordinator \notin Store /\ Coordinator \notin Context
      /\ \A s \in Store : s \notin Context /\ s # p
  BY <1>3, LocksAssumption, Stores
<1>5. Holders(t, p, more) = Holders(t, p, count) \cup {c} /\ c \notin Holders(t, p, count)
  BY <1>2 DEF Holders
<1>6. \A k : k # p => Holders(t, k, more) = Holders(t, k, count)
  BY <1>2 DEF Holders
<1>7. \A k : h(k) \in Nat
  BY HoldersFinite
<1>8. m(p) = h(p) + 1 /\ \A k : k # p => m(k) = h(k)
  <2>1. IsFiniteSet(Holders(t, p, count))
    BY HoldersFinite
  <2>2. m(p) = h(p) + 1
    BY <1>5, <2>1, FS_AddElement
  <2> QED
    BY <1>6, <2>2
<1>9. /\ \A d \in Context : E.takes[d] = IF d = c THEN F.takes[d] + 1 ELSE F.takes[d]
      /\ E.locks = F.locks
  BY <1>1 DEF Taking
<1>10. \A d \in Context : D.takes[d] = IF d = p THEN F.takes[d] + 1 ELSE F.takes[d]
  <2>1. CASE p = Coordinator
    <3>1. D.takes = F.takes
      BY <2>1 DEF Attached, EachLocked, Locking
    <3> QED
      BY <2>1, <3>1, <1>4
  <2>2. CASE p # Coordinator
    <3>1. D.takes = [F.takes EXCEPT ![p] = @ + 1]
      BY <2>2 DEF Attached, Taking, Locking
    <3> QED
      BY <1>1, <1>3, <2>2, <3>1
  <2> QED
    BY <2>1, <2>2
<1>11. \A k \in Lock : D.locks[k] = IF Behind(k) = p THEN F.locks[k] + 1 ELSE F.locks[k]
  <2>1. CASE p = Coordinator
    <3>1. D.locks = [k \in Lock |-> IF k \in Store THEN [F.locks EXCEPT ![p] = @ + 1][k] + 1
                                    ELSE [F.locks EXCEPT ![p] = @ + 1][k]]
      BY <2>1 DEF Attached, EachLocked, Locking
    <3> QED
      BY <1>1, <1>4, <2>1, <3>1 DEF Behind
  <2>2. CASE p # Coordinator
    <3>1. D.locks = [F.locks EXCEPT ![p] = @ + 1]
      BY <2>2 DEF Attached, Taking, Locking
    <3> QED
      BY <1>1, <1>4, <2>2, <3>1 DEF Behind
  <2> QED
    BY <2>1, <2>2
<1> HIDE DEF D, E, h, m, more, t, p
<1>12. \A k \in Lock : D.locks[k] + h(Behind(k)) = E.locks[k] + m(Behind(k))
  <2> TAKE k \in Lock
  <2>1. F.locks[k] \in Nat /\ h(Behind(k)) \in Nat
    BY <1>1, <1>7
  <2>2. CASE Behind(k) = p
    BY <1>8, <1>9, <1>11, <2>1, <2>2
  <2>3. CASE Behind(k) # p
    BY <1>8, <1>9, <1>11, <2>1, <2>3
  <2> QED
    BY <2>2, <2>3
<1>13. ASSUME NEW d \in Context
       PROVE  count[d] = D.takes[d] + h(d) <=> more[d] = E.takes[d] + m(d)
  <2>1. F.takes[d] \in Nat /\ h(d) \in Nat /\ count[d] \in Int
    BY <1>1, <1>7
  <2>2. CASE d = p
    BY <1>2, <1>3, <1>8, <1>9, <1>10, <2>1, <2>2
  <2>3. CASE d = c
    BY <1>2, <1>3, <1>8, <1>9, <1>10, <2>1, <2>3
  <2>4. CASE d # p /\ d # c
    BY <1>2, <1>3, <1>8, <1>9, <1>10, <2>1, <2>4
  <2> QED
    BY <2>2, <2>3, <2>4
<1>14. (\A d \in Context : D.takes[d] > 0 => ThreadOf[d] = t)
        <=> (\A d \in Context : E.takes[d] > 0 => ThreadOf[d] = t)
  <2>1. ThreadOf[c] = t /\ (p \in Context => ThreadOf[p] = t)
    BY <1>3, <1>4 DEF t
  <2> QED
    BY <1>1, <1>9, <1>10, <2>1
<1>15. Matches(t, D, deep, count) <=> Matches(t, E, deep, more)
  BY <1>12, <1>13, <1>14 DEF Matches, h, m
<1> QED
  BY <1>15 DEF D, E, t, p, more

LEMMA MatchesQuieting ==
  ASSUME NEW t, NEW D, NEW deep, NEW count
  PROVE  Matches(t, D, deep, count) <=> Matches(t, Quieting(D), deep, count)
BY DEF Matches, Quieting

(* Another thread's contexts are not among the holders.                    *)
LEMMA MatchesOthers ==
  ASSUME NEW u, NEW D, NEW deep, NEW count \in [Context -> Int], NEW other \in [Context -> Int],
         \A d \in Context : ThreadOf[d] = u => other[d] = count[d], Matches(u, D, deep, count)
  PROVE  Matches(u, D, deep, other)
<1>1. \A k : Holders(u, k, other) = Holders(u, k, count)
  BY DEF Holders
<1> QED
  BY <1>1 DEF Matches

-----------------------------------------------------------------------------
(* Each step keeps the inductive invariant: first the steps of the locks.  *)

(* The debts that a step finds, and what it may rely on.                   *)
LEMMA NextDebt ==
  ASSUME LocksInv, NEW t \in Thread, NEW verb, NEW l, Upcoming(t, verb, l)
  PROVE  \E D \in Debt, E \in Debt :
           /\ Does(t, <<verb, l>>, D, E) /\ Plan(t, Tail(todo[t]), E, Kept(t))
           /\ Matches(t, D, DepthOf(t), storeCount) /\ D.quiet = Quiet(t)
<1>1. PICK D \in Debt : /\ Plan(t, todo[t], D, Kept(t))
                        /\ Matches(t, D, DepthOf(t), storeCount) /\ D.quiet = Quiet(t)
  BY DEF LocksInv, Planned
<1>2. todo[t] \in Seq(Deed) /\ todo[t] # <<>> /\ Head(todo[t]) = <<verb, l>>
  BY Following DEF LocksInv, TypeInv
<1>3. PICK E \in Debt : <<Head(todo[t]), D, E>> \in Doing(t) /\ Plan(t, Tail(todo[t]), E, Kept(t))
  BY <1>1, <1>2, PathFirst DEF Plan
<1>4. Does(t, <<verb, l>>, D, E)
  BY <1>2, <1>3 DEF Doing
<1> QED
  BY <1>1, <1>3, <1>4

LEMMA StateTyped ==
  ASSUME LocksInv
  PROVE  /\ owner \in [Lock -> Thread \cup {None}] /\ depth \in [Lock -> Nat] /\ lockCount \in [Lock -> Nat]
         /\ storeCount \in [Context -> Int] /\ suppressed \in Nat /\ locked \subseteq Context
         /\ todo \in [Thread -> Seq(Deed)]
         /\ \A t \in Thread : t # None /\ DepthOf(t) \in [Lock -> Nat]
         /\ \A l \in Lock : lockCount[l] = depth[l] /\ (depth[l] = 0 <=> owner[l] = None)
         /\ owner[Coordinator] = None => suppressed = 0
BY LocksAssumption DEF LocksInv, TypeInv, TypeOK, Deed, DepthOf, Owned

LEMMA OtherPlanned ==
  ASSUME LocksInv, NEW u \in Thread, todo'[u] = todo[u], Kept(u)' = Kept(u), DepthOf(u)' = DepthOf(u),
         Quiet(u)' = Quiet(u), storeCount' \in [Context -> Int],
         \A d \in Context : ThreadOf[d] = u => storeCount'[d] = storeCount[d]
  PROVE  Planned(u)'
<1>1. PICK D \in Debt : /\ Plan(u, todo[u], D, Kept(u))
                        /\ Matches(u, D, DepthOf(u), storeCount) /\ D.quiet = Quiet(u)
  BY DEF LocksInv, Planned
<1>2. Matches(u, D, DepthOf(u), storeCount')
  BY <1>1, StateTyped, MatchesOthers
<1>3. Plan(u, todo'[u], D, Kept(u)') /\ Matches(u, D, DepthOf(u)', storeCount') /\ D.quiet = Quiet(u)'
  BY <1>1, <1>2
<1> QED
  BY <1>3 DEF Planned

(* A step of thread t that leaves the other threads alone.                 *)
LEMMA Moved ==
  ASSUME LocksInv, TypeInv', Owned', NEW t \in Thread, NEW D \in Debt, NEW steps \in Seq(Deed), NEW E,
         NEW verb, NEW l, Upcoming(t, verb, l), Then(t, steps),
         Plan(t, steps, D, E), Plan(t, Tail(todo[t]), E, Kept(t)),
         Matches(t, D, DepthOf(t)', storeCount'), D.quiet = Quiet(t)',
         locked' = locked, lost' = lost,
         \A u \in Thread \ {t} : DepthOf(u)' = DepthOf(u) /\ Quiet(u)' = Quiet(u),
         \A d \in Context : ThreadOf[d] # t => storeCount'[d] = storeCount[d]
  PROVE  LocksInv'
<1>1. TypeOK /\ storeCount' \in [Context -> Int]
  BY DEF LocksInv, TypeInv, TypeOK
<1>2. \A u \in Thread : Kept(u)' = Kept(u)
  BY DEF Kept
<1>3. Tail(todo[t]) \in Seq(Deed) /\ todo'[t] = steps \o Tail(todo[t]) /\ \A u \in Thread \ {t} : todo'[u] = todo[u]
  BY <1>1, Following, ThenTyped
<1>4. Plan(t, todo'[t], D, Kept(t)')
  <2>1. Plan(t, steps \o Tail(todo[t]), D, Kept(t))
    BY <1>3, PlanJoined
  <2> QED
    BY <1>2, <1>3, <2>1
<1>5. Planned(t)'
  BY <1>4 DEF Planned
<1>6. \A u \in Thread \ {t} : Planned(u)'
  BY <1>1, <1>2, <1>3, OtherPlanned
<1>7. LockedChangesNoticed'
  BY DEF LocksInv, LockedChangesNoticed
<1> QED
  BY <1>5, <1>6, <1>7 DEF LocksInv

(* A step that leaves the locks alone.                                     *)
LEMMA Replied ==
  ASSUME LocksInv, TypeInv', NEW t \in Thread, NEW D \in Debt, NEW steps \in Seq(Deed), NEW E,
         NEW verb, NEW l, Upcoming(t, verb, l), Then(t, steps),
         Plan(t, steps, D, E), Plan(t, Tail(todo[t]), E, Kept(t)),
         Matches(t, D, DepthOf(t), storeCount), D.quiet = Quiet(t),
         UNCHANGED <<owner, depth, lockCount, storeCount, suppressed, locked, lost>>
  PROVE  LocksInv'
<1>1. Owned'
  BY DEF LocksInv, Owned
<1>2. \A u \in Thread : DepthOf(u)' = DepthOf(u) /\ Quiet(u)' = Quiet(u)
  BY DEF DepthOf, Quiet
<1> QED
  BY <1>1, <1>2, Moved

LEMMA AcquireStep ==
  ASSUME LocksInv, TypeInv', NEW t \in Thread, NEW l \in Lock, Acquire(t, l)
  PROVE  LocksInv'
<1>1. PICK D \in Debt, E \in Debt :
        /\ Does(t, <<"acquire", l>>, D, E) /\ Plan(t, Tail(todo[t]), E, Kept(t))
        /\ Matches(t, D, DepthOf(t), storeCount) /\ D.quiet = Quiet(t)
  BY NextDebt DEF Acquire
<1>2. E = Locking(D, l) /\ (l \in Context => ThreadOf[l] = t)
  BY <1>1 DEF Does
<1>3. /\ owner \in [Lock -> Thread \cup {None}] /\ depth \in [Lock -> Nat] /\ lockCount \in [Lock -> Nat]
      /\ t # None /\ DepthOf(t) \in [Lock -> Nat]
      /\ \A k \in Lock : lockCount[k] = depth[k] /\ (depth[k] = 0 <=> owner[k] = None)
      /\ owner[Coordinator] = None => suppressed = 0
  BY StateTyped
<1>4. /\ owner[l] \in {None, t} /\ owner' = [owner EXCEPT ![l] = t] /\ depth' = [depth EXCEPT ![l] = @ + 1]
      /\ lockCount' = [lockCount EXCEPT ![l] = @ + 1] /\ Then(t, <<>>) /\ Upcoming(t, "acquire", l)
      /\ storeCount' = storeCount /\ suppressed' = suppressed /\ locked' = locked /\ lost' = lost
  BY DEF Acquire
<1>5. Owned'
  <2>1. \A k \in Lock : lockCount'[k] = depth'[k] /\ (depth'[k] = 0 <=> owner'[k] = None)
    BY <1>3, <1>4
  <2>2. \A c \in Context : owner'[c] \in {None, ThreadOf[c]}
    BY <1>2, <1>3, <1>4, Stores DEF LocksInv, Owned
  <2>3. owner'[Coordinator] = None => suppressed' = 0
    BY <1>3, <1>4, Stores
  <2> QED
    BY <2>1, <2>2, <2>3 DEF Owned
<1>6. DepthOf(t)' = [DepthOf(t) EXCEPT ![l] = @ + 1]
  <2>1. \A k \in Lock : DepthOf(t)'[k] = IF k = l THEN DepthOf(t)[k] + 1 ELSE DepthOf(t)[k]
    BY <1>3, <1>4 DEF DepthOf
  <2>2. DepthOf(t)' = [k \in Lock |-> DepthOf(t)'[k]]
    BY DEF DepthOf
  <2> QED
    BY <1>3, <2>1, <2>2
<1>7. \A u \in Thread \ {t} : DepthOf(u)' = DepthOf(u) /\ Quiet(u)' = Quiet(u)
  <2> TAKE u \in Thread \ {t}
  <2>1. u # None
    BY LocksAssumption
  <2>2. \A k \in Lock : (IF owner'[k] = u THEN depth'[k] ELSE 0) = (IF owner[k] = u THEN depth[k] ELSE 0)
    BY <1>3, <1>4, <2>1
  <2>3. owner'[Coordinator] = u <=> owner[Coordinator] = u
    BY <1>3, <1>4, <2>1, Stores
  <2> QED
    BY <1>4, <2>2, <2>3 DEF DepthOf, Quiet
<1>8. Matches(t, E, DepthOf(t)', storeCount')
  <2>1. DepthOf(t) \in [Lock -> Int]
    BY <1>3
  <2>2. Matches(t, Locking(D, l), [DepthOf(t) EXCEPT ![l] = @ + 1], storeCount)
    BY <1>1, <2>1, MatchesLocking
  <2> QED
    BY <1>2, <1>4, <1>6, <2>2
<1>9. E.quiet = Quiet(t)'
  <2>1. E.quiet = Quiet(t)
    BY <1>1, <1>2 DEF Locking
  <2>2. Quiet(t)' = Quiet(t)
    BY <1>3, <1>4, Stores DEF Quiet
  <2> QED
    BY <2>1, <2>2
<1>10. Plan(t, <<>>, E, E) /\ <<>> \in Seq(Deed)
  BY PathEmpty DEF Plan
<1> QED
  BY <1>1, <1>4, <1>5, <1>7, <1>8, <1>9, <1>10, Moved

LEMMA ReleaseStep ==
  ASSUME Calm, LocksInv, TypeInv', NEW t \in Thread, NEW l \in Lock, Release(t, l)
  PROVE  LocksInv'
<1>1. PICK D \in Debt, E \in Debt :
        /\ Does(t, <<"release", l>>, D, E) /\ Plan(t, Tail(todo[t]), E, Kept(t))
        /\ Matches(t, D, DepthOf(t), storeCount) /\ D.quiet = Quiet(t)
  BY NextDebt DEF Release
<1>2. D = Locking(E, l)
  BY <1>1 DEF Does
<1>3. /\ owner \in [Lock -> Thread \cup {None}] /\ depth \in [Lock -> Nat] /\ lockCount \in [Lock -> Nat]
      /\ t # None /\ DepthOf(t) \in [Lock -> Nat] /\ suppressed \in Nat
      /\ \A k \in Lock : lockCount[k] = depth[k] /\ (depth[k] = 0 <=> owner[k] = None)
      /\ owner[Coordinator] = None => suppressed = 0
  BY StateTyped
<1>4. owner[l] = t /\ depth[l] > 0 /\ lockCount[l] > 0
  <2>1. D.locks[l] > 0
    <3>1. E.locks \in [Lock -> Nat]
      BY DebtParts
    <3> QED
      BY <1>2, <3>1 DEF Locking
  <2>2. DepthOf(t)[l] = D.locks[l] + Cardinality(Holders(t, Behind(l), storeCount)) /\ D.locks[l] \in Nat
    BY <1>1, DebtParts DEF Matches
  <2>3. DepthOf(t)[l] > 0
    BY <2>1, <2>2, HoldersFinite
  <2> QED
    BY <1>3, <2>3 DEF DepthOf
<1>5. /\ owner' = [owner EXCEPT ![l] = IF depth[l] = 1 THEN None ELSE t] /\ depth' = [depth EXCEPT ![l] = @ - 1]
      /\ lockCount' = [lockCount EXCEPT ![l] = @ - 1] /\ Then(t, <<>>) /\ Upcoming(t, "release", l)
      /\ storeCount' = storeCount /\ suppressed' = suppressed /\ locked' = locked /\ lost' = lost
  BY <1>3, <1>4 DEF Release
<1>6. DepthOf(t) = [DepthOf(t)' EXCEPT ![l] = @ + 1] /\ DepthOf(t)' \in [Lock -> Int]
  <2>1. \A k \in Lock : DepthOf(t)[k] = IF k = l THEN DepthOf(t)'[k] + 1 ELSE DepthOf(t)'[k]
    BY <1>3, <1>4, <1>5 DEF DepthOf
  <2>2. \A k \in Lock : DepthOf(t)'[k] \in Int
    BY <1>3, <1>4, <1>5 DEF DepthOf
  <2>3. DepthOf(t)' = [k \in Lock |-> DepthOf(t)'[k]]
    BY DEF DepthOf
  <2> QED
    BY <1>3, <2>1, <2>2, <2>3
<1>7. \A u \in Thread \ {t} : DepthOf(u)' = DepthOf(u) /\ Quiet(u)' = Quiet(u)
  <2> TAKE u \in Thread \ {t}
  <2>1. u # None
    BY LocksAssumption
  <2>2. \A k \in Lock : (IF owner'[k] = u THEN depth'[k] ELSE 0) = (IF owner[k] = u THEN depth[k] ELSE 0)
    BY <1>3, <1>4, <1>5, <2>1
  <2>3. owner'[Coordinator] = u <=> owner[Coordinator] = u
    BY <1>3, <1>4, <1>5, <2>1, Stores
  <2> QED
    BY <1>5, <2>2, <2>3 DEF DepthOf, Quiet
<1>8. Matches(t, E, DepthOf(t)', storeCount')
  <2> DEFINE deep == DepthOf(t)'
  <2>1. deep \in [Lock -> Int] /\ DepthOf(t) = [deep EXCEPT ![l] = @ + 1]
    BY <1>6
  <2> HIDE DEF deep
  <2>2. Matches(t, E, deep, storeCount)
    <3>1. Matches(t, Locking(E, l), [deep EXCEPT ![l] = @ + 1], storeCount)
      BY <1>1, <1>2, <2>1
    <3> QED
      BY <2>1, <3>1, MatchesLocking
  <2> QED
    BY <1>5, <2>2 DEF deep
<1>9. owner'[Coordinator] = t \/ E.quiet = 0
  <2> SUFFICES ASSUME E.quiet # 0 PROVE owner'[Coordinator] = t
    OBVIOUS
  <2>1. Inside(E)
    BY DebtParts
  <2>2. DepthOf(t)'[Coordinator] > 0
    BY <1>8, <2>1, InsideOwns
  <2> QED
    BY <2>2, Stores DEF DepthOf
<1>10. E.quiet = Quiet(t)
  BY <1>1, <1>2 DEF Locking
<1>11. E.quiet = Quiet(t)' /\ (owner'[Coordinator] = None => suppressed' = 0)
  <2>1. CASE l = Coordinator
    BY <1>3, <1>4, <1>5, <1>9, <1>10, <2>1 DEF Quiet
  <2>2. CASE l # Coordinator
    BY <1>3, <1>5, <1>10, <2>2, Stores DEF Quiet
  <2> QED
    BY <2>1, <2>2
<1>12. Owned'
  <2>1. \A k \in Lock : lockCount'[k] = depth'[k] /\ (depth'[k] = 0 <=> owner'[k] = None)
    BY <1>3, <1>4, <1>5
  <2>2. \A c \in Context : owner'[c] \in {None, ThreadOf[c]}
    BY <1>3, <1>4, <1>5, Stores DEF LocksInv, Owned
  <2> QED
    BY <1>11, <2>1, <2>2 DEF Owned
<1>13. Plan(t, <<>>, E, E) /\ <<>> \in Seq(Deed)
  BY PathEmpty DEF Plan
<1> QED
  BY <1>1, <1>5, <1>7, <1>8, <1>11, <1>12, <1>13, Moved

-----------------------------------------------------------------------------
(* lockObjectStore and unlockObjectStore.                                  *)

(* A step that changes nothing but the count of one of the thread's        *)
(* contexts.                                                               *)
LEMMA Counted ==
  ASSUME LocksInv, TypeInv', NEW t \in Thread, NEW D \in Debt, NEW steps \in Seq(Deed), NEW E,
         NEW verb, NEW l, Upcoming(t, verb, l), Then(t, steps),
         Plan(t, steps, D, E), Plan(t, Tail(todo[t]), E, Kept(t)),
         Matches(t, D, DepthOf(t), storeCount'), D.quiet = Quiet(t),
         NEW c \in Context, ThreadOf[c] = t, NEW n, Count(c, n)
  PROVE  LocksInv'
<1>1. /\ UNCHANGED <<owner, depth, lockCount, suppressed, locked, lost>>
      /\ storeCount' = [storeCount EXCEPT ![c] = @ + n]
  BY DEF Count
<1>2. Owned'
  BY <1>1 DEF LocksInv, Owned
<1>3. \A u \in Thread : DepthOf(u)' = DepthOf(u) /\ Quiet(u)' = Quiet(u)
  BY <1>1 DEF DepthOf, Quiet
<1>4. \A d \in Context : ThreadOf[d] # t => storeCount'[d] = storeCount[d]
  BY <1>1, StateTyped
<1> QED
  BY <1>1, <1>2, <1>3, <1>4, Moved

LEMMA TakeStep ==
  ASSUME Calm, LocksInv, TypeInv', NEW t \in Thread, NEW c \in Context, Take(t, c)
  PROVE  LocksInv'
<1>1. PICK D \in Debt, E \in Debt :
        /\ Does(t, <<"take", c>>, D, E) /\ Plan(t, Tail(todo[t]), E, Kept(t))
        /\ Matches(t, D, DepthOf(t), storeCount) /\ D.quiet = Quiet(t)
  BY NextDebt DEF Take
<1>2. E = Taking(D, c) /\ ThreadOf[c] = t /\ NoStores(D)
  BY <1>1 DEF Does
<1>3. storeCount \in [Context -> Int] /\ storeCount[c] \in Int
  BY StateTyped
<1>4. CASE storeCount[c] = 0
  <2> DEFINE p == Parent[c]
             A == Attached(D, p)
  <2>1. Upcoming(t, "take", c) /\ Then(t, LockSteps(p) \o <<<<"taken", c>>>>) /\ Count(c, 0)
    BY <1>4 DEF Take
  <2>2. p \in Context \cup {Coordinator} /\ (p \in Context => ThreadOf[p] = t)
    BY <1>2, ParentTyped DEF Calm
  <2>3. LockSteps(p) \in Seq(Deed) /\ Plan(t, LockSteps(p), D, A) /\ A \in Debt
    BY <1>2, <2>2, PlanLock, AttachedDebt
  <2>4. NotTaken(c, A)
    <3>1. NotTaken(c, D)
      BY <1>1, <1>2, <1>4, CountsIfTaken
    <3>2. CASE p = Coordinator
      <4>1. A.takes = D.takes
        BY <3>2 DEF Attached, EachLocked, Locking
      <4> QED
        BY <3>1, <4>1 DEF NotTaken
    <3>3. CASE p # Coordinator
      <4>1. A.takes = [D.takes EXCEPT ![p] = @ + 1] /\ D.takes \in [Context -> Nat]
        BY <3>3, DebtParts DEF Attached, Taking, Locking
      <4>2. c \notin Held(p)
        BY NotBehindItself
      <4> QED
        BY <3>1, <4>1, <4>2 DEF NotTaken
    <3> QED
      BY <3>2, <3>3
  <2>5. Does(t, <<"taken", c>>, A, E)
    BY <1>2, <2>4 DEF Does
  <2>6. Plan(t, <<<<"taken", c>>>>, A, E) /\ <<<<"taken", c>>>> \in Seq(Deed)
    BY <2>3, <2>5, Stores, PlanOne DEF Verb
  <2> HIDE DEF A, p
  <2>7. Plan(t, LockSteps(p) \o <<<<"taken", c>>>>, D, E) /\ LockSteps(p) \o <<<<"taken", c>>>> \in Seq(Deed)
    BY <2>3, <2>6, PlanJoined
  <2>8. storeCount' = storeCount
    BY <1>3, <2>1 DEF Count
  <2> QED
    BY <1>1, <1>2, <2>1, <2>7, <2>8, Counted
<1>5. CASE storeCount[c] # 0
  <2>1. Upcoming(t, "take", c) /\ Then(t, <<>>) /\ Count(c, 1)
    BY <1>5 DEF Take
  <2>2. storeCount[c] > 0
    <3>1. storeCount[c] = D.takes[c] + Cardinality(Holders(t, c, storeCount)) /\ D.takes[c] \in Nat
      BY <1>1, <1>2, DebtParts DEF Matches
    <3> QED
      BY <1>5, <3>1, HoldersFinite
  <2>3. storeCount' = [storeCount EXCEPT ![c] = @ + 1]
    BY <2>1 DEF Count
  <2>4. Matches(t, E, DepthOf(t), storeCount')
    <3>1. Matches(t, Taking(D, c), DepthOf(t), [storeCount EXCEPT ![c] = @ + 1])
      BY <1>1, <1>2, <1>3, <2>2, MatchesTaking
    <3> QED
      BY <1>2, <2>3, <3>1
  <2>5. Plan(t, <<>>, E, E) /\ <<>> \in Seq(Deed) /\ E.quiet = D.quiet
    BY <1>2, PathEmpty DEF Plan, Taking
  <2> QED
    BY <1>1, <1>2, <2>1, <2>4, <2>5, Counted
<1> QED
  BY <1>4, <1>5

LEMMA TakenStep ==
  ASSUME Calm, LocksInv, TypeInv', NEW t \in Thread, NEW c \in Context, Taken(t, c)
  PROVE  LocksInv'
<1>1. PICK D \in Debt, E \in Debt :
        /\ Does(t, <<"taken", c>>, D, E) /\ Plan(t, Tail(todo[t]), E, Kept(t))
        /\ Matches(t, D, DepthOf(t), storeCount) /\ D.quiet = Quiet(t)
  BY NextDebt DEF Taken
<1>2. (\E F \in Debt : D = Attached(F, Parent[c]) /\ E = Taking(F, c)) /\ ThreadOf[c] = t /\ NotTaken(c, D)
  BY <1>1 DEF Does
<1>3. PICK F \in Debt : D = Attached(F, Parent[c]) /\ E = Taking(F, c)
  BY <1>2
<1>4. storeCount \in [Context -> Int]
  BY StateTyped
<1>5. storeCount[c] = 0
  <2>1. ~ (storeCount[c] > 0)
    BY <1>1, <1>2, CountsIfTaken
  <2>2. storeCount[c] = D.takes[c] + Cardinality(Holders(t, c, storeCount)) /\ D.takes[c] \in Nat
    BY <1>1, <1>2, DebtParts DEF Matches
  <2> QED
    BY <2>1, <2>2, HoldersFinite
<1>6. Upcoming(t, "taken", c) /\ Then(t, <<>>) /\ Count(c, 1)
  BY DEF Taken
<1>7. Matches(t, E, DepthOf(t), storeCount')
  <2>1. Matches(t, Attached(F, Parent[c]), DepthOf(t), storeCount)
    BY <1>1, <1>3
  <2>2. Matches(t, Taking(F, c), DepthOf(t), [storeCount EXCEPT ![c] = @ + 1])
    BY <1>2, <1>4, <1>5, <2>1, MatchesAttached
  <2> QED
    BY <1>3, <1>6, <2>2 DEF Count
<1>8. E.quiet = D.quiet
  BY <1>3 DEF Attached, EachLocked, Locking, Taking
<1>9. Plan(t, <<>>, E, E) /\ <<>> \in Seq(Deed)
  BY PathEmpty DEF Plan
<1> QED
  BY <1>1, <1>2, <1>6, <1>7, <1>8, <1>9, Counted

LEMMA GiveStep ==
  ASSUME Calm, LocksInv, TypeInv', NEW t \in Thread, NEW c \in Context, Give(t, c)
  PROVE  LocksInv'
<1>1. PICK D \in Debt, E \in Debt :
        /\ Does(t, <<"give", c>>, D, E) /\ Plan(t, Tail(todo[t]), E, Kept(t))
        /\ Matches(t, D, DepthOf(t), storeCount) /\ D.quiet = Quiet(t)
  BY NextDebt DEF Give
<1>2. D = Taking(E, c) /\ ThreadOf[c] = t
  BY <1>1 DEF Does
<1>3. storeCount \in [Context -> Int]
  BY StateTyped
<1> DEFINE fewer == [storeCount EXCEPT ![c] = @ - 1]
<1>4. Upcoming(t, "give", c) /\ Count(c, -1) /\ storeCount' = fewer
  BY <1>3 DEF Give, Count
<1>5. fewer \in [Context -> Int] /\ storeCount = [fewer EXCEPT ![c] = @ + 1] /\ fewer[c] = storeCount[c] - 1
  <2>1. fewer \in [Context -> Int] /\ fewer[c] = storeCount[c] - 1
    BY <1>3
  <2>2. \A d \in Context : storeCount[d] = IF d = c THEN fewer[d] + 1 ELSE fewer[d]
    BY <1>3
  <2> HIDE DEF fewer
  <2> QED
    BY <1>3, <2>1, <2>2
<1>6. storeCount[c] \in Int /\ storeCount[c] > 0
  <2>1. storeCount[c] = D.takes[c] + Cardinality(Holders(t, c, storeCount)) /\ D.takes[c] > 0 /\ D.takes[c] \in Nat
    <3>1. E.takes \in [Context -> Nat]
      BY DebtParts
    <3> QED
      BY <1>1, <1>2, <3>1, DebtParts DEF Matches, Taking
  <2> QED
    BY <1>3, <2>1, HoldersFinite
<1> HIDE DEF fewer
<1>7. CASE storeCount[c] = 1
  <2> DEFINE p == Parent[c]
             A == Attached(E, p)
  <2>1. Then(t, UnlockSteps(p))
    BY <1>7 DEF Give
  <2>2. p \in Context \cup {Coordinator} /\ (p \in Context => ThreadOf[p] = t)
    BY <1>2, ParentTyped DEF Calm
  <2>3. UnlockSteps(p) \in Seq(Deed) /\ Plan(t, UnlockSteps(p), A, E) /\ A \in Debt
    BY <2>2, PlanUnlock, AttachedDebt
  <2>4. Matches(t, A, DepthOf(t), fewer)
    <3>1. fewer[c] = 0
      BY <1>5, <1>7
    <3>2. Matches(t, Taking(E, c), DepthOf(t), [fewer EXCEPT ![c] = @ + 1])
      BY <1>1, <1>2, <1>5
    <3> QED
      BY <1>2, <1>5, <3>1, <3>2, MatchesAttached
  <2>5. A.quiet = D.quiet
    BY <1>2 DEF Attached, EachLocked, Locking, Taking
  <2> HIDE DEF A, p
  <2> QED
    BY <1>1, <1>2, <1>4, <2>1, <2>3, <2>4, <2>5, Counted
<1>8. CASE storeCount[c] # 1
  <2>1. Then(t, <<>>)
    BY <1>8 DEF Give
  <2>2. Matches(t, E, DepthOf(t), fewer)
    <3>1. fewer[c] > 0
      BY <1>5, <1>6, <1>8
    <3>2. Matches(t, Taking(E, c), DepthOf(t), [fewer EXCEPT ![c] = @ + 1])
      BY <1>1, <1>2, <1>5
    <3> QED
      BY <1>2, <1>5, <3>1, <3>2, MatchesTaking
  <2>3. Plan(t, <<>>, E, E) /\ <<>> \in Seq(Deed) /\ E.quiet = D.quiet
    BY <1>2, PathEmpty DEF Plan, Taking
  <2> QED
    BY <1>1, <1>2, <1>4, <2>1, <2>2, <2>3, Counted
<1> QED
  BY <1>7, <1>8

-----------------------------------------------------------------------------
(* The steps that leave the locks alone.                                   *)

LEMMA UseStep ==
  ASSUME LocksInv, TypeInv', NEW t \in Thread, NEW s \in Store, Use(t, s)
  PROVE  LocksInv'
<1>1. PICK D \in Debt, E \in Debt :
        /\ Does(t, <<"use", s>>, D, E) /\ Plan(t, Tail(todo[t]), E, Kept(t))
        /\ Matches(t, D, DepthOf(t), storeCount) /\ D.quiet = Quiet(t)
  BY NextDebt DEF Use
<1>2. E = D
  BY <1>1 DEF Does
<1>3. Plan(t, <<>>, D, D) /\ <<>> \in Seq(Deed)
  BY PathEmpty DEF Plan
<1> QED
  BY <1>1, <1>2, <1>3, Replied DEF Use

LEMMA CommitStep ==
  ASSUME LocksInv, TypeInv', NEW t \in Thread, NEW s \in Store, Commit(t, s)
  PROVE  LocksInv'
<1>1. PICK D \in Debt, E \in Debt :
        /\ Does(t, <<"commit", s>>, D, E) /\ Plan(t, Tail(todo[t]), E, Kept(t))
        /\ Matches(t, D, DepthOf(t), storeCount) /\ D.quiet = Quiet(t)
  BY NextDebt DEF Commit, Send
<1>2. E = D /\ NoStores(D)
  BY <1>1 DEF Does
<1>3. <<>> \in Seq(Deed) /\ \A F \in Debt : Plan(t, <<>>, F, F)
  BY PathEmpty DEF Plan
<1>4. SecondPhase(s, <<>>) \in Seq(Deed) /\ Plan(t, SecondPhase(s, <<>>), D, D)
  BY <1>2, <1>3, StartsSecondPhase DEF Starts
<1> QED
  BY <1>1, <1>2, <1>4, Replied DEF Commit, Send

LEMMA MessageStep ==
  ASSUME Calm, LocksInv, TypeInv', NEW t \in Thread, NEW c \in Context, Message(t, c)
  PROVE  LocksInv'
<1>1. CASE Send(t, "tell", c, Told(c))
  <2>1. Upcoming(t, "tell", c) /\ Then(t, <<>>)
        /\ UNCHANGED <<owner, depth, lockCount, storeCount, suppressed, locked, lost>>
    BY <1>1 DEF Send, Told, Notified, Calm
  <2>2. PICK D \in Debt, E \in Debt :
          /\ Does(t, <<"tell", c>>, D, E) /\ Plan(t, Tail(todo[t]), E, Kept(t))
          /\ Matches(t, D, DepthOf(t), storeCount) /\ D.quiet = Quiet(t)
    BY <2>1, NextDebt
  <2>3. E = D
    BY <2>2 DEF Does
  <2>4. Plan(t, <<>>, D, D) /\ <<>> \in Seq(Deed)
    BY PathEmpty DEF Plan
  <2> QED
    BY <2>1, <2>2, <2>3, <2>4, Replied
<1>2. ASSUME NEW verb \in {"ask", "fetch", "invalidate"}, Upcoming(t, verb, c), NEW steps, Then(t, steps),
             steps \in (IF verb = "ask" THEN Asked(c) ELSE IF verb = "fetch" THEN Fetched(c) ELSE Invalidated(c)),
             UNCHANGED <<owner, depth, lockCount, storeCount, suppressed, locked, lost>>
      PROVE  LocksInv'
  <2>1. PICK D \in Debt, E \in Debt :
          /\ Does(t, <<verb, c>>, D, E) /\ Plan(t, Tail(todo[t]), E, Kept(t))
          /\ Matches(t, D, DepthOf(t), storeCount) /\ D.quiet = Quiet(t)
    BY <1>2, NextDebt
  <2>2. E = D /\ ThreadOf[c] = t /\ NoStores(D) /\ (Parent[c] = Coordinator => Inside(D))
    BY <2>1 DEF Does
  <2>3. steps \in Seq(Deed) /\ Plan(t, steps, D, D)
    BY <1>2, <2>2, KeepsReplies DEF Keeps, Starts
  <2> QED
    BY <1>2, <2>1, <2>2, <2>3, Replied
<1>3. CASE Send(t, "ask", c, Asked(c))
  BY <1>2, <1>3 DEF Send
<1>4. CASE Send(t, "fetch", c, Fetched(c))
  BY <1>2, <1>4 DEF Send
<1>5. CASE Send(t, "invalidate", c, Invalidated(c))
  BY <1>2, <1>5 DEF Send
<1> QED
  BY <1>1, <1>3, <1>4, <1>5 DEF Message

LEMMA SuppressStep ==
  ASSUME Calm, LocksInv, TypeInv', NEW t \in Thread, Suppress(t) \/ Enable(t)
  PROVE  LocksInv'
<1>1. PICK verb \in {"suppress", "enable"} : Upcoming(t, verb, Coordinator)
  BY DEF Suppress, Enable
<1>2. PICK D \in Debt, E \in Debt :
        /\ Does(t, <<verb, Coordinator>>, D, E) /\ Plan(t, Tail(todo[t]), E, Kept(t))
        /\ Matches(t, D, DepthOf(t), storeCount) /\ D.quiet = Quiet(t)
  BY <1>1, NextDebt
<1>3. Then(t, <<>>) /\ UNCHANGED <<owner, depth, lockCount, storeCount, locked, lost>>
      /\ suppressed' = IF verb = "suppress" THEN suppressed + 1 ELSE suppressed - 1
  <2>1. \A v \in {"suppress", "enable"} : Upcoming(t, v, Coordinator) => v = verb
    BY <1>1 DEF Upcoming
  <2>2. CASE Suppress(t)
    <3>1. verb = "suppress"
      BY <2>1, <2>2 DEF Suppress
    <3> QED
      BY <2>2, <3>1 DEF Suppress
  <2>3. CASE Enable(t)
    <3>1. verb = "enable"
      BY <2>1, <2>3 DEF Enable
    <3> QED
      BY <2>3, <3>1 DEF Enable
  <2> QED
    BY <2>2, <2>3
<1>4. IF verb = "suppress" THEN E = Quieting(D) ELSE D = Quieting(E)
  BY <1>2 DEF Does
<1>5. D.quiet \in Nat /\ E.quiet \in Nat /\ suppressed \in Nat /\ t # None
  BY DebtParts, StateTyped
<1>6. owner[Coordinator] = t
  <2>1. Inside(D)
    <3>1. D.quiet > 0 \/ E.quiet > 0
      BY <1>4, <1>5 DEF Quieting
    <3>2. D.takes = E.takes
      BY <1>4 DEF Quieting
    <3> QED
      BY <3>1, <3>2, DebtParts DEF Inside
  <2>2. DepthOf(t)[Coordinator] > 0
    BY <1>2, <2>1, InsideOwns
  <2> QED
    BY <2>2, Stores DEF DepthOf
<1>7. Owned'
  <2>1. \A l \in Lock : lockCount'[l] = depth'[l] /\ (depth'[l] = 0 <=> owner'[l] = None)
    BY <1>3, StateTyped
  <2> QED
    BY <1>3, <1>5, <1>6, <2>1 DEF LocksInv, Owned
<1>8. \A u \in Thread : DepthOf(u)' = DepthOf(u)
  BY <1>3 DEF DepthOf
<1>9. \A u \in Thread \ {t} : Quiet(u)' = Quiet(u)
  BY <1>3, <1>6 DEF Quiet
<1>10. E.quiet = Quiet(t)'
  BY <1>2, <1>3, <1>4, <1>5, <1>6 DEF Quiet, Quieting
<1>11. Matches(t, E, DepthOf(t)', storeCount')
  BY <1>2, <1>3, <1>4, <1>8, MatchesQuieting
<1>12. Plan(t, <<>>, E, E) /\ <<>> \in Seq(Deed)
  BY PathEmpty DEF Plan
<1> QED
  BY <1>1, <1>2, <1>3, <1>7, <1>8, <1>9, <1>10, <1>11, <1>12, Moved

-----------------------------------------------------------------------------
(* The steps that begin an operation, and edits.                           *)

(* A thread between its operations.                                        *)
LEMMA Between ==
  ASSUME LocksInv, NEW t \in Thread, Ready(t)
  PROVE  Kept(t) \in Debt /\ Matches(t, Kept(t), DepthOf(t), storeCount) /\ Quiet(t) = 0 /\ NoStores(Kept(t))
<1>1. PICK D \in Debt : /\ Plan(t, todo[t], D, Kept(t))
                        /\ Matches(t, D, DepthOf(t), storeCount) /\ D.quiet = Quiet(t)
  BY DEF LocksInv, Planned
<1>2. D = Kept(t)
  BY <1>1, PathStays DEF Ready, Plan
<1>3. NoStores(Kept(t))
  BY StateTyped, LocksAssumption, Stores DEF NoStores, Kept
<1> QED
  BY <1>1, <1>2, <1>3 DEF Kept

(* A thread that begins with an operation.                                 *)
LEMMA Begun ==
  ASSUME LocksInv, TypeInv', NEW t \in Thread, Ready(t), NEW steps, Do(t, steps),
         Plan(t, steps, Kept(t), Kept(t)'), \A u \in Thread \ {t} : Kept(u)' = Kept(u)
  PROVE  LocksInv'
<1>1. /\ todo'[t] = steps /\ \A u \in Thread \ {t} : todo'[u] = todo[u]
      /\ UNCHANGED <<owner, depth, lockCount, storeCount, suppressed, lost>>
  BY StateTyped DEF Do
<1>2. Owned'
  BY <1>1 DEF LocksInv, Owned
<1>3. \A u \in Thread : DepthOf(u)' = DepthOf(u) /\ Quiet(u)' = Quiet(u)
  BY <1>1 DEF DepthOf, Quiet
<1>4. Planned(t)'
  <2>1. Kept(t) \in Debt /\ Matches(t, Kept(t), DepthOf(t)', storeCount') /\ Kept(t).quiet = Quiet(t)'
    BY <1>1, <1>3, Between DEF Kept
  <2>2. Plan(t, todo'[t], Kept(t), Kept(t)')
    BY <1>1
  <2> QED
    BY <2>1, <2>2 DEF Planned
<1>5. \A u \in Thread \ {t} : Planned(u)'
  BY <1>1, <1>3, StateTyped, OtherPlanned
<1>6. LockedChangesNoticed'
  BY <1>1 DEF LocksInv, LockedChangesNoticed
<1> QED
  BY <1>2, <1>4, <1>5, <1>6 DEF LocksInv

LEMMA OneMore ==
  ASSUME NEW A, NEW c \in A, NEW f \in [A -> Nat], NEW g \in [A -> Nat], f[c] = g[c] + 1,
         \A l \in A \ {c} : f[l] = g[l]
  PROVE  f = [g EXCEPT ![c] = @ + 1]
OBVIOUS

LEMMA LockContextStep ==
  ASSUME Calm, LocksInv, TypeInv', NEW c \in Context, LockContext(c) \/ UnlockContext(c)
  PROVE  LocksInv'
<1> DEFINE t == ThreadOf[c]
<1>1. t \in Thread /\ Ready(t) /\ c # Coordinator /\ c \in Lock /\ locked \subseteq Context
  BY StateTyped, Stores, LocksAssumption DEF LockContext, UnlockContext
<1>2. ASSUME NEW S \in SUBSET Context, NEW T \in SUBSET Context, c \notin S, T = S \cup {c}
      PROVE  [locks |-> [l \in Lock |-> IF l \in T /\ ThreadOf[l] = t THEN 1 ELSE 0],
              takes |-> [d \in Context |-> IF d \in T /\ ThreadOf[d] = t THEN 1 ELSE 0], quiet |-> 0]
             = Attached([locks |-> [l \in Lock |-> IF l \in S /\ ThreadOf[l] = t THEN 1 ELSE 0],
                         takes |-> [d \in Context |-> IF d \in S /\ ThreadOf[d] = t THEN 1 ELSE 0], quiet |-> 0], c)
  <2> DEFINE f == [l \in Lock |-> IF l \in T /\ ThreadOf[l] = t THEN 1 ELSE 0]
             g == [l \in Lock |-> IF l \in S /\ ThreadOf[l] = t THEN 1 ELSE 0]
             h == [d \in Context |-> IF d \in T /\ ThreadOf[d] = t THEN 1 ELSE 0]
             k == [d \in Context |-> IF d \in S /\ ThreadOf[d] = t THEN 1 ELSE 0]
  <2>0. /\ f \in [Lock -> Nat] /\ g \in [Lock -> Nat] /\ f[c] = g[c] + 1 /\ \A l \in Lock \ {c} : f[l] = g[l]
        /\ h \in [Context -> Nat] /\ k \in [Context -> Nat] /\ h[c] = k[c] + 1
        /\ \A d \in Context \ {c} : h[d] = k[d] /\ c \in Lock
    BY <1>1, <1>2
  <2> HIDE DEF f, g, h, k
  <2>1. f = [g EXCEPT ![c] = @ + 1]
    BY <1>1, <2>0, OneMore
  <2>2. h = [k EXCEPT ![c] = @ + 1]
    BY <2>0, OneMore
  <2>3. [locks |-> f, takes |-> h, quiet |-> 0] = Attached([locks |-> g, takes |-> k, quiet |-> 0], c)
    BY <1>1, <2>1, <2>2 DEF Attached, Locking, Taking
  <2> QED
    BY <2>3 DEF f, g, h, k
<1>3. \A u \in Thread \ {t} : Kept(u)' = Kept(u)
  <2> TAKE u \in Thread \ {t}
  <2>1. \A l : (l \in locked' /\ ThreadOf[l] = u) <=> (l \in locked /\ ThreadOf[l] = u)
    BY DEF LockContext, UnlockContext
  <2> QED
    BY <2>1 DEF Kept
<1>4. Kept(t) \in Debt /\ NoStores(Kept(t))
  BY <1>1, Between
<1>5. CASE LockContext(c)
  <2>1. Do(t, LockSteps(c)) /\ c \notin locked /\ locked' = locked \cup {c}
    BY <1>5 DEF LockContext
  <2>2. Kept(t)' = Attached(Kept(t), c)
    BY <1>1, <1>2, <2>1 DEF Kept
  <2>3. Plan(t, LockSteps(c), Kept(t), Kept(t)')
    BY <1>4, <2>2, PlanLock
  <2> HIDE DEF t
  <2> QED
    BY <1>1, <1>3, <2>1, <2>3, Begun
<1>6. CASE UnlockContext(c)
  <2>1. Do(t, UnlockSteps(c)) /\ c \in locked /\ locked' = locked \ {c}
    BY <1>6 DEF UnlockContext
  <2>2. Kept(t) = Attached(Kept(t)', c)
    <3>1. locked' \in SUBSET Context /\ c \notin locked' /\ locked = locked' \cup {c}
      BY <1>1, <2>1
    <3> QED
      BY <1>1, <1>2, <3>1 DEF Kept
  <2>3. Kept(t)' \in Debt
    <3>1. [l \in Lock |-> IF l \in locked' /\ ThreadOf[l] = t THEN 1 ELSE 0] \in [Lock -> Nat]
          /\ [d \in Context |-> IF d \in locked' /\ ThreadOf[d] = t THEN 1 ELSE 0] \in [Context -> Nat]
      OBVIOUS
    <3> QED
      BY <3>1, DebtIs DEF Kept
  <2>4. Plan(t, UnlockSteps(c), Kept(t), Kept(t)')
    BY <2>2, <2>3, PlanUnlock
  <2> HIDE DEF t
  <2> QED
    BY <1>1, <1>3, <2>1, <2>4, Begun
<1> QED
  BY <1>5, <1>6

LEMMA OperateStep ==
  ASSUME Calm, LocksInv, TypeInv', NEW c \in Context, Operate(c)
  PROVE  LocksInv'
<1> DEFINE t == ThreadOf[c]
<1>1. PICK steps \in Operation(c) : Do(t, steps)
  BY DEF Operate
<1>2. t \in Thread /\ Ready(t) /\ locked' = locked
  BY LocksAssumption DEF Operate
<1>3. Kept(t) \in Debt /\ NoStores(Kept(t))
  BY <1>2, Between
<1>4. c \in locked => Inside(Kept(t))
  BY DEF Inside, Kept
<1>5. Plan(t, steps, Kept(t), Kept(t))
  BY <1>3, <1>4, PlanOperation
<1>6. \A u \in Thread : Kept(u)' = Kept(u)
  BY <1>2 DEF Kept
<1> HIDE DEF t
<1> QED
  BY <1>1, <1>2, <1>5, <1>6, Begun

LEMMA EditStep ==
  ASSUME Calm, LocksInv, TypeInv', NEW c \in Context, Edit(c)
  PROVE  LocksInv'
<1> DEFINE t == ThreadOf[c]
<1>1. t \in Thread /\ Ready(t) /\ UNCHANGED <<owner, depth, lockCount, storeCount, suppressed, locked, todo>>
  BY LocksAssumption DEF Edit
<1>2. ASSUME c \in locked PROVE suppressed = 0
  <2>1. Kept(t) \in Debt /\ Matches(t, Kept(t), DepthOf(t), storeCount) /\ Quiet(t) = 0
    BY <1>1, Between
  <2>2. Inside(Kept(t))
    BY <1>2 DEF Inside, Kept
  <2>3. DepthOf(t)[Coordinator] > 0
    BY <2>1, <2>2, InsideOwns
  <2>4. owner[Coordinator] = t
    BY <2>3, Stores DEF DepthOf
  <2> QED
    BY <2>1, <2>4 DEF Quiet
<1>3. LockedChangesNoticed'
  <2>1. CASE suppressed = 0
    BY <2>1 DEF Edit, LocksInv, LockedChangesNoticed
  <2>2. CASE suppressed # 0
    <3> DEFINE b == c \in locked
    <3>0. b = FALSE
      BY <1>2, <2>2
    <3>2. lost' = lost \cup {<<c, b>>}
      BY <2>2 DEF Edit
    <3> HIDE DEF b
    <3>1. lost' = lost \cup {<<c, FALSE>>}
      BY <3>0, <3>2
    <3> QED
      BY <3>1 DEF LocksInv, LockedChangesNoticed
  <2> QED
    BY <2>1, <2>2
<1>4. Owned'
  BY <1>1 DEF LocksInv, Owned
<1>5. \A u \in Thread : Kept(u)' = Kept(u) /\ DepthOf(u)' = DepthOf(u) /\ Quiet(u)' = Quiet(u)
  BY <1>1 DEF Kept, DepthOf, Quiet
<1>6. \A u \in Thread : Planned(u)'
  BY <1>1, <1>5, StateTyped, OtherPlanned
<1> QED
  BY <1>3, <1>4, <1>6 DEF LocksInv

LEMMA IdleStep ==
  ASSUME LocksInv, TypeInv', UNCHANGED vars
  PROVE  LocksInv'
<1>1. UNCHANGED <<owner, depth, lockCount, storeCount, suppressed, locked, todo, lost>>
  BY DEF vars
<1>2. \A t \in Thread : Kept(t)' = Kept(t) /\ DepthOf(t)' = DepthOf(t) /\ Quiet(t)' = Quiet(t)
  BY <1>1 DEF Kept, DepthOf, Quiet
<1>3. \A t \in Thread : Planned(t)'
  BY <1>1, <1>2, StateTyped, OtherPlanned
<1> QED
  BY <1>1, <1>3 DEF LocksInv, Owned, LockedChangesNoticed

LEMMA LocksInit ==
  ASSUME Init
  PROVE  LocksInv
<1>1. \A l \in Lock : owner[l] = None /\ depth[l] = 0 /\ lockCount[l] = 0
  BY DEF Init
<1>2. suppressed = 0 /\ locked = {} /\ lost = {} /\ \A c \in Context : storeCount[c] = 0
  BY DEF Init
<1>3. Owned
  BY <1>1, <1>2, Stores DEF Owned
<1>4. ASSUME NEW t \in Thread PROVE Planned(t)
  <2>1. /\ \A l \in Lock : Kept(t).locks[l] = 0
        /\ \A c \in Context : Kept(t).takes[c] = 0
        /\ Kept(t).quiet = 0
    BY <1>2 DEF Kept
  <2>2. Kept(t) \in Debt
    <3>1. [l \in Lock |-> IF l \in locked /\ ThreadOf[l] = t THEN 1 ELSE 0] \in [Lock -> Nat]
          /\ [d \in Context |-> IF d \in locked /\ ThreadOf[d] = t THEN 1 ELSE 0] \in [Context -> Nat]
      OBVIOUS
    <3> QED
      BY <3>1, DebtIs DEF Kept
  <2>3. todo[t] = <<>>
    BY DEF Init
  <2>4. Plan(t, todo[t], Kept(t), Kept(t))
    BY <2>2, <2>3, PathEmpty DEF Plan
  <2>5. \A l : Holders(t, l, storeCount) = {} /\ Cardinality(Holders(t, l, storeCount)) = 0
    <3>1. \A l : Holders(t, l, storeCount) = {}
      BY <1>2 DEF Holders
    <3> QED
      BY <3>1, FS_EmptySet
  <2>6. t # None /\ \A l \in Lock : DepthOf(t)[l] = 0
    BY <1>1, LocksAssumption DEF DepthOf
  <2>7. Matches(t, Kept(t), DepthOf(t), storeCount)
    BY <1>2, <2>1, <2>5, <2>6 DEF Matches
  <2>8. Quiet(t) = 0
    BY <1>2 DEF Quiet
  <2> QED
    BY <2>1, <2>2, <2>4, <2>7, <2>8 DEF Planned
<1>5. LockedChangesNoticed
  BY <1>2 DEF LockedChangesNoticed
<1> QED
  BY <1>3, <1>4, <1>5, TypeInit DEF LocksInv

LEMMA LocksStep ==
  ASSUME Calm, LocksInv, [Next]_vars
  PROVE  LocksInv'
<1>1. TypeInv'
  BY TypeStep DEF LocksInv
<1>2. CASE UNCHANGED vars
  BY <1>1, <1>2, IdleStep
<1>3. ASSUME NEW c \in Context, LockContext(c) \/ UnlockContext(c) PROVE LocksInv'
  BY <1>1, <1>3, LockContextStep
<1>4. ASSUME NEW c \in Context, Operate(c) PROVE LocksInv'
  BY <1>1, <1>4, OperateStep
<1>5. ASSUME NEW c \in Context, Edit(c) PROVE LocksInv'
  BY <1>1, <1>5, EditStep
<1>6. ASSUME NEW t \in Thread, NEW l \in Lock, Acquire(t, l) PROVE LocksInv'
  BY <1>1, <1>6, AcquireStep
<1>7. ASSUME NEW t \in Thread, NEW l \in Lock, Release(t, l) PROVE LocksInv'
  BY <1>1, <1>7, ReleaseStep
<1>8. ASSUME NEW t \in Thread, NEW c \in Context, Take(t, c) PROVE LocksInv'
  BY <1>1, <1>8, TakeStep
<1>9. ASSUME NEW t \in Thread, NEW c \in Context, Taken(t, c) PROVE LocksInv'
  BY <1>1, <1>9, TakenStep
<1>10. ASSUME NEW t \in Thread, NEW c \in Context, Give(t, c) PROVE LocksInv'
  BY <1>1, <1>10, GiveStep
<1>11. ASSUME NEW t \in Thread, NEW c \in Context, Message(t, c) PROVE LocksInv'
  BY <1>1, <1>11, MessageStep
<1>12. ASSUME NEW t \in Thread, NEW s \in Store, Use(t, s) PROVE LocksInv'
  BY <1>1, <1>12, UseStep
<1>13. ASSUME NEW t \in Thread, NEW s \in Store, Commit(t, s) PROVE LocksInv'
  BY <1>1, <1>13, CommitStep
<1>14. ASSUME NEW t \in Thread, Suppress(t) \/ Enable(t) PROVE LocksInv'
  BY <1>1, <1>14, SuppressStep
<1> QED
  BY <1>2, <1>3, <1>4, <1>5, <1>6, <1>7, <1>8, <1>9, <1>10, <1>11, <1>12, <1>13, <1>14 DEF Next, Step

-----------------------------------------------------------------------------
(* The properties that follow from the invariant.                          *)

LEMMA InvUsedUnderLock ==
  ASSUME Calm, LocksInv
  PROVE  UsedUnderLock
<1> SUFFICES ASSUME NEW t \in Thread, NEW s \in Store, Upcoming(t, "use", s)
             PROVE  owner[s] = t
  BY DEF UsedUnderLock
<1>1. PICK D \in Debt, E \in Debt :
        Does(t, <<"use", s>>, D, E) /\ Matches(t, D, DepthOf(t), storeCount)
  BY NextDebt
<1>2. D.locks[s] > 0 \/ Inside(D)
  BY <1>1 DEF Does
<1>3. DepthOf(t)[s] > 0
  <2>1. CASE D.locks[s] > 0
    <3>1. DepthOf(t)[s] = D.locks[s] + Cardinality(Holders(t, Behind(s), storeCount))
      BY <1>1, Stores DEF Matches
    <3>2. D.locks[s] \in Nat /\ Cardinality(Holders(t, Behind(s), storeCount)) \in Nat
      BY DebtParts, Stores, HoldersFinite
    <3> QED
      BY <2>1, <3>1, <3>2
  <2>2. CASE Inside(D)
    BY <1>1, <2>2, InsideOwns
  <2> QED
    BY <1>2, <2>1, <2>2
<1> QED
  BY <1>3, Stores DEF DepthOf

LEMMA Owning ==
  ASSUME LocksInv, NEW t \in Thread, NEW l \in Lock
  PROVE  /\ owner[l] = t <=> DepthOf(t)[l] > 0
         /\ DepthOf(t)[l] \in Nat
<1>1. depth[l] \in Nat /\ (depth[l] = 0 <=> owner[l] = None) /\ t # None
  BY StateTyped
<1> QED
  BY <1>1 DEF DepthOf

(* What a thread owns is complete, and what it counts on is behind what    *)
(* its application has locked.                                             *)
LEMMA InvLocksBalanced ==
  ASSUME LocksInv
  PROVE  LocksBalanced
<1> SUFFICES ASSUME NEW t \in Thread, Ready(t)
             PROVE  {l \in Lock : owner[l] = t} = UNION {Held(c) : c \in {d \in locked : ThreadOf[d] = t}}
  BY DEF LocksBalanced
<1> DEFINE O == {l \in Lock : owner[l] = t}
           L == {d \in locked : ThreadOf[d] = t}
           U == UNION {Held(c) : c \in L}
           D == Kept(t)
           held(l) == Cardinality(Holders(t, l, storeCount))
<1>1. D \in Debt /\ Matches(t, D, DepthOf(t), storeCount)
  BY Between
<1>2. \A l : held(l) \in Nat /\ (held(l) > 0 <=> Holders(t, l, storeCount) # {})
  BY HoldersFinite
<1>3. L \in SUBSET Context /\ L \subseteq Lock
  BY StateTyped, Stores
<1>4. /\ \A l \in Lock : D.locks[l] = IF l \in L THEN 1 ELSE 0
      /\ \A c \in Context : D.takes[c] = IF c \in L THEN 1 ELSE 0
  BY DEF Kept
<1>5. \A l \in Lock : l \in O <=> l \in L \/ Holders(t, Behind(l), storeCount) # {}
  <2> TAKE l \in Lock
  <2>1. DepthOf(t)[l] = D.locks[l] + held(Behind(l))
    BY <1>1 DEF Matches
  <2>2. l \in O <=> DepthOf(t)[l] > 0
    BY Owning
  <2> HIDE DEF O, L, D, held
  <2> QED
    BY <1>2, <1>4, <2>1, <2>2
<1>6. \A c \in Context : ThreadOf[c] = t => (storeCount[c] > 0 <=> c \in L \/ Holders(t, c, storeCount) # {})
  <2> TAKE c \in Context
  <2> HAVE ThreadOf[c] = t
  <2>1. storeCount[c] = D.takes[c] + held(c)
    BY <1>1 DEF Matches
  <2> HIDE DEF L, D, held
  <2> QED
    BY <1>2, <1>4, <2>1
<1>7. /\ \A c \in Context : Behind(c) = c /\ c # Coordinator
      /\ Behind(Coordinator) = Coordinator /\ Coordinator \notin L
      /\ \A s \in Store : Behind(s) = Coordinator /\ s \notin L
  <2>1. Context \cap Store = {} /\ Coordinator \notin Context /\ Coordinator \notin Store
    BY LocksAssumption
  <2> QED
    BY <1>3, <2>1 DEF Behind
<1> HIDE DEF O, L, U, D, held
<1>8. \A c \in O \cap Context : ThreadOf[c] = t /\ storeCount[c] > 0
  <2> TAKE c \in O \cap Context
  <2>1. ThreadOf[c] = t
    BY LocksAssumption DEF O, LocksInv, Owned
  <2> QED
    BY <1>5, <1>6, <1>7, <2>1 DEF O
<1>9. U \subseteq O
  <2>1. O \in SUBSET Lock
    BY DEF O
  <2>2. \A c \in O \cap Context : Parent[c] \in O
    <3> TAKE c \in O \cap Context
    <3>1. c \in Holders(t, Parent[c], storeCount)
      BY <1>8 DEF Holders
    <3>2. Parent[c] \in Lock /\ Behind(Parent[c]) = Parent[c]
      BY <1>7, ParentTyped, Stores
    <3> QED
      BY <1>5, <3>1, <3>2
  <2>3. Coordinator \in O => Store \subseteq O
    BY <1>5, <1>7, Stores
  <2>4. Complete(O)
    BY <2>2, <2>3 DEF Complete
  <2>5. \A c \in L : c \in O /\ Held(c) \subseteq O
    BY <1>3, <1>5, <2>1, <2>4, HeldLeast
  <2> QED
    BY <2>5 DEF U
<1>10. \A l \in U : /\ l \in Context => Parent[l] \in U
                    /\ l = Coordinator => Store \subseteq U
  <2> SUFFICES ASSUME NEW c \in L, NEW l \in Held(c)
               PROVE  /\ l \in Context => Parent[l] \in U
                      /\ l = Coordinator => Store \subseteq U
    BY DEF U
  <2>1. Complete(Held(c))
    BY <1>3, HeldComplete
  <2>2. Held(c) \subseteq U
    BY DEF U
  <2> QED
    BY <2>1, <2>2 DEF Complete
<1>11. \A d \in Context : ThreadOf[d] = t /\ storeCount[d] > 0 => d \in U
  <2> DEFINE S == {d \in Context : ThreadOf[d] = t /\ storeCount[d] > 0 /\ d \notin U}
  <2> SUFFICES ASSUME S # {} PROVE FALSE
    OBVIOUS
  <2>1. PICK d \in S : \A e \in S : Parent[e] # d
    <3>1. S \in SUBSET Context
      OBVIOUS
    <3> HIDE DEF S
    <3> QED
      BY <3>1, Innermost
  <2>2. d \notin L
    <3>1. d \in Held(d)
      BY Stores, HeldComplete
    <3> QED
      BY <3>1 DEF U
  <2>3. PICK e : e \in Holders(t, d, storeCount)
    BY <1>6, <2>1, <2>2
  <2>4. e \in Context /\ Parent[e] = d /\ ThreadOf[e] = t /\ storeCount[e] > 0
    BY <2>3 DEF Holders
  <2>5. e \in U
    BY <2>1, <2>4
  <2> QED
    BY <1>10, <2>4, <2>5
<1>12. ASSUME NEW l \in O PROVE l \in U
  <2>1. CASE l \in Context
    BY <1>8, <1>11, <2>1
  <2>2. CASE l \notin Context
    <3>1. l \in Lock /\ l \in Store \cup {Coordinator}
      BY <2>2 DEF O, Lock
    <3>2. PICK e : e \in Holders(t, Coordinator, storeCount)
      BY <1>5, <1>7, <3>1
    <3>3. e \in U /\ e \in Context /\ Parent[e] = Coordinator
      BY <1>11, <3>2 DEF Holders
    <3> QED
      BY <1>10, <3>1, <3>3
  <2> QED
    BY <2>1, <2>2
<1>13. O = U
  BY <1>9, <1>12
<1> QED
  BY <1>13 DEF O, U, L

LEMMA Largest ==
  ASSUME NEW n \in Nat, NEW W \in SUBSET (1 .. n), W # {}
  PROVE  \E m \in W : \A k \in W : k <= m
<1> DEFINE Above(w) == {k \in W : k > w}
           Aboves == {Above(w) : w \in W}
<1>1. IsFiniteSet(W)
  <2>1. 1 \in Int /\ n \in Int
    OBVIOUS
  <2>2. IsFiniteSet(1 .. n)
    BY <2>1, FS_Interval
  <2> QED
    BY <2>2, FS_Subset
<1>2. IsWellFoundedOn(StrictSubsetOrdering(W), FiniteSubsetsOf(W))
  BY FS_StrictSubsetOrderingWellFounded
<1>3. Aboves \subseteq FiniteSubsetsOf(W) /\ Aboves # {}
  <2>1. \A w \in W : Above(w) \in SUBSET W /\ IsFiniteSet(Above(w))
    BY <1>1, FS_Subset
  <2> QED
    BY <2>1 DEF FiniteSubsetsOf
<1>4. PICK A \in Aboves : \A B \in Aboves : ~ (<<B, A>> \in StrictSubsetOrdering(W))
  <2> HIDE DEF Aboves
  <2> QED
    BY <1>2, <1>3, WFMin
<1>5. PICK m \in W : A = Above(m)
  BY <1>4
<1>6. SUFFICES ASSUME NEW k \in W, k > m PROVE FALSE
  OBVIOUS
<1>7. Above(k) \in Aboves
  OBVIOUS
<1>8. Above(k) \subseteq Above(m) /\ k \in Above(m) /\ k \notin Above(k) /\ Above(m) \subseteq W
  <2>1. \A w \in W : w \in Int
    OBVIOUS
  <2>2. \A w \in W : w > k => w > m
    BY <1>6, <2>1
  <2>3. ~ (k > k)
    BY <2>1
  <2> QED
    BY <1>6, <2>2, <2>3
<1> HIDE DEF Above, Aboves
<1>9. <<Above(k), A>> \in StrictSubsetOrdering(W)
  BY <1>5, <1>8 DEF StrictSubsetOrdering
<1> QED
  BY <1>4, <1>7, <1>9

(* A thread that waits for the coordinator owns no store, one that waits   *)
(* for a store none from there on.                                         *)
LEMMA Waiting ==
  ASSUME LocksInv, NEW t \in Thread, NEW u \in Thread, t # u, NEW l \in Lock,
         Upcoming(t, "acquire", l), owner[l] = u
  PROVE  /\ l = Coordinator \/ l \in Store
         /\ l = Coordinator => \A s \in Store : owner[s] # t
         /\ l \in Store => \A s \in Store : s >= l => owner[s] # t
<1>1. PICK D \in Debt, E \in Debt :
        Does(t, <<"acquire", l>>, D, E) /\ Matches(t, D, DepthOf(t), storeCount)
  BY NextDebt
<1>2. InOrder(D, l) /\ (l \in Context => ThreadOf[l] = t)
  BY <1>1 DEF Does
<1>3. l \notin Context
  <2>1. u # None
    BY LocksAssumption
  <2> QED
    BY <1>2, <2>1 DEF LocksInv, Owned
<1>4. l = Coordinator \/ l \in Store
  BY <1>3 DEF Lock
<1>5. Cardinality(Holders(t, Coordinator, storeCount)) = 0
  <2>1. DepthOf(t)[l] = 0
    BY DEF DepthOf
  <2>2. Behind(l) = Coordinator
    BY <1>4 DEF Behind
  <2>3. DepthOf(t)[l] = D.locks[l] + Cardinality(Holders(t, Coordinator, storeCount))
    BY <1>1, <2>2 DEF Matches
  <2>4. D.locks[l] \in Nat /\ Cardinality(Holders(t, Coordinator, storeCount)) \in Nat
    BY DebtParts, HoldersFinite
  <2> QED
    BY <2>1, <2>3, <2>4
<1>6. ASSUME NEW s \in Store, l = Coordinator \/ (l \in Store /\ s >= l) PROVE owner[s] # t
  <2>1. D.locks[s] = 0
    <3>1. l \in Store => l <= s
      BY <1>6, LocksAssumption DEF Store
    <3> QED
      BY <1>2, <1>6, <3>1 DEF InOrder
  <2>2. s \in Lock /\ Behind(s) = Coordinator
    BY Stores DEF Behind
  <2>3. DepthOf(t)[s] = 0
    BY <1>1, <1>5, <2>1, <2>2 DEF Matches
  <2> QED
    BY <2>2, <2>3, Owning
<1> QED
  BY <1>4, <1>6

(* Of the stores that threads wait for, the owner of the last one waits    *)
(* for a later one.                                                        *)
LEMMA InvNoDeadlock ==
  ASSUME LocksInv
  PROVE  NoDeadlock
<1> SUFFICES ASSUME NEW T \in SUBSET Thread, T # {}, \A t \in T : \E u \in T : WaitsFor(t, u)
             PROVE  FALSE
  BY DEF NoDeadlock
<1> DEFINE For(t, u, l) == Upcoming(t, "acquire", l) /\ owner[l] = u /\ t # u
           W == {s \in Store : \E t \in T, u \in T : For(t, u, s)}
<1>1. \A t \in T : \E u \in T, l \in Lock : For(t, u, l)
  BY DEF WaitsFor
<1>2. ASSUME NEW t \in T, NEW u \in T, NEW l \in Lock, For(t, u, l)
      PROVE  \E v \in T, s \in Store : For(u, v, s) \/ s = l
  <2>1. l = Coordinator \/ l \in Store
    BY <1>2, Waiting
  <2>2. CASE l = Coordinator
    <3>1. PICK v \in T, k \in Lock : For(u, v, k)
      BY <1>1
    <3>2. k # Coordinator
      BY <1>2, <2>2, <3>1
    <3>3. k \in Store
      BY <3>1, <3>2, Waiting
    <3> QED
      BY <3>1, <3>3
  <2> QED
    BY <2>1, <2>2
<1>3. W # {} /\ W \in SUBSET (1 .. NumStores)
  <2>1. PICK t \in T, u \in T, l \in Lock : For(t, u, l)
    BY <1>1
  <2>2. PICK v \in T, s \in Store : For(u, v, s) \/ s = l
    BY <1>2, <2>1
  <2> QED
    BY <2>1, <2>2 DEF Store
<1>4. PICK m \in W : \A k \in W : k <= m
  <2> HIDE DEF W
  <2> QED
    BY <1>3, Largest, LocksAssumption
<1>5. PICK t \in T, u \in T : For(t, u, m)
  BY <1>4
<1>6. PICK v \in T, l \in Lock : For(u, v, l)
  BY <1>1
<1>7. m \in Store /\ owner[m] = u
  BY <1>4, <1>5
<1>8. /\ l = Coordinator \/ l \in Store
      /\ l = Coordinator => \A s \in Store : owner[s] # u
      /\ l \in Store => \A s \in Store : s >= l => owner[s] # u
  BY <1>6, Waiting
<1>9. l \in Store /\ ~ (m >= l)
  BY <1>7, <1>8
<1>10. l <= m
  BY <1>4, <1>6, <1>9
<1> QED
  BY <1>7, <1>9, <1>10, LocksAssumption DEF Store

-----------------------------------------------------------------------------
(* The theorems.                                                           *)

(* The inductive invariant: as long as nothing goes wrong on the way,      *)
(* every lock of the coordinator, its stores and the contexts is what the  *)
(* operations under way and the applications owe.                          *)
THEOREM LocksCorrect == ASSUME Calm PROVE Spec => []LocksInv
<1>1. Init => LocksInv
  BY LocksInit
<1>2. LocksInv /\ [Next]_vars => LocksInv'
  BY LocksStep
<1> QED
  BY <1>1, <1>2, PTL DEF Spec

(* _assertLock: no message reaches a database context that the sender has  *)
(* not locked, neither directly nor through the coordinator or a parent    *)
(* context.                                                                *)
THEOREM StoresUsedUnderLock == ASSUME Calm PROVE Spec => []UsedUnderLock
<1>1. LocksInv => UsedUnderLock
  BY InvUsedUnderLock
<1> QED
  BY <1>1, LocksCorrect, PTL

(* No set of threads waits for each other's locks, since the coordinator   *)
(* is locked before its stores, the stores in their order, and a save,     *)
(* which does not lock the coordinator, has released all stores when it    *)
(* locks one of them again.                                                *)
THEOREM DeadlockFree == ASSUME Calm PROVE Spec => []NoDeadlock
<1>1. LocksInv => NoDeadlock
  BY InvNoDeadlock
<1> QED
  BY <1>1, LocksCorrect, PTL

(* lockObjectStore and unlockObjectStore are balanced on every path: a     *)
(* thread between its operations has exactly the locks of the contexts     *)
(* that its application has locked, and those that come with them.         *)
THEOREM Balanced == ASSUME Calm PROVE Spec => []LocksBalanced
<1>1. LocksInv => LocksBalanced
  BY InvLocksBalanced
<1> QED
  BY <1>1, LocksCorrect, PTL

(* An application that locks its context while it changes objects has the  *)
(* coordinator's lock, so no other thread suppresses the notification of   *)
(* observers meanwhile and no change is lost.                              *)
THEOREM ChangesNoticed == ASSUME Calm PROVE Spec => []LockedChangesNoticed
<1>1. LocksInv => LockedChangesNoticed
  BY DEF LocksInv
<1> QED
  BY <1>1, LocksCorrect, PTL
=============================================================================
