------------------------------ MODULE OsProofs ------------------------------
(***************************************************************************)
(* Proofs about the services of proj/os.  Part 1: EvTimer, for every pool, *)
(* every set of static timers and clients, all periods, tick rates and     *)
(* bounds.  Part 2: EvMem, for every set of buffer groups and queues.      *)
(* Both read linked lists with recursive functions; what these compute is  *)
(* found first, by induction on a set of naturals.                         *)
(***************************************************************************)
EXTENDS EvTimer, EvMem, WellFoundedInduction, FiniteSetTheorems, TLAPS

---------------------------------------------------------------------------
(* Induction on a set of naturals *)

\* The least element of a set of naturals.
LEMMA LeastExists ==
  ASSUME NEW S, S \subseteq Nat, S # {}
  PROVE  \E x \in S : \A y \in S : x <= y
<1>1. IsWellFoundedOn(OpToRel(<, Nat), Nat)
  BY NatLessThanWellFounded
<1>2. PICK x \in S : \A y \in S : ~(<<y, x>> \in OpToRel(<, Nat))
  BY <1>1, WFMin
<1>3. \A y \in S : ~(y < x)
  BY <1>2 DEF OpToRel
<1>4. QED
  BY <1>3

\* A set of naturals with 0 and with the successor of each element is Nat.
LEMMA SetInduction ==
  ASSUME NEW P, 0 \in P, \A n \in Nat : n \in P => n + 1 \in P
  PROVE  \A n \in Nat : n \in P
<1> DEFINE Bad == Nat \ P
<1>1. SUFFICES ASSUME Bad # {} PROVE FALSE
  OBVIOUS
<1>2. PICK m \in Bad : \A y \in Bad : m <= y
  <2> Bad \subseteq Nat
    OBVIOUS
  <2> HIDE DEF Bad
  <2> QED BY <1>1, LeastExists
<1>3. m \in Nat /\ m # 0 /\ m - 1 \in Nat /\ m - 1 \notin Bad
  BY <1>2
<1>4. m - 1 \in P
  BY <1>3
<1>5. (m - 1) + 1 \in P
  BY <1>3, <1>4
<1>6. (m - 1) + 1 = m
  BY <1>3
<1> QED BY <1>2, <1>5, <1>6

---------------------------------------------------------------------------
(*                     PART 1: EvTimer, the software timers                *)
---------------------------------------------------------------------------
(* What Walk computes: the least set of timers that holds h and is closed   *)
(* under next.  All that is used of it below is this characterisation.      *)

Ptr == Timers \cup {Nil}
Nexts == [Timers -> Ptr]

\* One more step along the pointers from the timers of r.
Grow(nx, r) == r \cup ({nx[t] : t \in r} \ {Nil})

\* The equation of the recursive function inside Walk.
WalkRec(h, nx, N, f) ==
  [n \in 0 .. N |-> IF n = 0 THEN {h} \ {Nil} ELSE Grow(nx, f[n - 1])]

Closed(h, nx, S) ==
  /\ S \subseteq Timers /\ (h = Nil \/ h \in S)
  /\ \A x \in S : nx[x] = Nil \/ nx[x] \in S

\* The recursion has a solution: one for N is extended by one step.
LEMMA WalkRecExists ==
  ASSUME NEW h, NEW nx
  PROVE  \A N \in Nat : \E f : f = WalkRec(h, nx, N, f)
<1> DEFINE P == {N \in Nat : \E f : f = WalkRec(h, nx, N, f)}
<1>1. 0 \in P
  <2> DEFINE g == [n \in 0 .. 0 |-> {h} \ {Nil}]
  <2>1. g = WalkRec(h, nx, 0, g)
    <3> \A i \in 0 .. 0 : i = 0
      OBVIOUS
    <3> QED BY DEF WalkRec
  <2> QED BY <2>1
<1>2. ASSUME NEW N \in Nat, N \in P PROVE N + 1 \in P
  <2>1. PICK f : f = WalkRec(h, nx, N, f)
    BY <1>2
  <2> DEFINE g == [n \in 0 .. N + 1 |-> IF n = N + 1 THEN Grow(nx, f[N]) ELSE f[n]]
  <2>2. ASSUME NEW n \in 0 .. N + 1
        PROVE  g[n] = IF n = 0 THEN {h} \ {Nil} ELSE Grow(nx, g[n - 1])
    <3>1. CASE n = N + 1
      <4>1. n # 0 /\ n - 1 = N /\ N \in 0 .. N + 1 /\ N # N + 1
        BY <3>1
      <4>2. g[n] = Grow(nx, f[N]) /\ g[N] = f[N]
        BY <3>1, <4>1
      <4> HIDE DEF g
      <4> QED BY <4>1, <4>2
    <3>2. CASE n # N + 1
      <4>1. n \in 0 .. N /\ g[n] = f[n]
        BY <3>2
      <4>2. f[n] = IF n = 0 THEN {h} \ {Nil} ELSE Grow(nx, f[n - 1])
        <5> HIDE DEF g
        <5> QED BY <2>1, <4>1 DEF WalkRec
      <4>3. n # 0 => n - 1 \in 0 .. N + 1 /\ n - 1 # N + 1
        BY <4>1
      <4>4. n # 0 => g[n - 1] = f[n - 1]
        BY <4>3
      <4> HIDE DEF g
      <4> QED BY <4>1, <4>2, <4>4
    <3> QED BY <3>1, <3>2
  <2>3. g = [n \in 0 .. N + 1 |-> g[n]]
    OBVIOUS
  <2>4. g = WalkRec(h, nx, N + 1, g)
    <3> HIDE DEF g
    <3> QED BY <2>2, <2>3 DEF WalkRec
  <2> HIDE DEF g
  <2> QED BY <2>4
<1>3. \A n \in Nat : n \in P
  <2> HIDE DEF P
  <2> QED BY <1>1, <1>2, SetInduction
<1> QED BY <1>3

LEMMA WalkIs ==
  ASSUME NEW h, NEW nx
  PROVE  \E f : /\ f = WalkRec(h, nx, Cardinality(Timers), f)
                /\ Walk(h, nx) = f[Cardinality(Timers) - 1]
<1> DEFINE N == Cardinality(Timers)
           f == CHOOSE g : g = WalkRec(h, nx, N, g)
<1>1. N \in Nat
  BY TimerAssumption, FS_CardinalityType
<1>2. \E g : g = WalkRec(h, nx, N, g)
  BY <1>1, WalkRecExists
<1>3. f = WalkRec(h, nx, N, f)
  BY <1>2
<1>4. Walk(h, nx) = f[N - 1]
  BY DEF Walk, WalkRec, Grow
<1> QED BY <1>3, <1>4

\* A set that cannot grow is closed; one that is closed does not grow.
LEMMA GrowClosed ==
  ASSUME NEW h, NEW nx \in Nexts, NEW S, Closed(h, nx, S)
  PROVE  /\ Grow(nx, S) = S
         /\ \A r \in SUBSET S : Grow(nx, r) \subseteq S
<1>1. \A x \in S : x \in Timers /\ (nx[x] = Nil \/ nx[x] \in S)
  BY DEF Closed
<1> QED BY <1>1, Zenon DEF Grow

LEMMA WalkLeast ==
  ASSUME NEW h \in Ptr, NEW nx \in Nexts
  PROVE  /\ Closed(h, nx, Walk(h, nx))
         /\ \A S : Closed(h, nx, S) => Walk(h, nx) \subseteq S
<1> DEFINE C == Cardinality(Timers)
<1>1. IsFiniteSet(Timers) /\ Timers # {} /\ Nil \notin Timers
  BY TimerAssumption DEF Timers
<1>2. C \in Nat /\ C # 0
  BY <1>1, FS_CardinalityType, FS_EmptySet
<1>3. PICK f : f = WalkRec(h, nx, C, f) /\ Walk(h, nx) = f[C - 1]
  BY WalkIs
<1> HIDE DEF C
<1>4. f[0] = {h} \ {Nil} /\ \A n \in Nat : n + 1 <= C => f[n + 1] = Grow(nx, f[n])
  <2>1. f[0] = {h} \ {Nil}
    <3> 0 \in 0 .. C
      BY <1>2
    <3> QED BY <1>3 DEF WalkRec
  <2>2. ASSUME NEW n \in Nat, n + 1 <= C PROVE f[n + 1] = Grow(nx, f[n])
    <3>1. n + 1 \in 0 .. C /\ n + 1 # 0 /\ (n + 1) - 1 = n
      BY <1>2, <2>2
    <3> QED BY <3>1, <1>3 DEF WalkRec
  <2> QED BY <2>1, <2>2
<1>5. ASSUME NEW S, Closed(h, nx, S) PROVE f[C - 1] \subseteq S
  <2> DEFINE P == {n \in Nat : n <= C => f[n] \subseteq S}
  <2>1. 0 \in P
    BY <1>4, <1>5 DEF Closed
  <2>2. ASSUME NEW n \in Nat, n \in P PROVE n + 1 \in P
    <3>1. SUFFICES ASSUME n + 1 <= C PROVE f[n + 1] \subseteq S
      OBVIOUS
    <3>2. n <= C
      BY <3>1, <1>2
    <3>3. f[n] \in SUBSET S
      BY <3>2, <2>2
    <3> QED BY <3>1, <3>3, <1>4, <1>5, GrowClosed
  <2>3. \A n \in Nat : n \in P
    <3> HIDE DEF P
    <3> QED BY <2>1, <2>2, SetInduction
  <2>4. C - 1 \in Nat /\ C - 1 <= C
    BY <1>2
  <2> QED BY <2>3, <2>4
<1>6. \A n \in Nat : n <= C => f[n] \subseteq Timers /\ (h = Nil \/ h \in f[n])
  <2> DEFINE P == {n \in Nat : n <= C => f[n] \subseteq Timers /\ (h = Nil \/ h \in f[n])}
  <2>1. 0 \in P
    BY <1>4 DEF Ptr
  <2>2. ASSUME NEW n \in Nat, n \in P PROVE n + 1 \in P
    <3>1. SUFFICES ASSUME n + 1 <= C
                   PROVE  f[n + 1] \subseteq Timers /\ (h = Nil \/ h \in f[n + 1])
      OBVIOUS
    <3>2. n <= C
      BY <3>1, <1>2
    <3>3. f[n] \subseteq Timers /\ (h = Nil \/ h \in f[n])
      BY <3>2, <2>2
    <3>4. \A x \in f[n] : nx[x] \in Timers \cup {Nil}
      BY <3>3 DEF Nexts, Ptr
    <3>5. f[n + 1] = f[n] \cup ({nx[t] : t \in f[n]} \ {Nil})
      BY <3>1, <1>4 DEF Grow
    <3> QED BY <3>3, <3>4, <3>5, Zenon
  <2>3. \A n \in Nat : n \in P
    <3> HIDE DEF P
    <3> QED BY <2>1, <2>2, SetInduction
  <2> QED BY <2>3
<1>7. Closed(h, nx, f[C - 1])
  <2> DEFINE P == {n \in Nat : n <= C - 1 =>
                     Closed(h, nx, f[n]) \/ Cardinality(f[n]) >= n + 1}
  <2>1. 0 \in P
    <3>1. CASE h = Nil
      BY <3>1, <1>4 DEF Closed
    <3>2. CASE h # Nil
      <4>1. f[0] = {h}
        BY <3>2, <1>4
      <4>2. Cardinality(f[0]) = 1
        BY <4>1, FS_Singleton
      <4> QED BY <4>2
    <3> QED BY <3>1, <3>2
  <2>2. ASSUME NEW n \in Nat, n \in P PROVE n + 1 \in P
    <3>1. SUFFICES ASSUME n + 1 <= C - 1
                   PROVE  Closed(h, nx, f[n + 1]) \/ Cardinality(f[n + 1]) >= (n + 1) + 1
      OBVIOUS
    <3>2. n <= C - 1 /\ n <= C /\ n + 1 <= C
      BY <3>1, <1>2
    <3>3. f[n + 1] = Grow(nx, f[n])
      BY <3>2, <1>4
    <3>4. CASE Closed(h, nx, f[n])
      <4>1. f[n + 1] = f[n]
        BY <3>3, <3>4, GrowClosed
      <4> QED BY <4>1, <3>4
    <3>5. CASE ~Closed(h, nx, f[n])
      <4>1. f[n] \subseteq Timers /\ (h = Nil \/ h \in f[n])
        BY <3>2, <1>6
      <4>2. PICK x \in f[n] : nx[x] # Nil /\ nx[x] \notin f[n]
        BY <3>5, <4>1 DEF Closed
      <4>3. f[n] \cup {nx[x]} \in SUBSET f[n + 1]
        BY <3>3, <4>2 DEF Grow
      <4>4. IsFiniteSet(f[n])
        BY <4>1, <1>1, FS_Subset
      <4>5. Cardinality(f[n]) \in Nat /\ Cardinality(f[n]) >= n + 1
        BY <4>4, FS_CardinalityType, <2>2, <3>2, <3>5
      <4>6. Cardinality(f[n] \cup {nx[x]}) = Cardinality(f[n]) + 1
        BY <4>2, <4>4, FS_AddElement
      <4>7. f[n + 1] \in SUBSET Timers
        BY <3>2, <1>6
      <4>8. IsFiniteSet(f[n + 1])
        BY <4>7, <1>1, FS_Subset
      <4>9. Cardinality(f[n] \cup {nx[x]}) <= Cardinality(f[n + 1])
        BY <4>3, <4>8, FS_Subset
      <4>10. Cardinality(f[n + 1]) \in Nat
        BY <4>8, FS_CardinalityType
      <4> QED BY <4>5, <4>6, <4>9, <4>10
    <3> QED BY <3>4, <3>5
  <2>3. \A n \in Nat : n \in P
    <3> HIDE DEF P
    <3> QED BY <2>1, <2>2, SetInduction
  <2>4. C - 1 \in Nat /\ C - 1 <= C - 1 /\ (C - 1) + 1 = C /\ C - 1 <= C
    BY <1>2
  <2>5. Closed(h, nx, f[C - 1]) \/ Cardinality(f[C - 1]) >= C
    <3>1. Closed(h, nx, f[C - 1]) \/ Cardinality(f[C - 1]) >= (C - 1) + 1
      BY <2>3, <2>4
    <3> QED BY <3>1, <2>4
  <2>6. CASE Cardinality(f[C - 1]) >= C
    <3>1. f[C - 1] \in SUBSET Timers
      BY <2>4, <1>6
    <3>2. Cardinality(f[C - 1]) <= C /\ IsFiniteSet(f[C - 1])
          /\ (C = Cardinality(f[C - 1]) => Timers = f[C - 1])
      BY <3>1, <1>1, FS_Subset DEF C
    <3>3. Cardinality(f[C - 1]) \in Nat
      BY <3>2, FS_CardinalityType
    <3>4. f[C - 1] = Timers
      BY <3>2, <3>3, <2>6, <1>2
    <3> QED BY <3>4 DEF Closed, Nexts, Ptr
  <2> QED BY <2>5, <2>6
<1> QED BY <1>3, <1>5, <1>7

---------------------------------------------------------------------------
(* The list macros *)

\* No timer of the list is reached again after it.
Acyclic(h, nx) == \A t \in Walk(h, nx) : t \notin Walk(nx[t], nx)

LEMMA NilFact == Nil \notin Timers
  BY TimerAssumption

LEMMA WalkTimers ==
  ASSUME NEW h \in Ptr, NEW nx \in Nexts
  PROVE  /\ Walk(h, nx) \in SUBSET Timers
         /\ h # Nil => h \in Walk(h, nx)
         /\ \A x \in Walk(h, nx) : nx[x] = Nil \/ nx[x] \in Walk(h, nx)
         /\ \A x \in Walk(h, nx) : x \in Timers /\ nx[x] \in Ptr
<1>1. Closed(h, nx, Walk(h, nx))
  BY WalkLeast
<1> QED BY <1>1 DEF Closed, Nexts

LEMMA WalkNil ==
  ASSUME NEW nx \in Nexts
  PROVE  Walk(Nil, nx) = {}
<1>1. Closed(Nil, nx, {})
  BY DEF Closed
<1>2. Nil \in Ptr
  BY DEF Ptr
<1> QED BY <1>1, <1>2, WalkLeast

\* From a timer of the list one reaches only timers of the list.
LEMMA WalkSub ==
  ASSUME NEW h \in Ptr, NEW nx \in Nexts, NEW x \in Ptr, x = Nil \/ x \in Walk(h, nx)
  PROVE  Walk(x, nx) \subseteq Walk(h, nx)
<1>1. Closed(h, nx, Walk(h, nx))
  BY WalkLeast
<1>2. Closed(x, nx, Walk(h, nx))
  BY <1>1 DEF Closed
<1> QED BY <1>2, WalkLeast

LEMMA WalkUnfold ==
  ASSUME NEW h \in Timers, NEW nx \in Nexts
  PROVE  /\ nx[h] \in Ptr /\ Walk(h, nx) = {h} \cup Walk(nx[h], nx)
<1>1. h \in Ptr /\ nx[h] \in Ptr /\ h # Nil
  BY NilFact DEF Nexts, Ptr
<1>2. h \in Walk(h, nx) /\ (nx[h] = Nil \/ nx[h] \in Walk(h, nx))
  BY <1>1, WalkTimers
<1>3. Walk(nx[h], nx) \subseteq Walk(h, nx)
  BY <1>1, <1>2, WalkSub
<1>4. Closed(nx[h], nx, Walk(nx[h], nx))
  BY <1>1, WalkLeast
<1>5. Closed(h, nx, {h} \cup Walk(nx[h], nx))
  BY <1>4 DEF Closed
<1>6. Walk(h, nx) \subseteq {h} \cup Walk(nx[h], nx)
  BY <1>1, <1>5, WalkLeast
<1> QED BY <1>1, <1>2, <1>3, <1>6

\* Pointers outside a walk do not matter to it.
LEMMA WalkAgree ==
  ASSUME NEW h \in Ptr, NEW nx \in Nexts, NEW ny \in Nexts,
         \A x \in Walk(h, nx) : ny[x] = nx[x]
  PROVE  Walk(h, ny) = Walk(h, nx)
<1> DEFINE W == Walk(h, nx)
           V == Walk(h, ny)
<1>1. Closed(h, nx, W) /\ Closed(h, ny, V)
  BY WalkLeast
<1>2. Closed(h, ny, W)
  BY <1>1 DEF Closed
<1>3. V \subseteq W
  BY <1>2, WalkLeast
<1>4. Closed(h, nx, V)
  BY <1>1, <1>3 DEF Closed
<1>5. W \subseteq V
  BY <1>4, WalkLeast
<1> QED BY <1>3, <1>5

\* t was put in front of the list.
Inserted(h, nx, t, ny) ==
  /\ ny \in Nexts
  /\ Walk(t, ny) = {t} \cup Walk(h, nx)
  /\ \A x \in Walk(h, nx) : /\ Walk(x, ny) = Walk(x, nx)
                            /\ ny[x] = nx[x]
                            /\ Walk(ny[x], ny) = Walk(nx[x], nx)
  /\ Acyclic(t, ny)

\* LIST_ADD at the head.
LEMMA InsertWalk ==
  ASSUME NEW h \in Ptr, NEW nx \in Nexts, NEW t \in Timers, t \notin Walk(h, nx),
         Acyclic(h, nx)
  PROVE  Inserted(h, nx, t, [nx EXCEPT ![t] = h])
<1> DEFINE ny == [nx EXCEPT ![t] = h]
<1>1. ny \in Nexts /\ ny[t] = h /\ \A x \in Timers : x # t => ny[x] = nx[x]
  BY DEF Nexts
<1> HIDE DEF ny
<1>2. \A x \in Walk(h, nx) : ny[x] = nx[x] /\ x \in Timers /\ x # t
  BY <1>1, WalkTimers
<1>3. Walk(h, ny) = Walk(h, nx)
  BY <1>1, <1>2, WalkAgree
<1>4. Walk(t, ny) = {t} \cup Walk(h, nx)
  <2>1. ny \in Nexts /\ ny[t] = h
    BY <1>1
  <2>2. Walk(t, ny) = {t} \cup Walk(ny[t], ny)
    BY <2>1, WalkUnfold
  <2> QED BY <2>1, <2>2, <1>3
<1>5. ASSUME NEW x \in Ptr, x = Nil \/ x \in Walk(h, nx)
      PROVE  Walk(x, ny) = Walk(x, nx)
  <2>1. Walk(x, nx) \subseteq Walk(h, nx)
    BY <1>5, WalkSub
  <2> QED BY <1>1, <1>2, <2>1, WalkAgree
<1>6. ASSUME NEW x \in Walk(h, nx)
      PROVE  /\ Walk(x, ny) = Walk(x, nx)
             /\ ny[x] = nx[x]
             /\ Walk(ny[x], ny) = Walk(nx[x], nx)
  <2>1. x \in Ptr /\ nx[x] \in Ptr /\ (nx[x] = Nil \/ nx[x] \in Walk(h, nx))
    BY WalkTimers DEF Ptr
  <2> QED BY <2>1, <1>2, <1>5
<1>7. Acyclic(t, ny)
  <2> SUFFICES ASSUME NEW x \in Walk(t, ny) PROVE x \notin Walk(ny[x], ny)
    BY DEF Acyclic
  <2>1. CASE x = t
    BY <2>1, <1>1, <1>3
  <2>2. CASE x # t
    <3>1. x \in Walk(h, nx)
      BY <2>2, <1>4
    <3>2. x \notin Walk(nx[x], nx)
      BY <3>1 DEF Acyclic
    <3> QED BY <3>1, <3>2, <1>6
  <2> QED BY <2>1, <2>2
<1>8. Inserted(h, nx, t, ny)
  BY <1>1, <1>4, <1>6, <1>7 DEF Inserted
<1> QED BY <1>8 DEF ny

LEMMA NoSelfNext ==
  ASSUME NEW h \in Ptr, NEW nx \in Nexts, Acyclic(h, nx), NEW t \in Walk(h, nx)
  PROVE  nx[t] # t
<1>1. t \in Timers /\ nx[t] \in Ptr
  BY WalkTimers
<1>2. t \notin Walk(nx[t], nx)
  BY DEF Acyclic
<1>3. t \in Walk(t, nx)
  BY <1>1, WalkUnfold
<1> QED BY <1>2, <1>3

\* Taking t out from between its neighbours takes it out of every walk.
LEMMA CutWalk ==
  ASSUME NEW h \in Ptr, NEW nx \in Nexts, NEW ny \in Nexts, NEW t \in Walk(h, nx),
         Acyclic(h, nx),
         \A x \in Walk(h, nx) : ny[x] = IF nx[x] = t THEN nx[t] ELSE nx[x],
         NEW k \in Ptr, k # t, k = Nil \/ k \in Walk(h, nx)
  PROVE  Walk(k, ny) = Walk(k, nx) \ {t}
<1> DEFINE W == Walk(k, nx)
           V == Walk(k, ny)
<1>1. W \subseteq Walk(h, nx)
  BY WalkSub
<1>2. Closed(k, nx, W) /\ Closed(k, ny, V)
  BY WalkLeast
<1>3. nx[t] # t /\ t \in Timers
  BY NoSelfNext, WalkTimers
<1>4. \A x \in W : ny[x] = IF nx[x] = t THEN nx[t] ELSE nx[x]
  BY <1>1
<1> HIDE DEF W, V
<1>5. Closed(k, ny, W \ {t})
  <2>1. W \ {t} \subseteq Timers /\ (k = Nil \/ k \in W \ {t})
    BY <1>2 DEF Closed
  <2>2. ASSUME NEW x \in W \ {t} PROVE ny[x] = Nil \/ ny[x] \in W \ {t}
    <3>1. CASE nx[x] = t
      <4>1. t \in W \/ t = Nil
        BY <3>1, <1>2 DEF Closed
      <4>2. t \in W
        BY <4>1, <1>3, NilFact
      <4>3. nx[t] = Nil \/ nx[t] \in W
        BY <4>2, <1>2 DEF Closed
      <4> QED BY <4>3, <3>1, <1>3, <1>4
    <3>2. CASE nx[x] # t
      <4>1. nx[x] = Nil \/ nx[x] \in W
        BY <1>2 DEF Closed
      <4> QED BY <4>1, <3>2, <1>4
    <3> QED BY <3>1, <3>2
  <2> QED BY <2>1, <2>2 DEF Closed
<1>6. V \subseteq W \ {t}
  BY <1>5, WalkLeast DEF V
<1>7. W \subseteq V \cup {t}
  <2>1. CASE \E x \in V : nx[x] = t
    <3>1. PICK x \in V : nx[x] = t
      BY <2>1
    <3>2. nx[t] = Nil \/ nx[t] \in V
      <4>1. ny[x] = nx[t]
        BY <3>1, <1>4, <1>6
      <4>2. ny[x] = Nil \/ ny[x] \in V
        BY <1>2 DEF Closed
      <4> QED BY <4>1, <4>2
    <3>3. \A y \in V : nx[y] = Nil \/ nx[y] \in V \cup {t}
      <4> SUFFICES ASSUME NEW y \in V, nx[y] # t PROVE nx[y] = Nil \/ nx[y] \in V
        OBVIOUS
      <4>1. ny[y] = nx[y]
        BY <1>4, <1>6
      <4>2. ny[y] = Nil \/ ny[y] \in V
        BY <1>2 DEF Closed
      <4> QED BY <4>1, <4>2
    <3>4. V \subseteq Timers /\ (k = Nil \/ k \in V)
      BY <1>2 DEF Closed
    <3>5. Closed(k, nx, V \cup {t})
      BY <3>2, <3>3, <3>4, <1>3 DEF Closed
    <3> QED BY <3>5, WalkLeast DEF W
  <2>2. CASE ~ \E x \in V : nx[x] = t
    <3>1. \A y \in V : ny[y] = nx[y]
      BY <2>2, <1>4, <1>6
    <3>2. Closed(k, nx, V)
      BY <3>1, <1>2 DEF Closed
    <3> QED BY <3>2, WalkLeast DEF W
  <2> QED BY <2>1, <2>2
<1>8. V = W \ {t}
  BY <1>6, <1>7
<1> QED BY <1>8 DEF V, W

\* t was taken out of the list: the others stay, in their order.
Deleted(h, nx, t, hy, ny) ==
  /\ hy \in Ptr /\ ny \in Nexts
  /\ Walk(hy, ny) = Walk(h, nx) \ {t}
  /\ \A x \in Walk(h, nx) : Walk(ny[x], ny) = Walk(nx[x], nx) \ {t}
  /\ ny[t] = nx[t]
  /\ Acyclic(hy, ny)

\* LIST_DELETE of a timer of the list.
LEMMA DeleteWalk ==
  ASSUME NEW h \in Ptr, NEW nx \in Nexts, NEW t \in Walk(h, nx), Acyclic(h, nx)
  PROVE  Deleted(h, nx, t, DeleteHead(h, nx, t), DeleteNext(h, nx, t))
<1> DEFINE hy == DeleteHead(h, nx, t)
           ny == DeleteNext(h, nx, t)
<1>1. t \in Timers /\ nx[t] \in Ptr /\ (nx[t] = Nil \/ nx[t] \in Walk(h, nx))
  BY WalkTimers
<1>2. nx[t] # t
  BY NoSelfNext
<1>3. ny \in Nexts /\ hy \in Ptr
  BY <1>1 DEF DeleteNext, DeleteHead, Nexts
<1>4. h # Nil /\ h \in Walk(h, nx)
  BY WalkNil, WalkTimers
<1>5. ASSUME NEW x \in Walk(h, nx), nx[x] = t PROVE h # t
  <2>1. x \notin Walk(nx[x], nx)
    BY DEF Acyclic
  <2> QED BY <2>1, <1>5
<1>6. \A x \in Walk(h, nx) : ny[x] = IF nx[x] = t THEN nx[t] ELSE nx[x]
  <2>1. \A x \in Walk(h, nx) : x \in Timers
    BY WalkTimers
  <2>2. \A x \in Timers : ny[x] = IF h # t /\ x \in Walk(h, nx) /\ nx[x] = t
                                  THEN nx[t] ELSE nx[x]
    BY DEF DeleteNext
  <2> QED BY <2>1, <2>2, <1>5
<1>7. \A k \in Ptr : k # t /\ (k = Nil \/ k \in Walk(h, nx))
                       => Walk(k, ny) = Walk(k, nx) \ {t}
  BY <1>3, <1>6, CutWalk
<1>8. Walk(hy, ny) = Walk(h, nx) \ {t}
  <2>1. CASE h = t
    <3>1. hy = nx[t]
      BY <2>1 DEF DeleteHead
    <3>2. Walk(hy, ny) = Walk(nx[t], nx) \ {t}
      BY <3>1, <1>1, <1>2, <1>7
    <3>3. Walk(h, nx) = {h} \cup Walk(nx[h], nx)
      BY <2>1, <1>1, WalkUnfold
    <3> QED BY <3>2, <3>3, <2>1
  <2>2. CASE h # t
    <3>1. hy = h
      BY <2>2 DEF DeleteHead
    <3> QED BY <3>1, <2>2, <1>4, <1>7
  <2> QED BY <2>1, <2>2
<1>9. ASSUME NEW x \in Walk(h, nx) PROVE Walk(ny[x], ny) = Walk(nx[x], nx) \ {t}
  <2>1. x \in Timers /\ nx[x] \in Ptr /\ (nx[x] = Nil \/ nx[x] \in Walk(h, nx))
    BY WalkTimers
  <2>2. CASE nx[x] = t
    <3>1. ny[x] = nx[t]
      BY <2>2, <1>6
    <3>2. Walk(ny[x], ny) = Walk(nx[t], nx) \ {t}
      BY <3>1, <1>1, <1>2, <1>7
    <3>3. Walk(t, nx) = {t} \cup Walk(nx[t], nx)
      BY <1>1, WalkUnfold
    <3> QED BY <3>2, <3>3, <2>2
  <2>3. CASE nx[x] # t
    <3>1. ny[x] = nx[x]
      BY <2>3, <1>6
    <3> QED BY <3>1, <2>1, <2>3, <1>7
  <2> QED BY <2>2, <2>3
<1>10. Acyclic(hy, ny)
  <2> SUFFICES ASSUME NEW x \in Walk(hy, ny) PROVE x \notin Walk(ny[x], ny)
    BY DEF Acyclic
  <2>1. x \in Walk(h, nx)
    BY <1>8
  <2>2. x \notin Walk(nx[x], nx)
    BY <2>1 DEF Acyclic
  <2> QED BY <2>1, <2>2, <1>9
<1>11. ny[t] = nx[t]
  BY <1>2, <1>6
<1> QED BY <1>3, <1>8, <1>9, <1>10, <1>11 DEF Deleted

---------------------------------------------------------------------------
(* ev_timer_nearestUpdate *)

\* Of any two timers of the list one comes before the other, and the first of a
\* nonempty set of them comes before all others.
LEMMA FirstOf ==
  ASSUME NEW h \in Ptr, NEW nx \in Nexts, Acyclic(h, nx),
         NEW T \in SUBSET Walk(h, nx), T # {}
  PROVE  \E x \in T : \A y \in T \ {x} : Before(nx, x, y)
<1> DEFINE S == {x \in Walk(h, nx) : T \subseteq Walk(x, nx)}
<1>1. PICK x \in T : x \in S
  <2>1. SUFFICES ASSUME S \cap T = {} PROVE FALSE
    OBVIOUS
  <2>2. h \in Walk(h, nx)
    BY WalkNil, WalkTimers
  <2>3. h \in S
    BY <2>2
  <2>4. ASSUME NEW x \in S PROVE nx[x] \in S
    <3>1. x \in Walk(h, nx) /\ T \subseteq Walk(x, nx) /\ x \notin T
      BY <2>1
    <3>2. x \in Timers /\ nx[x] \in Ptr /\ (nx[x] = Nil \/ nx[x] \in Walk(h, nx))
      BY <3>1, WalkTimers
    <3>3. Walk(x, nx) = {x} \cup Walk(nx[x], nx)
      BY <3>2, WalkUnfold
    <3>4. T \subseteq Walk(nx[x], nx)
      BY <3>1, <3>3
    <3>5. nx[x] # Nil
      BY <3>4, WalkNil
    <3> QED BY <3>2, <3>4, <3>5
  <2>5. S \subseteq Timers
    BY WalkTimers
  <2>6. Closed(h, nx, S)
    <3> HIDE DEF S
    <3> QED BY <2>3, <2>4, <2>5 DEF Closed
  <2>7. Walk(h, nx) \subseteq S
    <3> HIDE DEF S
    <3> QED BY <2>6, WalkLeast
  <2> QED BY <2>1, <2>7
<1>2. x \in Timers /\ T \subseteq Walk(x, nx)
  BY <1>1, WalkTimers
<1>3. Walk(x, nx) = {x} \cup Walk(nx[x], nx)
  BY <1>2, WalkUnfold
<1> QED BY <1>2, <1>3 DEF Before

LEMMA NearestIs ==
  ASSUME NEW h \in Timers, NEW nx \in Nexts, Acyclic(h, nx), NEW to \in [Timers -> Nat]
  PROVE  /\ Nearest(h, nx, to) \in Walk(h, nx)
         /\ \A x \in Walk(h, nx) : to[Nearest(h, nx, to)] <= to[x]
<1> DEFINE W == Walk(h, nx)
           D == {to[x] : x \in W}
<1>1. h \in Ptr /\ h # Nil
  BY NilFact DEF Ptr
<1>2. W \subseteq Timers /\ h \in W
  BY <1>1, WalkTimers
<1>3. \A x \in W : to[x] \in Nat
  BY <1>2
<1>4. PICK d \in D : \A y \in D : d <= y
  <2>1. D \subseteq Nat /\ D # {}
    BY <1>2, <1>3
  <2> HIDE DEF D
  <2> QED BY <2>1, LeastExists
<1> DEFINE T == {x \in W : to[x] = d}
<1>5. T \in SUBSET W /\ T # {}
  BY <1>4
<1>6. PICK t \in T : \A y \in T \ {t} : Before(nx, t, y)
  <2> HIDE DEF T
  <2> QED BY <1>1, <1>5, FirstOf
<1>7. t \in W /\ to[t] = d /\ d \in Nat
  BY <1>3, <1>6
<1>8. \A x \in W : d <= to[x]
  BY <1>4
<1>9. \A x \in W \ {t} : to[t] < to[x] \/ (to[t] = to[x] /\ Before(nx, t, x))
  <2> SUFFICES ASSUME NEW x \in W \ {t}, to[x] = d PROVE Before(nx, t, x)
    BY <1>3, <1>7, <1>8
  <2> QED BY <1>6
<1> DEFINE r == CHOOSE u \in W : \A x \in W \ {u} :
                  to[u] < to[x] \/ (to[u] = to[x] /\ Before(nx, u, x))
<1>10. Nearest(h, nx, to) = r
  BY <1>1 DEF Nearest
<1>11. r \in W /\ \A x \in W \ {r} : to[r] < to[x] \/ (to[r] = to[x] /\ Before(nx, r, x))
  <2> HIDE DEF W
  <2> QED BY <1>7, <1>9
<1>12. \A x \in W : to[r] <= to[x]
  <2> HIDE DEF r, W
  <2> QED BY <1>3, <1>11
<1> QED BY <1>10, <1>11, <1>12

---------------------------------------------------------------------------
(* The inductive invariant *)

Types ==
  /\ head \in Ptr /\ next \in Nexts /\ nearest \in Ptr /\ cur \in Ptr
  /\ timeout \in [Timers -> Nat] /\ period \in [Timers -> Nat]
  /\ isRunning \in [Timers -> BOOLEAN] /\ used \in [Timers -> BOOLEAN]
  /\ usedNum \in Nat /\ owner \in [Timers -> Clients \cup {Nil}]
  /\ handle \in [Clients -> Slots \cup {Nil}]
  /\ age \in [Timers -> Nat] /\ real \in [Timers -> 0 .. MaxSleep]
  /\ since \in 0 .. MaxStep /\ remTick \in 0 .. TickMs - 1
  /\ pc \in {"idle", "walk", "cb"}

\* The list ends, a slot is used while it is in the list, and only timers of
\* the list run.
ListInv ==
  /\ Acyclic(head, next)
  /\ \A t \in Slots : used[t] <=> t \in InList
  /\ usedNum = Cardinality({t \in Slots : used[t]})
  /\ \A t \in Timers : isRunning[t] => t \in InList

\* The pass in progress: what it has yet to serve lies ahead of it.
PassInv ==
  /\ pc = "idle" => cur = Nil /\ due = {}
  /\ pc = "walk" => /\ cur = Nil \/ cur \in InList
                    /\ prevHead = head /\ due \subseteq Walk(cur, next)
  /\ pc = "cb" => /\ cur \in InList /\ timeout[cur] = 0
                  /\ due \subseteq Walk(next[cur], next)
  /\ \A t \in due : timeout[t] = 0

\* A timer has not been aged by more than the time since it was registered, or
\* since the pass that armed it again read the clock, up to the part of a
\* millisecond that was left over then.
Aged(t) ==
  \/ real[t] = MaxSleep
  \/ isRunning[t] /\ timeout[t] = 0 /\ period[t] * TickMs <= real[t] + TickMs - 1
  \/ isRunning[t] /\ (period[t] - timeout[t]) * TickMs + remTick + since <= real[t] + TickMs - 1
  \/ ~isRunning[t] /\ age[t] <= real[t]

TimeInv ==
  \A t \in InList :
    /\ period[t] \in Periods /\ Aged(t)
    /\ ~isRunning[t] => timeout[t] = period[t] /\ age[t] <= since + remTick

\* While the main loop runs, timer_nearest is exact as long as a timer was not
\* aged yet, and within slack afterwards.
NearInv ==
  pc = "idle" => /\ NearestWithin(Slack)
                 /\ (\E t \in InList : ~isRunning[t]) => NearestWithin(0)

IInv == Types /\ ListInv /\ PassInv /\ TimeInv /\ NearInv

LEMMA Consts ==
  /\ Periods \subseteq Nat \ {0} /\ TickMs \in Nat \ {0}
  /\ MaxStep \in Nat /\ MaxSleep \in Nat /\ Slots \subseteq Timers /\ Statics \subseteq Timers
  /\ Nil \notin Timers /\ Nil \notin Slots /\ Slots \cap Statics = {}
  /\ IsFiniteSet(Slots)
<1>1. Slots \in SUBSET Timers
  BY DEF Timers
<1>2. IsFiniteSet(Slots)
  BY <1>1, TimerAssumption, FS_Subset
<1> QED BY <1>2, TimerAssumption DEF Timers

LEMMA InListFacts ==
  ASSUME Types
  PROVE  /\ InList \in SUBSET Timers
         /\ head = Nil => InList = {}
         /\ head # Nil => head \in InList
         /\ \A x \in InList : /\ x \in Timers /\ x # Nil /\ next[x] \in Ptr
                              /\ next[x] = Nil \/ next[x] \in InList
                              /\ Walk(x, next) \subseteq InList
                              /\ Walk(x, next) = {x} \cup Walk(next[x], next)
                              /\ Walk(next[x], next) \subseteq InList
<1>1. head \in Ptr /\ next \in Nexts
  BY DEF Types
<1>2. InList \in SUBSET Timers /\ (head # Nil => head \in InList)
  BY <1>1, WalkTimers DEF InList
<1>3. head = Nil => InList = {}
  BY <1>1, WalkNil DEF InList
<1>4. ASSUME NEW x \in InList
      PROVE  /\ x \in Timers /\ x # Nil /\ next[x] \in Ptr
             /\ next[x] = Nil \/ next[x] \in InList
             /\ Walk(x, next) \subseteq InList
             /\ Walk(x, next) = {x} \cup Walk(next[x], next)
             /\ Walk(next[x], next) \subseteq InList
  <2>1. x \in Timers /\ next[x] \in Ptr /\ (next[x] = Nil \/ next[x] \in InList)
    BY <1>1, <1>4, WalkTimers DEF InList
  <2>2. x # Nil /\ x \in Ptr
    BY <2>1, NilFact DEF Ptr
  <2>3. Walk(x, next) \subseteq InList
    BY <1>1, <2>2, <1>4, WalkSub DEF InList
  <2>4. Walk(next[x], next) \subseteq InList
    BY <1>1, <2>1, WalkSub DEF InList
  <2>5. Walk(x, next) = {x} \cup Walk(next[x], next)
    BY <1>1, <2>1, WalkUnfold
  <2> QED BY <2>1, <2>2, <2>3, <2>4, <2>5
<1> QED BY <1>2, <1>3, <1>4

\* What NearestWithin(0) and the type of timer_nearest follow from.
LEMMA NearestOk ==
  ASSUME NEW h \in Ptr, NEW nx \in Nexts, Acyclic(h, nx), NEW to \in [Timers -> Nat],
         NEW n, n = Nearest(h, nx, to)
  PROVE  /\ n \in Ptr
         /\ IF h = Nil THEN n = Nil
            ELSE n \in Walk(h, nx) /\ \A t \in Walk(h, nx) : to[n] <= to[t] + 0
<1>1. CASE h = Nil
  BY <1>1 DEF Nearest, Ptr
<1>2. CASE h # Nil
  <2>1. h \in Timers
    BY <1>2 DEF Ptr
  <2>2. n \in Walk(h, nx) /\ \A x \in Walk(h, nx) : to[n] <= to[x]
    BY <2>1, NearestIs
  <2>3. Walk(h, nx) \subseteq Timers
    BY WalkTimers
  <2>4. \A x \in Walk(h, nx) : to[x] \in Nat
    BY <2>3
  <2> QED BY <1>2, <2>2, <2>3, <2>4 DEF Ptr
<1> QED BY <1>1, <1>2

\* A timer enters the list.
LEMMA ArmStep ==
  ASSUME Types, ListInv, NEW t \in Timers, t \notin InList, NEW ms \in Periods, Arm(t, ms)
  PROVE  /\ head' \in Ptr /\ next' \in Nexts /\ nearest' \in Ptr
         /\ timeout' \in [Timers -> Nat] /\ period' \in [Timers -> Nat]
         /\ age' \in [Timers -> Nat] /\ real' \in [Timers -> 0 .. MaxSleep]
         /\ Acyclic(head', next') /\ InList' = InList \cup {t}
         /\ \A x \in InList : next'[x] = next[x] /\ Walk(next'[x], next') = Walk(next[x], next)
         /\ \A x \in Timers \ {t} : /\ timeout'[x] = timeout[x] /\ period'[x] = period[x]
                                    /\ age'[x] = age[x] /\ real'[x] = real[x]
         /\ timeout'[t] = ms /\ period'[t] = ms /\ age'[t] = 0 /\ real'[t] = 0
         /\ NearestWithin(0)'
<1>1. head \in Ptr /\ next \in Nexts /\ Acyclic(head, next) /\ t \notin Walk(head, next)
  BY DEF Types, ListInv, InList
<1>2. next' = [next EXCEPT ![t] = head] /\ head' = t
      /\ nearest' = Nearest(t, next', timeout')
  BY DEF Arm
<1>3. Inserted(head, next, t, next')
  BY <1>1, <1>2, InsertWalk
<1>4. ms \in Nat /\ 0 \in 0 .. MaxSleep
  BY Consts
<1>5. ~isRunning[t]
  BY DEF ListInv
<1>6. /\ timeout' \in [Timers -> Nat] /\ period' \in [Timers -> Nat]
      /\ age' \in [Timers -> Nat] /\ real' \in [Timers -> 0 .. MaxSleep]
  BY <1>4 DEF Types, Arm
<1>7. timeout'[t] = ms /\ period'[t] = ms /\ age'[t] = 0 /\ real'[t] = 0
  BY <1>5 DEF Types, Arm
<1>8. \A x \in Timers \ {t} : /\ timeout'[x] = timeout[x] /\ period'[x] = period[x]
                              /\ age'[x] = age[x] /\ real'[x] = real[x]
  BY DEF Types, Arm
<1>9. head' \in Ptr
  BY <1>2 DEF Ptr
<1>10. /\ nearest' \in Ptr
       /\ IF head' = Nil THEN nearest' = Nil
          ELSE /\ nearest' \in Walk(head', next')
               /\ \A x \in Walk(head', next') : timeout'[nearest'] <= timeout'[x] + 0
  <2>1. next' \in Nexts /\ Acyclic(head', next')
    BY <1>2, <1>3 DEF Inserted
  <2>2. nearest' = Nearest(head', next', timeout')
    BY <1>2
  <2> QED BY <2>1, <2>2, <1>6, <1>9, NearestOk
<1>11. NearestWithin(0)'
  BY <1>10 DEF NearestWithin, InList
<1> QED BY <1>2, <1>3, <1>6, <1>7, <1>8, <1>9, <1>10, <1>11 DEF InList, Inserted

\* A timer leaves the list.
LEMMA UnonStep ==
  ASSUME Types, ListInv, NEW t \in InList, Unon(t), timeout' = timeout
  PROVE  /\ head' \in Ptr /\ next' \in Nexts /\ nearest' \in Ptr
         /\ isRunning' \in [Timers -> BOOLEAN] /\ used' \in [Timers -> BOOLEAN]
         /\ usedNum' \in Nat /\ ListInv' /\ InList' = InList \ {t}
         /\ \A x \in InList : Walk(next'[x], next') = Walk(next[x], next) \ {t}
         /\ \A x \in Timers \ {t} : isRunning'[x] = isRunning[x] /\ used'[x] = used[x]
         /\ t \in Slots => ~used'[t]
         /\ next'[t] = next[t] /\ due' = due \ {t}
         /\ NearestWithin(0)'
<1>1. head \in Ptr /\ next \in Nexts /\ Acyclic(head, next) /\ t \in Walk(head, next)
  BY DEF Types, ListInv, InList
<1>2. head' = DeleteHead(head, next, t) /\ next' = DeleteNext(head, next, t)
      /\ nearest' = Nearest(head', next', timeout) /\ due' = due \ {t}
  BY DEF Unon
<1>3. Deleted(head, next, t, head', next')
  BY <1>1, <1>2, DeleteWalk
<1>4. InList' = InList \ {t} /\ t \in Timers
  BY <1>3, InListFacts DEF InList, Deleted
<1>5. /\ isRunning' \in [Timers -> BOOLEAN] /\ used' \in [Timers -> BOOLEAN]
      /\ \A x \in Timers \ {t} : isRunning'[x] = isRunning[x] /\ used'[x] = used[x]
      /\ isRunning'[t] = FALSE /\ used'[t] = IF t \in Slots THEN FALSE ELSE used[t]
  BY <1>4 DEF Types, Unon
<1>6. \A x \in Slots : used'[x] <=> x \in InList'
  <2> SUFFICES ASSUME NEW x \in Slots PROVE used'[x] <=> x \in InList'
    OBVIOUS
  <2>1. x \in Timers /\ (used[x] <=> x \in InList)
    BY Consts DEF ListInv
  <2> QED BY <2>1, <1>4, <1>5
<1>7. usedNum' = Cardinality({x \in Slots : used'[x]}) /\ usedNum' \in Nat
  <2> DEFINE U == {x \in Slots : used[x]}
             V == {x \in Slots : used'[x]}
  <2>1. IsFiniteSet(U)
    BY Consts, FS_Subset
  <2>2. usedNum = Cardinality(U) /\ usedNum \in Nat
    BY DEF ListInv, Types
  <2>3. CASE t \in Slots
    <3>1. used[t]
      BY <2>3 DEF ListInv
    <3>2. V = U \ {t} /\ t \in U
      BY <2>3, <3>1, <1>5, Consts
    <3>3. usedNum' = usedNum - 1
      BY <2>3, <3>1 DEF Unon
    <3> HIDE DEF U, V
    <3>4. Cardinality(V) = Cardinality(U) - 1 /\ IsFiniteSet(V)
      BY <2>1, <3>2, FS_RemoveElement
    <3>5. Cardinality(V) \in Nat
      BY <3>4, FS_CardinalityType
    <3>6. usedNum' = Cardinality(V) /\ usedNum' \in Nat
      BY <2>2, <3>3, <3>4, <3>5
    <3> QED BY <3>6 DEF V
  <2>4. CASE t \notin Slots
    <3>1. \A x \in Slots : used'[x] = used[x]
      BY <2>4, <1>5, Consts
    <3>2. V = U
      BY <3>1
    <3>3. usedNum' = usedNum
      BY <2>4 DEF Unon
    <3> QED BY <2>2, <3>2, <3>3
  <2> QED BY <2>3, <2>4
<1>8. \A x \in Timers : isRunning'[x] => x \in InList'
  BY <1>4, <1>5 DEF ListInv
<1>9. ListInv'
  BY <1>3, <1>6, <1>7, <1>8 DEF ListInv, Deleted
<1>10. timeout \in [Timers -> Nat]
  BY DEF Types
<1>11. /\ nearest' \in Ptr
       /\ IF head' = Nil THEN nearest' = Nil
          ELSE /\ nearest' \in Walk(head', next')
               /\ \A x \in Walk(head', next') : timeout[nearest'] <= timeout[x] + 0
  BY <1>2, <1>3, <1>10, NearestOk DEF Deleted
<1>12. NearestWithin(0)'
  BY <1>11 DEF NearestWithin, InList
<1> QED BY <1>2, <1>3, <1>4, <1>5, <1>7, <1>9, <1>11, <1>12 DEF InList, Deleted

---------------------------------------------------------------------------
(* Milliseconds and ticks *)

LEMMA DivMod ==
  ASSUME NEW a \in Nat, NEW p \in Nat \ {0}
  PROVE  /\ a \div p \in Nat /\ a % p \in 0 .. p - 1
         /\ a = (a \div p) * p + (a % p)
  OBVIOUS

LEMMA DivBounds ==
  ASSUME NEW a \in Nat, NEW p \in Nat \ {0}
  PROVE  a \div p \in Nat /\ (a \div p) * p <= a /\ a <= (a \div p) * p + (p - 1)
<1> DEFINE q == a \div p
           r == a % p
<1>1. q \in Nat /\ r \in 0 .. p - 1 /\ a = q * p + r
  BY DivMod
<1>2. q * p \in Int
  BY <1>1
<1> HIDE DEF q, r
<1>3. q * p <= a /\ a <= q * p + (p - 1)
  BY <1>1, <1>2
<1> QED BY <1>1, <1>3 DEF q

LEMMA MulMono ==
  ASSUME NEW a \in Int, NEW b \in Int, a <= b, NEW T \in Nat
  PROVE  a * T <= b * T
  OBVIOUS

LEMMA MulLess ==
  ASSUME NEW a \in Int, NEW b \in Int, NEW T \in Nat \ {0}, a * T < (b + 1) * T
  PROVE  a <= b
<1>1. CASE b + 1 <= a
  BY <1>1, MulMono
<1> QED BY <1>1

\* The milliseconds ev_timer_process takes off, and the ticks it carries over.
MsOf(s, r, T) == (s \div T) + (r + (s % T)) \div T
RemOf(s, r, T) == (r + (s % T)) % T

LEMMA ProcessMs ==
  ASSUME NEW s \in Nat, NEW T \in Nat \ {0}, NEW r \in 0 .. T - 1
  PROVE  /\ MsOf(s, r, T) \in Nat /\ RemOf(s, r, T) \in 0 .. T - 1
         /\ MsOf(s, r, T) * T + RemOf(s, r, T) = s + r
<1> DEFINE ms == MsOf(s, r, T)
           r2 == RemOf(s, r, T)
<1> HIDE DEF ms, r2
<1>1. /\ s \div T \in Nat /\ s % T \in 0 .. T - 1
      /\ s = (s \div T) * T + (s % T)
  BY DivMod
<1> DEFINE q == s \div T
           m == s % T
           w == r + m
<1>2. w \in Nat
  BY <1>1
<1> HIDE DEF q, m, w
<1>3. w \div T \in Nat /\ w % T \in 0 .. T - 1 /\ w = (w \div T) * T + (w % T)
  BY <1>2, DivMod
<1> DEFINE v == w \div T
<1>4. ms = q + v /\ r2 = w % T
  BY DEF q, m, w, ms, r2, MsOf, RemOf
<1>5. q \in Nat /\ s = q * T + m /\ m \in Nat
  BY <1>1 DEF q, m
<1>6. v \in Nat /\ w = v * T + r2 /\ r2 \in 0 .. T - 1
  BY <1>3, <1>4
<1> HIDE DEF v
<1>7. w = r + m
  BY DEF w
<1>8. (q + v) * T = q * T + v * T
  BY <1>5, <1>6
<1>9. ms \in Nat /\ r2 \in 0 .. T - 1 /\ ms * T + r2 = s + r
  <2> DEFINE x == q * T
             y == v * T
  <2>1. x \in Int /\ y \in Int
    BY <1>5, <1>6
  <2>2. ms * T = x + y
    BY <1>4, <1>8
  <2>3. s = x + m /\ r + m = y + r2 /\ m \in Nat /\ r2 \in 0 .. T - 1
    BY <1>5, <1>6, <1>7
  <2>4. ms \in Nat
    BY <1>4, <1>5, <1>6
  <2> HIDE DEF x, y
  <2>5. x + y + r2 = s + r
    BY <2>1, <2>3
  <2> QED BY <2>2, <2>3, <2>4, <2>5
<1> QED BY <1>9 DEF ms, r2

\* A timer that was registered a ticks ago is aged in a sleep of n ticks by at
\* most (b + T - 1) \div T ms more than the others, when a <= b.
LEMMA SleepSkew ==
  ASSUME NEW a \in Nat, NEW b \in Nat, a <= b, NEW n \in Nat, NEW T \in Nat \ {0}
  PROVE  (a + n) \div T <= (n \div T) + (b + (T - 1)) \div T
<1> DEFINE x == (a + n) \div T
           y == n \div T
           z == (b + (T - 1)) \div T
<1>0. a + n \in Nat /\ b + (T - 1) \in Nat
  OBVIOUS
<1>1. x \in Nat /\ x * T <= a + n
  BY <1>0, DivBounds
<1>2. y \in Nat /\ n <= y * T + (T - 1)
  BY DivBounds
<1>3. z \in Nat /\ b + (T - 1) <= z * T + (T - 1)
  BY <1>0, DivBounds
<1> HIDE DEF x, y, z
<1>4. (y + z + 1) * T = y * T + z * T + T
  BY <1>2, <1>3
<1>5. x * T < (y + z + 1) * T
  BY <1>1, <1>2, <1>3, <1>4
<1>6. x <= y + z
  BY <1>1, <1>2, <1>3, <1>5, MulLess
<1> QED BY <1>6 DEF x, y, z

\* Aging a running timer by m ms, when m ms and what is carried over are at most
\* the n ticks slept and what was carried over before.
LEMMA AgeRunning ==
  ASSUME NEW p \in Nat, NEW to \in Nat, NEW m \in Nat, NEW T \in Nat \ {0},
         NEW c \in Nat, NEW c2 \in Nat, NEW n \in Nat, NEW R \in Nat,
         m * T + c2 <= c + n,
         (p - to) * T + c <= R + T - 1
  PROVE  /\ to > m => (p - (to - m)) * T + c2 <= R + n + T - 1
         /\ to <= m => p * T <= R + n + T - 1
<1> DEFINE A == (p - to) * T
           B == m * T
<1>1. A \in Int /\ B \in Int /\ A + c <= R + T - 1 /\ B + c2 <= c + n
  OBVIOUS
<1>2. (p - (to - m)) * T = A + B
  OBVIOUS
<1>3. to <= m => p * T <= (p - (to - m)) * T
  BY MulMono
<1>4. (p - (to - m)) * T + c2 <= R + n + T - 1
  <2> HIDE DEF A, B
  <2> QED BY <1>1, <1>2
<1>5. (p - (to - m)) * T \in Int /\ p * T \in Int
  OBVIOUS
<1> QED BY <1>3, <1>4, <1>5

\* Aging a timer for the first time, a ticks after it was registered.
LEMMA AgeFirst ==
  ASSUME NEW p \in Nat, NEW a \in Nat, NEW T \in Nat \ {0}, NEW c \in 0 .. T - 1,
         NEW R \in Nat, a <= R
  PROVE  /\ a \div T \in Nat
         /\ p > a \div T => (p - (p - (a \div T))) * T + c <= R + T - 1
         /\ p <= a \div T => p * T <= R + T - 1
<1> DEFINE e == a \div T
<1>1. e \in Nat /\ e * T <= a
  BY DivBounds
<1> HIDE DEF e
<1>2. p - (p - e) = e
  BY <1>1
<1>3. p <= e => p * T <= e * T
  BY <1>1, MulMono
<1>4. e * T \in Int /\ p * T \in Int
  BY <1>1
<1>5. e * T + c <= R + T - 1
  BY <1>1, <1>4
<1>6. p <= e => p * T <= R + T - 1
  BY <1>1, <1>3, <1>4
<1> QED BY <1>1, <1>2, <1>5, <1>6 DEF e

---------------------------------------------------------------------------
(* The clients' operations keep the invariant *)

\* The timers a pass has yet to serve are in the list.
LEMMA DueInList ==
  ASSUME IInv
  PROVE  due \subseteq InList
<1>1. Types /\ PassInv /\ pc \in {"idle", "walk", "cb"}
  BY DEF IInv, Types
<1>2. CASE pc = "idle"
  BY <1>1, <1>2 DEF PassInv
<1>3. CASE pc = "walk"
  <2>1. due \subseteq Walk(cur, next) /\ (cur = Nil \/ cur \in InList)
    BY <1>1, <1>3 DEF PassInv
  <2>2. cur = Nil => Walk(cur, next) = {}
    BY <1>1, WalkNil DEF Types
  <2> QED BY <1>1, <2>1, <2>2, InListFacts
<1>4. CASE pc = "cb"
  <2>1. cur \in InList /\ due \subseteq Walk(next[cur], next)
    BY <1>1, <1>4 DEF PassInv
  <2> QED BY <1>1, <2>1, InListFacts
<1> QED BY <1>1, <1>2, <1>3, <1>4

LEMMA SlackNat == Slack \in Nat
<1>1. MaxStep + 2 * (TickMs - 1) \in Nat
  BY Consts
<1> QED BY <1>1, Consts, DivMod DEF Slack

LEMMA ArmInv ==
  ASSUME IInv, NEW t \in Timers, t \notin InList, NEW ms \in Periods, Arm(t, ms),
         pc = "idle" \/ pc = "cb",
         UNCHANGED <<isRunning, clock, pc, cur, prevHead, due>>
  PROVE  PassInv' /\ TimeInv' /\ NearInv'
<1>1. Types /\ ListInv /\ PassInv /\ TimeInv
  BY DEF IInv
<1>2. /\ head' \in Ptr /\ next' \in Nexts /\ nearest' \in Ptr
      /\ timeout' \in [Timers -> Nat] /\ period' \in [Timers -> Nat]
      /\ age' \in [Timers -> Nat] /\ real' \in [Timers -> 0 .. MaxSleep]
      /\ Acyclic(head', next') /\ InList' = InList \cup {t}
      /\ \A x \in InList : next'[x] = next[x] /\ Walk(next'[x], next') = Walk(next[x], next)
      /\ \A x \in Timers \ {t} : /\ timeout'[x] = timeout[x] /\ period'[x] = period[x]
                                 /\ age'[x] = age[x] /\ real'[x] = real[x]
      /\ timeout'[t] = ms /\ period'[t] = ms /\ age'[t] = 0 /\ real'[t] = 0
      /\ NearestWithin(0)'
  BY <1>1, ArmStep
<1>3. \A x \in InList : x \in Timers \ {t}
  BY <1>1, InListFacts
<1>4. PassInv'
  <2>1. pc' = "idle" => cur' = Nil /\ due' = {}
    BY <1>1 DEF PassInv
  <2>2. pc' = "walk" => FALSE
    OBVIOUS
  <2>3. pc' = "cb" => /\ cur' \in InList' /\ timeout'[cur'] = 0
                      /\ due' \subseteq Walk(next'[cur'], next')
    <3> SUFFICES ASSUME pc = "cb"
                 PROVE  /\ cur \in InList' /\ timeout'[cur] = 0
                        /\ due \subseteq Walk(next'[cur], next')
      OBVIOUS
    <3>1. cur \in InList /\ timeout[cur] = 0 /\ due \subseteq Walk(next[cur], next)
      BY <1>1 DEF PassInv
    <3> QED BY <3>1, <1>2, <1>3
  <2>4. \A x \in due' : timeout'[x] = 0
    <3>1. \A x \in due : x \in InList /\ timeout[x] = 0
      BY <1>1, DueInList DEF PassInv
    <3> QED BY <3>1, <1>2, <1>3
  <2> QED BY <2>1, <2>2, <2>3, <2>4 DEF PassInv
<1>5. ASSUME NEW x \in InList'
      PROVE  /\ period'[x] \in Periods /\ Aged(x)'
             /\ ~isRunning'[x] => timeout'[x] = period'[x] /\ age'[x] <= since' + remTick'
  <2>0. since' = since /\ remTick' = remTick /\ isRunning' = isRunning
    BY DEF clock
  <2>1. CASE x = t
    <3>1. ~isRunning[t]
      BY <1>1 DEF ListInv
    <3>2. 0 <= since + remTick
      BY <1>1, Consts DEF Types
    <3> QED BY <2>0, <2>1, <3>1, <3>2, <1>2 DEF Aged
  <2>2. CASE x # t
    <3>1. x \in InList /\ x \in Timers \ {t}
      BY <2>2, <1>2, <1>3
    <3>2. /\ period[x] \in Periods /\ Aged(x)
          /\ ~isRunning[x] => timeout[x] = period[x] /\ age[x] <= since + remTick
      BY <3>1, <1>1 DEF TimeInv
    <3>3. /\ timeout'[x] = timeout[x] /\ period'[x] = period[x]
          /\ age'[x] = age[x] /\ real'[x] = real[x]
      BY <3>1, <1>2
    <3>4. Aged(x)'
      BY <2>0, <3>2, <3>3 DEF Aged
    <3> QED BY <2>0, <3>2, <3>3, <3>4
  <2> QED BY <2>1, <2>2
<1>6. TimeInv'
  BY <1>1, <1>5 DEF TimeInv, clock
<1>7. NearInv'
  <2>1. NearestWithin(Slack)'
    <3>1. Slack \in Nat
      BY SlackNat
    <3>2. InList' \subseteq Timers
      BY <1>2, <1>3
    <3>3. \A x \in InList' : timeout'[x] \in Nat
      BY <3>2, <1>2
    <3>4. \A x \in InList' : nearest' \in InList' /\ timeout'[nearest'] <= timeout'[x] + 0
                               => timeout'[nearest'] <= timeout'[x] + Slack
      BY <3>1, <3>3
    <3> QED BY <1>2, <3>4 DEF NearestWithin
  <2> QED BY <2>1, <1>2 DEF NearInv
<1> QED BY <1>4, <1>6, <1>7

LEMMA TurnTypes ==
  ASSUME ClientTurn
  PROVE  pc = "idle" \/ pc = "cb"
  BY DEF ClientTurn

LEMMA OnTimerKeeps ==
  ASSUME IInv, NEW t \in Statics, NEW ms \in Periods, OnTimer(t, ms)
  PROVE  IInv'
<1>1. t \in Timers /\ t \notin InList /\ Arm(t, ms) /\ (pc = "idle" \/ pc = "cb")
  BY Consts DEF OnTimer, ClientTurn
<1>2. UNCHANGED <<isRunning, clock, pc, cur, prevHead, due>>
      /\ UNCHANGED <<used, usedNum, owner, handle>>
  BY DEF OnTimer
<1>3. PassInv' /\ TimeInv' /\ NearInv'
  BY <1>1, <1>2, ArmInv
<1>4. Types /\ ListInv
  BY DEF IInv
<1>5. /\ head' \in Ptr /\ next' \in Nexts /\ nearest' \in Ptr
      /\ timeout' \in [Timers -> Nat] /\ period' \in [Timers -> Nat]
      /\ age' \in [Timers -> Nat] /\ real' \in [Timers -> 0 .. MaxSleep]
      /\ Acyclic(head', next') /\ InList' = InList \cup {t}
  BY <1>1, <1>4, ArmStep
<1>6. Types'
  BY <1>2, <1>4, <1>5 DEF Types, clock
<1>7. ListInv'
  <2>1. \A x \in Slots : x # t
    BY Consts
  <2> QED BY <2>1, <1>2, <1>4, <1>5 DEF ListInv
<1> QED BY <1>3, <1>6, <1>7 DEF IInv

LEMMA PostKeeps ==
  ASSUME IInv, NEW c \in Clients, NEW ms \in Periods, Post(c, ms)
  PROVE  IInv'
<1>1. Types /\ ListInv /\ PassInv /\ TimeInv /\ NearInv
  BY DEF IInv
<1>2. UNCHANGED <<isRunning, clock, pc, cur, prevHead, due>> /\ (pc = "idle" \/ pc = "cb")
  BY DEF Post, ClientTurn
<1>3. CASE usedNum >= Cardinality(Slots)
  <2>1. UNCHANGED <<list, timeout, period, used, usedNum, owner, handle, age, real>>
    BY <1>3 DEF Post
  <2>2. InList' = InList
    BY <2>1 DEF list, InList
  <2>3. Types'
    BY <2>1, <1>1, <1>2 DEF Types, list, clock
  <2>4. ListInv'
    BY <2>1, <2>2, <1>1, <1>2 DEF ListInv, list
  <2>5. PassInv'
    BY <2>1, <2>2, <1>1, <1>2 DEF PassInv, list
  <2>6. TimeInv'
    BY <2>1, <2>2, <1>1, <1>2 DEF TimeInv, Aged, clock
  <2>7. NearInv'
    BY <2>1, <2>2, <1>1, <1>2 DEF NearInv, NearestWithin, list
  <2> QED BY <2>3, <2>4, <2>5, <2>6, <2>7 DEF IInv
<1>4. CASE ~(usedNum >= Cardinality(Slots))
  <2>1. PICK t \in Slots :
          /\ ~used[t]
          /\ used' = [used EXCEPT ![t] = TRUE] /\ usedNum' = usedNum + 1
          /\ owner' = [owner EXCEPT ![t] = c]
          /\ handle' = [handle EXCEPT ![c] = t]
          /\ Arm(t, ms)
    BY <1>4 DEF Post
  <2>2. t \in Timers /\ t \notin InList
    BY <2>1, <1>1, Consts DEF ListInv
  <2>3. PassInv' /\ TimeInv' /\ NearInv'
    BY <2>1, <2>2, <1>2, ArmInv
  <2>4. /\ head' \in Ptr /\ next' \in Nexts /\ nearest' \in Ptr
        /\ timeout' \in [Timers -> Nat] /\ period' \in [Timers -> Nat]
        /\ age' \in [Timers -> Nat] /\ real' \in [Timers -> 0 .. MaxSleep]
        /\ Acyclic(head', next') /\ InList' = InList \cup {t}
    BY <2>1, <2>2, <1>1, ArmStep
  <2>5. /\ used' \in [Timers -> BOOLEAN] /\ usedNum' \in Nat
        /\ owner' \in [Timers -> Clients \cup {Nil}]
        /\ handle' \in [Clients -> Slots \cup {Nil}]
    <3>1. used \in [Timers -> BOOLEAN] /\ usedNum \in Nat
          /\ owner \in [Timers -> Clients \cup {Nil}]
          /\ handle \in [Clients -> Slots \cup {Nil}]
      BY <1>1 DEF Types
    <3>2. used' \in [Timers -> BOOLEAN]
      BY <2>1, <3>1
    <3>3. owner' \in [Timers -> Clients \cup {Nil}]
      BY <2>1, <3>1
    <3>4. handle' \in [Clients -> Slots \cup {Nil}]
      BY <2>1, <3>1
    <3> QED BY <2>1, <3>1, <3>2, <3>3, <3>4
  <2>6. Types'
    BY <2>4, <2>5, <1>1, <1>2 DEF Types, clock
  <2>7. used'[t] /\ \A x \in Timers : x # t => used'[x] = used[x]
    BY <2>1, <2>2, <1>1 DEF Types
  <2>8. \A x \in Slots : used'[x] <=> x \in InList'
    BY <2>4, <2>7, <1>1, Consts DEF ListInv
  <2>9. usedNum' = Cardinality({x \in Slots : used'[x]})
    <3> DEFINE U == {x \in Slots : used[x]}
               V == {x \in Slots : used'[x]}
    <3>1. IsFiniteSet(U) /\ t \notin U
      BY <2>1, Consts, FS_Subset
    <3>2. V = U \cup {t}
      BY <2>1, <2>7, Consts
    <3>3. usedNum = Cardinality(U)
      BY <1>1 DEF ListInv
    <3> HIDE DEF U, V
    <3>4. Cardinality(V) = Cardinality(U) + 1
      BY <3>1, <3>2, FS_AddElement
    <3>5. usedNum' = Cardinality(V)
      BY <2>1, <3>3, <3>4
    <3> QED BY <3>5 DEF V
  <2>10. \A x \in Timers : isRunning'[x] => x \in InList'
    BY <2>4, <1>1, <1>2 DEF ListInv
  <2>11. ListInv'
    BY <2>4, <2>8, <2>9, <2>10 DEF ListInv
  <2> QED BY <2>3, <2>6, <2>11 DEF IInv
<1> QED BY <1>3, <1>4

LEMMA UnonInv ==
  ASSUME IInv, NEW t \in InList, t # cur, Unon(t), pc = "idle" \/ pc = "cb",
         UNCHANGED <<timeout, period, clock, age, pc, cur, prevHead, real>>
  PROVE  PassInv' /\ TimeInv' /\ NearInv'
<1>1. Types /\ ListInv /\ PassInv /\ TimeInv
  BY DEF IInv
<1>2. timeout' = timeout
  OBVIOUS
<1>3. /\ head' \in Ptr /\ next' \in Nexts /\ nearest' \in Ptr
      /\ isRunning' \in [Timers -> BOOLEAN] /\ used' \in [Timers -> BOOLEAN]
      /\ usedNum' \in Nat /\ ListInv' /\ InList' = InList \ {t}
      /\ \A x \in InList : Walk(next'[x], next') = Walk(next[x], next) \ {t}
      /\ \A x \in Timers \ {t} : isRunning'[x] = isRunning[x] /\ used'[x] = used[x]
      /\ t \in Slots => ~used'[t]
      /\ next'[t] = next[t] /\ due' = due \ {t}
      /\ NearestWithin(0)'
  BY <1>1, <1>2, UnonStep
<1>4. PassInv'
  <2>1. pc' = "idle" => cur' = Nil /\ due' = {}
    BY <1>1, <1>3 DEF PassInv
  <2>2. pc' = "walk" => FALSE
    OBVIOUS
  <2>3. pc' = "cb" => /\ cur' \in InList' /\ timeout'[cur'] = 0
                      /\ due' \subseteq Walk(next'[cur'], next')
    <3> SUFFICES ASSUME pc = "cb"
                 PROVE  /\ cur \in InList' /\ timeout[cur] = 0
                        /\ due' \subseteq Walk(next'[cur], next')
      OBVIOUS
    <3>1. cur \in InList /\ timeout[cur] = 0 /\ due \subseteq Walk(next[cur], next)
      BY <1>1 DEF PassInv
    <3> QED BY <3>1, <1>3
  <2>4. \A x \in due' : timeout'[x] = 0
    BY <1>1, <1>3 DEF PassInv
  <2> QED BY <2>1, <2>2, <2>3, <2>4 DEF PassInv
<1>5. ASSUME NEW x \in InList'
      PROVE  /\ period'[x] \in Periods /\ Aged(x)'
             /\ ~isRunning'[x] => timeout'[x] = period'[x] /\ age'[x] <= since' + remTick'
  <2>1. x \in InList /\ x \in Timers \ {t}
    BY <1>1, <1>3, InListFacts
  <2>2. /\ period[x] \in Periods /\ Aged(x)
        /\ ~isRunning[x] => timeout[x] = period[x] /\ age[x] <= since + remTick
    BY <2>1, <1>1 DEF TimeInv
  <2>3. isRunning'[x] = isRunning[x] /\ since' = since /\ remTick' = remTick
    BY <2>1, <1>3 DEF clock
  <2>4. Aged(x)'
    BY <2>2, <2>3 DEF Aged
  <2> QED BY <2>2, <2>3, <2>4
<1>6. TimeInv'
  BY <1>1, <1>5 DEF TimeInv, clock
<1>7. NearInv'
  <2>1. \A x \in InList' : timeout'[x] \in Nat
    <3>1. InList' \subseteq Timers /\ timeout' \in [Timers -> Nat]
      BY <1>1, <1>3, InListFacts DEF Types
    <3> QED BY <3>1
  <2>2. \A x \in InList' : nearest' \in InList' /\ timeout'[nearest'] <= timeout'[x] + 0
                             => timeout'[nearest'] <= timeout'[x] + Slack
    BY <2>1, SlackNat
  <2>3. NearestWithin(Slack)'
    BY <1>3, <2>2 DEF NearestWithin
  <2> QED BY <2>3, <1>3 DEF NearInv
<1> QED BY <1>4, <1>6, <1>7

LEMMA UnonTimerKeeps ==
  ASSUME IInv, NEW t \in Statics, UnonTimer(t)
  PROVE  IInv'
<1>1. t \in InList /\ t # cur /\ Unon(t) /\ (pc = "idle" \/ pc = "cb")
  BY DEF UnonTimer, ClientTurn
<1>2. UNCHANGED <<timeout, period, clock, age, pc, cur, prevHead, real>>
      /\ UNCHANGED <<owner, handle>> /\ timeout' = timeout
  BY DEF UnonTimer
<1>3. PassInv' /\ TimeInv' /\ NearInv'
  BY <1>1, <1>2, UnonInv
<1>4. Types /\ ListInv
  BY DEF IInv
<1>5. /\ head' \in Ptr /\ next' \in Nexts /\ nearest' \in Ptr
      /\ isRunning' \in [Timers -> BOOLEAN] /\ used' \in [Timers -> BOOLEAN]
      /\ usedNum' \in Nat /\ ListInv'
  BY <1>1, <1>2, <1>4, UnonStep
<1>6. Types'
  BY <1>2, <1>4, <1>5 DEF Types, clock
<1> QED BY <1>3, <1>5, <1>6 DEF IInv

LEMMA CancelKeeps ==
  ASSUME IInv, NEW c \in Clients, Cancel(c)
  PROVE  IInv'
<1>1. Types /\ ListInv /\ PassInv /\ TimeInv /\ NearInv
  BY DEF IInv
<1>2. UNCHANGED <<timeout, period, clock, age, pc, cur, prevHead, real>>
      /\ UNCHANGED owner /\ timeout' = timeout /\ (pc = "idle" \/ pc = "cb")
  BY DEF Cancel, ClientTurn
<1>3. CASE used[handle[c]]
  <2> DEFINE t == handle[c]
  <2>1. t # Nil /\ Unon(t) /\ handle' = [handle EXCEPT ![c] = Nil] /\ (pc = "cb" => t # cur)
    BY <1>3 DEF Cancel
  <2>2. t \in Slots
    BY <2>1, <1>1 DEF Types
  <2> HIDE DEF t
  <2>3. t \in InList
    BY <2>2, <1>1, <1>3 DEF ListInv, t
  <2>4. t # cur
    BY <2>1, <1>1, <1>2 DEF PassInv
  <2>5. PassInv' /\ TimeInv' /\ NearInv'
    BY <2>1, <2>3, <2>4, <1>2, UnonInv
  <2>6. /\ head' \in Ptr /\ next' \in Nexts /\ nearest' \in Ptr
        /\ isRunning' \in [Timers -> BOOLEAN] /\ used' \in [Timers -> BOOLEAN]
        /\ usedNum' \in Nat /\ ListInv'
    BY <2>1, <2>3, <1>1, <1>2, UnonStep
  <2>7. handle' \in [Clients -> Slots \cup {Nil}]
    BY <2>1, <1>1 DEF Types
  <2>8. Types'
    BY <1>1, <1>2, <2>6, <2>7 DEF Types, clock
  <2> QED BY <2>5, <2>6, <2>8 DEF IInv
<1>4. CASE ~used[handle[c]]
  <2>1. UNCHANGED <<list, isRunning, used, usedNum, handle, due>>
    BY <1>4 DEF Cancel
  <2>2. InList' = InList
    BY <2>1 DEF list, InList
  <2>3. Types'
    BY <2>1, <1>1, <1>2 DEF Types, list, clock
  <2>4. ListInv'
    BY <2>1, <2>2, <1>1, <1>2 DEF ListInv, list
  <2>5. PassInv'
    BY <2>1, <2>2, <1>1, <1>2 DEF PassInv, list
  <2>6. TimeInv'
    BY <2>1, <2>2, <1>1, <1>2 DEF TimeInv, Aged, clock
  <2>7. NearInv'
    BY <2>1, <2>2, <1>1, <1>2 DEF NearInv, NearestWithin, list
  <2> QED BY <2>3, <2>4, <2>5, <2>6, <2>7 DEF IInv
<1> QED BY <1>3, <1>4

---------------------------------------------------------------------------
(* Time passes *)

LEMMA RealPlusFacts ==
  ASSUME Types, NEW n \in Nat, NEW t \in Timers
  PROVE  /\ RealPlus(t, n) \in 0 .. MaxSleep
         /\ t \in InList => \/ RealPlus(t, n) = MaxSleep
                            \/ real[t] # MaxSleep /\ RealPlus(t, n) = real[t] + n
<1>1. real[t] \in 0 .. MaxSleep /\ MaxSleep \in Nat
  BY Consts DEF Types
<1> QED BY <1>1 DEF RealPlus, Capped

\* Ticks that nothing has looked at yet.
LEMMA LaterKeeps ==
  ASSUME IInv, NEW n \in Nat, since + n <= MaxStep, since' = since + n,
         age' = [t \in Timers |-> IF isRunning[t] \/ t \notin InList THEN 0 ELSE age[t] + n],
         real' = [t \in Timers |-> RealPlus(t, n)],
         UNCHANGED <<list, tmr, remTick, pc, cur, prevHead, due>>
  PROVE  IInv'
<1>1. Types /\ ListInv /\ PassInv /\ TimeInv /\ NearInv
  BY DEF IInv
<1>2. /\ head' = head /\ next' = next /\ nearest' = nearest /\ timeout' = timeout
      /\ period' = period /\ isRunning' = isRunning /\ used' = used /\ usedNum' = usedNum
      /\ owner' = owner /\ handle' = handle
  BY DEF list, tmr
<1>3. InList' = InList
  BY <1>2 DEF InList
<1>4. age \in [Timers -> Nat] /\ since \in Nat /\ remTick \in Nat /\ MaxStep \in Nat
      /\ real \in [Timers -> 0 .. MaxSleep] /\ MaxSleep \in Nat
  BY <1>1, Consts DEF Types
<1>5. age' \in [Timers -> Nat] /\ since' \in 0 .. MaxStep
  BY <1>4
<1>6. real' \in [Timers -> 0 .. MaxSleep]
  BY <1>1, RealPlusFacts
<1>7. Types'
  BY <1>1, <1>2, <1>5, <1>6 DEF Types
<1>8. ListInv' /\ PassInv' /\ NearInv'
  BY <1>1, <1>2, <1>3 DEF ListInv, PassInv, NearInv, NearestWithin
<1>9. ASSUME NEW t \in InList
      PROVE  /\ period'[t] \in Periods /\ Aged(t)'
             /\ ~isRunning'[t] => timeout'[t] = period'[t] /\ age'[t] <= since' + remTick'
  <2>1. t \in Timers
    BY <1>1, InListFacts
  <2>2. /\ period[t] \in Periods /\ Aged(t)
        /\ ~isRunning[t] => timeout[t] = period[t] /\ age[t] <= since + remTick
    BY <1>1 DEF TimeInv
  <2>3. age[t] \in Nat /\ real[t] \in Nat
    BY <2>1, <1>4
  <2>4. ~isRunning[t] => age'[t] = age[t] + n
    BY <2>1
  <2>5. real'[t] = MaxSleep \/ (real[t] # MaxSleep /\ real'[t] = real[t] + n)
    BY <2>1, <1>1, RealPlusFacts
  <2>6. TickMs \in Nat /\ period[t] \in Nat /\ timeout[t] \in Nat
    BY <1>1, <2>1, Consts DEF Types
  <2>7. Aged(t)'
    <3> DEFINE a == period[t] * TickMs
               b == (period[t] - timeout[t]) * TickMs
    <3>1. a \in Int /\ b \in Int
      BY <2>6
    <3>2. \/ real[t] = MaxSleep
          \/ isRunning[t] /\ timeout[t] = 0 /\ a <= real[t] + TickMs - 1
          \/ isRunning[t] /\ b + remTick + since <= real[t] + TickMs - 1
          \/ ~isRunning[t] /\ age[t] <= real[t]
      BY <2>2 DEF Aged
    <3> SUFFICES \/ real'[t] = MaxSleep
                 \/ isRunning[t] /\ timeout[t] = 0 /\ a <= real'[t] + TickMs - 1
                 \/ isRunning[t] /\ b + remTick + since' <= real'[t] + TickMs - 1
                 \/ ~isRunning[t] /\ age'[t] <= real'[t]
      BY <1>2 DEF Aged
    <3> HIDE DEF a, b
    <3> QED BY <3>1, <3>2, <2>3, <2>4, <2>5, <2>6, <1>4
  <2> QED BY <2>2, <2>3, <2>4, <2>7, <1>2, <1>4
<1>10. TimeInv'
  BY <1>3, <1>9 DEF TimeInv
<1> QED BY <1>7, <1>8, <1>10 DEF IInv

LEMMA TickKeeps ==
  ASSUME IInv, NEW n \in 1 .. MaxStep, Tick(n)
  PROVE  IInv'
<1>1. n \in Nat
  BY Consts
<1> QED BY <1>1, LaterKeeps DEF Tick

\* Aging by m milliseconds, n ticks after the last tick counted: a timer loses
\* no more time than has passed.
LEMMA UpdateStep ==
  ASSUME IInv, pc = "idle", NEW m \in Nat, NEW n \in Nat, Update(m, n),
         since' = 0, remTick' \in 0 .. TickMs - 1,
         m * TickMs + remTick' <= since + remTick + n,
         period' = period, UNCHANGED <<head, next>>,
         real' \in [Timers -> 0 .. MaxSleep],
         \A t \in InList : \/ real'[t] = MaxSleep
                           \/ real[t] # MaxSleep /\ real'[t] = real[t] + n
  PROVE  /\ timeout' \in [Timers -> Nat] /\ age' \in [Timers -> Nat]
         /\ isRunning' \in [Timers -> BOOLEAN]
         /\ \A t \in Timers : isRunning'[t] => t \in InList
         /\ \A t \in InList : period'[t] \in Periods /\ Aged(t)' /\ isRunning'[t]
<1>1. Types /\ ListInv /\ TimeInv
  BY DEF IInv
<1>2. TickMs \in Nat \ {0} /\ MaxSleep \in Nat
  BY Consts
<1>3. timeout \in [Timers -> Nat] /\ age \in [Timers -> Nat] /\ since \in Nat
      /\ remTick \in Nat /\ isRunning \in [Timers -> BOOLEAN] /\ real \in [Timers -> 0 .. MaxSleep]
      /\ period \in [Timers -> Nat]
  BY <1>1, <1>2 DEF Types
<1>4. ASSUME NEW t \in Timers PROVE Elapsed(t, m, n) \in Nat
  <2>1. age[t] + n \in Nat
    BY <1>3
  <2>2. (age[t] + n) \div TickMs \in Nat
    BY <2>1, <1>2, DivMod
  <2> QED BY <2>2 DEF Elapsed
<1>5. timeout' = [t \in Timers |->
        IF t \notin InList THEN timeout[t]
        ELSE IF timeout[t] > Elapsed(t, m, n)
             THEN timeout[t] - Elapsed(t, m, n) ELSE 0]
  BY DEF Update
<1>6. timeout' \in [Timers -> Nat]
  <2>1. \A t \in Timers : timeout[t] > Elapsed(t, m, n) => timeout[t] - Elapsed(t, m, n) \in Nat
    BY <1>3, <1>4
  <2> QED BY <2>1, <1>3, <1>5
<1>7. age' \in [Timers -> Nat]
  BY DEF Update
<1>8. /\ isRunning' \in [Timers -> BOOLEAN]
      /\ \A t \in Timers : isRunning'[t] <=> t \in InList
  BY <1>1, <1>3 DEF Update, ListInv
<1>9. ASSUME NEW t \in InList PROVE period'[t] \in Periods /\ Aged(t)' /\ isRunning'[t]
  <2>1. t \in Timers
    BY <1>1, InListFacts
  <2>2. isRunning'[t] /\ period[t] \in Periods /\ Aged(t)
        /\ (~isRunning[t] => timeout[t] = period[t] /\ age[t] <= since + remTick)
    BY <2>1, <1>1, <1>8 DEF TimeInv
  <2>3. timeout[t] \in Nat /\ period[t] \in Nat /\ age[t] \in Nat /\ real[t] \in Nat
        /\ real'[t] \in Nat
    BY <2>1, <1>2, <1>3
  <2> DEFINE e == Elapsed(t, m, n)
  <2>4. e \in Nat /\ timeout'[t] = IF timeout[t] > e THEN timeout[t] - e ELSE 0
    BY <2>1, <1>4, <1>5
  <2>5. SUFFICES ASSUME real[t] # MaxSleep, real'[t] = real[t] + n PROVE Aged(t)'
    BY <2>2 DEF Aged
  <2>6. CASE isRunning[t]
    <3>1. e = m
      BY <2>6 DEF Elapsed
    <3>2. CASE timeout[t] = 0 /\ period[t] * TickMs <= real[t] + TickMs - 1
      <4>1. timeout'[t] = 0
        BY <3>2, <2>4
      <4>2. period[t] * TickMs <= real'[t] + TickMs - 1
        <5> DEFINE a == period[t] * TickMs
        <5>1. a \in Int /\ a <= real[t] + TickMs - 1
          BY <2>3, <1>2, <3>2
        <5> HIDE DEF a
        <5>2. a <= real'[t] + TickMs - 1
          BY <5>1, <2>3, <2>5, <1>2
        <5> QED BY <5>2 DEF a
      <4> QED BY <4>1, <4>2, <2>2 DEF Aged
    <3>3. CASE (period[t] - timeout[t]) * TickMs + remTick + since <= real[t] + TickMs - 1
      <4> DEFINE p == period[t]
                 to == timeout[t]
                 c == remTick + since
                 R == real[t]
                 r2 == remTick'
      <4>1. p \in Nat /\ to \in Nat /\ c \in Nat /\ R \in Nat /\ r2 \in Nat
        BY <2>3, <1>3, <1>2
      <4>2. m * TickMs + r2 <= c + n
        <5> DEFINE a == m * TickMs
        <5>1. a \in Int /\ a + r2 <= since + remTick + n
          BY <1>2
        <5>2. c = remTick + since /\ remTick \in Nat /\ since \in Nat /\ r2 \in Nat
          BY <4>1, <1>3
        <5> HIDE DEF a, c, r2
        <5>3. a + r2 <= c + n
          BY <5>1, <5>2
        <5> QED BY <5>3 DEF a
      <4>3. (p - to) * TickMs + c <= R + TickMs - 1
        <5> DEFINE a == (period[t] - timeout[t]) * TickMs
        <5>1. a \in Int /\ a + remTick + since <= real[t] + TickMs - 1
          BY <2>3, <1>2, <3>3
        <5> HIDE DEF a
        <5>2. a + c <= R + TickMs - 1
          BY <5>1, <1>3
        <5> QED BY <5>2 DEF a
      <4> HIDE DEF p, to, c, R, r2
      <4>4. /\ to > m => (p - (to - m)) * TickMs + r2 <= R + n + TickMs - 1
            /\ to <= m => p * TickMs <= R + n + TickMs - 1
        BY <4>1, <4>2, <4>3, <1>2, AgeRunning
      <4>5. CASE to > m
        <5>1. timeout'[t] = to - m
          BY <4>5, <3>1, <2>4 DEF to
        <5>2. (period[t] - timeout'[t]) * TickMs + remTick' <= real'[t] + TickMs - 1
          BY <4>4, <4>5, <5>1, <2>5 DEF p, R, r2
        <5> DEFINE a == (period[t] - timeout'[t]) * TickMs
        <5>3. a \in Int
          BY <2>3, <1>2, <5>1, <4>1
        <5> HIDE DEF a
        <5>4. a + remTick' + since' <= real'[t] + TickMs - 1
          BY <5>2, <5>3, <4>1 DEF a, r2
        <5> QED BY <5>4, <2>2 DEF Aged, a
      <4>6. CASE ~(to > m)
        <5>1. timeout'[t] = 0 /\ to <= m
          BY <4>1, <4>6, <3>1, <2>4 DEF to
        <5>2. period[t] * TickMs <= real'[t] + TickMs - 1
          BY <4>4, <5>1, <2>5 DEF p, R
        <5> QED BY <5>1, <5>2, <2>2 DEF Aged
      <4> QED BY <4>5, <4>6
    <3> QED BY <3>2, <3>3, <2>2, <2>5, <2>6 DEF Aged
  <2>7. CASE ~isRunning[t]
    <3> DEFINE p == period[t]
               a == age[t] + n
               R == real'[t]
               r2 == remTick'
    <3>1. p \in Nat /\ a \in Nat /\ R \in Nat /\ r2 \in 0 .. TickMs - 1 /\ timeout[t] = p
      BY <2>2, <2>3, <2>7
    <3>2. a <= R
      BY <2>2, <2>3, <2>5, <2>7 DEF Aged
    <3>3. e = a \div TickMs
      BY <2>7 DEF Elapsed
    <3> HIDE DEF p, a, R, r2
    <3>4. /\ a \div TickMs \in Nat
          /\ p > a \div TickMs => (p - (p - (a \div TickMs))) * TickMs + r2 <= R + TickMs - 1
          /\ p <= a \div TickMs => p * TickMs <= R + TickMs - 1
      BY <3>1, <3>2, <1>2, AgeFirst
    <3> HIDE DEF e
    <3>5. /\ p > e => (p - (p - e)) * TickMs + r2 <= R + TickMs - 1
          /\ p <= e => p * TickMs <= R + TickMs - 1
      BY <3>3, <3>4
    <3>6. CASE p > e
      <4>1. timeout'[t] = p - e
        BY <3>1, <3>6, <2>4
      <4>2. (period[t] - timeout'[t]) * TickMs + remTick' <= real'[t] + TickMs - 1
        BY <3>5, <3>6, <4>1 DEF p, R, r2
      <4> DEFINE b == (period[t] - timeout'[t]) * TickMs
      <4>3. b \in Int
        BY <4>1, <3>1, <2>3, <2>4, <1>2
      <4> HIDE DEF b
      <4>4. b + remTick' + since' <= real'[t] + TickMs - 1
        BY <4>2, <4>3, <3>1 DEF b, r2
      <4> QED BY <4>4, <2>2 DEF Aged, b
    <3>7. CASE ~(p > e)
      <4>1. timeout'[t] = 0 /\ p <= e
        BY <3>1, <3>7, <2>4
      <4>2. period[t] * TickMs <= real'[t] + TickMs - 1
        BY <3>5, <4>1 DEF p, R
      <4> QED BY <4>1, <4>2, <2>2 DEF Aged
    <3> QED BY <3>6, <3>7
  <2> QED BY <2>6, <2>7
<1> QED BY <1>6, <1>7, <1>8, <1>9

LEMMA Shift ==
  ASSUME NEW b \in Int, NEW c \in Int, NEW r \in Nat, NEW s \in Nat,
         NEW r2 \in Nat, NEW s2 \in Nat, r2 + s2 = r + s
  PROVE  b + r + s <= c => b + r2 + s2 <= c
  OBVIOUS

LEMMA ProcessKeeps ==
  ASSUME IInv, Process
  PROVE  IInv'
<1>1. Types /\ ListInv /\ PassInv /\ TimeInv /\ NearInv
  BY DEF IInv
<1> DEFINE ms == MsOf(since, remTick, TickMs)
           r2 == RemOf(since, remTick, TickMs)
<1>2. TickMs \in Nat \ {0} /\ since \in Nat /\ remTick \in 0 .. TickMs - 1 /\ MaxSleep \in Nat
      /\ MaxStep \in Nat
  BY <1>1, Consts DEF Types
<1>3. ms \in Nat /\ r2 \in 0 .. TickMs - 1 /\ ms * TickMs + r2 = since + remTick
  BY <1>2, ProcessMs
<1>4. pc = "idle" /\ since' = 0 /\ remTick' = r2 /\ UNCHANGED <<list, period, used, usedNum, owner, handle, ops, real>>
      /\ IF ms = 0
         THEN UNCHANGED <<timeout, isRunning, age, pc, cur, prevHead, due>>
         ELSE /\ Update(ms, 0)
              /\ pc' = "walk" /\ cur' = head /\ prevHead' = head
              /\ due' = {t \in InList : timeout'[t] = 0}
  BY DEF Process, MsOf, RemOf
<1> HIDE DEF ms, r2
<1>5. head' = head /\ next' = next /\ nearest' = nearest /\ InList' = InList
  BY <1>4 DEF list, InList
<1>6. since' \in 0 .. MaxStep /\ remTick' \in 0 .. TickMs - 1
  BY <1>2, <1>3, <1>4
<1>7. CASE ms = 0
  <2>1. UNCHANGED <<timeout, isRunning, age, pc, cur, prevHead, due>>
    BY <1>4, <1>7
  <2>2. Types' /\ ListInv' /\ PassInv' /\ NearInv'
    BY <1>1, <1>4, <1>5, <1>6, <2>1 DEF Types, ListInv, PassInv, NearInv, NearestWithin
  <2>3. remTick' + since' = remTick + since /\ since' + remTick' = since + remTick
    BY <1>2, <1>3, <1>4, <1>7
  <2>4. ASSUME NEW t \in InList
        PROVE  /\ period'[t] \in Periods /\ Aged(t)'
               /\ ~isRunning'[t] => timeout'[t] = period'[t] /\ age'[t] <= since' + remTick'
    <3>1. /\ period[t] \in Periods /\ Aged(t)
          /\ ~isRunning[t] => timeout[t] = period[t] /\ age[t] <= since + remTick
      BY <1>1 DEF TimeInv
    <3>2. t \in Timers /\ period[t] \in Nat /\ timeout[t] \in Nat /\ real[t] \in Nat
      BY <1>1, <1>2, InListFacts DEF Types
    <3> DEFINE b == (period[t] - timeout[t]) * TickMs
    <3>3. b \in Int
      BY <1>2, <3>2
    <3>4. b + remTick + since <= real[t] + TickMs - 1 => b + remTick' + since' <= real[t] + TickMs - 1
      <4> HIDE DEF b
      <4>1. remTick' \in Nat /\ since' \in Nat /\ remTick \in Nat
        BY <1>2, <1>6
      <4>2. real[t] + TickMs - 1 \in Int /\ since \in Nat
        BY <1>2, <3>2
      <4> QED BY <2>3, <3>3, <4>1, <4>2, Shift
    <3>5. Aged(t)'
      BY <3>1, <3>4, <2>1, <1>4 DEF Aged
    <3>6. age[t] <= since + remTick => age[t] <= since' + remTick'
      BY <2>3
    <3> QED BY <3>1, <3>5, <3>6, <2>1, <1>4
  <2>5. TimeInv'
    BY <2>1, <2>4, <1>4, <1>5 DEF TimeInv
  <2> QED BY <2>2, <2>5 DEF IInv
<1>8. CASE ms # 0
  <2>1. Update(ms, 0) /\ pc' = "walk" /\ cur' = head /\ prevHead' = head
        /\ due' = {t \in InList : timeout'[t] = 0}
    BY <1>4, <1>8
  <2>2. real' \in [Timers -> 0 .. MaxSleep] /\ period' = period
    BY <1>1, <1>4 DEF Types
  <2>3. \A t \in InList : real'[t] = MaxSleep \/ (real[t] # MaxSleep /\ real'[t] = real[t] + 0)
    <3>1. \A t \in InList : real[t] \in 0 .. MaxSleep
      BY <1>1, InListFacts DEF Types
    <3> QED BY <3>1, <1>4, <1>2
  <2>4. ms * TickMs + remTick' <= since + remTick + 0
    BY <1>2, <1>3, <1>4
  <2>5. /\ timeout' \in [Timers -> Nat] /\ age' \in [Timers -> Nat]
        /\ isRunning' \in [Timers -> BOOLEAN]
        /\ \A t \in Timers : isRunning'[t] => t \in InList
        /\ \A t \in InList : period'[t] \in Periods /\ Aged(t)' /\ isRunning'[t]
    <3>1. UNCHANGED <<head, next>> /\ 0 \in Nat
      BY <1>5
    <3> QED BY <1>3, <1>4, <1>6, <2>1, <2>2, <2>3, <2>4, <3>1, UpdateStep
  <2>6. Types'
    BY <1>1, <1>4, <1>5, <1>6, <2>1, <2>2, <2>5 DEF Types
  <2>7. ListInv'
    BY <1>1, <1>4, <1>5, <2>5 DEF ListInv
  <2>8. PassInv'
    <3>1. head = Nil \/ head \in InList
      BY <1>1, InListFacts
    <3>2. due' \subseteq Walk(cur', next') /\ \A t \in due' : timeout'[t] = 0
      BY <2>1, <1>5 DEF InList
    <3> QED BY <3>1, <3>2, <2>1, <1>5 DEF PassInv
  <2>9. TimeInv'
    BY <2>5, <1>4, <1>5 DEF TimeInv
  <2>10. NearInv'
    BY <2>1 DEF NearInv
  <2> QED BY <2>6, <2>7, <2>8, <2>9, <2>10 DEF IInv
<1> QED BY <1>7, <1>8

\* Two timers after a sleep, the first of them timer_nearest: aged alike they do
\* not drift apart; x more for the second is what it can gain.
LEMMA Drift ==
  ASSUME NEW a \in Nat, NEW b \in Nat, NEW d \in Nat, NEW e \in Nat, NEW x \in Nat,
         NEW k \in Nat, a <= b + k, e <= d + x
  PROVE  (IF a > d THEN a - d ELSE 0) <= (IF b > e THEN b - e ELSE 0) + (k + x)
  OBVIOUS

LEMMA SleepKeeps ==
  ASSUME IInv, NEW n \in 1 .. MaxSleep, Sleep(n)
  PROVE  IInv'
<1>1. Types /\ ListInv /\ PassInv /\ TimeInv /\ NearInv
  BY DEF IInv
<1>2. TickMs \in Nat \ {0} /\ since \in 0 .. MaxStep /\ remTick \in 0 .. TickMs - 1 /\ n \in Nat
      /\ MaxSleep \in Nat /\ MaxStep \in Nat
  BY <1>1, Consts DEF Types
<1>3. /\ pc = "idle" /\ nearest # Nil /\ Wake(n)
      /\ real' = [t \in Timers |-> RealPlus(t, n)]
      /\ UNCHANGED <<list, period, used, usedNum, owner, handle, remTick, pc, cur, prevHead, ops, due>>
  BY DEF Sleep
<1>4. CASE n \div TickMs = 0
  <2>1. /\ since + n <= MaxStep /\ since' = since + n
        /\ age' = [t \in Timers |-> IF isRunning[t] \/ t \notin InList THEN 0 ELSE age[t] + n]
        /\ UNCHANGED <<timeout, isRunning>>
    BY <1>3, <1>4 DEF Wake
  <2>2. UNCHANGED <<list, tmr, remTick, pc, cur, prevHead, due>>
    BY <1>3, <2>1 DEF tmr
  <2> QED BY <1>2, <1>3, <2>1, <2>2, LaterKeeps
<1>5. CASE n \div TickMs # 0
  <2> DEFINE m == n \div TickMs
  <2>1. Update(m, n) /\ since' = 0
    BY <1>3, <1>5 DEF Wake
  <2>2. m \in Nat /\ m * TickMs <= n
    BY <1>2, DivBounds
  <2> HIDE DEF m
  <2>3. m * TickMs + remTick' <= since + remTick + n
    <3>1. m * TickMs \in Int /\ remTick' = remTick
      BY <2>2, <1>2, <1>3
    <3> QED BY <3>1, <2>2, <1>2
  <2>4. real' \in [Timers -> 0 .. MaxSleep]
    BY <1>1, <1>2, <1>3, RealPlusFacts
  <2>5. \A t \in InList : real'[t] = MaxSleep \/ (real[t] # MaxSleep /\ real'[t] = real[t] + n)
    <3>1. \A t \in InList : t \in Timers
      BY <1>1, InListFacts
    <3> QED BY <3>1, <1>1, <1>2, <1>3, RealPlusFacts
  <2>6. head' = head /\ next' = next /\ nearest' = nearest /\ InList' = InList
        /\ period' = period
    BY <1>3 DEF list, InList
  <2>7. remTick' \in 0 .. TickMs - 1 /\ since' \in 0 .. MaxStep
    BY <1>2, <1>3, <2>1
  <2>8. /\ timeout' \in [Timers -> Nat] /\ age' \in [Timers -> Nat]
        /\ isRunning' \in [Timers -> BOOLEAN]
        /\ \A t \in Timers : isRunning'[t] => t \in InList
        /\ \A t \in InList : period'[t] \in Periods /\ Aged(t)' /\ isRunning'[t]
    <3>1. UNCHANGED <<head, next>>
      BY <2>6
    <3> QED BY <1>2, <1>3, <2>1, <2>2, <2>3, <2>4, <2>5, <2>6, <2>7, <3>1, UpdateStep
  <2>9. Types'
    BY <1>1, <1>3, <2>4, <2>6, <2>7, <2>8 DEF Types
  <2>10. ListInv'
    BY <1>1, <1>3, <2>6, <2>8 DEF ListInv
  <2>11. PassInv'
    BY <1>1, <1>3 DEF PassInv
  <2>12. TimeInv'
    BY <2>6, <2>8, <1>3 DEF TimeInv
  <2>13. NearestWithin(Slack)'
    <3>1. CASE head = Nil
      BY <3>1, <1>1, <1>3, <2>6 DEF NearInv, NearestWithin
    <3>2. CASE head # Nil
      <4>1. nearest \in InList /\ \A t \in InList : timeout[nearest] <= timeout[t] + Slack
        BY <3>2, <1>1, <1>3 DEF NearInv, NearestWithin
      <4>2. (\E t \in InList : ~isRunning[t]) =>
              \A t \in InList : timeout[nearest] <= timeout[t] + 0
        BY <3>2, <1>1, <1>3 DEF NearInv, NearestWithin
      <4>3. \A t \in InList : t \in Timers
        BY <1>1, InListFacts
      <4>4. \A t \in Timers : timeout[t] \in Nat /\ age[t] \in Nat
        BY <1>1 DEF Types
      <4> DEFINE E(t) == Elapsed(t, m, n)
      <4>5. \A t \in InList : timeout'[t] = IF timeout[t] > E(t) THEN timeout[t] - E(t) ELSE 0
        BY <4>3, <2>1 DEF Update
      <4>6. ASSUME NEW t \in InList
            PROVE  /\ E(t) \in Nat /\ m <= E(t) /\ (isRunning[t] => E(t) = m)
                   /\ E(t) <= m + Slack
        <5>1. CASE isRunning[t]
          BY <5>1, <2>2, SlackNat DEF Elapsed
        <5>2. CASE ~isRunning[t]
          <6>1. E(t) = (age[t] + n) \div TickMs
            BY <5>2 DEF Elapsed
          <6>2. age[t] \in Nat /\ age[t] <= since + remTick
            BY <5>2, <4>3, <4>4, <1>1 DEF TimeInv
          <6> DEFINE b == MaxStep + (TickMs - 1)
          <6>3. b \in Nat /\ age[t] <= b
            BY <6>2, <1>2
          <6>4. b + (TickMs - 1) = MaxStep + 2 * (TickMs - 1)
            BY <1>2
          <6> HIDE DEF b, E
          <6>5. (age[t] + n) \div TickMs <= (n \div TickMs) + (b + (TickMs - 1)) \div TickMs
            BY <6>2, <6>3, <1>2, SleepSkew
          <6>6. E(t) <= m + Slack
            BY <6>1, <6>4, <6>5 DEF Slack, m
          <6>7. E(t) \in Nat /\ m <= E(t)
            <7>1. age[t] + n \in Nat
              BY <6>2, <1>2
            <7>2. E(t) \in Nat /\ age[t] + n <= E(t) * TickMs + (TickMs - 1)
              BY <7>1, <6>1, <1>2, DivBounds
            <7>3. (E(t) + 1) * TickMs = E(t) * TickMs + TickMs /\ m * TickMs \in Int
                  /\ E(t) * TickMs \in Int
              BY <7>2, <1>2, <2>2
            <7>4. m * TickMs < (E(t) + 1) * TickMs
              BY <7>2, <7>3, <2>2, <6>2, <1>2
            <7> QED BY <7>2, <7>4, <2>2, <1>2, MulLess
          <6> QED BY <5>2, <6>6, <6>7
        <5> QED BY <5>1, <5>2
      <4> HIDE DEF E
      <4>7. ASSUME NEW t \in InList
            PROVE  timeout'[nearest] <= timeout'[t] + Slack
        <5> DEFINE a == timeout[nearest]
                   b == timeout[t]
                   d == E(nearest)
                   e == E(t)
        <5>1. a \in Nat /\ b \in Nat /\ d \in Nat /\ e \in Nat /\ Slack \in Nat
          BY <4>1, <4>3, <4>4, <4>6, SlackNat
        <5>2. timeout'[nearest] = (IF a > d THEN a - d ELSE 0)
              /\ timeout'[t] = (IF b > e THEN b - e ELSE 0)
          BY <4>1, <4>5
        <5>3. \/ a <= b + 0 /\ e <= d + Slack
              \/ a <= b + Slack /\ e <= d + 0
          <6>1. CASE \E u \in InList : ~isRunning[u]
            <7>1. a <= b + 0
              BY <6>1, <4>2
            <7>2. m <= d /\ e <= m + Slack
              BY <4>1, <4>6
            <7> QED BY <7>1, <7>2, <5>1, <2>2
          <6>2. CASE ~ \E u \in InList : ~isRunning[u]
            <7>1. d = m /\ e = m /\ a <= b + Slack
              BY <6>2, <4>1, <4>6
            <7> QED BY <7>1, <2>2
          <6> QED BY <6>1, <6>2
        <5> HIDE DEF a, b, d, e
        <5>4. (IF a > d THEN a - d ELSE 0) <= (IF b > e THEN b - e ELSE 0) + Slack
          <6>1. CASE a <= b + 0 /\ e <= d + Slack
            <7>1. (IF a > d THEN a - d ELSE 0) <= (IF b > e THEN b - e ELSE 0) + (0 + Slack)
              BY <5>1, <6>1, Drift
            <7> QED BY <7>1, <5>1
          <6>2. CASE a <= b + Slack /\ e <= d + 0
            <7>1. (IF a > d THEN a - d ELSE 0) <= (IF b > e THEN b - e ELSE 0) + (Slack + 0)
              BY <5>1, <6>2, Drift
            <7> QED BY <7>1, <5>1
          <6> QED BY <5>3, <6>1, <6>2
        <5> QED BY <5>2, <5>4
      <4> QED BY <3>2, <4>1, <4>7, <2>6 DEF NearestWithin
    <3> QED BY <3>1, <3>2
  <2>14. NearInv'
    BY <2>6, <2>8, <2>13 DEF NearInv
  <2> QED BY <2>9, <2>10, <2>11, <2>12, <2>14 DEF IInv
<1> QED BY <1>4, <1>5

---------------------------------------------------------------------------
(* The pass of ev_timer_executeCB *)

LEMMA WalkOnKeeps ==
  ASSUME IInv, WalkOn
  PROVE  IInv'
<1>1. Types /\ ListInv /\ PassInv /\ TimeInv
  BY DEF IInv
<1>2. /\ pc = "walk" /\ cur # Nil /\ timeout[cur] > 0 /\ cur' = next[cur]
      /\ UNCHANGED <<list, tmr, clock, age, pc, prevHead, ops, real, due>>
  BY DEF WalkOn
<1>3. /\ head' = head /\ next' = next /\ nearest' = nearest /\ timeout' = timeout
      /\ period' = period /\ isRunning' = isRunning /\ used' = used /\ usedNum' = usedNum
      /\ owner' = owner /\ handle' = handle /\ since' = since /\ remTick' = remTick
      /\ InList' = InList
  BY <1>2 DEF list, tmr, clock, InList
<1>4. cur \in InList /\ prevHead = head /\ due \subseteq Walk(cur, next)
      /\ \A t \in due : timeout[t] = 0
  BY <1>1, <1>2 DEF PassInv
<1>5. /\ next[cur] \in Ptr /\ (next[cur] = Nil \/ next[cur] \in InList)
      /\ Walk(cur, next) = {cur} \cup Walk(next[cur], next)
  BY <1>1, <1>4, InListFacts
<1>6. cur \notin due
  BY <1>2, <1>4
<1>7. Types'
  BY <1>1, <1>2, <1>3, <1>5 DEF Types
<1>8. ListInv'
  BY <1>1, <1>3 DEF ListInv
<1>9. PassInv'
  BY <1>2, <1>3, <1>4, <1>5, <1>6 DEF PassInv
<1>10. TimeInv'
  BY <1>1, <1>2, <1>3 DEF TimeInv, Aged
<1>11. NearInv'
  BY <1>2 DEF NearInv
<1> QED BY <1>7, <1>8, <1>9, <1>10, <1>11 DEF IInv

LEMMA CallKeeps ==
  ASSUME IInv, Call
  PROVE  IInv'
<1>1. Types /\ ListInv /\ PassInv /\ TimeInv
  BY DEF IInv
<1>2. /\ pc = "walk" /\ cur # Nil /\ timeout[cur] = 0 /\ pc' = "cb" /\ due' = due \ {cur}
      /\ UNCHANGED <<list, tmr, clock, age, cur, prevHead, real>>
  BY DEF Call
<1>3. /\ head' = head /\ next' = next /\ nearest' = nearest /\ timeout' = timeout
      /\ period' = period /\ isRunning' = isRunning /\ used' = used /\ usedNum' = usedNum
      /\ owner' = owner /\ handle' = handle /\ since' = since /\ remTick' = remTick
      /\ InList' = InList
  BY <1>2 DEF list, tmr, clock, InList
<1>4. cur \in InList /\ due \subseteq Walk(cur, next) /\ \A t \in due : timeout[t] = 0
  BY <1>1, <1>2 DEF PassInv
<1>5. Walk(cur, next) = {cur} \cup Walk(next[cur], next)
  BY <1>1, <1>4, InListFacts
<1>6. Types'
  BY <1>1, <1>2, <1>3 DEF Types
<1>7. ListInv'
  BY <1>1, <1>3 DEF ListInv
<1>8. PassInv'
  BY <1>2, <1>3, <1>4, <1>5 DEF PassInv
<1>9. TimeInv'
  BY <1>1, <1>2, <1>3 DEF TimeInv, Aged
<1>10. NearInv'
  BY <1>2 DEF NearInv
<1> QED BY <1>6, <1>7, <1>8, <1>9, <1>10 DEF IInv

LEMMA CbAgainKeeps ==
  ASSUME IInv, NEW ms \in Periods, CbAgain(ms)
  PROVE  IInv'
<1>1. Types /\ ListInv /\ PassInv /\ TimeInv
  BY DEF IInv
<1>2. /\ pc = "cb" /\ pc' = "walk" /\ Advance
      /\ UNCHANGED list /\ UNCHANGED <<isRunning, used, usedNum, owner, handle, clock, age, due>>
      /\ period' = [period EXCEPT ![cur] = ms]
      /\ timeout' = [timeout EXCEPT ![cur] = ms]
      /\ real' = [real EXCEPT ![cur] = Capped(since)]
  BY DEF CbAgain
<1>3. /\ head' = head /\ next' = next /\ nearest' = nearest /\ since' = since
      /\ remTick' = remTick /\ InList' = InList
  BY <1>2 DEF list, clock, InList
<1>4. cur \in InList /\ timeout[cur] = 0 /\ due \subseteq Walk(next[cur], next)
      /\ \A t \in due : timeout[t] = 0
  BY <1>1, <1>2 DEF PassInv
<1>5. /\ cur \in Timers /\ next[cur] \in Ptr /\ (next[cur] = Nil \/ next[cur] \in InList)
      /\ Walk(next[cur], next) \subseteq InList
  BY <1>1, <1>4, InListFacts
<1>6. cur \notin Walk(next[cur], next)
  BY <1>1, <1>4 DEF ListInv, Acyclic, InList
<1>7. (cur' = head \/ cur' = next[cur]) /\ prevHead' = head
  BY <1>2, <1>3 DEF Advance
<1>8. /\ ms \in Nat /\ since \in Nat /\ Capped(since) \in 0 .. MaxSleep
      /\ Capped(since) = MaxSleep \/ Capped(since) = since
  BY <1>1, Consts DEF Types, Capped
<1>9. /\ timeout' \in [Timers -> Nat] /\ period' \in [Timers -> Nat]
      /\ real' \in [Timers -> 0 .. MaxSleep]
      /\ timeout'[cur] = ms /\ period'[cur] = ms /\ real'[cur] = Capped(since)
      /\ \A t \in Timers : t # cur => /\ timeout'[t] = timeout[t] /\ period'[t] = period[t]
                                      /\ real'[t] = real[t]
  BY <1>1, <1>2, <1>5, <1>8 DEF Types
<1>10. Types'
  <2>1. cur' \in Ptr
    BY <1>1, <1>5, <1>7 DEF Types
  <2> QED BY <1>1, <1>2, <1>3, <1>9, <2>1 DEF Types
<1>11. ListInv'
  BY <1>1, <1>2, <1>3 DEF ListInv
<1>12. PassInv'
  <2>1. cur' = Nil \/ cur' \in InList
    BY <1>1, <1>5, <1>7, InListFacts
  <2>2. due \subseteq Walk(cur', next)
    BY <1>4, <1>5, <1>7 DEF InList
  <2>3. \A t \in due : timeout'[t] = 0
    <3>1. \A t \in due : t \in InList /\ t # cur
      BY <1>4, <1>5, <1>6
    <3>2. \A t \in due : t \in Timers
      BY <1>1, <3>1, InListFacts
    <3> QED BY <1>4, <1>9, <3>1, <3>2
  <2> QED BY <1>2, <1>3, <1>7, <2>1, <2>2, <2>3 DEF PassInv
<1>13. ASSUME NEW t \in InList
       PROVE  /\ period'[t] \in Periods /\ Aged(t)'
              /\ ~isRunning'[t] => timeout'[t] = period'[t] /\ age'[t] <= since' + remTick'
  <2>1. /\ period[t] \in Periods /\ Aged(t) /\ t \in Timers
        /\ ~isRunning[t] => timeout[t] = period[t] /\ age[t] <= since + remTick
    BY <1>1, InListFacts DEF TimeInv
  <2>2. CASE t = cur
    <3>1. isRunning[t]
      <4>1. ~isRunning[t] => timeout[t] # 0
        BY <2>1, Consts
      <4> QED BY <2>2, <1>4, <4>1
    <3>2. remTick \in 0 .. TickMs - 1 /\ TickMs \in Nat \ {0}
      BY <1>1, <1>2, Consts DEF Types
    <3>3. (period'[t] - timeout'[t]) * TickMs = 0 /\ real'[t] = Capped(since)
      BY <2>2, <1>8, <1>9, <3>2
    <3>4. Capped(since) = since => 0 + remTick' + since' <= real'[t] + TickMs - 1
      BY <3>2, <3>3, <1>3, <1>8
    <3>5. \/ real'[t] = MaxSleep
          \/ (period'[t] - timeout'[t]) * TickMs + remTick' + since' <= real'[t] + TickMs - 1
      BY <3>3, <3>4, <1>8
    <3>6. isRunning'[t] /\ period'[t] \in Periods
      BY <2>2, <3>1, <1>2, <1>9
    <3> QED BY <3>5, <3>6 DEF Aged
  <2>3. CASE t # cur
    <3>1. timeout'[t] = timeout[t] /\ period'[t] = period[t] /\ real'[t] = real[t]
          /\ isRunning' = isRunning /\ age' = age
      BY <2>1, <2>3, <1>2, <1>9
    <3> QED BY <2>1, <3>1, <1>3 DEF Aged
  <2> QED BY <2>2, <2>3
<1>14. TimeInv'
  BY <1>1, <1>2, <1>3, <1>13 DEF TimeInv
<1>15. NearInv'
  BY <1>2 DEF NearInv
<1> QED BY <1>10, <1>11, <1>12, <1>14, <1>15 DEF IInv

LEMMA CbStopKeeps ==
  ASSUME IInv, CbStop
  PROVE  IInv'
<1>1. Types /\ ListInv /\ PassInv /\ TimeInv
  BY DEF IInv
<1>2. /\ pc = "cb" /\ pc' = "walk" /\ Unon(cur) /\ Advance
      /\ handle' = [c \in Clients |-> IF handle[c] = cur /\ owner[cur] = c /\ c \notin Careless
                                      THEN Nil ELSE handle[c]]
      /\ UNCHANGED <<timeout, period, owner, clock, age, real>>
  BY DEF CbStop
<1>3. cur \in InList /\ due \subseteq Walk(next[cur], next)
      /\ \A t \in due : timeout[t] = 0
  BY <1>1, <1>2 DEF PassInv
<1>4. /\ cur \in Timers /\ next[cur] \in Ptr /\ (next[cur] = Nil \/ next[cur] \in InList)
      /\ Walk(next[cur], next) \subseteq InList /\ InList \subseteq Timers
  BY <1>1, <1>3, InListFacts
<1>5. next[cur] # cur
  BY <1>1, <1>3, NoSelfNext DEF ListInv, InList, Types
<1>6. timeout' = timeout
  BY <1>2
<1>7. /\ head' \in Ptr /\ next' \in Nexts /\ nearest' \in Ptr
      /\ isRunning' \in [Timers -> BOOLEAN] /\ used' \in [Timers -> BOOLEAN]
      /\ usedNum' \in Nat /\ ListInv' /\ InList' = InList \ {cur}
      /\ \A x \in InList : Walk(next'[x], next') = Walk(next[x], next) \ {cur}
      /\ \A x \in Timers \ {cur} : isRunning'[x] = isRunning[x] /\ used'[x] = used[x]
      /\ cur \in Slots => ~used'[cur]
      /\ next'[cur] = next[cur] /\ due' = due \ {cur}
      /\ NearestWithin(0)'
  BY <1>1, <1>2, <1>3, <1>6, UnonStep
<1>8. (cur' = head' \/ cur' = next[cur]) /\ prevHead' = head'
  BY <1>2, <1>7 DEF Advance
<1>9. handle' \in [Clients -> Slots \cup {Nil}]
  BY <1>1, <1>2 DEF Types
<1>10. Types'
  <2>1. cur' \in Ptr
    BY <1>4, <1>7, <1>8
  <2> QED BY <1>1, <1>2, <1>7, <1>9, <2>1 DEF Types, clock
<1>11. PassInv'
  <2>1. cur' = Nil \/ cur' \in InList'
    <3>1. head' = Nil \/ head' \in Walk(head', next')
      BY <1>7, WalkTimers
    <3>2. next[cur] = Nil \/ next[cur] \in InList'
      BY <1>4, <1>5, <1>7
    <3> QED BY <1>8, <3>1, <3>2 DEF InList
  <2>2. due' \subseteq Walk(cur', next')
    <3>1. CASE cur' = head'
      <4>1. due' \subseteq InList'
        BY <1>3, <1>4, <1>7
      <4> QED BY <3>1, <4>1 DEF InList
    <3>2. CASE cur' = next[cur]
      <4>1. Walk(next'[cur], next') = Walk(next[cur], next) \ {cur}
        BY <1>3, <1>7
      <4>2. Walk(cur', next') = Walk(next[cur], next) \ {cur}
        BY <4>1, <3>2, <1>7
      <4> QED BY <4>2, <1>3, <1>7
    <3> QED BY <1>8, <3>1, <3>2
  <2>3. \A t \in due' : timeout'[t] = 0
    BY <1>3, <1>6, <1>7
  <2> QED BY <1>2, <1>8, <2>1, <2>2, <2>3 DEF PassInv
<1>12. ASSUME NEW t \in InList'
       PROVE  /\ period'[t] \in Periods /\ Aged(t)'
              /\ ~isRunning'[t] => timeout'[t] = period'[t] /\ age'[t] <= since' + remTick'
  <2>1. t \in InList /\ t \in Timers \ {cur}
    BY <1>4, <1>7
  <2>2. /\ period[t] \in Periods /\ Aged(t)
        /\ ~isRunning[t] => timeout[t] = period[t] /\ age[t] <= since + remTick
    BY <2>1, <1>1 DEF TimeInv
  <2>3. /\ isRunning'[t] = isRunning[t] /\ since' = since /\ remTick' = remTick
        /\ timeout' = timeout /\ period' = period /\ age' = age /\ real' = real
    BY <2>1, <1>2, <1>7 DEF clock
  <2>4. Aged(t)'
    BY <2>2, <2>3 DEF Aged
  <2> QED BY <2>2, <2>3, <2>4
<1>13. TimeInv'
  BY <1>1, <1>2, <1>12 DEF TimeInv, clock
<1>14. NearInv'
  BY <1>2 DEF NearInv
<1> QED BY <1>7, <1>10, <1>11, <1>13, <1>14 DEF IInv

LEMMA PassDoneStep ==
  ASSUME IInv, PassDone
  PROVE  IInv' /\ NearestWithin(0)'
<1>1. Types /\ ListInv /\ PassInv /\ TimeInv
  BY DEF IInv
<1>2. /\ pc = "walk" /\ cur = Nil /\ pc' = "idle"
      /\ nearest' = Nearest(head, next, timeout)
      /\ UNCHANGED <<head, next, tmr, clock, age, cur, ops, real, due>>
  BY DEF PassDone
<1>3. /\ head' = head /\ next' = next /\ timeout' = timeout
      /\ period' = period /\ isRunning' = isRunning /\ used' = used /\ usedNum' = usedNum
      /\ owner' = owner /\ handle' = handle /\ since' = since /\ remTick' = remTick
      /\ InList' = InList
  BY <1>2 DEF tmr, clock, InList
<1>4. head \in Ptr /\ next \in Nexts /\ Acyclic(head, next) /\ timeout \in [Timers -> Nat]
  BY <1>1 DEF Types, ListInv
<1>5. /\ nearest' \in Ptr
      /\ IF head = Nil THEN nearest' = Nil
         ELSE /\ nearest' \in Walk(head, next)
              /\ \A t \in Walk(head, next) : timeout[nearest'] <= timeout[t] + 0
  BY <1>2, <1>4, NearestOk
<1>6. due = {}
  <2>1. due \subseteq Walk(Nil, next)
    BY <1>1, <1>2 DEF PassInv
  <2> QED BY <2>1, <1>4, WalkNil
<1>7. Types'
  BY <1>1, <1>2, <1>3, <1>5 DEF Types
<1>8. ListInv'
  BY <1>1, <1>3 DEF ListInv
<1>9. PassInv'
  BY <1>2, <1>6 DEF PassInv
<1>10. TimeInv'
  BY <1>1, <1>2, <1>3 DEF TimeInv, Aged
<1>11. NearestWithin(0)'
  BY <1>3, <1>5 DEF NearestWithin, InList
<1>12. NearestWithin(Slack)'
  <2>1. \A t \in InList : timeout[t] \in Nat
    BY <1>1, <1>4, InListFacts
  <2>2. \A t \in InList : nearest' \in InList /\ timeout[nearest'] <= timeout[t] + 0
                            => timeout[nearest'] <= timeout[t] + Slack
    BY <2>1, SlackNat
  <2> QED BY <2>2, <1>3, <1>11 DEF NearestWithin
<1>13. NearInv'
  BY <1>11, <1>12 DEF NearInv
<1> QED BY <1>7, <1>8, <1>9, <1>10, <1>11, <1>13 DEF IInv

LEMMA InitIInv == Init => IInv
<1> SUFFICES ASSUME Init PROVE IInv
  OBVIOUS
<1>1. Types
  BY Consts DEF Init, Types, Ptr, Nexts
<1>2. InList = {}
  BY <1>1, InListFacts DEF Init
<1>3. \A t \in Timers : ~used[t] /\ ~isRunning[t]
  BY DEF Init
<1>4. ListInv
  <2>1. {t \in Slots : used[t]} = {}
    BY <1>3, Consts
  <2>2. usedNum = Cardinality({t \in Slots : used[t]})
    BY <2>1, FS_EmptySet DEF Init
  <2>3. Acyclic(head, next)
    BY <1>2 DEF Acyclic, InList
  <2> QED BY <1>2, <1>3, <2>2, <2>3, Consts DEF ListInv
<1>5. PassInv
  BY DEF Init, PassInv
<1>6. TimeInv
  BY <1>2 DEF Init, TimeInv
<1>7. NearInv
  BY <1>2 DEF Init, NearInv, NearestWithin
<1> QED BY <1>1, <1>4, <1>5, <1>6, <1>7 DEF IInv

LEMMA NextKeeps == IInv /\ [Next]_vars => IInv'
<1> SUFFICES ASSUME IInv, [Next]_vars PROVE IInv'
  OBVIOUS
<1>1. ASSUME NEW t \in Statics, NEW ms \in Periods, OnTimer(t, ms) PROVE IInv'
  BY <1>1, OnTimerKeeps
<1>2. ASSUME NEW t \in Statics, UnonTimer(t) PROVE IInv'
  BY <1>2, UnonTimerKeeps
<1>3. ASSUME NEW c \in Clients, NEW ms \in Periods, Post(c, ms) PROVE IInv'
  BY <1>3, PostKeeps
<1>4. ASSUME NEW c \in Clients, Cancel(c) PROVE IInv'
  BY <1>4, CancelKeeps
<1>5. ASSUME NEW n \in 1 .. MaxStep, Tick(n) PROVE IInv'
  BY <1>5, TickKeeps
<1>6. ASSUME NEW n \in 1 .. MaxSleep, Sleep(n) PROVE IInv'
  BY <1>6, SleepKeeps
<1>7. ASSUME NEW ms \in Periods, CbAgain(ms) PROVE IInv'
  BY <1>7, CbAgainKeeps
<1>8. CASE UNCHANGED vars
  <2>1. /\ head' = head /\ next' = next /\ nearest' = nearest /\ timeout' = timeout
        /\ period' = period /\ isRunning' = isRunning /\ used' = used /\ usedNum' = usedNum
        /\ owner' = owner /\ handle' = handle /\ since' = since /\ remTick' = remTick
        /\ age' = age /\ pc' = pc /\ cur' = cur /\ prevHead' = prevHead /\ real' = real
        /\ due' = due
    BY <1>8 DEF vars, list, tmr, clock
  <2>2. InList' = InList
    BY <2>1 DEF InList
  <2> QED BY <2>1, <2>2 DEF IInv, Types, ListInv, PassInv, TimeInv, Aged, NearInv, NearestWithin
<1> QED
  BY <1>1, <1>2, <1>3, <1>4, <1>5, <1>6, <1>7, <1>8, ProcessKeeps, WalkOnKeeps,
     CallKeeps, CbStopKeeps, PassDoneStep DEF Next

LEMMA Inductive == Spec => []IInv
  BY InitIInv, NextKeeps, PTL DEF Spec

---------------------------------------------------------------------------
(* The theorems *)

\* Every variable has its type; in particular used_num, which decides whether a
\* post looks for a slot, never exceeds the size of the pool, and timer_nearest
\* is always a timer or NULL.
THEOREM TypesCorrect == Spec => []TypeOK
<1>1. ASSUME IInv PROVE TypeOK
  <2>1. Types /\ ListInv
    BY <1>1 DEF IInv
  <2> DEFINE U == {t \in Slots : used[t]}
  <2>2. U \in SUBSET Slots /\ usedNum = Cardinality(U)
    BY <2>1 DEF ListInv
  <2>3. Cardinality(U) <= Cardinality(Slots)
    <3> HIDE DEF U
    <3> QED BY <2>2, Consts, FS_Subset
  <2>4. Cardinality(Slots) \in Nat
    BY Consts, FS_CardinalityType
  <2>5. usedNum \in 0 .. Cardinality(Slots)
    <3> HIDE DEF U
    <3>1. usedNum \in Nat /\ usedNum <= Cardinality(Slots)
      BY <2>1, <2>2, <2>3 DEF Types
    <3> QED BY <3>1, <2>4
  <2>6. due \subseteq Timers
    BY <1>1, <2>1, DueInList, InListFacts
  <2> QED BY <2>1, <2>5, <2>6 DEF TypeOK, Types, Ptr, Nexts
<1> QED BY <1>1, Inductive, PTL

\* The list and the pool agree through every nesting of callbacks, whatever
\* they post and cancel: ev_timer_poolDelUpdate frees exactly the slots that
\* left the list, used_num counts the used ones, and the list has an end.
THEOREM PoolCorrect == Spec => []PoolSound
<1>1. ASSUME IInv PROVE PoolSound
  BY <1>1 DEF IInv, ListInv, PoolSound, Acyclic, InList
<1> QED BY <1>1, Inductive, PTL

\* ev_timer_executeCB calls no timer that was cancelled, although it follows
\* pointers that the callbacks change.
THEOREM CancelledCorrect == Spec => []NothingCancelledFires
<1>1. ASSUME IInv PROVE NothingCancelledFires
  BY <1>1 DEF IInv, PassInv, NothingCancelledFires
<1> QED BY <1>1, Inductive, PTL

\* When a pass of ev_timer_executeCB ends, every timer that had expired when it
\* began was called or cancelled.
THEOREM ServedCorrect == Spec => []NoneSkipped
<1>1. ASSUME IInv PROVE NoneSkipped
  <2>1. SUFFICES ASSUME pc = "walk", cur = Nil PROVE due = {}
    BY DEF NoneSkipped
  <2>2. due \subseteq Walk(Nil, next) /\ next \in Nexts
    BY <1>1, <2>1 DEF IInv, PassInv, Types
  <2> QED BY <2>2, WalkNil
<1> QED BY <1>1, Inductive, PTL

\* No timer fires a millisecond or more before its period is over, counted from its
\* registration or, when its callback armed it again, from the clock reading of
\* that pass: however long callbacks take and however the main loop, short and
\* long sleeps and the carried over ticks of ev_timer_process interleave.
THEOREM NotEarlyCorrect == Spec => []NotEarly
<1>1. ASSUME IInv PROVE NotEarly
  <2>1. SUFFICES ASSUME pc = "walk", NEW t \in due
                 PROVE  real[t] > (period[t] - 1) * TickMs
    BY DEF NotEarly
  <2>2. t \in InList /\ timeout[t] = 0 /\ Types /\ TimeInv
    BY <1>1, DueInList DEF IInv, PassInv
  <2>3. /\ t \in Timers /\ period[t] \in Periods /\ Aged(t)
        /\ ~isRunning[t] => timeout[t] = period[t]
    BY <2>2, InListFacts DEF TimeInv
  <2> DEFINE p == period[t]
  <2>4. p \in Nat \ {0} /\ TickMs \in Nat \ {0} /\ MaxSleep \in Nat /\ real[t] \in Nat
        /\ remTick \in Nat /\ since \in Nat /\ MaxSleep >= p * TickMs
    BY <2>2, <2>3, Consts, TimerAssumption DEF Types
  <2>5. isRunning[t]
    BY <2>2, <2>3, <2>4
  <2>6. p * TickMs <= real[t] + TickMs - 1
    <3>1. CASE real[t] = MaxSleep
      <4> DEFINE a == p * TickMs
      <4>1. a \in Int /\ MaxSleep >= a
        BY <2>4
      <4> HIDE DEF a
      <4>2. a <= real[t] + TickMs - 1
        BY <3>1, <4>1, <2>4
      <4> QED BY <4>2 DEF a
    <3>2. CASE (period[t] - timeout[t]) * TickMs + remTick + since <= real[t] + TickMs - 1
      <4> DEFINE a == p * TickMs
      <4>1. a \in Int /\ a + remTick + since <= real[t] + TickMs - 1
        BY <3>2, <2>2, <2>4
      <4> HIDE DEF a
      <4>2. a <= real[t] + TickMs - 1
        BY <4>1, <2>4
      <4> QED BY <4>2 DEF a
    <3> QED BY <2>3, <2>5, <3>1, <3>2 DEF Aged
  <2> HIDE DEF p
  <2>7. (p - 1) * TickMs = p * TickMs - TickMs /\ p * TickMs \in Int
    BY <2>4
  <2>8. (p - 1) * TickMs < real[t]
    BY <2>4, <2>6, <2>7
  <2> QED BY <2>8, <2>4, <2>7 DEF p
<1> QED BY <1>1, Inductive, PTL

\* A step that changes the list, and one that ends a pass, leaves timer_nearest
\* at the least.
LEMMA FreshNearest ==
  ASSUME IInv, [Next]_vars, pc' = "idle", pc = "walk" \/ list' # list
  PROVE  NearestWithin(0)'
<1>1. Types /\ ListInv
  BY DEF IInv
<1>2. ASSUME NEW t \in Statics, NEW ms \in Periods, OnTimer(t, ms) PROVE NearestWithin(0)'
  <2>1. t \in Timers /\ t \notin InList /\ Arm(t, ms)
    BY <1>2, Consts DEF OnTimer
  <2> QED BY <1>1, <2>1, ArmStep
<1>3. ASSUME NEW t \in Statics, UnonTimer(t) PROVE NearestWithin(0)'
  <2>1. t \in InList /\ Unon(t) /\ timeout' = timeout
    BY <1>3 DEF UnonTimer
  <2> QED BY <1>1, <2>1, UnonStep
<1>4. ASSUME NEW c \in Clients, NEW ms \in Periods, Post(c, ms) PROVE NearestWithin(0)'
  <2>1. list' # list
    BY <1>4 DEF Post, ClientTurn
  <2>2. PICK t \in Slots : ~used[t] /\ Arm(t, ms)
    BY <1>4, <2>1 DEF Post
  <2>3. t \in Timers /\ t \notin InList
    BY <2>2, <1>1, Consts DEF ListInv
  <2> QED BY <1>1, <2>2, <2>3, ArmStep
<1>5. ASSUME NEW c \in Clients, Cancel(c) PROVE NearestWithin(0)'
  <2>1. list' # list
    BY <1>5 DEF Cancel, ClientTurn
  <2> DEFINE t == handle[c]
  <2>2. t # Nil /\ used[t] /\ Unon(t) /\ timeout' = timeout
    BY <1>5, <2>1 DEF Cancel
  <2>3. t \in Slots
    BY <2>2, <1>1 DEF Types
  <2>4. t \in InList
    <3> HIDE DEF t
    <3> QED BY <2>2, <2>3, <1>1 DEF ListInv
  <2> HIDE DEF t
  <2> QED BY <1>1, <2>2, <2>4, UnonStep
<1>6. ASSUME NEW n \in 1 .. MaxStep, Tick(n) PROVE FALSE
  BY <1>6 DEF Tick
<1>7. ASSUME NEW n \in 1 .. MaxSleep, Sleep(n) PROVE FALSE
  BY <1>7 DEF Sleep
<1>8. ASSUME NEW ms \in Periods, CbAgain(ms) PROVE FALSE
  BY <1>8 DEF CbAgain
<1>9. CASE Process
  BY <1>9 DEF Process
<1>10. CASE WalkOn
  BY <1>10 DEF WalkOn
<1>11. CASE Call
  BY <1>11 DEF Call
<1>12. CASE CbStop
  BY <1>12 DEF CbStop
<1>13. CASE UNCHANGED vars
  BY <1>13 DEF vars
<1> QED
  BY <1>2, <1>3, <1>4, <1>5, <1>6, <1>7, <1>8, <1>9, <1>10, <1>11, <1>12, <1>13,
     PassDoneStep DEF Next

\* timer_nearest, which decides how long the device sleeps, is the least of the
\* list after every pass and every change of the list, and within Slack of it
\* after any number of wake-ups.
THEOREM NearestCorrect == Spec => NearestIsLeast
<1>1. IInv /\ IInv' /\ [Next]_vars
        => [pc' = "idle" => IF pc = "walk" \/ list' # list THEN NearestWithin(0)'
                            ELSE NearestWithin(Slack)']_vars
  <2> SUFFICES ASSUME IInv, IInv', [Next]_vars, pc' = "idle"
               PROVE  IF pc = "walk" \/ list' # list THEN NearestWithin(0)'
                      ELSE NearestWithin(Slack)'
    OBVIOUS
  <2>1. CASE pc = "walk" \/ list' # list
    BY <2>1, FreshNearest
  <2>2. CASE ~(pc = "walk" \/ list' # list)
    BY <2>2 DEF IInv, NearInv
  <2> QED BY <2>1, <2>2
<1> QED BY <1>1, Inductive, PTL DEF Spec, NearestIsLeast

---------------------------------------------------------------------------
(* Handles.  Without a client that keeps the pointer of a timer whose       *)
(* callback returned -1, a pointer is always that of the client's timer.    *)

HandleInv ==
  \A c \in Clients : handle[c] # Nil => used[handle[c]] /\ owner[handle[c]] = c

LEMMA HandleSame ==
  ASSUME Types, HandleInv, NEW t \in Ptr,
         \A x \in Slots \ {t} : used'[x] = used[x], owner' = owner,
         \A c \in Clients : handle'[c] = Nil \/ (handle'[c] = handle[c] /\ handle[c] # t)
  PROVE  HandleInv'
<1> SUFFICES ASSUME NEW c \in Clients, handle'[c] # Nil
             PROVE  used'[handle'[c]] /\ owner'[handle'[c]] = c
  BY DEF HandleInv
<1>1. handle'[c] = handle[c] /\ handle[c] # t /\ handle[c] # Nil
  OBVIOUS
<1>2. handle[c] \in Slots \ {t}
  BY <1>1 DEF Types
<1>3. used[handle[c]] /\ owner[handle[c]] = c
  BY <1>1 DEF HandleInv
<1> QED BY <1>1, <1>2, <1>3

LEMMA HandleKeeps ==
  ASSUME Careless = {}, IInv, HandleInv, [Next]_vars
  PROVE  HandleInv'
<1>1. Types /\ ListInv /\ PassInv /\ Nil \in Ptr
  BY DEF IInv, Ptr
<1>2. ASSUME UNCHANGED <<used, owner, handle>> PROVE HandleInv'
  BY <1>2 DEF HandleInv
<1>3. ASSUME NEW t \in Statics, UnonTimer(t) PROVE HandleInv'
  <2>1. t \in InList /\ Unon(t) /\ timeout' = timeout /\ owner' = owner /\ handle' = handle
    BY <1>3 DEF UnonTimer
  <2>2. \A x \in Timers \ {t} : used'[x] = used[x]
    BY <1>1, <2>1, UnonStep
  <2>3. t \in Ptr /\ t \notin Slots /\ t # Nil
    BY Consts DEF Ptr
  <2>4. \A x \in Slots \ {t} : used'[x] = used[x]
    BY <2>2, Consts
  <2>5. \A c \in Clients : handle'[c] = Nil \/ (handle'[c] = handle[c] /\ handle[c] # t)
    BY <1>1, <2>1, <2>3 DEF Types
  <2> QED BY <1>1, <2>1, <2>3, <2>4, <2>5, HandleSame
<1>4. ASSUME NEW c \in Clients, NEW ms \in Periods, Post(c, ms) PROVE HandleInv'
  <2>1. CASE usedNum >= Cardinality(Slots)
    BY <1>2, <1>4, <2>1 DEF Post
  <2>2. CASE ~(usedNum >= Cardinality(Slots))
    <3>1. PICK t \in Slots :
            /\ ~used[t]
            /\ used' = [used EXCEPT ![t] = TRUE]
            /\ owner' = [owner EXCEPT ![t] = c]
            /\ handle' = [handle EXCEPT ![c] = t]
      BY <1>4, <2>2 DEF Post
    <3>2. used \in [Timers -> BOOLEAN] /\ owner \in [Timers -> Clients \cup {Nil}]
          /\ handle \in [Clients -> Slots \cup {Nil}] /\ t \in Timers
      BY <1>1, Consts DEF Types
    <3> SUFFICES ASSUME NEW d \in Clients, handle'[d] # Nil
                 PROVE  used'[handle'[d]] /\ owner'[handle'[d]] = d
      BY DEF HandleInv
    <3>3. CASE d = c
      <4>1. handle'[d] = t /\ used'[t] /\ owner'[t] = c
        BY <3>1, <3>2, <3>3
      <4> QED BY <4>1, <3>3
    <3>4. CASE d # c
      <4>1. handle'[d] = handle[d]
        BY <3>1, <3>2, <3>4
      <4>2. used[handle[d]] /\ owner[handle[d]] = d /\ handle[d] \in Slots
        BY <4>1, <3>2 DEF HandleInv
      <4>3. handle[d] # t /\ handle[d] \in Timers
        BY <4>2, <3>1, Consts
      <4>4. used'[handle[d]] = used[handle[d]] /\ owner'[handle[d]] = owner[handle[d]]
        BY <3>1, <3>2, <4>3
      <4> QED BY <4>1, <4>2, <4>4
    <3> QED BY <3>3, <3>4
  <2> QED BY <2>1, <2>2
<1>5. ASSUME NEW c \in Clients, Cancel(c) PROVE HandleInv'
  <2>1. CASE ~used[handle[c]]
    BY <1>2, <1>5, <2>1 DEF Cancel
  <2>2. CASE used[handle[c]]
    <3> DEFINE t == handle[c]
    <3>1. t # Nil /\ Unon(t) /\ timeout' = timeout /\ owner' = owner
          /\ handle' = [handle EXCEPT ![c] = Nil]
      BY <1>5, <2>2 DEF Cancel
    <3>2. t \in Slots /\ owner[t] = c
      BY <3>1, <1>1 DEF Types, HandleInv
    <3>3. \A d \in Clients : handle'[d] = Nil \/ (handle'[d] = handle[d] /\ handle[d] # t)
      <4> SUFFICES ASSUME NEW d \in Clients, d # c, handle[d] # Nil
                   PROVE  handle'[d] = handle[d] /\ handle[d] # t
        BY <3>1, <1>1 DEF Types
      <4>1. handle'[d] = handle[d]
        BY <3>1, <1>1 DEF Types
      <4>2. owner[handle[d]] = d
        BY DEF HandleInv
      <4> QED BY <4>1, <4>2, <3>2
    <3>4. used[t]
      BY <2>2
    <3> HIDE DEF t
    <3>5. t \in InList /\ t \in Ptr
      BY <3>2, <3>4, <1>1, Consts DEF ListInv, Ptr
    <3>6. \A x \in Timers \ {t} : used'[x] = used[x]
      BY <1>1, <3>1, <3>5, UnonStep
    <3>7. \A x \in Slots \ {t} : used'[x] = used[x]
      BY <3>6, Consts
    <3> QED BY <1>1, <3>1, <3>3, <3>5, <3>7, HandleSame
  <2> QED BY <2>1, <2>2
<1>6. CASE CbStop
  <2>1. /\ pc = "cb" /\ Unon(cur) /\ timeout' = timeout /\ owner' = owner
        /\ handle' = [c \in Clients |-> IF handle[c] = cur /\ owner[cur] = c /\ c \notin Careless
                                        THEN Nil ELSE handle[c]]
    BY <1>6 DEF CbStop
  <2>2. cur \in InList
    BY <2>1, <1>1 DEF PassInv
  <2>3. cur \in Timers /\ cur \in Ptr
    BY <2>2, <1>1, InListFacts DEF Ptr
  <2>4. \A x \in Timers \ {cur} : used'[x] = used[x]
    BY <1>1, <2>1, <2>2, UnonStep
  <2>5. \A x \in Slots \ {cur} : used'[x] = used[x]
    BY <2>4, Consts
  <2>6. \A c \in Clients : handle'[c] = Nil \/ (handle'[c] = handle[c] /\ handle[c] # cur)
    <3> SUFFICES ASSUME NEW c \in Clients, handle[c] = cur PROVE handle'[c] = Nil
      BY <2>1
    <3>1. handle[c] # Nil
      BY <2>3, NilFact
    <3>2. owner[cur] = c
      BY <3>1 DEF HandleInv
    <3> QED BY <2>1, <3>2
  <2> QED BY <1>1, <2>1, <2>3, <2>5, <2>6, HandleSame
<1>7. ASSUME NEW t \in Statics, NEW ms \in Periods, OnTimer(t, ms) PROVE HandleInv'
  BY <1>2, <1>7 DEF OnTimer
<1>8. ASSUME NEW n \in 1 .. MaxStep, Tick(n) PROVE HandleInv'
  BY <1>2, <1>8 DEF Tick, tmr
<1>9. ASSUME NEW n \in 1 .. MaxSleep, Sleep(n) PROVE HandleInv'
  BY <1>2, <1>9 DEF Sleep
<1>10. ASSUME NEW ms \in Periods, CbAgain(ms) PROVE HandleInv'
  BY <1>2, <1>10 DEF CbAgain
<1>11. CASE Process
  BY <1>2, <1>11 DEF Process
<1>12. CASE WalkOn
  BY <1>2, <1>12 DEF WalkOn, tmr
<1>13. CASE Call
  BY <1>2, <1>13 DEF Call, tmr
<1>14. CASE PassDone
  BY <1>2, <1>14 DEF PassDone, tmr
<1>15. CASE UNCHANGED vars
  BY <1>2, <1>15 DEF vars, tmr
<1> QED
  BY <1>3, <1>4, <1>5, <1>6, <1>7, <1>8, <1>9, <1>10, <1>11, <1>12, <1>13, <1>14, <1>15
     DEF Next

\* A slot that is freed outside a callback was freed by ev_timer_taskCancel of
\* the client that posted it.
LEMMA CancelStep ==
  ASSUME IInv, HandleInv, [Next]_vars, NEW t \in Slots, pc = "idle", used[t], ~used'[t]
  PROVE  handle[owner[t]] = t /\ handle'[owner[t]] = Nil
<1>1. Types /\ ListInv /\ t \in Timers
  BY Consts DEF IInv
<1>2. ASSUME used' = used PROVE FALSE
  BY <1>2
<1>3. ASSUME NEW s \in Statics, UnonTimer(s) PROVE FALSE
  <2>1. s \in InList /\ Unon(s) /\ timeout' = timeout
    BY <1>3 DEF UnonTimer
  <2>2. \A x \in Timers \ {s} : used'[x] = used[x]
    BY <1>1, <2>1, UnonStep
  <2>3. t # s
    BY Consts
  <2> QED BY <1>1, <2>2, <2>3
<1>4. ASSUME NEW c \in Clients, NEW ms \in Periods, Post(c, ms) PROVE FALSE
  <2>1. PICK u \in Slots : used' = [used EXCEPT ![u] = TRUE]
    BY <1>2, <1>4 DEF Post
  <2> QED BY <1>1, <2>1 DEF Types
<1>5. ASSUME NEW c \in Clients, Cancel(c)
      PROVE  handle[owner[t]] = t /\ handle'[owner[t]] = Nil
  <2> DEFINE u == handle[c]
  <2>1. u # Nil /\ used[u] /\ Unon(u) /\ timeout' = timeout
        /\ handle' = [handle EXCEPT ![c] = Nil]
    BY <1>2, <1>5 DEF Cancel
  <2>2. u \in Slots /\ owner[u] = c /\ handle'[c] = Nil
    BY <2>1, <1>1 DEF Types, HandleInv
  <2>3. t = u
    <3> HIDE DEF u
    <3>1. u \in InList
      BY <2>1, <2>2, <1>1 DEF ListInv
    <3>2. \A x \in Timers \ {u} : used'[x] = used[x]
      BY <1>1, <2>1, <3>1, UnonStep
    <3> QED BY <1>1, <3>2
  <2> QED BY <2>2, <2>3
<1>6. ASSUME NEW s \in Statics, NEW ms \in Periods, OnTimer(s, ms) PROVE FALSE
  BY <1>2, <1>6 DEF OnTimer
<1>7. ASSUME NEW n \in 1 .. MaxStep, Tick(n) PROVE FALSE
  BY <1>2, <1>7 DEF Tick, tmr
<1>8. ASSUME NEW n \in 1 .. MaxSleep, Sleep(n) PROVE FALSE
  BY <1>2, <1>8 DEF Sleep
<1>9. ASSUME NEW ms \in Periods, CbAgain(ms) PROVE FALSE
  BY <1>9 DEF CbAgain
<1>10. CASE Process
  BY <1>2, <1>10 DEF Process
<1>11. CASE WalkOn \/ Call \/ CbStop \/ PassDone
  BY <1>11 DEF WalkOn, Call, CbStop, PassDone
<1>12. CASE UNCHANGED vars
  BY <1>2, <1>12 DEF vars, tmr
<1> QED
  BY <1>3, <1>4, <1>5, <1>6, <1>7, <1>8, <1>9, <1>10, <1>11, <1>12 DEF Next

\* When no callback keeps the pointer of a timer it stops, a slot freed outside
\* a callback was cancelled by the client that posted it: nobody cancels the
\* timer of another client through a pointer to a slot given out again.
THEOREM CancelsOwnCorrect == Careless = {} => (Spec => CancelsOwn)
<1> SUFFICES ASSUME Careless = {} PROVE Spec => CancelsOwn
  OBVIOUS
<1>1. Init => HandleInv
  BY DEF Init, HandleInv
<1>2. IInv /\ HandleInv /\ [Next]_vars => HandleInv'
  BY HandleKeeps
<1>3. Spec => []HandleInv
  BY <1>1, <1>2, Inductive, PTL DEF Spec
<1>4. IInv /\ HandleInv /\ [Next]_vars
        => [\A t \in Slots : pc = "idle" /\ used[t] /\ ~used'[t]
              => handle[owner[t]] = t /\ handle'[owner[t]] = Nil]_vars
  BY CancelStep
<1> QED BY <1>3, <1>4, Inductive, PTL DEF Spec, CancelsOwn

---------------------------------------------------------------------------
(*               PART 2: EvMem, event buffers and queues                   *)
---------------------------------------------------------------------------
(* Free lists and queues as sequences.  What Chain computes is used through *)
(* one fact only: where the links from h spell out a sequence of different  *)
(* blocks, Chain is that sequence.                                          *)

\* The links from h pass through the blocks of s, once each, and end there.
IsChain(h, lk, s) ==
  /\ s \in Seq(Blocks) /\ IsInjective(s)
  /\ h = IF s = <<>> THEN Null ELSE s[1]
  /\ \A i \in 1 .. Len(s) : lk[s[i]] = IF i < Len(s) THEN s[i + 1] ELSE Null

\* The equation of the recursive function inside Chain.
ChainRec(h, lk, N, f) ==
  [n \in 0 .. N |->
     IF n = 0 THEN IF h = Null THEN <<>> ELSE <<h>>
     ELSE LET p == f[n - 1]
          IN IF Len(p) < n \/ lk[p[n]] = Null THEN p ELSE Append(p, lk[p[n]])]

\* The first n elements of s.
Prefix(s, n) == [i \in 1 .. IF n <= Len(s) THEN n ELSE Len(s) |-> s[i]]

LEMMA BlocksFinite == IsFiniteSet(Blocks)
<1> DEFINE S == {{g} \X (1 .. Count[g]) : g \in Groups}
           f == [g \in Groups |-> {g} \X (1 .. Count[g])]
<1>1. f \in Surjection(Groups, S)
  BY DEF Surjection
<1>2. IsFiniteSet(S)
  <2> HIDE DEF f, S
  <2> QED BY <1>1, MemAssumption, FS_Surjection
<1>3. \A T \in S : IsFiniteSet(T)
  <2> SUFFICES ASSUME NEW g \in Groups
               PROVE  IsFiniteSet({g} \X (1 .. Count[g]))
    OBVIOUS
  <2>1. Count[g] \in Int
    BY MemAssumption
  <2>2. IsFiniteSet(1 .. Count[g])
    <3> 1 \in Int
      OBVIOUS
    <3> QED BY <2>1, FS_Interval
  <2>3. IsFiniteSet({g})
    BY FS_Singleton
  <2> QED BY <2>2, <2>3, FS_Product
<1>4. Blocks = UNION S
  BY DEF Blocks
<1> HIDE DEF S
<1> QED BY <1>2, <1>3, <1>4, FS_UNION

\* A sequence without repetition over a finite set is no longer than the set.
LEMMA InjectiveLen ==
  ASSUME NEW S, IsFiniteSet(S), NEW s \in Seq(S), IsInjective(s)
  PROVE  Len(s) <= Cardinality(S)
<1>1. Len(s) \in Nat /\ s \in [1 .. Len(s) -> S]
  OBVIOUS
<1>2. s \in Injection(1 .. Len(s), S)
  BY <1>1 DEF Injection
<1>3. Cardinality(1 .. Len(s)) <= Cardinality(S)
  BY <1>2, FS_Injection
<1>4. Cardinality(1 .. Len(s)) = Len(s)
  BY <1>1, FS_Interval
<1> QED BY <1>3, <1>4

\* Where the links spell out s, the recursion collects its prefixes.
LEMMA ChainStep ==
  ASSUME NEW h, NEW lk, NEW s, IsChain(h, lk, s), NEW n \in Nat
  PROVE  /\ Prefix(s, 1) = IF h = Null THEN <<>> ELSE <<h>>
         /\ n > 0 => LET p == Prefix(s, n)
                     IN Prefix(s, n + 1) = IF Len(p) < n \/ lk[p[n]] = Null THEN p
                                           ELSE Append(p, lk[p[n]])
<1>1. s \in Seq(Blocks) /\ Len(s) \in Nat /\ (s = <<>> <=> Len(s) = 0)
  BY DEF IsChain
<1>2. Null \notin Blocks
  BY MemAssumption
<1>3. Prefix(s, 1) = IF h = Null THEN <<>> ELSE <<h>>
  <2>1. CASE Len(s) = 0
    BY <1>1, <2>1 DEF Prefix, IsChain
  <2>2. CASE Len(s) # 0
    <3>1. h = s[1] /\ h \in Blocks /\ 1 <= Len(s)
      BY <1>1, <2>2 DEF IsChain
    <3>2. Prefix(s, 1) = [i \in 1 .. 1 |-> s[i]]
      BY <3>1, <1>1 DEF Prefix
    <3>3. Prefix(s, 1) = <<s[1]>>
      BY <3>2
    <3> QED BY <3>1, <3>3, <1>2
  <2> QED BY <2>1, <2>2
<1>4. ASSUME n > 0
      PROVE  LET p == Prefix(s, n)
             IN Prefix(s, n + 1) = IF Len(p) < n \/ lk[p[n]] = Null THEN p
                                   ELSE Append(p, lk[p[n]])
  <2>1. CASE n < Len(s)
    <3>1. Prefix(s, n) = [i \in 1 .. n |-> s[i]] /\ Prefix(s, n + 1) = [i \in 1 .. n + 1 |-> s[i]]
      BY <2>1, <1>1 DEF Prefix
    <3>2. Prefix(s, n) \in Seq(Blocks) /\ Len(Prefix(s, n)) = n /\ Prefix(s, n)[n] = s[n]
      BY <3>1, <1>1, <1>4, <2>1
    <3>3. lk[s[n]] = s[n + 1] /\ s[n + 1] \in Blocks
      BY <2>1, <1>1, <1>4 DEF IsChain
    <3>4. Prefix(s, n + 1) = Append(Prefix(s, n), s[n + 1])
      BY <3>1, <3>2, <3>3
    <3>5. ~(Len(Prefix(s, n)) < n) /\ lk[Prefix(s, n)[n]] = s[n + 1] /\ s[n + 1] # Null
      BY <3>2, <3>3, <1>2
    <3> QED BY <3>4, <3>5
  <2>2. CASE n = Len(s)
    <3>1. Prefix(s, n) = s /\ Prefix(s, n + 1) = s
      BY <2>2, <1>1 DEF Prefix
    <3>2. lk[s[n]] = Null
      BY <2>2, <1>1, <1>4 DEF IsChain
    <3> QED BY <3>1, <3>2
  <2>3. CASE n > Len(s)
    <3>1. Prefix(s, n) = s /\ Prefix(s, n + 1) = s
      BY <2>3, <1>1 DEF Prefix
    <3> QED BY <3>1, <2>3
  <2> QED BY <2>1, <2>2, <2>3, <1>1
<1> QED BY <1>3, <1>4

LEMMA ChainIs ==
  ASSUME NEW h, NEW lk, NEW s, IsChain(h, lk, s)
  PROVE  Chain(h, lk) = s
<1> DEFINE N == Cardinality(Blocks)
           e == [n \in 0 .. N |-> Prefix(s, n + 1)]
           f == CHOOSE g : g = ChainRec(h, lk, N, g)
<1>1. N \in Nat /\ s \in Seq(Blocks) /\ Len(s) \in Nat /\ Len(s) <= N
  BY BlocksFinite, FS_CardinalityType, InjectiveLen DEF IsChain
<1> HIDE DEF N
<1>2. e = ChainRec(h, lk, N, e)
  <2>1. ASSUME NEW n \in 0 .. N, n # 0
        PROVE  e[n] = LET p == e[n - 1]
                      IN IF Len(p) < n \/ lk[p[n]] = Null THEN p ELSE Append(p, lk[p[n]])
    <3>1. n \in Nat /\ n > 0 /\ n - 1 \in 0 .. N /\ (n - 1) + 1 = n
      BY <2>1, <1>1
    <3>2. e[n] = Prefix(s, n + 1) /\ e[n - 1] = Prefix(s, n)
      BY <3>1
    <3> HIDE DEF e
    <3> QED BY <3>1, <3>2, ChainStep
  <2>2. e[0] = IF h = Null THEN <<>> ELSE <<h>>
    <3>1. 0 \in 0 .. N /\ 0 + 1 = 1
      BY <1>1
    <3>2. e[0] = Prefix(s, 1)
      BY <3>1
    <3> HIDE DEF e
    <3> QED BY <3>2, ChainStep
  <2>3. e = [n \in 0 .. N |-> e[n]]
    OBVIOUS
  <2> HIDE DEF e
  <2> QED BY <2>1, <2>2, <2>3 DEF ChainRec
<1>3. f = ChainRec(h, lk, N, f)
  <2> HIDE DEF e
  <2> QED BY <1>2
<1>4. \A n \in Nat : n <= N => f[n] = Prefix(s, n + 1)
  <2> HIDE DEF f
  <2> DEFINE P == {n \in Nat : n <= N => f[n] = Prefix(s, n + 1)}
  <2>1. 0 \in P
    <3>1. f[0] = IF h = Null THEN <<>> ELSE <<h>>
      BY <1>3, <1>1 DEF ChainRec
    <3>2. 0 + 1 = 1
      OBVIOUS
    <3> QED BY <3>1, <3>2, ChainStep
  <2>2. ASSUME NEW n \in Nat, n \in P PROVE n + 1 \in P
    <3> SUFFICES ASSUME n + 1 <= N PROVE f[n + 1] = Prefix(s, (n + 1) + 1)
      OBVIOUS
    <3> DEFINE m == n + 1
    <3>1. m \in Nat /\ m \in 0 .. N /\ m # 0 /\ m > 0 /\ m - 1 = n /\ n <= N
      BY <1>1
    <3>2. f[n] = Prefix(s, m)
      BY <2>2, <3>1
    <3>3. f[m] = LET p == f[m - 1]
                 IN IF Len(p) < m \/ lk[p[m]] = Null THEN p ELSE Append(p, lk[p[m]])
      <4> HIDE DEF m
      <4> QED BY <1>3, <3>1 DEF ChainRec
    <3> HIDE DEF m
    <3>4. f[m] = Prefix(s, m + 1)
      BY <3>1, <3>2, <3>3, ChainStep
    <3> QED BY <3>4 DEF m
  <2>3. \A n \in Nat : n \in P
    <3> HIDE DEF P
    <3> QED BY <2>1, <2>2, SetInduction
  <2> QED BY <2>3
<1>5. f[N] = s
  <2>1. f[N] = Prefix(s, N + 1)
    BY <1>1, <1>4
  <2>2. Prefix(s, N + 1) = s
    BY <1>1 DEF Prefix
  <2> QED BY <2>1, <2>2
<1>6. Chain(h, lk) = f[N]
  BY DEF Chain, ChainRec, N
<1> QED BY <1>5, <1>6

---------------------------------------------------------------------------
(* The two changes the operations make to a list *)

\* s with b behind its k-th element, and s without its k-th element
Insert(s, k, b) ==
  [i \in 1 .. Len(s) + 1 |-> IF i <= k THEN s[i] ELSE IF i = k + 1 THEN b ELSE s[i - 1]]
Remove(s, k) == [i \in 1 .. Len(s) - 1 |-> IF i < k THEN s[i] ELSE s[i + 1]]

LEMMA ChainFacts ==
  ASSUME NEW h, NEW lk, NEW s, IsChain(h, lk, s)
  PROVE  /\ s \in Seq(Blocks) /\ Len(s) \in Nat /\ DOMAIN s = 1 .. Len(s)
         /\ \A i \in 1 .. Len(s) : s[i] \in Blocks /\ s[i] # Null
         /\ \A i, j \in 1 .. Len(s) : s[i] = s[j] => i = j
         /\ s = <<>> <=> Len(s) = 0
         /\ h = Null <=> Len(s) = 0
         /\ Len(s) # 0 => h = s[1]
         /\ Range(s) = {s[i] : i \in 1 .. Len(s)}
<1>1. s \in Seq(Blocks) /\ Len(s) \in Nat /\ DOMAIN s = 1 .. Len(s) /\ (s = <<>> <=> Len(s) = 0)
  BY DEF IsChain
<1>2. \A i \in 1 .. Len(s) : s[i] \in Blocks /\ s[i] # Null
  BY <1>1, MemAssumption
<1>3. \A i, j \in 1 .. Len(s) : s[i] = s[j] => i = j
  BY <1>1 DEF IsChain, IsInjective
<1>4. Range(s) = {s[i] : i \in 1 .. Len(s)}
  BY <1>1 DEF Range
<1>5. (h = Null <=> Len(s) = 0) /\ (Len(s) # 0 => h = s[1])
  BY <1>1, <1>2 DEF IsChain
<1> QED BY <1>1, <1>2, <1>3, <1>4, <1>5

\* Links of other blocks may change.
LEMMA ChainSame ==
  ASSUME NEW h, NEW lk, NEW s, IsChain(h, lk, s),
         NEW ly, \A b \in Range(s) : ly[b] = lk[b]
  PROVE  IsChain(h, ly, s)
<1>1. \A i \in 1 .. Len(s) : s[i] \in Range(s)
  BY ChainFacts
<1> QED BY <1>1 DEF IsChain

\* b is linked in behind the k-th element.
LEMMA InsertChain ==
  ASSUME NEW h, NEW lk, NEW s, IsChain(h, lk, s),
         NEW k \in 0 .. Len(s), NEW b \in Blocks, b \notin Range(s),
         NEW ly, ly[b] = IF k < Len(s) THEN s[k + 1] ELSE Null,
         k > 0 => ly[s[k]] = b,
         \A i \in 1 .. Len(s) : i # k => ly[s[i]] = lk[s[i]]
  PROVE  /\ IsChain(IF k = 0 THEN b ELSE h, ly, Insert(s, k, b))
         /\ Len(Insert(s, k, b)) = Len(s) + 1
         /\ Range(Insert(s, k, b)) = Range(s) \cup {b}
<1> DEFINE t == Insert(s, k, b)
           n == Len(s)
<1>1. /\ s \in Seq(Blocks) /\ n \in Nat
      /\ \A i \in 1 .. n : s[i] \in Blocks /\ s[i] # Null
      /\ \A i, j \in 1 .. n : s[i] = s[j] => i = j
      /\ n # 0 => h = s[1]
      /\ \A i \in 1 .. n : s[i] # b
      /\ \A i \in 1 .. n : lk[s[i]] = IF i < n THEN s[i + 1] ELSE Null
  BY ChainFacts DEF IsChain
<1> k \in Nat /\ k <= n
  BY <1>1
<1>2. Range(s) = {s[i] : i \in 1 .. n}
  BY ChainFacts
<1> HIDE DEF n
<1>3. /\ DOMAIN t = 1 .. n + 1
      /\ \A i \in 1 .. n + 1 : t[i] = IF i <= k THEN s[i] ELSE IF i = k + 1 THEN b ELSE s[i - 1]
  BY DEF Insert, n
<1>4. t \in [1 .. n + 1 -> Blocks]
  BY <1>1 DEF Insert, n
<1>5. t \in Seq(Blocks) /\ Len(t) = n + 1
  <2> HIDE DEF t
  <2> QED BY <1>4, <1>1
<1> HIDE DEF t
<1> DEFINE at(i) == IF i <= k THEN i ELSE i - 1
<1>0. /\ \A i \in 1 .. n + 1 : i # k + 1 => at(i) \in 1 .. n /\ t[i] = s[at(i)]
      /\ t[k + 1] = b
  BY <1>1, <1>3
<1>a. (\A i, j \in 1 .. n : s[i] = s[j] => i = j) /\ (\A i \in 1 .. n : s[i] # b)
  BY <1>1
<1>6. ASSUME NEW i \in 1 .. n + 1, NEW j \in 1 .. n + 1, t[i] = t[j]
      PROVE  i = j
  <2>1. CASE i = k + 1 \/ j = k + 1
    <3> HIDE DEF at
    <3> QED BY <2>1, <1>0, <1>a, <1>6
  <2>2. CASE i # k + 1 /\ j # k + 1
    <3>1. at(i) = at(j)
      <4> HIDE DEF at
      <4>1. at(i) \in 1 .. n /\ at(j) \in 1 .. n /\ s[at(i)] = s[at(j)]
        BY <2>2, <1>0, <1>6
      <4> QED BY <4>1, <1>a
    <3> QED BY <3>1, <2>2, <1>1
  <2> QED BY <2>1, <2>2
<1>7. t # <<>> /\ t[1] = IF k = 0 THEN b ELSE h
  BY <1>1, <1>3, <1>5
<1>8. ASSUME NEW i \in 1 .. n + 1
      PROVE  ly[t[i]] = IF i < n + 1 THEN t[i + 1] ELSE Null
  <2>1. CASE i < k
    <3>1. i \in 1 .. n /\ i < n /\ i + 1 \in 1 .. n + 1 /\ i + 1 <= k /\ i <= k /\ i # k
      BY <2>1, <1>1
    <3>2. t[i] = s[i] /\ t[i + 1] = s[i + 1] /\ ly[s[i]] = s[i + 1]
      BY <3>1, <1>1, <1>3 DEF n
    <3>3. i < n + 1
      BY <3>1, <1>1
    <3> QED BY <3>2, <3>3
  <2>2. CASE i = k
    <3>1. i \in 1 .. n /\ k > 0 /\ i + 1 \in 1 .. n + 1 /\ i + 1 = k + 1 /\ ~(i + 1 <= k) /\ i <= k
      BY <2>2, <1>1
    <3>2. t[i] = s[k] /\ t[i + 1] = b
      BY <3>1, <1>3, <2>2
    <3>3. i < n + 1
      BY <3>1, <1>1
    <3> QED BY <3>1, <3>2, <3>3
  <2>3. CASE i = k + 1
    <3>1. t[i] = b /\ ly[b] = IF k < n THEN s[k + 1] ELSE Null
      BY <2>3, <1>1, <1>3 DEF n
    <3>2. CASE k < n
      <4>1. i < n + 1 /\ i + 1 \in 1 .. n + 1 /\ ~(i + 1 <= k) /\ i + 1 # k + 1 /\ (i + 1) - 1 = k + 1
        BY <3>2, <2>3, <1>1
      <4>2. t[i + 1] = s[k + 1]
        BY <4>1, <1>3
      <4> QED BY <4>1, <4>2, <3>1, <3>2
    <3>3. CASE k = n
      BY <3>3, <3>1, <2>3, <1>1
    <3> QED BY <3>2, <3>3, <1>1
  <2>4. CASE i > k + 1
    <3>1. i - 1 \in 1 .. n /\ i - 1 # k /\ ~(i <= k) /\ i # k + 1
      BY <2>4, <1>1
    <3>2. t[i] = s[i - 1] /\ ly[s[i - 1]] = lk[s[i - 1]]
      BY <3>1, <1>3 DEF n
    <3>3. CASE i < n + 1
      <4>1. i - 1 < n /\ i + 1 \in 1 .. n + 1 /\ ~(i + 1 <= k) /\ i + 1 # k + 1
            /\ (i + 1) - 1 = i /\ (i - 1) + 1 = i
        BY <3>3, <2>4, <1>1
      <4>2. t[i + 1] = s[i] /\ lk[s[i - 1]] = s[i]
        BY <4>1, <3>1, <1>1, <1>3
      <4> QED BY <3>3, <4>2, <3>2
    <3>4. CASE i = n + 1
      <4>1. ~(i - 1 < n) /\ ~(i < n + 1)
        BY <3>4, <1>1
      <4> QED BY <4>1, <3>1, <3>2, <1>1
    <3> QED BY <3>3, <3>4, <1>1
  <2> QED BY <2>1, <2>2, <2>3, <2>4, <1>1
<1>9. Range(t) = Range(s) \cup {b}
  <2>1. \A i \in 1 .. n + 1 : t[i] \in Range(s) \cup {b}
    <3> HIDE DEF at
    <3> QED BY <1>0, <1>2
  <2>2. \A i \in 1 .. n : \E j \in 1 .. n + 1 : t[j] = s[i]
    <3> TAKE i \in 1 .. n
    <3>1. CASE i <= k
      <4> i \in 1 .. n + 1
        BY <1>1
      <4> t[i] = s[i]
        BY <3>1, <1>3
      <4> QED OBVIOUS
    <3>2. CASE ~(i <= k)
      <4> i + 1 \in 1 .. n + 1 /\ ~(i + 1 <= k) /\ i + 1 # k + 1 /\ (i + 1) - 1 = i
        BY <3>2, <1>1
      <4> t[i + 1] = s[i]
        BY <1>3
      <4> QED OBVIOUS
    <3> QED BY <3>1, <3>2
  <2>3. \E j \in 1 .. n + 1 : t[j] = b
    <3> k + 1 \in 1 .. n + 1 /\ ~(k + 1 <= k)
      BY <1>1
    <3> QED BY <1>3
  <2>4. Range(t) = {t[i] : i \in 1 .. n + 1}
    BY <1>3 DEF Range
  <2> QED BY <2>1, <2>2, <2>3, <2>4, <1>2
<1>10. IsInjective(t)
  BY <1>3, <1>6 DEF IsInjective
<1>11. IsChain(IF k = 0 THEN b ELSE h, ly, t)
  BY <1>5, <1>7, <1>8, <1>10 DEF IsChain
<1> QED BY <1>5, <1>9, <1>11 DEF t, n

\* The k-th element is taken out; its own link may stay as it is.
LEMMA RemoveChain ==
  ASSUME NEW h, NEW lk, NEW s, IsChain(h, lk, s), NEW k \in 1 .. Len(s),
         NEW ly, k > 1 => ly[s[k - 1]] = lk[s[k]],
         \A i \in 1 .. Len(s) : i # k - 1 /\ i # k => ly[s[i]] = lk[s[i]]
  PROVE  /\ IsChain(IF k = 1 THEN lk[h] ELSE h, ly, Remove(s, k))
         /\ Len(Remove(s, k)) = Len(s) - 1
         /\ Range(Remove(s, k)) = Range(s) \ {s[k]}
<1> DEFINE t == Remove(s, k)
           n == Len(s)
<1>1. /\ s \in Seq(Blocks) /\ n \in Nat
      /\ \A i \in 1 .. n : s[i] \in Blocks /\ s[i] # Null
      /\ \A i, j \in 1 .. n : s[i] = s[j] => i = j
      /\ n # 0 => h = s[1]
      /\ \A i \in 1 .. n : lk[s[i]] = IF i < n THEN s[i + 1] ELSE Null
  BY ChainFacts DEF IsChain
<1>2. Range(s) = {s[i] : i \in 1 .. n}
  BY ChainFacts
<1> k \in Nat /\ k >= 1 /\ k <= n /\ n >= 1
  BY <1>1
<1> HIDE DEF n
<1>3. /\ DOMAIN t = 1 .. n - 1
      /\ \A i \in 1 .. n - 1 : t[i] = IF i < k THEN s[i] ELSE s[i + 1]
  BY DEF Remove, n
<1>4. t \in [1 .. n - 1 -> Blocks] /\ n - 1 \in Nat
  BY <1>1 DEF Remove, n
<1>5. t \in Seq(Blocks) /\ Len(t) = n - 1 /\ (t = <<>> <=> n - 1 = 0)
  <2> HIDE DEF t
  <2> QED BY <1>4, <1>1
<1> HIDE DEF t
<1> DEFINE at(i) == IF i < k THEN i ELSE i + 1
<1>0. \A i \in 1 .. n - 1 : at(i) \in 1 .. n /\ at(i) # k /\ t[i] = s[at(i)]
  BY <1>1, <1>3
<1>6. ASSUME NEW i \in 1 .. n - 1, NEW j \in 1 .. n - 1, t[i] = t[j]
      PROVE  i = j
  <2>1. at(i) = at(j)
    <3> HIDE DEF at
    <3>1. at(i) \in 1 .. n /\ at(j) \in 1 .. n /\ s[at(i)] = s[at(j)]
      BY <1>0, <1>6
    <3>2. \A x, y \in 1 .. n : s[x] = s[y] => x = y
      BY <1>1
    <3> QED BY <3>1, <3>2
  <2> QED BY <2>1, <1>1
<1>7. (IF k = 1 THEN lk[h] ELSE h) = IF t = <<>> THEN Null ELSE t[1]
  <2>1. CASE n = 1
    BY <2>1, <1>1, <1>5
  <2>2. CASE n > 1
    <3>1. t # <<>> /\ 1 \in 1 .. n - 1 /\ t[1] = IF k > 1 THEN s[1] ELSE s[2]
      BY <2>2, <1>1, <1>3, <1>5
    <3>2. h = s[1] /\ lk[s[1]] = s[2]
      BY <2>2, <1>1
    <3> QED BY <3>1, <3>2
  <2> QED BY <2>1, <2>2, <1>1
<1>8. ASSUME NEW i \in 1 .. n - 1
      PROVE  ly[t[i]] = IF i < n - 1 THEN t[i + 1] ELSE Null
  <2>1. CASE i < k - 1
    <3>1. i \in 1 .. n /\ i # k - 1 /\ i # k /\ i < k /\ i + 1 < k /\ i < n /\ i < n - 1
          /\ i + 1 \in 1 .. n - 1
      BY <2>1, <1>1
    <3>2. t[i] = s[i] /\ t[i + 1] = s[i + 1] /\ ly[s[i]] = s[i + 1]
      BY <3>1, <1>1, <1>3 DEF n
    <3> QED BY <3>1, <3>2
  <2>2. CASE i = k - 1
    <3>1. k > 1 /\ i < k /\ t[i] = s[k - 1] /\ ly[t[i]] = lk[s[k]]
      BY <2>2, <1>1, <1>3
    <3>2. CASE k < n
      <4>1. i < n - 1 /\ i + 1 \in 1 .. n - 1 /\ ~(i + 1 < k) /\ (i + 1) + 1 = k + 1
        BY <3>2, <2>2, <1>1
      <4>2. t[i + 1] = s[k + 1] /\ lk[s[k]] = s[k + 1]
        BY <4>1, <3>2, <1>1, <1>3
      <4> QED BY <4>1, <4>2, <3>1
    <3>3. CASE k = n
      <4>1. ~(i < n - 1) /\ lk[s[k]] = Null
        BY <3>3, <2>2, <1>1
      <4> QED BY <4>1, <3>1
    <3> QED BY <3>2, <3>3, <1>1
  <2>3. CASE i > k - 1
    <3>1. i + 1 \in 1 .. n /\ i + 1 # k - 1 /\ i + 1 # k /\ ~(i < k)
      BY <2>3, <1>1
    <3>2. t[i] = s[i + 1] /\ ly[s[i + 1]] = lk[s[i + 1]]
      BY <3>1, <1>3 DEF n
    <3>3. CASE i < n - 1
      <4>1. i + 1 < n /\ i + 1 \in 1 .. n - 1 /\ ~(i + 1 < k)
        BY <3>3, <2>3, <1>1
      <4>2. t[i + 1] = s[(i + 1) + 1] /\ lk[s[i + 1]] = s[(i + 1) + 1]
        BY <4>1, <3>1, <1>1, <1>3
      <4> QED BY <3>3, <4>2, <3>2
    <3>4. CASE i = n - 1
      <4>1. ~(i + 1 < n) /\ ~(i < n - 1)
        BY <3>4, <1>1
      <4> QED BY <4>1, <3>1, <3>2, <1>1
    <3> QED BY <3>3, <3>4, <1>1
  <2> QED BY <2>1, <2>2, <2>3, <1>1
<1>9. Range(t) = Range(s) \ {s[k]}
  <2>1. \A i \in 1 .. n - 1 : t[i] \in Range(s) \ {s[k]}
    <3> TAKE i \in 1 .. n - 1
    <3> HIDE DEF at
    <3>1. at(i) \in 1 .. n /\ at(i) # k /\ t[i] = s[at(i)] /\ k \in 1 .. n
      BY <1>0, <1>1
    <3>2. s[at(i)] # s[k]
      <4>1. \A x, y \in 1 .. n : s[x] = s[y] => x = y
        BY <1>1
      <4> QED BY <3>1, <4>1
    <3> QED BY <3>1, <3>2, <1>2
  <2>2. \A i \in 1 .. n : i # k => \E j \in 1 .. n - 1 : t[j] = s[i]
    <3> TAKE i \in 1 .. n
    <3> HAVE i # k
    <3>1. CASE i < k
      <4> i \in 1 .. n - 1
        BY <3>1, <1>1
      <4> t[i] = s[i]
        BY <3>1, <1>3
      <4> QED OBVIOUS
    <3>2. CASE i > k
      <4> i - 1 \in 1 .. n - 1 /\ ~(i - 1 < k) /\ (i - 1) + 1 = i
        BY <3>2, <1>1
      <4> t[i - 1] = s[i]
        BY <1>3
      <4> QED OBVIOUS
    <3> QED BY <3>1, <3>2
  <2>3. Range(t) = {t[i] : i \in 1 .. n - 1}
    BY <1>3 DEF Range
  <2> QED BY <2>1, <2>2, <2>3, <1>2
<1>10. IsInjective(t)
  BY <1>3, <1>6 DEF IsInjective
<1>11. IsChain(IF k = 1 THEN lk[h] ELSE h, ly, t)
  BY <1>5, <1>7, <1>8, <1>10 DEF IsChain
<1> QED BY <1>5, <1>9, <1>11 DEF t, n

---------------------------------------------------------------------------
(* The invariant of the buffers and queues.  Each list is given by a        *)
(* sequence; that the lists of different holders have no block in common,   *)
(* and so no link, follows from holder.                                     *)

MemTypes ==
  /\ link \in [Blocks -> Blocks \cup {Null}]
  /\ freeList \in [Groups -> Blocks \cup {Null}] /\ avail \in [Groups -> Nat]
  /\ groupIndex \in [Blocks -> Groups \cup {Null}]
  /\ qHead \in [Queues -> Blocks \cup {Null}] /\ qTail \in [Queues -> Blocks \cup {Null}]
  /\ curNum \in [Queues -> Nat]
  /\ drain \in Queues \cup {Null} /\ popped \in Blocks \cup {Null}
  /\ holder \in [Blocks -> {"free", "held"} \cup Queues]
  /\ earlier \in [Blocks -> SUBSET Blocks]

\* s is the free list of g
FreeAs(g, s) ==
  /\ IsChain(freeList[g], link, s) /\ avail[g] = Len(s)
  /\ Range(s) = {b \in Blocks : b[1] = g /\ holder[b] = "free"}

\* s is the queue q
QueueAs(q, s) ==
  /\ IsChain(qHead[q], link, s) /\ curNum[q] = Len(s)
  /\ Range(s) = {b \in Blocks : holder[b] = q}
  /\ qTail[q] = IF Len(s) = 0 THEN Null ELSE s[Len(s)]

\* x may stand before y in q
MayPrecede(q, x, y) ==
  IF q \in PriQueues /\ Prio[x] # Prio[y] THEN Prio[x] < Prio[y] ELSE x \in earlier[y]
Ordered(q, s) == \A i, j \in 1 .. Len(s) : i < j => MayPrecede(q, s[i], s[j])

FreeInv == \A g \in Groups : \E s : FreeAs(g, s)
QueueInv == \A q \in Queues : \E s : QueueAs(q, s) /\ Ordered(q, s)

\* ev_buf_free finds the group of every block that has been allocated, a popped
\* block belongs to ev_queue_freeQ, and earlier is an order of each queue.
GroupInv ==
  /\ \A b \in Blocks : groupIndex[b] \in {Null, b[1]}
                       /\ (holder[b] # "free" => groupIndex[b] = b[1])
  /\ popped # Null => holder[popped] = "held"
EarlierInv ==
  \A x \in Blocks : \A y \in earlier[x] :
    y # x /\ holder[x] \in Queues /\ holder[y] = holder[x] /\ x \notin earlier[y]

MemInv == MemTypes /\ FreeInv /\ QueueInv /\ GroupInv /\ EarlierInv

LEMMA MemConsts ==
  /\ Null \notin Blocks /\ Null \notin Queues /\ Null \notin Groups
  /\ "free" \notin Queues /\ "held" \notin Queues
  /\ Prio \in [Blocks -> Nat] /\ PriQueues \subseteq Queues
  /\ \A b \in Blocks : b[1] \in Groups
<1>1. \A b \in Blocks : b[1] \in Groups
  BY DEF Blocks
<1> QED BY <1>1, MemAssumption

\* A free list that a step does not touch.
LEMMA FreeSame ==
  ASSUME NEW g \in Groups, NEW s, FreeAs(g, s),
         freeList'[g] = freeList[g], avail'[g] = avail[g],
         \A b \in Range(s) : link'[b] = link[b],
         \A b \in Blocks : b[1] = g => (holder'[b] = "free" <=> holder[b] = "free")
  PROVE  FreeAs(g, s)'
<1>1. IsChain(freeList[g], link', s)
  BY ChainSame DEF FreeAs
<1>2. IsChain(freeList'[g], link', s)
  BY <1>1
<1>3. Range(s) = {b \in Blocks : b[1] = g /\ holder'[b] = "free"}
  BY DEF FreeAs
<1> QED BY <1>2, <1>3 DEF FreeAs

\* A queue that a step does not touch.
LEMMA QueueSame ==
  ASSUME NEW q \in Queues, NEW s, QueueAs(q, s), Ordered(q, s),
         qHead'[q] = qHead[q], qTail'[q] = qTail[q], curNum'[q] = curNum[q],
         \A b \in Range(s) : link'[b] = link[b] /\ earlier'[b] = earlier[b],
         \A b \in Blocks : holder'[b] = q <=> holder[b] = q
  PROVE  QueueAs(q, s)' /\ Ordered(q, s)'
<1>1. IsChain(qHead[q], link', s)
  BY ChainSame DEF QueueAs
<1>2. IsChain(qHead'[q], link', s)
  BY <1>1
<1>3. Range(s) = {b \in Blocks : holder'[b] = q}
  BY DEF QueueAs
<1>4. QueueAs(q, s)'
  BY <1>2, <1>3 DEF QueueAs
<1>5. \A i \in 1 .. Len(s) : earlier'[s[i]] = earlier[s[i]]
  BY ChainFacts DEF QueueAs
<1>6. Ordered(q, s)'
  BY <1>5 DEF Ordered, MayPrecede
<1> QED BY <1>4, <1>6

LEMMA FreeFacts ==
  ASSUME NEW g, NEW s, FreeAs(g, s)
  PROVE  /\ IsChain(freeList[g], link, s) /\ avail[g] = Len(s) /\ Len(s) \in Nat
         /\ \A b \in Range(s) : b \in Blocks /\ b[1] = g /\ holder[b] = "free"
         /\ \A b \in Blocks : b[1] = g /\ holder[b] = "free" => b \in Range(s)
BY ChainFacts DEF FreeAs

LEMMA QueueFacts ==
  ASSUME NEW q, NEW s, QueueAs(q, s)
  PROVE  /\ IsChain(qHead[q], link, s) /\ curNum[q] = Len(s) /\ Len(s) \in Nat
         /\ \A b \in Range(s) : b \in Blocks /\ holder[b] = q
         /\ \A b \in Blocks : holder[b] = q => b \in Range(s)
         /\ \A i \in 1 .. Len(s) : s[i] \in Blocks /\ holder[s[i]] = q
         /\ Queue(q) = s
<1>1. IsChain(qHead[q], link, s) /\ curNum[q] = Len(s) /\ Len(s) \in Nat
  BY ChainFacts DEF QueueAs
<1>2. \A i \in 1 .. Len(s) : s[i] \in Range(s)
  BY <1>1, ChainFacts
<1>3. Queue(q) = s
  BY <1>1, ChainIs DEF Queue
<1> QED BY <1>1, <1>2, <1>3 DEF QueueAs

---------------------------------------------------------------------------
(* Buffers *)

LEMMA AllocateKeeps ==
  ASSUME MemInv, NEW size \in Sizes, Allocate(size)
  PROVE  MemInv'
<1> USE DEF mem, que
<1>1. PICK g \in Groups :
        /\ freeList[g] # Null
        /\ freeList' = [freeList EXCEPT ![g] = link[freeList[g]]]
        /\ groupIndex' = [groupIndex EXCEPT ![freeList[g]] = g]
        /\ holder' = [holder EXCEPT ![freeList[g]] = "held"]
        /\ avail' = [avail EXCEPT ![g] = @ - 1]
  BY DEF Allocate
<1>2. UNCHANGED <<link, qHead, qTail, curNum, drain, popped, earlier>>
  BY DEF Allocate
<1> DEFINE b == freeList[g]
<1>3. MemTypes /\ FreeInv /\ QueueInv /\ GroupInv /\ EarlierInv
  BY DEF MemInv
<1>4. PICK s : FreeAs(g, s)
  BY <1>3 DEF FreeInv
<1>5. /\ IsChain(b, link, s) /\ avail[g] = Len(s) /\ Len(s) \in Nat /\ Len(s) # 0
      /\ b = s[1] /\ b \in Blocks /\ b \in Range(s) /\ 1 \in 1 .. Len(s)
  <2>1. IsChain(b, link, s) /\ avail[g] = Len(s)
    BY <1>4, FreeFacts
  <2>2. Len(s) # 0 /\ Len(s) \in Nat /\ b = s[1] /\ 1 \in 1 .. Len(s)
    BY <2>1, <1>1, ChainFacts
  <2> QED BY <2>1, <2>2, ChainFacts
<1>6. b[1] = g /\ holder[b] = "free"
  BY <1>4, <1>5, FreeFacts
<1>7. /\ IsChain(link[b], link, Remove(s, 1))
      /\ Len(Remove(s, 1)) = Len(s) - 1 /\ Range(Remove(s, 1)) = Range(s) \ {b}
  <2>1. ~(1 > 1) /\ 1 = 1
    OBVIOUS
  <2> HIDE DEF b
  <2> QED BY <1>5, <2>1, RemoveChain
<1> HIDE DEF b
<1>8. MemTypes'
  <2>1. avail[g] - 1 \in Nat
    BY <1>5
  <2>2. avail' \in [Groups -> Nat]
    BY <2>1, <1>1, <1>3 DEF MemTypes
  <2>3. link[b] \in Blocks \cup {Null}
    BY <1>3, <1>5 DEF MemTypes
  <2>4. /\ freeList' \in [Groups -> Blocks \cup {Null}]
        /\ groupIndex' \in [Blocks -> Groups \cup {Null}]
        /\ holder' \in [Blocks -> {"free", "held"} \cup Queues]
    BY <2>3, <1>1, <1>3 DEF MemTypes, b
  <2> QED BY <2>2, <2>4, <1>2, <1>3 DEF MemTypes
<1>9. FreeInv'
  <2> SUFFICES ASSUME NEW f \in Groups PROVE \E t : FreeAs(f, t)'
    BY DEF FreeInv
  <2>1. CASE f = g
    <3> DEFINE t == Remove(s, 1)
    <3>1. freeList'[g] = link[b] /\ avail'[g] = Len(s) - 1
      BY <1>1, <1>3, <1>5 DEF MemTypes, b
    <3>2. IsChain(freeList'[g], link', t) /\ avail'[g] = Len(t)
      BY <3>1, <1>2, <1>7
    <3>3. Range(t) = {x \in Blocks : x[1] = g /\ holder'[x] = "free"}
      <4>1. \A x \in Blocks : holder'[x] = "free" <=> (holder[x] = "free" /\ x # b)
        BY <1>1, <1>3 DEF MemTypes, b
      <4>2. Range(s) = {x \in Blocks : x[1] = g /\ holder[x] = "free"}
        BY <1>4 DEF FreeAs
      <4> HIDE DEF t
      <4> QED BY <4>1, <4>2, <1>7 DEF t
    <3> HIDE DEF t
    <3>4. FreeAs(g, t)'
      BY <3>2, <3>3 DEF FreeAs
    <3> QED BY <3>4, <2>1
  <2>2. CASE f # g
    <3>1. PICK t : FreeAs(f, t)
      BY <1>3 DEF FreeInv
    <3>2. freeList'[f] = freeList[f] /\ avail'[f] = avail[f] /\ \A x \in Range(t) : link'[x] = link[x]
      BY <1>1, <1>2, <1>3, <2>2 DEF MemTypes
    <3>3. \A x \in Blocks : x[1] = f => (holder'[x] = "free" <=> holder[x] = "free")
      BY <1>1, <1>3, <1>6, <2>2 DEF MemTypes, b
    <3>4. FreeAs(f, t)'
      BY <3>1, <3>2, <3>3, FreeSame
    <3> QED BY <3>4
  <2> QED BY <2>1, <2>2
<1>10. QueueInv'
  <2> SUFFICES ASSUME NEW q \in Queues PROVE \E t : QueueAs(q, t)' /\ Ordered(q, t)'
    BY DEF QueueInv
  <2>1. PICK t : QueueAs(q, t) /\ Ordered(q, t)
    BY <1>3 DEF QueueInv
  <2>2. \A x \in Blocks : holder'[x] = q <=> holder[x] = q
    BY <1>1, <1>3, <1>6, MemConsts DEF MemTypes, b
  <2>3. QueueAs(q, t)' /\ Ordered(q, t)'
    BY <2>1, <2>2, <1>2, QueueSame
  <2> QED BY <2>3
<1>11. GroupInv'
  <2>1. \A x \in Blocks : /\ holder'[x] = IF x = b THEN "held" ELSE holder[x]
                          /\ groupIndex'[x] = IF x = b THEN g ELSE groupIndex[x]
    BY <1>1, <1>3 DEF MemTypes, b
  <2>2. popped # Null => popped \in Blocks
    BY <1>3 DEF MemTypes
  <2> QED BY <2>1, <2>2, <1>2, <1>3, <1>6 DEF GroupInv
<1>12. EarlierInv'
  <2>1. \A x \in Blocks : holder[x] \in Queues \/ holder'[x] \in Queues => holder'[x] = holder[x]
    BY <1>1, <1>3, <1>6, MemConsts DEF MemTypes, b
  <2>2. \A x \in Blocks : earlier[x] \subseteq Blocks
    BY <1>3 DEF MemTypes
  <2> QED BY <2>1, <2>2, <1>2, <1>3 DEF EarlierInv
<1> QED BY <1>8, <1>9, <1>10, <1>11, <1>12 DEF MemInv

\* ev_buf_free of a block that is with a holder or in its free list already.
LEMMA GiveBackKeeps ==
  ASSUME MemInv, NEW b \in Blocks, holder[b] \in {"held", "free"}, groupIndex[b] # Null,
         GiveBack(b), popped' # Null => popped' # b /\ popped' = popped,
         UNCHANGED <<groupIndex, qHead, qTail, curNum, drain, earlier>>
  PROVE  MemInv'
<1>1. MemTypes /\ FreeInv /\ QueueInv /\ GroupInv /\ EarlierInv
  BY DEF MemInv
<1>0. PICK g \in Groups : g = groupIndex[b]
  BY <1>1 DEF MemTypes
<1>2. g \in Groups /\ g = b[1]
  BY <1>0, <1>1, MemConsts DEF GroupInv
<1>3. PICK s : FreeAs(g, s)
  BY <1>1, <1>2 DEF FreeInv
<1>4. IsChain(freeList[g], link, s) /\ Chain(freeList[g], link) = s
  BY <1>3, ChainIs DEF FreeAs
<1>5. b \in Range(s) <=> holder[b] = "free"
  BY <1>2, <1>3, FreeFacts
<1>6. popped' \in Blocks \cup {Null}
  BY <1>1 DEF MemTypes
<1>7. CASE holder[b] = "free"
  <2>1. UNCHANGED <<link, freeList, avail, holder>>
    BY <1>0, <1>7, <1>4, <1>5 DEF GiveBack
  <2>2. MemTypes' /\ GroupInv' /\ EarlierInv'
    BY <2>1, <1>1, <1>6 DEF MemTypes, GroupInv, EarlierInv
  <2>3. FreeInv'
    BY <2>1, <1>1 DEF FreeInv, FreeAs
  <2>4. QueueInv'
    BY <2>1, <1>1 DEF QueueInv, QueueAs, Ordered, MayPrecede
  <2> QED BY <2>2, <2>3, <2>4 DEF MemInv
<1>8. CASE holder[b] = "held"
  <2>0. b \notin Range(s)
    BY <1>5, <1>8
  <2>1. /\ link' = [link EXCEPT ![b] = freeList[g]]
        /\ freeList' = [freeList EXCEPT ![g] = b]
        /\ avail' = [avail EXCEPT ![g] = @ + 1]
        /\ holder' = [holder EXCEPT ![b] = "free"]
    BY <1>0, <2>0, <1>4 DEF GiveBack
  <2>2. /\ \A x \in Blocks : /\ link'[x] = IF x = b THEN freeList[g] ELSE link[x]
                             /\ holder'[x] = IF x = b THEN "free" ELSE holder[x]
        /\ freeList'[g] = b /\ avail'[g] = avail[g] + 1
        /\ \A f \in Groups : f # g => freeList'[f] = freeList[f] /\ avail'[f] = avail[f]
    BY <2>1, <1>1, <1>2 DEF MemTypes
  <2>3. MemTypes'
    <3>1. freeList[g] \in Blocks \cup {Null} /\ avail[g] + 1 \in Nat
      BY <1>1, <1>2 DEF MemTypes
    <3>2. /\ link' \in [Blocks -> Blocks \cup {Null}]
          /\ freeList' \in [Groups -> Blocks \cup {Null}]
          /\ avail' \in [Groups -> Nat]
          /\ holder' \in [Blocks -> {"free", "held"} \cup Queues]
      BY <3>1, <2>1, <1>1 DEF MemTypes
    <3> QED BY <3>2, <1>1, <1>6 DEF MemTypes
  <2>4. FreeInv'
    <3> SUFFICES ASSUME NEW f \in Groups PROVE \E t : FreeAs(f, t)'
      BY DEF FreeInv
    <3>1. CASE f = g
      <4> DEFINE t == Insert(s, 0, b)
      <4>1. /\ Len(s) \in Nat /\ 0 \in 0 .. Len(s) /\ ~(0 > 0) /\ 0 = 0 /\ 0 + 1 = 1
            /\ \A i \in 1 .. Len(s) : s[i] \in Blocks /\ s[i] # b
            /\ freeList[g] = IF 0 < Len(s) THEN s[0 + 1] ELSE Null
        <5>1. \A i \in 1 .. Len(s) : s[i] \in Blocks /\ s[i] \in Range(s)
          BY <1>4, ChainFacts
        <5>2. Len(s) \in Nat /\ (freeList[g] = Null <=> Len(s) = 0) /\ (Len(s) # 0 => freeList[g] = s[1])
          BY <1>4, ChainFacts
        <5> QED BY <5>1, <5>2, <2>0
      <4>2. \A i \in 1 .. Len(s) : link'[s[i]] = link[s[i]]
        BY <4>1, <2>2
      <4>3. link'[b] = IF 0 < Len(s) THEN s[0 + 1] ELSE Null
        BY <4>1, <2>2
      <4>4. IsChain(b, link', t) /\ Len(t) = Len(s) + 1 /\ Range(t) = Range(s) \cup {b}
        BY <4>1, <4>2, <4>3, <1>4, <2>0, InsertChain
      <4> HIDE DEF t
      <4>5. Range(t) = {x \in Blocks : x[1] = g /\ holder'[x] = "free"}
        <5>1. Range(s) = {x \in Blocks : x[1] = g /\ holder[x] = "free"}
          BY <1>3 DEF FreeAs
        <5> QED BY <5>1, <4>4, <2>2, <1>2
      <4>6. FreeAs(g, t)'
        <5>1. avail[g] = Len(s)
          BY <1>3 DEF FreeAs
        <5> QED BY <5>1, <4>4, <4>5, <2>2 DEF FreeAs
      <4> QED BY <4>6, <3>1
    <3>2. CASE f # g
      <4>1. PICK t : FreeAs(f, t)
        BY <1>1 DEF FreeInv
      <4>2. \A x \in Range(t) : link'[x] = link[x]
        BY <4>1, <2>2, <1>2, <3>2, FreeFacts
      <4>3. \A x \in Blocks : x[1] = f => (holder'[x] = "free" <=> holder[x] = "free")
        BY <2>2, <1>2, <3>2
      <4>4. FreeAs(f, t)'
        BY <4>1, <4>2, <4>3, <2>2, <3>2, FreeSame
      <4> QED BY <4>4
    <3> QED BY <3>1, <3>2
  <2>5. QueueInv'
    <3> SUFFICES ASSUME NEW q \in Queues PROVE \E t : QueueAs(q, t)' /\ Ordered(q, t)'
      BY DEF QueueInv
    <3>1. PICK t : QueueAs(q, t) /\ Ordered(q, t)
      BY <1>1 DEF QueueInv
    <3>2. \A x \in Blocks : holder'[x] = q <=> holder[x] = q
      BY <2>2, <1>8, MemConsts
    <3>3. \A x \in Range(t) : link'[x] = link[x] /\ earlier'[x] = earlier[x]
      BY <3>1, <2>2, <1>8, MemConsts, QueueFacts
    <3>4. QueueAs(q, t)' /\ Ordered(q, t)'
      BY <3>1, <3>2, <3>3, QueueSame
    <3> QED BY <3>4
  <2>6. GroupInv'
    <3>1. \A x \in Blocks : holder'[x] = IF x = b THEN "free" ELSE holder[x]
      BY <2>2
    <3>2. groupIndex' = groupIndex
      OBVIOUS
    <3>3. popped' # Null => holder'[popped'] = "held"
      BY <3>1, <1>1, <1>6 DEF GroupInv
    <3> QED BY <3>1, <3>2, <3>3, <1>1 DEF GroupInv
  <2>7. EarlierInv'
    <3>1. \A x \in Blocks : holder[x] \in Queues => holder'[x] = holder[x]
      BY <2>2, <1>8, MemConsts
    <3>2. \A x \in Blocks : earlier[x] \subseteq Blocks
      BY <1>1 DEF MemTypes
    <3> QED BY <3>1, <3>2, <1>1 DEF EarlierInv
  <2> QED BY <2>3, <2>4, <2>5, <2>6, <2>7 DEF MemInv
<1> QED BY <1>7, <1>8

LEMMA FreeKeeps ==
  ASSUME MemInv, NEW b \in Blocks, Free(b)
  PROVE  MemInv'
BY GiveBackKeeps DEF Free, que

---------------------------------------------------------------------------
(* Queues *)

\* Where rawPush links an element in: behind the k-th, at the end without
\* priorities, else before the first element of a lower priority.
LEMMA AheadIs ==
  ASSUME MemInv, NEW q \in Queues, NEW b \in Blocks, NEW s, QueueAs(q, s)
  PROVE  \E k \in 0 .. Len(s) :
           /\ Ahead(q, b) = IF k = 0 THEN Null ELSE s[k]
           /\ q \notin PriQueues => k = Len(s)
           /\ q \in PriQueues => /\ \A i \in 1 .. k : Prio[s[i]] <= Prio[b]
                                 /\ k < Len(s) => Prio[b] < Prio[s[k + 1]]
<1> DEFINE Stops(k) == /\ \A i \in 1 .. k : Prio[s[i]] <= Prio[b]
                       /\ k < Len(s) => Prio[b] < Prio[s[k + 1]]
           n == CHOOSE k \in 0 .. Len(s) : Stops(k)
<1>1. Queue(q) = s /\ Len(s) \in Nat /\ IsChain(qHead[q], link, s)
  BY QueueFacts
<1>2. \A i \in 1 .. Len(s) : Prio[s[i]] \in Nat
  BY QueueFacts, MemConsts
<1>3. Prio[b] \in Nat
  BY MemConsts
<1>4. \E k \in 0 .. Len(s) : Stops(k)
  <2> DEFINE S == {k \in 0 .. Len(s) : k < Len(s) => Prio[b] < Prio[s[k + 1]]}
  <2>1. Len(s) \in S /\ S \subseteq Nat
    BY <1>1
  <2>2. PICK k \in S : \A y \in S : k <= y
    <3> HIDE DEF S
    <3> QED BY <2>1, LeastExists
  <2>3. k \in 0 .. Len(s) /\ k \in Nat /\ (k < Len(s) => Prio[b] < Prio[s[k + 1]])
    BY <2>2
  <2>4. ASSUME NEW i \in 1 .. k PROVE Prio[s[i]] <= Prio[b]
    <3>1. i - 1 \in 0 .. Len(s) /\ i - 1 < k /\ i - 1 < Len(s) /\ (i - 1) + 1 = i /\ i \in 1 .. Len(s)
      BY <2>3, <1>1
    <3>2. i - 1 \notin S
      <4> HIDE DEF S
      <4> QED BY <3>1, <2>2, <2>3, <2>1
    <3>3. ~(Prio[b] < Prio[s[i]])
      BY <3>1, <3>2
    <3> QED BY <3>1, <3>3, <1>2, <1>3
  <2> QED BY <2>3, <2>4
<1>5. n \in 0 .. Len(s) /\ Stops(n)
  <2> HIDE DEF Stops
  <2> QED BY <1>4
<1>6. Ahead(q, b) = IF qHead[q] = Null THEN Null
                    ELSE IF q \notin PriQueues THEN qTail[q]
                    ELSE IF n = 0 THEN Null ELSE s[n]
  BY <1>1 DEF Ahead
<1> HIDE DEF n
<1>7. CASE q \in PriQueues
  <2>1. qHead[q] = Null => n = 0
    BY <1>1, <1>5, ChainFacts
  <2>2. Ahead(q, b) = IF n = 0 THEN Null ELSE s[n]
    BY <2>1, <1>6, <1>7
  <2> QED BY <2>2, <1>5, <1>7
<1>8. CASE q \notin PriQueues
  <2> DEFINE k == Len(s)
  <2>1. k \in 0 .. Len(s)
    BY <1>1
  <2>2. Ahead(q, b) = IF k = 0 THEN Null ELSE s[k]
    BY <1>1, <1>6, <1>8, ChainFacts DEF QueueAs
  <2> QED BY <2>1, <2>2, <1>8
<1> QED BY <1>7, <1>8

LEMMA PushKeeps ==
  ASSUME MemInv, NEW q \in Queues, NEW b \in Blocks, Push(q, b)
  PROVE  MemInv'
<1>1. MemTypes /\ FreeInv /\ QueueInv /\ GroupInv /\ EarlierInv
  BY DEF MemInv
<1>2. PICK s : QueueAs(q, s) /\ Ordered(q, s)
  BY <1>1 DEF QueueInv
<1>3. PICK k \in 0 .. Len(s) :
           /\ Ahead(q, b) = IF k = 0 THEN Null ELSE s[k]
           /\ q \notin PriQueues => k = Len(s)
           /\ q \in PriQueues => /\ \A i \in 1 .. k : Prio[s[i]] <= Prio[b]
                                 /\ k < Len(s) => Prio[b] < Prio[s[k + 1]]
  BY <1>2, AheadIs
<1>4. /\ IsChain(qHead[q], link, s) /\ curNum[q] = Len(s) /\ Len(s) \in Nat
      /\ \A x \in Range(s) : x \in Blocks /\ holder[x] = q
      /\ \A i \in 1 .. Len(s) : s[i] \in Blocks /\ holder[s[i]] = q /\ s[i] # Null
  BY <1>2, QueueFacts, MemConsts
<1>5. holder[b] = "held" /\ b # popped /\ b \notin Range(s) /\ \A i \in 1 .. Len(s) : s[i] # b
  BY <1>4, MemConsts DEF Push
<1> DEFINE prev == IF k = 0 THEN Null ELSE s[k]
           succ == IF k < Len(s) THEN s[k + 1] ELSE Null
<1>6. /\ (prev = Null <=> k = 0) /\ (succ = Null <=> k = Len(s)) /\ prev # b
      /\ prev \in Blocks \cup {Null} /\ succ \in Blocks \cup {Null}
  BY <1>3, <1>4, <1>5, MemConsts
<1>7. succ = IF prev = Null THEN qHead[q] ELSE IF q \in PriQueues THEN link[prev] ELSE Null
  <2>1. CASE k = 0
    <3>1. succ = qHead[q]
      BY <2>1, <1>4, ChainFacts
    <3> QED BY <3>1, <2>1
  <2>2. CASE k # 0
    <3>1. k \in 1 .. Len(s) /\ prev = s[k] /\ prev # Null
      BY <2>2, <1>3, <1>4
    <3>2. link[s[k]] = succ
      BY <3>1, <1>4 DEF IsChain
    <3>3. q \notin PriQueues => succ = Null
      BY <1>3, <1>4
    <3> QED BY <3>1, <3>2, <3>3
  <2> QED BY <2>1, <2>2
<1>8. /\ qHead' = IF k = 0 THEN [qHead EXCEPT ![q] = b] ELSE qHead
      /\ link' = [x \in Blocks |-> IF x = b THEN succ ELSE IF x = prev THEN b ELSE link[x]]
      /\ qTail' = IF k = Len(s) THEN [qTail EXCEPT ![q] = b] ELSE qTail
      /\ curNum' = [curNum EXCEPT ![q] = @ + 1]
      /\ holder' = [holder EXCEPT ![b] = q]
      /\ earlier' = [earlier EXCEPT ![b] = {x \in Blocks : holder[x] = q}]
      /\ UNCHANGED <<freeList, avail, groupIndex, drain, popped>>
  <2> HIDE DEF succ
  <2>1. Ahead(q, b) = prev
    BY <1>3
  <2> HIDE DEF prev
  <2> QED BY <2>1, <1>6, <1>7 DEF Push
<1> HIDE DEF prev, succ
<1>9. /\ \A x \in Blocks : /\ link'[x] = IF x = b THEN succ ELSE IF x = prev THEN b ELSE link[x]
                           /\ holder'[x] = IF x = b THEN q ELSE holder[x]
                           /\ earlier'[x] = IF x = b THEN {y \in Blocks : holder[y] = q} ELSE earlier[x]
      /\ qHead'[q] = (IF k = 0 THEN b ELSE qHead[q])
      /\ qTail'[q] = (IF k = Len(s) THEN b ELSE qTail[q])
      /\ curNum'[q] = Len(s) + 1
      /\ \A r \in Queues : r # q => /\ qHead'[r] = qHead[r] /\ qTail'[r] = qTail[r]
                                    /\ curNum'[r] = curNum[r]
  BY <1>8, <1>1, <1>4 DEF MemTypes
<1>10. prev # Null => holder[prev] = q /\ prev \in Range(s)
  <2>1. k # 0 => k \in 1 .. Len(s)
    BY <1>3
  <2>2. \A i \in 1 .. Len(s) : s[i] \in Range(s)
    BY <1>4, ChainFacts
  <2> QED BY <2>1, <2>2, <1>4 DEF prev
<1>11. MemTypes'
  <2>1. /\ link' \in [Blocks -> Blocks \cup {Null}]
        /\ qHead' \in [Queues -> Blocks \cup {Null}] /\ qTail' \in [Queues -> Blocks \cup {Null}]
        /\ holder' \in [Blocks -> {"free", "held"} \cup Queues]
        /\ earlier' \in [Blocks -> SUBSET Blocks]
    BY <1>8, <1>6, <1>1 DEF MemTypes
  <2>2. curNum' \in [Queues -> Nat]
    BY <1>8, <1>1, <1>4 DEF MemTypes
  <2> QED BY <2>1, <2>2, <1>8, <1>1 DEF MemTypes
<1>12. FreeInv'
  <2> SUFFICES ASSUME NEW g \in Groups PROVE \E t : FreeAs(g, t)'
    BY DEF FreeInv
  <2>1. PICK t : FreeAs(g, t)
    BY <1>1 DEF FreeInv
  <2>2. \A x \in Range(t) : x \in Blocks /\ holder[x] = "free"
    BY <2>1, FreeFacts
  <2>3. \A x \in Range(t) : link'[x] = link[x]
    <3>1. q # "free" /\ "held" # "free"
      BY MemConsts
    <3>2. \A x \in Range(t) : x \in Blocks /\ x # Null /\ x # b
      BY <3>1, <2>2, <1>5, MemConsts
    <3>3. \A x \in Range(t) : x # prev
      BY <3>1, <3>2, <2>2, <1>10
    <3>4. \A x \in Blocks : x # b /\ x # prev => link'[x] = link[x]
      BY <1>9
    <3> QED BY <3>2, <3>3, <3>4
  <2>4. \A x \in Blocks : x[1] = g => (holder'[x] = "free" <=> holder[x] = "free")
    BY <1>9, <1>5, MemConsts
  <2>5. freeList'[g] = freeList[g] /\ avail'[g] = avail[g]
    BY <1>8
  <2>6. FreeAs(g, t)'
    BY <2>1, <2>3, <2>4, <2>5, FreeSame
  <2> QED BY <2>6
<1>13. QueueInv'
  <2> SUFFICES ASSUME NEW r \in Queues PROVE \E t : QueueAs(r, t)' /\ Ordered(r, t)'
    BY DEF QueueInv
  <2>1. CASE r = q
    <3> DEFINE t == Insert(s, k, b)
    <3>1. link'[b] = IF k < Len(s) THEN s[k + 1] ELSE Null
      BY <1>9 DEF succ
    <3>2. k > 0 => link'[s[k]] = b
      <4>1. k > 0 => prev = s[k] /\ s[k] \in Blocks /\ s[k] # b
        BY <1>3, <1>4, <1>5 DEF prev
      <4> QED BY <4>1, <1>9
    <3>3. \A i \in 1 .. Len(s) : i # k => link'[s[i]] = link[s[i]]
      <4>1. \A i \in 1 .. Len(s) : i # k => s[i] # prev
        <5>1. k # 0 => k \in 1 .. Len(s)
          BY <1>3
        <5>2. \A i, j \in 1 .. Len(s) : s[i] = s[j] => i = j
          BY <1>4, ChainFacts
        <5> QED BY <5>1, <5>2, <1>4 DEF prev
      <4> QED BY <4>1, <1>4, <1>5, <1>9
    <3>4. IsChain(IF k = 0 THEN b ELSE qHead[q], link', t)
          /\ Len(t) = Len(s) + 1 /\ Range(t) = Range(s) \cup {b}
      BY <3>1, <3>2, <3>3, <1>4, <1>5, InsertChain
    <3>5. \A i \in 1 .. Len(s) + 1 : t[i] = IF i <= k THEN s[i] ELSE IF i = k + 1 THEN b ELSE s[i - 1]
      BY DEF Insert
    <3> HIDE DEF t
    <3>6. QueueAs(q, t)'
      <4>1. Range(t) = {x \in Blocks : holder'[x] = q}
        <5>1. Range(s) = {x \in Blocks : holder[x] = q}
          BY <1>2 DEF QueueAs
        <5> QED BY <5>1, <3>4, <1>9
      <4>2. qTail'[q] = IF Len(t) = 0 THEN Null ELSE t[Len(t)]
        <5>0. Len(t) # 0 /\ Len(t) = Len(s) + 1 /\ Len(s) + 1 \in 1 .. Len(s) + 1
          BY <3>4, <1>4
        <5>1. CASE k = Len(s)
          <6>1. ~(Len(s) + 1 <= k) /\ Len(s) + 1 = k + 1
            BY <5>1, <1>4
          <6> QED BY <6>1, <5>0, <5>1, <3>5, <1>9
        <5>2. CASE k # Len(s)
          <6>1. ~(Len(s) + 1 <= k) /\ Len(s) + 1 # k + 1 /\ (Len(s) + 1) - 1 = Len(s) /\ Len(s) # 0
            BY <5>2, <1>3, <1>4
          <6>2. t[Len(s) + 1] = s[Len(s)]
            BY <6>1, <5>0, <3>5
          <6>3. qTail[q] = s[Len(s)]
            BY <6>1, <1>2 DEF QueueAs
          <6> QED BY <6>2, <6>3, <5>0, <5>2, <1>9
        <5> QED BY <5>1, <5>2
      <4> QED BY <4>1, <4>2, <3>4, <1>9 DEF QueueAs
    <3>7. Ordered(q, t)'
      <4> DEFINE at(i) == IF i <= k THEN i ELSE i - 1
      <4>1. \A i \in 1 .. Len(s) + 1 : i # k + 1 =>
              at(i) \in 1 .. Len(s) /\ t[i] = s[at(i)]
        BY <3>5, <1>3, <1>4
      <4>2. t[k + 1] = b
        BY <3>5, <1>3, <1>4
      <4>3. \A i \in 1 .. Len(s) : earlier'[s[i]] = earlier[s[i]] /\ s[i] \in earlier'[b]
        BY <1>9, <1>4, <1>5
      <4>4. \A i \in 1 .. Len(s) : Prio[s[i]] \in Nat
        BY <1>4, MemConsts
      <4>5. Prio[b] \in Nat
        BY MemConsts
      <4> SUFFICES ASSUME NEW i \in 1 .. Len(s) + 1, NEW j \in 1 .. Len(s) + 1, i < j
                   PROVE  MayPrecede(q, t[i], t[j])'
        BY <3>4 DEF Ordered
      <4>6. CASE i # k + 1 /\ j # k + 1
        <5>1. at(i) < at(j)
          BY <4>6, <1>3, <1>4
        <5> HIDE DEF at
        <5>2. MayPrecede(q, s[at(i)], s[at(j)])
          BY <5>1, <4>1, <4>6, <1>2 DEF Ordered
        <5> QED BY <5>2, <4>1, <4>3, <4>6 DEF MayPrecede
      <4>7. CASE j = k + 1
        <5>1. i \in 1 .. k /\ i \in 1 .. Len(s) /\ t[i] = s[i] /\ t[j] = b
          BY <4>7, <4>2, <3>5, <1>3, <1>4
        <5>2. q \in PriQueues => Prio[s[i]] <= Prio[b]
          BY <5>1, <1>3
        <5> QED BY <5>1, <5>2, <4>3, <4>4, <4>5 DEF MayPrecede
      <4>8. CASE i = k + 1
        <5>1. /\ j - 1 \in 1 .. Len(s) /\ t[j] = s[j - 1] /\ t[i] = b
              /\ k + 1 \in 1 .. Len(s) /\ k + 1 <= j - 1 /\ k < Len(s)
          BY <4>8, <4>2, <3>5, <1>3, <1>4
        <5>2. q \in PriQueues /\ Prio[b] < Prio[s[k + 1]]
          BY <5>1, <1>3, <1>4
        <5>3. Prio[s[k + 1]] <= Prio[s[j - 1]]
          <6>1. CASE k + 1 = j - 1
            BY <6>1, <5>1, <4>4
          <6>2. CASE k + 1 < j - 1
            <7>1. MayPrecede(q, s[k + 1], s[j - 1])
              BY <6>2, <5>1, <1>2 DEF Ordered
            <7> QED BY <7>1, <5>1, <5>2, <4>4 DEF MayPrecede
          <6> QED BY <6>1, <6>2, <5>1, <1>3, <1>4
        <5>4. Prio[b] < Prio[s[j - 1]]
          BY <5>1, <5>2, <5>3, <4>4, <4>5
        <5> QED BY <5>1, <5>2, <5>4, <4>4, <4>5 DEF MayPrecede
      <4> QED BY <4>6, <4>7, <4>8
    <3> QED BY <3>6, <3>7, <2>1
  <2>2. CASE r # q
    <3>1. PICK t : QueueAs(r, t) /\ Ordered(r, t)
      BY <1>1 DEF QueueInv
    <3>2. \A x \in Range(t) : x \in Blocks /\ holder[x] = r
      BY <3>1, QueueFacts
    <3>3. \A x \in Range(t) : link'[x] = link[x] /\ earlier'[x] = earlier[x]
      <4>1. r # "held"
        BY MemConsts
      <4>2. \A x \in Range(t) : x \in Blocks /\ x # Null /\ x # b
        BY <4>1, <3>2, <1>5, MemConsts
      <4>3. \A x \in Range(t) : x # prev
        BY <4>2, <3>2, <2>2, <1>10
      <4>4. \A x \in Blocks : x # b /\ x # prev => link'[x] = link[x] /\ earlier'[x] = earlier[x]
        BY <1>9
      <4> QED BY <4>2, <4>3, <4>4
    <3>4. \A x \in Blocks : holder'[x] = r <=> holder[x] = r
      BY <1>9, <1>5, <2>2, MemConsts
    <3>5. qHead'[r] = qHead[r] /\ qTail'[r] = qTail[r] /\ curNum'[r] = curNum[r]
      BY <1>9, <2>2
    <3>6. QueueAs(r, t)' /\ Ordered(r, t)'
      BY <3>1, <3>3, <3>4, <3>5, QueueSame
    <3> QED BY <3>6
  <2> QED BY <2>1, <2>2
<1>14. GroupInv'
  <2>1. groupIndex' = groupIndex /\ popped' = popped /\ popped \in Blocks \cup {Null}
    BY <1>8, <1>1 DEF MemTypes
  <2> QED BY <2>1, <1>9, <1>5, <1>1 DEF GroupInv
<1>15. EarlierInv'
  <2> SUFFICES ASSUME NEW x \in Blocks, NEW y \in earlier'[x]
               PROVE  /\ y # x /\ holder'[x] \in Queues /\ holder'[y] = holder'[x]
                      /\ x \notin earlier'[y]
    BY DEF EarlierInv
  <2>0. \A z \in Blocks : earlier[z] \subseteq Blocks
    BY <1>1 DEF MemTypes
  <2>1. \A z \in Blocks : b \notin earlier[z]
    BY <1>1, <1>5, MemConsts DEF EarlierInv
  <2>2. CASE x = b
    <3>0. y \in {z \in Blocks : holder[z] = q} /\ q # "held"
      BY <2>2, <1>9, MemConsts
    <3>1. y \in Blocks /\ holder[y] = q /\ y # b
      BY <3>0, <1>5
    <3> QED BY <3>1, <2>1, <2>2, <1>9
  <2>3. CASE x # b
    <3>1. y \in earlier[x] /\ y \in Blocks /\ y # b
      BY <2>3, <2>0, <2>1, <1>9
    <3>2. y # x /\ holder[x] \in Queues /\ holder[y] = holder[x] /\ x \notin earlier[y]
      BY <3>1, <1>1 DEF EarlierInv
    <3> QED BY <3>1, <3>2, <2>3, <1>9
  <2> QED BY <2>2, <2>3
<1> QED BY <1>11, <1>12, <1>13, <1>14, <1>15 DEF MemInv

\* The k-th element of a queue leaves it.
Taken(q, s, k) ==
  /\ link' = [x \in Blocks |-> IF k > 1 /\ x = s[k - 1] THEN link[s[k]] ELSE link[x]]
  /\ qHead' = [qHead EXCEPT ![q] = IF k = 1 THEN link[s[k]] ELSE @]
  /\ qTail' = [qTail EXCEPT ![q] = IF k < Len(s) THEN @ ELSE IF k = 1 THEN Null ELSE s[k - 1]]
  /\ curNum' = [curNum EXCEPT ![q] = @ - 1]
  /\ Leaves(s[k])
  /\ UNCHANGED <<freeList, avail, groupIndex>>

LEMMA TakenKeeps ==
  ASSUME MemInv, NEW q \in Queues, NEW s, QueueAs(q, s), Ordered(q, s),
         NEW k \in 1 .. Len(s), Taken(q, s, k), drain' \in Queues \cup {Null},
         popped' = Null \/ popped' = s[k] \/ popped' = popped
  PROVE  MemInv'
<1>1. MemTypes /\ FreeInv /\ QueueInv /\ GroupInv /\ EarlierInv
  BY DEF MemInv
<1>2. /\ IsChain(qHead[q], link, s) /\ curNum[q] = Len(s) /\ Len(s) \in Nat
      /\ \A x \in Range(s) : x \in Blocks /\ holder[x] = q
      /\ \A i \in 1 .. Len(s) : s[i] \in Blocks /\ holder[s[i]] = q /\ s[i] # Null
  BY QueueFacts, MemConsts
<1>3. \A i, j \in 1 .. Len(s) : s[i] = s[j] => i = j
  BY <1>2, ChainFacts
<1>4. k \in Nat /\ k >= 1 /\ k <= Len(s) /\ Len(s) # 0 /\ (k > 1 => k - 1 \in 1 .. Len(s))
  BY <1>2
<1>5. PICK b \in Blocks : b = s[k]
  BY <1>2
<1>6. holder[b] = q /\ b \in Range(s) /\ q # "free" /\ q # "held"
  BY <1>2, <1>5, ChainFacts, MemConsts
<1>7. link[b] \in Blocks \cup {Null} /\ (k > 1 => s[k - 1] \in Blocks /\ s[k - 1] \in Range(s))
  BY <1>1, <1>2, <1>4, <1>5, ChainFacts DEF MemTypes
<1>8. /\ \A x \in Blocks : /\ link'[x] = IF k > 1 /\ x = s[k - 1] THEN link[b] ELSE link[x]
                           /\ holder'[x] = IF x = b THEN "held" ELSE holder[x]
                           /\ earlier'[x] = IF x = b THEN {} ELSE earlier[x] \ {b}
      /\ qHead'[q] = (IF k = 1 THEN link[b] ELSE qHead[q])
      /\ qTail'[q] = (IF k < Len(s) THEN qTail[q] ELSE IF k = 1 THEN Null ELSE s[k - 1])
      /\ curNum'[q] = Len(s) - 1
      /\ \A r \in Queues : r # q => /\ qHead'[r] = qHead[r] /\ qTail'[r] = qTail[r]
                                    /\ curNum'[r] = curNum[r]
  BY <1>1, <1>2, <1>5 DEF Taken, Leaves, MemTypes
<1>9. MemTypes'
  <2>1. link' \in [Blocks -> Blocks \cup {Null}]
    BY <1>1, <1>5, <1>7 DEF Taken, MemTypes
  <2>2. qHead' \in [Queues -> Blocks \cup {Null}] /\ qTail' \in [Queues -> Blocks \cup {Null}]
    BY <1>1, <1>4, <1>5, <1>7 DEF Taken, MemTypes
  <2>3. curNum' \in [Queues -> Nat]
    <3> Len(s) - 1 \in Nat
      BY <1>2, <1>4
    <3> QED BY <1>1, <1>2 DEF Taken, MemTypes
  <2>4. holder' \in [Blocks -> {"free", "held"} \cup Queues] /\ earlier' \in [Blocks -> SUBSET Blocks]
    BY <1>1, <1>5 DEF Taken, Leaves, MemTypes
  <2>5. popped' \in Blocks \cup {Null}
    BY <1>1, <1>5 DEF MemTypes
  <2> QED BY <2>1, <2>2, <2>3, <2>4, <2>5, <1>1 DEF Taken, MemTypes
<1>10. FreeInv'
  <2> SUFFICES ASSUME NEW g \in Groups PROVE \E t : FreeAs(g, t)'
    BY DEF FreeInv
  <2>1. PICK t : FreeAs(g, t)
    BY <1>1 DEF FreeInv
  <2>2. \A x \in Range(t) : x \in Blocks /\ holder[x] = "free"
    BY <2>1, FreeFacts
  <2>3. \A x \in Range(t) : link'[x] = link[x]
    <3>1. k > 1 => holder[s[k - 1]] = q
      BY <1>2, <1>4
    <3>2. \A x \in Range(t) : x \in Blocks /\ ~(k > 1 /\ x = s[k - 1])
      BY <3>1, <2>2, <1>6
    <3>3. \A x \in Blocks : ~(k > 1 /\ x = s[k - 1]) => link'[x] = link[x]
      BY <1>8
    <3> QED BY <3>2, <3>3
  <2>4. \A x \in Blocks : x[1] = g => (holder'[x] = "free" <=> holder[x] = "free")
    BY <1>6, <1>8
  <2>5. freeList'[g] = freeList[g] /\ avail'[g] = avail[g]
    BY DEF Taken
  <2>6. FreeAs(g, t)'
    BY <2>1, <2>3, <2>4, <2>5, FreeSame
  <2> QED BY <2>6
<1>11. QueueInv'
  <2> SUFFICES ASSUME NEW r \in Queues PROVE \E t : QueueAs(r, t)' /\ Ordered(r, t)'
    BY DEF QueueInv
  <2>1. CASE r = q
    <3> DEFINE t == Remove(s, k)
    <3>1. k > 1 => link'[s[k - 1]] = link[s[k]]
      BY <1>5, <1>7, <1>8
    <3>2. \A i \in 1 .. Len(s) : i # k - 1 /\ i # k => link'[s[i]] = link[s[i]]
      BY <1>2, <1>3, <1>4, <1>8
    <3>3. IsChain(IF k = 1 THEN link[qHead[q]] ELSE qHead[q], link', t)
          /\ Len(t) = Len(s) - 1 /\ Range(t) = Range(s) \ {s[k]}
      BY <3>1, <3>2, <1>2, RemoveChain
    <3>4. k = 1 => qHead[q] = b
      BY <1>2, <1>4, <1>5, ChainFacts
    <3>5. \A i \in 1 .. Len(s) - 1 : t[i] = IF i < k THEN s[i] ELSE s[i + 1]
      BY DEF Remove
    <3> HIDE DEF t
    <3>6. QueueAs(q, t)'
      <4>1. Range(t) = {x \in Blocks : holder'[x] = q}
        <5>1. Range(s) = {x \in Blocks : holder[x] = q}
          BY DEF QueueAs
        <5>2. \A x \in Blocks : holder'[x] = IF x = b THEN "held" ELSE holder[x]
          BY <1>8
        <5>3. Range(t) = Range(s) \ {b}
          BY <3>3, <1>5
        <5> QED BY <5>1, <5>2, <5>3, <1>6
      <4>2. qTail'[q] = IF Len(t) = 0 THEN Null ELSE t[Len(t)]
        <5>1. CASE k < Len(s)
          <6>1. /\ Len(s) - 1 # 0 /\ Len(s) - 1 \in 1 .. Len(s) - 1 /\ ~(Len(s) - 1 < k)
                /\ (Len(s) - 1) + 1 = Len(s)
            BY <5>1, <1>2, <1>4
          <6>2. t[Len(s) - 1] = s[Len(s)]
            BY <6>1, <3>5
          <6>3. qTail[q] = s[Len(s)]
            BY <1>4 DEF QueueAs
          <6> QED BY <6>1, <6>2, <6>3, <5>1, <3>3, <1>8
        <5>2. CASE k = Len(s) /\ k = 1
          <6>1. ~(k < Len(s)) /\ Len(s) - 1 = 0
            BY <5>2
          <6>2. Len(t) = 0
            BY <6>1, <3>3
          <6> QED BY <6>1, <6>2, <5>2, <1>8
        <5>3. CASE k = Len(s) /\ k > 1
          <6>1. Len(s) - 1 # 0 /\ Len(s) - 1 \in 1 .. Len(s) - 1 /\ Len(s) - 1 < k
            BY <5>3, <1>2, <1>4
          <6>2. t[Len(s) - 1] = s[Len(s) - 1]
            BY <6>1, <3>5
          <6> QED BY <6>1, <6>2, <5>3, <3>3, <1>8
        <5> QED BY <5>1, <5>2, <5>3, <1>4, <1>2
      <4>3. IsChain(qHead'[q], link', t)
        BY <3>3, <3>4, <1>8
      <4> QED BY <4>1, <4>2, <4>3, <3>3, <1>8 DEF QueueAs
    <3>7. Ordered(q, t)'
      <4> DEFINE at(i) == IF i < k THEN i ELSE i + 1
      <4>1. \A i \in 1 .. Len(s) - 1 : at(i) \in 1 .. Len(s) /\ at(i) # k /\ t[i] = s[at(i)]
        BY <3>5, <1>2, <1>4
      <4>2. \A i \in 1 .. Len(s) : i # k => s[i] # b /\ earlier'[s[i]] = earlier[s[i]] \ {b}
        <5>1. \A i \in 1 .. Len(s) : i # k => s[i] # b /\ s[i] \in Blocks
          BY <1>2, <1>3, <1>5
        <5>2. \A x \in Blocks : x # b => earlier'[x] = earlier[x] \ {b}
          BY <1>8
        <5> QED BY <5>1, <5>2
      <4> SUFFICES ASSUME NEW i \in 1 .. Len(s) - 1, NEW j \in 1 .. Len(s) - 1, i < j
                   PROVE  MayPrecede(q, t[i], t[j])'
        BY <3>3 DEF Ordered
      <4>3. at(i) < at(j)
        BY <1>2, <1>4
      <4> HIDE DEF at
      <4>4. MayPrecede(q, s[at(i)], s[at(j)])
        BY <4>1, <4>3 DEF Ordered
      <4>5. /\ earlier'[t[j]] = earlier[s[at(j)]] \ {b} /\ t[i] # b
            /\ t[i] = s[at(i)] /\ t[j] = s[at(j)]
        BY <4>1, <4>2
      <4> QED BY <4>4, <4>5 DEF MayPrecede
    <3> QED BY <3>6, <3>7, <2>1
  <2>2. CASE r # q
    <3>1. PICK t : QueueAs(r, t) /\ Ordered(r, t)
      BY <1>1 DEF QueueInv
    <3>2. \A x \in Range(t) : x \in Blocks /\ holder[x] = r
      BY <3>1, QueueFacts
    <3>3. \A x \in Range(t) : x # b /\ (k > 1 => x # s[k - 1])
      BY <3>2, <2>2, <1>2, <1>4, <1>6
    <3>4. \A x \in Range(t) : link'[x] = link[x]
      BY <3>2, <3>3, <1>8
    <3>5. \A x \in Range(t) : earlier'[x] = earlier[x]
      <4> TAKE x \in Range(t)
      <4>1. b \in earlier[x] => holder[b] = holder[x]
        BY <3>2, <1>1 DEF EarlierInv
      <4>2. b \notin earlier[x]
        BY <4>1, <3>2, <2>2, <1>6
      <4>3. earlier'[x] = earlier[x] \ {b}
        BY <3>2, <3>3, <1>8
      <4> QED BY <4>2, <4>3
    <3>6. \A x \in Blocks : holder'[x] = r <=> holder[x] = r
      BY <1>8, <1>6, <2>2, MemConsts
    <3>7. qHead'[r] = qHead[r] /\ qTail'[r] = qTail[r] /\ curNum'[r] = curNum[r]
      BY <1>8, <2>2
    <3>8. QueueAs(r, t)' /\ Ordered(r, t)'
      BY <3>1, <3>4, <3>5, <3>6, <3>7, QueueSame
    <3> QED BY <3>8
  <2> QED BY <2>1, <2>2
<1>12. GroupInv'
  <2>1. groupIndex' = groupIndex
    BY DEF Taken
  <2>2. popped' # Null => holder'[popped'] = "held"
    BY <1>1, <1>5, <1>8 DEF GroupInv, MemTypes
  <2>3. \A x \in Blocks : holder'[x] # "free" => holder[x] # "free"
    BY <1>6, <1>8
  <2> QED BY <2>1, <2>2, <2>3, <1>1 DEF GroupInv
<1>13. EarlierInv'
  <2> SUFFICES ASSUME NEW x \in Blocks, NEW y \in earlier'[x]
               PROVE  /\ y # x /\ holder'[x] \in Queues /\ holder'[y] = holder'[x]
                      /\ x \notin earlier'[y]
    BY DEF EarlierInv
  <2>0. earlier'[x] = (IF x = b THEN {} ELSE earlier[x] \ {b}) /\ earlier[x] \subseteq Blocks
    BY <1>1, <1>8 DEF MemTypes
  <2>1. x # b /\ y \in earlier[x] /\ y # b /\ y \in Blocks
    BY <2>0
  <2>2. y # x /\ holder[x] \in Queues /\ holder[y] = holder[x] /\ x \notin earlier[y]
    BY <2>1, <1>1 DEF EarlierInv
  <2>3. earlier'[y] = earlier[y] \ {b} /\ holder'[x] = holder[x] /\ holder'[y] = holder[y]
    BY <2>1, <1>8
  <2> QED BY <2>1, <2>2, <2>3
<1> QED BY <1>9, <1>10, <1>11, <1>12, <1>13 DEF MemInv

\* rawPop takes the first element.
LEMMA TakeHeadTaken ==
  ASSUME MemInv, NEW q \in Queues, qHead[q] # Null, TakeHead(q),
         UNCHANGED <<link, freeList, avail, groupIndex>>
  PROVE  \E s : /\ QueueAs(q, s) /\ Ordered(q, s) /\ 1 \in 1 .. Len(s)
                /\ Taken(q, s, 1) /\ s[1] = qHead[q]
<1>1. MemTypes
  BY DEF MemInv
<1>2. PICK s : QueueAs(q, s) /\ Ordered(q, s)
  BY DEF MemInv, QueueInv
<1>3. /\ IsChain(qHead[q], link, s) /\ curNum[q] = Len(s) /\ Len(s) \in Nat
      /\ Len(s) # 0 /\ qHead[q] = s[1] /\ 1 \in 1 .. Len(s)
  BY <1>2, QueueFacts, ChainFacts
<1>4. link[s[1]] = IF 1 < Len(s) THEN s[1 + 1] ELSE Null
  BY <1>3 DEF IsChain
<1>5. qTail[q] = s[Len(s)] /\ (qTail[q] = s[1] <=> Len(s) = 1)
  <2>1. \A i, j \in 1 .. Len(s) : s[i] = s[j] => i = j
    BY <1>3, ChainFacts
  <2>2. Len(s) \in 1 .. Len(s)
    BY <1>3
  <2> QED BY <2>1, <2>2, <1>2, <1>3 DEF QueueAs
<1>6. ~(1 > 1) /\ (1 < Len(s) <=> Len(s) # 1) /\ (Len(s) - 1 = 0 <=> Len(s) = 1)
  <2> Len(s) \in Nat /\ Len(s) # 0
    BY <1>3
  <2> QED OBVIOUS
<1>7. link' = [x \in Blocks |-> IF 1 > 1 /\ x = s[1 - 1] THEN link[s[1]] ELSE link[x]]
  BY <1>1, <1>6 DEF MemTypes
<1>8. qHead' = [qHead EXCEPT ![q] = IF 1 = 1 THEN link[s[1]] ELSE @]
  BY <1>3, <1>4, <1>6 DEF TakeHead
<1>9. qTail' = [qTail EXCEPT ![q] = IF 1 < Len(s) THEN @ ELSE IF 1 = 1 THEN Null ELSE s[1 - 1]]
  BY <1>3, <1>5, <1>6 DEF TakeHead
<1>10. curNum' = [curNum EXCEPT ![q] = @ - 1] /\ Leaves(s[1])
  BY <1>3 DEF TakeHead
<1>11. Taken(q, s, 1)
  BY <1>7, <1>8, <1>9, <1>10 DEF Taken
<1> QED BY <1>2, <1>3, <1>11

LEMMA PopKeeps ==
  ASSUME MemInv, NEW q \in Queues, Pop(q)
  PROVE  MemInv'
<1>1. qHead[q] # Null /\ TakeHead(q) /\ UNCHANGED <<link, freeList, avail, groupIndex, drain, popped>>
  BY DEF Pop, mem
<1>2. PICK s : QueueAs(q, s) /\ Ordered(q, s) /\ 1 \in 1 .. Len(s) /\ Taken(q, s, 1)
  BY <1>1, TakeHeadTaken
<1>3. drain' \in Queues \cup {Null}
  BY <1>1 DEF MemInv, MemTypes
<1> QED BY <1>1, <1>2, <1>3, TakenKeeps

LEMMA DeleteKeeps ==
  ASSUME MemInv, NEW q \in Queues, NEW b \in Blocks, Delete(q, b)
  PROVE  MemInv'
<1>1. MemTypes
  BY DEF MemInv
<1>2. PICK s : QueueAs(q, s) /\ Ordered(q, s)
  BY DEF MemInv, QueueInv
<1>3. Queue(q) = s /\ IsChain(qHead[q], link, s) /\ Len(s) \in Nat
  BY <1>2, QueueFacts
<1>4. PICK k \in 1 .. Len(s) : b = s[k]
  BY <1>3, ChainFacts DEF Delete
<1>5. /\ \A i \in 1 .. Len(s) : s[i] \in Blocks /\ s[i] # Null
      /\ \A i, j \in 1 .. Len(s) : s[i] = s[j] => i = j
      /\ Range(s) = {s[i] : i \in 1 .. Len(s)} /\ qHead[q] = s[1] /\ 1 \in 1 .. Len(s)
  BY <1>3, <1>4, ChainFacts
<1>6. /\ k \in Nat /\ k >= 1 /\ k <= Len(s) /\ (k > 1 <=> k # 1) /\ (k < Len(s) <=> k # Len(s))
      /\ k > 1 => k - 1 \in 1 .. Len(s) /\ (k - 1) + 1 = k /\ k - 1 < Len(s)
  BY <1>3
<1>7. link[b] = (IF k < Len(s) THEN s[k + 1] ELSE Null) /\ (link[b] = Null <=> k = Len(s))
  <2>1. link[b] = IF k < Len(s) THEN s[k + 1] ELSE Null
    BY <1>3, <1>4 DEF IsChain
  <2>2. k < Len(s) => k + 1 \in 1 .. Len(s)
    BY <1>3
  <2> QED BY <2>1, <2>2, <1>5, <1>6
<1> DEFINE prev == IF qHead[q] = b THEN Null
                   ELSE CHOOSE x \in Range(Queue(q)) : link[x] = b
<1>8. prev = IF k = 1 THEN Null ELSE s[k - 1]
  <2>1. qHead[q] = b <=> k = 1
    BY <1>4, <1>5
  <2>2. CASE k = 1
    BY <2>1, <2>2
  <2>3. CASE k # 1
    <3>1. k - 1 \in 1 .. Len(s) /\ k - 1 < Len(s) /\ (k - 1) + 1 = k
      BY <2>3, <1>6
    <3>2. link[s[k - 1]] = b /\ s[k - 1] \in Range(s)
      <4>1. link[s[k - 1]] = IF k - 1 < Len(s) THEN s[(k - 1) + 1] ELSE Null
        BY <3>1, <1>3 DEF IsChain
      <4> QED BY <4>1, <3>1, <1>4, <1>5
    <3>3. ASSUME NEW x \in Range(s), link[x] = b PROVE x = s[k - 1]
      <4>1. PICK i \in 1 .. Len(s) : x = s[i]
        BY <1>5
      <4>2. link[s[i]] = IF i < Len(s) THEN s[i + 1] ELSE Null
        BY <1>3 DEF IsChain
      <4>3. b # Null
        BY <1>4, <1>5
      <4>4. i < Len(s) /\ s[i + 1] = s[k] /\ i + 1 \in 1 .. Len(s)
        BY <4>1, <4>2, <4>3, <3>3, <1>3, <1>4
      <4>5. i + 1 = k
        BY <4>4, <1>5
      <4>6. i = k - 1
        BY <4>5, <1>6
      <4> QED BY <4>1, <4>6
    <3> DEFINE c == CHOOSE x \in Range(Queue(q)) : link[x] = b
    <3>4. c \in Range(Queue(q)) /\ link[c] = b
      <4>1. \E x \in Range(Queue(q)) : link[x] = b
        BY <3>2, <1>3
      <4> QED BY <4>1
    <3>5. c = s[k - 1]
      <4> HIDE DEF c
      <4> QED BY <3>3, <3>4, <1>3
    <3>6. prev = c
      BY <2>1, <2>3
    <3> QED BY <3>5, <3>6, <2>3
  <2> QED BY <2>2, <2>3
<1>9. prev = Null <=> k = 1
  BY <1>5, <1>6, <1>8
<1>10. /\ qHead' = IF prev = Null THEN [qHead EXCEPT ![q] = link[b]] ELSE qHead
       /\ link' = IF prev = Null THEN link ELSE [link EXCEPT ![prev] = link[b]]
       /\ qTail' = IF link[b] = Null THEN [qTail EXCEPT ![q] = prev] ELSE qTail
  BY DEF Delete, Unlink
<1> HIDE DEF prev
<1>11. link' = [x \in Blocks |-> IF k > 1 /\ x = s[k - 1] THEN link[s[k]] ELSE link[x]]
  <2>1. CASE k = 1
    BY <2>1, <1>1, <1>6, <1>9, <1>10 DEF MemTypes
  <2>2. CASE k # 1
    <3>1. link' = [link EXCEPT ![s[k - 1]] = link[s[k]]]
      BY <2>2, <1>4, <1>8, <1>9, <1>10
    <3> QED BY <3>1, <2>2, <1>1, <1>6 DEF MemTypes
  <2> QED BY <2>1, <2>2
<1>12. qHead' = [qHead EXCEPT ![q] = IF k = 1 THEN link[s[k]] ELSE @]
  BY <1>1, <1>4, <1>9, <1>10 DEF MemTypes
<1>13. qTail' = [qTail EXCEPT ![q] = IF k < Len(s) THEN @ ELSE IF k = 1 THEN Null ELSE s[k - 1]]
  BY <1>1, <1>6, <1>7, <1>8, <1>10 DEF MemTypes
<1>14. Taken(q, s, k)
  BY <1>4, <1>11, <1>12, <1>13 DEF Taken, Delete
<1>15. drain' \in Queues \cup {Null} /\ popped' = popped
  BY <1>1 DEF MemTypes, Delete
<1> QED BY <1>2, <1>14, <1>15, TakenKeeps

LEMMA FreeQKeeps ==
  ASSUME MemInv, NEW q \in Queues, FreeQ(q)
  PROVE  MemInv'
<1>1. UNCHANGED <<link, freeList, avail, groupIndex, qHead, qTail, curNum, popped, holder, earlier>>
  BY DEF FreeQ, mem, que
<1>2. MemTypes' /\ GroupInv' /\ EarlierInv'
  BY <1>1 DEF FreeQ, MemInv, MemTypes, GroupInv, EarlierInv
<1>3. FreeInv'
  BY <1>1 DEF MemInv, FreeInv, FreeAs
<1>4. QueueInv'
  BY <1>1 DEF MemInv, QueueInv, QueueAs, Ordered, MayPrecede
<1> QED BY <1>2, <1>3, <1>4 DEF MemInv

LEMMA FreeQPopKeeps ==
  ASSUME MemInv, FreeQPop
  PROVE  MemInv'
<1>1. PICK q \in Queues : q = drain
  BY DEF FreeQPop, MemInv, MemTypes
<1>2. UNCHANGED <<link, freeList, avail, groupIndex>>
  BY DEF FreeQPop, mem
<1>3. CASE qHead[q] = Null
  <2>1. drain' = Null /\ UNCHANGED <<qHead, qTail, curNum, popped, holder, earlier>>
    BY <1>1, <1>3 DEF FreeQPop, que
  <2>2. MemTypes' /\ GroupInv' /\ EarlierInv'
    BY <2>1, <1>2 DEF MemInv, MemTypes, GroupInv, EarlierInv
  <2>3. FreeInv'
    BY <2>1, <1>2 DEF MemInv, FreeInv, FreeAs
  <2>4. QueueInv'
    BY <2>1, <1>2 DEF MemInv, QueueInv, QueueAs, Ordered, MayPrecede
  <2> QED BY <2>2, <2>3, <2>4 DEF MemInv
<1>4. CASE qHead[q] # Null
  <2>1. popped' = qHead[q] /\ TakeHead(q) /\ drain' = drain
    BY <1>1, <1>4 DEF FreeQPop
  <2>2. PICK s : /\ QueueAs(q, s) /\ Ordered(q, s) /\ 1 \in 1 .. Len(s)
                 /\ Taken(q, s, 1) /\ s[1] = qHead[q]
    BY <2>1, <1>2, <1>4, TakeHeadTaken
  <2>3. drain' \in Queues \cup {Null} /\ popped' = s[1]
    BY <2>1, <2>2, <1>1
  <2> QED BY <2>2, <2>3, TakenKeeps
<1> QED BY <1>3, <1>4

LEMMA FreeQFreeKeeps ==
  ASSUME MemInv, FreeQFree
  PROVE  MemInv'
<1>1. PICK b \in Blocks : b = popped
  BY DEF FreeQFree, MemInv, MemTypes
<1>2. GiveBack(b) /\ popped' = Null /\ UNCHANGED <<groupIndex, qHead, qTail, curNum, drain, earlier>>
  BY <1>1 DEF FreeQFree, que
<1>3. holder[b] = "held" /\ groupIndex[b] = b[1]
  BY <1>1, MemConsts DEF MemInv, GroupInv
<1>4. groupIndex[b] # Null
  BY <1>3, MemConsts
<1> QED BY <1>2, <1>3, <1>4, GiveBackKeeps

---------------------------------------------------------------------------
(* The theorems *)

LEMMA MemInitInv == MemInit => MemInv
<1> SUFFICES ASSUME MemInit PROVE MemInv
  OBVIOUS
<1>1. \A b \in Blocks : \E g \in Groups : \E n \in 1 .. Count[g] : b = <<g, n>>
  BY DEF Blocks
<1>2. \A g \in Groups : Count[g] \in Nat /\ Count[g] # 0
  BY MemAssumption
<1>3. \A g \in Groups : \A n \in 1 .. Count[g] : <<g, n>> \in Blocks
  BY DEF Blocks
<1>4. link \in [Blocks -> Blocks \cup {Null}]
  <2>1. ASSUME NEW b \in Blocks PROVE link[b] \in Blocks \cup {Null}
    <3>0. PICK g \in Groups : \E n \in 1 .. Count[g] : b = <<g, n>>
      BY <1>1
    <3>1. PICK n \in 1 .. Count[g] : b = <<g, n>>
      BY <3>0
    <3>2. b[1] = g /\ b[2] = n
      BY <3>1
    <3>3. n < Count[g] => n + 1 \in 1 .. Count[g]
      BY <1>2
    <3>4. n < Count[g] => <<g, n + 1>> \in Blocks
      BY <3>3, <1>3
    <3>5. link[b] = IF b[2] < Count[b[1]] THEN <<b[1], b[2] + 1>> ELSE Null
      BY DEF MemInit
    <3> QED BY <3>2, <3>4, <3>5
  <2>2. link = [b \in Blocks |-> link[b]]
    BY DEF MemInit
  <2> QED BY <2>1, <2>2
<1>5. \A g \in Groups : <<g, 1>> \in Blocks
  <2> TAKE g \in Groups
  <2> 1 \in 1 .. Count[g]
    BY <1>2
  <2> QED BY <1>3
<1>6. MemTypes
  <2>1. freeList \in [Groups -> Blocks \cup {Null}]
    BY <1>5 DEF MemInit
  <2>2. avail \in [Groups -> Nat]
    BY MemAssumption DEF MemInit
  <2> QED BY <2>1, <2>2, <1>4 DEF MemInit, MemTypes
<1>7. FreeInv
  <2> SUFFICES ASSUME NEW g \in Groups PROVE \E s : FreeAs(g, s)
    BY DEF FreeInv
  <2> DEFINE n == Count[g]
             s == [i \in 1 .. n |-> <<g, i>>]
  <2>1. n \in Nat /\ n # 0
    BY <1>2
  <2>2. s \in [1 .. n -> Blocks] /\ \A i \in 1 .. n : s[i] = <<g, i>>
    BY <1>3
  <2> HIDE DEF s
  <2>3. s \in Seq(Blocks) /\ Len(s) = n /\ DOMAIN s = 1 .. n /\ s # <<>>
    BY <2>1, <2>2
  <2>4. IsInjective(s)
    <3> SUFFICES ASSUME NEW i \in 1 .. n, NEW j \in 1 .. n, s[i] = s[j] PROVE i = j
      BY <2>3 DEF IsInjective
    <3>1. s[i][2] = i /\ s[j][2] = j
      BY <2>2
    <3> QED BY <3>1
  <2>5. \A i \in 1 .. Len(s) : link[s[i]] = IF i < Len(s) THEN s[i + 1] ELSE Null
    <3> TAKE i \in 1 .. Len(s)
    <3>1. i \in 1 .. n /\ s[i] = <<g, i>> /\ s[i] \in Blocks /\ s[i][1] = g /\ s[i][2] = i
      BY <2>2, <2>3
    <3>2. link[s[i]] = IF i < n THEN <<g, i + 1>> ELSE Null
      BY <3>1 DEF MemInit
    <3>3. i < n => i + 1 \in 1 .. n
      BY <2>1
    <3> QED BY <3>2, <3>3, <2>2, <2>3
  <2>6. IsChain(freeList[g], link, s)
    <3>1. freeList[g] = s[1]
      BY <2>1, <2>2 DEF MemInit
    <3> QED BY <3>1, <2>3, <2>4, <2>5 DEF IsChain
  <2>7. Range(s) = {b \in Blocks : b[1] = g /\ holder[b] = "free"}
    <3>1. \A b \in Blocks : holder[b] = "free"
      BY DEF MemInit
    <3>2. \A i \in 1 .. n : s[i] \in Blocks /\ s[i][1] = g
      BY <2>2
    <3>3. ASSUME NEW b \in Blocks, b[1] = g PROVE \E i \in 1 .. n : s[i] = b
      <4>0. PICK h \in Groups : \E i \in 1 .. Count[h] : b = <<h, i>>
        BY <1>1
      <4>1. PICK i \in 1 .. Count[h] : b = <<h, i>>
        BY <4>0
      <4>2. h = g
        BY <4>1, <3>3
      <4> QED BY <4>1, <4>2, <2>2
    <3>4. Range(s) = {s[i] : i \in 1 .. n}
      BY <2>3 DEF Range
    <3> QED BY <3>1, <3>2, <3>3, <3>4
  <2>8. avail[g] = Len(s)
    BY <2>3 DEF MemInit
  <2>9. FreeAs(g, s)
    BY <2>6, <2>7, <2>8 DEF FreeAs
  <2> QED BY <2>9
<1>8. QueueInv
  <2> SUFFICES ASSUME NEW q \in Queues PROVE QueueAs(q, <<>>) /\ Ordered(q, <<>>)
    BY DEF QueueInv
  <2>1. <<>> \in Seq(Blocks) /\ Len(<<>>) = 0 /\ DOMAIN <<>> = {} /\ 1 .. 0 = {}
    OBVIOUS
  <2>2. IsInjective(<<>>) /\ Range(<<>>) = {}
    BY <2>1 DEF IsInjective, Range
  <2>3. qHead[q] = Null /\ qTail[q] = Null /\ curNum[q] = 0
    BY DEF MemInit
  <2>4. IsChain(qHead[q], link, <<>>)
    BY <2>1, <2>2, <2>3 DEF IsChain
  <2>5. {b \in Blocks : holder[b] = q} = {}
    BY MemConsts DEF MemInit
  <2> QED BY <2>1, <2>2, <2>3, <2>4, <2>5 DEF QueueAs, Ordered
<1>9. GroupInv /\ EarlierInv
  BY DEF MemInit, GroupInv, EarlierInv
<1> QED BY <1>6, <1>7, <1>8, <1>9 DEF MemInv

LEMMA MemNextKeeps == MemInv /\ [MemNext]_memVars => MemInv'
<1> SUFFICES ASSUME MemInv, [MemNext]_memVars PROVE MemInv'
  OBVIOUS
<1>1. ASSUME NEW size \in Sizes, Allocate(size) PROVE MemInv'
  BY <1>1, AllocateKeeps
<1>2. ASSUME NEW b \in Blocks, Free(b) PROVE MemInv'
  BY <1>2, FreeKeeps
<1>3. ASSUME NEW q \in Queues, NEW b \in Blocks, Push(q, b) PROVE MemInv'
  BY <1>3, PushKeeps
<1>4. ASSUME NEW q \in Queues, NEW b \in Blocks, Delete(q, b) PROVE MemInv'
  BY <1>4, DeleteKeeps
<1>5. ASSUME NEW q \in Queues, Pop(q) PROVE MemInv'
  BY <1>5, PopKeeps
<1>6. ASSUME NEW q \in Queues, FreeQ(q) PROVE MemInv'
  BY <1>6, FreeQKeeps
<1>7. CASE FreeQPop
  BY <1>7, FreeQPopKeeps
<1>8. CASE FreeQFree
  BY <1>8, FreeQFreeKeeps
<1>9. CASE UNCHANGED memVars
  <2>1. UNCHANGED <<link, freeList, avail, groupIndex, qHead, qTail, curNum,
                    drain, popped, holder, earlier>>
    BY <1>9 DEF memVars, mem, que
  <2>2. MemTypes' /\ GroupInv' /\ EarlierInv'
    BY <2>1 DEF MemInv, MemTypes, GroupInv, EarlierInv
  <2>3. FreeInv'
    BY <2>1 DEF MemInv, FreeInv, FreeAs
  <2>4. QueueInv'
    BY <2>1 DEF MemInv, QueueInv, QueueAs, Ordered, MayPrecede
  <2> QED BY <2>2, <2>3, <2>4 DEF MemInv
<1> QED BY <1>1, <1>2, <1>3, <1>4, <1>5, <1>6, <1>7, <1>8, <1>9 DEF MemNext

LEMMA MemInductive == MemSpec => []MemInv
<1>1. MemInit => MemInv
  BY MemInitInv
<1>2. MemInv /\ [MemNext]_memVars => MemInv'
  BY MemNextKeeps
<1> QED BY <1>1, <1>2, PTL DEF MemSpec

\* Every free list holds exactly the free buffers of its group, once each, and
\* availBufNum counts them, although ev_buffer.c and ev_queue.c use the same word
\* of a buffer: for any groups, sizes and queues, any sequence of allocations,
\* frees (also repeated ones), pushes, pops and deletions, and any interrupts in
\* ev_queue_freeQ.
THEOREM FreeCorrect == MemSpec => []FreeSound
<1>1. MemInv => FreeSound
  <2> SUFFICES ASSUME MemInv, NEW g \in Groups
               PROVE  LET s == Chain(freeList[g], link)
                      IN /\ IsInjective(s) /\ avail[g] = Len(s)
                         /\ Range(s) = {b \in Blocks : b[1] = g /\ holder[b] = "free"}
    BY DEF FreeSound
  <2>1. PICK s : FreeAs(g, s)
    BY DEF MemInv, FreeInv
  <2>2. Chain(freeList[g], link) = s
    BY <2>1, ChainIs DEF FreeAs
  <2> QED BY <2>1, <2>2 DEF FreeAs, IsChain
<1> QED BY <1>1, MemInductive, PTL

\* A queue holds exactly what was pushed to it and not taken out, once each;
\* tail is its last element and curNum its length after every push by priority,
\* pop and deletion.
THEOREM QueueCorrect == MemSpec => []QueueSound
<1>1. MemInv => QueueSound
  <2> SUFFICES ASSUME MemInv, NEW q \in Queues
               PROVE  /\ IsInjective(Queue(q)) /\ Range(Queue(q)) = {b \in Blocks : holder[b] = q}
                      /\ curNum[q] = Len(Queue(q))
                      /\ qTail[q] = IF Queue(q) = <<>> THEN Null ELSE Queue(q)[Len(Queue(q))]
    BY DEF QueueSound
  <2>1. PICK s : QueueAs(q, s)
    BY DEF MemInv, QueueInv
  <2>2. Queue(q) = s /\ IsChain(qHead[q], link, s)
    BY <2>1, QueueFacts
  <2>3. s = <<>> <=> Len(s) = 0
    BY <2>2, ChainFacts
  <2> QED BY <2>1, <2>2, <2>3 DEF QueueAs, IsChain
<1> QED BY <1>1, MemInductive, PTL

\* Elements stand in a queue by priority, those of one priority in the order of
\* their pushes, whatever was popped or deleted between.
THEOREM FifoCorrect == MemSpec => []PriorityFifo
<1>1. MemInv => PriorityFifo
  <2> SUFFICES ASSUME MemInv, NEW q \in Queues,
                      NEW i \in 1 .. Len(Queue(q)), NEW j \in 1 .. Len(Queue(q)), i # j
               PROVE  i < j <=> MayPrecede(q, Queue(q)[i], Queue(q)[j])
    BY DEF PriorityFifo, MayPrecede
  <2>1. PICK s : QueueAs(q, s) /\ Ordered(q, s)
    BY DEF MemInv, QueueInv
  <2>2. Queue(q) = s /\ Len(s) \in Nat /\ s[i] \in Blocks /\ s[j] \in Blocks
    BY <2>1, QueueFacts
  <2>3. i < j => MayPrecede(q, s[i], s[j])
    BY <2>1, <2>2 DEF Ordered
  <2>4. j < i => MayPrecede(q, s[j], s[i])
    BY <2>1, <2>2 DEF Ordered
  <2>5. MayPrecede(q, s[j], s[i]) => ~MayPrecede(q, s[i], s[j])
    <3>1. s[j] \in earlier[s[i]] => s[i] \notin earlier[s[j]]
      BY <2>2 DEF MemInv, EarlierInv
    <3>2. Prio[s[i]] \in Nat /\ Prio[s[j]] \in Nat
      BY <2>2, MemConsts
    <3> QED BY <3>1, <3>2 DEF MayPrecede
  <2>6. i < j \/ j < i
    BY <2>2
  <2> QED BY <2>2, <2>3, <2>4, <2>5, <2>6
<1> QED BY <1>1, MemInductive, PTL

\* The variables keep their types; availBufNum stays between zero and the size
\* of the group, curNum below the number of buffers.
THEOREM MemTypesCorrect == MemSpec => []MemTypeOK
<1>1. MemInv => MemTypeOK
  <2> SUFFICES ASSUME MemInv PROVE MemTypeOK
    OBVIOUS
  <2>1. ASSUME NEW g \in Groups PROVE avail[g] \in 0 .. Count[g]
    <3>1. PICK s : FreeAs(g, s)
      BY DEF MemInv, FreeInv
    <3> DEFINE S == {g} \X (1 .. Count[g])
    <3>2. s \in Seq(Blocks) /\ IsInjective(s) /\ Len(s) \in Nat /\ avail[g] = Len(s)
      BY <3>1, ChainFacts DEF FreeAs, IsChain
    <3>3. IsFiniteSet(S) /\ Cardinality(S) = Count[g]
      <4>1. Count[g] \in Nat /\ Count[g] # 0 /\ 1 \in Int /\ Count[g] \in Int
        BY MemAssumption
      <4>2. IsFiniteSet(1 .. Count[g]) /\ Cardinality(1 .. Count[g]) = Count[g]
        BY <4>1, FS_Interval
      <4>3. IsFiniteSet({g}) /\ Cardinality({g}) = 1
        BY FS_Singleton
      <4> DEFINE G == {g}
                 T == 1 .. Count[g]
      <4>4. S = G \X T
        OBVIOUS
      <4> HIDE DEF G, T, S
      <4>5. /\ IsFiniteSet(G) /\ Cardinality(G) = 1
            /\ IsFiniteSet(T) /\ Cardinality(T) = Count[g]
        BY <4>2, <4>3 DEF G, T
      <4>6. IsFiniteSet(G \X T) /\ Cardinality(G \X T) = Cardinality(G) * Cardinality(T)
        BY <4>5, FS_Product
      <4> QED BY <4>1, <4>4, <4>5, <4>6
    <3>4. \A i \in 1 .. Len(s) : s[i] \in S
      <4> TAKE i \in 1 .. Len(s)
      <4>1. s[i] \in Blocks /\ s[i][1] = g
        BY <3>1, <3>2, FreeFacts, ChainFacts DEF FreeAs
      <4>2. PICK h \in Groups : \E n \in 1 .. Count[h] : s[i] = <<h, n>>
        BY <4>1 DEF Blocks
      <4>3. PICK n \in 1 .. Count[h] : s[i] = <<h, n>>
        BY <4>2
      <4>4. h = g
        BY <4>1, <4>3
      <4> QED BY <4>3, <4>4
    <3> HIDE DEF S
    <3>5. s \in Seq(S)
      BY <3>2, <3>4
    <3>6. Len(s) <= Count[g]
      BY <3>2, <3>3, <3>5, InjectiveLen
    <3>7. Count[g] \in Nat
      BY MemAssumption
    <3> QED BY <3>2, <3>6, <3>7
  <2>2. ASSUME NEW q \in Queues PROVE curNum[q] \in 0 .. Cardinality(Blocks)
    <3>1. PICK s : QueueAs(q, s)
      BY DEF MemInv, QueueInv
    <3>2. s \in Seq(Blocks) /\ IsInjective(s) /\ Len(s) \in Nat /\ curNum[q] = Len(s)
      BY <3>1, QueueFacts DEF QueueAs, IsChain
    <3>3. Len(s) <= Cardinality(Blocks) /\ Cardinality(Blocks) \in Nat
      BY <3>2, BlocksFinite, InjectiveLen, FS_CardinalityType
    <3> QED BY <3>2, <3>3
  <2>3. curNum \in [Queues -> 0 .. Cardinality(Blocks)]
    BY <2>2 DEF MemInv, MemTypes
  <2> QED BY <2>1, <2>3 DEF MemInv, MemTypes, MemTypeOK
<1> QED BY <1>1, MemInductive, PTL
=============================================================================
