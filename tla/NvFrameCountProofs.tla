------------------------- MODULE NvFrameCountProofs -------------------------
(***************************************************************************)
(* Proofs about NvFrameCount, for every geometry of pages and units, any   *)
(* number of saves and any number of power failures.                       *)
(***************************************************************************)
EXTENDS NvFrameCount, WellFoundedInduction, TLAPS

\* The first n words of a sector are used, the others erased.
Filled(f, n) == \A k \in Words : f[k] # Nil <=> k < n

\* A sector whose last used word is c, in place n - 1.
Ends(f, n, c) == n \in 1 .. WordNum /\ Filled(f, n) /\ f[n - 1] = c

TypeInv ==
  /\ hdr \in [Sect -> {"idle", "valid", "invalid"}]
  /\ word \in [Sect -> [Words -> (0 .. MaxCount) \cup {Nil}]]
  /\ op \in [count : (0 .. MaxCount) \cup {Nil}, sect : Sect, addr : Words, upd : BOOLEAN]
  /\ saved \in (0 .. MaxCount) \cup {Nil} /\ crashes \in 0 .. MaxCrash
  /\ pc \in {"idle", "erase0", "erase1", "erase", "carry", "append", "newHeader",
             "oldHeader", "return"}
  /\ pc # "idle" => op.count \in 0 .. MaxCount

\* The words of a sector are used from the first one on, and a sector whose
\* header is valid has one; nothing was saved while no header is.
LogInv ==
  /\ \A s \in Sect : \E n \in 0 .. WordNum : Filled(word[s], n)
  /\ \A s \in Sect : hdr[s] = "valid" => ~Filled(word[s], 0)
  /\ ~SomeValid => saved = Nil

\* A save without a valid sector works on sector 0, erased.
FreshInv ==
  /\ pc \in {"erase0", "erase1"} => ~SomeValid
  /\ pc \in {"erase0", "erase1", "append", "newHeader"} /\ ~SomeValid =>
       op.sect = 0 /\ op.addr = 0 /\ ~op.upd
  /\ pc \in {"erase1", "append", "newHeader"} /\ ~SomeValid => hdr[0] = "idle"
  /\ pc = "erase1" => Filled(word[0], 0)
  /\ pc = "append" /\ ~SomeValid => Filled(word[0], 0)
  /\ pc = "newHeader" /\ ~SomeValid => Ends(word[0], 1, op.count)

\* A save in the valid sector appends to it.
AppendInv ==
  /\ pc = "append" /\ SomeValid /\ ~op.upd =>
       op.sect = FirstValid /\ op.addr > 0 /\ Filled(word[op.sect], op.addr)
  /\ pc = "newHeader" /\ SomeValid => op.upd

\* A save in a full sector fills the other one, which no reader looks at, with
\* the last counter and the new one before it makes it valid.
UpdateInv ==
  /\ pc = "erase" => op.upd
  /\ pc \in {"erase", "carry", "append", "newHeader"} /\ op.upd =>
       /\ SomeValid /\ FirstValid = 1 - op.sect /\ op.addr = 1
       /\ Filled(word[1 - op.sect], WordNum)
  /\ pc = "carry" => op.upd /\ Filled(word[op.sect], 0)
  /\ pc \in {"carry", "append", "newHeader"} /\ op.upd => hdr[op.sect] = "idle"
  /\ pc = "append" /\ op.upd => Filled(word[op.sect], 1)
  /\ pc = "newHeader" /\ op.upd => Ends(word[op.sect], 2, op.count)
  /\ pc = "oldHeader" =>
       /\ hdr[op.sect] = "valid" /\ hdr[1 - op.sect] = "valid"
       /\ Ends(word[1 - op.sect], WordNum, op.count - 1)
       /\ Ends(word[op.sect], 2, op.count)

\* The counter being saved is the one after the counter a reader gets, until it
\* is that one.
CountInv ==
  /\ pc \in {"erase", "carry", "append", "newHeader"} /\ SomeValid => op.count = FromFlash + 1
  /\ pc = "return" => SomeValid /\ FromFlash = op.count

\* What a reader gets is between the last counter saved and one more for every
\* save that did not return.
BoundInv ==
  saved # Nil =>
    /\ saved <= FromFlash
    /\ FromFlash <= saved + crashes + IF pc \in {"oldHeader", "return"} THEN 1 ELSE 0
    /\ pc = "oldHeader" => op.count <= saved + crashes + 1

IInv ==
  TypeInv /\ LogInv /\ FreshInv /\ AppendInv /\ UpdateInv /\ CountInv /\ BoundInv
---------------------------------------------------------------------------
(* Bounded sets of numbers have a least and a greatest element. *)

LEMMA LeastExists ==
  ASSUME NEW S, S \subseteq Nat, S # {}
  PROVE  \E x \in S : \A y \in S : x <= y
<1>1. IsWellFoundedOn(OpToRel(<, Nat), Nat)
  BY NatLessThanWellFounded
<1>2. PICK x \in S : \A y \in S : ~(<<y, x>> \in OpToRel(<, Nat))
  BY <1>1, WFMin
<1>3. \A y \in S : ~(y < x)
  BY <1>2 DEF OpToRel
<1>4. QED
  BY <1>3

LEMMA MinIs ==
  ASSUME NEW S, S \subseteq Nat, S # {}
  PROVE  Min(S) \in S /\ \A y \in S : Min(S) <= y
  BY LeastExists DEF Min

LEMMA MaxIs ==
  ASSUME NEW S, NEW b \in Nat, S \subseteq 0 .. b, S # {}
  PROVE  Max(S) \in S /\ \A y \in S : y <= Max(S)
<1> DEFINE T == {b - x : x \in S}
<1>1. T \subseteq Nat /\ T # {}
  <2>1. \A x \in S : b - x \in Nat
    OBVIOUS
  <2>2. PICK x \in S : TRUE
    OBVIOUS
  <2>3. b - x \in T
    OBVIOUS
  <2>4. QED
    BY <2>1, <2>3
<1>2. PICK t \in T : \A y \in T : t <= y
  BY <1>1, LeastExists
<1>3. PICK x \in S : t = b - x
  BY <1>2
<1>4. ASSUME NEW y \in S PROVE x >= y
  <2>1. b - x <= b - y
    BY <1>2, <1>3
  <2>2. QED
    BY <2>1
<1>5. QED
  BY <1>4 DEF Max

LEMMA MaxPair == \A m, n \in Int : Max({m, n}) = IF m <= n THEN n ELSE m
<1> SUFFICES ASSUME NEW m \in Int, NEW n \in Int
             PROVE  Max({m, n}) = IF m <= n THEN n ELSE m
    OBVIOUS
<1> DEFINE r == IF m <= n THEN n ELSE m
<1>1. r \in {m, n} /\ \A y \in {m, n} : r >= y
  OBVIOUS
<1>2. \A x \in {m, n} : (\A y \in {m, n} : x >= y) => x = r
  OBVIOUS
<1>3. (CHOOSE x \in {m, n} : \A y \in {m, n} : x >= y) = r
  BY <1>1, <1>2
<1>4. QED
  BY <1>3 DEF Max
---------------------------------------------------------------------------
(* The geometry of a sector: the pages follow each other, and the units of  *)
(* a page are inside it, the first at its start.                            *)

LEMMA Geometry ==
  /\ Pages \in Nat /\ Pages >= 1 /\ Unit \in Nat /\ Unit >= 3
  /\ PageWords \in Nat /\ PageWords >= 3
  /\ PageWords \div Unit \in Nat /\ PageWords \div Unit >= 1
  /\ (PageWords \div Unit) * Unit = PageWords
<1>1. Pages \in Nat /\ Pages >= 1 /\ Unit \in Nat /\ Unit >= 3 /\ PageWords \in Nat
      /\ PageWords >= 1 /\ PageWords % Unit = 0
  BY FrameAssumption
<1>2. PageWords \div Unit \in Nat /\ PageWords = (PageWords \div Unit) * Unit + (PageWords % Unit)
  BY <1>1
<1> DEFINE m == PageWords \div Unit
<1>3. m \in Nat /\ PageWords = m * Unit
  BY <1>1, <1>2
<1> HIDE DEF m
<1>4. m >= 1
  BY <1>1, <1>3
<1>5. m * Unit >= Unit
  BY <1>1, <1>3, <1>4
<1>6. QED
  BY <1>1, <1>3, <1>4, <1>5 DEF m

LEMMA PageFacts ==
  ASSUME NEW p \in 0 .. Pages - 1
  PROVE  /\ PageStart(p) \in Nat /\ PageEnd(p) \in Nat /\ WordNum \in Nat
         /\ PageStart(p) < PageEnd(p) /\ PageEnd(p) <= WordNum
         /\ p < Pages - 1 => PageEnd(p) = PageStart(p + 1)
         /\ p = Pages - 1 => PageEnd(p) = WordNum
         /\ PageEnd(p) - PageWords <= PageStart(p)
<1> DEFINE a == p * PageWords
           w == Pages * PageWords
<1>1. Pages \in Nat /\ Pages >= 1 /\ PageWords \in Nat /\ PageWords >= 3 /\ p \in Nat
  BY Geometry
<1>2. a \in Nat /\ w \in Nat
  BY <1>1
<1>3. (p + 1) * PageWords = a + PageWords
  BY <1>1
<1>4. p # 0 => a >= PageWords
  BY <1>1
<1>5. a + PageWords <= w
  <2>1. w - (a + PageWords) = (Pages - (p + 1)) * PageWords
    BY <1>1
  <2>2. Pages - (p + 1) \in Nat
    BY <1>1
  <2>3. (Pages - (p + 1)) * PageWords >= 0
    BY <1>1, <2>2
  <2>4. QED
    BY <1>1, <1>2, <2>1, <2>3
<1>6. p = Pages - 1 => w = a + PageWords
  BY <1>1, <1>3
<1>7. /\ PageStart(p) = IF p = 0 THEN 0 ELSE a - 1
      /\ PageEnd(p) = a + PageWords - 1 /\ WordNum = w - 1
      /\ PageStart(p + 1) = a + PageWords - 1
      /\ p = 0 => a = 0
  BY <1>1, <1>3 DEF PageStart, PageEnd, WordNum
<1> HIDE DEF a, w
<1>8. QED
  BY <1>1, <1>2, <1>4, <1>5, <1>6, <1>7

LEMMA UnitFacts ==
  ASSUME NEW p \in 0 .. Pages - 1
  PROVE  /\ UnitStarts(p) \subseteq PageStart(p) .. PageEnd(p) - 1
         /\ PageStart(p) \in UnitStarts(p)
<1> DEFINE m == PageWords \div Unit
           a == PageStart(p)
           e == PageEnd(p)
<1>1. a \in Nat /\ e \in Nat /\ a < e /\ e - PageWords <= a
  BY PageFacts
<1>2. m \in Nat /\ m >= 1 /\ m * Unit = PageWords /\ Unit \in Nat /\ Unit >= 3
  BY Geometry
<1>3. UnitStarts(p) = {Max({a, e - n * Unit}) : n \in 1 .. m}
  BY DEF UnitStarts
<1> HIDE DEF m, a, e
<1>4. ASSUME NEW n \in 1 .. m
      PROVE  Max({a, e - n * Unit}) \in a .. e - 1
  <2> DEFINE d == n * Unit
  <2>1. d \in Int /\ d >= 1
    BY <1>2
  <2> HIDE DEF d
  <2>2. Max({a, e - d}) = IF a <= e - d THEN e - d ELSE a
    BY <1>1, <2>1, MaxPair
  <2>3. Max({a, e - d}) \in a .. e - 1
    BY <1>1, <2>1, <2>2
  <2>4. QED
    BY <2>3 DEF d
<1>5. Max({a, e - m * Unit}) = a
  <2>1. e - PageWords \in Int /\ PageWords \in Nat
    BY <1>1, Geometry
  <2>2. Max({a, e - PageWords}) = a
    BY <1>1, <2>1, MaxPair
  <2>3. QED
    BY <1>2, <2>2
<1>6. m \in 1 .. m
  BY <1>2
<1>7. a \in UnitStarts(p)
  BY <1>3, <1>5, <1>6
<1>8. UnitStarts(p) \subseteq a .. e - 1
  BY <1>3, <1>4
<1>9. QED
  BY <1>7, <1>8 DEF a, e
---------------------------------------------------------------------------
(* nv_nwkFrameCountSearch. *)

\* The page found is the one of the first erased word, or the one before it when
\* that is the first of its page.
LEMMA PageFound ==
  ASSUME NEW f, NEW n \in 0 .. WordNum, Filled(f, n)
  PROVE  /\ SearchPage(f) \in 0 .. Pages - 1
         /\ n <= PageEnd(SearchPage(f))
         /\ n > 0 => PageStart(SearchPage(f)) < n
         /\ n = 0 => SearchPage(f) = 0
<1> DEFINE S == {0} \cup {q \in 1 .. Pages - 1 : f[PageStart(q)] # Nil}
           p == SearchPage(f)
<1>1. Pages \in Nat /\ Pages - 1 \in Nat
  BY Geometry
<1>2. S \subseteq 0 .. Pages - 1 /\ S # {}
  BY <1>1
<1>3. p = Max(S)
  BY DEF SearchPage
<1> HIDE DEF p
<1>4. p \in S /\ \A q \in S : q <= p
  BY <1>1, <1>2, <1>3, MaxIs
<1>5. p \in 0 .. Pages - 1
  BY <1>2, <1>4
<1>6. WordNum \in Nat
  BY <1>5, PageFacts
<1>7. \A q \in 1 .. Pages - 1 : PageStart(q) \in Words /\ PageStart(q) \in Nat
  <2>1. \A q \in 1 .. Pages - 1 : q \in 0 .. Pages - 1
    BY <1>1
  <2>2. ASSUME NEW q \in 0 .. Pages - 1
        PROVE  PageStart(q) \in Nat /\ PageStart(q) \in 0 .. WordNum - 1
    <3>1. PageStart(q) \in Nat /\ PageEnd(q) \in Nat /\ PageStart(q) < PageEnd(q)
          /\ PageEnd(q) <= WordNum
      BY PageFacts
    <3>2. QED
      BY <1>6, <3>1
  <2>3. QED
    BY <2>1, <2>2 DEF Words
<1>8. n <= PageEnd(p)
  <2>1. CASE p = Pages - 1
    BY <1>5, <2>1, PageFacts
  <2>2. CASE p # Pages - 1
    <3>1. p + 1 \in 1 .. Pages - 1 /\ p < Pages - 1 /\ ~(p + 1 <= p)
      BY <1>1, <1>5, <2>2
    <3>2. f[PageStart(p + 1)] = Nil
      BY <1>4, <3>1
    <3>3. ~(PageStart(p + 1) < n)
      BY <1>7, <3>1, <3>2 DEF Filled
    <3>4. PageEnd(p) = PageStart(p + 1) /\ PageStart(p + 1) \in Nat
      BY <1>5, <1>7, <3>1, PageFacts
    <3>5. QED
      BY <1>6, <3>3, <3>4
  <2>3. QED
    BY <2>1, <2>2
<1>9. p # 0 => PageStart(p) < n
  <2>1. p # 0 => p \in 1 .. Pages - 1 /\ f[PageStart(p)] # Nil
    BY <1>4
  <2>2. QED
    BY <1>7, <2>1 DEF Filled
<1>10. p = 0 => PageStart(p) = 0
  BY DEF PageStart
<1>11. n = 0 => p = 0
  <2>1. p # 0 => PageStart(p) \in Nat
    BY <1>5, PageFacts
  <2>2. QED
    BY <1>9, <2>1
<1>12. QED
  BY <1>5, <1>6, <1>8, <1>9, <1>10, <1>11 DEF p

\* The scan by pages and units finds the first erased word of a sector.
LEMMA SearchIs ==
  ASSUME NEW f, NEW n \in 0 .. WordNum, Filled(f, n)
  PROVE  Search(f) = [found |-> n > 0, addr |-> n, count |-> IF n > 0 THEN f[n - 1] ELSE Nil]
<1> DEFINE p == SearchPage(f)
           hit == {u \in UnitStarts(p) : f[u] # Nil}
           u == Max(hit)
           later == {t \in UnitStarts(p) : t > u}
           e == UnitEnd(p, u)
           stop == {k \in u + 1 .. e - 1 : f[k] = Nil}
           addr == IF stop = {} THEN e ELSE Min(stop)
<1>0. Search(f) = IF hit = {} THEN [found |-> FALSE, addr |-> PageStart(p), count |-> Nil]
                  ELSE [found |-> TRUE, addr |-> addr, count |-> f[addr - 1]]
  BY DEF Search
<1>1. /\ p \in 0 .. Pages - 1 /\ n <= PageEnd(p) /\ (n > 0 => PageStart(p) < n)
      /\ (n = 0 => p = 0)
  BY PageFound
<1>2. /\ PageStart(p) \in Nat /\ PageEnd(p) \in Nat /\ WordNum \in Nat
      /\ PageEnd(p) <= WordNum /\ PageStart(p) < PageEnd(p)
  BY <1>1, PageFacts
<1>3. /\ UnitStarts(p) \subseteq PageStart(p) .. PageEnd(p) - 1
      /\ PageStart(p) \in UnitStarts(p)
  BY <1>1, UnitFacts
<1>4. \A k \in UnitStarts(p) : k \in Nat /\ k \in Words /\ k <= PageEnd(p) - 1
  BY <1>2, <1>3 DEF Words
<1>5. \A k \in UnitStarts(p) : f[k] # Nil <=> k < n
  BY <1>4 DEF Filled
<1>6. CASE n = 0
  <2>1. hit = {}
    BY <1>4, <1>5, <1>6
  <2>2. PageStart(p) = 0
    BY <1>1, <1>6 DEF PageStart
  <2>3. (n > 0) = FALSE
    BY <1>6
  <2>4. Search(f) = [found |-> FALSE, addr |-> 0, count |-> Nil]
    BY <1>0, <2>1, <2>2
  <2>5. QED
    BY <1>6, <2>3, <2>4
<1>7. CASE n > 0
  <2>1. PageStart(p) \in hit
    BY <1>1, <1>3, <1>5, <1>7
  <2>2. hit \subseteq 0 .. PageEnd(p)
    BY <1>2, <1>4
  <2>3. u \in hit /\ \A y \in hit : y <= u
    BY <1>2, <2>1, <2>2, MaxIs
  <2>4. e = Min({PageEnd(p)} \cup later)
    BY DEF UnitEnd
  <2> HIDE DEF u, e
  <2>5. u \in Nat /\ u < n
    BY <1>4, <1>5, <2>3
  <2>6. {PageEnd(p)} \cup later \subseteq Nat
    BY <1>2, <1>4
  <2>7. e \in {PageEnd(p)} \cup later /\ \A t \in {PageEnd(p)} \cup later : e <= t
    BY <2>4, <2>6, MinIs
  <2>8. \A t \in later : ~(t < n)
    BY <1>4, <1>5, <2>3, <2>5
  <2>9. e \in Nat /\ n <= e /\ e <= PageEnd(p)
    BY <1>1, <1>2, <1>4, <2>6, <2>7, <2>8
  <2>10. \A k \in u + 1 .. e - 1 : k \in Words /\ k \in Nat
    BY <1>2, <2>5, <2>9 DEF Words
  <2>11. \A k \in u + 1 .. e - 1 : f[k] = Nil <=> k >= n
    BY <2>10 DEF Filled
  <2>12. addr = n
    <3>1. CASE n = e
      <4>1. stop = {}
        BY <2>5, <2>9, <2>11, <3>1
      <4>2. QED
        BY <3>1, <4>1
    <3>2. CASE n < e
      <4>1. n \in stop
        BY <2>5, <2>9, <2>11, <3>2
      <4>2. stop \subseteq Nat
        BY <2>10
      <4>3. Min(stop) \in stop /\ \A y \in stop : Min(stop) <= y
        BY <4>1, <4>2, MinIs
      <4>4. \A y \in stop : y >= n
        BY <2>11
      <4>5. Min(stop) = n
        BY <4>1, <4>2, <4>3, <4>4
      <4>6. QED
        BY <4>1, <4>5
    <3>3. QED
      BY <2>9, <3>1, <3>2
  <2>13. hit # {}
    BY <2>1
  <2> HIDE DEF hit, addr
  <2>14. QED
    BY <1>0, <1>7, <2>12, <2>13
<1>8. QED
  BY <1>6, <1>7

LEMMA Sizes ==
  /\ WordNum \in Nat /\ WordNum >= 2 /\ 0 \in Words /\ 1 \in Words
  /\ MaxCount \in Nat /\ MaxCrash \in Nat /\ Nil \notin 0 .. MaxCount
<1>1. Pages \in Nat /\ Pages >= 1 /\ PageWords \in Nat /\ PageWords >= 3
  BY Geometry
<1>2. Pages * PageWords >= PageWords /\ Pages * PageWords \in Nat
  BY <1>1
<1>3. WordNum \in Nat /\ WordNum >= 2
  BY <1>1, <1>2 DEF WordNum
<1>4. QED
  BY <1>3, FrameAssumption DEF Words

\* What nv_nwkFrameCountSearch answers about a sector with words.
LEMMA Found ==
  ASSUME NEW f, NEW n, NEW c, Ends(f, n, c)
  PROVE  /\ Search(f).found = TRUE /\ Search(f).addr = n /\ Search(f).count = c
         /\ ~Filled(f, 0)
<1>1. n \in 1 .. WordNum /\ Filled(f, n) /\ f[n - 1] = c /\ WordNum \in Nat
  BY Sizes DEF Ends
<1>2. n \in 0 .. WordNum /\ n > 0
  BY <1>1
<1>3. Search(f) = [found |-> n > 0, addr |-> n, count |-> IF n > 0 THEN f[n - 1] ELSE Nil]
  BY <1>1, <1>2, SearchIs
<1>4. (n > 0) = TRUE
  BY <1>2
<1>5. ~Filled(f, 0)
  BY <1>1, <1>2, Sizes DEF Filled
<1>6. Search(f) = [found |-> TRUE, addr |-> n, count |-> c]
  BY <1>1, <1>2, <1>3, <1>4
<1>7. QED
  BY <1>5, <1>6

LEMMA ErasedIs == Filled(ErasedWords, 0) /\ ErasedWords \in [Words -> (0 .. MaxCount) \cup {Nil}]
<1>1. \A k \in Words : ErasedWords[k] = Nil /\ k \in Nat
  BY Sizes DEF ErasedWords, Words
<1>2. QED
  BY <1>1 DEF Filled, ErasedWords

\* A word appended to a sector.
LEMMA Appended ==
  ASSUME NEW f \in [Words -> (0 .. MaxCount) \cup {Nil}], NEW n \in Words,
         NEW c \in 0 .. MaxCount, Filled(f, n)
  PROVE  LET g == [f EXCEPT ![n] = c] IN
         g \in [Words -> (0 .. MaxCount) \cup {Nil}] /\ Ends(g, n + 1, c)
           /\ Filled(g, n + 1)
<1> DEFINE g == [f EXCEPT ![n] = c]
<1>1. g \in [Words -> (0 .. MaxCount) \cup {Nil}] /\ g[n] = c
      /\ \A k \in Words : k # n => g[k] = f[k]
  OBVIOUS
<1>2. n \in Nat /\ n < WordNum /\ WordNum \in Nat /\ c # Nil /\ \A k \in Words : k \in Nat
  BY Sizes DEF Words
<1> HIDE DEF g
<1>3. ASSUME NEW k \in Words PROVE g[k] # Nil <=> k < n + 1
  <2>1. CASE k = n
    BY <1>1, <1>2, <2>1
  <2>2. CASE k # n
    <3>1. g[k] # Nil <=> k < n
      BY <1>1, <2>2 DEF Filled
    <3>2. k < n <=> k < n + 1
      BY <1>2, <2>2
    <3>3. QED
      BY <3>1, <3>2
  <2>3. QED
    BY <2>1, <2>2
<1>4. Filled(g, n + 1)
  BY <1>3 DEF Filled
<1>5. n + 1 \in 1 .. WordNum /\ n + 1 - 1 = n
  BY <1>2
<1>6. Ends(g, n + 1, c)
  <2> DEFINE m == n + 1
  <2>1. m \in 1 .. WordNum /\ m - 1 = n /\ Filled(g, m)
    BY <1>2, <1>4, <1>5
  <2> HIDE DEF m
  <2>2. Ends(g, m, c)
    BY <1>1, <2>1 DEF Ends
  <2>3. QED
    BY <2>2 DEF m
<1>7. QED
  BY <1>1, <1>4, <1>6 DEF g
---------------------------------------------------------------------------
(* What a reader gets. *)

LEMMA ValidIs ==
  ASSUME TypeInv
  PROVE  /\ SomeValid <=> hdr[0] = "valid" \/ hdr[1] = "valid"
         /\ SomeValid => hdr[FirstValid] = "valid"
         /\ FirstValid \in Sect /\ op.sect \in Sect /\ 1 - op.sect \in Sect
         /\ \A s \in Sect : 1 - s \in Sect /\ 1 - (1 - s) = s /\ 1 - s # s
  BY DEF TypeInv, SomeValid, FirstValid, Sect

\* nv_nwkFrameCountFromFlash reads the last word of the first valid sector.
LEMMA Reads ==
  ASSUME TypeInv, LogInv
  PROVE  /\ SomeValid => /\ \E n \in 1 .. WordNum : Ends(word[FirstValid], n, FromFlash)
                         /\ FromFlash \in 0 .. MaxCount
         /\ ~SomeValid => FromFlash = Nil
<1>1. ASSUME SomeValid
      PROVE  /\ \E n \in 1 .. WordNum : Ends(word[FirstValid], n, FromFlash)
             /\ FromFlash \in 0 .. MaxCount
  <2> DEFINE f == word[FirstValid]
  <2>1. FirstValid \in Sect /\ hdr[FirstValid] = "valid"
    BY <1>1, ValidIs
  <2>2. ~Filled(f, 0) /\ f \in [Words -> (0 .. MaxCount) \cup {Nil}]
    BY <2>1 DEF LogInv, TypeInv
  <2>3. PICK n \in 0 .. WordNum : Filled(f, n)
    BY <2>1 DEF LogInv
  <2>4. n # 0 /\ WordNum \in Nat
    BY <2>2, <2>3, Sizes
  <2>5. n \in 1 .. WordNum /\ n - 1 \in Words /\ n - 1 < n
    BY <2>4 DEF Words
  <2>6. f[n - 1] \in 0 .. MaxCount
    BY <2>2, <2>3, <2>5 DEF Filled
  <2>7. Ends(f, n, f[n - 1])
    BY <2>3, <2>5 DEF Ends
  <2>8. Search(f).found = TRUE /\ Search(f).count = f[n - 1]
    BY <2>7, Found
  <2>9. FromFlash = f[n - 1]
    BY <1>1, <2>8 DEF FromFlash
  <2>10. QED
    BY <2>5, <2>6, <2>7, <2>9
<1>2. ASSUME ~SomeValid PROVE FromFlash = Nil
  BY <1>2 DEF FromFlash
<1>3. QED
  BY <1>1, <1>2

\* A step that leaves the reader's sector alone.
LEMMA ReadsSame ==
  ASSUME SomeValid' <=> SomeValid, FirstValid' = FirstValid,
         word'[FirstValid] = word[FirstValid]
  PROVE  FromFlash' = FromFlash
  BY DEF FromFlash

LEMMA ReadsNew ==
  ASSUME SomeValid', NEW n, NEW c, Ends(word'[FirstValid'], n, c)
  PROVE  FromFlash' = c
<1>1. Search(word'[FirstValid']).found = TRUE /\ Search(word'[FirstValid']).count = c
  BY Found
<1>2. QED
  BY <1>1 DEF FromFlash
---------------------------------------------------------------------------
(* The steps of a save. *)

LEMMA StartStep ==
  ASSUME IInv, Start
  PROVE  IInv'
<1>0. TypeInv /\ LogInv /\ BoundInv /\ pc = "idle" /\ NextCount <= MaxCount
      /\ UNCHANGED <<hdr, word, saved, crashes>>
  BY DEF IInv, Start
<1>1. (SomeValid' <=> SomeValid) /\ FirstValid' = FirstValid /\ FromFlash' = FromFlash
  BY <1>0 DEF SomeValid, FirstValid, FromFlash
<1>2. LogInv'
  BY <1>0, <1>1 DEF LogInv
<1>3. CASE ~SomeValid
  <2>1. NextCount = 0 /\ 0 \in 0 .. MaxCount /\ 0 \in Words
    BY <1>0, <1>3, Reads, Sizes DEF NextCount
  <2>2. pc' = "erase0" /\ op' = [count |-> 0, sect |-> 0, addr |-> 0, upd |-> FALSE]
    BY <1>3, <2>1 DEF Start
  <2>3. TypeInv'
    BY <1>0, <2>1, <2>2 DEF TypeInv, Sect
  <2>4. BoundInv'
    BY <1>0, <1>3 DEF BoundInv, LogInv
  <2>5. QED
    BY <1>1, <1>2, <1>3, <2>2, <2>3, <2>4 DEF IInv, FreshInv, AppendInv, UpdateInv, CountInv
<1>4. CASE SomeValid
  <2> DEFINE s == FirstValid
  <2>1. PICK n \in 1 .. WordNum : Ends(word[s], n, FromFlash)
    BY <1>0, <1>4, Reads
  <2>2. Search(word[s]).found = TRUE /\ Search(word[s]).addr = n /\ Filled(word[s], n)
    BY <2>1, Found DEF Ends
  <2>3. s \in Sect /\ 1 - s \in Sect /\ 1 - (1 - s) = s
    BY <1>0, ValidIs
  <2>4. FromFlash \in 0 .. MaxCount /\ NextCount = FromFlash + 1
    BY <1>0, <1>4, Reads, Sizes DEF NextCount
  <2>5. NextCount \in 0 .. MaxCount /\ n \in Nat /\ n > 0 /\ WordNum \in Nat /\ 1 \in Words
    BY <1>0, <2>4, Sizes
  <2>6. BoundInv'
    <3>1. pc' \notin {"oldHeader", "return"}
      BY DEF Start
    <3>2. QED
      BY <1>0, <1>1, <3>1 DEF BoundInv
  <2> HIDE DEF s
  <2>7. CASE n = WordNum
    <3>1. /\ pc' = "erase"
          /\ op' = [count |-> NextCount, sect |-> 1 - s, addr |-> 1, upd |-> TRUE]
      BY <1>4, <2>2, <2>7 DEF Start, s
    <3>2. TypeInv'
      BY <1>0, <2>3, <2>5, <3>1 DEF TypeInv
    <3>3. UpdateInv'
      BY <1>0, <1>1, <1>4, <2>2, <2>3, <2>7, <3>1 DEF UpdateInv, s
    <3>4. CountInv'
      BY <1>1, <2>4, <3>1 DEF CountInv
    <3>5. QED
      BY <1>2, <2>6, <3>1, <3>2, <3>3, <3>4 DEF IInv, FreshInv, AppendInv
  <2>8. CASE n # WordNum
    <3>1. /\ pc' = "append"
          /\ op' = [count |-> NextCount, sect |-> s, addr |-> n, upd |-> FALSE]
      BY <1>4, <2>2, <2>8 DEF Start, s
    <3>2. n \in Words
      BY <2>5, <2>8 DEF Words
    <3>3. TypeInv'
      BY <1>0, <2>3, <2>5, <3>1, <3>2 DEF TypeInv
    <3>4. AppendInv'
      BY <1>0, <1>1, <2>2, <2>5, <3>1 DEF AppendInv, s
    <3>5. CountInv'
      BY <1>1, <2>4, <3>1 DEF CountInv
    <3>6. QED
      BY <1>1, <1>2, <1>4, <2>6, <3>1, <3>3, <3>4, <3>5 DEF IInv, FreshInv, UpdateInv
  <2>9. QED
    BY <2>7, <2>8
<1>5. QED
  BY <1>3, <1>4

LEMMA EraseBothStep ==
  ASSUME IInv, NEW s \in Sect, EraseBoth(s)
  PROVE  IInv'
<1>0. /\ TypeInv /\ LogInv /\ FreshInv /\ BoundInv
      /\ pc = IF s = 0 THEN "erase0" ELSE "erase1"
      /\ pc' = IF s = 0 THEN "erase1" ELSE "append"
      /\ hdr' = [hdr EXCEPT ![s] = "idle"] /\ word' = [word EXCEPT ![s] = ErasedWords]
      /\ UNCHANGED <<op, saved, crashes>>
  BY DEF IInv, EraseBoth
<1>1. ~SomeValid /\ saved = Nil /\ op.sect = 0 /\ op.addr = 0 /\ ~op.upd
  BY <1>0 DEF FreshInv, LogInv
<1>2. /\ hdr'[s] = "idle" /\ hdr'[1 - s] = hdr[1 - s]
      /\ word'[s] = ErasedWords /\ word'[1 - s] = word[1 - s]
  BY <1>0, ValidIs DEF TypeInv, Sect
<1>3. ~SomeValid'
  BY <1>1, <1>2 DEF SomeValid, Sect
<1>4. TypeInv'
  BY <1>0, ErasedIs DEF TypeInv
<1>5. LogInv'
  <2>1. \A t \in Sect : \E n \in 0 .. WordNum : Filled(word'[t], n)
    BY <1>0, <1>2, ErasedIs, Sizes DEF LogInv, Sect
  <2>2. QED
    BY <1>0, <1>1, <1>3, <2>1 DEF LogInv, SomeValid
<1>6. FreshInv'
  <2>1. CASE s = 0
    BY <1>0, <1>1, <1>2, <1>3, <2>1, ErasedIs DEF FreshInv
  <2>2. CASE s = 1
    BY <1>0, <1>1, <1>2, <1>3, <2>2 DEF FreshInv
  <2>3. QED
    BY <2>1, <2>2 DEF Sect
<1>7. BoundInv'
  BY <1>0, <1>1 DEF BoundInv
<1>8. QED
  BY <1>0, <1>1, <1>3, <1>4, <1>5, <1>6, <1>7 DEF IInv, AppendInv, UpdateInv, CountInv

LEMMA EraseNewStep ==
  ASSUME IInv, EraseNew
  PROVE  IInv'
<1>0. /\ TypeInv /\ LogInv /\ UpdateInv /\ CountInv /\ BoundInv
      /\ pc = "erase" /\ pc' = "carry"
      /\ hdr' = [hdr EXCEPT ![op.sect] = "idle"]
      /\ word' = [word EXCEPT ![op.sect] = ErasedWords]
      /\ UNCHANGED <<op, saved, crashes>>
  BY DEF IInv, EraseNew
<1> DEFINE s == op.sect
           o == 1 - op.sect
<1>1. s \in Sect /\ o \in Sect /\ o # s /\ Sect = {s, o}
  BY <1>0, ValidIs DEF Sect
<1>2. op.upd /\ SomeValid /\ FirstValid = o /\ op.addr = 1 /\ Filled(word[o], WordNum)
      /\ hdr[o] = "valid"
  BY <1>0, ValidIs DEF UpdateInv
<1>3. hdr'[s] = "idle" /\ hdr'[o] = hdr[o] /\ word'[s] = ErasedWords /\ word'[o] = word[o]
  BY <1>0, <1>1 DEF TypeInv
<1>4. SomeValid' /\ FirstValid' = o
  BY <1>1, <1>2, <1>3 DEF SomeValid, FirstValid, Sect
<1>5. FromFlash' = FromFlash
  BY <1>2, <1>3, <1>4, ReadsSame
<1>6. TypeInv'
  BY <1>0, ErasedIs DEF TypeInv
<1>7. LogInv'
  <2>1. \A t \in Sect : \E n \in 0 .. WordNum : Filled(word'[t], n)
    BY <1>0, <1>1, <1>3, ErasedIs, Sizes DEF LogInv
  <2>2. \A t \in Sect : hdr'[t] = "valid" => ~Filled(word'[t], 0)
    BY <1>0, <1>1, <1>3 DEF LogInv
  <2>3. QED
    BY <1>4, <2>1, <2>2 DEF LogInv
<1>8. UpdateInv'
  BY <1>0, <1>2, <1>3, <1>4, ErasedIs DEF UpdateInv
<1>9. CountInv' /\ BoundInv'
  BY <1>0, <1>2, <1>5 DEF CountInv, BoundInv
<1>10. QED
  BY <1>0, <1>6, <1>7, <1>8, <1>9 DEF IInv, FreshInv, AppendInv

LEMMA CarryStep ==
  ASSUME IInv, Carry
  PROVE  IInv'
<1> DEFINE s == op.sect
           o == 1 - op.sect
           c == Search(word[o]).count
<1>0. /\ TypeInv /\ LogInv /\ UpdateInv /\ CountInv /\ BoundInv
      /\ pc = "carry" /\ pc' = "append"
      /\ word' = [word EXCEPT ![s][0] = c] /\ UNCHANGED <<hdr, op, saved, crashes>>
  BY DEF IInv, Carry
<1>1. s \in Sect /\ o \in Sect /\ o # s /\ Sect = {s, o}
  BY <1>0, ValidIs DEF Sect
<1>2. /\ op.upd /\ SomeValid /\ FirstValid = o /\ op.addr = 1 /\ Filled(word[o], WordNum)
      /\ Filled(word[s], 0) /\ hdr[s] = "idle" /\ hdr[o] = "valid"
  BY <1>0, ValidIs DEF UpdateInv
<1>3. c \in 0 .. MaxCount
  <2>1. PICK n \in 1 .. WordNum : Ends(word[o], n, FromFlash)
    BY <1>0, <1>2, Reads
  <2> HIDE DEF o
  <2>2. Search(word[o]).count = FromFlash
    BY <2>1, Found
  <2>3. QED
    BY <1>0, <1>2, <2>2, Reads
<1>4. word'[s] = [word[s] EXCEPT ![0] = c] /\ word'[o] = word[o]
  BY <1>0, <1>1 DEF TypeInv
<1>5. word[s] \in [Words -> (0 .. MaxCount) \cup {Nil}] /\ 0 \in Words
  BY <1>0, <1>1, Sizes DEF TypeInv
<1> HIDE DEF c
<1>6. word'[s] \in [Words -> (0 .. MaxCount) \cup {Nil}] /\ Filled(word'[s], 1)
  <2> HIDE DEF s
  <2>1. Filled(word[s], 0)
    BY <1>2
  <2>2. [word[s] EXCEPT ![0] = c] \in [Words -> (0 .. MaxCount) \cup {Nil}]
        /\ Filled([word[s] EXCEPT ![0] = c], 0 + 1)
    BY <1>3, <1>5, <2>1, Appended
  <2>3. QED
    BY <1>4, <2>2
<1>7. (SomeValid' <=> SomeValid) /\ FirstValid' = FirstValid
  BY <1>0 DEF SomeValid, FirstValid
<1>8. FromFlash' = FromFlash
  BY <1>2, <1>4, <1>7, ReadsSame
<1>9. TypeInv'
  <2>1. word' \in [Sect -> [Words -> (0 .. MaxCount) \cup {Nil}]]
    BY <1>0, <1>1, <1>4, <1>6 DEF TypeInv
  <2>2. QED
    BY <1>0, <2>1 DEF TypeInv
<1>10. LogInv'
  <2>1. \A t \in Sect : \E n \in 0 .. WordNum : Filled(word'[t], n)
    BY <1>0, <1>1, <1>4, <1>6, Sizes DEF LogInv
  <2>2. \A t \in Sect : hdr'[t] = "valid" => ~Filled(word'[t], 0)
    BY <1>0, <1>1, <1>2, <1>4 DEF LogInv
  <2>3. QED
    BY <1>2, <1>7, <2>1, <2>2 DEF LogInv
<1>11. UpdateInv'
  BY <1>0, <1>2, <1>4, <1>6, <1>7 DEF UpdateInv
<1>12. CountInv' /\ BoundInv'
  BY <1>0, <1>2, <1>8 DEF CountInv, BoundInv
<1>13. QED
  BY <1>0, <1>2, <1>7, <1>9, <1>10, <1>11, <1>12 DEF IInv, FreshInv, AppendInv

LEMMA AppendStep ==
  ASSUME IInv, Append
  PROVE  IInv'
<1> DEFINE s == op.sect
           o == 1 - op.sect
           a == op.addr
<1>0. /\ TypeInv /\ LogInv /\ FreshInv /\ AppendInv /\ UpdateInv /\ CountInv /\ BoundInv
      /\ pc = "append" /\ pc' = IF op.upd \/ a = 0 THEN "newHeader" ELSE "return"
      /\ word' = [word EXCEPT ![s][a] = op.count] /\ UNCHANGED <<hdr, op, saved, crashes>>
  BY DEF IInv, Append
<1>1. s \in Sect /\ o \in Sect /\ o # s /\ Sect = {s, o}
  BY <1>0, ValidIs DEF Sect
<1>2. op.count \in 0 .. MaxCount /\ a \in Words /\ op.upd \in BOOLEAN
      /\ word[s] \in [Words -> (0 .. MaxCount) \cup {Nil}]
  BY <1>0, <1>1 DEF TypeInv
<1>3. Filled(word[s], a)
  BY <1>0, <1>2 DEF FreshInv, AppendInv, UpdateInv
<1>4. word'[s] = [word[s] EXCEPT ![a] = op.count] /\ word'[o] = word[o]
  BY <1>0, <1>1 DEF TypeInv
<1>5. /\ word'[s] \in [Words -> (0 .. MaxCount) \cup {Nil}]
      /\ Ends(word'[s], a + 1, op.count)
  BY <1>2, <1>3, <1>4, Appended
<1>6. (SomeValid' <=> SomeValid) /\ FirstValid' = FirstValid
  BY <1>0 DEF SomeValid, FirstValid
<1>7. TypeInv'
  <2>1. word' \in [Sect -> [Words -> (0 .. MaxCount) \cup {Nil}]]
    BY <1>0, <1>1, <1>4, <1>5 DEF TypeInv
  <2>2. QED
    BY <1>0, <2>1 DEF TypeInv
<1>8. LogInv'
  <2>1. \E n \in 0 .. WordNum : Filled(word'[s], n)
    <3>1. a + 1 \in 1 .. WordNum /\ Filled(word'[s], a + 1)
      BY <1>5 DEF Ends
    <3>2. a + 1 \in 0 .. WordNum
      BY <3>1, Sizes
    <3>3. QED
      BY <3>1, <3>2
  <2>2. ~Filled(word'[s], 0)
    BY <1>5, Found
  <2>3. QED
    BY <1>0, <1>1, <1>4, <1>6, <2>1, <2>2 DEF LogInv
<1>9. CASE ~SomeValid
  <2>1. s = 0 /\ a = 0 /\ ~op.upd /\ pc' = "newHeader" /\ hdr[0] = "idle" /\ saved = Nil
    BY <1>0, <1>9 DEF FreshInv, LogInv
  <2>2. Ends(word'[0], 1, op.count)
    BY <1>5, <2>1, 0 + 1 = 1
  <2>3. FreshInv'
    BY <1>0, <1>6, <1>9, <2>1, <2>2 DEF FreshInv
  <2>4. QED
    BY <1>0, <1>6, <1>7, <1>8, <1>9, <2>1, <2>3
       DEF IInv, AppendInv, UpdateInv, CountInv, BoundInv
<1>10. CASE SomeValid /\ ~op.upd
  <2>1. s = FirstValid /\ a > 0 /\ pc' = "return"
    BY <1>0, <1>2, <1>10 DEF AppendInv
  <2>2. FromFlash' = op.count
    BY <1>5, <1>6, <1>10, <2>1, ReadsNew
  <2>3. op.count = FromFlash + 1 /\ FromFlash \in 0 .. MaxCount
    BY <1>0, <1>10, Reads DEF CountInv
  <2>4. BoundInv'
    <3> SUFFICES ASSUME saved # Nil
                 PROVE  saved <= op.count /\ op.count <= saved + crashes + 1
        BY <1>0, <2>1, <2>2 DEF BoundInv
    <3>1. saved \in Int /\ crashes \in Int /\ FromFlash \in Int
      BY <1>0, <2>3, Sizes DEF TypeInv
    <3>2. saved <= FromFlash /\ FromFlash <= saved + crashes + 0
      BY <1>0 DEF BoundInv
    <3>3. QED
      BY <2>3, <3>1, <3>2
  <2>5. QED
    BY <1>0, <1>6, <1>7, <1>8, <1>10, <2>1, <2>2, <2>4
       DEF IInv, FreshInv, AppendInv, UpdateInv, CountInv
<1>11. CASE SomeValid /\ op.upd
  <2>1. /\ FirstValid = o /\ a = 1 /\ Filled(word[o], WordNum) /\ hdr[s] = "idle"
        /\ pc' = "newHeader"
    BY <1>0, <1>11 DEF UpdateInv
  <2>2. Ends(word'[s], 2, op.count)
    BY <1>5, <2>1, 1 + 1 = 2
  <2>3. FromFlash' = FromFlash
    BY <1>4, <1>6, <2>1, ReadsSame
  <2>4. UpdateInv'
    BY <1>0, <1>4, <1>6, <1>11, <2>1, <2>2 DEF UpdateInv
  <2>5. CountInv' /\ BoundInv'
    BY <1>0, <1>6, <1>11, <2>1, <2>3 DEF CountInv, BoundInv
  <2>6. QED
    BY <1>0, <1>6, <1>7, <1>8, <1>11, <2>1, <2>4, <2>5 DEF IInv, FreshInv, AppendInv
<1>12. QED
  BY <1>2, <1>9, <1>10, <1>11

LEMMA ValidateStep ==
  ASSUME IInv, ValidateNewHeader
  PROVE  IInv'
<1> DEFINE s == op.sect
           o == 1 - op.sect
<1>0. /\ TypeInv /\ LogInv /\ FreshInv /\ AppendInv /\ UpdateInv /\ CountInv /\ BoundInv
      /\ pc = "newHeader" /\ pc' = IF op.upd THEN "oldHeader" ELSE "return"
      /\ hdr' = [hdr EXCEPT ![s] = IF @ = "invalid" THEN @ ELSE "valid"]
      /\ UNCHANGED <<word, op, saved, crashes>>
  BY DEF IInv, ValidateNewHeader
<1>1. s \in Sect /\ o \in Sect /\ o # s /\ Sect = {s, o}
  BY <1>0, ValidIs DEF Sect
<1>2. hdr[s] = "idle" /\ op.count \in 0 .. MaxCount /\ op.upd \in BOOLEAN
  BY <1>0 DEF FreshInv, AppendInv, UpdateInv, TypeInv
<1>3. hdr'[s] = "valid" /\ hdr'[o] = hdr[o]
  BY <1>0, <1>1, <1>2 DEF TypeInv
<1>4. TypeInv'
  BY <1>0, <1>2 DEF TypeInv
<1>5. SomeValid'
  BY <1>1, <1>3 DEF SomeValid
<1>6. ASSUME NEW n, Ends(word[s], n, op.count)
      PROVE  LogInv'
  <2>1. ~Filled(word[s], 0)
    BY <1>6, Found
  <2>2. QED
    BY <1>0, <1>1, <1>3, <1>5, <2>1 DEF LogInv
<1>7. CASE ~SomeValid
  <2>1. s = 0 /\ ~op.upd /\ pc' = "return" /\ saved = Nil /\ Ends(word[0], 1, op.count)
    BY <1>0, <1>7 DEF FreshInv, LogInv
  <2>2. FirstValid' = 0
    BY <1>3, <2>1 DEF FirstValid
  <2>3. FromFlash' = op.count
    BY <1>0, <1>5, <2>1, <2>2, ReadsNew
  <2>4. LogInv'
    BY <1>6, <2>1
  <2>5. QED
    BY <1>0, <1>4, <1>5, <2>1, <2>3, <2>4
       DEF IInv, FreshInv, AppendInv, UpdateInv, CountInv, BoundInv
<1>8. CASE SomeValid
  <2>1. /\ op.upd /\ pc' = "oldHeader" /\ FirstValid = o /\ Filled(word[o], WordNum)
        /\ Ends(word[s], 2, op.count) /\ hdr[o] = "valid"
    BY <1>0, <1>8, ValidIs DEF AppendInv, UpdateInv
  <2>2. op.count = FromFlash + 1 /\ FromFlash \in 0 .. MaxCount
    BY <1>0, <1>8, Reads DEF CountInv
  <2>3. Ends(word[o], WordNum, op.count - 1)
    <3> DEFINE f == word[o]
               w == WordNum
    <3>1. w \in 1 .. WordNum
      BY Sizes
    <3>2. Ends(f, w, f[w - 1])
      BY <2>1, <3>1 DEF Ends
    <3>3. f[w - 1] = Search(f).count
      BY <3>2, Found
    <3>4. PICK n \in 1 .. WordNum : Ends(f, n, FromFlash)
      BY <1>0, <1>8, <2>1, Reads
    <3> HIDE DEF f, w
    <3>5. Search(f).count = FromFlash
      BY <3>4, Found
    <3>6. FromFlash = op.count - 1
      BY <2>2, Sizes
    <3>7. QED
      BY <3>2, <3>3, <3>5, <3>6 DEF f, w
  <2>4. FromFlash' \in {op.count - 1, op.count}
    <3>1. FirstValid' \in {s, o}
      BY <1>1 DEF FirstValid, Sect
    <3>2. CASE FirstValid' = s
      BY <1>0, <1>5, <2>1, <3>2, ReadsNew
    <3>3. CASE FirstValid' = o
      BY <1>0, <1>5, <2>3, <3>3, ReadsNew
    <3>4. QED
      BY <3>1, <3>2, <3>3
  <2>5. LogInv'
    BY <1>6, <2>1
  <2>6. UpdateInv'
    BY <1>0, <1>3, <2>1, <2>3 DEF UpdateInv
  <2>7. BoundInv'
    <3> SUFFICES ASSUME saved # Nil
                 PROVE  /\ saved <= FromFlash' /\ FromFlash' <= saved + crashes + 1
                        /\ op.count <= saved + crashes + 1
        BY <1>0, <2>1 DEF BoundInv
    <3>1. saved \in Int /\ crashes \in Nat /\ FromFlash \in Int /\ op.count \in Int
      BY <1>0, <1>2, <2>2, Sizes DEF TypeInv
    <3>2. saved <= FromFlash /\ FromFlash <= saved + crashes + 0
      BY <1>0 DEF BoundInv
    <3>3. QED
      BY <2>2, <2>4, <3>1, <3>2
  <2>8. QED
    BY <1>0, <1>4, <2>1, <2>5, <2>6, <2>7 DEF IInv, FreshInv, AppendInv, CountInv
<1>9. QED
  BY <1>7, <1>8

LEMMA InvalidateStep ==
  ASSUME IInv, InvalidateOldHeader
  PROVE  IInv'
<1> DEFINE s == op.sect
           o == 1 - op.sect
<1>0. /\ TypeInv /\ LogInv /\ UpdateInv /\ BoundInv
      /\ pc = "oldHeader" /\ pc' = "return"
      /\ hdr' = [hdr EXCEPT ![o] = "invalid"]
      /\ UNCHANGED <<word, op, saved, crashes>>
  BY DEF IInv, InvalidateOldHeader
<1>1. s \in Sect /\ o \in Sect /\ o # s /\ Sect = {s, o}
  BY <1>0, ValidIs DEF Sect
<1>2. /\ hdr[s] = "valid" /\ Ends(word[o], WordNum, op.count - 1)
      /\ Ends(word[s], 2, op.count) /\ op.count \in 0 .. MaxCount
  BY <1>0 DEF UpdateInv, TypeInv
<1>3. hdr'[s] = "valid" /\ hdr'[o] = "invalid"
  BY <1>0, <1>1, <1>2 DEF TypeInv
<1>4. SomeValid' /\ FirstValid' = s
  BY <1>1, <1>3 DEF SomeValid, FirstValid, Sect
<1>5. FromFlash' = op.count
  BY <1>0, <1>2, <1>4, ReadsNew
<1>6. FromFlash \in {op.count - 1, op.count}
  <2>1. SomeValid
    BY <1>1, <1>2 DEF SomeValid
  <2>2. PICK n \in 1 .. WordNum : Ends(word[FirstValid], n, FromFlash)
    BY <1>0, <2>1, Reads
  <2>3. Search(word[FirstValid]).count = FromFlash
    BY <2>2, Found
  <2>4. FirstValid \in {s, o}
    BY <1>1 DEF FirstValid, Sect
  <2> HIDE DEF s, o
  <2>5. Search(word[s]).count = op.count /\ Search(word[o]).count = op.count - 1
    <3>1. ASSUME NEW f, NEW k, NEW c, Ends(f, k, c) PROVE Search(f).count = c
      BY <3>1, Found
    <3>2. QED
      BY <1>2, <3>1
  <2>6. QED
    BY <2>3, <2>4, <2>5
<1>7. TypeInv'
  BY <1>0 DEF TypeInv
<1>8. LogInv'
  BY <1>0, <1>1, <1>3, <1>4 DEF LogInv
<1>9. BoundInv'
  <2> SUFFICES ASSUME saved # Nil
               PROVE  saved <= op.count /\ op.count <= saved + crashes + 1
      BY <1>0, <1>5 DEF BoundInv
  <2>1. saved \in Int /\ crashes \in Nat /\ FromFlash \in Int /\ op.count \in Int
    BY <1>0, <1>2, <1>6, Sizes DEF TypeInv
  <2>2. saved <= FromFlash /\ op.count <= saved + crashes + 1
    BY <1>0 DEF BoundInv
  <2>3. QED
    BY <1>6, <2>1, <2>2
<1>10. QED
  BY <1>0, <1>4, <1>5, <1>7, <1>8, <1>9 DEF IInv, FreshInv, AppendInv, UpdateInv, CountInv

\* A save that returns or is cut off.
LEMMA EndStep ==
  ASSUME IInv, Return \/ Crash
  PROVE  IInv'
<1>0. /\ TypeInv /\ LogInv /\ CountInv /\ BoundInv /\ UNCHANGED <<hdr, word>>
      /\ pc # "idle" /\ pc' = "idle" /\ op' = NoOp
  BY DEF IInv, Return, Crash
<1>1. (SomeValid' <=> SomeValid) /\ FirstValid' = FirstValid /\ FromFlash' = FromFlash
  BY <1>0 DEF SomeValid, FirstValid, FromFlash
<1>2. saved \in (0 .. MaxCount) \cup {Nil} /\ crashes \in Nat /\ op.count \in 0 .. MaxCount
  BY <1>0, Sizes DEF TypeInv
<1>3. NoOp \in [count : (0 .. MaxCount) \cup {Nil}, sect : Sect, addr : Words, upd : BOOLEAN]
  BY Sizes DEF NoOp, Sect
<1>4. CASE Return
  <2>1. pc = "return" /\ saved' = op.count /\ crashes' = crashes
    BY <1>4 DEF Return
  <2>2. SomeValid /\ FromFlash = op.count
    BY <1>0, <2>1 DEF CountInv
  <2>3. TypeInv'
    BY <1>0, <1>2, <1>3, <2>1 DEF TypeInv
  <2>4. LogInv'
    BY <1>0, <1>1, <2>2 DEF LogInv
  <2>5. BoundInv'
    BY <1>0, <1>1, <1>2, <2>1, <2>2, Sizes DEF BoundInv
  <2>6. QED
    BY <1>0, <2>3, <2>4, <2>5 DEF IInv, FreshInv, AppendInv, UpdateInv, CountInv
<1>5. CASE Crash
  <2>1. crashes < MaxCrash /\ crashes' = crashes + 1 /\ saved' = saved
    BY <1>5 DEF Crash
  <2>2. crashes' \in 0 .. MaxCrash
    BY <1>2, <2>1, Sizes
  <2>3. TypeInv'
    BY <1>0, <1>2, <1>3, <2>1, <2>2 DEF TypeInv
  <2>4. LogInv'
    BY <1>0, <1>1, <2>1 DEF LogInv
  <2>5. BoundInv'
    <3> SUFFICES ASSUME saved # Nil
                 PROVE  saved <= FromFlash /\ FromFlash <= saved + crashes' + 0
        BY <1>0, <1>1, <2>1 DEF BoundInv
    <3>1. SomeValid /\ FromFlash \in 0 .. MaxCount
      BY <1>0, Reads DEF LogInv
    <3>2. /\ saved <= FromFlash
          /\ FromFlash <= saved + crashes + 1 \/ FromFlash <= saved + crashes + 0
      BY <1>0 DEF BoundInv
    <3>3. saved \in Int /\ FromFlash \in Int
      BY <1>2, <3>1, Sizes
    <3>4. QED
      BY <1>2, <2>1, <3>2, <3>3
  <2>6. QED
    BY <1>0, <2>3, <2>4, <2>5 DEF IInv, FreshInv, AppendInv, UpdateInv, CountInv
<1>6. QED
  BY <1>4, <1>5
---------------------------------------------------------------------------
LEMMA InitIInv == Init => IInv
<1> SUFFICES ASSUME Init PROVE IInv
    OBVIOUS
<1>1. pc = "idle" /\ saved = Nil /\ crashes = 0 /\ op = NoOp
      /\ \A s \in Sect : hdr[s] = "idle" /\ word[s] = ErasedWords
  BY DEF Init
<1>2. TypeInv
  <2>1. NoOp \in [count : (0 .. MaxCount) \cup {Nil}, sect : Sect, addr : Words, upd : BOOLEAN]
    BY Sizes DEF NoOp, Sect
  <2>2. crashes \in 0 .. MaxCrash
    BY <1>1, Sizes
  <2>3. QED
    BY <1>1, <2>1, <2>2, ErasedIs DEF Init, TypeInv
<1>3. LogInv
  BY <1>1, ErasedIs, Sizes DEF LogInv
<1>4. QED
  BY <1>1, <1>2, <1>3 DEF IInv, FreshInv, AppendInv, UpdateInv, CountInv, BoundInv

LEMMA IInvStep ==
  ASSUME IInv, [Next]_vars
  PROVE  IInv'
<1>1. CASE Next
  BY <1>1, StartStep, EraseBothStep, EraseNewStep, CarryStep, AppendStep, ValidateStep,
     InvalidateStep, EndStep DEF Next, Step
<1>2. CASE UNCHANGED vars
  <2>1. UNCHANGED <<hdr, word, pc, op, saved, crashes>>
    BY <1>2 DEF vars
  <2>2. (SomeValid' <=> SomeValid) /\ FirstValid' = FirstValid /\ FromFlash' = FromFlash
    BY <2>1 DEF SomeValid, FirstValid, FromFlash
  <2>3. TypeInv' /\ LogInv'
    BY <2>1, <2>2 DEF IInv, TypeInv, LogInv
  <2>4. FreshInv' /\ AppendInv' /\ UpdateInv'
    BY <2>1, <2>2 DEF IInv, FreshInv, AppendInv, UpdateInv
  <2>5. CountInv' /\ BoundInv'
    BY <2>1, <2>2 DEF IInv, CountInv, BoundInv
  <2>6. QED
    BY <2>3, <2>4, <2>5 DEF IInv
<1>3. QED
  BY <1>1, <1>2

\* The inductive invariant: the sectors are logs, and at every step of
\* nv_nwkFrameCountSaveToFlash the sector a reader looks at ends in the last
\* counter saved or in the one being saved.
THEOREM FrameInvariant == Spec => []IInv
<1>1. Init => IInv
  BY InitIInv
<1>2. IInv /\ [Next]_vars => IInv'
  BY IInvStep
<1>3. QED
  BY <1>1, <1>2, PTL DEF Spec

\* nv_nwkFrameCountSearch, by pages and units of any size, answers what a scan of
\* every word would.
THEOREM SearchCorrect == Spec => []SearchIsFirstErased
<1>1. IInv => SearchIsFirstErased
  <2> SUFFICES ASSUME IInv, NEW s \in Sect
               PROVE  LET used == {k \in Words : word[s][k] # Nil}
                          m == IF used = {} THEN 0 ELSE Max(used) + 1
                      IN  Search(word[s]) =
                            [found |-> m > 0, addr |-> m,
                             count |-> IF m > 0 THEN word[s][m - 1] ELSE Nil]
      BY DEF SearchIsFirstErased
  <2> DEFINE f == word[s]
             used == {k \in Words : f[k] # Nil}
             m == IF used = {} THEN 0 ELSE Max(used) + 1
  <2>1. PICK n \in 0 .. WordNum : Filled(f, n)
    BY DEF IInv, LogInv
  <2>2. n \in Nat /\ n <= WordNum /\ WordNum \in Nat
    BY Sizes
  <2>3. \A k : k \in used <=> k \in 0 .. n - 1
    BY <2>1, <2>2 DEF Filled, Words
  <2>4. m = n
    <3>1. CASE n = 0
      BY <2>3, <3>1
    <3>2. CASE n > 0
      <4>1. n - 1 \in used /\ used \subseteq 0 .. n
        BY <2>2, <2>3, <3>2
      <4>2. Max(used) \in used /\ \A y \in used : y <= Max(used)
        BY <2>2, <4>1, MaxIs
      <4> HIDE DEF used
      <4>3. Max(used) \in 0 .. n - 1 /\ n - 1 <= Max(used)
        BY <2>3, <4>1, <4>2
      <4>4. Max(used) + 1 = n
        BY <2>2, <4>3
      <4>5. QED
        BY <4>1, <4>4
    <3>3. QED
      BY <2>2, <3>1, <3>2
  <2> HIDE DEF f, m
  <2>5. Search(f) = [found |-> m > 0, addr |-> m, count |-> IF m > 0 THEN f[m - 1] ELSE Nil]
    BY <2>1, <2>4, SearchIs
  <2>6. QED
    BY <2>5 DEF f, m
<1>2. QED
  BY <1>1, FrameInvariant, PTL

\* A frame counter that was saved is never forgotten nor moved back, at whatever
\* step power fails.
THEOREM NeverBackCorrect == Spec => []NeverBack
<1>1. IInv => NeverBack
  <2> SUFFICES ASSUME IInv, saved # Nil
               PROVE  /\ FromFlash # Nil /\ FromFlash >= saved
                      /\ FromFlash <= saved + 1 + crashes
      BY DEF NeverBack
  <2>1. SomeValid /\ FromFlash \in 0 .. MaxCount
    BY Reads DEF IInv, LogInv
  <2>2. saved \in Int /\ crashes \in Nat /\ FromFlash \in Int
    BY <2>1, Sizes DEF IInv, TypeInv
  <2>3. /\ saved <= FromFlash
        /\ FromFlash <= saved + crashes + 1 \/ FromFlash <= saved + crashes + 0
    BY DEF IInv, BoundInv
  <2>4. QED
    BY <2>1, <2>2, <2>3, Sizes
<1>2. QED
  BY <1>1, FrameInvariant, PTL
=============================================================================
