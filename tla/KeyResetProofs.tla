--------------------------- MODULE KeyResetProofs ---------------------------
(***************************************************************************)
(* Proofs about KeyReset: the key handler and the factory reset, for every *)
(* hold time, any keys of the board and any number of power failures.      *)
(***************************************************************************)
EXTENDS KeyReset, TLAPS

\* The sequence s has u among its elements.
Has(s, u) == \E k \in 1 .. Len(s) : s[k] = u

\* The units of the frame counter; those of the other modules.
Kept == {2, 3}
Others == (0 .. 1) \cup (4 .. 11)

(***************************************************************************)
(* The reset.  A reset erases its list from the front; a module's own list *)
(* stays out of the frame counter's units unless it is the frame counter's, *)
(* and what the factory reset has not erased yet is still on the list.     *)
(***************************************************************************)
NvType ==
  /\ owner \in [AllUnits -> Modules \cup {Erased, Mixed}]
  /\ flag \in BOOLEAN /\ pc \in {"run", "reset", "factory", "boot"}
  /\ todo \in Seq(AllUnits) /\ half \in BOOLEAN

ListInv ==
  pc \in {"reset", "factory"} /\ actor # NWK_FRAME_COUNT =>
    \A k \in 1 .. Len(todo) : todo[k] \notin Kept

LeftInv == pc = "factory" => \A u \in Others : owner[u] = Erased \/ Has(todo, u)

\* The byte is programmed from before the first erase until after the last one.
FlagInv == (flag => pc \in {"factory", "boot"}) /\ (pc = "factory" => flag)

\* A half erased store has data that a reset has still to erase.
HalfInv == half => flag /\ \E u \in Others : owner[u] # Erased

NvInv == NvType /\ ListInv /\ LeftInv /\ FlagInv /\ HalfInv

(***************************************************************************)
(* The keys.                                                                *)
(***************************************************************************)
KeyType ==
  /\ down \subseteq KeySet /\ pre \subseteq KeySet /\ last \subseteq KeySet
  /\ release_cnt \in 0 .. ReleaseCnt - 1
  /\ elapsed \in 0 .. Hold /\ age \in -1 .. Hold

\* A key in the filter's memory keeps the release counter up: a raw one for two
\* more scans, a reported one for one more.
ReleaseInv ==
  /\ pre # {} => release_cnt = ReleaseCnt - 1
  /\ last # {} => release_cnt >= ReleaseCnt - 2

\* The time the handler measures is no longer than SW1 has been held.
HeldInv ==
  /\ app = "check" => last # {} /\ age >= elapsed
  /\ K!SW1 \in last => age >= 0

KeyInv == KeyType /\ ReleaseInv /\ HeldInv

IInv == NvInv /\ KeyInv
---------------------------------------------------------------------------
(* The layout. *)

LEMMA Units ==
  /\ AllUnits = 0 .. 11 /\ Range(NWK_FRAME_COUNT) = Kept
  /\ AllUnits \ Range(NWK_FRAME_COUNT) = Others
<1>1. Range(0) = 0 .. 1
  BY DEF Range, SectUnits, SectStart, Start, SectorSize, USER_INFO1
<1>2. Range(1) = 2 .. 3
  BY DEF Range, SectUnits, SectStart, Start, SectorSize, USER_INFO1
<1>3. Range(2) = 4 .. 11
  BY DEF Range, SectUnits, SectStart, Start, SectorSize, USER_INFO1
<1>4. Range(3) = 6 .. 7
  BY DEF Range, SectUnits, SectStart, Start, SectorSize, USER_INFO1
<1>5. Modules = {0, 1, 2, 3}
  BY DEF Modules
<1>6. AllUnits = Range(0) \cup Range(1) \cup Range(2) \cup Range(3)
  BY <1>5 DEF AllUnits
<1>7. AllUnits = 0 .. 11
  BY <1>1, <1>2, <1>3, <1>4, <1>6
<1>8. QED
  BY <1>2, <1>7 DEF NWK_FRAME_COUNT, Kept, Others

\* Where the modules' sectors start, and that only the frame counter's are its own.
LEMMA Sectors ==
  ASSUME NEW id \in Modules, NEW s \in {0, 1}
  PROVE  /\ SectStart(id, s) \in AllUnits
         /\ id # NWK_FRAME_COUNT => SectUnits(id, s) \cap Kept = {}
         /\ id # NWK_FRAME_COUNT => SectStart(id, s) \notin Kept
<1>1. id \in {0, 1, 2, 3}
  BY DEF Modules
<1>2. QED
  BY <1>1, Units DEF SectUnits, SectStart, Start, SectorSize, USER_INFO1, NWK_FRAME_COUNT, Kept

LEMMA EraseLists ==
  ASSUME NEW id \in Modules
  PROVE  /\ EraseList(id) \in Seq(AllUnits)
         /\ Len(EraseList(id)) = IF id = USER_INFO1 THEN 8 ELSE 2
         /\ \A k \in 1 .. Len(EraseList(id)) : EraseList(id)[k] = 2 * id + k - 1
         /\ id # NWK_FRAME_COUNT =>
              \A k \in 1 .. Len(EraseList(id)) : EraseList(id)[k] \notin Kept
<1> DEFINE n == IF id = USER_INFO1 THEN 8 ELSE 2
<1>1. id \in {0, 1, 2, 3} /\ n \in Nat
  BY DEF Modules
<1>2. 2 * SectorSize(id) = n
  BY DEF SectorSize
<1>3. EraseList(id) = [k \in 1 .. n |-> 2 * id + k - 1]
  BY <1>2 DEF EraseList, Start
<1>4. \A k \in 1 .. n : 2 * id + k - 1 \in 0 .. 11
  BY <1>1 DEF USER_INFO1
<1>5. EraseList(id) \in [1 .. n -> AllUnits]
  BY <1>3, <1>4, Units
<1>6. EraseList(id) \in Seq(AllUnits) /\ Len(EraseList(id)) = n
  BY <1>1, <1>5
<1>7. \A k \in 1 .. n : EraseList(id)[k] = 2 * id + k - 1
  BY <1>3
<1>8. id # NWK_FRAME_COUNT => \A k \in 1 .. n : 2 * id + k - 1 \notin Kept
  BY <1>1 DEF USER_INFO1, NWK_FRAME_COUNT, Kept
<1>9. QED
  BY <1>6, <1>7, <1>8

LEMMA Joined ==
  ASSUME NEW S, NEW s \in Seq(S), NEW t \in Seq(S)
  PROVE  /\ s \o t \in Seq(S) /\ Len(s \o t) = Len(s) + Len(t)
         /\ \A k \in 1 .. Len(s) + Len(t) :
              (s \o t)[k] = IF k <= Len(s) THEN s[k] ELSE t[k - Len(s)]
  OBVIOUS

\* The list of the factory reset: every unit but the frame counter's.
LEMMA FactoryListIs ==
  /\ FactoryList \in Seq(AllUnits)
  /\ \A k \in 1 .. Len(FactoryList) : FactoryList[k] \notin Kept
  /\ \A u \in Others : Has(FactoryList, u)
<1> DEFINE a == EraseList(0)
           b == EraseList(2)
           c == EraseList(3)
<1>0. {0, 2, 3} \subseteq Modules /\ USER_INFO1 = 2
  BY DEF Modules, USER_INFO1
<1>1. a \in Seq(AllUnits) /\ Len(a) = 2 /\ \A k \in 1 .. 2 : a[k] = k - 1
  <2>1. a \in Seq(AllUnits) /\ Len(a) = 2 /\ \A k \in 1 .. Len(a) : a[k] = 2 * 0 + k - 1
    BY <1>0, EraseLists
  <2>2. QED
    BY <2>1
<1>2. b \in Seq(AllUnits) /\ Len(b) = 8 /\ \A k \in 1 .. 8 : b[k] = k + 3
  <2>1. b \in Seq(AllUnits) /\ Len(b) = 8 /\ \A k \in 1 .. Len(b) : b[k] = 2 * 2 + k - 1
    BY <1>0, EraseLists
  <2>2. QED
    BY <2>1
<1>3. c \in Seq(AllUnits) /\ Len(c) = 2 /\ \A k \in 1 .. 2 : c[k] = k + 5
  <2>1. c \in Seq(AllUnits) /\ Len(c) = 2 /\ \A k \in 1 .. Len(c) : c[k] = 2 * 3 + k - 1
    BY <1>0, EraseLists
  <2>2. QED
    BY <2>1
<1>4. FactoryList = (a \o b) \o c
  BY DEF FactoryList, MAC_INFO, USER_INFO1, USER_INFO2
<1> HIDE DEF a, b, c
<1> DEFINE d == a \o b
           f == d \o c
<1>5. /\ d \in Seq(AllUnits) /\ Len(d) = 10
      /\ \A k \in 1 .. 10 : d[k] = IF k <= 2 THEN a[k] ELSE b[k - 2]
  <2>1. /\ d \in Seq(AllUnits) /\ Len(d) = Len(a) + Len(b)
        /\ \A k \in 1 .. Len(a) + Len(b) :
             d[k] = IF k <= Len(a) THEN a[k] ELSE b[k - Len(a)]
    BY <1>1, <1>2, Joined
  <2>2. Len(a) + Len(b) = 10
    BY <1>1, <1>2
  <2> HIDE DEF d
  <2>3. QED
    BY <1>1, <2>1, <2>2
<1> HIDE DEF d
<1>6. /\ f \in Seq(AllUnits) /\ Len(f) = 12
      /\ \A k \in 1 .. 12 : f[k] = IF k <= 10 THEN d[k] ELSE c[k - 10]
  <2>1. /\ f \in Seq(AllUnits) /\ Len(f) = Len(d) + Len(c)
        /\ \A k \in 1 .. Len(d) + Len(c) :
             f[k] = IF k <= Len(d) THEN d[k] ELSE c[k - Len(d)]
    BY <1>3, <1>5, Joined
  <2>2. Len(d) + Len(c) = 12
    BY <1>3, <1>5
  <2> HIDE DEF f
  <2>3. QED
    BY <1>5, <2>1, <2>2
<1> HIDE DEF f
<1>7. \A k \in 1 .. 12 : f[k] = IF k <= 2 THEN k - 1 ELSE IF k <= 10 THEN k + 1 ELSE k - 5
  <2> SUFFICES ASSUME NEW k \in 1 .. 12
               PROVE  f[k] = IF k <= 2 THEN k - 1 ELSE IF k <= 10 THEN k + 1 ELSE k - 5
      OBVIOUS
  <2>1. CASE k <= 2
    BY <1>1, <1>5, <1>6, <2>1
  <2>2. CASE k > 2 /\ k <= 10
    <3>1. k - 2 \in 1 .. 8 /\ k \in 1 .. 10
      BY <2>2
    <3>2. f[k] = b[k - 2]
      BY <1>5, <1>6, <2>2, <3>1
    <3>3. b[k - 2] = (k - 2) + 3
      BY <1>2, <3>1
    <3>4. QED
      BY <2>2, <3>2, <3>3
  <2>3. CASE k > 10
    <3>1. k - 10 \in 1 .. 2
      BY <2>3
    <3>2. f[k] = c[k - 10]
      BY <1>6, <2>3
    <3>3. c[k - 10] = (k - 10) + 5
      BY <1>3, <3>1
    <3>4. QED
      BY <2>3, <3>2, <3>3
  <2>4. QED
    BY <2>1, <2>2, <2>3
<1>8. \A k \in 1 .. 12 : f[k] \notin Kept
  BY <1>7 DEF Kept
<1>9. ASSUME NEW u \in Others PROVE Has(f, u)
  <2> DEFINE k == IF u <= 1 THEN u + 1 ELSE u - 1
  <2>1. k \in 1 .. 10 /\ u = IF k <= 2 THEN k - 1 ELSE k + 1
    BY DEF Others
  <2> HIDE DEF k
  <2>2. k \in 1 .. 12 /\ f[k] = u
    BY <1>7, <2>1
  <2>3. QED
    BY <1>6, <2>2 DEF Has
<1>10. FactoryList = f
  BY <1>4 DEF d, f
<1>11. QED
  BY <1>6, <1>8, <1>9, <1>10
---------------------------------------------------------------------------
(* The reset. *)

\* The step that erases the first unit of the list.
LEMMA Rest ==
  ASSUME NEW s \in Seq(AllUnits), s # <<>>
  PROVE  LET r == [k \in 1 .. Len(s) - 1 |-> s[k + 1]] IN
         /\ r \in Seq(AllUnits) /\ Len(r) = Len(s) - 1 /\ s[1] \in AllUnits
         /\ \A k \in 1 .. Len(r) : r[k] = s[k + 1]
         /\ \A u : Has(s, u) => u = s[1] \/ Has(r, u)
<1> DEFINE r == [k \in 1 .. Len(s) - 1 |-> s[k + 1]]
<1>1. Len(s) \in Nat /\ Len(s) # 0
  OBVIOUS
<1>2. \A k \in 1 .. Len(s) : s[k] \in AllUnits
  OBVIOUS
<1>3. r \in [1 .. Len(s) - 1 -> AllUnits] /\ Len(s) - 1 \in Nat
  BY <1>1, <1>2
<1>4. r \in Seq(AllUnits) /\ Len(r) = Len(s) - 1
  BY <1>3
<1>5. \A k \in 1 .. Len(s) - 1 : r[k] = s[k + 1]
  OBVIOUS
<1>6. s[1] \in AllUnits
  BY <1>1, <1>2
<1> HIDE DEF r
<1>7. ASSUME NEW u, Has(s, u) PROVE u = s[1] \/ Has(r, u)
  <2>1. PICK k \in 1 .. Len(s) : s[k] = u
    BY <1>7 DEF Has
  <2>2. CASE k = 1
    BY <2>1, <2>2
  <2>3. CASE k # 1
    <3>1. k - 1 \in 1 .. Len(s) - 1 /\ (k - 1) + 1 = k
      BY <1>1, <2>3
    <3>2. r[k - 1] = u
      BY <1>5, <2>1, <3>1
    <3>3. QED
      BY <1>4, <3>1, <3>2 DEF Has
  <2>4. QED
    BY <2>2, <2>3
<1>8. QED
  BY <1>4, <1>5, <1>6, <1>7 DEF r

LEMMA NvStep ==
  ASSUME NvInv, [Next]_vars
  PROVE  NvInv'
<1>0. NvType /\ ListInv /\ LeftInv /\ FlagInv /\ HalfInv
  BY DEF NvInv
<1>1. ASSUME NEW id \in Modules, NEW s \in {0, 1}, Write(id, s) \/ Move(id, s)
      PROVE  NvInv'
  <2>1. /\ pc = "run" /\ UNCHANGED <<flag, pc, todo, half>>
    BY <1>1 DEF Write, Move
  <2>2. owner' \in [AllUnits -> Modules \cup {Erased, Mixed}]
    BY <1>0, <1>1 DEF NvType, Write, Move
  <2>3. NvType'
    BY <1>0, <2>1, <2>2 DEF NvType
  <2>4. QED
    BY <1>0, <2>1, <2>3 DEF NvInv, ListInv, LeftInv, FlagInv, HalfInv
<1>2. ASSUME NEW id \in Modules, ResetModule(id)
      PROVE  NvInv'
  <2>1. /\ pc = "run" /\ pc' = "reset" /\ todo' = EraseList(id) /\ actor' = id
        /\ UNCHANGED <<owner, flag, half>>
    BY <1>2 DEF ResetModule
  <2>2. NvType'
    BY <1>0, <2>1, EraseLists DEF NvType
  <2>3. ListInv'
    BY <2>1, EraseLists DEF ListInv
  <2>4. QED
    BY <1>0, <2>1, <2>2, <2>3 DEF NvInv, LeftInv, FlagInv, HalfInv
<1>3. CASE FactoryStart
  <2>1. /\ flag' = TRUE /\ pc' = "factory" /\ todo' = FactoryList /\ UNCHANGED <<owner, half>>
    BY <1>3 DEF FactoryStart
  <2>2. NvType'
    BY <1>0, <2>1, FactoryListIs DEF NvType
  <2>3. ListInv'
    BY <2>1, FactoryListIs DEF ListInv
  <2>4. LeftInv'
    BY <2>1, FactoryListIs DEF LeftInv
  <2>5. QED
    BY <1>0, <2>1, <2>2, <2>3, <2>4 DEF NvInv, FlagInv, HalfInv
<1>4. CASE EraseUnit
  <2>1. /\ pc \in {"reset", "factory"} /\ todo # <<>> /\ UNCHANGED <<flag, pc, actor>>
        /\ owner' = [owner EXCEPT ![todo[1]] = Erased]
        /\ todo' = [k \in 1 .. Len(todo) - 1 |-> todo[k + 1]]
    BY <1>4 DEF EraseUnit
  <2>2. todo \in Seq(AllUnits) /\ Len(todo) \in Nat
    BY <1>0 DEF NvType
  <2>3. /\ todo' \in Seq(AllUnits) /\ Len(todo') = Len(todo) - 1 /\ todo[1] \in AllUnits
        /\ \A k \in 1 .. Len(todo') : todo'[k] = todo[k + 1]
        /\ \A u : Has(todo, u) => u = todo[1] \/ Has(todo', u)
    BY <2>1, <2>2, Rest
  <2>4. owner' \in [AllUnits -> Modules \cup {Erased, Mixed}]
    BY <1>0, <2>1, <2>3 DEF NvType
  <2>5. NvType'
    BY <1>0, <2>1, <2>3, <2>4, <1>4 DEF NvType, EraseUnit
  <2>6. \A k \in 1 .. Len(todo') : k + 1 \in 1 .. Len(todo)
    BY <2>2, <2>3
  <2>7. ListInv'
    BY <1>0, <2>1, <2>3, <2>6 DEF ListInv
  <2>8. LeftInv'
    <3> SUFFICES ASSUME pc = "factory", NEW u \in Others
                 PROVE  owner'[u] = Erased \/ Has(todo', u)
        BY <2>1 DEF LeftInv
    <3>1. owner[u] = Erased \/ u = todo[1] \/ Has(todo', u)
      BY <1>0, <2>3 DEF LeftInv
    <3>2. u \in AllUnits
      BY Units
    <3>3. QED
      BY <1>0, <2>1, <3>1, <3>2 DEF NvType
  <2>9. HalfInv'
    <3>1. CASE pc = "factory"
      <4>1. half' => \E u \in Others : owner'[u] # Erased
        BY <1>4, <3>1, Units DEF EraseUnit
      <4>2. flag' = TRUE
        BY <1>0, <2>1, <3>1 DEF FlagInv, NvType
      <4>3. QED
        BY <4>1, <4>2 DEF HalfInv
    <3>2. CASE pc = "reset"
      BY <1>0, <1>4, <2>1, <3>2 DEF EraseUnit, FlagInv, HalfInv
    <3>3. QED
      BY <2>1, <3>1, <3>2
  <2>10. QED
    BY <1>0, <2>1, <2>5, <2>7, <2>8, <2>9 DEF NvInv, FlagInv
<1>5. CASE ResetDone
  <2>1. /\ todo = <<>> /\ pc' = "run" /\ UNCHANGED <<owner, todo, half>>
        /\ flag' = IF pc = "factory" THEN FALSE ELSE flag
    BY <1>5 DEF ResetDone
  <2>2. ~half
    <3>1. CASE pc = "factory"
      BY <1>0, <2>1, <3>1 DEF LeftInv, HalfInv, Has
    <3>2. CASE pc = "reset"
      BY <1>0, <3>2 DEF FlagInv, HalfInv
    <3>3. QED
      BY <1>5, <3>1, <3>2 DEF ResetDone
  <2>3. NvType'
    BY <1>0, <2>1 DEF NvType
  <2>4. FlagInv' /\ HalfInv'
    BY <1>0, <1>5, <2>1, <2>2 DEF ResetDone, FlagInv, HalfInv
  <2>5. QED
    BY <2>1, <2>3, <2>4 DEF NvInv, ListInv, LeftInv
<1>6. CASE Boot
  BY <1>0, <1>6 DEF Boot, NvInv, NvType, ListInv, LeftInv, FlagInv, HalfInv
<1>7. CASE Crash
  <2>1. <<>> \in Seq(AllUnits)
    OBVIOUS
  <2>2. QED
    BY <1>0, <1>7, <2>1 DEF Crash, NvInv, NvType, ListInv, LeftInv, FlagInv, HalfInv
<1>8. CASE UNCHANGED vars
  <2>1. UNCHANGED <<owner, flag, pc, todo, actor, half>>
    BY <1>8 DEF vars
  <2>2. QED
    BY <1>0, <2>1 DEF NvInv, NvType, ListInv, LeftInv, FlagInv, HalfInv, Has
<1>9. QED
  BY <1>1, <1>2, <1>3, <1>4, <1>5, <1>6, <1>7, <1>8 DEF Next

\* What a step may do to the frame counter and to the flag.
LEMMA KeptStep ==
  ASSUME NvInv, Next, NEW u \in Kept, owner[u] = NWK_FRAME_COUNT, actor' # NWK_FRAME_COUNT
  PROVE  owner'[u] = NWK_FRAME_COUNT
<1>0. NvType /\ ListInv /\ u \in AllUnits
  BY Units DEF NvInv, Kept
<1>1. ASSUME NEW id \in Modules, NEW s \in {0, 1}, Write(id, s)
      PROVE  owner'[u] = NWK_FRAME_COUNT
  <2>1. id # NWK_FRAME_COUNT /\ u # SectStart(id, s)
    BY <1>1, Sectors DEF Write
  <2>2. QED
    BY <1>0, <1>1, <2>1 DEF Write, NvType
<1>2. ASSUME NEW id \in Modules, NEW s \in {0, 1}, Move(id, s)
      PROVE  owner'[u] = NWK_FRAME_COUNT
  <2>1. u # SectStart(id, s) /\ u \notin SectUnits(id, s)
    BY <1>2, Sectors DEF Move
  <2>2. QED
    BY <1>0, <1>2, <2>1 DEF Move
<1>3. CASE EraseUnit
  <2>1. /\ pc \in {"reset", "factory"} /\ actor # NWK_FRAME_COUNT /\ todo # <<>>
        /\ owner' = [owner EXCEPT ![todo[1]] = Erased]
    BY <1>3 DEF EraseUnit
  <2>2. 1 \in 1 .. Len(todo)
    BY <1>0, <2>1 DEF NvType
  <2>3. u # todo[1]
    BY <1>0, <2>1, <2>2 DEF ListInv
  <2>4. QED
    BY <1>0, <2>1, <2>3 DEF NvType
<1>4. QED
  BY <1>1, <1>2, <1>3 DEF Next, ResetModule, FactoryStart, ResetDone, Boot, Crash

LEMMA ErasedStep ==
  ASSUME NvInv, Next, flag, ~flag'
  PROVE  \A u \in Others : owner'[u] = Erased
<1>1. ResetDone
  BY DEF Next, Write, Move, ResetModule, FactoryStart, EraseUnit, Boot, Crash
<1>2. pc = "factory" /\ todo = <<>> /\ owner' = owner
  BY <1>1 DEF ResetDone, NvInv, NvType, FlagInv
<1>3. \A u : ~Has(todo, u)
  BY <1>2 DEF Has
<1>4. QED
  BY <1>2, <1>3 DEF NvInv, LeftInv
---------------------------------------------------------------------------
(* The keys. *)

LEMMA LeastIsOne ==
  ASSUME NEW S, S \subseteq 1 .. 4, S # {}, K!Min(S) = 1
  PROVE  1 \in S
<1>1. PICK x \in S : \A y \in S : x <= y
  <2>1. CASE 1 \in S
    BY <2>1
  <2>2. CASE 1 \notin S /\ 2 \in S
    BY <2>2
  <2>3. CASE {1, 2} \cap S = {} /\ 3 \in S
    BY <2>3
  <2>4. CASE {1, 2, 3} \cap S = {}
    <3>1. \A y \in S : y = 4
      BY <2>4
    <3>2. 4 \in S
      BY <3>1
    <3>3. QED
      BY <3>1, <3>2
  <2>5. QED
    BY <2>1, <2>2, <2>3, <2>4
<1>2. (CHOOSE z \in S : \A y \in S : z <= y) \in S
  BY <1>1
<1>3. QED
  BY <1>2 DEF K!Min

LEMMA MinPair == \A m, n \in Int : K!Min({m, n}) = IF m <= n THEN m ELSE n
<1> SUFFICES ASSUME NEW m \in Int, NEW n \in Int
             PROVE  K!Min({m, n}) = IF m <= n THEN m ELSE n
    OBVIOUS
<1> DEFINE r == IF m <= n THEN m ELSE n
<1>1. r \in {m, n} /\ \A y \in {m, n} : r <= y
  OBVIOUS
<1>2. \A x \in {m, n} : (\A y \in {m, n} : x <= y) => x = r
  OBVIOUS
<1>3. (CHOOSE x \in {m, n} : \A y \in {m, n} : x <= y) = r
  BY <1>1, <1>2
<1>4. QED
  BY <1>3 DEF K!Min

LEMMA MaxPair == \A m, n \in Int : K!Max({m, n}) = IF m <= n THEN n ELSE m
<1> SUFFICES ASSUME NEW m \in Int, NEW n \in Int
             PROVE  K!Max({m, n}) = IF m <= n THEN n ELSE m
    OBVIOUS
<1> DEFINE r == IF m <= n THEN n ELSE m
<1>1. r \in {m, n} /\ \A y \in {m, n} : r >= y
  OBVIOUS
<1>2. \A x \in {m, n} : (\A y \in {m, n} : x >= y) => x = r
  OBVIOUS
<1>3. (CHOOSE x \in {m, n} : \A y \in {m, n} : x >= y) = r
  BY <1>1, <1>2
<1>4. QED
  BY <1>3 DEF K!Max

LEMMA Numbers ==
  /\ KeySet \subseteq 1 .. 4 /\ Hold \in Nat /\ Hold > 0
  /\ ReleaseCnt \in Nat /\ ReleaseCnt > 2
  BY KeyResetAssumption

\* Power-on and the reset of the chip.
LEMMA RestartStep ==
  ASSUME KeyInv, K!Restart
  PROVE  KeyInv'
<1>1. /\ pre' = {} /\ last' = {} /\ release_cnt' = 0 /\ app' = "normal" /\ elapsed' = 0
      /\ age' = -1 /\ down' = down
  BY DEF K!Restart
<1>2. QED
  BY <1>1, Numbers DEF KeyInv, KeyType, ReleaseInv, HeldInv

LEMMA TickStep ==
  ASSUME KeyInv, K!Tick
  PROVE  KeyInv'
<1>1. /\ elapsed' = K!Min({Hold, elapsed + 1})
      /\ age' = IF age = -1 THEN -1 ELSE K!Min({Hold, age + 1})
      /\ UNCHANGED <<down, pre, last, release_cnt, app>>
  BY DEF K!Tick, K!scanVars
<1>2. elapsed \in 0 .. Hold /\ age \in -1 .. Hold /\ Hold \in Int
  BY Numbers DEF KeyInv, KeyType
<1>3. elapsed + 1 \in Int /\ age + 1 \in Int
  BY <1>2
<1>4. /\ K!Min({Hold, elapsed + 1}) = IF Hold <= elapsed + 1 THEN Hold ELSE elapsed + 1
      /\ K!Min({Hold, age + 1}) = IF Hold <= age + 1 THEN Hold ELSE age + 1
  BY <1>2, <1>3, MinPair
<1>5. elapsed' \in 0 .. Hold /\ age' \in -1 .. Hold /\ (age >= 0 => age' >= 0)
      /\ (age >= elapsed => age' >= elapsed')
  BY <1>1, <1>2, <1>4, Numbers
<1>6. QED
  BY <1>1, <1>5 DEF KeyInv, KeyType, ReleaseInv, HeldInv

\* kb_key_pressed and the debounce filter.
LEMMA ScanStep ==
  ASSUME KeyInv, K!ScanKey
  PROVE  /\ ReleaseInv' /\ release_cnt' \in 0 .. ReleaseCnt - 1 /\ down' = down
         /\ pre' \subseteq KeySet /\ last' \subseteq KeySet
<1>1. /\ release_cnt' = IF down # {} THEN ReleaseCnt - 1 ELSE K!Max({0, release_cnt - 1})
      /\ down' = down
      /\ \/ down = {} /\ ~(release_cnt > 0) /\ UNCHANGED <<pre, last>>
         \/ /\ down # {} \/ release_cnt > 0
            /\ pre' = down /\ last' = K!Filtered
  BY DEF K!ScanKey, K!KbKeyPressed, K!ScanNeeded
<1>2. /\ release_cnt \in 0 .. ReleaseCnt - 1 /\ ReleaseInv
      /\ down \subseteq KeySet /\ pre \subseteq KeySet /\ last \subseteq KeySet
  BY DEF KeyInv, KeyType
<1>3. release_cnt \in Int /\ release_cnt - 1 \in Int /\ 0 \in Int
  BY <1>2, Numbers
<1>4. K!Max({0, release_cnt - 1}) = IF 0 <= release_cnt - 1 THEN release_cnt - 1 ELSE 0
  BY <1>3, MaxPair
<1>5. K!Filtered \subseteq KeySet
  BY DEF K!Filtered
<1>6. release_cnt' \in 0 .. ReleaseCnt - 1
  BY <1>1, <1>2, <1>4, Numbers
<1>7. ReleaseInv'
  <2>1. CASE down # {}
    BY <1>1, <2>1, Numbers DEF ReleaseInv
  <2>2. CASE down = {} /\ ~(release_cnt > 0)
    <3>1. release_cnt = 0 /\ release_cnt' = 0
      BY <1>1, <1>2, <1>4, <2>2, Numbers
    <3>2. pre = {} /\ last = {}
      BY <1>2, <3>1, Numbers DEF ReleaseInv
    <3>3. QED
      BY <1>1, <2>2, <3>2 DEF ReleaseInv
  <2>3. CASE down = {} /\ release_cnt > 0
    <3>1. release_cnt' = release_cnt - 1 /\ pre' = {} /\ last' = K!Filtered
      BY <1>1, <1>3, <1>4, <2>3
    <3>2. K!Filtered # {} => pre # {}
      BY <2>3 DEF K!Filtered
    <3>3. pre # {} => release_cnt - 1 >= ReleaseCnt - 2
      BY <1>2, <1>3, Numbers DEF ReleaseInv
    <3>4. QED
      BY <3>1, <3>2, <3>3 DEF ReleaseInv
  <2>4. QED
    BY <2>1, <2>2, <2>3
<1>8. QED
  BY <1>1, <1>2, <1>5, <1>6, <1>7

\* app_key_handler: the time since SW1 was reported.
LEMMA LoopStep ==
  ASSUME KeyInv, K!ScanKey
  PROVE  KeyInv'
<1>1. /\ ReleaseInv' /\ release_cnt' \in 0 .. ReleaseCnt - 1 /\ down' = down
      /\ pre' \subseteq KeySet /\ last' \subseteq KeySet
  BY ScanStep
<1>2. /\ down \subseteq KeySet /\ last \subseteq KeySet /\ HeldInv
      /\ elapsed \in 0 .. Hold /\ age \in -1 .. Hold /\ Hold \in Nat
  BY Numbers DEF KeyInv, KeyType
<1>3. CASE ~K!ScanNeeded
  <2>1. UNCHANGED <<pre, last, app, elapsed, age>>
    BY <1>3 DEF K!ScanKey, K!appVars
  <2>2. QED
    BY <1>1, <1>2, <2>1 DEF KeyInv, KeyType, HeldInv
<1>4. CASE K!ScanNeeded
  <2>1. /\ last' = K!Filtered
        /\ IF K!Filtered # last THEN K!OnKeysChanged(K!Filtered)
                                ELSE UNCHANGED <<app, elapsed>>
        /\ age' = IF 1 \in pre /\ 1 \in down THEN K!Max({age, 0})
                  ELSE IF pre = {} /\ down = {} THEN -1 ELSE age
    BY <1>4 DEF K!ScanKey, K!appVars, K!SeeAge, K!SW1
  <2>2. age \in Int /\ 0 \in Int
    BY <1>2
  <2>3. K!Max({age, 0}) = IF age <= 0 THEN 0 ELSE age
    BY <2>2, MaxPair
  <2>4. age' \in -1 .. Hold
    BY <1>2, <2>1, <2>3
  <2>5. K!Filtered # {} => age' >= age
    <3>1. K!Filtered # {} => ~(pre = {} /\ down = {})
      BY DEF K!Filtered
    <3>2. QED
      BY <2>1, <2>2, <2>3, <3>1
  <2>6. 1 \in K!Filtered => age' >= 0
    <3>1. ASSUME 1 \in K!Filtered
          PROVE  (1 \in pre /\ 1 \in down) \/ 1 \in last
      BY <3>1 DEF K!Filtered
    <3>2. 1 \in last => age >= 0
      BY <1>2 DEF HeldInv, K!SW1
    <3>3. (1 \in pre /\ 1 \in down) => age' >= 0
      BY <2>1, <2>2, <2>3
    <3>4. age' \in Int
      BY <1>2, <2>4
    <3>5. QED
      BY <2>2, <2>5, <3>1, <3>2, <3>3, <3>4
  <2>7. /\ elapsed' \in 0 .. Hold
        /\ app' = "check" => K!Filtered # {}
        /\ app' = "check" => age' >= elapsed'
    <3>1. CASE K!Filtered = last
      <4>1. UNCHANGED <<app, elapsed>>
        BY <2>1, <3>1
      <4>2. app = "check" => last # {} /\ age >= elapsed
        BY <1>2 DEF HeldInv
      <4>3. age' \in Int /\ elapsed \in Int
        BY <1>2, <2>4
      <4>4. QED
        BY <1>2, <2>2, <2>5, <3>1, <4>1, <4>2, <4>3
    <3>2. CASE K!Filtered # last /\ K!Filtered = {}
      BY <1>2, <2>1, <3>2 DEF K!OnKeysChanged
    <3>3. CASE K!Filtered # last /\ K!Filtered # {}
      <4>1. IF K!Min(K!Filtered) = 1 THEN app' = "check" /\ elapsed' = 0
                                     ELSE UNCHANGED <<app, elapsed>>
        BY <2>1, <3>3 DEF K!OnKeysChanged, K!SW1
      <4>2. CASE K!Min(K!Filtered) = 1
        <5>1. K!Filtered \subseteq 1 .. 4
          BY Numbers DEF K!Filtered
        <5>2. 1 \in K!Filtered
          BY <3>3, <4>2, <5>1, LeastIsOne
        <5>3. QED
          BY <1>2, <2>6, <3>3, <4>1, <4>2, <5>2
      <4>3. CASE K!Min(K!Filtered) # 1
        <5>1. UNCHANGED <<app, elapsed>>
          BY <4>1, <4>3
        <5>2. app = "check" => age >= elapsed
          BY <1>2 DEF HeldInv
        <5>3. age' \in Int /\ elapsed \in Int
          BY <1>2, <2>4
        <5>4. QED
          BY <1>2, <2>2, <2>5, <3>3, <5>1, <5>2, <5>3
      <4>4. QED
        BY <4>2, <4>3
    <3>4. QED
      BY <3>1, <3>2, <3>3
  <2>8. HeldInv'
    BY <2>1, <2>6, <2>7 DEF HeldInv, K!SW1
  <2>9. QED
    BY <1>1, <1>2, <2>4, <2>7, <2>8 DEF KeyInv, KeyType
<1>5. QED
  BY <1>3, <1>4
---------------------------------------------------------------------------
(* Together. *)

\* A step of the composition is a step of the NV driver or leaves it alone.
LEMMA NvProjects == KRNext => [Next]_vars
  BY DEF KRNext, KeyFactoryReset, KeyLoop, NvWorks, ResetEnds, Next

LEMMA KeyStep ==
  ASSUME KeyInv, [KRNext]_allVars
  PROVE  KeyInv'
<1>1. CASE UNCHANGED keyVars
  <2>1. UNCHANGED <<down, pre, last, release_cnt, app, elapsed, age>>
    BY <1>1 DEF keyVars
  <2>2. QED
    BY <2>1 DEF KeyInv, KeyType, ReleaseInv, HeldInv
<1>2. CASE KeyFactoryReset
  <2>1. app' = "doing" /\ UNCHANGED <<down, pre, last, release_cnt, elapsed, age>>
    BY <1>2 DEF KeyFactoryReset, K!StartReset, K!scanVars
  <2>2. QED
    BY <2>1 DEF KeyInv, KeyType, ReleaseInv, HeldInv
<1>3. CASE KeyLoop
  BY <1>3, LoopStep DEF KeyLoop, K!Loop
<1>4. CASE K!Restart
  BY <1>4, RestartStep
<1>5. ASSUME NEW k \in KeySet, K!Touch(k)
      PROVE  KeyInv'
  <2>1. down' \subseteq KeySet /\ UNCHANGED <<pre, last, release_cnt, app, elapsed, age>>
    BY <1>5 DEF K!Touch, K!scanVars, K!appVars, KeyInv, KeyType
  <2>2. QED
    BY <2>1 DEF KeyInv, KeyType, ReleaseInv, HeldInv
<1>6. CASE K!Tick
  BY <1>6, TickStep
<1>7. CASE UNCHANGED allVars
  BY <1>1, <1>7 DEF allVars
<1>8. QED
  BY <1>1, <1>2, <1>3, <1>4, <1>5, <1>6, <1>7 DEF KRNext, NvWorks, ResetEnds

LEMMA InitIInv == KRInit => IInv
<1> SUFFICES ASSUME KRInit PROVE IInv
    OBVIOUS
<1>1. NvInv
  <2>1. <<>> \in Seq(AllUnits)
    OBVIOUS
  <2>2. NvType
    BY <2>1 DEF KRInit, Init, NvType
  <2>3. QED
    BY <2>2 DEF KRInit, Init, NvInv, ListInv, LeftInv, FlagInv, HalfInv
<1>2. KeyInv
  BY Numbers DEF KRInit, K!Init, K!Ram, KeyInv, KeyType, ReleaseInv, HeldInv
<1>3. QED
  BY <1>1, <1>2 DEF IInv

LEMMA IInvStep ==
  ASSUME IInv, [KRNext]_allVars
  PROVE  IInv'
<1>1. [Next]_vars
  BY NvProjects DEF allVars
<1>2. QED
  BY <1>1, NvStep, KeyStep DEF IInv

\* The inductive invariant: what a reset has still to erase, how long the
\* release counter lasts, and how long SW1 has been held.
THEOREM ResetInvariant == KRSpec => []IInv
<1>1. KRInit => IInv
  BY InitIInv
<1>2. IInv /\ [KRNext]_allVars => IInv'
  BY IInvStep
<1>3. QED
  BY <1>1, <1>2, PTL DEF KRSpec

\* The application never runs on a store of which nv_resetToFactoryNew has erased
\* some data and left some, however often power fails.
THEOREM HalfResetCorrect == KRSpec => []NeverHalfReset
<1>1. IInv => NeverHalfReset
  BY DEF IInv, NvInv, FlagInv, HalfInv, NeverHalfReset
<1>2. QED
  BY <1>1, ResetInvariant, PTL

\* A key reported down by kb_scan_key is reported up before the scan stops.
THEOREM ReleaseCorrect == KRSpec => []ReleaseSeen
<1>1. IInv => ReleaseSeen
  BY Numbers DEF IInv, KeyInv, ReleaseInv, ReleaseSeen, K!ReleaseSeen
<1>2. QED
  BY <1>1, ResetInvariant, PTL

\* nv_resetToFactoryNew and nv_resetModule of another module never touch what the
\* frame counter has stored.
THEOREM FrameCountCorrect == KRSpec => FrameCountKept
<1>1. IInv /\ [KRNext]_allVars =>
        [\A u \in Range(NWK_FRAME_COUNT) :
           owner[u] = NWK_FRAME_COUNT /\ actor' # NWK_FRAME_COUNT
             => owner'[u] = NWK_FRAME_COUNT]_vars
  BY NvProjects, KeptStep, Units DEF IInv, allVars
<1>2. QED
  BY <1>1, ResetInvariant, PTL DEF KRSpec, FrameCountKept

\* When the flag of the factory reset is cleared, every unit of the other modules
\* is erased.
THEOREM FactoryCorrect == KRSpec => FactoryResetErases
<1>1. IInv /\ [KRNext]_allVars =>
        [flag /\ ~flag' =>
           \A u \in AllUnits \ Range(NWK_FRAME_COUNT) : owner'[u] = Erased]_vars
  BY NvProjects, ErasedStep, Units DEF IInv, allVars
<1>2. QED
  BY <1>1, ResetInvariant, PTL DEF KRSpec, FactoryResetErases

\* app_key_handler starts a factory reset only when SW1 was seen down and some
\* key held ever since, for the hold time.
THEOREM HeldCorrect == KRSpec => ResetOnlyHeld
<1>1. IInv /\ [KRNext]_allVars =>
        [pc = "run" /\ pc' = "factory" => age >= Hold]_allVars
  <2> SUFFICES ASSUME IInv, KRNext, pc = "run", pc' = "factory"
               PROVE  age >= Hold
      BY DEF allVars
  <2>1. KeyFactoryReset
    BY DEF KRNext, KeyLoop, NvWorks, ResetEnds, ResetDone, EraseUnit, Boot, Crash, Write, Move,
       ResetModule, vars
  <2>2. app = "check" /\ elapsed >= Hold
    BY <2>1 DEF KeyFactoryReset, K!StartReset, K!KeepPressed
  <2>3. age >= elapsed /\ age \in Int /\ elapsed \in Int /\ Hold \in Int
    BY <2>2, Numbers DEF IInv, KeyInv, HeldInv, KeyType
  <2>4. QED
    BY <2>2, <2>3
<1>2. QED
  BY <1>1, ResetInvariant, PTL DEF KRSpec, ResetOnlyHeld
=============================================================================
