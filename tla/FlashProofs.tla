---------------------------- MODULE FlashProofs ----------------------------
(***************************************************************************)
(* Proofs about Flash, for every size of chip, page, sector and write, any *)
(* number of power failures and of status writes that the chip ignores.    *)
(***************************************************************************)
EXTENDS Flash, SequenceTheorems, TLAPS

Quiet == {"idle", "write", "written", "erase"}
StatusOp == {"low", "high", "verify"}

---------------------------------------------------------------------------
(* The lock. *)

\* What LockBelieved says, without waiting for the running operation to end.
Believed ==
  booted /\ part.listed =>
    /\ g_flashLocked => status \cap part.mask = part.blockSize
    /\ faults = 0 /\ Protects(status) => g_flashLocked

\* The local variables of a write of the status register.
StatusOpType ==
  [kind : {"status"}, want : SUBSET part.mask, lock : BOOLEAN, new : SUBSET part.bits]

\* A lock is written when g_flashLocked is FALSE, an unlock when it is TRUE, and
\* the bits outside the mask are kept.
StatusOpInv ==
  /\ booted /\ part.listed /\ op \in StatusOpType
  /\ op.want = IF op.lock THEN part.blockSize ELSE {}
  /\ op.new = op.want \cup (status \ part.mask)
  /\ op.lock <=> ~g_flashLocked

\* An unlock that is under way has no effect or all of it: the part written in
\* two commands is locked by a bit of the second byte alone.
UnlockInv == ~op.lock => status \cap part.mask \in {{}, part.blockSize}

\* Unless the chip ignored a command, what was written so far is there.
WrittenInv ==
  faults = 0 =>
    /\ pc = "high" => status \cap part.mask \cap Low = op.want \cap Low
    /\ pc = "verify" => status \cap part.mask = op.want

LockInv ==
  /\ ~booted => pc = "idle" /\ ~g_flashLocked
  /\ pc \in Quiet => Believed
  /\ pc \in StatusOp => StatusOpInv /\ UnlockInv /\ WrittenInv
  /\ pc = "high" => part.twoCmd

---------------------------------------------------------------------------
(* Contents. *)

WriteOpType ==
  [kind : {"write"}, addr : Nat, data : Seq(Cell), check : BOOLEAN, done : Nat,
   seen : Nat, before : [Cells -> Cell]]

\* The local variables of a write: its range is on the chip.
WriteOpInv ==
  /\ op \in WriteOpType
  /\ op.addr + Len(op.data) <= Size
  /\ op.done <= Len(op.data)
  /\ pc = "write" => op.done < Len(op.data) /\ op.seen = 0
  /\ pc = "written" => op.done = Len(op.data)

\* What flash_writeWithCheck has compared is there.
SeenInv == \A i \in DOMAIN op.data : i <= op.seen => cells[op.addr + i - 1] = op.data[i]

DataInv ==
  /\ pc \in {"write", "written"} => WriteOpInv /\ SeenInv
  /\ pc = "erase" => op \in [kind : {"erase"}, addr : Cells]
  /\ pc # "idle" => ret = FALSE

IInv == TypeOK /\ LockInv /\ DataInv /\ (Splits => WriteExact)
---------------------------------------------------------------------------
(* Pages.  A page program that does not cross the end of its page puts each *)
(* byte at its address; flash_write_page sends no other.                    *)

LEMMA DivMod ==
  ASSUME NEW a \in Nat, NEW p \in Nat \ {0}
  PROVE  /\ a \div p \in Nat /\ a % p \in 0 .. p - 1
         /\ a = (a \div p) * p + (a % p)
  OBVIOUS

LEMMA ModInPage ==
  ASSUME NEW a \in Nat, NEW j \in Nat, NEW p \in Nat \ {0}, (a % p) + j < p
  PROVE  (a + j) % p = (a % p) + j
<1> DEFINE q == a \div p
           r == a % p
           q2 == (a + j) \div p
           r2 == (a + j) % p
<1>1. q \in Nat /\ r \in 0 .. p - 1 /\ a = q * p + r
  BY DivMod
<1>2. a + j \in Nat
  OBVIOUS
<1>3. q2 \in Nat /\ r2 \in 0 .. p - 1 /\ a + j = q2 * p + r2
  BY <1>2, DivMod
<1>4. r + j < p
  OBVIOUS
<1> HIDE DEF q, r, q2, r2
<1>5. (q2 - q) * p = r + j - r2
  BY <1>1, <1>3
<1>6. ~(q2 > q)
  <2>1. SUFFICES ASSUME q2 > q PROVE FALSE
    OBVIOUS
  <2>2. (q2 - q) * p >= p
    BY <1>1, <1>3, <2>1
  <2>3. QED
    BY <1>1, <1>3, <1>4, <1>5, <2>2
<1>7. ~(q2 < q)
  <2>1. SUFFICES ASSUME q2 < q PROVE FALSE
    OBVIOUS
  <2>2. (q2 - q) * p <= -p
    BY <1>1, <1>3, <2>1
  <2>3. QED
    BY <1>1, <1>3, <1>4, <1>5, <2>2
<1>8. q2 = q
  BY <1>1, <1>3, <1>6, <1>7
<1>9. r2 = r + j
  BY <1>1, <1>3, <1>8
<1>10. QED
  BY <1>9 DEF r, r2
LEMMA MinPair == \A m, n \in Int : Min({m, n}) = IF m <= n THEN m ELSE n
<1> SUFFICES ASSUME NEW m \in Int, NEW n \in Int PROVE Min({m, n}) = IF m <= n THEN m ELSE n
    OBVIOUS
<1> DEFINE r == IF m <= n THEN m ELSE n
<1>1. r \in {m, n} /\ \A y \in {m, n} : r <= y
  OBVIOUS
<1>2. \A x \in {m, n} : (\A y \in {m, n} : x <= y) => x = r
  OBVIOUS
<1>3. (CHOOSE x \in {m, n} : \A y \in {m, n} : x <= y) = r
  BY <1>1, <1>2
<1>4. QED
  BY <1>3 DEF Min

LEMMA MaxOne == \A n \in Int : Max({n}) = n
  BY DEF Max

LEMMA PlaceInPage ==
  ASSUME NEW a \in Nat, NEW i \in Nat \ {0}, (a % PageSize) + i <= PageSize
  PROVE  Place(a, i) = a + i - 1
<1>1. PageSize \in Nat \ {0}
  BY FlashAssumption
<1>2. a \div PageSize \in Nat /\ a % PageSize \in Nat
      /\ a = (a \div PageSize) * PageSize + (a % PageSize)
  BY <1>1, DivMod
<1>3. i - 1 \in Nat /\ (a % PageSize) + (i - 1) < PageSize
  BY <1>1, <1>2
<1>4. (a + (i - 1)) % PageSize = (a % PageSize) + (i - 1)
  BY <1>1, <1>3, ModInPage
<1>5. a + (i - 1) = a + i - 1
  OBVIOUS
<1>6. Place(a, i) = (a \div PageSize) * PageSize + ((a % PageSize) + (i - 1))
  BY <1>4, <1>5 DEF Place
<1> DEFINE t == (a \div PageSize) * PageSize
           r == a % PageSize
<1>7. t \in Int /\ r \in Nat /\ a = t + r /\ Place(a, i) = t + (r + (i - 1))
  BY <1>1, <1>2, <1>6
<1> HIDE DEF t, r
<1>8. QED
  BY <1>7

\* External: what a page program of a range inside one page does.
LEMMA Programmed ==
  ASSUME cells \in [Cells -> Cell], NEW a \in Nat, NEW d \in Seq(Cell),
         (a % PageSize) + Len(d) <= PageSize, a + Len(d) <= Size
  PROVE  \A x \in Cells :
           PageProgram(a, d, Cells)[x] = IF x - a + 1 \in 1 .. Len(d)
                                         THEN cells[x] \cap d[x - a + 1] ELSE cells[x]
<1> SUFFICES ASSUME NEW x \in Cells
             PROVE  PageProgram(a, d, Cells)[x] = IF x - a + 1 \in 1 .. Len(d)
                                                  THEN cells[x] \cap d[x - a + 1] ELSE cells[x]
    OBVIOUS
<1>1. Len(d) \in Nat /\ DOMAIN d = 1 .. Len(d) /\ Size \in Nat /\ PageSize \in Nat \ {0}
  BY FlashAssumption
<1>2. a % PageSize \in Nat
  BY <1>1, DivMod
<1>3. \A i \in DOMAIN d : Place(a, i) = a + i - 1
  <2> SUFFICES ASSUME NEW i \in DOMAIN d PROVE Place(a, i) = a + i - 1
      OBVIOUS
  <2>1. i \in Nat \ {0} /\ (a % PageSize) + i <= PageSize
    BY <1>1, <1>2
  <2>2. QED
    BY <2>1, PlaceInPage
<1>4. x \in Int
  BY <1>1 DEF Cells
<1>5. x \in Touched(a, d) <=> x - a + 1 \in 1 .. Len(d)
  <2>1. ASSUME x \in Touched(a, d) PROVE x - a + 1 \in 1 .. Len(d)
    <3>1. PICK i \in DOMAIN d : x = a + i - 1
      BY <1>3, <2>1 DEF Touched
    <3>2. QED
      BY <1>1, <1>4, <3>1
  <2>2. ASSUME x - a + 1 \in 1 .. Len(d) PROVE x \in Touched(a, d)
    <3>1. x = a + (x - a + 1) - 1
      BY <1>4
    <3>2. x - a + 1 \in DOMAIN d
      BY <1>1, <2>2
    <3>3. x = Place(a, x - a + 1)
      BY <1>3, <3>1, <3>2
    <3>4. QED
      BY <3>2, <3>3 DEF Touched
  <2>3. QED
    BY <2>1, <2>2
<1>6. ASSUME x - a + 1 \in 1 .. Len(d)
      PROVE  Max({i \in DOMAIN d : Place(a, i) = x}) = x - a + 1
  <2>1. \A i \in DOMAIN d : Place(a, i) = x <=> i = x - a + 1
    BY <1>1, <1>3, <1>4
  <2>2. {i \in DOMAIN d : Place(a, i) = x} = {x - a + 1}
    BY <1>1, <1>6, <2>1
  <2>3. QED
    BY <1>4, <2>2, MaxOne
<1>7. PageProgram(a, d, Cells)[x] = IF x \in Touched(a, d)
        THEN cells[x] \cap d[Max({i \in DOMAIN d : Place(a, i) = x})] ELSE cells[x]
  BY DEF PageProgram
<1>8. QED
  BY <1>5, <1>6, <1>7

\* The next page program of a write has at least one byte, ends with the data
\* at the latest, and stays in its page.
LEMMA ChunkFits ==
  ASSUME WriteOpInv, pc = "write"
  PROVE  /\ Chunk \in 1 .. Len(op.data) - op.done
         /\ Splits => ((op.addr + op.done) % PageSize) + Chunk <= PageSize
<1> DEFINE left == Len(op.data) - op.done
           ns == PageSize - ((op.addr + op.done) % PageSize)
<1>1. Len(op.data) \in Nat /\ op.done \in Nat /\ op.addr \in Nat /\ op.done < Len(op.data)
  BY DEF WriteOpInv, WriteOpType
<1>2. left \in Nat \ {0} /\ op.addr + op.done \in Nat
  BY <1>1
<1>3. PageSize \in Nat \ {0}
  BY FlashAssumption
<1>4. (op.addr + op.done) % PageSize \in 0 .. PageSize - 1
  BY <1>2, <1>3, DivMod
<1>5. ns \in Nat \ {0}
  BY <1>3, <1>4
<1>6. Chunk = IF Splits THEN Min({left, ns}) ELSE left
  BY DEF Chunk
<1>7. Min({left, ns}) = IF left <= ns THEN left ELSE ns
  BY <1>2, <1>5, MinPair
<1>8. Chunk \in 1 .. left
  BY <1>2, <1>5, <1>6, <1>7
<1>9. Splits => Chunk <= ns
  BY <1>2, <1>5, <1>6, <1>7
<1>10. QED
  BY <1>3, <1>4, <1>8, <1>9

LEMMA NextDataIs ==
  ASSUME WriteOpInv, pc = "write"
  PROVE  /\ NextData \in Seq(Cell) /\ Len(NextData) = Chunk
         /\ \A i \in 1 .. Chunk : NextData[i] = op.data[op.done + i]
<1>1. /\ op.data \in Seq(Cell) /\ op.done \in Nat /\ Len(op.data) \in Nat
      /\ Chunk \in 1 .. Len(op.data) - op.done
  BY ChunkFits DEF WriteOpInv, WriteOpType
<1> DEFINE c == Chunk
<1> HIDE DEF c
<1>2. c \in 1 .. Len(op.data) - op.done
  BY <1>1 DEF c
<1>3. op.done + 1 \in 1 .. Len(op.data) + 1 /\ op.done + c \in 0 .. Len(op.data)
      /\ op.done + c - (op.done + 1) + 1 = c
  BY <1>1, <1>2
<1>4. NextData = SubSeq(op.data, op.done + 1, op.done + c)
  BY DEF NextData, c
<1> DEFINE m == op.done + 1
           n == op.done + c
<1>5. m \in Int /\ n \in Int /\ m <= n /\ n - m + 1 = c
      /\ \A i \in m .. n : op.data[i] \in Cell
  BY <1>1, <1>2
<1>6. \A i \in 1 .. c : m + i - 1 = op.done + i
  BY <1>1, <1>2
<1> HIDE DEF m, n
<1>7. /\ SubSeq(op.data, m, n) \in Seq(Cell)
      /\ Len(SubSeq(op.data, m, n)) = c
      /\ \A i \in 1 .. c : SubSeq(op.data, m, n)[i] = op.data[m + i - 1]
  BY <1>5, SubSeqProperties
<1>8. NextData = SubSeq(op.data, m, n)
  BY <1>4 DEF m, n
<1>9. QED
  BY <1>6, <1>7, <1>8 DEF c
---------------------------------------------------------------------------
(* The lock. *)

\* What the parts have in common: the lock's bits are in the mask, the bits
\* that protect anything are too, and the part that is written in two commands
\* is locked by a bit of the second byte.
CommonFacts(p) ==
  /\ p.blockSize \subseteq p.mask /\ p.mask \subseteq p.bits /\ BP \subseteq p.mask
  /\ "cmp" \in p.bits => "cmp" \in p.mask
  /\ p.twoCmd => p.blockSize = {"cmp"}
  /\ p.twoCmd \in BOOLEAN /\ p.listed \in BOOLEAN

LEMMA PartFacts == \A p \in Parts : CommonFacts(p)
<1>1. CommonFacts(mid13325e)
  BY DEF CommonFacts, mid13325e, Low, BP
<1>2. CommonFacts(mid146085)
  BY DEF CommonFacts, mid146085, Low, BP
<1>3. CommonFacts(mid166085)
  BY DEF CommonFacts, mid166085, Low, BP
<1>4. CommonFacts(unlisted)
  BY DEF CommonFacts, unlisted, Low, BP
<1>5. QED
  BY <1>1, <1>2, <1>3, <1>4 DEF Parts

LEMMA NothingSet ==
  ASSUME TypeOK, status \cap part.mask = {}
  PROVE  ~Protects(status)
<1>1. BP \subseteq part.mask /\ ("cmp" \in part.bits => "cmp" \in part.mask)
  BY PartFacts DEF TypeOK, CommonFacts
<1>2. status \cap BP = {} /\ "cmp" \notin status
  BY <1>1 DEF TypeOK
<1>3. QED
  BY <1>2 DEF Protects

\* The first part of flash_write_status, for a lock and for an unlock.
LEMMA Begun ==
  ASSUME TypeOK, NEW want, NEW lock \in BOOLEAN,
         StatusBegin(want, lock), booted', part.listed,
         want = IF lock THEN part.blockSize ELSE {}, lock <=> ~g_flashLocked,
         ~lock => status \cap part.mask = part.blockSize,
         UNCHANGED <<part, status, faults>>
  PROVE  LockInv' /\ pc' \in {"idle", "low"} /\ g_flashLocked' \in BOOLEAN
<1>1. want \subseteq part.mask /\ part.mask \subseteq part.bits /\ status \subseteq part.bits
  BY PartFacts DEF TypeOK, CommonFacts
<1>2. CASE status \cap part.mask # want
  <2>1. /\ pc' = "low" /\ UNCHANGED g_flashLocked
        /\ op' = [kind |-> "status", want |-> want, lock |-> lock,
                  new |-> want \cup (status \ part.mask)]
    BY <1>1, <1>2 DEF StatusBegin
  <2>2. op' \in [kind : {"status"}, want : SUBSET part.mask, lock : BOOLEAN,
                 new : SUBSET part.bits]
    BY <1>1, <2>1
  <2>3. /\ op'.want = want /\ op'.lock = lock /\ op'.new = want \cup (status \ part.mask)
    BY <2>1
  <2>4. StatusOpInv'
    BY <2>1, <2>2, <2>3 DEF StatusOpInv, StatusOpType
  <2>5. UnlockInv' /\ WrittenInv'
    BY <2>1, <2>3 DEF UnlockInv, WrittenInv
  <2>6. QED
    BY <2>1, <2>4, <2>5 DEF LockInv, Quiet, StatusOp, TypeOK
<1>3. CASE status \cap part.mask = want
  <2>1. pc' = "idle" /\ g_flashLocked' = lock
    BY <1>1, <1>3 DEF StatusBegin, Return
  <2>2. Believed'
    <3>1. CASE lock
      BY <1>3, <2>1, <3>1 DEF Believed
    <3>2. CASE ~lock
      <4>1. ~Protects(status)
        BY <1>3, <3>2, NothingSet
      <4>2. QED
        BY <2>1, <3>2, <4>1 DEF Believed, Protects
    <3>3. QED
      BY <3>1, <3>2
  <2>3. QED
    BY <2>1, <2>2 DEF LockInv, Quiet, StatusOp
<1>4. QED
  BY <1>2, <1>3

\* A command to the status register: what it does to the lock's bits and that
\* it leaves the others alone.
LEMMA Commanded ==
  ASSUME TypeOK, LockInv, pc \in {"low", "high"}
  PROVE  /\ StatusAfter \subseteq part.bits
         /\ StatusAfter \ part.mask = status \ part.mask
         /\ ~op.lock => StatusAfter \cap part.mask \in {{}, part.blockSize}
         /\ pc = "low" /\ part.twoCmd
              => StatusAfter \cap part.mask \cap Low = op.want \cap Low
         /\ pc = "low" /\ ~part.twoCmd => StatusAfter \cap part.mask = op.want
         /\ pc = "high" /\ faults = 0 => StatusAfter \cap part.mask = op.want
<1>1. /\ op.new = op.want \cup (status \ part.mask) /\ op.want \subseteq part.mask
      /\ op.new \subseteq part.bits /\ status \subseteq part.bits
      /\ ~op.lock => op.want = {}
      /\ ~op.lock => status \cap part.mask \in {{}, part.blockSize}
      /\ pc = "high" => part.twoCmd
      /\ pc = "high" /\ faults = 0 => status \cap part.mask \cap Low = op.want \cap Low
  BY DEF LockInv, StatusOp, StatusOpInv, StatusOpType, UnlockInv, WrittenInv, TypeOK
<1>2. part.twoCmd => part.blockSize = {"cmp"}
  BY PartFacts DEF TypeOK, CommonFacts
<1>3. "cmp" \notin Low
  BY DEF Low, BP
<1>4. CASE pc = "high"
  <2>1. StatusAfter = (op.new \ Low) \cup (status \cap Low)
    BY <1>4 DEF StatusAfter
  <2>2. ~op.lock => StatusAfter \cap part.mask \in {{}, part.blockSize}
    <3>1. SUFFICES ASSUME ~op.lock PROVE StatusAfter \cap part.mask = {}
      OBVIOUS
    <3>2. status \cap part.mask \subseteq {"cmp"} /\ op.want = {}
      BY <1>1, <1>2, <1>4, <3>1
    <3>3. \A b \in part.mask : b \notin op.new /\ ~(b \in status /\ b \in Low)
      BY <1>1, <1>3, <3>2
    <3>4. QED
      BY <2>1, <3>3
  <2>3. faults = 0 => StatusAfter \cap part.mask = op.want
    <3>1. SUFFICES ASSUME faults = 0 PROVE StatusAfter \cap part.mask = op.want
      OBVIOUS
    <3>2. status \cap part.mask \cap Low = op.want \cap Low
      BY <1>1, <1>4, <3>1
    <3>3. \A b \in StatusAfter \cap part.mask : b \in op.want
      BY <1>1, <2>1, <3>2
    <3>4. \A b \in op.want : b \in StatusAfter \cap part.mask
      BY <1>1, <2>1, <3>2
    <3>5. QED
      BY <3>3, <3>4
  <2>4. QED
    BY <1>1, <1>4, <2>1, <2>2, <2>3
<1>5. CASE pc = "low" /\ part.twoCmd
  <2>1. StatusAfter = (op.new \cap Low) \cup (status \ Low)
    BY <1>5 DEF StatusAfter
  <2>2. ~op.lock => StatusAfter \cap part.mask \in {{}, part.blockSize}
    <3>1. SUFFICES ASSUME ~op.lock PROVE StatusAfter \cap part.mask = status \cap part.mask
      BY <1>1
    <3>2. status \cap part.mask \subseteq {"cmp"} /\ op.want = {}
      BY <1>1, <1>2, <1>5, <3>1
    <3>3. QED
      BY <1>1, <1>3, <2>1, <3>2
  <2>3. StatusAfter \cap part.mask \cap Low = op.want \cap Low
    <3>1. \A b \in StatusAfter \cap part.mask \cap Low : b \in op.want
      BY <1>1, <2>1
    <3>2. \A b \in op.want \cap Low : b \in StatusAfter \cap part.mask
      BY <1>1, <2>1
    <3>3. QED
      BY <3>1, <3>2
  <2>4. QED
    BY <1>1, <1>5, <2>1, <2>2, <2>3
<1>6. CASE pc = "low" /\ ~part.twoCmd
  <2>1. StatusAfter = op.new
    BY <1>6 DEF StatusAfter
  <2>2. QED
    BY <1>1, <1>6, <2>1
<1>7. QED
  BY <1>4, <1>5, <1>6

\* The operations on the contents do not touch the lock.
LEMMA LockKept ==
  ASSUME LockInv, booted, pc \in Quiet, pc' \in Quiet,
         UNCHANGED <<part, status, booted, g_flashLocked, faults>>
  PROVE  LockInv'
  BY DEF LockInv, Quiet, StatusOp, Believed, Protects

LEMMA LockStep ==
  ASSUME TypeOK, LockInv, DataInv, Next
  PROVE  LockInv'
<1>1. CASE Boot
  <2>1. ~g_flashLocked /\ booted'
    BY <1>1 DEF Boot, LockInv
  <2>2. CASE part.listed
    <3>1. StatusBegin(part.blockSize, TRUE) /\ UNCHANGED <<part, status, faults>>
      BY <1>1, <2>2 DEF Boot
    <3>2. QED
      BY <2>1, <2>2, <3>1, Begun
  <2>3. CASE ~part.listed
    BY <1>1, <2>3 DEF Boot, Return, LockInv, Believed, Quiet, StatusOp
  <2>4. QED
    BY <2>2, <2>3
<1>2. CASE flash_lock
  <2>1. /\ StatusBegin(part.blockSize, TRUE) /\ UNCHANGED <<part, status, faults>>
        /\ booted' /\ part.listed /\ ~g_flashLocked
    BY <1>2 DEF flash_lock
  <2>2. QED
    BY <2>1, Begun
<1>3. CASE flash_unlock
  <2>1. /\ StatusBegin({}, FALSE) /\ UNCHANGED <<part, status, faults>>
        /\ booted' /\ booted /\ part.listed /\ g_flashLocked /\ pc = "idle"
    BY <1>3 DEF flash_unlock
  <2>2. status \cap part.mask = part.blockSize
    BY <2>1 DEF LockInv, Quiet, Believed
  <2>3. QED
    BY <2>1, <2>2, Begun
<1>4. CASE StatusWrite
  <2>1. /\ pc \in {"low", "high"} /\ status' = StatusAfter
        /\ pc' = IF pc = "low" /\ part.twoCmd THEN "high" ELSE "verify"
        /\ UNCHANGED <<part, booted, g_flashLocked, op, faults>>
    BY <1>4 DEF StatusWrite
  <2>2. /\ StatusAfter \ part.mask = status \ part.mask
        /\ ~op.lock => StatusAfter \cap part.mask \in {{}, part.blockSize}
        /\ pc = "low" /\ part.twoCmd => StatusAfter \cap part.mask \cap Low = op.want \cap Low
        /\ pc = "low" /\ ~part.twoCmd => StatusAfter \cap part.mask = op.want
        /\ pc = "high" /\ faults = 0 => StatusAfter \cap part.mask = op.want
    BY <2>1, Commanded
  <2>3. StatusOpInv
    BY <2>1 DEF LockInv, StatusOp
  <2>4. StatusOpInv'
    BY <2>1, <2>2, <2>3 DEF StatusOpInv, StatusOpType
  <2>5. UnlockInv' /\ WrittenInv'
    BY <2>1, <2>2 DEF UnlockInv, WrittenInv
  <2>6. QED
    BY <2>1, <2>3, <2>4, <2>5 DEF LockInv, Quiet, StatusOp, StatusOpInv
<1>5. CASE StatusFault
  <2>1. /\ pc \in {"low", "high"} /\ faults' = faults + 1
        /\ pc' = IF pc = "low" /\ part.twoCmd THEN "high" ELSE "verify"
        /\ UNCHANGED <<part, status, booted, g_flashLocked, op>>
    BY <1>5 DEF StatusFault
  <2>2. faults' # 0
    BY <2>1, FlashAssumption DEF TypeOK
  <2>3. StatusOpInv /\ UnlockInv
    BY <2>1 DEF LockInv, StatusOp
  <2>4. StatusOpInv' /\ UnlockInv' /\ WrittenInv'
    BY <2>1, <2>2, <2>3 DEF StatusOpInv, StatusOpType, UnlockInv, WrittenInv
  <2>5. QED
    BY <2>1, <2>3, <2>4 DEF LockInv, Quiet, StatusOp, StatusOpInv
<1>6. CASE StatusVerify
  <2>1. /\ pc = "verify" /\ pc' = "idle" /\ UNCHANGED <<part, status, booted, faults>>
        /\ g_flashLocked' = IF status \cap part.mask = op.want THEN op.lock ELSE g_flashLocked
    BY <1>6 DEF StatusVerify, Return
  <2>2. StatusOpInv /\ UnlockInv /\ WrittenInv
    BY <2>1 DEF LockInv, StatusOp
  <2>3. Believed'
    <3>1. CASE status \cap part.mask = op.want /\ op.lock
      BY <2>1, <2>2, <3>1 DEF Believed, StatusOpInv
    <3>2. CASE status \cap part.mask = op.want /\ ~op.lock
      <4>1. ~Protects(status)
        BY <2>2, <3>2, NothingSet DEF StatusOpInv
      <4>2. QED
        BY <2>1, <3>2, <4>1 DEF Believed, Protects
    <3>3. CASE status \cap part.mask # op.want
      <4>1. faults # 0
        BY <2>1, <2>2, <3>3 DEF WrittenInv
      <4>2. g_flashLocked => status \cap part.mask = part.blockSize
        BY <2>2, <3>3 DEF StatusOpInv, UnlockInv
      <4>3. QED
        BY <2>1, <3>3, <4>1, <4>2 DEF Believed
    <3>4. QED
      BY <3>1, <3>2, <3>3
  <2>4. QED
    BY <2>1, <2>2, <2>3 DEF LockInv, Quiet, StatusOp, StatusOpInv
<1>7. ASSUME NEW a, NEW d, NEW check, NEW low, WriteBegin(a, d, check, low)
      PROVE  LockInv'
  BY <1>7, LockKept DEF WriteBegin, Return, Quiet
<1>8. ASSUME WritePage \/ WriteReturn \/ Check \/ EraseSector
      PROVE  LockInv'
  <2>1. pc \in {"write", "written", "erase"} /\ pc' \in Quiet
        /\ UNCHANGED <<part, status, booted, g_flashLocked, faults>>
    BY <1>8 DEF WritePage, WriteReturn, Check, EraseSector, Return, Quiet
  <2>2. booted
    BY <2>1 DEF LockInv, TypeOK
  <2>3. QED
    BY <2>1, <2>2, LockKept DEF Quiet
<1>9. ASSUME NEW a, NEW low, EraseBegin(a, low)
      PROVE  LockInv'
  BY <1>9, LockKept DEF EraseBegin, Return, Quiet
<1>10. CASE Crash
  BY <1>10 DEF Crash, Return, LockInv, Believed, Quiet, StatusOp
<1>11. QED
  BY <1>1, <1>2, <1>3, <1>4, <1>5, <1>6, <1>7, <1>8, <1>9, <1>10 DEF Next
---------------------------------------------------------------------------
(* Types and the local variables of the operations. *)

LEMMA ProgramType ==
  ASSUME cells \in [Cells -> Cell], NEW a, NEW d, NEW S
  PROVE  PageProgram(a, d, S) \in [Cells -> Cell]
  BY DEF PageProgram, Cell

LEMMA EraseType ==
  ASSUME cells \in [Cells -> Cell], NEW a, NEW S
  PROVE  SectorErase(a, S) \in [Cells -> Cell]
  BY DEF SectorErase, Cell

LEMMA TypeStep ==
  ASSUME TypeOK, LockInv, Next
  PROVE  TypeOK'
<1>1. CASE Boot
  BY <1>1 DEF TypeOK, Boot, StatusBegin, Return
<1>2. CASE flash_lock \/ flash_unlock
  BY <1>2 DEF TypeOK, flash_lock, flash_unlock, StatusBegin, Return
<1>3. CASE StatusWrite
  <2>1. StatusAfter \subseteq part.bits
    BY <1>3, Commanded DEF StatusWrite
  <2>2. QED
    BY <1>3, <2>1 DEF TypeOK, StatusWrite
<1>4. CASE StatusFault
  <2>1. faults' \in 0 .. MaxFaults
    BY <1>4, FlashAssumption DEF TypeOK, StatusFault
  <2>2. QED
    BY <1>4, <2>1 DEF TypeOK, StatusFault
<1>5. CASE StatusVerify
  <2>1. op.lock \in BOOLEAN
    BY <1>5 DEF StatusVerify, LockInv, StatusOp, StatusOpInv, StatusOpType
  <2>2. QED
    BY <1>5, <2>1 DEF TypeOK, StatusVerify, Return
<1>6. ASSUME NEW a, NEW d, NEW check, NEW low, WriteBegin(a, d, check, low)
      PROVE  TypeOK'
  BY <1>6 DEF TypeOK, WriteBegin, Return
<1>7. CASE WritePage
  <2>1. cells \in [Cells -> Cell]
    BY DEF TypeOK
  <2>2. PageProgram(op.addr + op.done, NextData, Cells) \in [Cells -> Cell]
    BY <2>1, ProgramType
  <2>3. cells' \in [Cells -> Cell] /\ pc' \in {"write", "written"}
    BY <1>7, <2>1, <2>2 DEF WritePage
  <2>4. QED
    BY <1>7, <2>3 DEF TypeOK, WritePage
<1>8. CASE WriteReturn
  BY <1>8 DEF TypeOK, WriteReturn, Return
<1>9. CASE Check
  BY <1>9 DEF TypeOK, Check, Return
<1>10. ASSUME NEW a, NEW low, EraseBegin(a, low)
       PROVE  TypeOK'
  BY <1>10 DEF TypeOK, EraseBegin, Return
<1>11. CASE EraseSector
  <2>1. cells \in [Cells -> Cell]
    BY DEF TypeOK
  <2>2. cells' \in [Cells -> Cell]
    BY <1>11, <2>1, EraseType DEF EraseSector
  <2>3. QED
    BY <1>11, <2>2 DEF TypeOK, EraseSector, Return
<1>12. CASE Crash
  <2>1. cells \in [Cells -> Cell] /\ status \subseteq part.bits
    BY DEF TypeOK
  <2>2. \/ \E S : cells' = PageProgram(op.addr + op.done, NextData, S)
        \/ \E S : cells' = SectorErase(op.addr, S)
        \/ cells' = cells
    BY <1>12 DEF Crash
  <2>3. cells' \in [Cells -> Cell]
    BY <2>1, <2>2, ProgramType, EraseType
  <2>4. status' \subseteq part.bits
    BY <1>12, <2>1, Commanded DEF Crash
  <2>5. QED
    BY <1>12, <2>3, <2>4 DEF TypeOK, Crash, Return
<1>13. QED
  BY <1>1, <1>2, <1>3, <1>4, <1>5, <1>6, <1>7, <1>8, <1>9, <1>10, <1>11, <1>12 DEF Next

\* A round of flash_writeWithCheck that finds no difference.
LEMMA Compared ==
  ASSUME WriteOpInv, SeenInv, \A i \in Round : cells[op.addr + i - 1] = op.data[i]
  PROVE  \A i \in DOMAIN op.data :
           i <= op.seen + CheckLen => cells[op.addr + i - 1] = op.data[i]
<1> SUFFICES ASSUME NEW i \in DOMAIN op.data, i <= op.seen + CheckLen
             PROVE  cells[op.addr + i - 1] = op.data[i]
    OBVIOUS
<1>1. op.seen \in Nat /\ CheckLen \in Nat /\ Len(op.data) \in Nat /\ i \in 1 .. Len(op.data)
  BY FlashAssumption DEF WriteOpInv, WriteOpType
<1>2. CASE i <= op.seen
  BY <1>2 DEF SeenInv
<1>3. CASE i > op.seen
  <2>1. op.seen + CheckLen \in Int /\ Len(op.data) \in Int
    BY <1>1
  <2>2. Min({op.seen + CheckLen, Len(op.data)})
          = IF op.seen + CheckLen <= Len(op.data) THEN op.seen + CheckLen ELSE Len(op.data)
    BY <2>1, MinPair
  <2>3. i \in Round
    BY <1>1, <1>3, <2>2 DEF Round
  <2>4. QED
    BY <2>3
<1>4. QED
  BY <1>1, <1>2, <1>3

\* A write that has just begun.
LEMMA WriteBegun ==
  ASSUME TypeOK, NEW n \in 1 .. MaxLen, NEW check \in BOOLEAN, NEW a \in 0 .. Size - n,
         NEW d \in [1 .. n -> Cell], pc' = "write",
         op' = [kind |-> "write", addr |-> a, data |-> d, check |-> check,
                done |-> 0, seen |-> 0, before |-> cells]
  PROVE  WriteOpInv' /\ SeenInv'
<1>1. n \in Nat \ {0} /\ Size \in Nat /\ a \in Nat /\ a + n <= Size
  BY FlashAssumption
<1>2. d \in Seq(Cell) /\ Len(d) = n /\ DOMAIN d = 1 .. n
  BY <1>1
<1>3. cells \in [Cells -> Cell]
  BY DEF TypeOK
<1>4. op' \in WriteOpType
  BY <1>1, <1>2, <1>3 DEF WriteOpType
<1>5. op'.addr = a /\ op'.data = d /\ op'.done = 0 /\ op'.seen = 0
  OBVIOUS
<1>6. WriteOpInv'
  BY <1>1, <1>2, <1>4, <1>5 DEF WriteOpInv, WriteOpType
<1>7. SeenInv'
  BY <1>1, <1>2, <1>5 DEF SeenInv
<1>8. QED
  BY <1>6, <1>7

\* A page program of the write.
LEMMA WriteGoesOn ==
  ASSUME WriteOpInv, WritePage
  PROVE  WriteOpInv' /\ SeenInv'
<1>1. pc = "write" /\ op \in WriteOpType /\ op' = [op EXCEPT !.done = @ + Chunk]
      /\ pc' = IF op'.done < Len(op.data) THEN "write" ELSE "written"
  BY DEF WritePage, WriteOpInv
<1>2. /\ op.done \in Nat /\ Len(op.data) \in Nat /\ op.addr \in Nat /\ op.seen = 0
      /\ op.addr + Len(op.data) <= Size /\ DOMAIN op.data = 1 .. Len(op.data)
  BY <1>1 DEF WriteOpInv, WriteOpType
<1>3. Chunk \in 1 .. Len(op.data) - op.done
  BY <1>1, ChunkFits
<1>4. op.done + Chunk \in Nat /\ op.done + Chunk <= Len(op.data)
  BY <1>2, <1>3
<1>5. op' \in WriteOpType
  BY <1>1, <1>4 DEF WriteOpType
<1>6. op'.addr = op.addr /\ op'.data = op.data /\ op'.seen = 0 /\ op'.done = op.done + Chunk
  BY <1>1, <1>2 DEF WriteOpType
<1>7. WriteOpInv'
  BY <1>1, <1>2, <1>4, <1>5, <1>6 DEF WriteOpInv, WriteOpType
<1>8. SeenInv'
  BY <1>2, <1>6 DEF SeenInv
<1>9. QED
  BY <1>7, <1>8

LEMMA DataStep ==
  ASSUME TypeOK, LockInv, DataInv, Next
  PROVE  DataInv'
<1>1. CASE Boot
  BY <1>1 DEF DataInv, Boot, StatusBegin, Return
<1>2. CASE flash_lock \/ flash_unlock
  BY <1>2 DEF DataInv, flash_lock, flash_unlock, StatusBegin, Return
<1>3. CASE StatusWrite \/ StatusFault \/ StatusVerify
  BY <1>3 DEF DataInv, StatusWrite, StatusFault, StatusVerify, Return
<1>4. ASSUME NEW n \in 1 .. MaxLen, NEW check \in BOOLEAN, NEW low \in BOOLEAN,
             NEW a \in 0 .. Size - n, NEW d \in [1 .. n -> Cell],
             WriteBegin(a, d, check, low)
      PROVE  DataInv'
  <2>1. CASE low
    BY <1>4, <2>1 DEF WriteBegin, Return, DataInv
  <2>2. CASE ~low
    <3>1. WriteOpInv' /\ SeenInv'
      BY <1>4, <2>2, WriteBegun DEF WriteBegin
    <3>2. QED
      BY <1>4, <2>2, <3>1 DEF WriteBegin, DataInv
  <2>3. QED
    BY <2>1, <2>2
<1>5. CASE WritePage
  <2>1. WriteOpInv' /\ SeenInv'
    BY <1>5, WriteGoesOn DEF DataInv, WritePage
  <2>2. ret' = FALSE /\ pc' \in {"write", "written"}
    BY <1>5 DEF DataInv, WritePage
  <2>3. QED
    BY <2>1, <2>2 DEF DataInv
<1>6. CASE WriteReturn
  BY <1>6 DEF WriteReturn, Return, DataInv
<1>7. CASE Check
  <2>1. CASE pc' = "idle"
    BY <2>1 DEF DataInv
  <2>2. CASE pc' # "idle"
    <3>1. /\ pc = "written" /\ WriteOpInv /\ SeenInv /\ ret = FALSE
      BY <1>7 DEF Check, DataInv
    <3>2. /\ UNCHANGED <<pc, ret, cells>> /\ op' = [op EXCEPT !.seen = @ + CheckLen]
          /\ \A i \in Round : cells[op.addr + i - 1] = op.data[i]
      BY <1>7, <2>2 DEF Check, Return
    <3>3. op \in WriteOpType /\ op.seen + CheckLen \in Nat
      BY <3>1, FlashAssumption DEF WriteOpInv, WriteOpType
    <3>4. op' \in WriteOpType
      BY <3>2, <3>3 DEF WriteOpType
    <3>5. /\ op'.seen = op.seen + CheckLen /\ op'.data = op.data /\ op'.addr = op.addr
          /\ op'.done = op.done
      BY <3>2, <3>3 DEF WriteOpType
    <3>6. WriteOpInv'
      BY <3>1, <3>2, <3>4, <3>5 DEF WriteOpInv, WriteOpType
    <3>7. SeenInv'
      BY <3>1, <3>2, <3>5, Compared DEF SeenInv
    <3>8. QED
      BY <3>1, <3>2, <3>6, <3>7 DEF DataInv
  <2>3. QED
    BY <2>1, <2>2
<1>8. ASSUME NEW a \in Cells, NEW low, EraseBegin(a, low)
      PROVE  DataInv'
  BY <1>8 DEF EraseBegin, Return, DataInv
<1>9. CASE EraseSector
  BY <1>9 DEF EraseSector, Return, DataInv
<1>10. CASE Crash
  BY <1>10 DEF Crash, Return, DataInv
<1>11. QED
  BY <1>1, <1>2, <1>3, <1>4, <1>5, <1>6, <1>7, <1>8, <1>9, <1>10 DEF Next

LEMMA ExactStep ==
  ASSUME TypeOK, LockInv, DataInv, Splits, WriteExact, Next
  PROVE  WriteExact'
<1>1. CASE pc' \notin {"write", "written"}
  BY <1>1 DEF WriteExact
<1>2. ASSUME NEW n \in 1 .. MaxLen, NEW check \in BOOLEAN, NEW low \in BOOLEAN,
             NEW a \in 0 .. Size - n, NEW d \in [1 .. n -> Cell],
             WriteBegin(a, d, check, low), pc' = "write"
      PROVE  WriteExact'
  <2>1. op'.done = 0 /\ op'.before = cells /\ cells' = cells
    BY <1>2 DEF WriteBegin, Return
  <2>2. \A i : i \notin 1 .. op'.done
    BY <2>1
  <2>3. QED
    BY <2>1, <2>2 DEF WriteExact
<1>3. CASE WritePage
  <2>1. /\ pc = "write" /\ WriteOpInv /\ UNCHANGED status
        /\ op' = [op EXCEPT !.done = @ + Chunk]
        /\ cells' = IF Protects(status) THEN cells
                    ELSE PageProgram(op.addr + op.done, NextData, Cells)
    BY <1>3 DEF WritePage, DataInv
  <2>2. /\ op \in WriteOpType /\ op.addr \in Nat /\ op.done \in Nat /\ Len(op.data) \in Nat
        /\ op.addr + Len(op.data) <= Size
    BY <2>1 DEF WriteOpInv, WriteOpType
  <2>3. /\ op'.addr = op.addr /\ op'.data = op.data /\ op'.before = op.before
        /\ op'.done = op.done + Chunk
    BY <2>1, <2>2 DEF WriteOpType
  <2>4. Chunk \in 1 .. Len(op.data) - op.done
        /\ ((op.addr + op.done) % PageSize) + Chunk <= PageSize
    BY <2>1, ChunkFits
  <2>5. /\ NextData \in Seq(Cell) /\ Len(NextData) = Chunk
        /\ \A i \in 1 .. Chunk : NextData[i] = op.data[op.done + i]
    BY <2>1, NextDataIs
  <2>6. /\ cells \in [Cells -> Cell] /\ op.addr + op.done \in Nat
        /\ op.addr + op.done + Len(NextData) <= Size
    <3>1. cells \in [Cells -> Cell] /\ Size \in Nat
      BY FlashAssumption DEF TypeOK
    <3> DEFINE c == Chunk
    <3>2. c \in 1 .. Len(op.data) - op.done /\ Len(NextData) = c
      BY <2>4, <2>5
    <3> HIDE DEF c
    <3>3. op.addr + op.done + c <= Size
      BY <2>2, <3>1, <3>2
    <3>4. QED
      BY <2>2, <3>1, <3>2, <3>3
  <2>7. \A x \in Cells :
          PageProgram(op.addr + op.done, NextData, Cells)[x]
            = IF x - (op.addr + op.done) + 1 \in 1 .. Chunk
              THEN cells[x] \cap NextData[x - (op.addr + op.done) + 1] ELSE cells[x]
    BY <2>4, <2>5, <2>6, Programmed
  <2>8. ASSUME NEW x \in Cells
        PROVE  LET i == x - op.addr + 1 IN
               cells'[x] = IF i \in 1 .. op.done + Chunk /\ ~Protects(status)
                           THEN op.before[x] \cap op.data[i] ELSE op.before[x]
    <3> DEFINE i == x - op.addr + 1
               j == x - (op.addr + op.done) + 1
               c == Chunk
    <3>1. x \in Int
      BY FlashAssumption DEF Cells
    <3>2. i \in Int /\ j = i - op.done /\ op.done + j = i
      BY <2>2, <3>1
    <3>3. cells[x] = IF i \in 1 .. op.done /\ ~Protects(status)
                     THEN op.before[x] \cap op.data[i] ELSE op.before[x]
      BY <2>1 DEF WriteExact
    <3>4. c \in Nat
      BY <2>2, <2>4
    <3>5. CASE Protects(status)
      BY <2>1, <3>3, <3>5
    <3>6. CASE ~Protects(status)
      <4>1. cells'[x] = IF j \in 1 .. c THEN cells[x] \cap NextData[j] ELSE cells[x]
        BY <2>1, <2>7, <3>6
      <4>2. j \in 1 .. c => NextData[j] = op.data[i]
        BY <2>5, <3>2
      <4> HIDE DEF i, j, c
      <4>3. i \in 1 .. op.done + c <=> (i \in 1 .. op.done \/ j \in 1 .. c)
        BY <2>2, <3>2, <3>4
      <4>4. ~(i \in 1 .. op.done /\ j \in 1 .. c)
        BY <2>2, <3>2, <3>4
      <4>5. cells'[x] = IF i \in 1 .. op.done + c /\ ~Protects(status)
                        THEN op.before[x] \cap op.data[i] ELSE op.before[x]
        BY <3>3, <3>6, <4>1, <4>2, <4>3, <4>4
      <4>6. QED
        BY <4>5 DEF i, c
    <3>7. QED
      BY <3>5, <3>6
  <2>9. Protects(status)' <=> Protects(status)
    BY <2>1 DEF Protects
  <2>10. QED
    BY <2>3, <2>8, <2>9 DEF WriteExact
<1>4. CASE Check /\ pc' # "idle"
  <2>1. /\ pc = "written" /\ UNCHANGED <<pc, cells, status>> /\ WriteOpInv
        /\ op' = [op EXCEPT !.seen = @ + CheckLen]
    BY <1>4 DEF Check, Return, DataInv
  <2>2. /\ op'.addr = op.addr /\ op'.data = op.data /\ op'.before = op.before
        /\ op'.done = op.done
    BY <2>1 DEF WriteOpInv, WriteOpType
  <2>3. QED
    BY <2>1, <2>2 DEF WriteExact, Protects
<1>5. QED
  <2>1. CASE Boot \/ flash_lock \/ flash_unlock
    BY <1>1, <2>1 DEF Boot, flash_lock, flash_unlock, StatusBegin, Return
  <2>2. CASE StatusWrite \/ StatusFault \/ StatusVerify
    BY <1>1, <2>2 DEF StatusWrite, StatusFault, StatusVerify, Return
  <2>3. CASE WriteReturn \/ EraseSector \/ Crash
    BY <1>1, <2>3 DEF WriteReturn, EraseSector, Crash, Return
  <2>4. ASSUME NEW a, NEW low, EraseBegin(a, low) PROVE WriteExact'
    BY <1>1, <2>4 DEF EraseBegin, Return
  <2>5. ASSUME NEW n \in 1 .. MaxLen, NEW check \in BOOLEAN, NEW low \in BOOLEAN,
               NEW a \in 0 .. Size - n, NEW d \in [1 .. n -> Cell],
               WriteBegin(a, d, check, low)
        PROVE  WriteExact'
    BY <1>1, <1>2, <2>5 DEF WriteBegin, Return
  <2>6. CASE Check
    BY <1>1, <1>4, <2>6
  <2>7. QED
    BY <1>3, <2>1, <2>2, <2>3, <2>4, <2>5, <2>6 DEF Next
---------------------------------------------------------------------------
LEMMA InitIInv == Init => IInv
<1> SUFFICES ASSUME Init PROVE IInv
    OBVIOUS
<1>1. pc = "idle" /\ ~booted /\ ~g_flashLocked
  BY DEF Init
<1>2. TypeOK
  <2>1. cells \in [Cells -> Cell]
    BY DEF Init, Cell
  <2>2. faults \in 0 .. MaxFaults
    BY FlashAssumption DEF Init
  <2>3. QED
    BY <2>1, <2>2 DEF Init, TypeOK
<1>3. LockInv
  BY <1>1 DEF LockInv, Quiet, StatusOp, Believed
<1>4. DataInv /\ WriteExact
  BY <1>1 DEF DataInv, WriteExact
<1>5. QED
  BY <1>2, <1>3, <1>4 DEF IInv

LEMMA IInvStep ==
  ASSUME IInv, [Next]_vars
  PROVE  IInv'
<1>1. CASE Next
  BY <1>1, TypeStep, LockStep, DataStep, ExactStep DEF IInv
<1>2. CASE UNCHANGED vars
  <2>1. UNCHANGED <<part, cells, status, booted, g_flashLocked, pc, op, ret, faults>>
    BY <1>2 DEF vars
  <2>2. TypeOK'
    BY <2>1 DEF IInv, TypeOK
  <2>3. LockInv'
    BY <2>1 DEF IInv, LockInv, Believed, Protects, StatusOpInv, StatusOpType, UnlockInv,
                WrittenInv
  <2>4. DataInv'
    BY <2>1 DEF IInv, DataInv, WriteOpInv, SeenInv
  <2>5. Splits => WriteExact'
    BY <2>1 DEF IInv, WriteExact, Protects
  <2>6. QED
    BY <2>2, <2>3, <2>4, <2>5 DEF IInv
<1>3. QED
  BY <1>1, <1>2

\* The inductive invariant: what g_flashLocked says of the status register, in
\* every step of flash_lock and flash_unlock, and what a write has done so far.
THEOREM FlashInvariant == Spec => []IInv
<1>1. Init => IInv
  BY InitIInv
<1>2. IInv /\ [Next]_vars => IInv'
  BY IInvStep
<1>3. QED
  BY <1>1, <1>2, PTL DEF Spec

\* g_flashLocked agrees with the status register whenever flash_lock and
\* flash_unlock have returned, for all four kinds of part.
THEOREM LockCorrect == Spec => []LockBelieved
<1>1. IInv => LockBelieved
  BY DEF IInv, LockInv, Quiet, Believed, LockBelieved
<1>2. QED
  BY <1>1, FlashInvariant, PTL

\* flash_write_page, where it splits at the pages (8278, b91), changes the bytes
\* of the range and no others.  That of the 8258 does not split (flash.c of the
\* chip leaves it to the caller), and the statement is false of it.
THEOREM WriteCorrect == ASSUME Splits PROVE Spec => []WriteExact
<1>1. IInv => WriteExact
  BY DEF IInv
<1>2. QED
  BY <1>1, FlashInvariant, PTL

\* flash_writeWithCheck returns TRUE only if the flash holds the data.
THEOREM CheckedCorrect == Spec => CheckedIsWritten
<1>1. IInv /\ [Next]_vars =>
        [pc = "written" /\ ret' =>
           \A i \in DOMAIN op.data : cells[op.addr + i - 1] = op.data[i]]_vars
  <2> SUFFICES ASSUME IInv, Next, pc = "written", ret'
               PROVE  \A i \in DOMAIN op.data : cells[op.addr + i - 1] = op.data[i]
      BY DEF vars
  <2>1. WriteOpInv /\ SeenInv /\ ret = FALSE
    BY DEF IInv, DataInv
  <2>2. CASE Check
    <3>1. op.seen >= Len(op.data)
      BY <2>1, <2>2 DEF Check, Return
    <3>2. op.seen \in Nat /\ Len(op.data) \in Nat /\ DOMAIN op.data = 1 .. Len(op.data)
      BY <2>1 DEF WriteOpInv, WriteOpType
    <3>3. \A i \in DOMAIN op.data : i <= op.seen
      BY <3>1, <3>2
    <3>4. QED
      BY <2>1, <3>3 DEF SeenInv
  <2>3. CASE WriteReturn
    BY <2>1, <2>3 DEF WriteReturn
  <2>4. CASE Crash
    BY <2>4 DEF Crash
  <2>5. QED
    BY <2>2, <2>3, <2>4 DEF Next, Boot, flash_lock, flash_unlock, StatusWrite, StatusFault,
       StatusVerify, WriteBegin, WritePage, EraseBegin, EraseSector
<1>2. QED
  BY <1>1, FlashInvariant, PTL DEF Spec, CheckedIsWritten
=============================================================================
