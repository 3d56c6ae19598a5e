-------------------------------- MODULE Flash --------------------------------
(***************************************************************************)
(* The flash driver: drv_flash.c over the chip drivers (flash.c and the     *)
(* flash_mid*.c of each part).  flash_write_page sends one page program     *)
(* after another, flash_writeWithCheck reads back what was written, and     *)
(* flash_lock and flash_unlock keep g_flashLocked in step with a status     *)
(* register that survives power failures and is written one byte or two at  *)
(* a time.  Every command to the chip is a step; power fails at any of      *)
(* them, and a command that is cut off has had part of its effect.          *)
(***************************************************************************)
EXTENDS Integers, Sequences, FiniteSetsExt

CONSTANTS
  Size,        \* number of cells (bytes) of the chip
  PageSize,    \* cells of a page, 256
  SectorSize,  \* cells of a sector, 4096
  CheckLen,    \* copyLen of flash_writeWithCheck, 48
  MaxLen,      \* bound on the length of a write
  Splits,      \* flash_write_page splits at pages (8278, b91), or not (8258)
  MaxFaults    \* bound on status writes that the chip ignores

ASSUME FlashAssumption ==
  /\ {Size, PageSize, SectorSize, CheckLen, MaxLen} \subseteq Nat \ {0}
  /\ SectorSize % PageSize = 0 /\ Size % SectorSize = 0
  /\ Splits \in BOOLEAN /\ MaxFaults \in Nat

\* External: a cell as the set of its bits that are 1; programming only
\* clears bits, erasing sets them all.  One bit stands for eight.
Erased == {1}
Cell   == SUBSET Erased
Cells  == 0 .. Size - 1

(***************************************************************************)
(* The parts.  A status register is the set of its bits that are 1.  BP are *)
(* two of the block protect bits: both protect the whole part, one a part   *)
(* of it.  "cmp" inverts the range; "srp" and "qe" are not the lock's.      *)
(***************************************************************************)
BP  == {"bp1", "bp2"}
Low == BP \cup {"srp"}    \* the low byte

\* An 8-bit register.
mid13325e == [listed |-> TRUE, bits |-> Low, mask |-> BP,
              blockSize |-> BP, twoCmd |-> FALSE]

\* A 16-bit register written in one command.
mid146085 == [listed |-> TRUE, bits |-> Low \cup {"cmp", "qe"}, mask |-> BP \cup {"cmp"},
              blockSize |-> BP, twoCmd |-> FALSE]

\* A 16-bit register written in two commands, and locked by "cmp" alone.
mid166085 == [listed |-> TRUE, bits |-> Low \cup {"cmp", "qe"}, mask |-> BP \cup {"cmp"},
              blockSize |-> {"cmp"}, twoCmd |-> TRUE]

\* A part that c_flashOptList does not list has no lock functions.
unlisted == [listed |-> FALSE, bits |-> Low, mask |-> BP,
             blockSize |-> {}, twoCmd |-> FALSE]

\* One part of each kind in c_flashOptList.
Parts == {mid13325e, mid146085, mid166085, unlisted}

\* External: which settings protect cells, after the comments of the lock
\* enumerations (0x0000 and 0x407c: nothing; 0x007c and 0x4000: everything).
\* A setting that protects some cells is taken to protect all of them.
Protects(st) == IF "cmp" \in st THEN ~(BP \subseteq st) ELSE st \cap BP # {}

VARIABLES
  part,          \* the part on the board
  cells,         \* its contents
  status,        \* its status register, which is not volatile
  booted,        \* drv_platform_init has called flash_loadOpt
  g_flashLocked,
  pc, op,        \* the running operation and its locals
  ret,           \* the last operation was a flash_writeWithCheck that returned TRUE
  faults         \* status writes the chip has ignored

vars == <<part, cells, status, booted, g_flashLocked, pc, op, ret, faults>>

NoOp == [kind |-> "none"]

\* A part comes erased, its status register as another program left it.
Init ==
  /\ part \in Parts
  /\ cells = [a \in Cells |-> Erased]
  /\ status \in SUBSET part.bits
  /\ booted = FALSE /\ g_flashLocked = FALSE
  /\ pc = "idle" /\ op = NoOp /\ ret = FALSE /\ faults = 0

Return == pc' = "idle" /\ op' = NoOp

(***************************************************************************)
(* The lock.                                                                *)
(***************************************************************************)
\* Mutant: nothing to write is no success.
StatusBeginEager(want, lock) ==
  IF want \subseteq part.mask /\ status \cap part.mask # want
  THEN /\ pc' = "low"
       /\ op' = [kind |-> "status", want |-> want, lock |-> lock,
                 new |-> want \cup (status \ part.mask)]
       /\ UNCHANGED g_flashLocked
  ELSE Return /\ UNCHANGED g_flashLocked

\* flash_write_status_mid*, first part: refuse bits outside the mask, read the
\* register, and write it only if it has to change.
StatusBegin(want, lock) ==
  IF want \subseteq part.mask /\ status \cap part.mask # want
  THEN /\ pc' = "low"
       /\ op' = [kind |-> "status", want |-> want, lock |-> lock,
                 new |-> want \cup (status \ part.mask)]
       /\ UNCHANGED g_flashLocked
  ELSE /\ g_flashLocked' = IF want \subseteq part.mask THEN lock ELSE g_flashLocked
       /\ Return

\* drv_platform_init: flash_loadOpt and flash_lock, whose g_flashLocked is FALSE.
Boot ==
  /\ pc = "idle" /\ ~booted
  /\ booted' = TRUE /\ ret' = FALSE
  /\ IF part.listed THEN StatusBegin(part.blockSize, TRUE)
                    ELSE Return /\ UNCHANGED g_flashLocked
  /\ UNCHANGED <<part, cells, status, faults>>

flash_lock ==
  /\ pc = "idle" /\ booted /\ part.listed
  /\ ~g_flashLocked
  /\ ret' = FALSE
  /\ StatusBegin(part.blockSize, TRUE)
  /\ UNCHANGED <<part, cells, status, booted, faults>>

flash_unlock ==
  /\ pc = "idle" /\ booted /\ part.listed
  /\ g_flashLocked
  /\ ret' = FALSE
  /\ StatusBegin({}, FALSE)
  /\ UNCHANGED <<part, cells, status, booted, faults>>

\* What the command under way makes of the register: flash_write_status
\* writes it at once, or its low byte first.
StatusAfter ==
  CASE pc = "high" -> (op.new \ Low) \cup (status \cap Low)
    [] pc = "low" /\ part.twoCmd -> (op.new \cap Low) \cup (status \ Low)
    [] OTHER -> op.new

StatusWrite ==
  /\ pc \in {"low", "high"}
  /\ status' = StatusAfter
  /\ pc' = IF pc = "low" /\ part.twoCmd THEN "high" ELSE "verify"
  /\ UNCHANGED <<part, cells, booted, g_flashLocked, op, ret, faults>>

\* The chip ignores the command.
StatusFault ==
  /\ pc \in {"low", "high"} /\ faults < MaxFaults
  /\ faults' = faults + 1
  /\ pc' = IF pc = "low" /\ part.twoCmd THEN "high" ELSE "verify"
  /\ UNCHANGED <<part, cells, status, booted, g_flashLocked, op, ret>>

\* Second part: read again; the caller believes it only if it is as wanted.
StatusVerify ==
  /\ pc = "verify"
  /\ g_flashLocked' = IF status \cap part.mask = op.want THEN op.lock ELSE g_flashLocked
  /\ Return
  /\ UNCHANGED <<part, cells, status, booted, ret, faults>>

(***************************************************************************)
(* Contents.                                                                *)
(***************************************************************************)
\* External: a page program of data d at address a fills the page's buffer
\* from a on and goes on at the start of the page when it meets the end.  The
\* cells of S are programmed, the others were not reached before power failed.
Place(a, i) == (a \div PageSize) * PageSize + ((a + i - 1) % PageSize)

Touched(a, d) == {Place(a, i) : i \in DOMAIN d}

PageProgram(a, d, S) ==
  [x \in Cells |-> IF x \in S \cap Touched(a, d)
                   THEN cells[x] \cap d[Max({i \in DOMAIN d : Place(a, i) = x})]
                   ELSE cells[x]]

\* Mutant: the first chunk is as long as a page too.
ChunkWhole ==
  LET left == Len(op.data) - op.done IN  IF Splits THEN Min({left, PageSize}) ELSE left

\* flash_write_page: nw, the number of bytes of the next page program.
Chunk ==
  LET left == Len(op.data) - op.done
      ns   == PageSize - ((op.addr + op.done) % PageSize)
  IN  IF Splits THEN Min({left, ns}) ELSE left

NextData == SubSeq(op.data, op.done + 1, op.done + Chunk)

\* flash_write and flash_writeWithCheck: on a low battery they return at once.
\* op.before is history: the contents when the operation began.
WriteBegin(a, d, check, lowBattery) ==
  /\ pc = "idle" /\ booted
  /\ ret' = FALSE
  /\ IF lowBattery
     THEN Return
     ELSE /\ pc' = "write"
          /\ op' = [kind |-> "write", addr |-> a, data |-> d, check |-> check,
                    done |-> 0, seen |-> 0, before |-> cells]
  /\ UNCHANGED <<part, cells, status, booted, g_flashLocked, faults>>

WritePage ==
  /\ pc = "write"
  /\ cells' = IF Protects(status) THEN cells
              ELSE PageProgram(op.addr + op.done, NextData, Cells)
  /\ op' = [op EXCEPT !.done = @ + Chunk]
  /\ pc' = IF op'.done < Len(op.data) THEN "write" ELSE "written"
  /\ UNCHANGED <<part, status, booted, g_flashLocked, ret, faults>>

WriteReturn ==
  /\ pc = "written" /\ ~op.check
  /\ Return
  /\ UNCHANGED <<part, cells, status, booted, g_flashLocked, ret, faults>>

\* Mutant: the rounds step by the length of the buffer and miss the rest.
RoundFull == IF op.seen + CheckLen > Len(op.data) THEN {} ELSE op.seen + 1 .. op.seen + CheckLen

\* The bytes that the next round of flash_writeWithCheck compares.
Round == op.seen + 1 .. Min({op.seen + CheckLen, Len(op.data)})

Check ==
  /\ pc = "written" /\ op.check
  /\ IF op.seen >= Len(op.data)
     THEN ret' = TRUE /\ Return
     ELSE IF \E i \in Round : cells[op.addr + i - 1] # op.data[i]
     THEN ret' = FALSE /\ Return
     ELSE op' = [op EXCEPT !.seen = @ + CheckLen] /\ UNCHANGED <<pc, ret>>
  /\ UNCHANGED <<part, cells, status, booted, g_flashLocked, faults>>

Sector(a) == {x \in Cells : x \div SectorSize = a \div SectorSize}

\* External: a sector erase that reached the cells of S.
SectorErase(a, S) == [x \in Cells |-> IF x \in S \cap Sector(a) THEN Erased ELSE cells[x]]

\* flash_erase: on a low battery it returns at once.
EraseBegin(a, lowBattery) ==
  /\ pc = "idle" /\ booted
  /\ ret' = FALSE
  /\ IF lowBattery THEN Return ELSE pc' = "erase" /\ op' = [kind |-> "erase", addr |-> a]
  /\ UNCHANGED <<part, cells, status, booted, g_flashLocked, faults>>

EraseSector ==
  /\ pc = "erase"
  /\ cells' = IF Protects(status) THEN cells ELSE SectorErase(op.addr, Cells)
  /\ Return
  /\ UNCHANGED <<part, status, booted, g_flashLocked, ret, faults>>

(***************************************************************************)
(* Environment.                                                             *)
(***************************************************************************)
\* Power fails; the command under way, if any, has had part of its effect.
Crash ==
  /\ booted
  /\ booted' = FALSE /\ g_flashLocked' = FALSE /\ ret' = FALSE /\ Return
  /\ CASE pc = "write" /\ ~Protects(status) ->
            \E S \in SUBSET Touched(op.addr + op.done, NextData) :
              cells' = PageProgram(op.addr + op.done, NextData, S)
       [] pc = "erase" /\ ~Protects(status) ->
            \E S \in SUBSET Sector(op.addr) : cells' = SectorErase(op.addr, S)
       [] OTHER -> cells' = cells
  /\ status' \in IF pc \in {"low", "high"} THEN {status, StatusAfter} ELSE {status}
  /\ UNCHANGED <<part, faults>>

Next ==
  \/ Boot \/ flash_lock \/ flash_unlock
  \/ StatusWrite \/ StatusFault \/ StatusVerify
  \/ \E n \in 1 .. MaxLen, check, low \in BOOLEAN : \E a \in 0 .. Size - n :
       \E d \in [1 .. n -> Cell] : WriteBegin(a, d, check, low)
  \/ WritePage \/ WriteReturn \/ Check
  \/ \E a \in Cells, low \in BOOLEAN : EraseBegin(a, low)
  \/ EraseSector
  \/ Crash

Spec == Init /\ [][Next]_vars

(***************************************************************************)
(* Properties.                                                              *)
(***************************************************************************)
TypeOK ==
  /\ part \in Parts /\ cells \in [Cells -> Cell]
  /\ status \subseteq part.bits
  /\ booted \in BOOLEAN /\ g_flashLocked \in BOOLEAN /\ ret \in BOOLEAN
  /\ pc \in {"idle", "low", "high", "verify", "write", "written", "erase"}
  /\ faults \in 0 .. MaxFaults

\* g_flashLocked (drv_flash.c:62) and the status register agree whenever no
\* operation runs: a part believed locked is, and unless the chip ignored a
\* command one believed unlocked is not, whatever program left it locked and
\* wherever power failed.  flash_unlock trusts the variable and does nothing
\* when it is FALSE, so a lock it does not know of would stay for ever.
LockBelieved ==
  pc = "idle" /\ booted /\ part.listed =>
    /\ g_flashLocked => status \cap part.mask = part.blockSize
    /\ faults = 0 /\ Protects(status) => g_flashLocked

\* flash_write_page (flash.c:237 of the 8278): at every step of a write the
\* bytes sent so far are in their places and no other byte has changed,
\* whatever pages the range touches.
WriteExact ==
  pc \in {"write", "written"} =>
    \A x \in Cells :
      LET i == x - op.addr + 1 IN
      cells[x] = IF i \in 1 .. op.done /\ ~Protects(status)
                 THEN op.before[x] \cap op.data[i] ELSE op.before[x]

\* flash_writeWithCheck (drv_flash.c:177) returns TRUE only if the flash holds
\* the data: not after a write that a lock, a low battery or cells that were
\* not erased kept from happening.
CheckedIsWritten ==
  [][pc = "written" /\ ret' =>
       \A i \in DOMAIN op.data : cells[op.addr + i - 1] = op.data[i]]_vars
=============================================================================
