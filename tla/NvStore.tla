------------------------------ MODULE NvStore ------------------------------
(***************************************************************************)
(* One module of the NV store, proj/drivers/drv_nv.c, kept in two flash    *)
(* sectors.  A sector is a header (nv_sect_info_t), a table of index       *)
(* entries (nv_info_idx_t) and the items the entries point at.  Flash is   *)
(* NOR: a write only clears bits, an erase sets a whole sector to ones.    *)
(*                                                                         *)
(* Every flash_write and flash_erase of nv_flashWriteNew, nv_write_item    *)
(* and nv_resetModule is one step, so that power can fail between any two. *)
(* Reads do not change anything and are operators.                         *)
(***************************************************************************)
EXTENDS Integers

CONSTANTS
  Items,      \* item ids the callers use (NV_ITEM_MAC_INFO, ...)
  Vals,       \* payloads
  Nil,        \* no item, no payload: what erased flash reads as
  Bad,        \* a payload that does not sum to its checksum
  Len,        \* ITEM_TOTAL_LEN of each item, header included
  IdxNum,     \* MODULE_IDX_NUM: index entries of a sector
  Cap,        \* bytes between MODULE_CONTEXT_START and MODULE_SECT_END
  Align,      \* alignment of an item's offset, 4 in the code
  NvBase,     \* NV_BASE_ADDRESS, in 4K units
  LockEnd,    \* end of the range flash_lock() protects, in 4K units; 0: no lock
  Writes,     \* the calls of nv_flashWriteNew: item, payload, single
  Faults,     \* TRUE: a payload may fail to program
  MaxCrash    \* bound: power failures in a behaviour

ASSUME ConstAssumption ==
  /\ IdxNum \in Nat \ {0} /\ Cap \in Nat /\ Align \in Nat \ {0}
  /\ Len \in [Items -> Nat \ {0}]
  /\ NvBase \in Nat /\ LockEnd \in Nat
  /\ Writes \subseteq Items \X Vals \X BOOLEAN /\ Faults \in BOOLEAN
  /\ MaxCrash \in Nat
  /\ Nil \notin Items \cup Vals /\ Bad \notin Vals /\ Bad # Nil

VARIABLES
  hdr,      \* usedFlag of each sector's header
  idx,      \* index table of each sector, with the item each entry points at
  locked,   \* g_flashLocked
  pc,       \* where the running operation is; "idle" when none runs
  op,       \* its local variables
  allowed,  \* history: the payloads a reader of each item may be given
  crashes,  \* number of power failures so far
  orphan    \* history: items were left in a sector without a valid header

vars == <<hdr, idx, locked, pc, op, allowed, crashes, orphan>>

Sect == {0, 1}
Idx == 0 .. IdxNum - 1
NoIdx == -1

\* nv_info_idx_t with the itemHdr_t (hd) and payload (val) found at its offset.
Entry == [st : {"idle", "oper", "valid", "invalid"}, id : Items \cup {Nil},
          off : Nat, hd : BOOLEAN, val : Vals \cup {Nil, Bad}]

IdleEntry == [st |-> "idle", id |-> Nil, off |-> 0, hd |-> FALSE, val |-> Nil]
ErasedIdx == [k \in Idx |-> IdleEntry]

Op == [item : Items \cup {Nil}, val : Vals \cup {Nil}, single : BOOLEAN, sect : Sect, w : 0 .. IdxNum,
       r : 0 .. IdxNum, upd : BOOLEAN, del : Idx \cup {NoIdx}, ok : BOOLEAN]

NoOp == [item |-> Nil, val |-> Nil, single |-> TRUE, sect |-> 0, w |-> 0, r |-> 0,
         upd |-> FALSE, del |-> NoIdx, ok |-> TRUE]

---------------------------------------------------------------------------
(* Flash *)

\* Programming 0x5A5A over 0x5050 leaves 0x5050: flags only descend.
ProgramHdr(s, flag) ==
  [hdr EXCEPT ![s] = IF @ = "invalid" THEN "invalid" ELSE flag]

\* flash_lock() protects the low LockEnd units of the chip; a program or an
\* erase of a protected sector is ignored by the chip.
LockCoversNv == NvBase < LockEnd
Dropped == locked /\ LockCoversNv

---------------------------------------------------------------------------
(* Searches *)

\* nv_sector_read: the first sector with a valid header; without one
\* nv_flashWriteNew falls back to sector 0.
ValidSect(s) == hdr[s] = "valid" /\ \A t \in Sect : t < s => hdr[t] # "valid"
WriteSect == IF hdr[0] = "valid" \/ hdr[1] # "valid" THEN 0 ELSE 1

\* nv_index_read for an item: the newest valid entry among the first n.
Newest(f, n, i, k) ==
  /\ k < n /\ f[k].st = "valid" /\ f[k].id = i
  /\ \A j \in Idx : k < j /\ j < n => ~(f[j].st = "valid" /\ f[j].id = i)

\* nv_index_read for ITEM_FIELD_IDLE: the last entry in use.
LastUsed(f, k) == f[k].st # "idle" /\ \A j \in Idx : k < j => f[j].st = "idle"
Unused(f) == \A k \in Idx : f[k].st = "idle"

\* The payload of the newest valid entry: at most one element.
Latest(f, n, i) == {f[k].val : k \in {j \in Idx : Newest(f, n, i, j)}}

\* nv_flashReadNew with nv_flashReadByIndex: what a reader is given, if anything.
ReadItem(i) ==
  UNION {{idx[s][k].val : k \in {j \in Idx : Newest(idx[s], IdxNum, i, j)
                                             /\ idx[s][j].hd}}
           : s \in {t \in Sect : ValidSect(t)}}

DelIdx(f, i) ==
  IF \E k \in Idx : Newest(f, IdxNum, i, k)
  THEN CHOOSE k \in Idx : Newest(f, IdxNum, i, k) ELSE NoIdx

---------------------------------------------------------------------------
(* Space *)

AlignUp(n) == ((n + Align - 1) \div Align) * Align
EndOf(e) == e.off + Len[e.id]
NextOff(f, w) == IF w = 0 THEN 0 ELSE AlignUp(EndOf(f[w - 1]))

---------------------------------------------------------------------------
Init ==
  /\ hdr = [s \in Sect |-> "idle"]
  /\ idx = [s \in Sect |-> ErasedIdx]
  /\ locked = TRUE                    \* drv_platform_init locks at boot
  /\ pc = "idle"
  /\ op = NoOp
  /\ allowed = [i \in Items |-> {Nil}]
  /\ crashes = 0 /\ orphan = FALSE

\* nv_flashWriteNew up to its first flash write: choose the sector and the
\* index entry, decide on a sector update, find the entry to delete.
WriteStart(i, v, single) ==
  /\ pc = "idle"
  /\ Len[i] <= Cap
  /\ locked' = FALSE
  /\ allowed' = [allowed EXCEPT ![i] = @ \cup {v}]
  /\ LET s == WriteSect
         job(t, w, upd, del) ==
           [item |-> i, val |-> v, single |-> single, sect |-> t, w |-> w,
            r |-> 0, upd |-> upd, del |-> del, ok |-> TRUE]
         old == IF single THEN DelIdx(idx[s], i) ELSE NoIdx
     IN \/ /\ Unused(idx[s])
           /\ pc' = "index" /\ op' = job(s, 0, FALSE, old)
        \/ \E k \in Idx :
             /\ LastUsed(idx[s], k)
             /\ IF k = IdxNum - 1 \/ EndOf(idx[s][k]) + Len[i] > Cap
                THEN pc' = "erase" /\ op' = job(1 - s, 0, TRUE, NoIdx)
                ELSE pc' = "index" /\ op' = job(s, k + 1, FALSE, old)
  /\ UNCHANGED <<hdr, idx, orphan, crashes>>

\* An operation returns: flash_lock() and back to the caller.
Return(outcome) ==
  /\ pc' = "idle" /\ locked' = TRUE /\ op' = NoOp
  /\ allowed' = [allowed EXCEPT ![op.item] = outcome]

\* Mutant: the sector in use is erased instead of the other one.
EraseNewWrongSector ==
  /\ pc = "erase"
  /\ idx' = [idx EXCEPT ![1 - op.sect] = ErasedIdx]
  /\ hdr' = [hdr EXCEPT ![1 - op.sect] = "idle"]
  /\ pc' = "copy"
  /\ UNCHANGED <<locked, op, allowed, orphan, crashes>>

\* flash_erase of the other sector, before the valid items are copied to it.
EraseNew ==
  /\ pc = "erase"
  /\ idx' = [idx EXCEPT ![op.sect] = ErasedIdx]
  /\ hdr' = [hdr EXCEPT ![op.sect] = "idle"]
  /\ pc' = "copy"
  /\ UNCHANGED <<locked, op, allowed, orphan, crashes>>

\* Mutant: deleted items are carried over too, and made valid.
CarriedAll(e) == e.st # "idle" /\ (e.id # op.item \/ ~op.single)

\* Items the sector update carries over: all valid ones but the item rewritten.
Carried(e) == e.st = "valid" /\ (e.id # op.item \/ ~op.single)

OldSect == 1 - op.sect

\* Mutant: the last batch of entries is not cut to the entries there are.
CopySkipBatch ==
  /\ pc = "copy" /\ op.r < IdxNum
  /\ ~Carried(idx[OldSect][op.r])
  /\ op' = [op EXCEPT !.r = @ + 4]
  /\ UNCHANGED <<hdr, idx, locked, pc, allowed, orphan, crashes>>

CopySkip ==
  /\ pc = "copy" /\ op.r < IdxNum
  /\ ~Carried(idx[OldSect][op.r])
  /\ op' = [op EXCEPT !.r = @ + 1]
  /\ UNCHANGED <<hdr, idx, locked, pc, allowed, orphan, crashes>>

\* nv_write_item(..., isFlashCopy): the index entry in state OPERATION.
CopyIndex ==
  /\ pc = "copy" /\ op.r < IdxNum
  /\ Carried(idx[OldSect][op.r])
  /\ locked' = FALSE
  /\ idx' = [idx EXCEPT ![op.sect][op.w] =
               [st |-> "oper", id |-> idx[OldSect][op.r].id,
                off |-> NextOff(idx[op.sect], op.w), hd |-> FALSE, val |-> Nil]]
  /\ pc' = "copyData"
  /\ UNCHANGED <<hdr, op, allowed, orphan, crashes>>

\* item header and payload copied through a 48 byte buffer...
CopyData ==
  /\ pc = "copyData"
  /\ idx' = [idx EXCEPT ![op.sect][op.w].hd = idx[OldSect][op.r].hd,
                        ![op.sect][op.w].val = idx[OldSect][op.r].val]
  /\ pc' = "copyValid"
  /\ UNCHANGED <<hdr, locked, op, allowed, orphan, crashes>>

\* ... unless ev_buf_allocate has none: NV_NOT_ENOUGH_SAPCE.
CopyNoBuffer ==
  /\ pc = "copyData"
  /\ Return(allowed[op.item])
  /\ UNCHANGED <<hdr, idx, orphan, crashes>>

CopyValid ==
  /\ pc = "copyValid"
  /\ idx' = [idx EXCEPT ![op.sect][op.w].st = "valid"]
  /\ locked' = TRUE
  /\ op' = [op EXCEPT !.r = @ + 1, !.w = @ + 1]
  /\ pc' = "copy"
  /\ UNCHANGED <<hdr, allowed, orphan, crashes>>

SectorFull ==
  op.w = IdxNum \/ NextOff(idx[op.sect], op.w) + Len[op.item] > Cap

\* All entries seen: write the new item, or fail when there is no room left.
CopyDone ==
  /\ pc = "copy" /\ op.r = IdxNum
  /\ IF SectorFull
     THEN Return(allowed[op.item])
     ELSE pc' = "index" /\ UNCHANGED <<locked, op, allowed>>
  /\ UNCHANGED <<hdr, idx, orphan, crashes>>

\* nv_write_item(..., FALSE): the index entry in state OPERATION.
WriteIndex ==
  /\ pc = "index"
  /\ locked' = FALSE
  /\ idx' = [idx EXCEPT ![op.sect][op.w] =
               [st |-> "oper", id |-> op.item,
                off |-> NextOff(idx[op.sect], op.w), hd |-> FALSE, val |-> Nil]]
  /\ pc' = "payload"
  /\ UNCHANGED <<hdr, op, allowed, orphan, crashes>>

WritePayload ==
  /\ pc = "payload"
  /\ \E v \in {op.val} \cup (IF Faults THEN {Bad} ELSE {}) :
       idx' = [idx EXCEPT ![op.sect][op.w].val = v]
  /\ pc' = "header"
  /\ UNCHANGED <<hdr, locked, op, allowed, orphan, crashes>>

\* Mutant: the first item of an erased sector gets no sector header.
HeaderStepNoFirst == IF op.upd THEN "oldHeader" ELSE "return"

\* Steps of nv_flashWriteNew after nv_write_item: delete the entry found by
\* the search, then write the sector headers if the item was written.
HeaderStep == CASE op.upd -> "oldHeader"
                [] ~op.upd /\ op.w = 0 -> "newHeader"
                [] OTHER -> "return"
AfterItem(ok) == CASE op.del # NoIdx -> "delete"
                   [] op.del = NoIdx /\ ok -> HeaderStep
                   [] OTHER -> "return"

\* The payload is read back; when it sums up, the item header is written.
WriteItemHeader ==
  /\ pc = "header"
  /\ IF idx[op.sect][op.w].val = op.val
     THEN /\ idx' = [idx EXCEPT ![op.sect][op.w].hd = TRUE]
          /\ pc' = "validate"
          /\ UNCHANGED <<locked, op>>
     ELSE /\ locked' = TRUE
          /\ op' = [op EXCEPT !.ok = FALSE]
          /\ pc' = AfterItem(FALSE)
          /\ UNCHANGED idx
  /\ UNCHANGED <<hdr, allowed, orphan, crashes>>

\* usedState of the index entry becomes VALID; nv_write_item locks the flash.
Validate ==
  /\ pc = "validate"
  /\ idx' = [idx EXCEPT ![op.sect][op.w].st = "valid"]
  /\ locked' = TRUE
  /\ pc' = AfterItem(TRUE)
  /\ UNCHANGED <<hdr, op, allowed, orphan, crashes>>

DeleteOld ==
  /\ pc = "delete"
  /\ idx' = IF Dropped THEN idx
            ELSE [idx EXCEPT ![op.sect][op.del].st = "invalid"]
  /\ pc' = IF op.ok THEN HeaderStep ELSE "return"
  /\ UNCHANGED <<hdr, locked, op, allowed, orphan, crashes>>

\* Mutant: the old header is left valid.
InvalidateOldHeaderKept ==
  /\ pc = "oldHeader" /\ pc' = "newHeader"
  /\ UNCHANGED <<hdr, idx, locked, op, allowed, orphan, crashes>>

InvalidateOldHeader ==
  /\ pc = "oldHeader"
  /\ hdr' = IF Dropped THEN hdr ELSE ProgramHdr(OldSect, "invalid")
  /\ pc' = "newHeader"
  /\ UNCHANGED <<idx, locked, op, allowed, orphan, crashes>>

ValidateNewHeader ==
  /\ pc = "newHeader"
  /\ hdr' = IF Dropped THEN hdr ELSE ProgramHdr(op.sect, "valid")
  /\ orphan' = FALSE
  /\ pc' = "return"
  /\ UNCHANGED <<idx, locked, op, allowed, crashes>>

\* A failed first item of a sector leaves an entry in use and no header.
WriteReturn ==
  /\ pc = "return"
  /\ Return(IF op.ok THEN {op.val} ELSE allowed[op.item])
  /\ orphan' = (orphan \/ (~op.ok /\ ~op.upd /\ op.w = 0))
  /\ UNCHANGED <<hdr, idx, crashes>>

\* nv_itemDeleteByIndex, on the entry a read returned.  Deleting uncovers an
\* older valid entry of the item if there is one.
ItemDelete(i) ==
  /\ pc = "idle"
  /\ \E s \in Sect, k \in Idx :
       /\ ValidSect(s) /\ Newest(idx[s], IdxNum, i, k)
       /\ idx' = [idx EXCEPT ![s][k].st = "invalid"]
       /\ allowed' = [allowed EXCEPT ![i] = {Nil} \cup
            {idx[s][j].val : j \in {m \in Idx \ {k} :
               idx[s][m].st = "valid" /\ idx[s][m].id = i}}]
  /\ locked' = TRUE
  /\ UNCHANGED <<hdr, pc, op, orphan, crashes>>

\* nv_resetModule: erase sector 0, then sector 1.
ResetStart ==
  /\ pc = "idle"
  /\ allowed' = [i \in Items |-> allowed[i] \cup {Nil}]
  /\ locked' = FALSE
  /\ pc' = "reset0"
  /\ UNCHANGED <<hdr, idx, op, orphan, crashes>>

ResetErase(s) ==
  /\ pc = IF s = 0 THEN "reset0" ELSE "reset1"
  /\ idx' = [idx EXCEPT ![s] = ErasedIdx]
  /\ hdr' = [hdr EXCEPT ![s] = "idle"]
  /\ IF s = 0
     THEN pc' = "reset1" /\ UNCHANGED <<locked, allowed, orphan>>
     ELSE /\ pc' = "idle" /\ locked' = TRUE /\ orphan' = FALSE
          /\ allowed' = [i \in Items |-> {Nil}]
  /\ UNCHANGED <<op, crashes>>

\* Power fails; the program restarts with the flash as it is and locks it.
\* InWindow: the items of op.sect are the only copy and have no header yet.
InWindow == \/ pc = "newHeader"
            \/ ~op.upd /\ op.w = 0
               /\ pc \in {"payload", "header", "validate"}
            \/ pc = "return" /\ ~op.ok /\ ~op.upd /\ op.w = 0

Crash ==
  /\ pc # "idle" /\ crashes < MaxCrash
  /\ pc' = "idle" /\ locked' = TRUE /\ op' = NoOp
  /\ crashes' = crashes + 1
  /\ orphan' = (orphan \/ InWindow)
  /\ UNCHANGED <<hdr, idx, allowed>>

Next ==
  \/ \E c \in Writes : WriteStart(c[1], c[2], c[3])
  \/ EraseNew
  \/ CopySkip \/ CopyIndex \/ CopyData \/ CopyNoBuffer \/ CopyValid \/ CopyDone
  \/ WriteIndex \/ WritePayload \/ WriteItemHeader \/ Validate
  \/ DeleteOld \/ InvalidateOldHeader \/ ValidateNewHeader \/ WriteReturn
  \/ \E i \in Items : ItemDelete(i)
  \/ ResetStart \/ \E s \in Sect : ResetErase(s)
  \/ Crash

Spec == Init /\ [][Next]_vars

---------------------------------------------------------------------------
(* Properties *)

PCs == {"idle", "erase", "copy", "copyData", "copyValid", "index", "payload",
        "header", "validate", "delete", "oldHeader", "newHeader", "return",
        "reset0", "reset1"}

\* Types of the state.
TypeOK ==
  /\ hdr \in [Sect -> {"idle", "valid", "invalid"}]
  /\ idx \in [Sect -> [Idx -> Entry]]
  /\ locked \in BOOLEAN
  /\ pc \in PCs
  /\ op \in Op
  /\ allowed \in [Items -> SUBSET (Vals \cup {Nil})]
  /\ crashes \in Nat /\ orphan \in BOOLEAN

\* Whatever step power fails at, at most one sector has a valid header, so
\* nv_sector_read is never torn between an old and a new copy.
OneValidSector == ~(hdr[0] = "valid" /\ hdr[1] = "valid")

\* The flash alone determines, at every step and so after a power failure at
\* any step, the last payload a successful nv_flashWriteNew stored or the one
\* being stored: nothing acknowledged is lost and nothing older comes back in
\* the sector the driver works on.
Durable ==
  \A i \in Items :
    LET found == Latest(idx[WriteSect], IdxNum, i)
    IN found \subseteq allowed[i] /\ (found = {} => Nil \in allowed[i])

\* nv_flashReadNew returns that payload too, unless power failed in one of the
\* two windows in which the items have no valid header (orphan).
ReadBack ==
  pc = "idle" /\ ~orphan =>
    \A i \in Items : /\ ReadItem(i) \subseteq allowed[i]
                     /\ ReadItem(i) = {} => Nil \in allowed[i]

\* The store as its callers see it, computed from the flash alone.
View == [i \in Items |-> Latest(idx[WriteSect], IdxNum, i)]
Running == IF pc \in {"idle", "reset0", "reset1"} THEN Nil
           ELSE [item |-> op.item, val |-> op.val]

Abstract == INSTANCE NvAtomic WITH store <- View, job <- Running

\* Updates are atomic: a sector update, which erases one sector, copies every
\* item and switches two headers, shows as one change of one item.
Atomic == Abstract!Spec

\* Items stay inside their sector, and so inside the module's address range.
WithinSector ==
  \A s \in Sect, k \in Idx : idx[s][k].st # "idle" => EndOf(idx[s][k]) <= Cap
=============================================================================
