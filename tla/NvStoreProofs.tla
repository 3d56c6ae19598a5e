--------------------------- MODULE NvStoreProofs ---------------------------
(***************************************************************************)
(* Proofs about NvStore, for every set of items and payloads, every size   *)
(* of the index table, every layout and lock range, with write faults and  *)
(* any number of power failures.                                           *)
(***************************************************************************)
EXTENDS NvStore, TLAPS

Copying == {"erase", "copy", "copyData", "copyValid"}
Writing == {"index", "payload", "header", "validate", "delete", "oldHeader",
            "newHeader", "return"}

---------------------------------------------------------------------------
(* Type correctness.  TypeOK is not inductive: the offset of the next item  *)
(* is computed from the entry before it, which has to be in use, and the    *)
(* payload of a valid entry has to be one a caller gave.                    *)

\* An entry in use names an item, a valid one holds a payload.
EntryInv ==
  \A s \in Sect, k \in Idx :
    /\ idx[s][k].st # "idle" => idx[s][k].id \in Items
    /\ idx[s][k].st = "valid" => idx[s][k].val \in Vals

\* The local variables of the running write at each of its steps.
OpInv ==
  /\ pc \in Copying \cup Writing => op.item \in Items /\ op.val \in Vals
  /\ pc \in Copying => op.upd /\ op.w <= op.r
  /\ pc \in Copying => op.del = NoIdx
  /\ pc = "erase" => op.w = 0
  /\ pc \in {"copyData", "copyValid"} => op.r < IdxNum
  /\ pc \in Writing => op.w < IdxNum
  /\ pc = "delete" => op.del # NoIdx

\* The entry before the next one is in use, the one being written as well.
SlotInv ==
  /\ pc \in {"copy", "index"} =>
       (op.w > 0 => idx[op.sect][op.w - 1].st # "idle")
  /\ pc \in {"copyData", "copyValid", "payload", "header", "validate"} =>
       idx[op.sect][op.w].st = "oper"
  /\ pc = "copyData" => idx[1 - op.sect][op.r].st = "valid"
  /\ pc = "copyValid" => idx[op.sect][op.w].val \in Vals
  /\ pc = "validate" => idx[op.sect][op.w].val = op.val

\* The entry to delete after the write is one in use.
DelInv ==
  pc \in Writing /\ op.del # NoIdx => idx[op.sect][op.del].st # "idle"

TInv == TypeOK /\ EntryInv /\ OpInv /\ SlotInv /\ DelInv

---------------------------------------------------------------------------
(* One valid sector.  The two headers change in two steps, so the proof     *)
(* needs to know which of them may be valid at each step of a write.        *)

\* An update works on the sector that is not valid; the old header is gone
\* before the new one is written (or the lock drops both writes).
HdrInv ==
  /\ pc \in Copying \cup {"index", "payload", "header", "validate", "delete",
                          "oldHeader"} /\ op.upd => hdr[op.sect] # "valid"
  /\ pc \in Writing /\ ~op.upd => hdr[1 - op.sect] # "valid"
  /\ pc = "newHeader" => Dropped \/ hdr[1 - op.sect] # "valid"

HInv == OneValidSector /\ HdrInv

USE DEF Sect, Idx, NoIdx, Copying, Writing

---------------------------------------------------------------------------
(* Facts about single updates *)

\* The erased entry, the erased table and the cleared locals have their types.
LEMMA Constants ==
  /\ IdleEntry \in Entry /\ ErasedIdx \in [Idx -> Entry] /\ NoOp \in Op
<1>1. IdleEntry \in Entry
  BY DEF IdleEntry, Entry
<1>2. NoOp \in Op
  BY ConstAssumption DEF NoOp, Op
<1> QED
  BY <1>1, <1>2 DEF ErasedIdx

\* Moving the copy loop's read index keeps the type of the locals.
LEMMA OpRead == ASSUME NEW o \in Op, NEW r \in 0 .. IdxNum PROVE [o EXCEPT !.r = r] \in Op
  BY DEF Op

\* Moving the copy loop's two indices keeps the type of the locals.
LEMMA OpReadWrite ==
  ASSUME NEW o \in Op, NEW r \in 0 .. IdxNum, NEW w \in 0 .. IdxNum
  PROVE  [o EXCEPT !.r = r, !.w = w] \in Op
  BY DEF Op

\* Recording a failed checksum keeps the type of the locals.
LEMMA OpFail == ASSUME NEW o \in Op PROVE [o EXCEPT !.ok = FALSE] \in Op
  BY DEF Op

\* Writing one entry keeps the types, changes that entry only, and keeps
\* EntryInv when the entry satisfies it.
LEMMA EntryWrite ==
  ASSUME TypeOK, EntryInv, NEW s \in Sect, NEW k \in Idx, NEW e \in Entry,
         e.st # "idle" => e.id \in Items, e.st = "valid" => e.val \in Vals,
         idx' = [idx EXCEPT ![s][k] = e]
  PROVE  /\ idx' \in [Sect -> [Idx -> Entry]]
         /\ \A t \in Sect, j \in Idx :
              idx'[t][j] = IF t = s /\ j = k THEN e ELSE idx[t][j]
         /\ EntryInv'
         /\ e.st # "idle" => \A t \in Sect, j \in Idx :
              idx[t][j].st # "idle" => idx'[t][j].st # "idle"
<1>1. /\ idx' \in [Sect -> [Idx -> Entry]]
      /\ \A t \in Sect, j \in Idx :
           idx'[t][j] = IF t = s /\ j = k THEN e ELSE idx[t][j]
  BY DEF TypeOK
<1>2. ASSUME NEW t \in Sect, NEW j \in Idx
      PROVE  /\ idx'[t][j].st # "idle" => idx'[t][j].id \in Items
             /\ idx'[t][j].st = "valid" => idx'[t][j].val \in Vals
  <2>1. CASE t = s /\ j = k
    BY <1>1, <2>1
  <2>2. CASE ~(t = s /\ j = k)
    BY <1>1, <2>2 DEF EntryInv
  <2> QED
    BY <2>1, <2>2
<1> QED
  BY <1>1, <1>2 DEF EntryInv

\* flash_erase of a sector keeps the types and EntryInv, and leaves the other
\* sector alone.
LEMMA SectorErase ==
  ASSUME TypeOK, EntryInv, NEW s \in Sect, idx' = [idx EXCEPT ![s] = ErasedIdx]
  PROVE  idx' \in [Sect -> [Idx -> Entry]] /\ EntryInv'
<1>1. /\ idx' \in [Sect -> [Idx -> Entry]]
      /\ \A t \in Sect, j \in Idx :
           idx'[t][j] = IF t = s THEN IdleEntry ELSE idx[t][j]
  BY Constants DEF TypeOK, ErasedIdx
<1>2. ASSUME NEW t \in Sect, NEW j \in Idx
      PROVE  /\ idx'[t][j].st # "idle" => idx'[t][j].id \in Items
             /\ idx'[t][j].st = "valid" => idx'[t][j].val \in Vals
  BY <1>1 DEF EntryInv, IdleEntry
<1> QED
  BY <1>1, <1>2 DEF EntryInv

\* The payloads a reader may be given stay payloads when a write returns.
LEMMA ReturnTypes ==
  ASSUME TypeOK, op.item \in Items, NEW out \in SUBSET (Vals \cup {Nil}), Return(out)
  PROVE  /\ pc' = "idle" /\ locked' = TRUE /\ op' \in Op
         /\ allowed' \in [Items -> SUBSET (Vals \cup {Nil})]
  BY Constants DEF TypeOK, Return

\* The offset of the next item is a number when the entry before is in use.
LEMMA OffsetType ==
  ASSUME TypeOK, EntryInv, NEW s \in Sect, NEW w \in Idx,
         w > 0 => idx[s][w - 1].st # "idle"
  PROVE  NextOff(idx[s], w) \in Nat
<1>1. CASE w = 0
  BY <1>1 DEF NextOff
<1>2. CASE w > 0
  <2>1. w - 1 \in Idx
    BY <1>2, ConstAssumption
  <2>2. idx[s][w - 1] \in Entry /\ idx[s][w - 1].id \in Items
    BY <1>2, <2>1 DEF TypeOK, EntryInv
  <2>3. idx[s][w - 1].off \in Nat /\ Len[idx[s][w - 1].id] \in Nat
    BY <2>2, ConstAssumption DEF Entry
  <2>4. EndOf(idx[s][w - 1]) \in Nat
    BY <2>3 DEF EndOf
  <2>5. ASSUME NEW n \in Nat PROVE AlignUp(n) \in Nat
    <3>1. (n + Align - 1) \div Align \in Nat
      BY ConstAssumption
    <3> QED
      BY <3>1, ConstAssumption DEF AlignUp
  <2> QED
    BY <1>2, <2>4, <2>5 DEF NextOff
<1> QED
  BY <1>1, <1>2, ConstAssumption

---------------------------------------------------------------------------
(* Type correctness, action by action *)

\* The erased flash at first power-on satisfies the type invariant.
LEMMA InitTInv == Init => TInv
<1> SUFFICES ASSUME Init PROVE TInv
  OBVIOUS
<1>1. /\ hdr \in [Sect -> {"idle", "valid", "invalid"}] /\ idx \in [Sect -> [Idx -> Entry]]
      /\ pc \in PCs /\ op \in Op /\ crashes \in Nat
  BY Constants DEF Init, PCs
<1>2. allowed \in [Items -> SUBSET (Vals \cup {Nil})]
  BY DEF Init
<1>3. locked \in BOOLEAN /\ orphan \in BOOLEAN
  BY Zenon DEF Init
<1>4. TypeOK
  BY <1>1, <1>2, <1>3, Zenon DEF TypeOK
<1>5. EntryInv /\ OpInv /\ SlotInv /\ DelInv
  BY DEF Init, EntryInv, OpInv, SlotInv, DelInv, ErasedIdx, IdleEntry
<1> QED
  BY <1>4, <1>5 DEF TInv

\* Starting a write: the flash is only read.
LEMMA StartTInv ==
  ASSUME TInv, NEW c \in Writes, WriteStart(c[1], c[2], c[3])
  PROVE  TInv'
<1> DEFINE i == c[1]  v == c[2]  single == c[3]  s == WriteSect
           old == IF single THEN DelIdx(idx[s], i) ELSE NoIdx
           job(t, w, upd, del) ==
             [item |-> i, val |-> v, single |-> single, sect |-> t, w |-> w,
              r |-> 0, upd |-> upd, del |-> del, ok |-> TRUE]
<1>1. i \in Items /\ v \in Vals /\ single \in BOOLEAN
  BY ConstAssumption
<1>2. s \in Sect /\ 1 - s \in Sect
  BY DEF WriteSect
<1>3. old \in Idx \cup {NoIdx} /\ (old # NoIdx => idx[s][old].st # "idle")
  <2>1. /\ DelIdx(idx[s], i) \in Idx \cup {NoIdx}
        /\ DelIdx(idx[s], i) # NoIdx => idx[s][DelIdx(idx[s], i)].st # "idle"
    BY DEF DelIdx, Newest
  <2> QED
    BY <2>1
<1>4. ASSUME NEW t \in Sect, NEW w \in 0 .. IdxNum, NEW upd \in BOOLEAN,
             NEW del \in Idx \cup {NoIdx}
      PROVE  job(t, w, upd, del) \in Op
  <2> HIDE DEF i, v, single
  <2> QED
    BY <1>1, <1>4, ConstAssumption DEF Op
<1>5. /\ hdr' = hdr /\ idx' = idx /\ crashes' = crashes /\ orphan' = orphan
      /\ locked' = FALSE /\ allowed' = [allowed EXCEPT ![i] = @ \cup {v}]
  BY DEF WriteStart
<1>6. \/ pc' = "index" /\ op' = job(s, 0, FALSE, old)
      \/ pc' = "erase" /\ op' = job(1 - s, 0, TRUE, NoIdx)
      \/ \E k \in Idx : /\ k # IdxNum - 1 /\ idx[s][k].st # "idle"
                        /\ pc' = "index" /\ op' = job(s, k + 1, FALSE, old)
  BY DEF WriteStart, LastUsed
<1>7. /\ op' \in Op /\ pc' \in {"index", "erase"}
      /\ op'.item \in Items /\ op'.val \in Vals
      /\ pc' = "erase" => op'.upd /\ op'.w = 0 /\ op'.r = 0 /\ op'.del = NoIdx
      /\ op'.del # NoIdx => idx[op'.sect][op'.del].st # "idle"
      /\ pc' = "index" => /\ op'.w < IdxNum
                          /\ op'.w > 0 => idx[op'.sect][op'.w - 1].st # "idle"
  <2> HIDE DEF i, v, single, s, old
  <2>0. job(s, 0, FALSE, old) \in Op /\ job(1 - s, 0, TRUE, NoIdx) \in Op
    <3>1. 0 \in 0 .. IdxNum
      BY ConstAssumption
    <3> HIDE DEF job
    <3> QED
      BY <3>1, <1>2, <1>3, <1>4, Zenon
  <2>1. CASE pc' = "index" /\ op' = job(s, 0, FALSE, old)
    <3>1. op' \in Op
      BY <2>0, <2>1
    <3>2. op'.item = i /\ op'.val = v /\ op'.w = 0 /\ op'.del = old /\ op'.sect = s
      BY <2>1
    <3> QED
      BY <3>1, <3>2, <2>1, <1>1, <1>3, ConstAssumption
  <2>2. CASE pc' = "erase" /\ op' = job(1 - s, 0, TRUE, NoIdx)
    <3>1. op' \in Op
      BY <2>0, <2>2
    <3>2. op'.item = i /\ op'.val = v /\ op'.w = 0 /\ op'.r = 0 /\ op'.del = NoIdx
      BY <2>2
    <3>3. op'.upd
      BY <2>2, Zenon
    <3> QED
      BY <3>1, <3>2, <3>3, <2>2, <1>1
  <2>3. ASSUME NEW k \in Idx, k # IdxNum - 1, idx[s][k].st # "idle",
               pc' = "index", op' = job(s, k + 1, FALSE, old)
        PROVE  /\ op' \in Op /\ op'.item \in Items /\ op'.val \in Vals
               /\ op'.w < IdxNum
               /\ op'.w > 0 => idx[op'.sect][op'.w - 1].st # "idle"
               /\ op'.del # NoIdx => idx[op'.sect][op'.del].st # "idle"
    <3>1. k + 1 \in 0 .. IdxNum /\ k + 1 < IdxNum /\ (k + 1) - 1 = k
      BY <2>3, ConstAssumption
    <3>2. op' \in Op
      BY <2>3, <3>1, <1>2, <1>3, <1>4
    <3> QED
      BY <3>1, <3>2, <2>3, <1>1, <1>3
  <2>4. CASE \E k \in Idx : /\ k # IdxNum - 1 /\ idx[s][k].st # "idle"
                            /\ pc' = "index" /\ op' = job(s, k + 1, FALSE, old)
    <3>1. PICK k \in Idx : /\ k # IdxNum - 1 /\ idx[s][k].st # "idle"
                           /\ pc' = "index" /\ op' = job(s, k + 1, FALSE, old)
      BY <2>4
    <3> HIDE DEF job
    <3> QED
      BY <2>3, <3>1
  <2> QED
    BY <1>6, <2>1, <2>2, <2>4
<1>8. TypeOK'
  <2>1. allowed' \in [Items -> SUBSET (Vals \cup {Nil})]
    <3> HIDE DEF i, v
    <3> QED
      BY <1>1, <1>5 DEF TInv, TypeOK
  <2>2. pc' \in PCs
    BY <1>7 DEF PCs
  <2>3. locked' \in BOOLEAN
    BY <1>5, Zenon
  <2> QED
    BY <1>5, <1>7, <2>1, <2>2, <2>3, Zenon DEF TInv, TypeOK
<1>9. EntryInv'
  BY <1>5 DEF TInv, EntryInv
<1>10. OpInv'
  BY <1>7 DEF OpInv
<1>11. SlotInv' /\ DelInv'
  BY <1>5, <1>7 DEF SlotInv, DelInv
<1> QED
  BY <1>8, <1>9, <1>10, <1>11 DEF TInv

\* Facts about the running write that the steps below share.
LEMMA Running1 ==
  ASSUME TInv, pc \in Copying \cup Writing
  PROVE  /\ op \in Op /\ op.sect \in Sect /\ 1 - op.sect \in Sect
         /\ op.w \in 0 .. IdxNum /\ op.r \in 0 .. IdxNum
         /\ op.item \in Items /\ op.val \in Vals /\ allowed[op.item] \in SUBSET (Vals \cup {Nil})
         /\ pc \in Writing \cup {"copyData", "copyValid"} => op.w \in Idx
         /\ pc \in {"copyData", "copyValid"} => op.r \in Idx
<1>1. /\ op \in Op /\ op.sect \in Sect /\ 1 - op.sect \in Sect
      /\ op.w \in 0 .. IdxNum /\ op.r \in 0 .. IdxNum
  BY DEF TInv, TypeOK, Op
<1>2. op.item \in Items /\ op.val \in Vals
  BY DEF TInv, OpInv
<1>3. allowed[op.item] \in SUBSET (Vals \cup {Nil})
  BY <1>2 DEF TInv, TypeOK
<1> QED
  BY <1>1, <1>2, <1>3, ConstAssumption DEF TInv, OpInv

\* A step that ends the write.
LEMMA ReturnTInv ==
  ASSUME TInv, pc \in Copying \cup Writing, NEW out \in SUBSET (Vals \cup {Nil}),
         Return(out), hdr' = hdr, idx' = idx, crashes' = crashes, orphan' \in BOOLEAN
  PROVE  TInv'
<1>1. /\ pc' = "idle" /\ locked' = TRUE /\ op' \in Op
      /\ allowed' \in [Items -> SUBSET (Vals \cup {Nil})]
  BY Running1, ReturnTypes DEF TInv
<1>2. locked' \in BOOLEAN /\ pc' \in PCs
  BY <1>1, Zenon DEF PCs
<1>3. TypeOK'
  BY <1>1, <1>2, Zenon DEF TInv, TypeOK
<1>4. EntryInv' /\ OpInv' /\ SlotInv' /\ DelInv'
  BY <1>1 DEF TInv, EntryInv, OpInv, SlotInv, DelInv
<1> QED
  BY <1>3, <1>4 DEF TInv

\* The sector update of nv_flashWriteNew, its erase and its copy loop, keeps
\* the type invariant.
LEMMA CopyTInv ==
  ASSUME TInv,
         EraseNew \/ CopySkip \/ CopyIndex \/ CopyData \/ CopyNoBuffer \/ CopyValid \/ CopyDone
  PROVE  TInv'
<1> DEFINE s == op.sect  w == op.w  r == op.r
<1>0. /\ TypeOK /\ EntryInv /\ OpInv /\ SlotInv /\ pc \in Copying
      /\ crashes' = crashes /\ orphan' = orphan
  BY DEF TInv, EraseNew, CopySkip, CopyIndex, CopyData, CopyNoBuffer, CopyValid, CopyDone
<1>1. /\ op \in Op /\ s \in Sect /\ 1 - s \in Sect /\ w \in 0 .. IdxNum /\ r \in 0 .. IdxNum
      /\ op.item \in Items /\ allowed[op.item] \in SUBSET (Vals \cup {Nil})
      /\ pc \in {"copyData", "copyValid"} => w \in Idx /\ r \in Idx
  BY <1>0, Running1
<1>2. CASE EraseNew
  <2>1. idx' \in [Sect -> [Idx -> Entry]] /\ EntryInv'
    BY <1>0, <1>1, <1>2, SectorErase DEF EraseNew
  <2>2. /\ hdr' \in [Sect -> {"idle", "valid", "invalid"}] /\ pc' \in PCs
    BY <1>0, <1>2 DEF EraseNew, TypeOK, PCs
  <2>3. TypeOK'
    BY <1>0, <1>2, <2>1, <2>2, Zenon DEF EraseNew, TypeOK
  <2>4. OpInv' /\ SlotInv' /\ DelInv'
    BY <1>0, <1>2 DEF EraseNew, OpInv, SlotInv, DelInv
  <2> QED
    BY <2>1, <2>3, <2>4 DEF TInv
<1>3. CASE CopySkip
  <2>1. r + 1 \in 0 .. IdxNum /\ op' = [op EXCEPT !.r = r + 1]
    BY <1>1, <1>3, ConstAssumption DEF CopySkip
  <2>2. op' \in Op /\ op'.r = r + 1
    BY <1>1, <2>1, OpRead DEF Op
  <2>3. op'.w = w /\ op'.sect = s /\ op'.item = op.item /\ op'.val = op.val /\ op'.del = op.del
    BY <1>1, <2>1 DEF Op
  <2>4. op'.upd = op.upd
    BY <1>1, <2>1 DEF Op
  <2>5. TypeOK'
    BY <1>0, <1>3, <2>2, Zenon DEF CopySkip, TypeOK
  <2>6. EntryInv' /\ SlotInv' /\ DelInv'
    BY <1>0, <1>3, <2>3 DEF CopySkip, EntryInv, SlotInv, DelInv
  <2>7. OpInv'
    BY <1>0, <1>1, <1>3, <2>2, <2>3, <2>4 DEF CopySkip, OpInv
  <2> QED
    BY <2>5, <2>6, <2>7 DEF TInv
<1>4. CASE CopyIndex
  <2> DEFINE e == [st |-> "oper", id |-> idx[1 - s][r].id, off |-> NextOff(idx[s], w),
                   hd |-> FALSE, val |-> Nil]
  <2>1. w \in Idx /\ r \in Idx /\ idx[1 - s][r].st = "valid"
    BY <1>0, <1>1, <1>4, ConstAssumption DEF CopyIndex, Carried, OldSect, OpInv
  <2>2. idx[1 - s][r].id \in Items
    BY <1>0, <1>1, <2>1 DEF EntryInv
  <2>3. NextOff(idx[s], w) \in Nat
    BY <1>0, <1>1, <1>4, <2>1, OffsetType DEF CopyIndex, SlotInv
  <2>4. e \in Entry /\ e.st = "oper" /\ e.id \in Items
    BY <2>2, <2>3 DEF Entry
  <2>5. idx' = [idx EXCEPT ![s][w] = e]
    BY <1>4 DEF CopyIndex, OldSect
  <2>6. /\ idx' \in [Sect -> [Idx -> Entry]] /\ EntryInv'
        /\ \A t \in Sect, j \in Idx : idx'[t][j] = IF t = s /\ j = w THEN e ELSE idx[t][j]
    <3> HIDE DEF e
    <3> QED
      BY <1>0, <1>1, <2>1, <2>4, <2>5, EntryWrite
  <2>7. idx'[s][w].st = "oper" /\ idx'[1 - s][r].st = "valid"
    <3>1. 1 - s # s
      BY <1>1
    <3> HIDE DEF e
    <3> QED
      BY <1>1, <2>1, <2>4, <2>6, <3>1
  <2>8. TypeOK'
    <3>1. pc' \in PCs /\ locked' \in BOOLEAN
      BY <1>4, Zenon DEF CopyIndex, PCs
    <3> QED
      BY <1>0, <1>4, <2>6, <3>1, Zenon DEF CopyIndex, TypeOK
  <2>9. OpInv'
    BY <1>0, <1>1, <1>4, <2>1 DEF CopyIndex, OpInv
  <2>10. SlotInv' /\ DelInv'
    BY <1>0, <1>4, <2>7 DEF CopyIndex, SlotInv, DelInv
  <2> QED
    BY <2>6, <2>8, <2>9, <2>10 DEF TInv
<1>5. CASE CopyData
  <2> DEFINE e == [idx[s][w] EXCEPT !.hd = idx[1 - s][r].hd, !.val = idx[1 - s][r].val]
  <2>1. w \in Idx /\ r \in Idx /\ idx[1 - s][r].st = "valid" /\ idx[s][w].st = "oper"
    BY <1>0, <1>1, <1>5 DEF CopyData, SlotInv
  <2>2. /\ idx[1 - s][r] \in Entry /\ idx[s][w] \in Entry
        /\ idx[1 - s][r].val \in Vals /\ idx[s][w].id \in Items
    BY <1>0, <1>1, <2>1 DEF EntryInv, TypeOK
  <2>3. idx[1 - s][r].hd \in BOOLEAN
    BY <2>2 DEF Entry
  <2>4. e \in Entry /\ e.st = "oper" /\ e.id \in Items /\ e.val \in Vals
    BY <2>1, <2>2, <2>3 DEF Entry
  <2>5. idx' = [idx EXCEPT ![s][w] = e]
    <3>1. idx' = [idx EXCEPT ![s][w].hd = idx[1 - s][r].hd, ![s][w].val = idx[1 - s][r].val]
      BY <1>5 DEF CopyData, OldSect
    <3> QED
      BY <1>0, <1>1, <2>1, <2>2, <3>1 DEF TypeOK, Entry
  <2>6. /\ idx' \in [Sect -> [Idx -> Entry]] /\ EntryInv'
        /\ \A t \in Sect, j \in Idx : idx'[t][j] = IF t = s /\ j = w THEN e ELSE idx[t][j]
    <3> HIDE DEF e
    <3> QED
      BY <1>0, <1>1, <2>1, <2>4, <2>5, EntryWrite
  <2>7. idx'[s][w].st = "oper" /\ idx'[s][w].val \in Vals
    <3> HIDE DEF e
    <3> QED
      BY <1>1, <2>1, <2>4, <2>6
  <2>8. TypeOK'
    <3>1. pc' \in PCs
      BY <1>5 DEF CopyData, PCs
    <3> QED
      BY <1>0, <1>5, <2>6, <3>1, Zenon DEF CopyData, TypeOK
  <2>9. OpInv'
    BY <1>0, <1>1, <1>5, <2>1 DEF CopyData, OpInv
  <2>10. SlotInv' /\ DelInv'
    BY <1>5, <2>7 DEF CopyData, SlotInv, DelInv
  <2> QED
    BY <2>6, <2>8, <2>9, <2>10 DEF TInv
<1>6. CASE CopyNoBuffer
  <2>1. Return(allowed[op.item]) /\ hdr' = hdr /\ idx' = idx /\ orphan' \in BOOLEAN
    BY <1>0, <1>6 DEF CopyNoBuffer, TypeOK
  <2> QED
    BY <1>0, <1>1, <2>1, ReturnTInv
<1>7. CASE CopyValid
  <2> DEFINE e == [idx[s][w] EXCEPT !.st = "valid"]
  <2>1. /\ w \in Idx /\ r \in Idx /\ idx[s][w].st = "oper" /\ idx[s][w].val \in Vals
        /\ idx[s][w] \in Entry /\ idx[s][w].id \in Items
    BY <1>0, <1>1, <1>7 DEF CopyValid, SlotInv, EntryInv, TypeOK
  <2>2. e \in Entry /\ e.st = "valid" /\ e.id \in Items /\ e.val \in Vals
    BY <2>1 DEF Entry
  <2>3. idx' = [idx EXCEPT ![s][w] = e]
    BY <1>7 DEF CopyValid
  <2>4. /\ idx' \in [Sect -> [Idx -> Entry]] /\ EntryInv'
        /\ \A t \in Sect, j \in Idx : idx'[t][j] = IF t = s /\ j = w THEN e ELSE idx[t][j]
    <3> HIDE DEF e
    <3> QED
      BY <1>0, <1>1, <2>1, <2>2, <2>3, EntryWrite
  <2>5. idx'[s][w].st = "valid"
    <3> HIDE DEF e
    <3> QED
      BY <1>1, <2>1, <2>2, <2>4
  <2>6. /\ r + 1 \in 0 .. IdxNum /\ w + 1 \in 0 .. IdxNum
        /\ op' = [op EXCEPT !.r = r + 1, !.w = w + 1]
    BY <2>1, <1>7, ConstAssumption DEF CopyValid
  <2>7. op' \in Op /\ op'.r = r + 1 /\ op'.w = w + 1
    BY <1>1, <2>6, OpReadWrite DEF Op
  <2>8. op'.sect = s /\ op'.item = op.item /\ op'.val = op.val /\ op'.del = op.del
    BY <1>1, <2>6 DEF Op
  <2>9. op'.upd = op.upd
    BY <1>1, <2>6 DEF Op
  <2>10. TypeOK'
    <3>1. pc' \in PCs /\ locked' \in BOOLEAN
      BY <1>7, Zenon DEF CopyValid, PCs
    <3> QED
      BY <1>0, <1>7, <2>4, <2>7, <3>1, Zenon DEF CopyValid, TypeOK
  <2>11. OpInv'
    BY <1>0, <1>1, <1>7, <2>7, <2>8, <2>9 DEF CopyValid, OpInv
  <2>12. SlotInv' /\ DelInv'
    <3>1. op'.w - 1 = w
      BY <2>1, <2>7
    <3> QED
      BY <1>7, <2>5, <2>8, <3>1 DEF CopyValid, SlotInv, DelInv
  <2> QED
    BY <2>4, <2>10, <2>11, <2>12 DEF TInv
<1>8. CASE CopyDone
  <2>1. CASE SectorFull
    <3>1. Return(allowed[op.item]) /\ hdr' = hdr /\ idx' = idx /\ orphan' \in BOOLEAN
      BY <1>0, <1>8, <2>1 DEF CopyDone, TypeOK
    <3> QED
      BY <1>0, <1>1, <3>1, ReturnTInv
  <2>2. CASE ~SectorFull
    <3>1. /\ pc = "copy" /\ pc' = "index" /\ op.w # IdxNum
          /\ UNCHANGED <<hdr, idx, locked, op, allowed>>
      BY <1>8, <2>2 DEF CopyDone, SectorFull
    <3>2. TypeOK'
      <4>1. pc' \in PCs
        BY <3>1 DEF PCs
      <4> QED
        BY <1>0, <3>1, <4>1, Zenon DEF TypeOK
    <3>3. OpInv'
      BY <1>0, <1>1, <3>1, ConstAssumption DEF OpInv
    <3>4. EntryInv' /\ SlotInv' /\ DelInv'
      BY <1>0, <3>1 DEF EntryInv, SlotInv, DelInv, OpInv
    <3> QED
      BY <3>2, <3>3, <3>4 DEF TInv
  <2> QED
    BY <2>1, <2>2
<1> QED
  BY <1>2, <1>3, <1>4, <1>5, <1>6, <1>7, <1>8

\* nv_write_item and what nv_flashWriteNew does after it keep the type
\* invariant.
LEMMA WriteTInv ==
  ASSUME TInv,
         \/ WriteIndex \/ WritePayload \/ WriteItemHeader \/ Validate
         \/ DeleteOld \/ InvalidateOldHeader \/ ValidateNewHeader \/ WriteReturn
  PROVE  TInv'
<1> DEFINE s == op.sect  w == op.w
           Kept == \A t \in Sect, j \in Idx : idx[t][j].st # "idle" => idx'[t][j].st # "idle"
<1>0. DelInv /\ TypeOK /\ EntryInv /\ OpInv /\ SlotInv /\ pc \in Writing /\ crashes' = crashes
  BY DEF TInv, WriteIndex, WritePayload, WriteItemHeader, Validate, DeleteOld,
         InvalidateOldHeader, ValidateNewHeader, WriteReturn
<1>1. /\ op \in Op /\ s \in Sect /\ 1 - s \in Sect /\ w \in Idx
      /\ op.item \in Items /\ op.val \in Vals /\ allowed[op.item] \in SUBSET (Vals \cup {Nil})
      /\ idx[s][w] \in Entry
  BY <1>0, Running1 DEF TypeOK
\* Where the write goes on after the item.
<1>2. /\ HeaderStep \in {"oldHeader", "newHeader", "return"}
      /\ \A ok \in BOOLEAN : /\ AfterItem(ok) \in {"delete", "oldHeader", "newHeader", "return"}
                             /\ AfterItem(ok) = "delete" => op.del # NoIdx
  <2>1. HeaderStep \in {"oldHeader", "newHeader", "return"}
    BY DEF HeaderStep
  <2> QED
    BY <2>1 DEF AfterItem
<1>10. ASSUME Kept, op' = op PROVE DelInv'
  <2>1. op.del \in Idx \cup {NoIdx}
    BY <1>1 DEF Op
  <2> QED
    BY <1>0, <1>1, <1>10, <2>1 DEF DelInv
<1>3. CASE WriteIndex
  <2> DEFINE e == [st |-> "oper", id |-> op.item, off |-> NextOff(idx[s], w),
                   hd |-> FALSE, val |-> Nil]
  <2>1. NextOff(idx[s], w) \in Nat
    BY <1>0, <1>1, <1>3, OffsetType DEF WriteIndex, SlotInv
  <2>2. e \in Entry /\ e.st = "oper" /\ e.id \in Items
    BY <1>1, <2>1 DEF Entry
  <2>3. idx' = [idx EXCEPT ![s][w] = e]
    BY <1>3 DEF WriteIndex
  <2>4. /\ idx' \in [Sect -> [Idx -> Entry]] /\ EntryInv' /\ Kept
        /\ \A t \in Sect, j \in Idx : idx'[t][j] = IF t = s /\ j = w THEN e ELSE idx[t][j]
    <3> HIDE DEF e
    <3> QED
      BY <1>0, <1>1, <2>2, <2>3, EntryWrite
  <2>5. idx'[s][w].st = "oper"
    <3> HIDE DEF e
    <3> QED
      BY <1>1, <2>2, <2>4
  <2>6. TypeOK'
    <3>1. pc' \in PCs /\ locked' \in BOOLEAN
      BY <1>3, Zenon DEF WriteIndex, PCs
    <3> QED
      BY <1>0, <1>3, <2>4, <3>1, Zenon DEF WriteIndex, TypeOK
  <2>7. OpInv' /\ SlotInv'
    BY <1>0, <1>3, <2>5 DEF WriteIndex, OpInv, SlotInv
  <2>8. op' = op
    BY <1>3 DEF WriteIndex
  <2> QED
    BY <1>10, <2>4, <2>6, <2>7, <2>8 DEF TInv
<1>4. CASE WritePayload
  <2>1. PICK v \in {op.val} \cup (IF Faults THEN {Bad} ELSE {}) :
          idx' = [idx EXCEPT ![s][w].val = v]
    BY <1>4 DEF WritePayload
  <2> DEFINE e == [idx[s][w] EXCEPT !.val = v]
  <2>2. idx[s][w].st = "oper" /\ idx[s][w].id \in Items /\ v \in Vals \cup {Nil, Bad}
    BY <1>0, <1>1, <1>4, <2>1 DEF WritePayload, SlotInv, EntryInv
  <2>3. e \in Entry /\ e.st = "oper" /\ e.id \in Items
    BY <1>1, <2>2 DEF Entry
  <2>4. idx' = [idx EXCEPT ![s][w] = e]
    BY <2>1
  <2>5. /\ idx' \in [Sect -> [Idx -> Entry]] /\ EntryInv' /\ Kept
        /\ \A t \in Sect, j \in Idx : idx'[t][j] = IF t = s /\ j = w THEN e ELSE idx[t][j]
    <3> HIDE DEF e
    <3> QED
      BY <1>0, <1>1, <2>3, <2>4, EntryWrite
  <2>6. idx'[s][w].st = "oper"
    <3> HIDE DEF e
    <3> QED
      BY <1>1, <2>3, <2>5
  <2>7. TypeOK'
    <3>1. pc' \in PCs
      BY <1>4 DEF WritePayload, PCs
    <3> QED
      BY <1>0, <1>4, <2>5, <3>1, Zenon DEF WritePayload, TypeOK
  <2>8. OpInv' /\ SlotInv'
    BY <1>0, <1>4, <2>6 DEF WritePayload, OpInv, SlotInv
  <2>9. op' = op
    BY <1>4 DEF WritePayload
  <2> QED
    BY <1>10, <2>5, <2>7, <2>8, <2>9 DEF TInv
<1>5. CASE WriteItemHeader
  <2>0. /\ pc = "header" /\ hdr' = hdr /\ allowed' = allowed /\ orphan' = orphan
        /\ idx[s][w].st = "oper" /\ idx[s][w].id \in Items
    BY <1>0, <1>1, <1>5 DEF WriteItemHeader, SlotInv, EntryInv
  <2>1. CASE idx[s][w].val = op.val
    <3> DEFINE e == [idx[s][w] EXCEPT !.hd = TRUE]
    <3>1. e \in Entry
      BY <1>1 DEF Entry
    <3>2. e.st = "oper" /\ e.id \in Items /\ e.val = op.val
      BY <1>1, <2>0, <2>1 DEF Entry
    <3>3. /\ idx' = [idx EXCEPT ![s][w] = e] /\ pc' = "validate"
          /\ locked' = locked /\ op' = op
      BY <1>5, <2>1 DEF WriteItemHeader
    <3>4. /\ idx' \in [Sect -> [Idx -> Entry]] /\ EntryInv' /\ Kept
          /\ \A t \in Sect, j \in Idx : idx'[t][j] = IF t = s /\ j = w THEN e ELSE idx[t][j]
      <4> HIDE DEF e
      <4> QED
        BY <1>0, <1>1, <3>1, <3>2, <3>3, EntryWrite
    <3>5. idx'[s][w].st = "oper" /\ idx'[s][w].val = op.val
      <4> HIDE DEF e
      <4> QED
        BY <1>1, <3>2, <3>4
    <3>6. TypeOK'
      <4>1. pc' \in PCs
        BY <3>3 DEF PCs
      <4> QED
        BY <1>0, <2>0, <3>3, <3>4, <4>1, Zenon DEF TypeOK
    <3>7. OpInv' /\ SlotInv'
      BY <1>0, <3>3, <3>5 DEF OpInv, SlotInv
    <3> QED
      BY <1>10, <3>3, <3>4, <3>6, <3>7 DEF TInv
  <2>2. CASE idx[s][w].val # op.val
    <3>1. /\ locked' = TRUE /\ op' = [op EXCEPT !.ok = FALSE]
          /\ pc' = AfterItem(FALSE) /\ idx' = idx
      BY <1>5, <2>2 DEF WriteItemHeader
    <3>2. op' \in Op
      BY <1>1, <3>1, OpFail
    <3>3. /\ op'.item = op.item /\ op'.val = op.val /\ op'.w = op.w
          /\ op'.del = op.del /\ op'.sect = op.sect
      BY <1>1, <3>1 DEF Op
    <3>4. TypeOK'
      <4>1. pc' \in PCs
        BY <1>2, <3>1 DEF PCs
      <4>2. locked' \in BOOLEAN
        BY <3>1, Zenon
      <4> QED
        BY <1>0, <2>0, <3>1, <3>2, <4>1, <4>2, Zenon DEF TypeOK
    <3>5. EntryInv' /\ DelInv'
      BY <1>0, <1>1, <3>1, <3>3 DEF EntryInv, DelInv
    <3>6. OpInv' /\ SlotInv'
      BY <1>0, <1>1, <1>2, <3>1, <3>3 DEF OpInv, SlotInv
    <3> QED
      BY <3>4, <3>5, <3>6 DEF TInv
  <2> QED
    BY <2>1, <2>2
<1>6. CASE Validate
  <2> DEFINE e == [idx[s][w] EXCEPT !.st = "valid"]
  <2>1. idx[s][w].st = "oper" /\ idx[s][w].id \in Items /\ idx[s][w].val \in Vals
    BY <1>0, <1>1, <1>6 DEF Validate, SlotInv, EntryInv
  <2>2. e \in Entry /\ e.st = "valid" /\ e.id \in Items /\ e.val \in Vals
    BY <1>1, <2>1 DEF Entry
  <2>3. idx' = [idx EXCEPT ![s][w] = e]
    BY <1>6 DEF Validate
  <2>4. idx' \in [Sect -> [Idx -> Entry]] /\ EntryInv' /\ Kept
    <3> HIDE DEF e
    <3> QED
      BY <1>0, <1>1, <2>2, <2>3, EntryWrite
  <2>5. pc' \in {"delete", "oldHeader", "newHeader", "return"}
        /\ (pc' = "delete" => op.del # NoIdx)
    BY <1>2, <1>6 DEF Validate
  <2>6. TypeOK'
    <3>1. pc' \in PCs
      BY <2>5 DEF PCs
    <3>2. locked' \in BOOLEAN
      BY <1>6, Zenon DEF Validate
    <3> QED
      BY <1>0, <1>6, <2>4, <3>1, <3>2, Zenon DEF Validate, TypeOK
  <2>7. OpInv' /\ SlotInv'
    BY <1>0, <1>6, <2>5 DEF Validate, OpInv, SlotInv
  <2>8. op' = op
    BY <1>6 DEF Validate
  <2> QED
    BY <1>10, <2>4, <2>6, <2>7, <2>8 DEF TInv
<1>7. CASE DeleteOld
  <2>1. op.del \in Idx /\ idx[s][op.del].st # "idle"
    BY <1>0, <1>1, <1>7 DEF DeleteOld, OpInv, DelInv, Op
  <2>2. idx' \in [Sect -> [Idx -> Entry]] /\ EntryInv' /\ Kept
    <3> DEFINE e == [idx[s][op.del] EXCEPT !.st = "invalid"]
    <3>1. CASE Dropped
      BY <1>0, <1>7, <3>1 DEF DeleteOld, TypeOK, EntryInv
    <3>2. CASE ~Dropped
      <4>1. idx[s][op.del] \in Entry /\ idx[s][op.del].id \in Items
        BY <1>0, <1>1, <2>1, <3>2 DEF TypeOK, EntryInv
      <4>2. e \in Entry /\ e.st = "invalid" /\ e.id \in Items
        BY <4>1 DEF Entry
      <4>3. idx' = [idx EXCEPT ![s][op.del] = e]
        BY <1>7, <3>2 DEF DeleteOld
      <4> HIDE DEF e
      <4> QED
        BY <1>0, <1>1, <2>1, <4>2, <4>3, EntryWrite
    <3> QED
      BY <3>1, <3>2
  <2>3. pc' \in {"oldHeader", "newHeader", "return"}
    BY <1>2, <1>7 DEF DeleteOld
  <2>4. TypeOK'
    <3>1. pc' \in PCs
      BY <2>3 DEF PCs
    <3> QED
      BY <1>0, <1>7, <2>2, <3>1, Zenon DEF DeleteOld, TypeOK
  <2>5. OpInv' /\ SlotInv'
    BY <1>0, <1>7, <2>3 DEF DeleteOld, OpInv, SlotInv
  <2>6. op' = op
    BY <1>7 DEF DeleteOld
  <2> QED
    BY <1>10, <2>2, <2>4, <2>5, <2>6 DEF TInv
<1>8. CASE InvalidateOldHeader \/ ValidateNewHeader
  <2>1. pc' \in {"newHeader", "return"} /\ idx' = idx /\ op' = op
        /\ locked' = locked /\ allowed' = allowed
    BY <1>8 DEF InvalidateOldHeader, ValidateNewHeader
  <2>2. hdr' \in [Sect -> {"idle", "valid", "invalid"}]
    BY <1>0, <1>8 DEF InvalidateOldHeader, ValidateNewHeader, ProgramHdr, TypeOK
  <2>3. orphan' \in BOOLEAN
    <3>1. orphan' = orphan \/ orphan' = FALSE
      BY <1>8, Zenon DEF InvalidateOldHeader, ValidateNewHeader
    <3> QED
      BY <1>0, <3>1, Zenon DEF TypeOK
  <2>4. TypeOK'
    <3>1. pc' \in PCs
      BY <2>1 DEF PCs
    <3> QED
      BY <1>0, <2>1, <2>2, <2>3, <3>1, Zenon DEF TypeOK
  <2>5. EntryInv' /\ OpInv' /\ SlotInv' /\ DelInv'
    BY <1>0, <2>1 DEF EntryInv, OpInv, SlotInv, DelInv
  <2> QED
    BY <2>4, <2>5 DEF TInv
<1>9. CASE WriteReturn
  <2> DEFINE out == IF op.ok THEN {op.val} ELSE allowed[op.item]
  <2>1. out \in SUBSET (Vals \cup {Nil})
    BY <1>1
  <2>2. Return(out) /\ hdr' = hdr /\ idx' = idx /\ orphan' \in BOOLEAN
    <3>1. Return(out) /\ hdr' = hdr /\ idx' = idx
      BY <1>9 DEF WriteReturn
    <3>2. orphan' = (orphan \/ (~op.ok /\ ~op.upd /\ op.w = 0))
      BY <1>9 DEF WriteReturn
    <3>3. orphan' \in BOOLEAN
      BY <3>2, Zenon
    <3> QED
      BY <3>1, <3>3
  <2> QED
    BY <1>0, <2>1, <2>2, ReturnTInv
<1> QED
  BY <1>3, <1>4, <1>5, <1>6, <1>7, <1>8, <1>9

\* A step that leaves no write running needs no facts about one.
LEMMA NoWriteTInv ==
  ASSUME TypeOK', EntryInv', pc' \in {"idle", "reset0", "reset1"}
  PROVE  TInv'
  BY DEF TInv, OpInv, SlotInv, DelInv

\* nv_itemDeleteByIndex keeps the type invariant.
LEMMA DeleteTInv ==
  ASSUME TInv, NEW i \in Items, ItemDelete(i)
  PROVE  TInv'
<1>1. PICK s \in Sect, k \in Idx :
        /\ ValidSect(s) /\ Newest(idx[s], IdxNum, i, k)
        /\ idx' = [idx EXCEPT ![s][k].st = "invalid"]
        /\ allowed' = [allowed EXCEPT ![i] = {Nil} \cup
             {idx[s][j].val : j \in {m \in Idx \ {k} :
                idx[s][m].st = "valid" /\ idx[s][m].id = i}}]
  BY DEF ItemDelete
<1> DEFINE e == [idx[s][k] EXCEPT !.st = "invalid"]
<1>2. idx[s][k] \in Entry /\ idx[s][k].id \in Items
  BY <1>1 DEF TInv, TypeOK, EntryInv, Newest
<1>3. e \in Entry /\ e.st = "invalid" /\ e.id \in Items
  BY <1>2 DEF Entry
<1>4. idx' = [idx EXCEPT ![s][k] = e]
  BY <1>1
<1>5. idx' \in [Sect -> [Idx -> Entry]] /\ EntryInv'
  <2> HIDE DEF e
  <2> QED
    BY <1>3, <1>4, EntryWrite DEF TInv
<1>6. allowed' \in [Items -> SUBSET (Vals \cup {Nil})]
  <2> DEFINE older == {idx[s][j].val : j \in {m \in Idx \ {k} :
                         idx[s][m].st = "valid" /\ idx[s][m].id = i}}
  <2>1. older \subseteq Vals
    BY DEF TInv, EntryInv
  <2> HIDE DEF older
  <2>2. allowed' = [allowed EXCEPT ![i] = {Nil} \cup older]
    BY <1>1 DEF older
  <2> QED
    BY <2>1, <2>2 DEF TInv, TypeOK
<1>7. TypeOK'
  <2>1. locked' \in BOOLEAN
    BY Zenon DEF ItemDelete
  <2>2. hdr' = hdr /\ pc' = pc /\ op' = op /\ orphan' = orphan /\ crashes' = crashes
    BY DEF ItemDelete
  <2> QED
    BY <1>5, <1>6, <2>1, <2>2, Zenon DEF TInv, TypeOK
<1> QED
  BY <1>5, <1>7, NoWriteTInv DEF ItemDelete

\* nv_resetModule keeps the type invariant.
LEMMA ResetTInv ==
  ASSUME TInv, ResetStart \/ \E s \in Sect : ResetErase(s)
  PROVE  TInv'
<1>1. CASE ResetStart
  <2>1. allowed' \in [Items -> SUBSET (Vals \cup {Nil})] /\ pc' \in PCs /\ pc' = "reset0"
    BY <1>1 DEF ResetStart, TInv, TypeOK, PCs
  <2>2. locked' \in BOOLEAN
    BY <1>1, Zenon DEF ResetStart
  <2>3. TypeOK'
    BY <1>1, <2>1, <2>2, Zenon DEF ResetStart, TInv, TypeOK
  <2>4. EntryInv'
    BY <1>1 DEF ResetStart, TInv, EntryInv
  <2> QED
    BY <2>1, <2>3, <2>4, NoWriteTInv
<1>2. ASSUME NEW s \in Sect, ResetErase(s) PROVE TInv'
  <2>1. idx' \in [Sect -> [Idx -> Entry]] /\ EntryInv'
    BY <1>2, SectorErase DEF ResetErase, TInv
  <2>2. /\ hdr' \in [Sect -> {"idle", "valid", "invalid"}]
        /\ pc' \in {"idle", "reset1"} /\ pc' \in PCs /\ op' = op /\ crashes' = crashes
    BY <1>2 DEF ResetErase, TInv, TypeOK, PCs
  <2>3. allowed' \in [Items -> SUBSET (Vals \cup {Nil})]
    BY <1>2 DEF ResetErase, TInv, TypeOK
  <2>4. locked' \in BOOLEAN /\ orphan' \in BOOLEAN
    <3>1. /\ locked' = locked \/ locked' = TRUE
          /\ orphan' = orphan \/ orphan' = FALSE
      BY <1>2, Zenon DEF ResetErase
    <3> QED
      BY <3>1, Zenon DEF TInv, TypeOK
  <2>5. TypeOK'
    BY <2>1, <2>2, <2>3, <2>4, Zenon DEF TInv, TypeOK
  <2> QED
    BY <2>1, <2>2, <2>5, NoWriteTInv
<1> QED
  BY <1>1, <1>2

\* A power failure at any step keeps the type invariant.
LEMMA CrashTInv ==
  ASSUME TInv, Crash
  PROVE  TInv'
<1>1. /\ pc' = "idle" /\ pc' \in PCs /\ op' \in Op /\ crashes' \in Nat
      /\ hdr' = hdr /\ idx' = idx /\ allowed' = allowed
  BY Constants DEF Crash, TInv, TypeOK, PCs
<1>2. locked' \in BOOLEAN /\ orphan' \in BOOLEAN
  BY Zenon DEF Crash
<1>3. TypeOK'
  BY <1>1, <1>2, Zenon DEF TInv, TypeOK
<1>4. EntryInv'
  BY <1>1 DEF TInv, EntryInv
<1> QED
  BY <1>1, <1>3, <1>4, NoWriteTInv

\* Every step of drv_nv.c keeps the type invariant.
LEMMA StepTInv == TInv /\ [Next]_vars => TInv'
<1> SUFFICES ASSUME TInv, [Next]_vars PROVE TInv'
  OBVIOUS
<1>1. CASE \E c \in Writes : WriteStart(c[1], c[2], c[3])
  BY <1>1, StartTInv
<1>2. CASE \/ EraseNew
           \/ CopySkip \/ CopyIndex \/ CopyData \/ CopyNoBuffer \/ CopyValid \/ CopyDone
  BY <1>2, CopyTInv
<1>3. CASE \/ WriteIndex \/ WritePayload \/ WriteItemHeader \/ Validate
           \/ DeleteOld \/ InvalidateOldHeader \/ ValidateNewHeader \/ WriteReturn
  BY <1>3, WriteTInv
<1>4. CASE \E i \in Items : ItemDelete(i)
  BY <1>4, DeleteTInv
<1>5. CASE ResetStart \/ \E s \in Sect : ResetErase(s)
  BY <1>5, ResetTInv
<1>6. CASE Crash
  BY <1>6, CrashTInv
<1>7. CASE UNCHANGED vars
  BY <1>7 DEF vars, TInv, TypeOK, EntryInv, OpInv, SlotInv, DelInv
<1> QED
  BY <1>1, <1>2, <1>3, <1>4, <1>5, <1>6, <1>7 DEF Next

\* The strengthened type invariant holds in every reachable state: the locals
\* of nv_flashWriteNew always point at entries in the state the code expects.
THEOREM InductiveTypes == Spec => []TInv
  BY InitTInv, StepTInv, PTL DEF Spec

\* The state keeps its types through every write, sector update, delete, reset
\* and power failure of drv_nv.c: no index runs past the table, no offset is
\* computed from an entry that is not in use.
THEOREM TypeCorrect == Spec => []TypeOK
<1>1. TInv => TypeOK
  BY DEF TInv
<1> QED
  BY <1>1, InductiveTypes, PTL

---------------------------------------------------------------------------
(* One valid sector, action by action *)

\* Every step of drv_nv.c keeps at most one sector header valid, given the
\* order in which nv_flashWriteNew writes the two headers.
LEMMA StepHInv == TInv /\ HInv /\ [Next]_vars => HInv'
<1> SUFFICES ASSUME TInv, HInv, [Next]_vars PROVE HInv'
  OBVIOUS
<1>0. hdr \in [Sect -> {"idle", "valid", "invalid"}] /\ op.sect \in Sect /\ 1 - op.sect \in Sect
  BY DEF TInv, TypeOK, Op
<1> USE DEF HInv, HdrInv, OneValidSector
<1>1. ASSUME NEW c \in Writes, WriteStart(c[1], c[2], c[3]) PROVE HInv'
  <2>1. hdr' = hdr /\ pc' \in {"index", "erase"}
    BY <1>1 DEF WriteStart
  <2>2. /\ pc' = "erase" => op'.sect = 1 - WriteSect
        /\ pc' = "index" => op'.sect = WriteSect
    BY <1>1 DEF WriteStart
  <2>3. pc' = "erase" => op'.upd
    BY <1>1 DEF WriteStart
  <2>4. pc' = "index" => ~op'.upd
    BY <1>1 DEF WriteStart
  <2>5. hdr[1 - WriteSect] # "valid"
    BY <1>0 DEF WriteSect
  <2>6. WriteSect \in Sect
    BY DEF WriteSect
  <2> QED
    BY <2>1, <2>2, <2>3, <2>4, <2>5, <2>6
<1>2. CASE EraseNew
  BY <1>0, <1>2 DEF EraseNew
<1>3. CASE CopySkip
  <2>1. hdr' = hdr /\ pc = "copy" /\ pc' = "copy" /\ op \in Op /\ op' = [op EXCEPT !.r = @ + 1]
    BY <1>3 DEF CopySkip, TInv, TypeOK
  <2>2. op'.sect = op.sect /\ op'.upd = op.upd
    BY <2>1 DEF Op
  <2> QED
    BY <2>1, <2>2
<1>4. CASE CopyIndex \/ CopyData
  BY <1>4 DEF CopyIndex, CopyData
<1>5. CASE CopyNoBuffer
  BY <1>5 DEF CopyNoBuffer, Return
<1>6. CASE CopyValid
  <2>1. /\ hdr' = hdr /\ pc = "copyValid" /\ pc' = "copy" /\ op \in Op
        /\ op' = [op EXCEPT !.r = @ + 1, !.w = @ + 1]
    BY <1>6 DEF CopyValid, TInv, TypeOK
  <2>2. op'.sect = op.sect /\ op'.upd = op.upd
    BY <2>1 DEF Op
  <2> QED
    BY <2>1, <2>2
<1>7. CASE CopyDone
  <2>1. hdr' = hdr /\ (pc' = "idle" \/ (pc' = "index" /\ op' = op)) /\ pc = "copy" /\ op.upd
    BY <1>7 DEF CopyDone, Return, TInv, OpInv
  <2> QED
    BY <2>1
<1>8. CASE WriteIndex \/ WritePayload
  BY <1>8 DEF WriteIndex, WritePayload
\* The step after the item: the old header only follows in an update.
<1>9. ASSUME NEW ok \in BOOLEAN
      PROVE  /\ HeaderStep = "oldHeader" \/ (~op.upd /\ HeaderStep = "newHeader")
                \/ HeaderStep = "return"
             /\ AfterItem(ok) \in {"delete", "return", HeaderStep}
  BY DEF HeaderStep, AfterItem
<1>10. CASE WriteItemHeader
  <2>1. /\ hdr' = hdr /\ pc = "header" /\ op \in Op
        /\ \/ pc' = "validate" /\ op' = op
           \/ pc' = AfterItem(FALSE) /\ op' = [op EXCEPT !.ok = FALSE]
    BY <1>10 DEF WriteItemHeader, TInv, TypeOK
  <2>2. op'.sect = op.sect /\ op'.upd = op.upd
    BY <2>1 DEF Op
  <2>3. \/ pc' \in {"validate", "delete", "return", "oldHeader"}
        \/ ~op.upd /\ pc' = "newHeader"
    BY <1>9, <2>1
  <2> QED
    BY <2>1, <2>2, <2>3
<1>11. CASE Validate \/ DeleteOld
  <2>1. /\ hdr' = hdr /\ op' = op /\ pc \in {"validate", "delete"}
        /\ \/ pc' = AfterItem(TRUE) \/ pc' = HeaderStep \/ pc' = "return"
    BY <1>11 DEF Validate, DeleteOld
  <2>2. \/ pc' \in {"delete", "return", "oldHeader"}
        \/ ~op.upd /\ pc' = "newHeader"
    BY <1>9, <2>1
  <2> QED
    BY <2>1, <2>2
<1>12. CASE InvalidateOldHeader
  <2>1. /\ pc = "oldHeader" /\ pc' = "newHeader" /\ op' = op /\ locked' = locked
        /\ hdr' = IF Dropped THEN hdr ELSE ProgramHdr(1 - op.sect, "invalid")
    BY <1>12 DEF InvalidateOldHeader, OldSect
  <2>2. Dropped' = Dropped
    BY <2>1 DEF Dropped, LockCoversNv
  <2>3. CASE Dropped
    BY <2>1, <2>2, <2>3
  <2>4. CASE ~Dropped
    <3>1. hdr'[1 - op.sect] # "valid" /\ hdr'[op.sect] = hdr[op.sect]
      BY <1>0, <2>1, <2>4 DEF ProgramHdr
    <3> QED
      BY <1>0, <2>1, <3>1
  <2> QED
    BY <2>3, <2>4
<1>13. CASE ValidateNewHeader
  <2>1. /\ pc = "newHeader" /\ pc' = "return" /\ op' = op
        /\ hdr' = IF Dropped THEN hdr ELSE ProgramHdr(op.sect, "valid")
    BY <1>13 DEF ValidateNewHeader
  <2>2. CASE Dropped
    BY <2>1, <2>2
  <2>3. CASE ~Dropped
    <3>1. hdr[1 - op.sect] # "valid" /\ hdr'[1 - op.sect] = hdr[1 - op.sect]
      BY <1>0, <2>1, <2>3 DEF ProgramHdr
    <3> QED
      BY <1>0, <2>1, <3>1
  <2> QED
    BY <2>2, <2>3
<1>14. CASE WriteReturn
  BY <1>14 DEF WriteReturn, Return
<1>15. CASE (\E i \in Items : ItemDelete(i)) \/ ResetStart
  BY <1>15 DEF ItemDelete, ResetStart
<1>16. ASSUME NEW s \in Sect, ResetErase(s) PROVE HInv'
  BY <1>0, <1>16 DEF ResetErase
<1>17. CASE Crash
  BY <1>17 DEF Crash
<1>18. CASE UNCHANGED vars
  BY <1>18 DEF vars, Dropped, LockCoversNv
<1> QED
  BY <1>1, <1>2, <1>3, <1>4, <1>5, <1>6, <1>7, <1>8, <1>10, <1>11, <1>12, <1>13,
     <1>14, <1>15, <1>16, <1>17, <1>18 DEF Next

\* At every step of every operation, and so after a power failure at any of
\* them, at most one of a module's two sectors has a valid header, whatever
\* range flash_lock protects.
THEOREM OneSector == Spec => []OneValidSector
<1>1. Init => HInv
  BY DEF Init, HInv, HdrInv, OneValidSector
<1>2. HInv => OneValidSector
  BY DEF HInv
<1> QED
  BY <1>1, <1>2, StepHInv, InductiveTypes, PTL DEF Spec

---------------------------------------------------------------------------
(***************************************************************************)
(* What was acknowledged is kept: Durable, ReadBack and the refinement of  *)
(* NvAtomic, when a payload that is programmed reads back (~Faults) and    *)
(* flash_lock leaves the NV area alone (~LockCoversNv).  With either of    *)
(* them the properties are false.                                          *)
(***************************************************************************)

CopyLoop == {"copy", "copyData", "copyValid"}
Item == {"index", "payload", "header", "validate"}
After == {"delete", "oldHeader", "newHeader", "return"}

Is(f, i, k) == f[k].st = "valid" /\ f[k].id = i
L(s, i) == Latest(idx[s], IdxNum, i)

\* The sector a write works on against the one a reader is sent to.
SectInv ==
  /\ pc \in Writing /\ ~op.upd => op.sect = WriteSect
  /\ pc \in Copying \cup Item \cup {"delete", "oldHeader"} /\ op.upd => op.sect = 1 - WriteSect
  /\ pc \in CopyLoop \cup Item \cup {"oldHeader", "newHeader"} /\ op.upd => hdr[op.sect] = "idle"
  /\ pc = "newHeader" => hdr[1 - op.sect] # "valid"
  /\ pc = "return" /\ op.upd => op.sect = WriteSect
  /\ pc = "oldHeader" => op.upd
  /\ pc = "newHeader" /\ ~op.upd => op.w = 0

\* The entries from the one being written on are not valid yet, and that one is
\* what it is meant to be; afterwards it is the newest of the sector.
TailInv ==
  /\ pc \in CopyLoop \cup Item => \A k \in Idx : k >= op.w => idx[op.sect][k].st # "valid"
  /\ pc \in {"copyData", "copyValid"} =>
       /\ Carried(idx[1 - op.sect][op.r])
       /\ idx[op.sect][op.w].id = idx[1 - op.sect][op.r].id
  /\ pc = "copyValid" => /\ idx[op.sect][op.w].val = idx[1 - op.sect][op.r].val
                         /\ idx[op.sect][op.w].hd
  /\ pc \in {"payload", "header", "validate"} => idx[op.sect][op.w].id = op.item
  /\ pc \in {"header", "validate"} => idx[op.sect][op.w].val = op.val
  /\ pc = "validate" => idx[op.sect][op.w].hd
  /\ pc \in After => /\ Is(idx[op.sect], op.item, op.w) /\ idx[op.sect][op.w].val = op.val
                     /\ \A k \in Idx : k > op.w => idx[op.sect][k].st # "valid"

\* The copy loop has carried over the newest entry of every item it has seen,
\* but for the item that is being rewritten.
CopyInv ==
  /\ pc \in CopyLoop \cup Item /\ op.upd =>
       \A i \in Items : i # op.item \/ ~op.single =>
         Latest(idx[op.sect], op.w, i) = Latest(idx[1 - op.sect], op.r, i)
  /\ pc = "erase" => op.r = 0
  /\ pc \in Item /\ op.upd => op.r = IdxNum
  /\ pc \in {"oldHeader", "newHeader"} /\ op.upd =>
       \A i \in Items : i # op.item => L(op.sect, i) = L(1 - op.sect, i)

\* The payload being written is allowed; without faults no write fails; the entry
\* to delete is an older one of the item; a reset allows every item to be gone.
JobInv ==
  /\ pc \in Copying \cup Writing => op.val \in allowed[op.item]
  /\ pc \in Copying \cup Writing => op.ok
  /\ pc \in Writing /\ op.del # NoIdx =>
       op.del < op.w /\ idx[op.sect][op.del].id = op.item
  /\ pc \in Writing /\ op.upd => op.del = NoIdx
  /\ pc \in {"reset0", "reset1"} => \A i \in Items : Nil \in allowed[i]
  /\ pc = "reset1" => idx[0] = ErasedIdx /\ hdr[0] = "idle"

\* A header is made invalid only in a sector that is used, and only there a valid
\* one cannot follow; valid entries have their item header.
UsedInv ==
  /\ \A s \in Sect : hdr[s] = "invalid" => ~Unused(idx[s])
  /\ pc \in Copying \cup Item \cup {"oldHeader"} /\ op.upd => ~Unused(idx[1 - op.sect])
  /\ pc \in Writing /\ ~op.upd /\ op.w = 0 => hdr[op.sect] # "invalid"
  /\ \A s \in Sect, k \in Idx : idx[s][k].st = "valid" => idx[s][k].hd

\* Without a valid header the store is empty, or it is in one of the windows that
\* orphan marks.
OrphanInv ==
  ~orphan /\ hdr[0] # "valid" /\ hdr[1] # "valid" /\ pc # "newHeader" =>
    /\ \A i \in Items : Nil \in allowed[i]
    /\ Unused(idx[0]) \/ InWindow

PInv == SectInv /\ TailInv /\ CopyInv /\ JobInv /\ UsedInv /\ OrphanInv

USE DEF Sect, Idx, NoIdx, Copying, Writing, CopyLoop, Item, After

---------------------------------------------------------------------------
(* The newest valid entry of an item *)

\* Two tables with the same valid entries of an item have the same newest one.
LEMMA LatestSame ==
  ASSUME NEW f, NEW g, NEW n, NEW i,
         \A k \in Idx : k < n => /\ Is(f, i, k) <=> Is(g, i, k)
                                 /\ Is(f, i, k) => f[k].val = g[k].val
  PROVE  Latest(f, n, i) = Latest(g, n, i)
<1>1. ASSUME NEW k \in Idx
      PROVE  /\ Newest(f, n, i, k) <=> Newest(g, n, i, k)
             /\ Newest(f, n, i, k) => f[k].val = g[k].val
  BY DEF Newest, Is
<1> QED
  BY <1>1 DEF Latest

\* A valid entry with no valid one of its item after it is the newest.
LEMMA LatestTop ==
  ASSUME NEW f, NEW n, NEW i, NEW k \in Idx, k < n, Is(f, i, k),
         \A j \in Idx : k < j /\ j < n => ~Is(f, i, j)
  PROVE  Latest(f, n, i) = {f[k].val}
<1>1. Newest(f, n, i, k)
  BY DEF Newest, Is
<1>2. ASSUME NEW j \in Idx, Newest(f, n, i, j) PROVE j = k
  BY <1>1, <1>2, ConstAssumption DEF Newest, Is
<1> QED
  BY <1>1, <1>2 DEF Latest

\* Entries that are no valid ones of the item do not matter.
LEMMA LatestCut ==
  ASSUME NEW f, NEW i, NEW m \in Nat, NEW n \in Nat, m <= n,
         \A k \in Idx : m <= k /\ k < n => ~Is(f, i, k)
  PROVE  Latest(f, n, i) = Latest(f, m, i)
<1>1. ASSUME NEW k \in Idx PROVE Newest(f, n, i, k) <=> Newest(f, m, i, k)
  BY ConstAssumption DEF Newest, Is
<1> QED
  BY <1>1 DEF Latest

\* Without a valid entry of the item there is none.
LEMMA LatestNone ==
  ASSUME NEW f, NEW n, NEW i, \A k \in Idx : k < n => ~Is(f, i, k)
  PROVE  Latest(f, n, i) = {}
  BY DEF Latest, Newest, Is

---------------------------------------------------------------------------
(* The two sectors, action by action *)

\* The sector in use depends on the headers only.
LEMMA SectFacts ==
  /\ WriteSect \in Sect /\ 1 - WriteSect \in Sect
  /\ hdr' = hdr => WriteSect' = WriteSect
  BY DEF WriteSect

\* A write starts with what it reads from the sector in use.
LEMMA StartPInv ==
  ASSUME TInv, PInv, NEW c \in Writes, WriteStart(c[1], c[2], c[3])
  PROVE  PInv'
<1> DEFINE i == c[1]  v == c[2]  single == c[3]  s == WriteSect
           old == IF single THEN DelIdx(idx[s], i) ELSE NoIdx
           job(t, w, upd, del) ==
             [item |-> i, val |-> v, single |-> single, sect |-> t, w |-> w,
              r |-> 0, upd |-> upd, del |-> del, ok |-> TRUE]
<1>1. i \in Items /\ v \in Vals
  BY ConstAssumption
<1>2. /\ hdr' = hdr /\ idx' = idx /\ orphan' = orphan /\ pc = "idle"
      /\ allowed' = [allowed EXCEPT ![i] = @ \cup {v}]
  BY DEF WriteStart
<1>3. s \in Sect /\ 1 - s \in Sect /\ 1 - (1 - s) = s /\ WriteSect' = s
  BY <1>2, SectFacts
<1>4. /\ allowed' \in [Items -> SUBSET (Vals \cup {Nil})] /\ v \in allowed'[i]
      /\ \A j \in Items : allowed[j] \subseteq allowed'[j]
  <2> HIDE DEF i, v
  <2> QED
    BY <1>1, <1>2 DEF TInv, TypeOK
<1>5. old # NoIdx => old \in Idx /\ Is(idx[s], i, old)
  BY DEF DelIdx, Newest, Is
<1>6. \/ Unused(idx[s]) /\ pc' = "index" /\ op' = job(s, 0, FALSE, old)
      \/ \E k \in Idx : LastUsed(idx[s], k) /\ pc' = "erase" /\ op' = job(1 - s, 0, TRUE, NoIdx)
      \/ \E k \in Idx : /\ LastUsed(idx[s], k) /\ k # IdxNum - 1
                        /\ pc' = "index" /\ op' = job(s, k + 1, FALSE, old)
  BY DEF WriteStart
<1>7. ASSUME NEW t, NEW w, NEW upd, NEW del, op' = job(t, w, upd, del)
      PROVE  /\ op'.item = i /\ op'.val = v /\ op'.sect = t /\ op'.w = w /\ op'.r = 0
             /\ op'.del = del
  <2> HIDE DEF i, v, single
  <2> QED
    BY <1>7
<1>8. ASSUME NEW t, NEW w, NEW upd, NEW del, op' = job(t, w, upd, del)
      PROVE  op'.upd = upd /\ op'.ok
  <2> HIDE DEF i, v, single
  <2> QED
    BY <1>8
<1> HIDE DEF i, v, single, job
\* What the three ways to start have in common.
<1>9. /\ op'.item = i /\ op'.val = v /\ op'.r = 0 /\ op'.ok
      /\ \/ /\ pc' = "erase" /\ op'.upd /\ op'.sect = 1 - s /\ op'.w = 0
            /\ op'.del = NoIdx /\ ~Unused(idx[s])
         \/ /\ pc' = "index" /\ ~op'.upd /\ op'.sect = s
            /\ op'.w = 0 => Unused(idx[s])
            /\ \A k \in Idx : k >= op'.w => idx[s][k].st = "idle"
            /\ op'.del # NoIdx => op'.del < op'.w /\ idx[s][op'.del].id = i
  <2> HIDE DEF s, old
  <2>1. CASE Unused(idx[s]) /\ pc' = "index" /\ op' = job(s, 0, FALSE, old)
    <3>1. \A k \in Idx : idx[s][k].st = "idle"
      BY <2>1 DEF Unused
    <3>2. old = NoIdx
      BY <3>1, <1>5 DEF Is
    <3>3. /\ op'.item = i /\ op'.val = v /\ op'.r = 0 /\ op'.sect = s /\ op'.w = 0 /\ op'.del = NoIdx
      BY <2>1, <1>7, <3>2
    <3>4. op'.upd = FALSE /\ op'.ok
      BY <2>1, <1>8
    <3> QED
      BY <2>1, <3>1, <3>3, <3>4
  <2>2. ASSUME NEW k \in Idx, LastUsed(idx[s], k), pc' = "erase", op' = job(1 - s, 0, TRUE, NoIdx)
        PROVE  /\ op'.item = i /\ op'.val = v /\ op'.r = 0 /\ op'.ok
               /\ pc' = "erase" /\ op'.upd /\ op'.sect = 1 - s /\ op'.w = 0
               /\ op'.del = NoIdx /\ ~Unused(idx[s])
    <3>1. op'.item = i /\ op'.val = v /\ op'.r = 0 /\ op'.sect = 1 - s /\ op'.w = 0 /\ op'.del = NoIdx
      BY <2>2, <1>7
    <3>2. op'.upd = TRUE /\ op'.ok
      BY <2>2, <1>8
    <3> QED
      BY <2>2, <3>1, <3>2 DEF LastUsed, Unused
  <2>3. ASSUME NEW k \in Idx, LastUsed(idx[s], k), k # IdxNum - 1,
               pc' = "index", op' = job(s, k + 1, FALSE, old)
        PROVE  /\ op'.item = i /\ op'.val = v /\ op'.r = 0 /\ op'.ok
               /\ pc' = "index" /\ ~op'.upd /\ op'.sect = s /\ op'.w # 0
               /\ \A j \in Idx : j >= op'.w => idx[s][j].st = "idle"
               /\ op'.del # NoIdx => op'.del < op'.w /\ idx[s][op'.del].id = i
    <3>1. op'.item = i /\ op'.val = v /\ op'.r = 0 /\ op'.sect = s /\ op'.w = k + 1 /\ op'.del = old
      BY <2>3, <1>7
    <3>2. op'.upd = FALSE /\ op'.ok
      BY <2>3, <1>8
    <3>3. \A j \in Idx : j >= k + 1 => idx[s][j].st = "idle"
      BY <2>3, ConstAssumption DEF LastUsed
    <3>4. old # NoIdx => old < k + 1 /\ idx[s][old].id = i
      BY <3>3, <1>5, ConstAssumption DEF Is
    <3>5. k + 1 # 0
      BY ConstAssumption
    <3> QED
      BY <2>3, <3>1, <3>2, <3>3, <3>4, <3>5
  <2> QED
    BY <1>6, <2>1, <2>2, <2>3
<1>10. SectInv'
  <2>1. pc' = "erase" => op'.sect = 1 - s /\ op'.upd
    BY <1>9
  <2>2. pc' = "index" => op'.sect = s /\ ~op'.upd
    BY <1>9
  <2>3. pc' \in {"erase", "index"}
    BY <1>9
  <2> QED
    BY <1>3, <2>1, <2>2, <2>3 DEF SectInv
<1>11. TailInv'
  <2>1. pc' = "index" => \A k \in Idx : k >= op'.w => idx'[op'.sect][k].st # "valid"
    BY <1>2, <1>9
  <2> QED
    BY <2>1, <1>9 DEF TailInv
<1>12. CopyInv'
  BY <1>9 DEF CopyInv
<1>13. JobInv'
  BY <1>2, <1>4, <1>9 DEF JobInv
<1>14. UsedInv'
  <2>1. hdr[s] = "invalid" => ~Unused(idx[s])
    BY <1>3 DEF PInv, UsedInv
  <2>2. pc' = "erase" => ~Unused(idx'[1 - op'.sect])
    BY <1>2, <1>3, <1>9
  <2>3. pc' = "index" => ~op'.upd /\ (op'.w = 0 => hdr'[op'.sect] # "invalid")
    BY <1>2, <1>9, <2>1
  <2>4. pc' \in {"erase", "index"}
    BY <1>9
  <2>5. /\ \A t \in Sect : hdr'[t] = "invalid" => ~Unused(idx'[t])
        /\ \A t \in Sect, k \in Idx : idx'[t][k].st = "valid" => idx'[t][k].hd
    BY <1>2 DEF PInv, UsedInv
  <2> QED
    BY <2>2, <2>3, <2>4, <2>5 DEF UsedInv
<1>15. OrphanInv'
  <2>1. ~InWindow
    BY <1>2 DEF InWindow
  <2> QED
    BY <1>2, <1>4, <2>1 DEF PInv, OrphanInv
<1> QED
  BY <1>10, <1>11, <1>12, <1>13, <1>14, <1>15 DEF PInv

\* The flash writes of nv_write_item change one entry.
LEMMA EntryOnly ==
  ASSUME TypeOK, NEW s \in Sect, NEW k \in Idx, NEW e, idx' = [idx EXCEPT ![s][k] = e]
  PROVE  /\ idx'[s][k] = e
         /\ \A t \in Sect, j \in Idx : ~(t = s /\ j = k) => idx'[t][j] = idx[t][j]
  BY DEF TypeOK

\* Programming the state of an entry leaves its other fields.
LEMMA StateOnly ==
  ASSUME TypeOK, NEW s \in Sect, NEW k \in Idx, NEW x, idx' = [idx EXCEPT ![s][k].st = x]
  PROVE  /\ idx'[s][k].st = x /\ idx'[s][k].id = idx[s][k].id
         /\ idx'[s][k].val = idx[s][k].val /\ idx'[s][k].hd = idx[s][k].hd
         /\ \A t \in Sect, j \in Idx : ~(t = s /\ j = k) => idx'[t][j] = idx[t][j]
<1>1. idx[s][k] \in Entry
  BY DEF TypeOK
<1>2. idx'[s] = [idx[s] EXCEPT ![k].st = x] /\ \A t \in Sect : t # s => idx'[t] = idx[t]
  BY DEF TypeOK
<1>3. /\ idx'[s][k] = [idx[s][k] EXCEPT !.st = x]
      /\ \A t \in Sect, j \in Idx : ~(t = s /\ j = k) => idx'[t][j] = idx[t][j]
  BY <1>2 DEF TypeOK
<1> QED
  BY <1>1, <1>3 DEF Entry

\* While a sector is being updated the other one has the valid header, unless
\* power failed in a window before.
LEMMA UpdHeader ==
  ASSUME TInv, PInv, pc \in Copying \cup Item \cup {"oldHeader"}, op.upd
  PROVE  /\ op.sect \in Sect /\ 1 - op.sect \in Sect /\ op.sect # 1 - op.sect
         /\ WriteSect = 1 - op.sect
         /\ orphan \/ hdr[1 - op.sect] = "valid"
<1>1. op.sect \in Sect
  BY DEF TInv, TypeOK, Op
<1>2. op.sect = 1 - WriteSect
  BY DEF PInv, SectInv
<1>3. ~Unused(idx[1 - op.sect])
  BY DEF PInv, UsedInv
<1>4. ~InWindow
  BY DEF InWindow
<1>5. ASSUME ~orphan, hdr[1 - op.sect] # "valid" PROVE FALSE
  <2>1. hdr[0] # "valid" /\ hdr[1] # "valid" /\ 1 - op.sect = 0
    BY <1>1, <1>2, <1>5 DEF WriteSect
  <2>2. Unused(idx[0])
    BY <1>4, <1>5, <2>1 DEF PInv, OrphanInv
  <2> QED
    BY <1>3, <2>1, <2>2
<1> QED
  BY <1>1, <1>2, <1>5, SectFacts

\* A valid header or a mark of a power failure is all OrphanInv asks for.
LEMMA OrphanFalse ==
  ASSUME NEW s \in Sect, orphan' \/ hdr'[s] = "valid"
  PROVE  OrphanInv'
  BY DEF OrphanInv

\* flash_erase of the other sector.
LEMMA ErasePInv == ASSUME TInv, PInv, EraseNew PROVE PInv'
<1> DEFINE s == op.sect
<1>0. /\ pc = "erase" /\ pc' = "copy" /\ op' = op /\ allowed' = allowed /\ orphan' = orphan
      /\ idx' = [idx EXCEPT ![s] = ErasedIdx] /\ hdr' = [hdr EXCEPT ![s] = "idle"]
      /\ op.upd /\ op.w = 0 /\ op.del = NoIdx /\ op.r = 0
  BY DEF EraseNew, TInv, OpInv, PInv, CopyInv
<1>1. /\ s \in Sect /\ 1 - s \in Sect /\ s # 1 - s /\ WriteSect = 1 - s
      /\ orphan \/ hdr[1 - s] = "valid"
  BY <1>0, UpdHeader
<1>2. /\ hdr'[s] = "idle" /\ hdr'[1 - s] = hdr[1 - s] /\ idx'[1 - s] = idx[1 - s]
      /\ \A k \in Idx : idx'[s][k] = IdleEntry
  BY <1>0, <1>1 DEF TInv, TypeOK, ErasedIdx
<1>3. WriteSect' = 1 - s
  BY <1>1, <1>2 DEF WriteSect
<1>4. SectInv'
  BY <1>0, <1>1, <1>2, <1>3 DEF SectInv
<1>5. TailInv'
  BY <1>0, <1>2 DEF TailInv, IdleEntry
<1>6. CopyInv'
  <2>1. \A k \in Idx : ~(k < 0)
    BY ConstAssumption
  <2>2. ASSUME NEW f, NEW i PROVE Latest(f, 0, i) = {}
    BY <2>1, LatestNone
  <2> QED
    BY <1>0, <2>2 DEF CopyInv
<1>7. JobInv'
  BY <1>0 DEF PInv, JobInv
<1>8. UsedInv'
  <2>1. ASSUME NEW t \in Sect
        PROVE  /\ hdr'[t] = "invalid" => ~Unused(idx'[t])
               /\ \A k \in Idx : idx'[t][k].st = "valid" => idx'[t][k].hd
    <3>1. CASE t = s
      BY <1>2, <3>1 DEF IdleEntry
    <3>2. CASE t = 1 - s
      BY <1>1, <1>2, <3>2 DEF PInv, UsedInv
    <3> QED
      BY <1>1, <3>1, <3>2
  <2> QED
    BY <1>0, <1>2, <2>1 DEF PInv, UsedInv
<1>9. OrphanInv'
  BY <1>0, <1>1, <1>2, OrphanFalse
<1> QED
  BY <1>4, <1>5, <1>6, <1>7, <1>8, <1>9 DEF PInv

\* The parts of the invariant that the copy loop does not touch.
LEMMA LoopKeeps ==
  ASSUME TInv, PInv, pc \in CopyLoop, op.upd, pc' \in CopyLoop \cup {"index"},
         hdr' = hdr, allowed' = allowed, orphan' = orphan,
         op'.sect = op.sect, op'.upd = op.upd, op'.item = op.item, op'.val = op.val,
         op'.ok = op.ok, op'.del = op.del, op.ok,
         \A k \in Idx : idx'[1 - op.sect][k] = idx[1 - op.sect][k],
         \A k \in Idx : /\ idx[op.sect][k].st # "idle" => idx'[op.sect][k].st # "idle"
                        /\ idx'[op.sect][k].st = "valid" => idx'[op.sect][k].hd
  PROVE  SectInv' /\ JobInv' /\ UsedInv' /\ OrphanInv'
<1>0. op.del = NoIdx
  BY DEF TInv, OpInv
<1>1. /\ op.sect \in Sect /\ 1 - op.sect \in Sect /\ op.sect # 1 - op.sect
      /\ WriteSect = 1 - op.sect /\ (orphan \/ hdr[1 - op.sect] = "valid")
      /\ WriteSect' = WriteSect
  BY UpdHeader, SectFacts
<1>2. SectInv'
  BY <1>1 DEF PInv, SectInv
<1>3. JobInv'
  BY <1>0 DEF PInv, JobInv
<1>4. UsedInv'
  <2>1. ASSUME NEW t \in Sect
        PROVE  /\ ~Unused(idx[t]) => ~Unused(idx'[t])
               /\ \A k \in Idx : idx'[t][k].st = "valid" => idx'[t][k].hd
    <3>1. CASE t = op.sect
      BY <3>1 DEF Unused
    <3>2. CASE t = 1 - op.sect
      BY <1>1, <3>2 DEF Unused, PInv, UsedInv
    <3> QED
      BY <1>1, <3>1, <3>2
  <2> QED
    BY <1>1, <2>1 DEF PInv, UsedInv
<1>5. OrphanInv'
  BY <1>1, OrphanFalse
<1> QED
  BY <1>2, <1>3, <1>4, <1>5

\* An entry that is not carried over is passed.
LEMMA SkipPInv == ASSUME TInv, PInv, CopySkip PROVE PInv'
<1> DEFINE s == op.sect  r == op.r
<1>0. /\ pc = "copy" /\ pc' = "copy" /\ op' = [op EXCEPT !.r = r + 1] /\ op \in Op
      /\ hdr' = hdr /\ idx' = idx /\ allowed' = allowed /\ orphan' = orphan
      /\ op.upd /\ r < IdxNum /\ ~Carried(idx[1 - s][r]) /\ r \in 0 .. IdxNum
  BY DEF CopySkip, OldSect, TInv, TypeOK, OpInv, Op
<1>1. /\ op'.r = r + 1 /\ op'.w = op.w /\ op'.sect = s /\ op'.item = op.item /\ op'.val = op.val
      /\ op'.del = op.del
  BY <1>0 DEF Op
<1>2. op'.upd = op.upd /\ op'.ok = op.ok /\ op'.single = op.single
  BY <1>0 DEF Op
<1>3. r \in Idx /\ r + 1 \in Nat /\ r \in Nat
  BY <1>0, ConstAssumption
<1>4. TailInv'
  BY <1>0, <1>1 DEF PInv, TailInv
<1>5. CopyInv'
  <2>1. ASSUME NEW i \in Items, i # op.item \/ ~op.single
        PROVE  Latest(idx[1 - s], r + 1, i) = Latest(idx[1 - s], r, i)
    <3>1. ~Is(idx[1 - s], i, r)
      BY <1>0, <2>1 DEF Is, Carried
    <3>2. \A k \in Idx : r <= k /\ k < r + 1 => ~Is(idx[1 - s], i, k)
      BY <1>3, <3>1, ConstAssumption
    <3> QED
      BY <1>3, <3>2, LatestCut
  <2> QED
    BY <1>0, <1>1, <1>2, <2>1 DEF PInv, CopyInv
<1>6. op.ok
  BY <1>0 DEF PInv, JobInv
<1>7. \A k \in Idx : idx[s][k].st = "valid" => idx[s][k].hd
  BY <1>0 DEF PInv, UsedInv, Op
<1>8. SectInv' /\ JobInv' /\ UsedInv' /\ OrphanInv'
  BY <1>0, <1>1, <1>2, <1>6, <1>7, LoopKeeps
<1> QED
  BY <1>4, <1>5, <1>8 DEF PInv

\* What the steps that copy one entry know of the two entries.
LEMMA CopyFacts ==
  ASSUME TInv, PInv, pc \in CopyLoop, op.r < IdxNum
  PROVE  /\ op.upd /\ op.ok /\ op \in Op /\ op.w \in Idx /\ op.r \in Idx
         /\ op.sect \in Sect /\ 1 - op.sect \in Sect /\ op.sect # 1 - op.sect
         /\ \A k \in Idx : k >= op.w => idx[op.sect][k].st # "valid"
         /\ \A i \in Items : i # op.item \/ ~op.single =>
              Latest(idx[op.sect], op.w, i) = Latest(idx[1 - op.sect], op.r, i)
         /\ \A s \in Sect, k \in Idx : idx[s][k].st = "valid" => idx[s][k].hd
<1>1. op.upd /\ op.ok
  BY DEF TInv, OpInv, PInv, JobInv
<1>2. op \in Op /\ op.w <= op.r
  BY DEF TInv, OpInv, TypeOK
<1>3. op.w \in Idx /\ op.r \in Idx /\ op.sect \in Sect /\ 1 - op.sect \in Sect /\ op.sect # 1 - op.sect
  BY <1>2, ConstAssumption DEF Op
<1>4. /\ \A k \in Idx : k >= op.w => idx[op.sect][k].st # "valid"
      /\ \A s \in Sect, k \in Idx : idx[s][k].st = "valid" => idx[s][k].hd
  BY DEF PInv, TailInv, UsedInv
<1>5. \A i \in Items : i # op.item \/ ~op.single =>
              Latest(idx[op.sect], op.w, i) = Latest(idx[1 - op.sect], op.r, i)
  BY <1>1 DEF PInv, CopyInv
<1> QED
  BY <1>1, <1>2, <1>3, <1>4, <1>5

\* A step that changes only the entry being written, which stays invalid, keeps
\* the newest valid entries of both sectors.
LEMMA WriteKeepsLatest ==
  ASSUME NEW s \in Sect, NEW w \in Idx, NEW n, NEW i,
         \A t \in Sect, j \in Idx : ~(t = s /\ j = w) => idx'[t][j] = idx[t][j],
         idx[s][w].st # "valid", idx'[s][w].st # "valid"
  PROVE  \A t \in Sect : Latest(idx'[t], n, i) = Latest(idx[t], n, i)
<1> TAKE t \in Sect
<1>1. ASSUME NEW k \in Idx
      PROVE  /\ Is(idx'[t], i, k) <=> Is(idx[t], i, k)
             /\ Is(idx'[t], i, k) => idx'[t][k].val = idx[t][k].val
  BY DEF Is
<1> QED
  BY <1>1, LatestSame

\* The index entry of a copied item.
LEMMA CopyIndexPInv == ASSUME TInv, PInv, CopyIndex PROVE PInv'
<1> DEFINE s == op.sect  w == op.w  r == op.r
<1>0. /\ pc = "copy" /\ pc' = "copyData" /\ op' = op /\ r < IdxNum
      /\ hdr' = hdr /\ allowed' = allowed /\ orphan' = orphan /\ Carried(idx[1 - s][r])
  BY DEF CopyIndex, OldSect
<1>1. /\ op.upd /\ op.ok /\ op \in Op /\ w \in Idx /\ r \in Idx
      /\ s \in Sect /\ 1 - s \in Sect /\ s # 1 - s
      /\ \A k \in Idx : k >= w => idx[s][k].st # "valid"
      /\ \A i \in Items : i # op.item \/ ~op.single =>
           Latest(idx[s], w, i) = Latest(idx[1 - s], r, i)
      /\ \A t \in Sect, k \in Idx : idx[t][k].st = "valid" => idx[t][k].hd
  BY <1>0, CopyFacts
<1>2. /\ idx'[s][w].st = "oper" /\ idx'[s][w].id = idx[1 - s][r].id
      /\ \A t \in Sect, j \in Idx : ~(t = s /\ j = w) => idx'[t][j] = idx[t][j]
  BY <1>1 DEF CopyIndex, OldSect, TInv, TypeOK
<1>3. w >= w
  BY <1>1, ConstAssumption
<1>4. idx'[1 - s][r] = idx[1 - s][r] /\ idx[s][w].st # "valid"
  BY <1>1, <1>2, <1>3
<1>5. TailInv'
  <2>1. \A k \in Idx : k >= w => idx'[s][k].st # "valid"
    BY <1>1, <1>2
  <2>2. Carried(idx[1 - s][r])'
    BY <1>0, <1>4 DEF Carried
  <2> QED
    BY <1>0, <1>2, <1>4, <2>1, <2>2 DEF TailInv, Carried
<1>6. CopyInv'
  <2>1. \A i \in Items, n \in {w, r} : \A t \in Sect : Latest(idx'[t], n, i) = Latest(idx[t], n, i)
    BY <1>1, <1>2, <1>4, WriteKeepsLatest
  <2> QED
    BY <1>0, <1>1, <2>1 DEF CopyInv
<1>7. SectInv' /\ JobInv' /\ UsedInv' /\ OrphanInv'
  <2>1. \A k \in Idx : idx'[1 - s][k] = idx[1 - s][k]
    BY <1>1, <1>2
  <2>2. \A k \in Idx : /\ idx[s][k].st # "idle" => idx'[s][k].st # "idle"
                       /\ idx'[s][k].st = "valid" => idx'[s][k].hd
    BY <1>1, <1>2
  <2> QED
    BY <1>0, <1>1, <2>1, <2>2, LoopKeeps
<1> QED
  BY <1>5, <1>6, <1>7 DEF PInv

\* Header and payload of a copied item.
LEMMA CopyDataPInv == ASSUME TInv, PInv, CopyData PROVE PInv'
<1> DEFINE s == op.sect  w == op.w  r == op.r
<1>0. /\ pc = "copyData" /\ pc' = "copyValid" /\ op' = op /\ r < IdxNum
      /\ hdr' = hdr /\ allowed' = allowed /\ orphan' = orphan
  BY DEF CopyData, TInv, OpInv
<1>1. /\ op.upd /\ op.ok /\ op \in Op /\ w \in Idx /\ r \in Idx
      /\ s \in Sect /\ 1 - s \in Sect /\ s # 1 - s
      /\ \A k \in Idx : k >= w => idx[s][k].st # "valid"
      /\ \A i \in Items : i # op.item \/ ~op.single =>
           Latest(idx[s], w, i) = Latest(idx[1 - s], r, i)
      /\ \A t \in Sect, k \in Idx : idx[t][k].st = "valid" => idx[t][k].hd
  BY <1>0, CopyFacts
<1>2. /\ Carried(idx[1 - s][r]) /\ idx[s][w].id = idx[1 - s][r].id
      /\ idx[s][w].st = "oper" /\ idx[1 - s][r].st = "valid" /\ idx[1 - s][r].hd
  BY <1>0, <1>1 DEF PInv, TailInv, TInv, SlotInv
<1>3. /\ idx'[s][w] = [idx[s][w] EXCEPT !.hd = idx[1 - s][r].hd, !.val = idx[1 - s][r].val]
      /\ \A t \in Sect, j \in Idx : ~(t = s /\ j = w) => idx'[t][j] = idx[t][j]
  <2> DEFINE e == [idx[s][w] EXCEPT !.hd = idx[1 - s][r].hd, !.val = idx[1 - s][r].val]
  <2>0. idx[s][w] \in Entry /\ TypeOK /\ s \in Sect /\ w \in Idx
    BY <1>1 DEF TInv, TypeOK
  <2>1. idx' = [idx EXCEPT ![s][w].hd = idx[1 - s][r].hd, ![s][w].val = idx[1 - s][r].val]
    BY DEF CopyData, OldSect
  <2>2. idx' = [idx EXCEPT ![s][w] = e]
    BY <2>0, <2>1 DEF TypeOK, Entry
  <2> HIDE DEF e
  <2>3. /\ idx'[s][w] = e
        /\ \A t \in Sect, j \in Idx : ~(t = s /\ j = w) => idx'[t][j] = idx[t][j]
    BY <2>0, <2>2 DEF TypeOK
  <2> QED
    BY <2>3 DEF e
<1>4. idx[s][w] \in Entry
  BY <1>1 DEF TInv, TypeOK
<1>5. /\ idx'[s][w].st = "oper" /\ idx'[s][w].id = idx[1 - s][r].id
      /\ idx'[s][w].val = idx[1 - s][r].val /\ idx'[s][w].hd
  BY <1>2, <1>3, <1>4 DEF Entry
<1>6. idx'[1 - s][r] = idx[1 - s][r]
  BY <1>1, <1>3
<1>7. TailInv'
  <2>1. \A k \in Idx : k >= w => idx'[s][k].st # "valid"
    BY <1>1, <1>3, <1>5
  <2>2. Carried(idx[1 - s][r])'
    BY <1>0, <1>2, <1>6 DEF Carried
  <2> QED
    BY <1>0, <1>5, <1>6, <2>1, <2>2 DEF TailInv, Carried
<1>8. CopyInv'
  <2>0. /\ idx[s][w].st # "valid" /\ idx'[s][w].st # "valid" /\ s \in Sect /\ w \in Idx
        /\ \A t \in Sect, j \in Idx : ~(t = s /\ j = w) => idx'[t][j] = idx[t][j]
    BY <1>1, <1>2, <1>3, <1>5
  <2>1. \A i \in Items, n \in {w, r} : \A t \in Sect : Latest(idx'[t], n, i) = Latest(idx[t], n, i)
    BY <2>0, WriteKeepsLatest
  <2> QED
    BY <1>0, <1>1, <2>1 DEF CopyInv
<1>9. SectInv' /\ JobInv' /\ UsedInv' /\ OrphanInv'
  <2>1. \A k \in Idx : idx'[1 - s][k] = idx[1 - s][k]
    BY <1>1, <1>3
  <2>2. \A k \in Idx : /\ idx[s][k].st # "idle" => idx'[s][k].st # "idle"
                       /\ idx'[s][k].st = "valid" => idx'[s][k].hd
    BY <1>1, <1>3, <1>5
  <2> QED
    BY <1>0, <1>1, <2>1, <2>2, LoopKeeps
<1> QED
  BY <1>7, <1>8, <1>9 DEF PInv

\* A copied item becomes valid: both sectors agree on one entry more.
LEMMA CopyValidPInv == ASSUME TInv, PInv, CopyValid PROVE PInv'
<1> DEFINE s == op.sect  w == op.w  r == op.r
<1>0. /\ pc = "copyValid" /\ pc' = "copy" /\ op' = [op EXCEPT !.r = r + 1, !.w = w + 1]
      /\ hdr' = hdr /\ allowed' = allowed /\ orphan' = orphan
      /\ idx' = [idx EXCEPT ![s][w].st = "valid"] /\ r < IdxNum /\ TypeOK
  BY DEF CopyValid, TInv, OpInv
<1>1. /\ op.upd /\ op.ok /\ op \in Op /\ w \in Idx /\ r \in Idx
      /\ s \in Sect /\ 1 - s \in Sect /\ s # 1 - s
      /\ \A k \in Idx : k >= w => idx[s][k].st # "valid"
      /\ \A t \in Sect, k \in Idx : idx[t][k].st = "valid" => idx[t][k].hd
  BY <1>0, CopyFacts
<1>2. \A i \in Items : i # op.item \/ ~op.single =>
           Latest(idx[s], w, i) = Latest(idx[1 - s], r, i)
  BY <1>0, CopyFacts
<1>3. /\ Carried(idx[1 - s][r]) /\ idx[s][w].id = idx[1 - s][r].id /\ idx[1 - s][r].st = "valid"
      /\ idx[s][w].val = idx[1 - s][r].val /\ idx[s][w].hd
  BY <1>0 DEF PInv, TailInv, Carried
<1>4. /\ op'.r = r + 1 /\ op'.w = w + 1 /\ op'.sect = s /\ op'.item = op.item /\ op'.val = op.val
      /\ op'.del = op.del
  BY <1>0, <1>1 DEF Op
<1>5. op'.upd = op.upd /\ op'.ok = op.ok /\ op'.single = op.single
  BY <1>0, <1>1 DEF Op
<1>6. /\ idx'[s][w].st = "valid" /\ idx'[s][w].id = idx[1 - s][r].id
      /\ idx'[s][w].val = idx[1 - s][r].val /\ idx'[s][w].hd
      /\ \A t \in Sect, j \in Idx : ~(t = s /\ j = w) => idx'[t][j] = idx[t][j]
  <2>1. TypeOK /\ s \in Sect /\ w \in Idx /\ idx' = [idx EXCEPT ![s][w].st = "valid"]
    BY <1>0, <1>1
  <2>2. /\ idx'[s][w].st = "valid" /\ idx'[s][w].id = idx[s][w].id
        /\ idx'[s][w].val = idx[s][w].val /\ idx'[s][w].hd = idx[s][w].hd
        /\ \A t \in Sect, j \in Idx : ~(t = s /\ j = w) => idx'[t][j] = idx[t][j]
    BY <2>1, StateOnly
  <2> QED
    BY <1>3, <2>2
<1>7. w \in Nat /\ r \in Nat /\ w + 1 \in Nat /\ r + 1 \in Nat
  BY <1>1, ConstAssumption
<1>8. TailInv'
  <2>1. \A k \in Idx : k >= w + 1 => k >= w /\ k # w
    BY <1>7, ConstAssumption
  <2>2. \A k \in Idx : k >= w + 1 => idx'[s][k].st # "valid"
    BY <1>1, <1>6, <2>1
  <2> QED
    BY <1>0, <1>4, <2>2 DEF TailInv
<1>9. CopyInv'
  <2>1. ASSUME NEW i \in Items, i # op.item \/ ~op.single
        PROVE  Latest(idx'[s], w + 1, i) = Latest(idx'[1 - s], r + 1, i)
    <3>1. \A k \in Idx : /\ w < k => ~(k < w + 1)
                         /\ r < k => ~(k < r + 1)
                         /\ w <= k /\ k < w + 1 => k = w
                         /\ r <= k /\ k < r + 1 => k = r
                         /\ k < w => k # w
      BY <1>7, ConstAssumption
    <3>2. w < w + 1 /\ r < r + 1 /\ w <= w + 1 /\ r <= r + 1
      BY <1>7
    <3>3. idx'[1 - s][r] = idx[1 - s][r]
      BY <1>1, <1>6
    <3>4. CASE i = idx[1 - s][r].id
      <4>1. Is(idx'[s], i, w) /\ Is(idx'[1 - s], i, r)
        BY <1>3, <1>6, <3>3, <3>4 DEF Is
      <4>2. Latest(idx'[s], w + 1, i) = {idx'[s][w].val}
        BY <1>1, <3>1, <3>2, <4>1, LatestTop
      <4>3. Latest(idx'[1 - s], r + 1, i) = {idx'[1 - s][r].val}
        BY <1>1, <3>1, <3>2, <4>1, LatestTop
      <4> QED
        BY <1>6, <3>3, <4>2, <4>3
    <3>5. CASE i # idx[1 - s][r].id
      <4>1. ~Is(idx'[s], i, w) /\ ~Is(idx'[1 - s], i, r)
        BY <1>6, <3>3, <3>5 DEF Is
      <4>2. Latest(idx'[s], w + 1, i) = Latest(idx'[s], w, i)
        BY <1>7, <3>1, <3>2, <4>1, LatestCut
      <4>3. Latest(idx'[1 - s], r + 1, i) = Latest(idx'[1 - s], r, i)
        BY <1>7, <3>1, <3>2, <4>1, LatestCut
      <4>4. Latest(idx'[s], w, i) = Latest(idx[s], w, i)
        <5>1. \A k \in Idx : k < w => idx'[s][k] = idx[s][k]
          BY <1>1, <1>6, <3>1
        <5> QED
          BY <5>1, LatestSame DEF Is
      <4>5. Latest(idx'[1 - s], r, i) = Latest(idx[1 - s], r, i)
        <5>1. \A k \in Idx : idx'[1 - s][k] = idx[1 - s][k]
          BY <1>1, <1>6
        <5> QED
          BY <5>1, LatestSame DEF Is
      <4> QED
        BY <1>2, <2>1, <4>2, <4>3, <4>4, <4>5
    <3> QED
      BY <3>4, <3>5
  <2> QED
    BY <1>0, <1>4, <1>5, <2>1 DEF CopyInv
<1>10. SectInv' /\ JobInv' /\ UsedInv' /\ OrphanInv'
  <2>1. \A k \in Idx : idx'[1 - s][k] = idx[1 - s][k]
    BY <1>1, <1>6
  <2>2. \A k \in Idx : /\ idx[s][k].st # "idle" => idx'[s][k].st # "idle"
                       /\ idx'[s][k].st = "valid" => idx'[s][k].hd
    BY <1>1, <1>6
  <2> QED
    BY <1>0, <1>1, <1>4, <1>5, <2>1, <2>2, LoopKeeps
<1> QED
  BY <1>8, <1>9, <1>10 DEF PInv

\* A step to the idle state that leaves the flash alone.
LEMMA IdlePInv ==
  ASSUME PInv, pc' = "idle", hdr' = hdr, idx' = idx, OrphanInv'
  PROVE  PInv'
<1>1. SectInv' /\ TailInv' /\ CopyInv' /\ JobInv'
  BY DEF SectInv, TailInv, CopyInv, JobInv
<1>2. UsedInv'
  BY DEF PInv, UsedInv
<1> QED
  BY <1>1, <1>2 DEF PInv

\* The copy loop ends: with the new item, or without room or buffer.
LEMMA CopyEndPInv == ASSUME TInv, PInv, CopyNoBuffer \/ CopyDone PROVE PInv'
<1>0. /\ pc \in CopyLoop /\ op.upd /\ op.ok /\ hdr' = hdr /\ idx' = idx /\ orphan' = orphan
  BY DEF CopyNoBuffer, CopyDone, TInv, OpInv, PInv, JobInv
<1>1. /\ op.sect \in Sect /\ 1 - op.sect \in Sect /\ (orphan \/ hdr[1 - op.sect] = "valid")
  BY <1>0, UpdHeader
<1>2. OrphanInv'
  BY <1>0, <1>1, OrphanFalse
<1>3. CASE pc' = "idle"
  BY <1>0, <1>2, <1>3, IdlePInv
<1>4. CASE pc' # "idle"
  <2>1. pc = "copy" /\ pc' = "index" /\ op' = op /\ allowed' = allowed /\ op.r = IdxNum
    BY <1>4 DEF CopyNoBuffer, CopyDone, Return
  <2>2. \A k \in Idx : idx[op.sect][k].st = "valid" => idx[op.sect][k].hd
    BY <1>1 DEF PInv, UsedInv
  <2>3. SectInv' /\ JobInv' /\ UsedInv'
    BY <1>0, <2>1, <2>2, LoopKeeps
  <2>4. TailInv' /\ CopyInv'
    BY <1>0, <2>1 DEF PInv, TailInv, CopyInv
  <2> QED
    BY <1>2, <2>3, <2>4 DEF PInv
<1> QED
  BY <1>3, <1>4

\* What the steps of nv_write_item know.
LEMMA ItemFacts ==
  ASSUME TInv, PInv, pc \in Writing
  PROVE  /\ op.ok /\ op \in Op /\ op.w \in Idx /\ op.item \in Items
         /\ op.sect \in Sect /\ 1 - op.sect \in Sect /\ op.sect # 1 - op.sect
         /\ op.del # NoIdx => op.del \in Idx /\ op.del < op.w /\ idx[op.sect][op.del].id = op.item
         /\ op.upd => op.del = NoIdx
         /\ ~op.upd => op.sect = WriteSect
         /\ TypeOK
<1>1. op \in Op /\ op.w < IdxNum /\ op.item \in Items /\ TypeOK
  BY DEF TInv, OpInv, TypeOK
<1>2. op.w \in Idx /\ op.sect \in Sect /\ 1 - op.sect \in Sect /\ op.sect # 1 - op.sect
      /\ op.del \in Idx \cup {NoIdx}
  BY <1>1, ConstAssumption DEF Op
<1>3. op.ok /\ (op.upd => op.del = NoIdx) /\ (~op.upd => op.sect = WriteSect)
  BY DEF PInv, JobInv, SectInv
<1>4. op.del # NoIdx => op.del \in Idx /\ op.del < op.w /\ idx[op.sect][op.del].id = op.item
  BY <1>2 DEF PInv, JobInv
<1> QED
  BY <1>1, <1>2, <1>3, <1>4

\* The steps of nv_write_item before the entry is made valid.
LEMMA ItemKeeps ==
  ASSUME TInv, PInv, pc \in Item, pc' \in {"payload", "header", "validate"}, op' = op,
         hdr' = hdr, allowed' = allowed, orphan' = orphan,
         \A t \in Sect, j \in Idx : ~(t = op.sect /\ j = op.w) => idx'[t][j] = idx[t][j],
         idx'[op.sect][op.w].st = "oper", idx'[op.sect][op.w].id = op.item,
         pc' \in {"header", "validate"} => idx'[op.sect][op.w].val = op.val,
         pc' = "validate" => idx'[op.sect][op.w].hd
  PROVE  PInv'
<1> DEFINE s == op.sect  w == op.w
<1>1. /\ op.ok /\ op \in Op /\ w \in Idx /\ s \in Sect /\ 1 - s \in Sect /\ s # 1 - s
      /\ op.del # NoIdx => op.del \in Idx /\ op.del < w /\ idx[s][op.del].id = op.item
      /\ op.upd => op.del = NoIdx
      /\ ~op.upd => s = WriteSect
  BY ItemFacts
<1>2. WriteSect' = WriteSect
  BY SectFacts
<1>3. \A k \in Idx : k >= w => idx[s][k].st # "valid"
  BY DEF PInv, TailInv
<1>4. SectInv'
  BY <1>2 DEF PInv, SectInv
<1>5. TailInv'
  <2>1. \A k \in Idx : k >= w => idx'[s][k].st # "valid"
    BY <1>1, <1>3
  <2> QED
    BY <2>1 DEF TailInv
<1>6. CopyInv'
  <2>1. w >= w
    BY <1>1, ConstAssumption
  <2>2. idx[s][w].st # "valid" /\ idx'[s][w].st # "valid"
    BY <1>1, <1>3, <2>1
  <2>3. \A i \in Items, n \in {w, op.r} : \A t \in Sect : Latest(idx'[t], n, i) = Latest(idx[t], n, i)
    BY <1>1, <2>2, WriteKeepsLatest
  <2>4. op.upd => /\ op.r = IdxNum
                  /\ \A i \in Items : i # op.item \/ ~op.single =>
                       Latest(idx[s], w, i) = Latest(idx[1 - s], op.r, i)
    BY DEF PInv, CopyInv
  <2> QED
    BY <1>1, <2>3, <2>4 DEF CopyInv
<1>7. JobInv'
  <2>1. op.del # NoIdx => idx'[s][op.del].id = op.item
    <3>1. op.del # NoIdx => op.del # w
      BY <1>1, ConstAssumption
    <3> QED
      BY <1>1, <3>1
  <2> QED
    BY <1>1, <2>1 DEF PInv, JobInv
<1>8. UsedInv'
  <2>1. ASSUME NEW t \in Sect
        PROVE  /\ ~Unused(idx[t]) => ~Unused(idx'[t])
               /\ \A k \in Idx : idx'[t][k].st = "valid" => idx'[t][k].hd
    <3>1. ASSUME NEW k \in Idx
          PROVE  /\ idx[t][k].st # "idle" => idx'[t][k].st # "idle"
                 /\ idx'[t][k].st = "valid" => idx'[t][k].hd
      BY <1>1 DEF PInv, UsedInv
    <3> QED
      BY <3>1 DEF Unused
  <2> QED
    BY <1>1, <2>1 DEF PInv, UsedInv
<1>9. OrphanInv'
  <2>1. CASE op.upd
    BY <2>1, UpdHeader, OrphanFalse
  <2>2. CASE ~op.upd
    <3> SUFFICES ASSUME ~orphan, hdr[0] # "valid", hdr[1] # "valid"
                 PROVE  (\A i \in Items : Nil \in allowed[i]) /\ InWindow'
      BY DEF OrphanInv
    <3>1. (\A i \in Items : Nil \in allowed[i]) /\ (Unused(idx[0]) \/ InWindow)
      BY DEF PInv, OrphanInv
    <3>2. s = 0
      BY <1>1, <2>2 DEF WriteSect
    <3>3. op.w = 0
      <4>1. CASE pc = "index"
        <5>1. Unused(idx[0])
          BY <3>1, <4>1 DEF InWindow
        <5>2. op.w > 0 => idx[s][op.w - 1].st # "idle"
          BY <4>1 DEF TInv, SlotInv
        <5>3. op.w > 0 => op.w - 1 \in Idx
          BY <1>1, ConstAssumption
        <5>4. op.w >= 0
          BY <1>1, ConstAssumption
        <5>5. ~(op.w > 0)
          BY <3>2, <5>1, <5>2, <5>3 DEF Unused
        <5> QED
          BY <1>1, <5>4, <5>5, ConstAssumption
      <4>2. CASE pc # "index"
        <5>1. idx[s][w].st = "oper"
          BY <4>2 DEF TInv, SlotInv
        <5>2. ~Unused(idx[0])
          BY <1>1, <3>2, <5>1 DEF Unused
        <5> QED
          BY <3>1, <4>2, <5>2 DEF InWindow
      <4> QED
        BY <4>1, <4>2
    <3>4. InWindow'
      BY <2>2, <3>3 DEF InWindow
    <3> QED
      BY <3>1, <3>4
  <2> QED
    BY <2>1, <2>2
<1> QED
  BY <1>4, <1>5, <1>6, <1>7, <1>8, <1>9 DEF PInv

\* nv_write_item up to the item header; the payload reads back.
LEMMA ItemPInv ==
  ASSUME TInv, PInv, ~Faults, WriteIndex \/ WritePayload \/ WriteItemHeader
  PROVE  PInv'
<1> DEFINE s == op.sect  w == op.w
<1>0. /\ pc \in Item /\ hdr' = hdr /\ allowed' = allowed /\ orphan' = orphan
  BY DEF WriteIndex, WritePayload, WriteItemHeader
<1>1. op \in Op /\ w \in Idx /\ s \in Sect /\ TypeOK /\ idx[s][w] \in Entry
  BY <1>0, ItemFacts DEF TypeOK
<1>2. CASE WriteIndex
  <2>1. pc' = "payload" /\ op' = op
    BY <1>2 DEF WriteIndex
  <2>2. /\ idx'[s][w].st = "oper" /\ idx'[s][w].id = op.item
        /\ \A t \in Sect, j \in Idx : ~(t = s /\ j = w) => idx'[t][j] = idx[t][j]
    BY <1>1, <1>2 DEF WriteIndex, TypeOK
  <2> QED
    BY <1>0, <2>1, <2>2, ItemKeeps
<1>3. CASE WritePayload
  <2>1. pc = "payload" /\ pc' = "header" /\ op' = op /\ idx' = [idx EXCEPT ![s][w].val = op.val]
    BY <1>3 DEF WritePayload
  <2>2. /\ idx'[s][w] = [idx[s][w] EXCEPT !.val = op.val]
        /\ \A t \in Sect, j \in Idx : ~(t = s /\ j = w) => idx'[t][j] = idx[t][j]
    <3>1. /\ idx'[s] = [idx[s] EXCEPT ![w].val = op.val]
          /\ \A t \in Sect : t # s => idx'[t] = idx[t]
      BY <1>1, <2>1 DEF TypeOK
    <3> QED
      BY <1>1, <3>1 DEF TypeOK
  <2>3. idx[s][w].st = "oper" /\ idx[s][w].id = op.item
    BY <2>1 DEF TInv, SlotInv, PInv, TailInv
  <2>4. idx'[s][w].st = "oper" /\ idx'[s][w].id = op.item /\ idx'[s][w].val = op.val
    BY <1>1, <2>2, <2>3 DEF Entry
  <2>5. \A t \in Sect, j \in Idx : ~(t = s /\ j = w) => idx'[t][j] = idx[t][j]
    BY <2>2
  <2> QED
    BY <1>0, <2>1, <2>4, <2>5, ItemKeeps
<1>4. CASE WriteItemHeader
  <2>1. /\ pc = "header" /\ idx[s][w].val = op.val
        /\ idx[s][w].st = "oper" /\ idx[s][w].id = op.item
    BY <1>4 DEF WriteItemHeader, TInv, SlotInv, PInv, TailInv
  <2>2. pc' = "validate" /\ op' = op /\ idx' = [idx EXCEPT ![s][w].hd = TRUE]
    BY <1>4, <2>1 DEF WriteItemHeader
  <2>3. /\ idx'[s][w] = [idx[s][w] EXCEPT !.hd = TRUE]
        /\ \A t \in Sect, j \in Idx : ~(t = s /\ j = w) => idx'[t][j] = idx[t][j]
    <3>1. /\ idx'[s] = [idx[s] EXCEPT ![w].hd = TRUE]
          /\ \A t \in Sect : t # s => idx'[t] = idx[t]
      BY <1>1, <2>2 DEF TypeOK
    <3> QED
      BY <1>1, <3>1 DEF TypeOK
  <2>4. idx'[s][w].st = "oper" /\ idx'[s][w].id = op.item /\ idx'[s][w].val = op.val
    BY <1>1, <2>1, <2>3 DEF Entry
  <2>5. idx'[s][w].hd
    BY <1>1, <2>3 DEF Entry
  <2>6. \A t \in Sect, j \in Idx : ~(t = s /\ j = w) => idx'[t][j] = idx[t][j]
    BY <2>3
  <2> QED
    BY <1>0, <2>2, <2>4, <2>5, <2>6, ItemKeeps
<1> QED
  BY <1>2, <1>3, <1>4

\* The new entry of the item becomes valid.
LEMMA ValidatePInv == ASSUME TInv, HInv, PInv, Validate PROVE PInv'
<1> DEFINE s == op.sect  w == op.w
<1>0. /\ pc = "validate" /\ op' = op /\ hdr' = hdr /\ allowed' = allowed /\ orphan' = orphan
      /\ idx' = [idx EXCEPT ![s][w].st = "valid"] /\ pc' = AfterItem(TRUE)
  BY DEF Validate
<1>1. /\ op.ok /\ op \in Op /\ w \in Idx /\ s \in Sect /\ 1 - s \in Sect /\ s # 1 - s
      /\ op.del # NoIdx => op.del \in Idx /\ op.del < w /\ idx[s][op.del].id = op.item
      /\ op.upd => op.del = NoIdx
      /\ ~op.upd => s = WriteSect
      /\ TypeOK
  BY <1>0, ItemFacts
\* Where the write goes on.
<1>2. /\ pc' \in After
      /\ pc' = "delete" => op.del # NoIdx
      /\ pc' = "oldHeader" => op.upd
      /\ op.upd => pc' = "oldHeader"
      /\ pc' = "newHeader" => ~op.upd /\ w = 0
      /\ ~op.upd /\ w = 0 /\ op.del = NoIdx => pc' = "newHeader"
  BY <1>0, <1>1 DEF AfterItem, HeaderStep
<1>3. /\ idx[s][w].id = op.item /\ idx[s][w].val = op.val /\ idx[s][w].hd /\ idx[s][w].st = "oper"
      /\ \A k \in Idx : k >= w => idx[s][k].st # "valid"
  BY <1>0 DEF PInv, TailInv, TInv, SlotInv
<1>4. /\ idx'[s][w].st = "valid" /\ idx'[s][w].id = op.item
      /\ idx'[s][w].val = op.val /\ idx'[s][w].hd
      /\ \A t \in Sect, j \in Idx : ~(t = s /\ j = w) => idx'[t][j] = idx[t][j]
  <2>1. TypeOK /\ s \in Sect /\ w \in Idx /\ idx' = [idx EXCEPT ![s][w].st = "valid"]
    BY <1>0, <1>1
  <2>2. /\ idx'[s][w].st = "valid" /\ idx'[s][w].id = idx[s][w].id
        /\ idx'[s][w].val = idx[s][w].val /\ idx'[s][w].hd = idx[s][w].hd
        /\ \A t \in Sect, j \in Idx : ~(t = s /\ j = w) => idx'[t][j] = idx[t][j]
    BY <2>1, StateOnly
  <2> QED
    BY <1>3, <2>2
<1>5. \A k \in Idx : /\ k > w => k >= w /\ k # w
                     /\ k < w => k # w
                     /\ w <= k => k >= w
  BY <1>1, ConstAssumption
<1>6. SectInv'
  <2>1. WriteSect' = WriteSect
    BY <1>0, SectFacts
  <2>2. op.upd => s = 1 - WriteSect /\ hdr[s] = "idle"
    BY <1>0 DEF PInv, SectInv
  <2>3. ~op.upd => hdr[1 - s] # "valid"
    BY <1>0 DEF HInv, HdrInv
  <2> QED
    BY <1>0, <1>1, <1>2, <2>1, <2>2, <2>3 DEF SectInv
<1>7. TailInv'
  <2>1. \A k \in Idx : k > w => idx'[s][k].st # "valid"
    BY <1>1, <1>3, <1>4, <1>5
  <2> QED
    BY <1>0, <1>2, <1>4, <2>1 DEF TailInv, Is
<1>8. CopyInv'
  <2>1. ASSUME op.upd, NEW i \in Items, i # op.item
        PROVE  L(s, i)' = L(1 - s, i)'
    <3>1. op.r = IdxNum /\ Latest(idx[s], w, i) = Latest(idx[1 - s], op.r, i)
      BY <1>0, <2>1 DEF PInv, CopyInv
    <3>2. w \in Nat /\ IdxNum \in Nat /\ w <= IdxNum
      BY <1>1, ConstAssumption
    <3>3. \A k \in Idx : w <= k /\ k < IdxNum => ~Is(idx'[s], i, k)
      BY <1>1, <1>3, <1>4, <1>5, <2>1 DEF Is
    <3>4. Latest(idx'[s], IdxNum, i) = Latest(idx'[s], w, i)
      BY <3>2, <3>3, LatestCut
    <3>5. Latest(idx'[s], w, i) = Latest(idx[s], w, i)
      <4>1. \A k \in Idx : k < w => idx'[s][k] = idx[s][k]
        BY <1>1, <1>4, <1>5
      <4> QED
        BY <4>1, LatestSame DEF Is
    <3>6. Latest(idx'[1 - s], IdxNum, i) = Latest(idx[1 - s], IdxNum, i)
      <4>1. \A k \in Idx : idx'[1 - s][k] = idx[1 - s][k]
        BY <1>1, <1>4
      <4> QED
        BY <4>1, LatestSame DEF Is
    <3> QED
      BY <1>0, <3>1, <3>4, <3>5, <3>6 DEF L
  <2> QED
    BY <1>0, <1>2, <2>1 DEF CopyInv
<1>9. JobInv'
  <2>1. op.del # NoIdx => idx'[s][op.del].id = op.item
    BY <1>1, <1>4, <1>5
  <2> QED
    BY <1>0, <1>1, <1>2, <2>1 DEF PInv, JobInv
<1>10. UsedInv'
  <2>1. ASSUME NEW t \in Sect
        PROVE  /\ ~Unused(idx[t]) => ~Unused(idx'[t])
               /\ \A k \in Idx : idx'[t][k].st = "valid" => idx'[t][k].hd
    <3>1. ASSUME NEW k \in Idx
          PROVE  /\ idx[t][k].st # "idle" => idx'[t][k].st # "idle"
                 /\ idx'[t][k].st = "valid" => idx'[t][k].hd
      BY <1>1, <1>4 DEF PInv, UsedInv
    <3> QED
      BY <3>1 DEF Unused
  <2> QED
    BY <1>0, <1>1, <1>2, <2>1 DEF PInv, UsedInv
<1>11. OrphanInv'
  <2>1. CASE op.upd
    BY <1>0, <2>1, UpdHeader, OrphanFalse
  <2>2. CASE ~op.upd
    <3> SUFFICES ASSUME ~orphan, hdr[0] # "valid", hdr[1] # "valid", pc' # "newHeader"
                 PROVE  FALSE
      BY <1>0 DEF OrphanInv
    <3>1. Unused(idx[0]) \/ InWindow
      BY <1>0 DEF PInv, OrphanInv
    <3>2. s = 0
      BY <1>1, <2>2 DEF WriteSect
    <3>3. ~Unused(idx[0])
      BY <1>1, <1>3, <3>2 DEF Unused
    <3>4. w = 0
      BY <1>0, <3>1, <3>3 DEF InWindow
    <3>5. op.del = NoIdx
      BY <1>1, <3>4, ConstAssumption
    <3> QED
      BY <1>2, <2>2, <3>4, <3>5
  <2> QED
    BY <2>1, <2>2
<1> QED
  BY <1>6, <1>7, <1>8, <1>9, <1>10, <1>11 DEF PInv

\* The entry found before the write is deleted; the new one is above it.
LEMMA DeleteOldPInv == ASSUME TInv, PInv, ~LockCoversNv, DeleteOld PROVE PInv'
<1> DEFINE s == op.sect  w == op.w  d == op.del
<1>0. /\ pc = "delete" /\ op' = op /\ hdr' = hdr /\ allowed' = allowed /\ orphan' = orphan
      /\ idx' = [idx EXCEPT ![s][d].st = "invalid"]
      /\ pc' = IF op.ok THEN HeaderStep ELSE "return"
  BY DEF DeleteOld, Dropped
<1>1. /\ op.ok /\ op \in Op /\ w \in Idx /\ s \in Sect /\ 1 - s \in Sect /\ s # 1 - s
      /\ d # NoIdx => d \in Idx /\ d < w /\ idx[s][d].id = op.item
      /\ op.upd => d = NoIdx
      /\ ~op.upd => s = WriteSect
      /\ TypeOK
  BY <1>0, ItemFacts
<1>2. d \in Idx /\ d < w /\ ~op.upd /\ s = WriteSect /\ w # 0 /\ idx[s][d].id = op.item
  <2>1. d # NoIdx
    BY <1>0 DEF TInv, OpInv
  <2>2. d \in Idx /\ d < w /\ ~op.upd /\ idx[s][d].id = op.item
    BY <1>1, <2>1
  <2> QED
    BY <1>1, <2>2, ConstAssumption
<1>3. pc' = "return"
  BY <1>0, <1>1, <1>2 DEF HeaderStep
<1>4. /\ Is(idx[s], op.item, w) /\ idx[s][w].val = op.val
      /\ \A k \in Idx : k > w => idx[s][k].st # "valid"
  BY <1>0 DEF PInv, TailInv
<1>5. /\ idx'[s][d].st = "invalid" /\ idx'[s][d].id = idx[s][d].id
      /\ \A t \in Sect, j \in Idx : ~(t = s /\ j = d) => idx'[t][j] = idx[t][j]
  <2>1. TypeOK /\ s \in Sect /\ d \in Idx /\ idx' = [idx EXCEPT ![s][d].st = "invalid"]
    BY <1>0, <1>1, <1>2
  <2>2. /\ idx'[s][d].st = "invalid" /\ idx'[s][d].id = idx[s][d].id
        /\ idx'[s][d].val = idx[s][d].val /\ idx'[s][d].hd = idx[s][d].hd
        /\ \A t \in Sect, j \in Idx : ~(t = s /\ j = d) => idx'[t][j] = idx[t][j]
    BY <2>1, StateOnly
  <2> QED
    BY <2>2
<1>6. \A k \in Idx : k >= w => k # d
  BY <1>1, <1>2, ConstAssumption
<1>7. w >= w /\ \A k \in Idx : k > w => k >= w
  BY <1>1, ConstAssumption
<1>8. SectInv'
  <2>1. WriteSect' = WriteSect
    BY <1>0, SectFacts
  <2> QED
    BY <1>0, <1>2, <1>3, <2>1 DEF SectInv
<1>9. TailInv'
  <2>1. idx'[s][w] = idx[s][w]
    BY <1>1, <1>5, <1>6, <1>7
  <2>2. \A k \in Idx : k > w => idx'[s][k].st # "valid"
    BY <1>1, <1>4, <1>5, <1>6, <1>7
  <2> QED
    BY <1>0, <1>3, <1>4, <2>1, <2>2 DEF TailInv, Is
<1>10. CopyInv' /\ JobInv'
  BY <1>0, <1>1, <1>2, <1>3, <1>5 DEF PInv, CopyInv, JobInv
<1>11. UsedInv'
  <2>1. ASSUME NEW t \in Sect
        PROVE  /\ ~Unused(idx[t]) => ~Unused(idx'[t])
               /\ \A k \in Idx : idx'[t][k].st = "valid" => idx'[t][k].hd
    <3>1. ASSUME NEW k \in Idx
          PROVE  /\ idx[t][k].st # "idle" => idx'[t][k].st # "idle"
                 /\ idx'[t][k].st = "valid" => idx'[t][k].hd
      BY <1>1, <1>5 DEF PInv, UsedInv
    <3> QED
      BY <3>1 DEF Unused
  <2> QED
    BY <1>0, <1>1, <1>2, <1>3, <2>1 DEF PInv, UsedInv
<1>12. OrphanInv'
  <2> SUFFICES ASSUME ~orphan, hdr[0] # "valid", hdr[1] # "valid" PROVE FALSE
    BY <1>0 DEF OrphanInv
  <2>1. Unused(idx[0])
    BY <1>0 DEF PInv, OrphanInv, InWindow
  <2>2. s = 0
    BY <1>2 DEF WriteSect
  <2> QED
    BY <1>1, <1>4, <2>1, <2>2 DEF Unused, Is
<1> QED
  BY <1>8, <1>9, <1>10, <1>11, <1>12 DEF PInv

\* The header of the old sector becomes invalid.
LEMMA OldHeaderPInv == ASSUME TInv, PInv, ~LockCoversNv, InvalidateOldHeader PROVE PInv'
<1> DEFINE s == op.sect
<1>0. /\ pc = "oldHeader" /\ pc' = "newHeader" /\ op' = op /\ idx' = idx
      /\ allowed' = allowed /\ orphan' = orphan /\ hdr' = ProgramHdr(1 - s, "invalid")
  BY DEF InvalidateOldHeader, Dropped, OldSect
<1>1. op.upd /\ hdr[s] = "idle"
  BY <1>0 DEF PInv, SectInv
<1>2. /\ s \in Sect /\ 1 - s \in Sect /\ s # 1 - s
  BY <1>0, <1>1, UpdHeader
<1>3. hdr'[1 - s] = "invalid" /\ hdr'[s] = "idle"
  BY <1>0, <1>1, <1>2 DEF ProgramHdr, TInv, TypeOK
<1>4. SectInv'
  BY <1>0, <1>1, <1>3 DEF SectInv
<1>5. TailInv' /\ JobInv'
  BY <1>0 DEF PInv, TailInv, JobInv
<1>6. CopyInv'
  BY <1>0, <1>1 DEF PInv, CopyInv, L
<1>7. UsedInv'
  <2>1. ~Unused(idx[1 - s])
    BY <1>0, <1>1 DEF PInv, UsedInv
  <2>2. \A t \in Sect : hdr'[t] = "invalid" => ~Unused(idx'[t])
    BY <1>0, <1>2, <1>3, <2>1
  <2>3. \A t \in Sect, k \in Idx : idx'[t][k].st = "valid" => idx'[t][k].hd
    BY <1>0 DEF PInv, UsedInv
  <2> QED
    BY <1>0, <1>1, <2>2, <2>3 DEF UsedInv
<1>8. OrphanInv'
  BY <1>0 DEF OrphanInv
<1> QED
  BY <1>4, <1>5, <1>6, <1>7, <1>8 DEF PInv

\* The new header takes: it was erased, so the sector in use is the new one.
LEMMA NewHeader ==
  ASSUME TInv, PInv, ~LockCoversNv, ValidateNewHeader
  PROVE  /\ op.sect \in Sect /\ 1 - op.sect \in Sect /\ op.sect # 1 - op.sect
         /\ hdr'[op.sect] = "valid" /\ hdr'[1 - op.sect] = hdr[1 - op.sect]
         /\ hdr[1 - op.sect] # "valid" /\ WriteSect' = op.sect
<1>0. pc = "newHeader" /\ hdr' = ProgramHdr(op.sect, "valid")
  BY DEF ValidateNewHeader, Dropped
<1>1. op.sect \in Sect /\ 1 - op.sect \in Sect /\ op.sect # 1 - op.sect
  BY <1>0, ItemFacts
<1>2. hdr[1 - op.sect] # "valid" /\ (op.upd => hdr[op.sect] = "idle") /\ (~op.upd => op.w = 0)
  BY <1>0 DEF PInv, SectInv
<1>3. hdr[op.sect] # "invalid"
  BY <1>0, <1>2 DEF PInv, UsedInv
<1>4. hdr'[op.sect] = "valid" /\ hdr'[1 - op.sect] = hdr[1 - op.sect]
  BY <1>0, <1>1, <1>3 DEF ProgramHdr, TInv, TypeOK
<1>5. WriteSect' = op.sect
  BY <1>1, <1>2, <1>4 DEF WriteSect
<1> QED
  BY <1>1, <1>2, <1>4, <1>5

\* The header of the new sector becomes valid.
LEMMA NewHeaderPInv == ASSUME TInv, PInv, ~LockCoversNv, ValidateNewHeader PROVE PInv'
<1> DEFINE s == op.sect
<1>0. pc = "newHeader" /\ pc' = "return" /\ op' = op /\ idx' = idx /\ allowed' = allowed
  BY DEF ValidateNewHeader
<1>1. /\ s \in Sect /\ 1 - s \in Sect /\ s # 1 - s
      /\ hdr'[s] = "valid" /\ hdr'[1 - s] = hdr[1 - s] /\ WriteSect' = s
  BY NewHeader
<1>2. SectInv'
  BY <1>0, <1>1 DEF SectInv
<1>3. TailInv' /\ CopyInv' /\ JobInv'
  BY <1>0 DEF PInv, TailInv, CopyInv, JobInv
<1>4. UsedInv'
  <2>1. \A t \in Sect : hdr'[t] = "invalid" => ~Unused(idx'[t])
    BY <1>0, <1>1 DEF PInv, UsedInv
  <2>2. \A t \in Sect, k \in Idx : idx'[t][k].st = "valid" => idx'[t][k].hd
    BY <1>0 DEF PInv, UsedInv
  <2> QED
    BY <1>0, <1>1, <2>1, <2>2 DEF UsedInv
<1>5. OrphanInv'
  BY <1>1, OrphanFalse
<1> QED
  BY <1>2, <1>3, <1>4, <1>5 DEF PInv

\* The sector of a write that returns is the one in use and holds its payload
\* as the newest of the item.
LEMMA ReturnFacts ==
  ASSUME TInv, PInv, pc = "return"
  PROVE  /\ op.sect = WriteSect /\ op.sect \in Sect /\ op.w \in Idx /\ op.item \in Items
         /\ Is(idx[op.sect], op.item, op.w) /\ L(op.sect, op.item) = {op.val}
<1>1. op.sect \in Sect /\ op.w \in Idx /\ op.item \in Items
  BY ItemFacts
<1>2. op.sect = WriteSect
  BY DEF PInv, SectInv
<1>3. /\ Is(idx[op.sect], op.item, op.w) /\ idx[op.sect][op.w].val = op.val
      /\ \A k \in Idx : k > op.w => idx[op.sect][k].st # "valid"
  BY DEF PInv, TailInv
<1>4. op.w < IdxNum /\ \A k \in Idx : op.w < k => k > op.w
  BY <1>1, ConstAssumption
<1>5. \A k \in Idx : op.w < k /\ k < IdxNum => ~Is(idx[op.sect], op.item, k)
  BY <1>3, <1>4 DEF Is
<1>6. Latest(idx[op.sect], IdxNum, op.item) = {op.val}
  BY <1>1, <1>3, <1>4, <1>5, LatestTop
<1> QED
  BY <1>1, <1>2, <1>3, <1>6 DEF L

\* A write returns.
LEMMA ReturnPInv == ASSUME TInv, PInv, WriteReturn PROVE PInv'
<1>0. pc = "return" /\ pc' = "idle" /\ hdr' = hdr /\ idx' = idx /\ op.ok /\ orphan' = orphan
  <2>1. pc = "return" /\ pc' = "idle" /\ hdr' = hdr /\ idx' = idx
    BY DEF WriteReturn, Return
  <2>2. op.ok
    BY <2>1 DEF PInv, JobInv
  <2>3. orphan' = (orphan \/ (~op.ok /\ ~op.upd /\ op.w = 0)) /\ orphan \in BOOLEAN
    BY DEF WriteReturn, TInv, TypeOK
  <2>4. orphan' = orphan
    BY <2>2, <2>3, Zenon
  <2> QED
    BY <2>1, <2>2, <2>4
<1>1. OrphanInv'
  <2> SUFFICES ASSUME ~orphan, hdr[0] # "valid", hdr[1] # "valid" PROVE FALSE
    BY <1>0 DEF OrphanInv
  <2>1. Unused(idx[0])
    BY <1>0 DEF PInv, OrphanInv, InWindow
  <2>2. op.sect = 0
    BY <1>0, ReturnFacts DEF WriteSect
  <2> QED
    BY <1>0, <2>1, <2>2, ReturnFacts DEF Unused, Is
<1> QED
  BY <1>0, <1>1, IdlePInv

\* nv_itemDeleteByIndex.
LEMMA DeletePInv == ASSUME TInv, PInv, NEW i \in Items, ItemDelete(i) PROVE PInv'
<1>1. PICK s \in Sect, k \in Idx :
        /\ ValidSect(s) /\ Newest(idx[s], IdxNum, i, k)
        /\ idx' = [idx EXCEPT ![s][k].st = "invalid"]
  BY DEF ItemDelete
<1>2. pc = "idle" /\ pc' = "idle" /\ hdr' = hdr /\ TypeOK
  BY DEF ItemDelete, TInv
<1>3. /\ idx'[s][k].st = "invalid" /\ idx'[s][k].id = idx[s][k].id
      /\ idx'[s][k].val = idx[s][k].val /\ idx'[s][k].hd = idx[s][k].hd
      /\ \A t \in Sect, j \in Idx : ~(t = s /\ j = k) => idx'[t][j] = idx[t][j]
  <2>1. idx' = [idx EXCEPT ![s][k].st = "invalid"] /\ TypeOK
    BY <1>1, <1>2
  <2> QED
    BY <2>1, StateOnly
<1>4. SectInv' /\ TailInv' /\ CopyInv' /\ JobInv'
  BY <1>2 DEF SectInv, TailInv, CopyInv, JobInv
<1>5. UsedInv'
  <2>1. ASSUME NEW t \in Sect
        PROVE  /\ ~Unused(idx[t]) => ~Unused(idx'[t])
               /\ \A j \in Idx : idx'[t][j].st = "valid" => idx'[t][j].hd
    <3>1. ASSUME NEW j \in Idx
          PROVE  /\ idx[t][j].st # "idle" => idx'[t][j].st # "idle"
                 /\ idx'[t][j].st = "valid" => idx'[t][j].hd
      BY <1>3 DEF PInv, UsedInv
    <3> QED
      BY <3>1 DEF Unused
  <2> QED
    BY <1>2, <2>1 DEF PInv, UsedInv
<1>6. OrphanInv'
  BY <1>1, <1>2, OrphanFalse DEF ValidSect
<1> QED
  BY <1>4, <1>5, <1>6 DEF PInv

\* nv_resetModule.
LEMMA ResetPInv ==
  ASSUME TInv, PInv, ResetStart \/ \E s \in Sect : ResetErase(s)
  PROVE  PInv'
<1>1. CASE ResetStart
  <2>1. /\ pc = "idle" /\ pc' = "reset0" /\ hdr' = hdr /\ idx' = idx /\ orphan' = orphan
        /\ \A i \in Items : Nil \in allowed'[i]
    BY <1>1 DEF ResetStart
  <2>2. SectInv' /\ TailInv' /\ CopyInv' /\ JobInv' /\ UsedInv'
    BY <2>1 DEF PInv, SectInv, TailInv, CopyInv, JobInv, UsedInv
  <2>3. OrphanInv'
    BY <2>1 DEF PInv, OrphanInv, InWindow
  <2> QED
    BY <2>2, <2>3 DEF PInv
<1>2. ASSUME NEW s \in Sect, ResetErase(s) PROVE PInv'
  <2>1. /\ pc = (IF s = 0 THEN "reset0" ELSE "reset1") /\ pc' = IF s = 0 THEN "reset1" ELSE "idle"
        /\ idx' = [idx EXCEPT ![s] = ErasedIdx] /\ hdr' = [hdr EXCEPT ![s] = "idle"]
    BY <1>2 DEF ResetErase
  <2>2. /\ idx'[s] = ErasedIdx /\ hdr'[s] = "idle"
        /\ \A t \in Sect : t # s => idx'[t] = idx[t] /\ hdr'[t] = hdr[t]
    BY <2>1 DEF TInv, TypeOK
  <2>3. \A i \in Items : Nil \in allowed'[i]
    BY <1>2, <2>1 DEF ResetErase, PInv, JobInv
  <2>4. \A k \in Idx : ErasedIdx[k].st = "idle"
    BY DEF ErasedIdx, IdleEntry
  <2>5. idx'[0] = ErasedIdx /\ hdr'[0] = "idle"
    BY <2>1, <2>2 DEF PInv, JobInv
  <2>6. SectInv' /\ TailInv' /\ CopyInv' /\ JobInv'
    BY <2>1, <2>3, <2>5 DEF SectInv, TailInv, CopyInv, JobInv
  <2>7. UsedInv'
    <3>1. ASSUME NEW t \in Sect
          PROVE  /\ hdr'[t] = "invalid" => ~Unused(idx'[t])
                 /\ \A k \in Idx : idx'[t][k].st = "valid" => idx'[t][k].hd
      <4>1. CASE t = s
        BY <2>2, <2>4, <4>1
      <4>2. CASE t # s
        BY <2>2, <4>2 DEF PInv, UsedInv
      <4> QED
        BY <4>1, <4>2
    <3> QED
      BY <2>1, <3>1 DEF UsedInv
  <2>8. OrphanInv'
    BY <2>3, <2>4, <2>5 DEF OrphanInv, Unused
  <2> QED
    BY <2>6, <2>7, <2>8 DEF PInv
<1> QED
  BY <1>1, <1>2

\* Power fails: outside the windows the store without a header is empty.
LEMMA CrashPInv == ASSUME TInv, PInv, Crash PROVE PInv'
<1>1. /\ pc' = "idle" /\ hdr' = hdr /\ idx' = idx /\ allowed' = allowed
  BY DEF Crash
<1>2. orphan' = (orphan \/ InWindow)
  BY DEF Crash
<1>3. OrphanInv'
  <2>1. CASE orphan \/ InWindow
    <3>1. orphan'
      BY <1>2, <2>1, Zenon
    <3> QED
      BY <3>1 DEF OrphanInv
  <2>2. CASE ~orphan /\ ~InWindow
    <3>1. pc # "newHeader"
      BY <2>2 DEF InWindow
    <3> QED
      BY <1>1, <2>2, <3>1 DEF PInv, OrphanInv
  <2> QED
    BY <2>1, <2>2
<1> QED
  BY <1>1, <1>3, IdlePInv

\* At first power-on both sectors are erased and nothing runs.
LEMMA InitPInv == Init => PInv
<1> SUFFICES ASSUME Init PROVE PInv
  OBVIOUS
<1>1. /\ pc = "idle" /\ \A s \in Sect : hdr[s] = "idle"
      /\ \A s \in Sect, k \in Idx : idx[s][k].st = "idle"
      /\ \A i \in Items : Nil \in allowed[i]
  BY DEF Init, ErasedIdx, IdleEntry
<1>2. SectInv /\ TailInv /\ CopyInv /\ JobInv
  BY <1>1 DEF SectInv, TailInv, CopyInv, JobInv
<1>3. UsedInv /\ OrphanInv
  BY <1>1 DEF UsedInv, OrphanInv, Unused
<1> QED
  BY <1>2, <1>3 DEF PInv

\* Every step of drv_nv.c keeps the account of the two sectors.
LEMMA StepPInv ==
  ASSUME ~Faults, ~LockCoversNv
  PROVE  TInv /\ HInv /\ PInv /\ [Next]_vars => PInv'
<1> SUFFICES ASSUME TInv, HInv, PInv, [Next]_vars PROVE PInv'
  OBVIOUS
<1>1. CASE \E c \in Writes : WriteStart(c[1], c[2], c[3])
  BY <1>1, StartPInv
<1>2. CASE EraseNew
  BY <1>2, ErasePInv
<1>3. CASE CopySkip \/ CopyIndex \/ CopyData \/ CopyNoBuffer \/ CopyValid \/ CopyDone
  BY <1>3, SkipPInv, CopyIndexPInv, CopyDataPInv, CopyValidPInv, CopyEndPInv
<1>4. CASE WriteIndex \/ WritePayload \/ WriteItemHeader \/ Validate \/ DeleteOld
  BY <1>4, ItemPInv, ValidatePInv, DeleteOldPInv
<1>5. CASE InvalidateOldHeader \/ ValidateNewHeader \/ WriteReturn
  BY <1>5, OldHeaderPInv, NewHeaderPInv, ReturnPInv
<1>6. CASE \E i \in Items : ItemDelete(i)
  BY <1>6, DeletePInv
<1>7. CASE ResetStart \/ \E s \in Sect : ResetErase(s)
  BY <1>7, ResetPInv
<1>8. CASE Crash
  BY <1>8, CrashPInv
<1>9. CASE UNCHANGED vars
  <2>1. /\ hdr' = hdr /\ idx' = idx /\ pc' = pc /\ op' = op /\ allowed' = allowed /\ orphan' = orphan
    BY <1>9 DEF vars
  <2>2. SectInv' /\ TailInv' /\ JobInv'
    BY <2>1 DEF PInv, SectInv, TailInv, JobInv, WriteSect, Carried, Is
  <2>3. CopyInv'
    BY <2>1 DEF PInv, CopyInv, L
  <2>4. UsedInv' /\ OrphanInv'
    BY <2>1 DEF PInv, UsedInv, OrphanInv, InWindow
  <2> QED
    BY <2>2, <2>3, <2>4 DEF PInv
<1> QED
  BY <1>1, <1>2, <1>3, <1>4, <1>5, <1>6, <1>7, <1>8, <1>9 DEF Next

---------------------------------------------------------------------------
(* What a reader sees *)

\* The payload of an item in the sector in use.
Seen(i) == Latest(idx[WriteSect], IdxNum, i)

\* Steps that show nothing: they do not touch the sector in use, or only an
\* entry of it that is not valid.
LEMMA SeenSame ==
  ASSUME TInv, PInv, ~LockCoversNv,
         \/ \E c \in Writes : WriteStart(c[1], c[2], c[3])
         \/ EraseNew \/ CopySkip \/ CopyIndex \/ CopyData \/ CopyNoBuffer \/ CopyValid \/ CopyDone
         \/ WriteIndex \/ WritePayload \/ WriteItemHeader \/ WriteReturn
         \/ ResetStart \/ Crash
  PROVE  \A i \in Items : Seen(i)' = Seen(i)
<1>1. CASE hdr' = hdr /\ idx' = idx
  BY <1>1, SectFacts DEF Seen
<1>2. ASSUME hdr' = hdr, NEW s \in Sect, s # WriteSect, \A k \in Idx : idx'[1 - s][k] = idx[1 - s][k]
      PROVE  \A i \in Items : Seen(i)' = Seen(i)
  <2>1. WriteSect' = 1 - s /\ WriteSect = 1 - s
    BY <1>2, SectFacts
  <2> QED
    BY <1>2, <2>1, LatestSame DEF Seen, Is
<1>3. CASE EraseNew
  <2>1. pc = "erase" /\ op.upd
    BY <1>3 DEF EraseNew, TInv, OpInv
  <2>2. /\ op.sect \in Sect /\ 1 - op.sect \in Sect /\ op.sect # 1 - op.sect /\ WriteSect = 1 - op.sect
    BY <2>1, UpdHeader
  <2>3. hdr'[op.sect] = "idle" /\ hdr'[1 - op.sect] = hdr[1 - op.sect] /\ idx'[1 - op.sect] = idx[1 - op.sect]
    BY <1>3, <2>2 DEF EraseNew, TInv, TypeOK
  <2>4. WriteSect' = 1 - op.sect
    BY <2>2, <2>3 DEF WriteSect
  <2> QED
    BY <2>2, <2>3, <2>4 DEF Seen
<1>4. CASE CopyIndex \/ CopyData \/ CopyValid
  <2>1. pc \in CopyLoop /\ op.upd /\ op.sect \in Sect /\ hdr' = hdr
    BY <1>4 DEF CopyIndex, CopyData, CopyValid, TInv, OpInv, TypeOK, Op
  <2>2. op.sect # WriteSect /\ 1 - op.sect \in Sect /\ op.sect # 1 - op.sect
    BY <2>1, UpdHeader
  <2>3. idx'[1 - op.sect] = idx[1 - op.sect]
    BY <1>4, <2>1, <2>2 DEF CopyIndex, CopyData, CopyValid, TInv, TypeOK
  <2> QED
    BY <1>2, <2>1, <2>2, <2>3
<1>5. CASE WriteIndex \/ WritePayload \/ WriteItemHeader
  <2>0. pc \in Item /\ hdr' = hdr
    BY <1>5 DEF WriteIndex, WritePayload, WriteItemHeader
  <2>1. op.sect \in Sect /\ op.w \in Idx /\ TypeOK
    BY <2>0, ItemFacts
  <2>2. op.w >= op.w
    BY <2>1, ConstAssumption
  <2>3. idx[op.sect][op.w].st # "valid"
    BY <2>0, <2>1, <2>2 DEF PInv, TailInv
  <2>4. /\ idx'[op.sect][op.w].st # "valid"
        /\ \A t \in Sect, j \in Idx : ~(t = op.sect /\ j = op.w) => idx'[t][j] = idx[t][j]
    <3>0. idx[op.sect][op.w] \in Entry
      BY <2>1 DEF TypeOK
    <3>1. CASE WriteIndex
      BY <2>1, <3>1 DEF WriteIndex, TypeOK
    <3>2. CASE WritePayload
      <4>1. PICK v : idx' = [idx EXCEPT ![op.sect][op.w].val = v]
        BY <3>2 DEF WritePayload
      <4>2. /\ idx'[op.sect] = [idx[op.sect] EXCEPT ![op.w].val = v]
            /\ \A t \in Sect : t # op.sect => idx'[t] = idx[t]
        BY <2>1, <4>1 DEF TypeOK
      <4> QED
        BY <2>1, <2>3, <3>0, <4>2 DEF TypeOK, Entry
    <3>3. CASE WriteItemHeader
      <4>1. CASE idx' = idx
        BY <2>3, <4>1
      <4>2. CASE idx' = [idx EXCEPT ![op.sect][op.w].hd = TRUE]
        <5>1. /\ idx'[op.sect] = [idx[op.sect] EXCEPT ![op.w].hd = TRUE]
              /\ \A t \in Sect : t # op.sect => idx'[t] = idx[t]
          BY <2>1, <4>2 DEF TypeOK
        <5> QED
          BY <2>1, <2>3, <3>0, <5>1 DEF TypeOK, Entry
      <4> QED
        BY <3>3, <4>1, <4>2 DEF WriteItemHeader
    <3> QED
      BY <1>5, <3>1, <3>2, <3>3
  <2>6. \A i \in Items : \A t \in Sect : Latest(idx'[t], IdxNum, i) = Latest(idx[t], IdxNum, i)
    BY <2>1, <2>3, <2>4, WriteKeepsLatest
  <2> QED
    BY <2>0, <2>6, SectFacts DEF Seen
<1>6. CASE \/ \E c \in Writes : WriteStart(c[1], c[2], c[3])
           \/ CopySkip \/ CopyNoBuffer \/ CopyDone \/ WriteReturn \/ ResetStart \/ Crash
  BY <1>1, <1>6 DEF WriteStart, CopySkip, CopyNoBuffer, CopyDone, WriteReturn, ResetStart, Crash
<1> QED
  BY <1>3, <1>4, <1>5, <1>6

\* The new payload is seen, and nothing else changes.
Committed == \A i \in Items : Seen(i)' = IF i = op.item THEN {op.val} ELSE Seen(i)

\* Deleting the old entry shows nothing: the new one hides it already.
LEMMA SeenDeleteOld ==
  ASSUME TInv, PInv, ~LockCoversNv, DeleteOld
  PROVE  \A i \in Items : Seen(i)' = Seen(i)
<1> DEFINE s == op.sect  w == op.w  d == op.del
<1>0. pc = "delete" /\ hdr' = hdr /\ idx' = [idx EXCEPT ![s][d].st = "invalid"]
  BY DEF DeleteOld, Dropped
<1>1. d # NoIdx
  BY <1>0 DEF TInv, OpInv
<1>2. /\ w \in Idx /\ s \in Sect /\ d \in Idx /\ d < w /\ s = WriteSect /\ TypeOK
      /\ idx[s][d].id = op.item
  BY <1>0, <1>1, ItemFacts
<1>3. /\ idx'[s][d].st = "invalid" /\ idx'[s][d].id = idx[s][d].id
      /\ idx'[s][d].val = idx[s][d].val /\ idx'[s][d].hd = idx[s][d].hd
      /\ \A t \in Sect, j \in Idx : ~(t = s /\ j = d) => idx'[t][j] = idx[t][j]
  <2>1. TypeOK /\ s \in Sect /\ d \in Idx /\ idx' = [idx EXCEPT ![s][d].st = "invalid"]
    BY <1>0, <1>2
  <2> QED
    BY <2>1, StateOnly
<1>4. /\ Is(idx[s], op.item, w) /\ \A k \in Idx : k > w => idx[s][k].st # "valid"
  BY <1>0 DEF PInv, TailInv
<1>5. /\ w < IdxNum /\ w # d
      /\ \A k \in Idx : w < k => k > w /\ k # d
  BY <1>2, ConstAssumption
<1>6. \A i \in Items : Latest(idx'[s], IdxNum, i) = Latest(idx[s], IdxNum, i)
  <2> TAKE i \in Items
  <2>1. CASE i = op.item
    <3>1. \A k \in Idx : w < k /\ k < IdxNum => ~Is(idx[s], i, k) /\ ~Is(idx'[s], i, k)
      BY <1>2, <1>3, <1>4, <1>5 DEF Is
    <3>2. Is(idx[s], i, w) /\ Is(idx'[s], i, w) /\ idx'[s][w] = idx[s][w]
      BY <1>2, <1>3, <1>4, <1>5, <2>1 DEF Is
    <3>3. Latest(idx[s], IdxNum, i) = {idx[s][w].val}
      BY <1>2, <1>5, <3>1, <3>2, LatestTop
    <3>4. Latest(idx'[s], IdxNum, i) = {idx'[s][w].val}
      BY <1>2, <1>5, <3>1, <3>2, LatestTop
    <3> QED
      BY <3>2, <3>3, <3>4
  <2>2. CASE i # op.item
    <3>1. ASSUME NEW k \in Idx
          PROVE  /\ Is(idx'[s], i, k) <=> Is(idx[s], i, k)
                 /\ Is(idx'[s], i, k) => idx'[s][k].val = idx[s][k].val
      BY <1>2, <1>3, <2>2 DEF Is
    <3> QED
      BY <3>1, LatestSame
  <2> QED
    BY <2>1, <2>2
<1> QED
  BY <1>0, <1>2, <1>6, SectFacts DEF Seen

\* The newest entry of the item in the sector just written, and the other items.
LEMMA Switched ==
  ASSUME TInv, PInv, pc \in {"oldHeader", "newHeader"}, op.upd
  PROVE  \A i \in Items : L(op.sect, i) = IF i = op.item THEN {op.val} ELSE L(1 - op.sect, i)
<1>1. op.sect \in Sect /\ op.w \in Idx
  BY ItemFacts
<1>2. /\ Is(idx[op.sect], op.item, op.w) /\ idx[op.sect][op.w].val = op.val
      /\ \A k \in Idx : k > op.w => idx[op.sect][k].st # "valid"
  BY DEF PInv, TailInv
<1>3. op.w < IdxNum /\ \A k \in Idx : op.w < k => k > op.w
  BY <1>1, ConstAssumption
<1>4. \A k \in Idx : op.w < k /\ k < IdxNum => ~Is(idx[op.sect], op.item, k)
  BY <1>2, <1>3 DEF Is
<1>5. L(op.sect, op.item) = {op.val}
  BY <1>1, <1>2, <1>3, <1>4, LatestTop DEF L
<1>6. \A i \in Items : i # op.item => L(op.sect, i) = L(1 - op.sect, i)
  BY DEF PInv, CopyInv
<1> QED
  BY <1>5, <1>6

\* The three steps at which a write may take effect: the entry becomes valid in
\* the sector in use; with the old header gone sector 0 is the fallback; the new
\* header becomes valid.
LEMMA SeenCommit ==
  ASSUME TInv, HInv, PInv, ~LockCoversNv, Validate \/ InvalidateOldHeader \/ ValidateNewHeader
  PROVE  Committed \/ \A i \in Items : Seen(i)' = Seen(i)
<1> DEFINE s == op.sect  w == op.w
<1>0. pc \in {"validate", "oldHeader", "newHeader"}
  BY DEF Validate, InvalidateOldHeader, ValidateNewHeader
<1>1. /\ s \in Sect /\ 1 - s \in Sect /\ s # 1 - s /\ w \in Idx /\ TypeOK
      /\ ~op.upd => s = WriteSect
  BY <1>0, ItemFacts
<1>2. CASE Validate
  <2>0. pc = "validate" /\ hdr' = hdr /\ idx' = [idx EXCEPT ![s][w].st = "valid"]
    BY <1>2 DEF Validate
  <2>1. /\ idx'[s][w].st = "valid" /\ idx'[s][w].id = idx[s][w].id
        /\ idx'[s][w].val = idx[s][w].val /\ idx'[s][w].hd = idx[s][w].hd
        /\ \A t \in Sect, j \in Idx : ~(t = s /\ j = w) => idx'[t][j] = idx[t][j]
    <3>1. TypeOK /\ s \in Sect /\ w \in Idx /\ idx' = [idx EXCEPT ![s][w].st = "valid"]
      BY <1>1, <2>0
    <3> QED
      BY <3>1, StateOnly
  <2>2. WriteSect' = WriteSect
    BY <2>0, SectFacts
  <2>3. CASE op.upd
    <3>1. WriteSect = 1 - s
      BY <2>0, <2>3, UpdHeader
    <3>2. \A k \in Idx : idx'[1 - s][k] = idx[1 - s][k]
      BY <1>1, <2>1
    <3>3. \A i \in Items : Latest(idx'[1 - s], IdxNum, i) = Latest(idx[1 - s], IdxNum, i)
      BY <3>2, LatestSame DEF Is
    <3> QED
      BY <2>2, <3>1, <3>3 DEF Seen
  <2>4. CASE ~op.upd
    <3>1. /\ idx[s][w].id = op.item /\ idx[s][w].val = op.val /\ idx[s][w].st = "oper"
          /\ \A k \in Idx : k >= w => idx[s][k].st # "valid"
      BY <2>0 DEF PInv, TailInv, TInv, SlotInv
    <3>2. w < IdxNum /\ \A k \in Idx : w < k => k >= w /\ k # w
      BY <1>1, ConstAssumption
    <3>3. Is(idx'[s], op.item, w)
      BY <2>1, <3>1 DEF Is
    <3>4. \A k \in Idx : w < k /\ k < IdxNum => ~Is(idx'[s], op.item, k)
      BY <1>1, <2>1, <3>1, <3>2 DEF Is
    <3>5. Latest(idx'[s], IdxNum, op.item) = {op.val}
      <4>1. Latest(idx'[s], IdxNum, op.item) = {idx'[s][w].val}
        BY <1>1, <3>2, <3>3, <3>4, LatestTop
      <4> QED
        BY <2>1, <3>1, <4>1
    <3>6. ASSUME NEW i \in Items, i # op.item
          PROVE  Latest(idx'[s], IdxNum, i) = Latest(idx[s], IdxNum, i)
      <4>1. ASSUME NEW k \in Idx
            PROVE  /\ Is(idx'[s], i, k) <=> Is(idx[s], i, k)
                   /\ Is(idx'[s], i, k) => idx'[s][k].val = idx[s][k].val
        BY <1>1, <2>1, <3>1, <3>6 DEF Is
      <4> QED
        BY <4>1, LatestSame
    <3> QED
      BY <1>1, <2>2, <2>4, <3>5, <3>6 DEF Committed, Seen
  <2> QED
    BY <2>3, <2>4
<1>3. CASE InvalidateOldHeader
  <2>0. pc = "oldHeader" /\ idx' = idx /\ op.upd
    BY <1>3 DEF InvalidateOldHeader, PInv, SectInv
  <2>1. WriteSect = 1 - s
    BY <2>0, UpdHeader
  <2>2. WriteSect' = s \/ WriteSect' = 1 - s
    <3>1. WriteSect' \in Sect
      BY DEF WriteSect
    <3> QED
      BY <1>1, <3>1
  <2>3. \A i \in Items : L(s, i) = IF i = op.item THEN {op.val} ELSE L(1 - s, i)
    BY <2>0, Switched
  <2>4. CASE WriteSect' = s
    BY <2>0, <2>1, <2>3, <2>4 DEF Committed, Seen, L
  <2>5. CASE WriteSect' = 1 - s
    BY <2>0, <2>1, <2>5 DEF Seen
  <2> QED
    BY <2>2, <2>4, <2>5
<1>4. CASE ValidateNewHeader
  <2>0. pc = "newHeader" /\ idx' = idx /\ WriteSect' = s
    BY <1>4, NewHeader DEF ValidateNewHeader
  <2>1. CASE WriteSect = s
    BY <2>0, <2>1 DEF Seen
  <2>2. CASE WriteSect # s
    <3>1. WriteSect = 1 - s /\ op.upd
      BY <1>1, <2>2, SectFacts
    <3>2. \A i \in Items : L(s, i) = IF i = op.item THEN {op.val} ELSE L(1 - s, i)
      BY <2>0, <3>1, Switched
    <3> QED
      BY <2>0, <3>1, <3>2 DEF Committed, Seen, L
  <2> QED
    BY <2>1, <2>2
<1> QED
  BY <1>2, <1>3, <1>4

\* There is at most one newest entry.
LEMMA LatestOne ==
  ASSUME NEW f, NEW n, NEW i
  PROVE  \/ Latest(f, n, i) = {}
         \/ \E k \in Idx : Is(f, i, k) /\ Latest(f, n, i) = {f[k].val}
<1>1. CASE \E k \in Idx : Newest(f, n, i, k)
  <2>1. PICK k \in Idx : Newest(f, n, i, k)
    BY <1>1
  <2>2. k < n /\ Is(f, i, k) /\ \A j \in Idx : k < j /\ j < n => ~Is(f, i, j)
    BY <2>1 DEF Newest, Is
  <2> QED
    BY <2>2, LatestTop
<1>2. CASE ~\E k \in Idx : Newest(f, n, i, k)
  BY <1>2 DEF Latest
<1> QED
  BY <1>1, <1>2

\* A delete shows an older valid payload of the item, or none.
LEMMA SeenDelete ==
  ASSUME TInv, TInv', PInv, NEW i \in Items, ItemDelete(i)
  PROVE  /\ \A j \in Items : j # i => Seen(j)' = Seen(j) /\ allowed'[j] = allowed[j]
         /\ Seen(i)' \subseteq allowed'[i] /\ Nil \in allowed'[i]
         /\ Seen(i)' = {} \/ \E v \in Vals : Seen(i)' = {v}
<1>1. PICK s \in Sect, k \in Idx :
        /\ ValidSect(s) /\ Newest(idx[s], IdxNum, i, k)
        /\ idx' = [idx EXCEPT ![s][k].st = "invalid"]
        /\ allowed' = [allowed EXCEPT ![i] = {Nil} \cup
             {idx[s][j].val : j \in {m \in Idx \ {k} :
                idx[s][m].st = "valid" /\ idx[s][m].id = i}}]
  BY DEF ItemDelete
<1> DEFINE older == {idx[s][j].val : j \in {m \in Idx \ {k} :
                       idx[s][m].st = "valid" /\ idx[s][m].id = i}}
<1>2. hdr' = hdr /\ TypeOK
  BY DEF ItemDelete, TInv
<1>3. WriteSect = s /\ WriteSect' = s
  BY <1>1, <1>2, SectFacts DEF ValidSect, WriteSect
<1>4. /\ idx'[s][k].st = "invalid" /\ idx'[s][k].id = idx[s][k].id
      /\ idx'[s][k].val = idx[s][k].val /\ idx'[s][k].hd = idx[s][k].hd
      /\ \A t \in Sect, j \in Idx : ~(t = s /\ j = k) => idx'[t][j] = idx[t][j]
  <2>1. idx' = [idx EXCEPT ![s][k].st = "invalid"] /\ TypeOK
    BY <1>1, <1>2
  <2> QED
    BY <2>1, StateOnly
<1>5. idx[s][k].id = i
  BY <1>1 DEF Newest
<1>6. /\ allowed'[i] = {Nil} \cup older
      /\ \A j \in Items : j # i => allowed'[j] = allowed[j]
  <2> HIDE DEF older
  <2>1. allowed' = [allowed EXCEPT ![i] = {Nil} \cup older]
    BY <1>1 DEF older
  <2> QED
    BY <1>2, <2>1 DEF TypeOK
<1>7. ASSUME NEW j \in Items, j # i PROVE Seen(j)' = Seen(j)
  <2>1. ASSUME NEW m \in Idx
        PROVE  /\ Is(idx'[s], j, m) <=> Is(idx[s], j, m)
               /\ Is(idx'[s], j, m) => idx'[s][m].val = idx[s][m].val
    BY <1>4, <1>5, <1>7 DEF Is
  <2>2. Latest(idx'[s], IdxNum, j) = Latest(idx[s], IdxNum, j)
    BY <2>1, LatestSame
  <2> QED
    BY <1>3, <2>2 DEF Seen
<1>8. Seen(i)' = {} \/ \E m \in Idx : Is(idx'[s], i, m) /\ Seen(i)' = {idx'[s][m].val}
  BY <1>3, LatestOne DEF Seen
<1>9. ASSUME NEW m \in Idx, Is(idx'[s], i, m) PROVE idx'[s][m].val \in older /\ idx'[s][m].val \in Vals
  <2>1. m # k
    BY <1>4, <1>9 DEF Is
  <2>2. idx'[s][m] = idx[s][m]
    BY <1>4, <2>1
  <2>3. idx'[s][m].val \in older
    BY <1>9, <2>1, <2>2 DEF Is
  <2>4. idx'[s][m].val \in Vals
    BY <1>9 DEF Is, TInv, EntryInv
  <2> QED
    BY <2>3, <2>4
<1> HIDE DEF older
<1> QED
  BY <1>6, <1>7, <1>8, <1>9

\* A reset empties the store in one of its two erases.
LEMMA SeenReset ==
  ASSUME TInv, HInv, PInv, NEW s \in Sect, ResetErase(s)
  PROVE  \/ \A i \in Items : Seen(i)' = {}
         \/ pc = "reset0" /\ \A i \in Items : Seen(i)' = Seen(i)
<1>1. /\ pc = (IF s = 0 THEN "reset0" ELSE "reset1")
      /\ idx' = [idx EXCEPT ![s] = ErasedIdx] /\ hdr' = [hdr EXCEPT ![s] = "idle"]
  BY DEF ResetErase
<1>2. /\ idx'[s] = ErasedIdx /\ hdr'[s] = "idle"
      /\ \A t \in Sect : t # s => idx'[t] = idx[t] /\ hdr'[t] = hdr[t]
  BY <1>1 DEF TInv, TypeOK
<1>3. \A i \in Items : Latest(ErasedIdx, IdxNum, i) = {}
  <2>1. \A i \in Items, k \in Idx : ~Is(ErasedIdx, i, k)
    BY DEF Is, ErasedIdx, IdleEntry
  <2> QED
    BY <2>1, LatestNone
<1>4. idx'[0] = ErasedIdx
  BY <1>1, <1>2 DEF PInv, JobInv
<1>5. CASE WriteSect' = 0
  BY <1>3, <1>4, <1>5 DEF Seen
<1>6. CASE WriteSect' # 0
  <2>1. hdr'[1] = "valid" /\ WriteSect' = 1
    BY <1>6 DEF WriteSect
  <2>2. s = 0 /\ hdr[1] = "valid" /\ idx'[1] = idx[1]
    BY <1>2, <2>1
  <2>3. WriteSect = 1
    BY <2>2 DEF HInv, OneValidSector, WriteSect
  <2> QED
    BY <1>1, <2>1, <2>2, <2>3 DEF Seen
<1> QED
  BY <1>5, <1>6

---------------------------------------------------------------------------
(* Durability *)

\* The item a write returns for is the one whose answer becomes certain.
LEMMA AllowedStep ==
  ASSUME TInv, PInv,
         \/ \E c \in Writes : WriteStart(c[1], c[2], c[3])
         \/ EraseNew \/ CopySkip \/ CopyIndex \/ CopyData \/ CopyNoBuffer \/ CopyValid \/ CopyDone
         \/ WriteIndex \/ WritePayload \/ WriteItemHeader \/ Validate
         \/ DeleteOld \/ InvalidateOldHeader \/ ValidateNewHeader
         \/ ResetStart \/ Crash
  PROVE  \A i \in Items : allowed[i] \subseteq allowed'[i]
<1>0. allowed \in [Items -> SUBSET (Vals \cup {Nil})]
  BY DEF TInv, TypeOK
<1>1. ASSUME NEW c \in Writes, WriteStart(c[1], c[2], c[3])
      PROVE  \A i \in Items : allowed[i] \subseteq allowed'[i]
  <2> DEFINE j == c[1]  v == c[2]
  <2>1. allowed' = [allowed EXCEPT ![j] = @ \cup {v}]
    BY <1>1 DEF WriteStart
  <2> HIDE DEF j, v
  <2> QED
    BY <1>0, <2>1
<1>2. CASE CopyNoBuffer \/ CopyDone
  <2>1. allowed' = allowed \/ allowed' = [allowed EXCEPT ![op.item] = allowed[op.item]]
    BY <1>2 DEF CopyNoBuffer, CopyDone, Return
  <2> QED
    BY <1>0, <2>1
<1>3. CASE ResetStart
  BY <1>0, <1>3 DEF ResetStart
<1>4. CASE \/ EraseNew \/ CopySkip \/ CopyIndex \/ CopyData \/ CopyValid
           \/ WriteIndex \/ WritePayload \/ WriteItemHeader \/ Validate
           \/ DeleteOld \/ InvalidateOldHeader \/ ValidateNewHeader \/ Crash
  <2>1. allowed' = allowed
    BY <1>4 DEF EraseNew, CopySkip, CopyIndex, CopyData, CopyValid, WriteIndex, WritePayload,
                WriteItemHeader, Validate, DeleteOld, InvalidateOldHeader, ValidateNewHeader, Crash
  <2> QED
    BY <2>1
<1> QED
  BY <1>1, <1>2, <1>3, <1>4

\* Every step keeps what a reader is given among what it may be given.
LEMMA StepDurable ==
  ASSUME ~LockCoversNv
  PROVE  TInv /\ TInv' /\ HInv /\ PInv /\ Durable /\ [Next]_vars => Durable'
<1> SUFFICES ASSUME TInv, TInv', HInv, PInv, Durable, [Next]_vars PROVE Durable'
  OBVIOUS
<1>0. /\ \A i \in Items : Seen(i) \subseteq allowed[i] /\ (Seen(i) = {} => Nil \in allowed[i])
      /\ (\A i \in Items : Seen(i)' \subseteq allowed'[i] /\ (Seen(i)' = {} => Nil \in allowed'[i]))
           => Durable'
  BY DEF Durable, Seen
<1>1. ASSUME \A i \in Items : Seen(i)' = Seen(i), \A i \in Items : allowed[i] \subseteq allowed'[i]
      PROVE  Durable'
  BY <1>0, <1>1
<1>2. CASE \/ \E c \in Writes : WriteStart(c[1], c[2], c[3])
           \/ EraseNew \/ CopySkip \/ CopyIndex \/ CopyData \/ CopyNoBuffer \/ CopyValid \/ CopyDone
           \/ WriteIndex \/ WritePayload \/ WriteItemHeader \/ DeleteOld \/ ResetStart \/ Crash
  BY <1>1, <1>2, AllowedStep, SeenSame, SeenDeleteOld
<1>3. CASE Validate \/ InvalidateOldHeader \/ ValidateNewHeader
  <2>1. \A i \in Items : allowed[i] \subseteq allowed'[i]
    BY <1>3, AllowedStep
  <2>2. op.val \in allowed[op.item]
    BY <1>3 DEF Validate, InvalidateOldHeader, ValidateNewHeader, PInv, JobInv
  <2>3. CASE Committed
    <3>1. ASSUME NEW i \in Items
          PROVE  Seen(i)' \subseteq allowed'[i] /\ (Seen(i)' = {} => Nil \in allowed'[i])
      <4>1. CASE i = op.item
        <5>1. Seen(i)' = {op.val}
          BY <2>3, <4>1 DEF Committed
        <5> QED
          BY <2>1, <2>2, <4>1, <5>1
      <4>2. CASE i # op.item
        <5>1. Seen(i)' = Seen(i)
          BY <2>3, <4>2 DEF Committed
        <5> QED
          BY <1>0, <2>1, <5>1
      <4> QED
        BY <4>1, <4>2
    <3> QED
      BY <1>0, <3>1
  <2> QED
    BY <1>1, <1>3, <2>1, <2>3, SeenCommit
<1>4. CASE WriteReturn
  <2>1. \A i \in Items : Seen(i)' = Seen(i)
    BY <1>4, SeenSame
  <2>2. pc = "return" /\ op.ok
    BY <1>4 DEF WriteReturn, PInv, JobInv
  <2>3. op.item \in Items /\ Seen(op.item) = {op.val}
    BY <2>2, ReturnFacts DEF Seen, L
  <2>4. allowed' = [allowed EXCEPT ![op.item] = {op.val}]
    BY <1>4, <2>2 DEF WriteReturn, Return
  <2>5. allowed'[op.item] = {op.val} /\ \A i \in Items : i # op.item => allowed'[i] = allowed[i]
    BY <2>3, <2>4 DEF TInv, TypeOK
  <2>6. ASSUME NEW i \in Items
        PROVE  Seen(i)' \subseteq allowed'[i] /\ (Seen(i)' = {} => Nil \in allowed'[i])
    <3>1. CASE i = op.item
      BY <2>1, <2>3, <2>5, <3>1
    <3>2. CASE i # op.item
      BY <1>0, <2>1, <2>5, <3>2
    <3> QED
      BY <3>1, <3>2
  <2> QED
    BY <1>0, <2>6
<1>5. ASSUME NEW i \in Items, ItemDelete(i) PROVE Durable'
  <2>1. /\ \A j \in Items : j # i => Seen(j)' = Seen(j) /\ allowed'[j] = allowed[j]
        /\ Seen(i)' \subseteq allowed'[i] /\ Nil \in allowed'[i]
    BY <1>5, SeenDelete
  <2>2. ASSUME NEW j \in Items
        PROVE  Seen(j)' \subseteq allowed'[j] /\ (Seen(j)' = {} => Nil \in allowed'[j])
    <3>1. CASE j = i
      BY <2>1, <3>1
    <3>2. CASE j # i
      BY <1>0, <2>1, <3>2
    <3> QED
      BY <3>1, <3>2
  <2> QED
    BY <1>0, <2>2
<1>6. ASSUME NEW s \in Sect, ResetErase(s) PROVE Durable'
  <2>1. \A i \in Items : Nil \in allowed'[i]
    BY <1>6 DEF ResetErase, PInv, JobInv
  <2>2. CASE \A i \in Items : Seen(i)' = {}
    BY <1>0, <2>1, <2>2
  <2>3. CASE pc = "reset0" /\ \A i \in Items : Seen(i)' = Seen(i)
    <3>1. allowed' = allowed
      BY <1>6, <2>3 DEF ResetErase
    <3> QED
      BY <1>1, <2>3, <3>1
  <2> QED
    BY <1>6, <2>2, <2>3, SeenReset
<1>7. CASE UNCHANGED vars
  BY <1>7 DEF vars, Durable, WriteSect
<1> QED
  BY <1>2, <1>3, <1>4, <1>5, <1>6, <1>7 DEF Next

\* The inductive invariant of the theorems below.
DInv == TInv /\ HInv /\ PInv /\ Durable

\* It holds of every reachable state of a store whose payloads read back and
\* whose sectors flash_lock leaves alone.
LEMMA AlwaysDInv == ASSUME ~Faults, ~LockCoversNv PROVE Spec => []DInv
<1>1. Init => DInv
  <2> SUFFICES ASSUME Init PROVE DInv
    OBVIOUS
  <2>1. HInv
    BY DEF Init, HInv, HdrInv, OneValidSector
  <2>2. WriteSect = 0 /\ \A i \in Items, k \in Idx : ~Is(idx[0], i, k)
    BY DEF Init, WriteSect, Is, ErasedIdx, IdleEntry
  <2>3. \A i \in Items : Latest(idx[WriteSect], IdxNum, i) = {}
    BY <2>2, LatestNone
  <2>4. \A i \in Items : Nil \in allowed[i]
    BY DEF Init
  <2>5. Durable
    BY <2>3, <2>4 DEF Durable
  <2> QED
    BY <2>1, <2>5, InitTInv, InitPInv DEF DInv
<1>2. DInv /\ [Next]_vars => DInv'
  BY StepTInv, StepHInv, StepPInv, StepDurable DEF DInv
<1> QED
  BY <1>1, <1>2, PTL DEF Spec

\* At every step of every write, sector update, delete and reset, and so after a
\* power failure at any of them, the flash alone gives for each item the payload
\* of the last write that returned, or the one being written: nothing that
\* nv_flashWriteNew acknowledged is lost, nothing older comes back.  It needs
\* payloads that read back and a lock range below the NV area.
THEOREM DurableCorrect == ASSUME ~Faults, ~LockCoversNv PROVE Spec => []Durable
<1>1. DInv => Durable
  BY DEF DInv
<1> QED
  BY <1>1, AlwaysDInv, PTL

\* Between two operations nv_flashReadNew returns that payload, unless power
\* failed in one of the windows in which the items had no valid sector header.
THEOREM ReadBackCorrect == ASSUME ~Faults, ~LockCoversNv PROVE Spec => []ReadBack
<1>1. DInv => ReadBack
  <2> SUFFICES ASSUME DInv, pc = "idle", ~orphan, NEW i \in Items
               PROVE  ReadItem(i) \subseteq allowed[i] /\ (ReadItem(i) = {} => Nil \in allowed[i])
    BY DEF ReadBack
  <2>1. CASE hdr[0] # "valid" /\ hdr[1] # "valid"
    <3>1. ReadItem(i) = {}
      BY <2>1 DEF ReadItem, ValidSect
    <3>2. Nil \in allowed[i]
      BY <2>1 DEF DInv, PInv, OrphanInv
    <3> QED
      BY <3>1, <3>2
  <2>2. CASE hdr[0] = "valid" \/ hdr[1] = "valid"
    <3>1. \A s \in Sect : ValidSect(s) <=> s = WriteSect
      BY <2>2 DEF ValidSect, WriteSect
    <3>2. WriteSect \in Sect
      BY SectFacts
    <3>3. ReadItem(i) = {idx[WriteSect][k].val : k \in {j \in Idx :
                           Newest(idx[WriteSect], IdxNum, i, j) /\ idx[WriteSect][j].hd}}
      <4>1. {t \in Sect : ValidSect(t)} = {WriteSect}
        BY <3>1, <3>2
      <4> QED
        BY <4>1 DEF ReadItem
    <3>4. \A j \in Idx : Newest(idx[WriteSect], IdxNum, i, j) => idx[WriteSect][j].hd
      BY <3>2 DEF Newest, DInv, PInv, UsedInv
    <3>5. ReadItem(i) = Latest(idx[WriteSect], IdxNum, i)
      BY <3>3, <3>4 DEF Latest
    <3> QED
      BY <3>5 DEF DInv, Durable
  <2> QED
    BY <2>1, <2>2
<1> QED
  BY <1>1, AlwaysDInv, PTL

---------------------------------------------------------------------------
(* Atomicity: drv_nv.c implements NvAtomic *)

\* The function of what is seen changes as its values do.
LEMMA ViewFacts ==
  /\ (\A i \in Items : Seen(i)' = Seen(i)) => View' = View
  /\ (\A i \in Items : Seen(i)' = {}) => View' = [i \in Items |-> {}]
  BY DEF View, Seen

\* Every step of the driver is a step of the abstract store, or shows nothing.
LEMMA StepAtomic ==
  ASSUME ~LockCoversNv
  PROVE  DInv /\ DInv' /\ [Next]_vars => [Abstract!Next]_<<View, Running>>
<1> SUFFICES ASSUME DInv, DInv', [Next]_vars PROVE Abstract!Next \/ (View' = View /\ Running' = Running)
  OBVIOUS
<1>0. TInv /\ TInv' /\ HInv /\ PInv
  BY DEF DInv
<1>1. pc \in Copying \cup Writing =>
        /\ Running = [item |-> op.item, val |-> op.val] /\ Running \in Abstract!Job
        /\ Running.item = op.item /\ Running.val = op.val /\ op.item \in Items
  BY <1>0 DEF Running, Abstract!Job, TInv, OpInv
\* A step within a write that shows nothing.
<1>2. ASSUME pc \in Copying \cup Writing, pc' \in Copying \cup Writing,
             op'.item = op.item, op'.val = op.val, View' = View
      PROVE  View' = View /\ Running' = Running
  BY <1>2 DEF Running
\* A step that ends a write.
<1>3. ASSUME pc \in Copying \cup Writing, pc' = "idle", View' = View
      PROVE  Abstract!Next
  <2>1. Running' = Nil
    BY <1>3 DEF Running
  <2> QED
    BY <1>1, <1>3, <2>1 DEF Abstract!Next, Abstract!End
<1>4. ASSUME NEW c \in Writes, WriteStart(c[1], c[2], c[3]) PROVE Abstract!Next
  <2> DEFINE j == [item |-> c[1], val |-> c[2]]
  <2>1. View' = View
    BY <1>0, <1>4, SeenSame, ViewFacts
  <2>2. j \in Abstract!Job
    BY ConstAssumption DEF Abstract!Job
  <2>3. Running = Nil /\ pc' \in {"index", "erase"}
    BY <1>4 DEF WriteStart, Running
  <2>4. op'.item = c[1] /\ op'.val = c[2]
    BY <1>4 DEF WriteStart
  <2>5. Running' = j
    BY <2>3, <2>4 DEF Running
  <2> HIDE DEF j
  <2> QED
    BY <2>1, <2>2, <2>3, <2>5 DEF Abstract!Next, Abstract!Begin
<1>5. CASE EraseNew \/ CopySkip \/ CopyIndex \/ CopyData \/ CopyValid
  <2>1. View' = View
    BY <1>0, <1>5, SeenSame, ViewFacts
  <2>2. pc \in Copying /\ pc' \in Copying
    BY <1>5 DEF EraseNew, CopySkip, CopyIndex, CopyData, CopyValid
  <2>3. op \in Op /\ (op' = op \/ op' = [op EXCEPT !.r = @ + 1] \/ op' = [op EXCEPT !.r = @ + 1, !.w = @ + 1])
    BY <1>0, <1>5 DEF EraseNew, CopySkip, CopyIndex, CopyData, CopyValid, TInv, TypeOK
  <2>4. op'.item = op.item /\ op'.val = op.val
    BY <2>3 DEF Op
  <2> QED
    BY <1>2, <2>1, <2>2, <2>4
<1>6. CASE CopyNoBuffer \/ CopyDone \/ WriteReturn
  <2>1. View' = View
    BY <1>0, <1>6, SeenSame, ViewFacts
  <2>2. /\ pc \in Copying \cup Writing
        /\ pc' = "idle" \/ (pc' = "index" /\ op' = op)
    BY <1>6 DEF CopyNoBuffer, CopyDone, WriteReturn, Return
  <2> QED
    BY <1>2, <1>3, <2>1, <2>2
<1>7. CASE WriteIndex \/ WritePayload \/ WriteItemHeader \/ DeleteOld
  <2>1. View' = View
    BY <1>0, <1>7, SeenSame, SeenDeleteOld, ViewFacts
  <2>2. pc \in Writing /\ op \in Op /\ (op' = op \/ op' = [op EXCEPT !.ok = FALSE])
    BY <1>0, <1>7 DEF WriteIndex, WritePayload, WriteItemHeader, DeleteOld, TInv, TypeOK
  <2>3. op'.item = op.item /\ op'.val = op.val
    BY <2>2 DEF Op
  <2>4. pc' \in Writing
    BY <1>7 DEF WriteIndex, WritePayload, WriteItemHeader, DeleteOld, AfterItem, HeaderStep
  <2> QED
    BY <1>2, <2>1, <2>2, <2>3, <2>4
<1>8. CASE Validate \/ InvalidateOldHeader \/ ValidateNewHeader
  <2>1. pc \in Writing /\ op' = op
    BY <1>8 DEF Validate, InvalidateOldHeader, ValidateNewHeader
  <2>2. pc' \in Writing
    BY <1>8 DEF Validate, InvalidateOldHeader, ValidateNewHeader, AfterItem, HeaderStep
  <2>3. CASE \A i \in Items : Seen(i)' = Seen(i)
    BY <1>2, <2>1, <2>2, <2>3, ViewFacts
  <2>4. CASE Committed
    <3>1. Running' = Running
      BY <2>1, <2>2 DEF Running
    <3>2. View' = [i \in Items |-> IF i = op.item THEN {op.val} ELSE View[i]]
      BY <2>4 DEF View, Committed, Seen
    <3>3. View' = [View EXCEPT ![op.item] = {op.val}]
      BY <1>1, <2>1, <3>2 DEF View
    <3> QED
      BY <1>1, <2>1, <3>1, <3>3 DEF Abstract!Next, Abstract!Commit
  <2> QED
    BY <1>0, <1>8, <2>3, <2>4, SeenCommit
<1>9. ASSUME NEW i \in Items, ItemDelete(i) PROVE Abstract!Next
  <2>1. Running = Nil /\ Running' = Nil
    BY <1>9 DEF ItemDelete, Running
  <2>2. /\ \A j \in Items : j # i => Seen(j)' = Seen(j)
        /\ Seen(i)' = {} \/ \E v \in Vals : Seen(i)' = {v}
    BY <1>0, <1>9, SeenDelete
  <2>3. View' = [View EXCEPT ![i] = Seen(i)']
    BY <2>2 DEF View, Seen
  <2>4. Seen(i)' \in {{}} \cup {{v} : v \in Vals}
    BY <2>2
  <2>5. Abstract!Delete(i)
    BY <2>1, <2>3, <2>4 DEF Abstract!Delete
  <2> QED
    BY <2>5 DEF Abstract!Next
<1>10. CASE ResetStart
  <2>1. View' = View
    BY <1>0, <1>10, SeenSame, ViewFacts
  <2> QED
    BY <1>10, <2>1 DEF ResetStart, Running
<1>11. ASSUME NEW s \in Sect, ResetErase(s) PROVE Abstract!Next \/ (View' = View /\ Running' = Running)
  <2>1. Running = Nil /\ Running' = Nil
    BY <1>11 DEF ResetErase, Running
  <2>2. CASE \A i \in Items : Seen(i)' = {}
    BY <2>1, <2>2, ViewFacts DEF Abstract!Next, Abstract!Clear
  <2>3. CASE \A i \in Items : Seen(i)' = Seen(i)
    BY <2>1, <2>3, ViewFacts
  <2> QED
    BY <1>0, <1>11, <2>2, <2>3, SeenReset
<1>12. CASE Crash
  <2>1. View' = View /\ pc' = "idle" /\ pc \in PCs
    BY <1>0, <1>12, SeenSame, ViewFacts DEF Crash, TInv, TypeOK
  <2>2. CASE pc \in Copying \cup Writing
    BY <1>3, <2>1, <2>2
  <2>3. CASE pc \notin Copying \cup Writing
    BY <2>1, <2>3 DEF Running, PCs
  <2> QED
    BY <2>2, <2>3
<1>13. CASE UNCHANGED vars
  BY <1>13 DEF vars, View, Running, WriteSect
<1> QED
  BY <1>4, <1>5, <1>6, <1>7, <1>8, <1>9, <1>10, <1>11, <1>12, <1>13 DEF Next

\* drv_nv.c implements the map from items to payloads that NvAtomic describes: a
\* write, even one that erases a sector, copies every item and switches two
\* headers, shows as one change of one item, and a reset as one step, with any
\* number of power failures.
THEOREM AtomicCorrect == ASSUME ~Faults, ~LockCoversNv PROVE Spec => Atomic
<1>1. Init => Abstract!Init
  <2> SUFFICES ASSUME Init PROVE Abstract!Init
    OBVIOUS
  <2>1. Running = Nil
    BY DEF Init, Running
  <2>2. WriteSect = 0 /\ \A i \in Items, k \in Idx : ~Is(idx[0], i, k)
    BY DEF Init, WriteSect, Is, ErasedIdx, IdleEntry
  <2>3. \A i \in Items : Latest(idx[WriteSect], IdxNum, i) = {}
    BY <2>2, LatestNone
  <2> QED
    BY <2>1, <2>3 DEF Abstract!Init, View
<1> QED
  BY <1>1, StepAtomic, AlwaysDInv, PTL DEF Spec, Atomic, Abstract!Spec
=============================================================================
