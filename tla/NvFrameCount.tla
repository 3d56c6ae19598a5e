---------------------------- MODULE NvFrameCount ----------------------------
(***************************************************************************)
(* The frame counter of drv_nv.c: a module of two sectors, each a header   *)
(* followed by counter words that are appended until the sector is full.   *)
(* nv_nwkFrameCountSaveToFlash appends, nv_nwkFrameCountFromFlash reads    *)
(* the last word back, nv_nwkFrameCountSearch finds it by pages and units. *)
(* Every flash write and erase is a step; power may fail between any two.  *)
(***************************************************************************)
EXTENDS Integers, FiniteSetsExt

CONSTANTS
  Nil,        \* an erased word, 0xffffffff
  Pages,      \* flash pages of a sector, 16 in the code
  PageWords,  \* words of a page, 64 in the code
  Unit,       \* words read at once (unitSize), 4 in the code
  MaxCount,   \* bound: largest counter saved
  MaxCrash    \* bound: power failures in a behaviour

\* The header takes one word of page 0.  The last unit of page 0 must hold more
\* than one word: the scan only answers from a unit's second word on.
ASSUME FrameAssumption ==
  /\ Pages \in Nat \ {0} /\ PageWords \in Nat \ {0} /\ Unit \in Nat \ {0, 1}
  /\ PageWords % Unit = 0 /\ Unit > 2
  /\ MaxCount \in Nat /\ MaxCrash \in Nat /\ Nil \notin 0 .. MaxCount

VARIABLES
  hdr,      \* usedFlag of each sector
  word,     \* counter words of each sector
  pc, op,   \* the running save: its step and local variables
  saved,    \* history: last counter whose save returned, Nil at first
  crashes

vars == <<hdr, word, pc, op, saved, crashes>>

Sect == {0, 1}
WordNum == Pages * PageWords - 1          \* FRAMECOUNT_NUM_PER_SECT
Words == 0 .. WordNum - 1
ErasedWords == [k \in Words |-> Nil]

\* first word of page p, and the address one past it
PageStart(p) == IF p = 0 THEN 0 ELSE p * PageWords - 1
PageEnd(p) == (p + 1) * PageWords - 1

---------------------------------------------------------------------------
(* nv_nwkFrameCountSearch: the pages are tried from the last one by their   *)
(* first word, then the units of the page from its last one.                *)
\* Mutant: the last page is never tried.
SearchPageShort(f) ==
  Max({0} \cup {p \in 1 .. Pages - 2 : f[PageStart(p)] # Nil})

SearchPage(f) ==
  Max({0} \cup {p \in 1 .. Pages - 1 : f[PageStart(p)] # Nil})

UnitStarts(p) ==
  {Max({PageStart(p), PageEnd(p) - n * Unit}) : n \in 1 .. PageWords \div Unit}

UnitEnd(p, u) == Min({PageEnd(p)} \cup {t \in UnitStarts(p) : t > u})

Search(f) ==
  LET p == SearchPage(f)
      hit == {u \in UnitStarts(p) : f[u] # Nil}
      u == Max(hit)
      stop == {k \in u + 1 .. UnitEnd(p, u) - 1 : f[k] = Nil}
      addr == IF stop = {} THEN UnitEnd(p, u) ELSE Min(stop)
  IN IF hit = {} THEN [found |-> FALSE, addr |-> PageStart(p), count |-> Nil]
     ELSE [found |-> TRUE, addr |-> addr, count |-> f[addr - 1]]

\* nv_sector_read
SomeValid == \E s \in Sect : hdr[s] = "valid"
FirstValid == IF hdr[0] = "valid" THEN 0 ELSE 1

\* nv_nwkFrameCountFromFlash
FromFlash ==
  IF SomeValid /\ Search(word[FirstValid]).found
  THEN Search(word[FirstValid]).count ELSE Nil

---------------------------------------------------------------------------
NoOp == [count |-> Nil, sect |-> 0, addr |-> 0, upd |-> FALSE]

Init ==
  /\ hdr = [s \in Sect |-> "idle"]
  /\ word = [s \in Sect |-> ErasedWords]
  /\ pc = "idle" /\ op = NoOp
  /\ saved = Nil /\ crashes = 0

\* The counter the caller saves: it keeps counting from what it read at boot.
NextCount == IF FromFlash = Nil THEN 0 ELSE FromFlash + 1

Start ==
  /\ pc = "idle" /\ NextCount <= MaxCount
  /\ IF SomeValid
     THEN LET s == FirstValid
              found == Search(word[s])
          IN IF found.found /\ found.addr = WordNum
             THEN /\ pc' = "erase"
                  /\ op' = [count |-> NextCount, sect |-> 1 - s, addr |-> 1, upd |-> TRUE]
             ELSE /\ pc' = "append"
                  /\ op' = [count |-> NextCount, sect |-> s, addr |-> found.addr,
                            upd |-> FALSE]
     ELSE /\ pc' = "erase0"
          /\ op' = [count |-> NextCount, sect |-> 0, addr |-> 0, upd |-> FALSE]
  /\ UNCHANGED <<hdr, word, saved, crashes>>

\* No valid sector: both are erased.
EraseBoth(s) ==
  /\ pc = IF s = 0 THEN "erase0" ELSE "erase1"
  /\ hdr' = [hdr EXCEPT ![s] = "idle"]
  /\ word' = [word EXCEPT ![s] = ErasedWords]
  /\ pc' = IF s = 0 THEN "erase1" ELSE "append"
  /\ UNCHANGED <<op, saved, crashes>>

\* The sector is full: erase the other one...
EraseNew ==
  /\ pc = "erase"
  /\ hdr' = [hdr EXCEPT ![op.sect] = "idle"]
  /\ word' = [word EXCEPT ![op.sect] = ErasedWords]
  /\ pc' = "carry"
  /\ UNCHANGED <<op, saved, crashes>>

\* ... and carry the last counter over as its first word.
Carry ==
  /\ pc = "carry"
  /\ word' = [word EXCEPT ![op.sect][0] = Search(word[1 - op.sect]).count]
  /\ pc' = "append"
  /\ UNCHANGED <<hdr, op, saved, crashes>>

Append ==
  /\ pc = "append"
  /\ word' = [word EXCEPT ![op.sect][op.addr] = op.count]
  /\ pc' = IF op.upd \/ op.addr = 0 THEN "newHeader" ELSE "return"
  /\ UNCHANGED <<hdr, op, saved, crashes>>

\* Mutant: the old header is invalidated before the new one is valid.
ValidateNewHeaderLate ==
  /\ pc = "newHeader"
  /\ \/ /\ op.upd /\ hdr[1 - op.sect] # "invalid"
        /\ hdr' = [hdr EXCEPT ![1 - op.sect] = "invalid"] /\ UNCHANGED pc
     \/ /\ ~op.upd \/ hdr[1 - op.sect] = "invalid"
        /\ hdr' = [hdr EXCEPT ![op.sect] = IF @ = "invalid" THEN @ ELSE "valid"]
        /\ pc' = "return"
  /\ UNCHANGED <<word, op, saved, crashes>>

ValidateNewHeader ==
  /\ pc = "newHeader"
  /\ hdr' = [hdr EXCEPT ![op.sect] = IF @ = "invalid" THEN @ ELSE "valid"]
  /\ pc' = IF op.upd THEN "oldHeader" ELSE "return"
  /\ UNCHANGED <<word, op, saved, crashes>>

\* Mutant: the wrong header is invalidated.
InvalidateNewHeader ==
  /\ pc = "oldHeader"
  /\ hdr' = [hdr EXCEPT ![op.sect] = "invalid"]
  /\ pc' = "return"
  /\ UNCHANGED <<word, op, saved, crashes>>

InvalidateOldHeader ==
  /\ pc = "oldHeader"
  /\ hdr' = [hdr EXCEPT ![1 - op.sect] = "invalid"]
  /\ pc' = "return"
  /\ UNCHANGED <<word, op, saved, crashes>>

Return ==
  /\ pc = "return"
  /\ saved' = op.count
  /\ pc' = "idle" /\ op' = NoOp
  /\ UNCHANGED <<hdr, word, crashes>>

Crash ==
  /\ pc # "idle" /\ crashes < MaxCrash
  /\ pc' = "idle" /\ op' = NoOp /\ crashes' = crashes + 1
  /\ UNCHANGED <<hdr, word, saved>>

Step == \/ \E s \in Sect : EraseBoth(s)
        \/ EraseNew \/ Carry \/ Append \/ ValidateNewHeader \/ InvalidateOldHeader
        \/ Return

Next == Start \/ Step \/ Crash

Spec == Init /\ [][Next]_vars /\ WF_vars(Step) /\ WF_vars(Start)

---------------------------------------------------------------------------
(* Properties *)

\* Types of the state.
TypeOK ==
  /\ hdr \in [Sect -> {"idle", "valid", "invalid"}]
  /\ word \in [Sect -> [Words -> 0 .. MaxCount \cup {Nil}]]
  /\ op.sect \in Sect /\ op.addr \in Words /\ op.upd \in BOOLEAN
  /\ saved \in 0 .. MaxCount \cup {Nil} /\ crashes \in 0 .. MaxCrash

\* The page and unit scan finds the first erased word of a sector and the
\* counter before it, as a scan of every word would.
SearchIsFirstErased ==
  \A s \in Sect :
    LET used == {k \in Words : word[s][k] # Nil}
        n == IF used = {} THEN 0 ELSE Max(used) + 1
    IN Search(word[s]) =
         [found |-> n > 0, addr |-> n, count |-> IF n > 0 THEN word[s][n - 1] ELSE Nil]

\* A counter that was saved is never forgotten or moved back, at whatever step
\* power fails: a reader gets it or the one being saved.  A counter that moved
\* back would let old frames be accepted again.
NeverBack ==
  saved # Nil => /\ FromFlash # Nil
                 /\ FromFlash >= saved
                 /\ FromFlash <= saved + 1 + crashes

\* If power stops failing, saving reaches the largest counter: no state of the
\* sectors makes a save stop working.
Progress == <>(FromFlash = MaxCount)
=============================================================================
