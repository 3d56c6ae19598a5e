------------------------------ MODULE NvReset ------------------------------
(***************************************************************************)
(* The NV modules side by side: their place in flash (the layout macros of *)
(* drv_nv.h), what each one writes there, nv_resetModule and the factory   *)
(* reset nv_resetToFactoryNew, which power may interrupt and which the     *)
(* byte at CFG_FACTORY_RST_CNT makes the next boot repeat.                 *)
(* Addresses are 4K units relative to NV_BASE_ADDRESS.                     *)
(***************************************************************************)
EXTENDS Integers, Sequences

CONSTANTS
  Used,       \* the modules the application stores data in
  MaxCrash    \* bound: power failures in a behaviour

MAC_INFO == 0
NWK_FRAME_COUNT == 1
USER_INFO1 == 2
USER_INFO2 == 3
Modules == 0 .. 3

ASSUME ResetAssumption == Used \subseteq Modules /\ MaxCrash \in Nat

Start(id) == 2 * id                                       \* MODULES_START_ADDR
SectorSize(id) == IF id = USER_INFO1 THEN 4 ELSE 1        \* NV_SECTOR_SIZE
SectStart(id, s) == Start(id) + s * SectorSize(id)        \* MODULE_SECT_START
SectUnits(id, s) == SectStart(id, s) .. SectStart(id, s) + SectorSize(id) - 1
Range(id) == SectUnits(id, 0) \cup SectUnits(id, 1)

AllUnits == UNION {Range(id) : id \in Modules}

VARIABLES
  owner,    \* the module whose data a unit holds; -1: erased; -2: mixed
  flag,     \* the factory reset byte is programmed
  pc,       \* "run", "reset" (nv_resetModule), "factory", "boot"
  todo,     \* units the running reset has still to erase, in order
  actor,    \* history: the module the last step worked for; -1: all of them
  half,     \* history: a factory reset has erased data and has left other data
  crashes

vars == <<owner, flag, pc, todo, actor, half, crashes>>

Erased == -1
Mixed == -2
Everyone == -1

Init ==
  /\ owner = [u \in AllUnits |-> Erased]
  /\ flag = FALSE /\ pc = "run" /\ todo = <<>> /\ actor = Everyone
  /\ half = FALSE /\ crashes = 0

\* nv_flashWriteNew, nv_nwkFrameCountSaveToFlash: data in sector s of the module
Write(id, s) ==
  /\ pc = "run" /\ id \in Used
  /\ owner' = [owner EXCEPT ![SectStart(id, s)] =
                 IF @ \in {Erased, id} THEN id ELSE Mixed]
  /\ actor' = id
  /\ UNCHANGED <<flag, pc, todo, half, crashes>>

\* The same with a sector update: the other sector is erased and written.
Move(id, s) ==
  /\ pc = "run" /\ id \in Used
  /\ owner' = [u \in AllUnits |->
                 IF u = SectStart(id, s) THEN id
                 ELSE IF u \in SectUnits(id, s) THEN Erased ELSE owner[u]]
  /\ actor' = id
  /\ UNCHANGED <<flag, pc, todo, half, crashes>>

\* Mutant: every module is taken to have two sectors of one unit.
EraseListTwo(id) == [k \in 1 .. 2 |-> Start(id) + k - 1]

\* the units nv_resetModule erases, in order
EraseList(id) == [k \in 1 .. 2 * SectorSize(id) |-> Start(id) + k - 1]

\* nv_resetModule called by the application
ResetModule(id) ==
  /\ pc = "run"
  /\ pc' = "reset" /\ todo' = EraseList(id) /\ actor' = id
  /\ UNCHANGED <<owner, flag, half, crashes>>

\* Mutant: the frame counter is reset too.
FactoryListAll ==
  EraseList(MAC_INFO) \o EraseList(NWK_FRAME_COUNT) \o EraseList(USER_INFO1)

\* nv_resetToFactoryNew: the flag first, then every module but the frame counter
FactoryList == EraseList(MAC_INFO) \o EraseList(USER_INFO1) \o EraseList(USER_INFO2)

\* Mutant: the test of the flag is inverted, so that it is not set.
FactoryStartUnflagged ==
  /\ pc \in {"run", "boot"} /\ (pc = "boot" => flag)
  /\ pc' = "factory" /\ todo' = FactoryList /\ actor' = Everyone
  /\ UNCHANGED <<owner, flag, half, crashes>>

FactoryStart ==
  /\ pc \in {"run", "boot"} /\ (pc = "boot" => flag)
  /\ flag' = TRUE
  /\ pc' = "factory" /\ todo' = FactoryList /\ actor' = Everyone
  /\ UNCHANGED <<owner, half, crashes>>

EraseUnit ==
  /\ pc \in {"reset", "factory"} /\ todo # <<>>
  /\ owner' = [owner EXCEPT ![todo[1]] = Erased]
  /\ todo' = [k \in 1 .. Len(todo) - 1 |-> todo[k + 1]]
  /\ half' = IF pc = "factory"
             THEN /\ half \/ owner[todo[1]] # Erased
                  /\ \E u \in AllUnits \ Range(NWK_FRAME_COUNT) : owner'[u] # Erased
             ELSE half
  /\ UNCHANGED <<flag, pc, actor, crashes>>

\* Mutant: the flag is never cleared.
ResetDoneKeepsFlag ==
  /\ pc \in {"reset", "factory"} /\ todo = <<>>
  /\ pc' = IF pc = "factory" THEN "boot" ELSE "run"
  /\ UNCHANGED <<owner, flag, todo, actor, half, crashes>>

\* ... and clears the flag when all of them are erased.
ResetDone ==
  /\ pc \in {"reset", "factory"} /\ todo = <<>>
  /\ flag' = IF pc = "factory" THEN FALSE ELSE flag
  /\ pc' = "run"
  /\ UNCHANGED <<owner, todo, actor, half, crashes>>

\* The MAC library checks the flag when the device is powered on.
Boot ==
  /\ pc = "boot" /\ ~flag
  /\ pc' = "run"
  /\ UNCHANGED <<owner, flag, todo, actor, half, crashes>>

Crash ==
  /\ crashes < MaxCrash /\ crashes' = crashes + 1
  /\ pc' = "boot" /\ todo' = <<>>
  /\ UNCHANGED <<owner, flag, actor, half>>

Working == EraseUnit \/ ResetDone \/ Boot \/ (pc = "boot" /\ FactoryStart)

Next ==
  \/ \E id \in Modules, s \in {0, 1} : Write(id, s) \/ Move(id, s)
  \/ \E id \in Modules : ResetModule(id)
  \/ FactoryStart \/ EraseUnit \/ ResetDone \/ Boot \/ Crash

Spec == Init /\ [][Next]_vars /\ WF_vars(Working)

---------------------------------------------------------------------------
(* Properties *)

\* Types of the state.
TypeOK ==
  /\ owner \in [AllUnits -> Modules \cup {Erased, Mixed}]
  /\ flag \in BOOLEAN /\ pc \in {"run", "reset", "factory", "boot"}
  /\ todo \in Seq(AllUnits) /\ half \in BOOLEAN /\ crashes \in 0 .. MaxCrash

\* A store some of whose data nv_resetToFactoryNew has erased and some not is
\* never one the application runs on: while it is so, the reset is under way or
\* its byte is programmed and the device has yet to boot, however often power
\* failed in the middle of it.
NeverHalfReset == half => flag /\ pc \in {"factory", "boot"}

\* A factory reset keeps the frame counter: erasing the modules around it never
\* touches its sectors.
FrameCountKept ==
  [][\A u \in Range(NWK_FRAME_COUNT) :
       owner[u] = NWK_FRAME_COUNT /\ actor' # NWK_FRAME_COUNT
         => owner'[u] = NWK_FRAME_COUNT]_vars

\* When the flag is cleared nothing is left of the other modules.
FactoryResetErases ==
  [][flag /\ ~flag' => \A u \in AllUnits \ Range(NWK_FRAME_COUNT) : owner'[u] = Erased]_vars

\* A factory reset that was begun is finished, whenever power fails.
ResetFinishes == flag ~> ~flag

=============================================================================
