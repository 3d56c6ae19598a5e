# Verification of the Telink 802.15.4 SDK

TLA+ models of the parts of `src/tl_802154_sdk` that carry the SDK's own logic,
TLC configurations that check them on small instances, and TLAPS proofs. File
names below are relative to `src/tl_802154_sdk`.

## 1. The system

The SDK runs one program on a single-core chip: a main loop (timers, queues,
keys, MAC task) and interrupts (radio, UART, timers). There are two roles, a
coordinator and a sleepy end device. The IEEE 802.15.4 MAC itself is shipped as
a binary library; the repository holds what surrounds it.

| Component | State | Operations | Interacts with | Hard parts |
|---|---|---|---|---|
| NV item store (`proj/drivers/drv_nv.c`) | two flash sectors per module: header, index table, items | write, read, delete, reset a module | flash driver and lock, MAC library | power failure between any two flash writes; sector change; failed writes |
| NV frame counter (`drv_nv.c`) | two sectors of counter words | search, save, load | MAC security | sector change; search at page and unit edges |
| NV layout, factory reset (`drv_nv.[ch]`) | place of the modules, reset byte | reset module, factory reset, check at boot | application key handler, MAC library | power failure during a reset of many sectors |
| Flash driver and lock (`proj/drivers/drv_flash.c`, `platform/chip_*/flash.c`, `flash_mid*.c`) | locked flag, chip table; status register of the chip | write, erase, write with check, lock, unlock | NV, OTA | writes that are silently dropped; page boundaries; a lock that outlives a power failure |
| Software timers (`proj/os/ev_timer.c`, `proj/common/utlist.h`) | linked list, pool, remainder ticks | post, cancel, register, process | every application; sleep uses `timer_nearest` | callbacks that change the list being walked; handles kept by clients |
| OTA upgrade (`demo/app_common/ota`) | transfer state of the device, sequence filter of the coordinator, two flash banks, boot flags | query, block transfer, verify, reboot | MAC data service, timers, flash | lost, repeated, late frames; retries; power failure; partial resets |
| Event buffers, pool (`proj/os/ev_buffer.c`, `proj/common/mempool.c`) | free lists per size | allocate, free | all | use from interrupts, double free |
| Event queues, polling (`proj/os/ev_queue.c`, `ev_poll.c`, `ev.c`) | linked lists, with or without priorities | push, pop, delete, free all | interrupts and main loop | interleaving, shared link word |
| PHY driver (`ieee802154/mac/mac_phy.c`), interrupt dispatch, hardware timer (`proj/drivers/drv_timer.c`) | radio mode and the driver's record of it, busy flag, receive buffer, raised interrupts, timer status | receive and transmit interrupts, CCA, transmission, channel, mode, reset | MAC library, buffers | interrupts against main loop; polling for the acknowledgement |
| Applications (`demo/associate_dev`, `demo/associate_coor`) | scan and association state, saved network; tables of devices and keys, address counter | MAC callbacks, timers, key handlers | MAC library, PIB, timers, NV, OTA | lost requests and responses, repeated associations, full tables, power cycles of either side |
| PIB (`ieee802154/mac/mac_pib.c`) | attributes, device and key tables | get, set | applications, MAC library | index of a table against its length |
| Keyboard driver (`proj/drivers/drv_keyboard.c`) and key handlers (`app_ui.c`) | debounce matrices, release counter; application state, valid key, time | scan, keys changed, key held | NV factory reset, permit switch | bouncing contacts, several keys, scans that stop |
| Power management (`proj/drivers/drv_pm.c`) | tick of the last sleep | sleep, wake | timers, MAC library | timers aged twice or not at all |
| Host interface, UART, USB, other peripherals, chip support | | | | see section 6 |

What makes each part correct: the NV store never loses or mixes up what it
acknowledged; the frame counter never goes back; a factory reset is all or
nothing; a device always boots a complete image and an upgrade finishes; timers
fire once, not early, none skipped, and nothing cancelled fires; a buffer is in
one place at a time, and queues keep their order and lose nothing; the radio is
never left deaf, what it acknowledged it delivers, and a frame it sends is not
disturbed; devices and coordinator agree on the addresses; a factory reset
starts only when a key is held.

## 2. Modules

| Module | Models |
|---|---|
| `NvStore` | one NV module; `NvAtomic` is its abstract specification, `MCNvStore` its instance, `NvStoreProofs` its proofs |
| `Flash` | the flash driver down to the commands of the chip, the lock included |
| `NvFrameCount` | the frame counter |
| `NvReset` | the four NV modules side by side and the factory reset |
| `Keys` | keyboard driver and key handler |
| `KeyReset` | composes `Keys` and `NvReset`: from the contact of a key to the erased flash |
| `Ota` | device, coordinator, network and flash banks of an upgrade |
| `EvTimer` | timers and the sleep of the end device; `MCEvTimer` its instance |
| `EvMem` | event buffers, memory pool and event queues; `MCEvMem` its instance |
| `MacPhy` | the radio driver under its interrupts, with the hardware timer of the back-off |
| `Assoc` | both applications and the tables of the PIB while devices join and are served |
| `FlashProofs`, `NvFrameCountProofs`, `KeyResetProofs`, `OtaProofs`, `MacPhyProofs`, `AssocProofs` | the proofs about the module each is named after |
| `OsProofs` | the proofs about `EvTimer` and `EvMem`, which share the induction behind their lists |

**NvStore.** `hdr` and `idx` are the flash: the header flag of each sector and its
index table, each entry with the item header and payload it points at. `pc` and
`op` are the step and the locals of the running operation. Every `flash_write`
and `flash_erase` is a step of its own: `WriteStart` is `nv_flashWriteNew` up to
its first write; `EraseNew`, `CopySkip`, `CopyIndex`, `CopyData`, `CopyNoBuffer`,
`CopyValid`, `CopyDone` are the sector update; `WriteIndex`, `WritePayload`,
`WriteItemHeader`, `Validate` are `nv_write_item`; `DeleteOld`,
`InvalidateOldHeader`, `ValidateNewHeader`, `WriteReturn` what follows it.
`Crash` forgets `pc` and `op` and keeps the flash. A header only descends from
idle over valid to invalid, because NOR flash only clears bits. `locked` and
`Dropped` model the lock: a write to a protected sector has no effect.
`allowed` records for each item what a reader may be given: the last payload
whose write returned success, together with those whose writes were cut off or
failed since. `orphan` marks the two windows in which the items have no valid
header. The code has no repair for them: after a power failure in one of them
writes go to sector 0 and may return success and stay unreadable, until a sector
update writes a header again; `ReadBack` excepts that time, `Durable` does not.
Payload copies of 48 bytes are one step: a copy that is cut off leaves an entry
that is not valid either way. The three sector sizes of the modules do not
matter to one module and are left to `NvReset`.

**Flash.** `cells` and `status` are the chip; `g_flashLocked` is the driver's idea of
the lock. A call of the driver is a first step (`WriteBegin`, `EraseBegin`, `flash_lock`,
`flash_unlock`) and one step for each command it sends: `WritePage` (whose `Chunk` is
the split at page boundaries), `EraseSector`, `StatusWrite`. `Check` is a round of
`flash_writeWithCheck`, `StatusVerify` the second look at the register. `Crash` cuts a
command off with any part of its cells written or one byte of the register
changed; `Boot` is `drv_platform_init`. `Parts` has one flash part of each kind: an
8-bit register, a 16-bit one written at once, one written in two commands, and a
part the table does not list. The configuration register that
`flash_lock_mid166085` and `flash_unlock_mid166085` write first
(`flash_mid166085.c:96`, `115`) is left out. Where `NvStore` and `Ota` treat a write to a locked
chip as dropped and the lock as known, `LockBelieved` is what justifies it.

**NvFrameCount.** The words of both sectors, and the search as the code does it:
pages from the last one by their first word, then units of four words.

**NvReset.** Flash in units of 4K at the addresses the macros of `drv_nv.h`
compute; `owner` says whose data a unit holds. `nv_flashWriteNew` is `Write`
(same sector) or `Move` (sector change) here, refined by `NvStore`. `half` is history:
a factory reset has erased a unit that held data, and data other than the frame
counter is still there. `NeverHalfReset` says that in all that time the reset byte
is programmed and the device is in the reset or in the check at power-on; it
breaks when the byte is set after the first erase, or cleared before the last. The
module assumes a full battery: a low one drops the write of the byte or an erase
without notice (`drv_flash.c:169`, `224`).

**Keys, KeyReset.** A step of the main loop is one call of `app_key_handler`:
`StartReset` when `buttonKeepPressed(VK_SW1)` is due, `ScanKey` otherwise, which is
`kb_scan_key` with its release counter (`KbKeyPressed`), its debounce filter
(`Filtered`) and what the handler does with a new set of keys (`OnKeysChanged`).
`age` is history: the time since SW1 was seen down with no two scans since that
saw all keys up. In `KeyReset` the handler calls `nv_resetToFactoryNew`, which runs
to its end or to a power failure; a restart clears the key handler's RAM and
keeps flash and keys.

**Ota.** A file is a sequence of units known by their position; the file header
takes three of them (length, identification, size). A CRC is the sequence of
units it was computed over, and the initial CRC equals an erased word, as
`0xffffffff` does. `Received` is `ota_DataProcess`, `TakeBlock` and `FailBlock`
the rest of `ota_dataRspHandler`. `DeviceStartRsp`, `EraseSector` and `EraseDone` are
`ota_startRspHandler`, one step per sector; `EnableNew` and `DisableOld` are
`ota_mcuReboot`. What the flash may do to them: on a chip of `c_flashOptList` (`locked`)
the erase has no effect, because nothing unlocks the flash before it, while
block and flag writes unlock it; a low supply drops an erase or a flag write
without notice and makes a block write fail; a block write that fails may have
programmed any of its units, and programming a unit that was not erased leaves
`Mixed`. A device with no flagged bank is `"dead"`. `enableLost` is history: the
write that flags the new bank was dropped and the one that unflags the old was
not. A timer pool that is full when the retry timer is scheduled (738) is not
modelled. `ResetTransfer` is the sequence every way out of a
transfer repeats: timer, query, poll rate. The network is a set of at most `NetCap`
frames, received in any order, lost, or received again.

**EvTimer.** Explicit `head` and `next` pointers with the list macros' behaviour (a
removed timer keeps its `next`), because the walk of `ev_timer_executeCB` goes
on from a pointer a callback may have removed. Time (`Tick`) passes in the main loop,
in callbacks and between them. A timer that its callback arms again counts as
running, so the next pass ages it by all the time since the pass of the callback
read the clock (318); `real`, which `NotEarly` compares with the period, counts from
that moment for such a timer and from the registration for any other. The branch
of `ev_on_timer` for a timer that is in the list already (155-157) is left out: its
callers in the repository test for it. Client operations happen in the
main loop or inside a callback. `Sleep` is `drv_pm_lowPowerEnter` up to the wake:
the device sleeps as long as `timer_nearest` says or less, and
`drv_pm_wakeupTimeUpdate` (`Wake`) ages the timers. `timer_nearest` is computed
after callbacks; after a wake it may be off until the next pass, by no more than
`Slack`, which `NearestIsLeast` states: a timer registered since the last aging is
aged by its own time, the others by the sleep, and either aging may carry over up
to a tick less than a millisecond.

**EvMem.** A block's first word is the link of the free list it is in or of the
queue it is in; `link` is that word, so that a wrong use of one list shows in
the other. Operations run with interrupts disabled and are single steps;
`ev_queue_freeQ` is a loop of two steps between which interrupts push and
allocate. `Ahead` is where `ev_queue_rawPush` links an element in: behind `tail`
without priorities, whether or not it is the last element, else where the
search for a lower priority stops. `holder` and `earlier` are history: who has a
block, and which blocks of its queue were pushed before it. A client frees what
it holds, or frees again what is free; a pointer that is no event buffer
(`ev_buffer.c:224-231`, an exception) is not freed. The names differ from those of `EvTimer`
(`Null`, `qHead`, `MemSpec`) so that one proof module can extend both.

**MacPhy.** Three actors: the radio (`AirStart`, `AirEnd`, `TxEnd`), the interrupt
handler (`IrqEnter` reads the sources; `IrqTx`, `IrqRx`, `AckDone`, `IrqTmr` follow in
the order of `irq_handler`, which does not nest on the b85m chips) and the main
loop, which the handler interrupts between any two steps. The MAC's CSMA callback
(`CcaIdle`, `CcaBusy`, `SwitchTx`, `StartTx`) runs in the timer interrupt or, when the
back-off is below the timer's safe boundary, in the main loop, called by
`hwTmr_setAbs`; both are modelled. The MAC library sets `TX_BUSY` before it calls
`rf802154_tx`; that, and its taking of frames, is external. The module follows the
8258 and 8278, where `RF_DMA_BUSY` reads the hardware. `rf_setTrxState` is two steps,
because the record `rfMode` follows the radio. A close of the radio that an
acknowledgement interrupts leaves `rfMode` at off and the radio receiving;
`NeverDeaf` speaks of the other direction. Two things are left out: the branch of
`drv_hwTmr_irq_process` for a timer that is not waiting (`drv_timer.c:203-211`), and the
test of `TX_BUSY` in `rf_performCCA` (`mac_phy.c:399`), without which `CcaIdle` allows more
than the code.

**Assoc.** Per device: saved network, scan timer, beacons heard, association under
way, address. The coordinator: permit, device and key tables of the PIB
(`AttrSet`, `Known`), `device_index`, `device_addr_short`, `end_device`, and the timer
and task that send data to each device in turn. `txTimer` is the pointer that
`app_data_transmit_toggle` (`ToggleTransmit`, key SW2) keeps after its timer has ended
(`TxTimerFires`): the place in the pool it points at is free, or `data_send` has taken it
since, and then the next press cancels `data_send_indir_timer`. `data_send` may take any
free place, for other parts of the system use the pool too; that it is full is not
modelled. Requests and responses are lost
at any time, an association may fail at any time, and power cycles keep NV and
forget RAM. `member` are the devices that joined since the coordinator started.
Buffer allocation for a frame is assumed to succeed (the code stops for ever if
not), and a device has one saved network.

Operators named after a mutation ("Mutant: ...") are the altered definitions
used to show that each property can fail; no specification uses them.

## 3. Runs

| Run | Checks | Result |
|---|---|---|
| `nv_store` | `Durable`, `ReadBack`, `OneValidSector`, refinement `Atomic` | holds |
| `flash` | `LockBelieved`, `WriteExact`, `CheckedIsWritten` | holds |
| `nv_lock` | `ReadBack` when the lock range covers the NV area | violated (finding) |
| `nv_frame_count` | `SearchIsFirstErased`, `NeverBack`, `Progress` | holds |
| `nv_reset` | module `KeyReset`: `NeverHalfReset`, `FrameCountKept`, `FactoryResetErases`, `ResetFinishes`, `ReleaseSeen`, `ResetOnlyHeld` | holds |
| `ota` | `AlwaysBootable`, `NeverSilent`, `StopMeansVerified` | holds |
| `ota_live` | `Completes` | holds |
| `ota_retry` | `Completes` when a transfer is given up once | violated (finding) |
| `ev_timer` | `PoolSound`, `NothingCancelledFires`, `NoneSkipped`, `NotEarly`, `NearestIsLeast`, `CancelsOwn` | holds |
| `ev_mem` | `FreeSound`, `QueueSound`, `PriorityFifo` | holds |
| `mac_phy` | `NeverDeaf`, `BuffersSound`, `AckedIsDelivered`, `DataUndisturbed`, `SentOnce`, `BusyReleased` | holds |
| `assoc` | `AddressAgreed`, `TablesAligned`, `SendsToKnown`, `Served` | holds |

`nv_store` also checks the type invariant that section 4 proves. The type
invariants of the other modules hold on the same instances.

**Findings.** (1) The comment of `drv_flash.c:51` says the NV area is not locked;
the chip table locks the whole chip and `nv_flashWriteNew` writes its headers
after `nv_write_item` has locked it again. (2) `ota_init` does not reset
`ota_headercnt`: after a transfer was given up with some blocks received no later
one succeeds until the device restarts.

**Also seen**, and listed with the hazards: `nv_flashWriteNew` deletes the old entry
even when the new one failed its checksum (`Durable` fails with `Faults = TRUE`); the
`flash_write_page` of the 8258 does not split a range at page boundaries, which an
NV payload may cross (`WriteExact` fails with `Splits = FALSE`);
`app_data_txto_allnode` lets its timer end and keeps the pointer, which later
cancels another client's timer (`CancelsOwn` fails with `Careless = {c1}`): SW2, three
seconds, a first association, SW2 again, and the coordinator sends no data until
the next association (`Served` without its last disjunct fails);
`ota_startRspHandler` erases without `flash_unlock` (377), while both demos set
`FLASH_PROTECT_ENABLE`, `drv_hw.c:229` locks the flash at start and the lock ranges of
`c_flashOptList` cover the banks: on those chips an upgrade succeeds only into a
bank that was erased from the start, so the second one never does, nor the first
after a power failure between the two flag writes (`Completes` fails without its
two exceptions for `locked`); a low supply that drops the write of 341 and not the
one of 343 leaves no bank flagged (`AlwaysBootable` fails without `enableLost`); a timer
that its callback arms again fires early by what the pass had taken until then
(`NotEarly` fails when the time is counted from the callback); the
sectors of `USER_INFO1` are 16K each in a range of 8K and overlap `USER_INFO2`; a
failed association is not tried again before a power cycle; a restarted
coordinator gives out addresses that devices may still hold; the entry
`0x11460c8` of the lock table has four bytes and an identification read from the chip three, so
that it never matches; with three keys a
factory reset can follow although SW1 has been released; after a restart a device
with a saved network has no key material, which only `MyAssocCnfCb` sets up.

**Bounds.** `NvStore`: three index entries and 16 bytes are the least with which
an update is forced by the table and by space, carries several entries over and
can still fail; two items, one single with two payloads, one not, so that copies
accumulate; one power failure, at any step. Every item has one length (an item
rewritten with another length leaves its old entry valid, `drv_nv.c:99`), which
is a multiple of the alignment: with others the guard of `drv_nv.c:315`, which
adds unaligned sizes, lets an item run past the sector end and `WithinSector`
fails. `Flash`: three pages of two cells,
so that a write of four starts inside a page, covers another and ends in a third;
one status write that the chip ignores. `NvFrameCount`:
two pages of two units, counters up to three sector changes, two power failures.
`KeyReset`: the real layout in 4K units, data in the frame counter and in the module
with the large sectors, one power failure, two keys, a hold time of two ticks
with any number of loops between them, the real release count; three keys were
checked as well. `MacPhy`: three buffers for three frames, so that the pool
runs out (two wait for the MAC, one receives); frames with and without
acknowledgement request, good or not; two transmissions, so that a second one
meets what the first left.
`Assoc`: three devices for a table of two, so that it fills up; two coordinators on
the channel; one power cycle of either side; one beacon per scan of one quality,
from either coordinator, because which of them is the best has no bearing on the
properties (the proofs hold for lists of any length and quality). `Ota`: a file of
four blocks whose last one is short, so that block and header edges fall on
different places, over two sectors; chips with and without lock; one frame lost or
repeated (two in `ota_retry`) against two retries, one flash command that fails, one
power failure; sequence numbers wrap at three or four. A file whose size is a multiple of
the frame size never completes (its last block is sent with length 0,
`tl_specific_data_ota.c:248`), so `Completes` is only claimed for others. `EvTimer`: three
timers suffice for a callback that removes its predecessor, its successor or the
head; two operations per callback; a millisecond of two ticks, sleeps of up to four, and between two passes, callbacks
included, at most `MaxStep` ticks. The clients of
the pool are interchangeable (symmetry) as long as none of them is careless.
`EvMem`: three small buffers, two of them of the same priority, fill a queue with
a first, a middle and a last element; one large buffer takes the requests the
small ones cannot serve.

**Fairness.** `NvFrameCount` and `KeyReset`: an operation that is running goes on
(the code does not wait), and in `NvFrameCount` the caller keeps saving. `Ota`:
timers fire, frames in the air are received, a reboot goes on; `Prompt` says
that answers come within the retry period of one second, else retries alone
could use up the budget. Power failures and losses are never fair and are
bounded. `MacPhy`: the radio ends what it sends, raised interrupts are served,
handlers and callbacks go on; frames and the MAC's requests are not fair.
`Assoc`: the coordinator's timer fires and its main loop runs the tasks it posts
(a new association restarts the five seconds, but a device associates once per
power cycle); keys are not fair, and when one of them cancels the timer `Served`
claims nothing until the next association. `NvStore`, `Flash`, `EvTimer` and `EvMem` state no
fairness.

**Deadlock** is checked except in `NvFrameCount`, which stops at its largest
counter, and in `ota`, where a device without a flagged bank stops.

## 4. Proofs

Each theorem holds for every value of the constants that satisfies the module's
named assumption: any sizes, any number of devices, frames, buffers or keys, any
number of power failures, losses and retries. Each proof module defines an
inductive invariant (`IInv`; for `NvStore` `TInv`, `HInv` and `DInv`, for `EvMem` `MemInv`) as a conjunction of named parts, proves that `Init`
implies it, that every action keeps it (one lemma per action), and that it implies
the properties. Every one was first checked with TLC on the instances of
section 3 and on variations of them.

| Module | Proved |
|---|---|
| `NvStoreProofs` | `TypeOK`, `OneValidSector`; `Durable`, `ReadBack` and the refinement `Atomic`, without faults and with a lock range below the NV area |
| `FlashProofs` | `LockBelieved`, `CheckedIsWritten`; `WriteExact` where pages are split |
| `NvFrameCountProofs` | `SearchIsFirstErased`, `NeverBack` |
| `KeyResetProofs` | `NeverHalfReset`, `FrameCountKept`, `FactoryResetErases`, `ReleaseSeen`, `ResetOnlyHeld` |
| `OtaProofs` | `AlwaysBootable`, `StopMeansVerified`, `NeverSilent` |
| `MacPhyProofs` | `NeverDeaf`, `BuffersSound`, `AckedIsDelivered`, `DataUndisturbed`, `SentOnce` |
| `AssocProofs` | `AddressAgreed`, `TablesAligned`, `SendsToKnown` |
| `OsProofs` | `EvTimer`: `TypeOK`, `PoolSound`, `NothingCancelledFires`, `NoneSkipped`, `NotEarly`, `NearestIsLeast`; `CancelsOwn` without careless clients |
| | `EvMem`: `MemTypeOK`, `FreeSound`, `QueueSound`, `PriorityFifo` |

**NvStore.** `TypeOK` is not inductive: the offset of an item is computed from the entry
before it, which has to be in use, and a payload that becomes valid has to be
one that a caller gave. `TInv` adds `EntryInv` (entries), `OpInv` (the locals at
each step, with `w <= r` in the copy loop, which keeps the write index inside
the table), `SlotInv` (the entry being written and the one before it) and
`DelInv` (the entry to delete). `InductiveTypes` states it. `OneValidSector`
needs `HdrInv`: which header may be valid at each step of a write, because the
two headers change in two steps. `TInv` and `HInv` were checked with TLC on
instances of `NvStore` with and without faults and with a lock range.

`Durable`, `ReadBack` and `Atomic` have two hypotheses: a payload reads back
(`~Faults`) and the lock range ends below the NV area (`~LockCoversNv`). Without
either they are false (finding 1, and the checksum case above). `PInv` is the
account of the two sectors that the proof needs: which sector a write works on
(`SectInv`), that nothing valid lies at or above the entry being written and that
this entry is the newest afterwards (`TailInv`), that the copy loop has carried
over the newest entry of every item among those it has read (`CopyInv`: the newest
entry below `w` in the new sector is the newest below `r` in the old one), that the
entry to delete lies below the new one (`JobInv`), that only a used sector has
an invalid header, so that a first item always gets its header (`UsedInv`), and
that a store without a valid header is empty or inside one of the windows
`orphan` records (`OrphanInv`). Five lemmas (`LatestSame`, `LatestTop`, `LatestCut`,
`LatestNone`, `LatestOne`) are all that is used of the search for the newest entry.
`SeenSame`, `SeenCommit`, `SeenDelete` and `SeenReset` then say what each action shows a
reader; durability and the step simulation both follow from them. A write takes
effect at one of three steps: its entry becomes valid in the sector in use; or,
in an update into sector 0, the old header becomes invalid, because sector 0 is
what the driver falls back to; or, into sector 1, the new header becomes valid.

**Flash.** `LockInv` says, for each step of `flash_lock` and `flash_unlock` and each
kind of part, what the register holds while the two status bytes are written one
after the other; `DataInv` says which cells a write has done so far. `WriteCorrect`
assumes `Splits`: the 8258 does not split, and there the statement is false. The
proof found that two guards of the `CASE` in `StatusAfter` overlapped (TLC takes
the first one, TLA+ leaves the value open); they no longer do.

**NvFrameCount.** `LogInv`: the used words of a sector are a prefix. With it the search
by pages and units is shown to find the end of the prefix, for every geometry;
the minima and maxima it needs exist because a least counterexample would have
a predecessor. `FreshInv`, `AppendInv`, `UpdateInv`: what the two sectors hold at each
step of a save into an empty, a partly filled and a full sector. The assumption
that `Nil` is no counter stands for the erased word `0xffffffff`.

**KeyReset.** `NvInv`: a reset that is under way is flagged in flash and `todo` lists
what it has still to erase, so that a power failure cannot hide it; `FlagInv` that
nothing but a reset runs with the byte set, and `HalfInv` that a store is half erased
only then and no longer than something is left to erase. `KeyInv`: the
release counter does not run out before the debounce filter has passed the
release on (`ReleaseInv`), and `age` against the state of the key handler
(`HeldInv`). The assumption `ReleaseCnt > 2` is needed: the filter takes three
scans; the code has six.

**Ota.** `BootInv`: while the device lives, the bank that it runs is flagged and
complete, it is the one the boot code would choose but for the time between the two
flag writes, and then the other bank is flagged unless its write was dropped; a
device that is dead lost that write. Erases and block writes only touch the other
bank: they may damage an image there, flagged or not, but it is not the one the boot
code chooses. `TransferInv`: a transfer starts from
a clean state but for `ota_headercnt` and `ota_headersize`; `HeaderRead` is what keeps a
stale count from passing a header for the right one; while data is written the
count is header size plus offset and the CRC is a copy of what is in the bank.
`VerifiedInv` follows at the last block. The header parser is a recursive function;
`ParseExists` proves that its recursion has a solution for every length (the
solution for one unit less is extended by a step) and `ParseKeeps` what it keeps.

**MacPhy.** `TxInv` follows a transmission: the busy flag against the callback and
the MAC (`BusyInv`), the back-off (`CsmaInv`), the acknowledgement sent by the
interrupt (`AckInv`), the end of the transmission (`EndInv`), the frame in the
buffer (`DataInv`) and the two counters (`CountInv`). `ModeInv` says how far the
record `rfMode` may lag the radio, `AckedInv` which frames were acknowledged.

**Assoc.** `DevInv` is the life of a device, `TableInv` the tables as prefixes of equal
length without repetitions; `RespInv` and `MemberInv` say that the table holds the
address that a response under way carries and the one a joined device uses.
From these follow the agreement of addresses and, with `SendInv`, that the
sending index stays below `device_index`.

**EvTimer.** `Walk`, which reads the list, is a recursive function. `WalkRecExists` shows
that its recursion has a solution, and `WalkLeast` that its value is the least set
that holds the head and is closed under `next`: a set that still grew after as
many steps as there are timers would have more elements than there are timers.
Everything after that uses this characterisation only: `InsertWalk`, `CutWalk` and
`DeleteWalk` say what the list macros do to the list, `NearestIs` that the search for
the nearest timer has a result. Induction is over a set of naturals
(`SetInduction`), which needs no operator parameter. `ListInv` relates list and pool;
`PassInv` says what a pass in `ev_timer_executeCB` has still to serve and where its
pointer can be (a removed timer keeps its `next`, and the walk starts again at the
head when the head changed); `TimeInv` bounds, for each timer, the milliseconds that
were taken off by the ticks that really passed, with the ticks carried over
(`remTick`) as the difference; `NearInv` is the place of `timer_nearest`. The arithmetic of the
carried ticks (`ProcessMs`, `SleepSkew`, `AgeRunning`, `AgeFirst`, `Drift`) is a set of lemmas on
quotients and remainders. `CancelsOwn` is proved for `Careless = {}` only, and is false
otherwise. The attempt to prove `NearestIsLeast` showed that its former bound,
`MaxStep \div TickMs`, was too small: it left out the ticks that two roundings drop,
and TLC found a counterexample with periods of one and three milliseconds, two
ticks per millisecond and steps of two ticks. `Slack` is the bound that is proved;
the invariants were then checked with TLC on that instance and on two others.

**EvMem.** `IsChain(h, lk, s)` says that the links from `h` spell out the sequence `s`
of different blocks; `ChainIs` shows that the recursive function `Chain` then
computes `s`, because its value after `n` steps is the prefix of length `n + 1` and
no such sequence is longer than there are blocks. Every operation on a list inserts
one element or removes one: `InsertChain` and `RemoveChain` say which links that takes,
`ChainSame` that other links do not matter. `MemInv` gives each free list and each
queue as such a sequence (`FreeInv`, `QueueInv`), with `holder` saying whose block it
is: lists of different holders share no block, so a link written for one is never
a link of another, although they use the same word. `GroupInv` is what
`ev_buf_free` relies on when it reads the group from the buffer, and keeps the block
that `ev_queue_freeQ` has popped apart from what interrupts do. `Ordered` and
`EarlierInv` carry the order of a queue; an element of lower priority behind the place
where the search stopped is lower than the new one because the queue is sorted.
To be proved about, the model now links a FIFO element in through `tail`, as the
code does, and records the order of pushes as a relation instead of a sequence;
the reachable states are as many as before.

**Only model-checked.** What needs fairness: `Progress`, `ResetFinishes`, `Completes`,
`BusyReleased`, `Served`, which the prover cannot treat. Every invariant and every
action property that a passing run checks is also proved, under the hypotheses named above. The two findings are
counterexamples and have no theorem.

## 5. Plan

1. (done) `NvStore` with its abstract specification and first proofs,
   `NvFrameCount`, `NvReset`, `Ota`, `EvTimer`, `EvMem`.
2. (done) `MacPhy`: interrupts against the main loop.
3. (done) `Assoc`: both applications and the tables of the PIB.
4. (done) `Keys`, composed with `NvReset` in `KeyReset`; sleep and wake in `EvTimer`;
   `Flash`.
5. (done) Proofs about `Flash`, `NvFrameCount`, `KeyReset`, `Ota`, `MacPhy` and `Assoc`.
6. (done) Proofs of `Durable` and `ReadBack`, and from them the refinement
   `NvStore => NvAtomic`.
7. (done) Proofs about `EvTimer` and `EvMem`.
8. A model of deep sleep without a timer and of the choice between short and long
   sleep (`drv_pm.c`) beside `EvTimer`; hazards without a property are listed with the
   reason in `PROJECT.json`.

## 6. Not modelled

- **Chip support** (`platform/`): register headers, chip drivers and boot code for
  four chips are most of the repository's lines. They hold no control logic of
  the SDK: a register access takes effect at once, or is the external part of an
  action (radio, flash, timer).
- **MAC library**: a binary. Its calls into the repository and the calls it accepts
  are external actions of `MacPhy` and `Assoc`.
- **Host interface, UART, USB**: the host interface is switched off in every
  project (`ZBHCI_EN`), and the handler of its commands is not in the repository;
  without it the drivers only move bytes.
- **Other peripherals** (ADC, GPIO, I2C, SPI, PWM, watchdog): one call, one
  register access.
- In the modelled components: contents of frames beyond the fields that decide
  something, security headers, CRC arithmetic (`Ota` compares what a CRC was
  computed over), logging; averaging of the energy scan, link quality, transmit
  power and amplifier pins of the PHY driver; the choice between short and long
  sleep; a low battery in the NV modules, which would have to notice that
  `flash_write` did nothing (`Flash` models it, the NV driver does not ask); a
  counter of `0xffffffff`, which reads as erased; return codes nobody looks at.
- Without a caller: `nv_index_update`, `nv_resetAll`, `nv_init`, `tl_zbMacSecAttrDel`.
- `mac_pib.c` reads attributes from `MAC_KEY_TABLE` on without the offset with
  which it writes them (lines 348-352 against 435-436); no code in the repository
  reads one.
