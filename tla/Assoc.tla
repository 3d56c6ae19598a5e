------------------------------- MODULE Assoc -------------------------------
(***************************************************************************)
(* Joining a network: the end device application (associate_dev), the       *)
(* coordinator application (associate_coor) and the device and key tables   *)
(* of the MAC PIB they fill.  A new device scans every three seconds,       *)
(* asks the best coordinator it heard for an address, and saves its network *)
(* in NV; the coordinator gives out addresses from a table in RAM and sends *)
(* data to its devices in turn.  The MAC library between them is external:  *)
(* requests, responses and confirms are lost, delayed or answered twice.    *)
(* Both sides may lose power at any time.                                   *)
(***************************************************************************)
EXTENDS Integers, Sequences, FiniteSets

CONSTANTS
  Devices,        \* the end devices, named by their long address
  None,           \* no address, no network
  EndDeviceNum,   \* END_DEVICE_NUM = MAC_DEV_TABLE_MAX_LEN (16)
  MaxScanResults, \* MAX_ED_SCAN_RESULTS_SUPPORTED (16)
  Lqi,            \* the link qualities a beacon may carry
  MaxCycles       \* bound: power cycles, of the devices and the coordinator

Home == "home"                    \* the coordinator of this module
Other == "other"                  \* any other coordinator on the channel
Beacon == [pan : {Home, Other}, lqi : Lqi]
AddrBase == 13056                 \* device_addr_short = 0x3300
Slot(addr) == addr % 16           \* device_addr_short & 0xf
Addrs == AddrBase .. (AddrBase + 15)
Foreign == 1                      \* an address some other coordinator gave

ASSUME AssocAssumption ==
  /\ EndDeviceNum \in 1..16
  /\ MaxScanResults \in Nat \ {0, 1}
  /\ None \notin Devices /\ None \notin Addrs \cup {Foreign} /\ None \notin {Home, Other}
  /\ Lqi \subseteq Nat
  /\ MaxCycles \in Nat

VARIABLES
  \* the end device
  nv,         \* nv[d]: the network ieee802154_info_save stored, or None
  newDev,     \* newDev[d]: gDevCtx.newDev
  timer,      \* timer[d]: BeaconReqTimer is running
  scanning,   \* scanning[d]: an active scan is under way
  coor,       \* coor[d]: received_coor, the beacons of this scan
  asked,      \* asked[d]: the network of the association under way, or None
  addr,       \* addr[d]: the short address of d's PIB, or None
  \* the coordinator
  permit,           \* MAC_ATTR_ASSOCIATION_PERMIT
  devTable,         \* g_zbMacPib.devTable: [ext, short]
  keyTable,         \* g_zbMacPib.keyTable: the device each key is for
  device_index,
  device_addr_short,
  end_device,       \* end_device[slot]: [ext, short]
  sendTimer,        \* data_send_indir_timer is running
  sendTask,         \* mac_send_data_indirect is in the task queue
  indirect_device_index,
  txTimer,          \* what g_data_txto_allnode_timer points at, see TxStates
  \* the MAC library and the air
  reqs,       \* association requests on their way to the coordinator
  resp,       \* resp[d]: the response the coordinator's MAC holds for d
  member,     \* devices that joined since the coordinator last started
  cycles      \* power cycles so far

devVars   == <<nv, newDev, timer, scanning, coor, asked, addr>>
tableVars == <<devTable, keyTable, device_index, device_addr_short, end_device>>
sendVars  == <<sendTimer, sendTask, indirect_device_index, txTimer>>
macVars   == <<reqs, resp>>
bounds    == <<member, cycles>>
vars == <<devVars, permit, tableVars, sendVars, macVars, bounds>>

Entry == [ext : Devices, short : Addrs]
EmptyEntry == [ext |-> None, short |-> 0]  \* end_device starts as zeroes

\* The pointer of app_data_transmit_toggle: NULL; to its own running timer; to
\* the place in the timer pool that its ended timer has left; or to that place
\* with data_send_indir_timer in it by now.
TxStates == {"null", "own", "left", "send"}

TypeOK ==
  /\ nv \in [Devices -> Addrs \cup {Foreign, None}]
  /\ newDev \in [Devices -> BOOLEAN]
  /\ timer \in [Devices -> BOOLEAN] /\ scanning \in [Devices -> BOOLEAN]
  /\ coor \in [Devices -> Seq(Beacon)]
  /\ \A d \in Devices : Len(coor[d]) < MaxScanResults
  /\ asked \in [Devices -> {Home, Other, None}]
  /\ addr \in [Devices -> Addrs \cup {Foreign, None}]
  /\ permit \in BOOLEAN
  /\ devTable \in Seq(Entry) /\ keyTable \in Seq(Devices)
  /\ device_index \in 0..EndDeviceNum
  /\ device_addr_short \in Addrs
  /\ end_device \in [0..(EndDeviceNum - 1) -> Entry \cup {EmptyEntry}]
  /\ sendTimer \in BOOLEAN /\ sendTask \in BOOLEAN
  /\ indirect_device_index \in 0..(EndDeviceNum - 1)
  /\ txTimer \in TxStates
  /\ reqs \subseteq Devices /\ resp \in [Devices -> Addrs \cup {None}]
  /\ member \subseteq Devices

(***************************************************************************)
(* Start.  user_init of a device with no saved network schedules the scan   *)
(* timer; one with a network goes on with its saved address.  All of the    *)
(* coordinator's tables are in RAM.                                         *)
(***************************************************************************)
Init ==
  /\ nv = [d \in Devices |-> None]
  /\ newDev = [d \in Devices |-> TRUE]
  /\ timer = [d \in Devices |-> TRUE]
  /\ scanning = [d \in Devices |-> FALSE]
  /\ coor = [d \in Devices |-> << >>]
  /\ asked = [d \in Devices |-> None]
  /\ addr = [d \in Devices |-> None]
  /\ permit = FALSE
  /\ devTable = << >> /\ keyTable = << >> /\ device_index = 0
  /\ device_addr_short = AddrBase
  /\ end_device = [i \in 0..(EndDeviceNum - 1) |-> EmptyEntry]
  /\ sendTimer = FALSE /\ sendTask = FALSE
  /\ indirect_device_index = 0 /\ txTimer = "null"
  /\ reqs = {} /\ resp = [d \in Devices |-> None] /\ member = {}
  /\ cycles = 0

\* user_init after a power cycle of device d.
DevReboot(d) ==
  /\ cycles < MaxCycles
  /\ cycles' = cycles + 1
  /\ newDev' = [newDev EXCEPT ![d] = (nv[d] = None)]
  /\ timer' = [timer EXCEPT ![d] = (nv[d] = None)]
  /\ scanning' = [scanning EXCEPT ![d] = FALSE]
  /\ coor' = [coor EXCEPT ![d] = << >>]
  /\ asked' = [asked EXCEPT ![d] = None]
  /\ addr' = [addr EXCEPT ![d] = nv[d]]
  /\ UNCHANGED <<nv, permit, tableVars, sendVars, macVars, member>>

\* user_init of the coordinator after a power cycle: nothing of it is saved.
CoorRestart ==
  /\ cycles < MaxCycles
  /\ cycles' = cycles + 1
  /\ permit' = FALSE
  /\ devTable' = << >> /\ keyTable' = << >> /\ device_index' = 0
  /\ device_addr_short' = AddrBase
  /\ end_device' = [i \in 0..(EndDeviceNum - 1) |-> EmptyEntry]
  /\ sendTimer' = FALSE /\ sendTask' = FALSE
  /\ indirect_device_index' = 0 /\ txTimer' = "null"
  /\ resp' = [d \in Devices |-> None]
  /\ member' = {}
  /\ UNCHANGED <<devVars, reqs>>

(***************************************************************************)
(* The end device.                                                          *)
(***************************************************************************)
\* BeaconReqTimer fires: dev_active_scan empties the list and scans.
ScanTimer(d) ==
  /\ timer[d] /\ ~scanning[d]
  /\ scanning' = [scanning EXCEPT ![d] = TRUE]
  /\ coor' = [coor EXCEPT ![d] = << >>]
  /\ UNCHANGED <<nv, newDev, timer, asked, addr, permit, tableVars, sendVars,
                 macVars, bounds>>

\* MyBeaconIndCb: a beacon that permits no association is ignored, and so is
\* one that would be the last entry of the list.  A coordinator answers the
\* beacon request once.
MyBeaconIndCb(d) ==
  /\ scanning[d]
  /\ Len(coor[d]) + 1 < MaxScanResults
  /\ \E b \in Beacon :
       /\ b.pan = Home => permit
       /\ \A i \in DOMAIN coor[d] : coor[d][i].pan # b.pan
       /\ coor' = [coor EXCEPT ![d] = Append(@, b)]
  /\ UNCHANGED <<nv, newDev, timer, scanning, asked, addr, permit, tableVars,
                 sendVars, macVars, bounds>>

\* The loop of dev_start_associate: the first beacon of the highest quality.
Best(bs) ==
  bs[CHOOSE i \in DOMAIN bs :
       /\ \A j \in DOMAIN bs : bs[j].lqi <= bs[i].lqi
       /\ \A j \in 1..(i - 1) : bs[j].lqi < bs[i].lqi]

\* MyScanCnfCb after a scan that heard nothing: the timer goes on.
ScanCnfNothing(d) ==
  /\ scanning[d] /\ coor[d] = << >>
  /\ scanning' = [scanning EXCEPT ![d] = FALSE]
  /\ UNCHANGED <<nv, newDev, timer, coor, asked, addr, permit, tableVars,
                 sendVars, macVars, bounds>>

\* MyScanCnfCb after a scan that heard a coordinator: the timer is cancelled
\* and dev_start_associate sends the request.  Nothing reads the list until
\* the next scan empties it, so the model empties it here.
ScanCnfAssociates(d) ==
  /\ scanning[d] /\ coor[d] # << >>
  /\ scanning' = [scanning EXCEPT ![d] = FALSE]
  /\ timer' = [timer EXCEPT ![d] = FALSE]
  /\ coor' = [coor EXCEPT ![d] = << >>]
  /\ LET pan == Best(coor[d]).pan IN
       /\ asked' = [asked EXCEPT ![d] = pan]
       /\ reqs' = IF pan = Home THEN reqs \cup {d} ELSE reqs
  /\ UNCHANGED <<nv, newDev, addr, permit, tableVars, sendVars, resp, bounds>>

\* MyAssocCnfCb with MAC_SUCCESS: the MAC has set the address, the network
\* is saved.
AssocCnf(d) ==
  /\ asked[d] # None
  /\ asked[d] = Home => resp[d] # None
  /\ LET a == IF asked[d] = Home THEN resp[d] ELSE Foreign IN
       /\ addr' = [addr EXCEPT ![d] = a]
       /\ nv' = [nv EXCEPT ![d] = a]
  /\ resp' = IF asked[d] = Home THEN [resp EXCEPT ![d] = None] ELSE resp
  /\ member' = IF asked[d] = Home THEN member \cup {d} ELSE member
  /\ newDev' = [newDev EXCEPT ![d] = FALSE]
  /\ asked' = [asked EXCEPT ![d] = None]
  /\ UNCHANGED <<timer, scanning, coor, permit, tableVars, sendVars, reqs, cycles>>

\* MyAssocCnfCb with an error (no answer in time, or refused): the key
\* material is set up, and nothing is scheduled.
AssocCnfFails(d) ==
  /\ asked[d] # None
  /\ asked' = [asked EXCEPT ![d] = None]
  /\ UNCHANGED <<nv, newDev, timer, scanning, coor, addr, permit, tableVars,
                 sendVars, macVars, member, cycles>>

(***************************************************************************)
(* The coordinator.                                                         *)
(***************************************************************************)
\* tl_zbMacAttrSet on a table: an index past the end is refused, the end
\* appends, an index within replaces.
AttrSet(table, i, value) ==
  IF i > Len(table) THEN table
  ELSE IF i = Len(table) THEN Append(table, value)
  ELSE [table EXCEPT ![i + 1] = value]

\* The search of add_key_material (tl_zbMacAttrGet, index by index).
Known(d) == {i \in DOMAIN devTable : devTable[i].ext = d}

\* localPermitJoinState, on a key of the coordinator.
TogglePermit ==
  /\ permit' = ~permit
  /\ UNCHANGED <<devVars, tableVars, sendVars, macVars, bounds>>

\* Mutant: the address found in the table is not taken over.
AddKnownForgets(d) ==
  /\ Known(d) # {}
  /\ UNCHANGED <<device_addr_short, devTable, keyTable, device_index>>

\* add_key_material for a device whose long address is in the table: it
\* keeps its address.
AddKnown(d) ==
  /\ Known(d) # {}
  /\ device_addr_short' = devTable[CHOOSE i \in Known(d) :
                                     \A j \in Known(d) : i <= j].short
  /\ UNCHANGED <<devTable, keyTable, device_index>>

\* Mutant: device_index is counted up before the key table is set.
AddNewCountsEarly(d) ==
  /\ Known(d) = {}
  /\ device_index < EndDeviceNum
  /\ LET short == (device_addr_short - Slot(device_addr_short)) + device_index
     IN /\ device_addr_short' = short
        /\ devTable' = AttrSet(devTable, device_index,
                               [ext |-> d, short |-> short])
  /\ device_index' = device_index + 1
  /\ keyTable' = AttrSet(keyTable, device_index', d)

\* add_key_material for a device it has not seen.
AddNew(d) ==
  /\ Known(d) = {}
  /\ device_index < EndDeviceNum
  /\ LET short == (device_addr_short - Slot(device_addr_short)) + device_index
     IN /\ device_addr_short' = short
        /\ devTable' = AttrSet(devTable, device_index,
                               [ext |-> d, short |-> short])
  /\ keyTable' = AttrSet(keyTable, device_index, d)
  /\ device_index' = device_index + 1

\* data_send: the running timer is cancelled and a new one scheduled, in any
\* place of the pool that is free, the one txTimer still points at included.
\* When the toggle has cancelled it, data_send_indir_timer points at a place
\* that the toggle's own timer may have taken since: that one is cancelled.
DataSend ==
  /\ sendTimer' = TRUE
  /\ txTimer' \in CASE txTimer \in {"left", "send"} -> {"left", "send"}
                   [] txTimer = "own" /\ device_index > 0 /\ ~sendTimer -> {"own", "left", "send"}
                   [] OTHER -> {txTimer}

\* The rest of MyAssociateIndCb: the device list, the response, data_send.
Respond(d) ==
  /\ end_device' = [end_device EXCEPT ![Slot(device_addr_short')] =
                      [ext |-> d, short |-> device_addr_short']]
  /\ resp' = [resp EXCEPT ![d] = device_addr_short']
  /\ DataSend

\* MyAssociateIndCb.
MyAssociateIndCb(d) ==
  /\ d \in reqs
  /\ reqs' = reqs \ {d}
  /\ AddKnown(d) \/ AddNew(d)
  /\ Respond(d)
  /\ UNCHANGED <<devVars, permit, sendTask, indirect_device_index,
                 bounds>>

\* MyAssociateIndCb when the table is full: no response at all.
AssociateIndFull(d) ==
  /\ d \in reqs
  /\ Known(d) = {} /\ device_index >= EndDeviceNum
  /\ reqs' = reqs \ {d}
  /\ UNCHANGED <<devVars, permit, tableVars, sendVars, resp, bounds>>

\* External: a request or a response is lost, or a response expires.
LoseRequest(d) ==
  /\ d \in reqs
  /\ reqs' = reqs \ {d}
  /\ UNCHANGED <<devVars, permit, tableVars, sendVars, resp, bounds>>

LoseResponse(d) ==
  /\ resp[d] # None
  /\ resp' = [resp EXCEPT ![d] = None]
  /\ UNCHANGED <<devVars, permit, tableVars, sendVars, reqs, bounds>>

\* data_send_indir_timer_cb posts the task; five seconds apart, so the main
\* loop has run the one before.
SendTimerFires ==
  /\ sendTimer /\ ~sendTask
  /\ sendTask' = TRUE
  /\ UNCHANGED <<devVars, permit, tableVars, sendTimer, indirect_device_index,
                 txTimer, macVars, bounds>>

\* Mutants: the wrap one too late, and one too early.
NextIndirectLate ==
  IF indirect_device_index >= device_index THEN 0 ELSE indirect_device_index + 1

NextIndirectEarly ==
  IF indirect_device_index + 2 >= device_index
  THEN 0 ELSE indirect_device_index + 1

\* The next index of mac_send_data_indirect.
NextIndirect ==
  IF indirect_device_index + 1 >= device_index
  THEN 0 ELSE indirect_device_index + 1

\* mac_send_data_indirect: a frame for end_device[indirect_device_index].
SendIndirect ==
  /\ sendTask
  /\ sendTask' = FALSE
  /\ indirect_device_index' = NextIndirect
  /\ UNCHANGED <<devVars, permit, tableVars, sendTimer, txTimer, macVars, bounds>>

\* app_data_transmit_toggle, on a key: with no pointer the timer is scheduled;
\* else whatever timer is in the place it points at is cancelled and the pointer
\* cleared, or, with none there, nothing is done.  A timer of another part of
\* the system may be there too: it is not in this module.
ToggleTransmit ==
  /\ \/ txTimer = "null" /\ txTimer' = "own" /\ UNCHANGED sendTimer
     \/ txTimer = "own" /\ txTimer' = "null" /\ UNCHANGED sendTimer
     \/ txTimer = "left" /\ txTimer' \in {"left", "null"} /\ UNCHANGED sendTimer
     \/ txTimer = "send" /\ txTimer' = "null" /\ sendTimer' = FALSE
  /\ UNCHANGED <<devVars, permit, tableVars, sendTask, indirect_device_index,
                 macVars, bounds>>

\* app_data_txto_allnode: g_node_num_cur is never set, so the callback returns -1
\* and its timer ends; the pointer stays.
TxTimerFires ==
  /\ txTimer = "own"
  /\ txTimer' = "left"
  /\ UNCHANGED <<devVars, permit, tableVars, sendTimer, sendTask,
                 indirect_device_index, macVars, bounds>>

Next ==
  \/ CoorRestart \/ TogglePermit \/ SendTimerFires \/ SendIndirect
  \/ ToggleTransmit \/ TxTimerFires
  \/ \E d \in Devices :
       \/ DevReboot(d) \/ ScanTimer(d) \/ MyBeaconIndCb(d)
       \/ ScanCnfNothing(d) \/ ScanCnfAssociates(d)
       \/ AssocCnf(d) \/ AssocCnfFails(d)
       \/ MyAssociateIndCb(d) \/ AssociateIndFull(d)
       \/ LoseRequest(d) \/ LoseResponse(d)

\* The coordinator's timer fires and its main loop runs the tasks.
Fairness == WF_vars(SendTimerFires) /\ WF_vars(SendIndirect)

Spec == Init /\ [][Next]_vars /\ Fairness
-----------------------------------------------------------------------------
(***************************************************************************)
(* Properties.                                                              *)
(***************************************************************************)
\* What a device believes is what the coordinator's table says: a device that
\* joined since the coordinator started holds the address its table entry
\* and its place in end_device give, and no other entry has that address.
AddressAgreed ==
  \A d \in member :
    /\ addr[d] \in Addrs
    /\ \E i \in DOMAIN devTable : devTable[i] = [ext |-> d, short |-> addr[d]]
    /\ end_device[Slot(addr[d])] = [ext |-> d, short |-> addr[d]]
    /\ \A e \in member \ {d} : addr[e] # addr[d]

\* The device table, the key table and device_index stay in step: every device
\* has one entry, its key is at the same index, and the next index is free.
TablesAligned ==
  /\ Len(devTable) = device_index
  /\ keyTable = [i \in DOMAIN devTable |-> devTable[i].ext]
  /\ \A i, j \in DOMAIN devTable : devTable[i].ext = devTable[j].ext => i = j

\* Data goes only to addresses given out, never to an empty place of
\* end_device, through associations and restarts.
SendsToKnown ==
  sendTask => end_device[indirect_device_index] # EmptyEntry

\* Every device of the table is sent data again and again, until the
\* coordinator restarts or app_data_transmit_toggle, through the pointer it
\* kept, cancels data_send_indir_timer; and again after the next association.
Served ==
  \A i \in 0..(EndDeviceNum - 1) :
    (i < device_index)
      ~> \/ sendTask /\ indirect_device_index = i
         \/ i >= device_index
         \/ ~sendTimer
=============================================================================
