---------------------------- MODULE AssocProofs ----------------------------
(***************************************************************************)
(* Proofs about Assoc, for any set of devices, every size of the tables up *)
(* to the sixteen that the short addresses leave room for, and any number  *)
(* of power cycles: what devices and coordinator agree on.                 *)
(***************************************************************************)
EXTENDS Assoc, TLAPS

\* A device does one thing at a time: scan while its timer runs, or associate,
\* and neither once its network is saved.  A scan hears a coordinator once.
DevInv ==
  \A d \in Devices :
    /\ scanning[d] => timer[d]
    /\ timer[d] => nv[d] = None /\ asked[d] = None
    /\ asked[d] # None => nv[d] = None
    /\ \A i, j \in DOMAIN coor[d] : coor[d][i].pan = coor[d][j].pan => i = j

\* Entry i of the device table has address AddrBase + i - 1, and is the one in
\* end_device, which is addressed by the low bits of the address.
TableInv ==
  /\ TablesAligned
  /\ \A i \in DOMAIN devTable : /\ devTable[i].short = AddrBase + i - 1
                                /\ end_device[i - 1] = devTable[i]

\* An address given to a device: some entry of the table T is for both.
Given(T, d, a) == \E i \in DOMAIN T : T[i] = [ext |-> d, short |-> a]

\* A response under way has an address of the table.
RespInv == \A d \in Devices : resp[d] # None => Given(devTable, d, resp[d])

\* A member has saved the address it uses, which is one of the table.
MemberInv ==
  \A d \in member : nv[d] = addr[d] /\ addr[d] \in Addrs /\ Given(devTable, d, addr[d])

\* Data is sent only when there is a device, and to one that there is.
SendInv ==
  /\ sendTimer \/ sendTask => device_index > 0
  /\ indirect_device_index > 0 => indirect_device_index < device_index

IInv == TypeOK /\ DevInv /\ TableInv /\ RespInv /\ MemberInv /\ SendInv
---------------------------------------------------------------------------
(* What the operators and the table operations do. *)

\* AddrBase is a multiple of 16: the low bits of an address are its index.
LEMMA SlotOf == \A a \in Addrs : Slot(a) = a - AddrBase /\ Slot(a) \in 0..15
  BY DEF Slot, Addrs, AddrBase

LEMMA SameInterval == \A m, n \in Nat : 1..m = 1..n => m = n
<1> SUFFICES ASSUME NEW m \in Nat, NEW n \in Nat, 1..m = 1..n PROVE m = n
    OBVIOUS
<1>1. ~(m < n)
  <2>1. m < n => n \in 1..n /\ n \notin 1..m
    OBVIOUS
  <2>2. QED
    BY <2>1
<1>2. ~(n < m)
  <2>1. n < m => m \in 1..m /\ m \notin 1..n
    OBVIOUS
  <2>2. QED
    BY <2>1
<1>3. QED
  BY <1>1, <1>2

\* A scan hears at most two coordinators, so that the best one exists.
LEMMA BestType ==
  ASSUME NEW bs \in Seq(Beacon), bs # << >>,
         \A i, j \in DOMAIN bs : bs[i].pan = bs[j].pan => i = j
  PROVE  Best(bs).pan \in {Home, Other}
<1>1. Len(bs) \in Nat /\ Len(bs) >= 1 /\ DOMAIN bs = 1..Len(bs)
  OBVIOUS
<1>2. \A i \in DOMAIN bs : bs[i] \in Beacon /\ bs[i].pan \in {Home, Other} /\ bs[i].lqi \in Nat
  <2>1. \A i \in DOMAIN bs : bs[i] \in Beacon
    OBVIOUS
  <2>2. \A b \in Beacon : b.pan \in {Home, Other} /\ b.lqi \in Lqi
    BY DEF Beacon
  <2>3. Lqi \subseteq Nat
    BY AssocAssumption
  <2>4. QED
    BY <2>1, <2>2, <2>3
<1>3. Len(bs) <= 2
  <2>1. SUFFICES ASSUME Len(bs) >= 3 PROVE FALSE
    BY <1>1
  <2>2. 1 \in DOMAIN bs /\ 2 \in DOMAIN bs /\ 3 \in DOMAIN bs
    BY <1>1, <2>1
  <2>3. bs[1].pan # bs[2].pan /\ bs[2].pan # bs[3].pan /\ bs[1].pan # bs[3].pan
    BY <2>2
  <2>4. QED
    BY <1>2, <2>2, <2>3
<1> DEFINE P(i) == /\ \A j \in DOMAIN bs : bs[j].lqi <= bs[i].lqi
                   /\ \A j \in 1..(i - 1) : bs[j].lqi < bs[i].lqi
<1>4. \E i \in DOMAIN bs : P(i)
  <2>1. CASE Len(bs) = 1
    <3>1. DOMAIN bs = {1} /\ 1..(1 - 1) = {}
      BY <1>1, <2>1
    <3>2. P(1)
      BY <1>2, <3>1
    <3>3. QED
      BY <3>1, <3>2
  <2>2. CASE Len(bs) = 2
    <3>1. DOMAIN bs = {1, 2} /\ 1..(1 - 1) = {} /\ 1..(2 - 1) = {1}
      BY <1>1, <2>2
    <3>2. CASE bs[2].lqi <= bs[1].lqi
      BY <1>2, <3>1, <3>2
    <3>3. CASE bs[1].lqi < bs[2].lqi
      <4>1. P(2)
        BY <1>2, <3>1, <3>3
      <4>2. QED
        BY <3>1, <4>1
    <3>4. QED
      BY <1>2, <3>1, <3>2, <3>3
  <2>3. QED
    BY <1>1, <1>3, <2>1, <2>2
<1>5. (CHOOSE i \in DOMAIN bs : P(i)) \in DOMAIN bs
  BY <1>4
<1>6. QED
  BY <1>2, <1>5 DEF Best

\* The list of beacons is emptied.
LEMMA CoorEmptied ==
  ASSUME TypeOK, NEW d \in Devices, coor' = [coor EXCEPT ![d] = << >>]
  PROVE  /\ coor' \in [Devices -> Seq(Beacon)]
         /\ \A e \in Devices : Len(coor'[e]) < MaxScanResults
         /\ DOMAIN coor'[d] = {}
<1>1. coor \in [Devices -> Seq(Beacon)] /\ \A e \in Devices : Len(coor[e]) < MaxScanResults
  BY DEF TypeOK
<1>2. << >> \in Seq(Beacon) /\ Len(<< >>) = 0 /\ DOMAIN << >> = {} /\ 0 < MaxScanResults
  BY AssocAssumption
<1>3. coor' \in [Devices -> Seq(Beacon)]
  BY <1>1, <1>2
<1>4. \A e \in Devices : coor'[e] = IF e = d THEN << >> ELSE coor[e]
  BY <1>1
<1>5. QED
  BY <1>1, <1>2, <1>3, <1>4

\* add_key_material for a new device: one entry more in both tables, with the
\* address of its index.
LEMMA NewEntry ==
  ASSUME TypeOK, TableInv, NEW d \in Devices, AddNew(d)
  PROVE  LET e == [ext |-> d, short |-> AddrBase + device_index]
         IN /\ e \in Entry
            /\ devTable' = Append(devTable, e)
            /\ keyTable' = Append(keyTable, d)
            /\ device_index' = device_index + 1
            /\ device_addr_short' = AddrBase + device_index
            /\ AddrBase + device_index \in Addrs
            /\ \A i \in DOMAIN devTable : devTable[i].ext # d
<1>1. device_index \in 0..15 /\ device_index + 1 <= EndDeviceNum
  <2>1. device_index \in 0..EndDeviceNum
    BY DEF TypeOK
  <2>2. device_index < EndDeviceNum
    BY DEF AddNew
  <2>3. QED
    BY <2>1, <2>2, AssocAssumption
<1>2. device_addr_short - Slot(device_addr_short) = AddrBase
  <2>1. device_addr_short \in Addrs /\ device_addr_short \in Int /\ AddrBase \in Int
    <3>1. device_addr_short \in Addrs
      BY DEF TypeOK
    <3>2. QED
      BY <3>1 DEF Addrs, AddrBase
  <2>2. QED
    BY <2>1, SlotOf
<1>3. Len(devTable) = device_index /\ Len(keyTable) = device_index
  <2>1. Len(devTable) = device_index /\ DOMAIN keyTable = DOMAIN devTable
    BY DEF TableInv, TablesAligned
  <2>2. DOMAIN keyTable = 1..Len(keyTable) /\ DOMAIN devTable = 1..Len(devTable)
        /\ Len(keyTable) \in Nat /\ Len(devTable) \in Nat
    BY DEF TypeOK
  <2>3. QED
    BY <2>1, <2>2, SameInterval
<1>4. AddrBase + device_index \in Addrs
  BY <1>1 DEF Addrs, AddrBase
<1>5. QED
  BY <1>1, <1>2, <1>3, <1>4 DEF AddNew, AttrSet, Entry, Known

\* ... and for one that it knows: the address of its entry.
LEMMA KnownEntry ==
  ASSUME TypeOK, TableInv, NEW d \in Devices, AddKnown(d)
  PROVE  /\ UNCHANGED <<devTable, keyTable, device_index>>
         /\ \E i \in DOMAIN devTable : devTable[i] = [ext |-> d, short |-> device_addr_short']
         /\ device_addr_short' \in Addrs
<1> DEFINE m == CHOOSE i \in Known(d) : \A j \in Known(d) : i <= j
<1>1. \A i, j \in Known(d) : i = j
  BY DEF Known, TableInv, TablesAligned
<1>2. PICK i \in Known(d) : TRUE
  BY DEF AddKnown
<1>3. Known(d) = {i} /\ i \in DOMAIN devTable /\ i \in Nat
  BY <1>1, <1>2 DEF Known, TypeOK
<1>4. m = i
  BY <1>3
<1>5. devTable[i] \in Entry /\ devTable[i].ext = d
  BY <1>3 DEF Known, TypeOK
<1>6. device_addr_short' = devTable[i].short
  BY <1>4 DEF AddKnown
<1>7. QED
  BY <1>3, <1>5, <1>6 DEF AddKnown, Entry
---------------------------------------------------------------------------
(* Every step preserves the parts of the invariant. *)

LEMMA TypeStep == IInv /\ [Next]_vars => TypeOK'
<1> SUFFICES ASSUME IInv, [Next]_vars PROVE TypeOK'
    OBVIOUS
<1>1. TypeOK /\ TableInv /\ DevInv
  BY DEF IInv
<1>2. CASE CoorRestart
  <2>1. devTable' \in Seq(Entry) /\ keyTable' \in Seq(Devices)
    BY <1>2 DEF CoorRestart
  <2>2. /\ device_index' \in 0..EndDeviceNum /\ device_addr_short' \in Addrs
        /\ indirect_device_index' \in 0..(EndDeviceNum - 1)
    BY <1>2, AssocAssumption DEF CoorRestart, Addrs, AddrBase
  <2>3. /\ end_device' \in [0..(EndDeviceNum - 1) -> Entry \cup {EmptyEntry}]
        /\ resp' \in [Devices -> Addrs \cup {None}]
    BY <1>2 DEF CoorRestart
  <2>4. QED
    BY <1>1, <1>2, <2>1, <2>2, <2>3 DEF CoorRestart, TypeOK, TxStates, devVars
<1>3. CASE TogglePermit \/ SendTimerFires
  BY <1>1, <1>3 DEF TogglePermit, SendTimerFires, TypeOK, devVars, tableVars, sendVars,
                    macVars, bounds
<1>4. CASE SendIndirect
  <2>1. indirect_device_index' \in 0..(EndDeviceNum - 1)
    <3>1. /\ indirect_device_index \in 0..(EndDeviceNum - 1)
          /\ device_index \in 0..EndDeviceNum
      BY <1>1 DEF TypeOK
    <3>2. QED
      BY <1>4, <3>1, AssocAssumption DEF SendIndirect, NextIndirect
  <2>2. QED
    BY <1>1, <1>4, <2>1 DEF SendIndirect, TypeOK, devVars, tableVars, macVars, bounds
<1>5. ASSUME NEW d \in Devices, DevReboot(d) PROVE TypeOK'
  <2>1. (nv[d] = None) \in BOOLEAN
    OBVIOUS
  <2>2. /\ newDev' \in [Devices -> BOOLEAN] /\ timer' \in [Devices -> BOOLEAN]
        /\ scanning' \in [Devices -> BOOLEAN]
    BY <1>1, <1>5, <2>1 DEF DevReboot, TypeOK
  <2>3. coor' \in [Devices -> Seq(Beacon)] /\ \A e \in Devices : Len(coor'[e]) < MaxScanResults
    BY <1>1, <1>5, CoorEmptied DEF DevReboot
  <2>4. QED
    BY <1>1, <1>5, <2>2, <2>3 DEF DevReboot, TypeOK, tableVars, sendVars, macVars
<1>6. ASSUME NEW d \in Devices, ScanTimer(d) \/ ScanCnfNothing(d) PROVE TypeOK'
  <2>1. coor' \in [Devices -> Seq(Beacon)] /\ \A e \in Devices : Len(coor'[e]) < MaxScanResults
    BY <1>1, <1>6, CoorEmptied DEF ScanTimer, ScanCnfNothing, TypeOK
  <2>2. QED
    BY <1>1, <1>6, <2>1 DEF ScanTimer, ScanCnfNothing, TypeOK, tableVars, sendVars, macVars,
                            bounds
<1>7. ASSUME NEW d \in Devices, MyBeaconIndCb(d) PROVE TypeOK'
  <2>1. PICK b \in Beacon : coor' = [coor EXCEPT ![d] = Append(@, b)]
    BY <1>7 DEF MyBeaconIndCb
  <2>2. coor \in [Devices -> Seq(Beacon)] /\ \A e \in Devices : Len(coor[e]) < MaxScanResults
    BY <1>1 DEF TypeOK
  <2>3. coor' \in [Devices -> Seq(Beacon)]
    BY <2>1, <2>2
  <2>4. Len(coor[d]) + 1 < MaxScanResults
    BY <1>7 DEF MyBeaconIndCb
  <2>5. \A e \in Devices : Len(coor'[e]) < MaxScanResults
    BY <2>1, <2>2, <2>4
  <2>6. QED
    BY <1>1, <1>7, <2>3, <2>5 DEF MyBeaconIndCb, TypeOK, tableVars, sendVars, macVars, bounds
<1>8. ASSUME NEW d \in Devices, ScanCnfAssociates(d) PROVE TypeOK'
  <2>1. Best(coor[d]).pan \in {Home, Other}
    <3>1. coor[d] \in Seq(Beacon) /\ coor[d] # << >>
      BY <1>1, <1>8 DEF ScanCnfAssociates, TypeOK
    <3>2. \A i, j \in DOMAIN coor[d] : coor[d][i].pan = coor[d][j].pan => i = j
      BY <1>1 DEF DevInv
    <3>3. QED
      BY <3>1, <3>2, BestType
  <2>2. coor' \in [Devices -> Seq(Beacon)] /\ \A e \in Devices : Len(coor'[e]) < MaxScanResults
    BY <1>1, <1>8, CoorEmptied DEF ScanCnfAssociates
  <2>3. QED
    BY <1>1, <1>8, <2>1, <2>2 DEF ScanCnfAssociates, TypeOK, tableVars, sendVars, bounds
<1>9. ASSUME NEW d \in Devices, AssocCnf(d) PROVE TypeOK'
  <2>1. CASE asked[d] = Home
    BY <1>1, <1>9, <2>1 DEF AssocCnf, TypeOK, tableVars, sendVars
  <2>2. CASE asked[d] # Home
    BY <1>1, <1>9, <2>2 DEF AssocCnf, TypeOK, tableVars, sendVars
  <2>3. QED
    BY <2>1, <2>2
<1>10. ASSUME NEW d \in Devices, AssocCnfFails(d) PROVE TypeOK'
  BY <1>1, <1>10 DEF AssocCnfFails, TypeOK, tableVars, sendVars, macVars
<1>11. ASSUME NEW d \in Devices, MyAssociateIndCb(d) PROVE TypeOK'
  <2> DEFINE e == [ext |-> d, short |-> device_addr_short']
  <2>1. /\ devTable' \in Seq(Entry) /\ keyTable' \in Seq(Devices)
        /\ device_index' \in 0..EndDeviceNum /\ device_addr_short' \in Addrs
    <3>1. CASE AddNew(d)
      <4>1. device_index \in 0..EndDeviceNum /\ device_index < EndDeviceNum
        BY <1>1, <3>1 DEF AddNew, TypeOK
      <4>2. devTable \in Seq(Entry) /\ keyTable \in Seq(Devices)
        BY <1>1 DEF TypeOK
      <4>3. PICK e1 \in Entry : /\ devTable' = Append(devTable, e1)
                                /\ keyTable' = Append(keyTable, d)
                                /\ device_index' = device_index + 1
                                /\ device_addr_short' \in Addrs
        BY <1>1, <3>1, NewEntry
      <4>4. QED
        BY <4>1, <4>2, <4>3, AssocAssumption
    <3>2. CASE AddKnown(d)
      BY <1>1, <3>2, KnownEntry DEF TypeOK
    <3>3. QED
      BY <1>11, <3>1, <3>2 DEF MyAssociateIndCb
  <2>2. e \in Entry
    BY <2>1 DEF Entry
  <2>3. end_device' \in [0..(EndDeviceNum - 1) -> Entry \cup {EmptyEntry}]
    BY <1>1, <1>11, <2>2 DEF MyAssociateIndCb, Respond, TypeOK
  <2>4. txTimer' \in TxStates /\ sendTimer' \in BOOLEAN
    <3>1. DataSend /\ txTimer \in TxStates
      BY <1>1, <1>11 DEF MyAssociateIndCb, Respond, TypeOK
    <3>2. QED
      BY <3>1 DEF DataSend, TxStates
  <2>5. QED
    BY <1>1, <1>11, <2>1, <2>3, <2>4 DEF MyAssociateIndCb, Respond, TypeOK, devVars, bounds
<1>12. ASSUME NEW d \in Devices, AssociateIndFull(d) \/ LoseRequest(d) \/ LoseResponse(d)
       PROVE  TypeOK'
  BY <1>1, <1>12 DEF AssociateIndFull, LoseRequest, LoseResponse, TypeOK, devVars,
                     tableVars, sendVars, bounds
<1>13. CASE UNCHANGED vars
  BY <1>1, <1>13 DEF vars, TypeOK, devVars, tableVars, sendVars, macVars, bounds
<1>14. CASE ToggleTransmit \/ TxTimerFires
  <2>1. txTimer' \in TxStates /\ sendTimer' \in BOOLEAN
    BY <1>1, <1>14 DEF ToggleTransmit, TxTimerFires, TxStates, TypeOK
  <2>2. QED
    BY <1>1, <1>14, <2>1 DEF ToggleTransmit, TxTimerFires, TypeOK, devVars, tableVars,
                             macVars, bounds
<1>15. QED
  BY <1>2, <1>3, <1>4, <1>5, <1>6, <1>7, <1>8, <1>9, <1>10, <1>11, <1>12, <1>13, <1>14
     DEF Next

LEMMA DevStep == IInv /\ [Next]_vars => DevInv'
<1> SUFFICES ASSUME IInv, [Next]_vars PROVE DevInv'
    OBVIOUS
<1>1. TypeOK /\ DevInv
  BY DEF IInv
<1>2. ASSUME UNCHANGED devVars PROVE DevInv'
  BY <1>1, <1>2 DEF DevInv, devVars
<1>3. CASE CoorRestart \/ TogglePermit \/ SendTimerFires \/ SendIndirect
           \/ ToggleTransmit \/ TxTimerFires
  BY <1>2, <1>3 DEF CoorRestart, TogglePermit, SendTimerFires, SendIndirect,
                    ToggleTransmit, TxTimerFires
<1>4. ASSUME NEW d \in Devices, DevReboot(d) PROVE DevInv'
  BY <1>1, <1>4 DEF DevReboot, DevInv, TypeOK
<1>5. ASSUME NEW d \in Devices, ScanTimer(d) \/ ScanCnfNothing(d) PROVE DevInv'
  <2>1. CASE ScanTimer(d)
    BY <1>1, <2>1, CoorEmptied DEF ScanTimer, DevInv, TypeOK
  <2>2. CASE ScanCnfNothing(d)
    BY <1>1, <2>2 DEF ScanCnfNothing, DevInv, TypeOK
  <2>3. QED
    BY <1>5, <2>1, <2>2
<1>6. ASSUME NEW d \in Devices, MyBeaconIndCb(d) PROVE DevInv'
  <2>1. PICK b \in Beacon : /\ \A i \in DOMAIN coor[d] : coor[d][i].pan # b.pan
                            /\ coor' = [coor EXCEPT ![d] = Append(@, b)]
    BY <1>6 DEF MyBeaconIndCb
  <2>2. coor[d] \in Seq(Beacon) /\ coor'[d] = Append(coor[d], b)
        /\ \A e \in Devices : e # d => coor'[e] = coor[e]
    BY <1>1, <2>1 DEF TypeOK
  <2>3. /\ DOMAIN coor[d] = 1..Len(coor[d]) /\ Len(coor[d]) \in Nat
        /\ DOMAIN coor'[d] = 1..(Len(coor[d]) + 1)
        /\ \A i \in DOMAIN coor[d] : coor'[d][i] = coor[d][i]
        /\ coor'[d][Len(coor[d]) + 1] = b
    BY <2>2
  <2>4. \A i, j \in DOMAIN coor'[d] : coor'[d][i].pan = coor'[d][j].pan => i = j
    <3>1. \A i \in DOMAIN coor'[d] : i \in DOMAIN coor[d] \/ i = Len(coor[d]) + 1
      BY <2>3
    <3>2. QED
      BY <1>1, <2>1, <2>3, <3>1 DEF DevInv
  <2>5. QED
    BY <1>1, <1>6, <2>2, <2>4 DEF MyBeaconIndCb, DevInv
<1>7. ASSUME NEW d \in Devices, ScanCnfAssociates(d) PROVE DevInv'
  BY <1>1, <1>7 DEF ScanCnfAssociates, DevInv, TypeOK
<1>8. ASSUME NEW d \in Devices, AssocCnf(d) PROVE DevInv'
  BY <1>1, <1>8 DEF AssocCnf, DevInv, TypeOK
<1>9. ASSUME NEW d \in Devices, AssocCnfFails(d) PROVE DevInv'
  BY <1>1, <1>9 DEF AssocCnfFails, DevInv, TypeOK
<1>10. ASSUME NEW d \in Devices, MyAssociateIndCb(d) \/ AssociateIndFull(d)
                                 \/ LoseRequest(d) \/ LoseResponse(d)
       PROVE  DevInv'
  BY <1>2, <1>10 DEF MyAssociateIndCb, AssociateIndFull, LoseRequest, LoseResponse
<1>11. CASE UNCHANGED vars
  BY <1>2, <1>11 DEF vars
<1>12. QED
  BY <1>3, <1>4, <1>5, <1>6, <1>7, <1>8, <1>9, <1>10, <1>11 DEF Next
\* MyAssociateIndCb: the entry of the device, old or new, has the address it is
\* sent; the entries there were stay.
LEMMA Associated ==
  ASSUME TypeOK, TableInv, NEW d \in Devices, MyAssociateIndCb(d)
  PROVE  /\ TableInv'
         /\ \A i \in DOMAIN devTable : i \in DOMAIN devTable' /\ devTable'[i] = devTable[i]
         /\ Given(devTable', d, device_addr_short')
         /\ device_index' >= device_index /\ device_index' > 0
<1> DEFINE a == device_addr_short'
           e == [ext |-> d, short |-> a]
<1>1. end_device' = [end_device EXCEPT ![Slot(a)] = e]
  BY DEF MyAssociateIndCb, Respond
<1>2. /\ devTable \in Seq(Entry) /\ DOMAIN devTable = 1..Len(devTable)
      /\ device_index = Len(devTable) /\ device_index \in Nat
      /\ device_index <= EndDeviceNum /\ EndDeviceNum \in 1..16
  BY AssocAssumption DEF TypeOK, TableInv, TablesAligned
<1>3. end_device \in [0..(EndDeviceNum - 1) -> Entry \cup {EmptyEntry}]
  BY DEF TypeOK
<1>4. CASE AddKnown(d)
  <2>1. UNCHANGED <<devTable, keyTable, device_index>> /\ a \in Addrs
    BY <1>4, KnownEntry
  <2>2. PICK i \in DOMAIN devTable : devTable[i] = e
    BY <1>4, KnownEntry
  <2>3. devTable[i].short = a /\ a = AddrBase + i - 1 /\ i \in Int
    BY <1>2, <2>2 DEF TableInv
  <2>4. Slot(a) = i - 1
    BY <2>1, <2>3, SlotOf DEF AddrBase
  <2>5. end_device[i - 1] = e
    BY <2>2 DEF TableInv
  <2>6. end_device' = end_device
    BY <1>1, <1>3, <2>4, <2>5
  <2>7. TableInv'
    BY <2>1, <2>6 DEF TableInv, TablesAligned
  <2>8. device_index > 0
    BY <1>2, <2>2
  <2>9. QED
    BY <1>2, <2>1, <2>2, <2>7, <2>8 DEF Given
<1>5. CASE AddNew(d)
  <2>1. /\ a = AddrBase + device_index /\ a \in Addrs
        /\ device_index' = device_index + 1
        /\ \A i \in DOMAIN devTable : devTable[i].ext # d
    BY <1>5, NewEntry
  <2>2. /\ e \in Entry /\ devTable' = Append(devTable, e)
        /\ keyTable' = Append(keyTable, d)
    BY <1>5, <2>1, NewEntry
  <2>3. /\ DOMAIN devTable' = 1..(device_index + 1) /\ Len(devTable') = device_index + 1
        /\ \A i \in DOMAIN devTable : devTable'[i] = devTable[i]
        /\ devTable'[device_index + 1] = e
    BY <1>2, <2>2
  <2>4. \A i \in DOMAIN devTable' : i \in DOMAIN devTable \/ i = device_index + 1
    BY <1>2, <2>3
  <2>5. device_index < EndDeviceNum
    BY <1>5 DEF AddNew
  <2>6. Slot(a) = device_index /\ device_index \in 0..(EndDeviceNum - 1)
    BY <1>2, <2>1, <2>5, SlotOf DEF AddrBase
  <2>7. /\ end_device'[device_index] = e
        /\ \A i \in DOMAIN devTable : end_device'[i - 1] = end_device[i - 1]
    <3>1. \A i \in DOMAIN devTable : i - 1 \in 0..(EndDeviceNum - 1) /\ i - 1 # device_index
      BY <1>2
    <3>2. end_device' = [end_device EXCEPT ![device_index] = e]
      BY <1>1, <2>6
    <3> HIDE DEF e
    <3>3. QED
      BY <1>3, <2>6, <3>1, <3>2
  <2>8. \A i \in DOMAIN devTable' : /\ devTable'[i].short = AddrBase + i - 1
                                    /\ end_device'[i - 1] = devTable'[i]
    <3>1. \A i \in DOMAIN devTable : /\ devTable'[i].short = AddrBase + i - 1
                                     /\ end_device'[i - 1] = devTable'[i]
      BY <2>3, <2>7 DEF TableInv
    <3>2. e.short = AddrBase + (device_index + 1) - 1 /\ (device_index + 1) - 1 = device_index
      BY <1>2, <2>1 DEF AddrBase
    <3>3. QED
      BY <2>3, <2>4, <2>7, <3>1, <3>2
  <2>9. keyTable' = [i \in DOMAIN devTable' |-> devTable'[i].ext]
    <3>1. keyTable \in Seq(Devices) /\ keyTable = [i \in DOMAIN devTable |-> devTable[i].ext]
      BY DEF TypeOK, TableInv, TablesAligned
    <3>2. Len(keyTable) = device_index
      <4>1. DOMAIN keyTable = 1..Len(keyTable) /\ Len(keyTable) \in Nat
        BY <3>1
      <4>2. DOMAIN keyTable = 1..device_index
        BY <1>2, <3>1
      <4>3. QED
        BY <1>2, <4>1, <4>2, SameInterval
    <3>3. /\ keyTable' \in Seq(Devices) /\ DOMAIN keyTable' = 1..(device_index + 1)
          /\ \A i \in DOMAIN devTable : keyTable'[i] = keyTable[i]
          /\ keyTable'[device_index + 1] = d
      BY <1>2, <2>2, <3>1, <3>2
    <3>4. keyTable' = [i \in DOMAIN keyTable' |-> keyTable'[i]]
      BY <3>3
    <3>5. \A i \in DOMAIN devTable' : keyTable'[i] = devTable'[i].ext
      BY <2>3, <2>4, <3>1, <3>3
    <3>6. QED
      BY <2>3, <3>3, <3>4, <3>5
  <2>10. \A i, j \in DOMAIN devTable' : devTable'[i].ext = devTable'[j].ext => i = j
    BY <2>1, <2>3, <2>4 DEF TableInv, TablesAligned
  <2>11. TableInv'
    BY <2>1, <2>3, <2>8, <2>9, <2>10 DEF TableInv, TablesAligned
  <2>12. Given(devTable', d, a)
    <3>1. device_index + 1 \in DOMAIN devTable'
      BY <1>2, <2>3
    <3>2. QED
      BY <2>3, <3>1 DEF Given
  <2>13. QED
    BY <1>2, <2>1, <2>3, <2>11, <2>12
<1>6. QED
  BY <1>4, <1>5 DEF MyAssociateIndCb

LEMMA TableStep == IInv /\ [Next]_vars => TableInv' /\ SendInv'
<1> SUFFICES ASSUME IInv, [Next]_vars PROVE TableInv' /\ SendInv'
    OBVIOUS
<1>1. TypeOK /\ TableInv /\ SendInv
  BY DEF IInv
<1>2. ASSUME UNCHANGED tableVars PROVE TableInv'
  BY <1>1, <1>2 DEF TableInv, TablesAligned, tableVars
<1>3. ASSUME UNCHANGED <<tableVars, sendVars>> PROVE TableInv' /\ SendInv'
  BY <1>1, <1>2, <1>3 DEF SendInv, tableVars, sendVars
<1>4. CASE CoorRestart
  <2>1. devTable' = << >> /\ keyTable' = << >> /\ device_index' = 0
    BY <1>4 DEF CoorRestart
  <2>2. Len(<< >>) = 0 /\ DOMAIN << >> = {} /\ [i \in {} |-> devTable'[i].ext] = << >>
    OBVIOUS
  <2>3. TableInv'
    BY <2>1, <2>2 DEF TableInv, TablesAligned
  <2>4. QED
    BY <1>4, <2>3 DEF CoorRestart, SendInv
<1>5. CASE SendTimerFires
  BY <1>1, <1>2, <1>5 DEF SendTimerFires, SendInv, tableVars
<1>6. CASE SendIndirect
  <2>1. indirect_device_index \in Nat /\ device_index \in Nat
    BY <1>1, AssocAssumption DEF TypeOK
  <2>2. SendInv'
    BY <1>1, <1>6, <2>1 DEF SendIndirect, NextIndirect, SendInv, tableVars
  <2>3. QED
    BY <1>2, <1>6, <2>2 DEF SendIndirect
<1>7. ASSUME NEW d \in Devices, MyAssociateIndCb(d) PROVE TableInv' /\ SendInv'
  <2>1. TableInv' /\ device_index' >= device_index /\ device_index' > 0
    BY <1>1, <1>7, Associated
  <2>2. /\ indirect_device_index \in Int /\ device_index \in Int
    BY <1>1, AssocAssumption DEF TypeOK
  <2>3. device_index' \in Int
    BY <1>7, <2>2 DEF MyAssociateIndCb, AddKnown, AddNew
  <2>4. UNCHANGED <<sendTask, indirect_device_index>>
    BY <1>7 DEF MyAssociateIndCb
  <2>5. QED
    BY <1>1, <2>1, <2>2, <2>3, <2>4 DEF SendInv
<1>8. CASE TogglePermit \/ ToggleTransmit \/ TxTimerFires
  <2>1. CASE TogglePermit
    BY <1>3, <2>1 DEF TogglePermit
  <2>2. CASE ToggleTransmit \/ TxTimerFires
    <3>1. UNCHANGED <<tableVars, sendTask, indirect_device_index>> /\ (sendTimer' => sendTimer)
      BY <2>2 DEF ToggleTransmit, TxTimerFires
    <3>2. QED
      BY <1>1, <1>2, <3>1 DEF SendInv, tableVars
  <2>3. QED
    BY <1>8, <2>1, <2>2
<1>9. ASSUME NEW d \in Devices, DevReboot(d) \/ ScanTimer(d) \/ MyBeaconIndCb(d)
                                \/ ScanCnfNothing(d) \/ ScanCnfAssociates(d)
      PROVE  TableInv' /\ SendInv'
  BY <1>3, <1>9 DEF DevReboot, ScanTimer, MyBeaconIndCb, ScanCnfNothing, ScanCnfAssociates
<1>10. ASSUME NEW d \in Devices, AssocCnf(d) \/ AssocCnfFails(d) \/ AssociateIndFull(d)
                                \/ LoseRequest(d) \/ LoseResponse(d)
      PROVE  TableInv' /\ SendInv'
  BY <1>3, <1>10 DEF AssocCnf, AssocCnfFails, AssociateIndFull, LoseRequest, LoseResponse
<1>11. CASE UNCHANGED vars
  BY <1>3, <1>11 DEF vars
<1>12. QED
  BY <1>4, <1>5, <1>6, <1>7, <1>8, <1>9, <1>10, <1>11 DEF Next

LEMMA AddressStep == IInv /\ [Next]_vars => RespInv' /\ MemberInv'
<1> SUFFICES ASSUME IInv, [Next]_vars PROVE RespInv' /\ MemberInv'
    OBVIOUS
<1>1. TypeOK /\ DevInv /\ TableInv /\ RespInv /\ MemberInv
  BY DEF IInv
<1>3. ASSUME UNCHANGED <<devTable, resp>> PROVE RespInv'
  BY <1>1, <1>3 DEF RespInv, Given
<1>4. ASSUME UNCHANGED <<devTable, nv, addr, member>> PROVE MemberInv'
  BY <1>1, <1>4 DEF MemberInv, Given
<1>5. CASE CoorRestart
  BY <1>5 DEF CoorRestart, RespInv, MemberInv
<1>6. CASE TogglePermit \/ SendTimerFires \/ SendIndirect \/ ToggleTransmit \/ TxTimerFires
  BY <1>3, <1>4, <1>6 DEF TogglePermit, SendTimerFires, SendIndirect, ToggleTransmit,
                          TxTimerFires, devVars, tableVars, macVars, bounds
<1>7. ASSUME NEW d \in Devices, DevReboot(d) PROVE RespInv' /\ MemberInv'
  <2>1. RespInv'
    BY <1>3, <1>7 DEF DevReboot, tableVars, macVars
  <2>2. \A c \in Devices : addr'[c] = IF c = d THEN nv[c] ELSE addr[c]
    BY <1>1, <1>7 DEF DevReboot, TypeOK
  <2>3. UNCHANGED <<nv, devTable, member>> /\ member \subseteq Devices
    BY <1>1, <1>7 DEF DevReboot, tableVars, TypeOK
  <2>4. QED
    BY <1>1, <2>1, <2>2, <2>3 DEF MemberInv, Given
<1>8. ASSUME NEW d \in Devices, ScanTimer(d) \/ MyBeaconIndCb(d) \/ ScanCnfNothing(d)
                                \/ ScanCnfAssociates(d) \/ AssocCnfFails(d)
      PROVE  RespInv' /\ MemberInv'
  BY <1>3, <1>4, <1>8 DEF ScanTimer, MyBeaconIndCb, ScanCnfNothing, ScanCnfAssociates,
                          AssocCnfFails, tableVars, macVars, bounds
<1>9. ASSUME NEW d \in Devices, AssocCnf(d) PROVE RespInv' /\ MemberInv'
  <2>1. d \notin member
    <3>1. asked[d] # None /\ nv[d] = None
      BY <1>1, <1>9 DEF AssocCnf, DevInv
    <3>2. QED
      BY <1>1, <3>1, AssocAssumption DEF MemberInv
  <2>2. /\ UNCHANGED devTable /\ member \subseteq Devices
        /\ \A c \in Devices : c # d => nv'[c] = nv[c] /\ addr'[c] = addr[c]
    BY <1>1, <1>9 DEF AssocCnf, tableVars, TypeOK
  <2>3. CASE asked[d] = Home
    <3>1. /\ resp' = [resp EXCEPT ![d] = None] /\ member' = member \cup {d}
          /\ nv'[d] = resp[d] /\ addr'[d] = resp[d] /\ resp[d] # None
      BY <1>1, <1>9, <2>3 DEF AssocCnf, TypeOK
    <3>2. resp[d] \in Addrs /\ Given(devTable, d, resp[d])
      BY <1>1, <3>1 DEF TypeOK, RespInv
    <3>3. RespInv'
      BY <1>1, <2>2, <3>1 DEF RespInv, Given, TypeOK
    <3>4. MemberInv'
      BY <1>1, <2>1, <2>2, <3>1, <3>2 DEF MemberInv, Given
    <3>5. QED
      BY <3>3, <3>4
  <2>4. CASE asked[d] # Home
    <3>1. UNCHANGED <<resp, member>>
      BY <1>9, <2>4 DEF AssocCnf
    <3>2. QED
      BY <1>1, <1>3, <2>1, <2>2, <3>1 DEF MemberInv, Given
  <2>5. QED
    BY <2>3, <2>4
<1>10. ASSUME NEW d \in Devices, MyAssociateIndCb(d) PROVE RespInv' /\ MemberInv'
  <2>1. \A c, a : Given(devTable, c, a) => Given(devTable', c, a)
    BY <1>1, <1>10, Associated DEF Given
  <2>2. Given(devTable', d, device_addr_short')
    BY <1>1, <1>10, Associated
  <2>3. resp' = [resp EXCEPT ![d] = device_addr_short'] /\ UNCHANGED <<nv, addr, member>>
    BY <1>10 DEF MyAssociateIndCb, Respond, devVars, bounds
  <2>4. \A c \in Devices : resp'[c] = IF c = d THEN device_addr_short' ELSE resp[c]
    BY <1>1, <2>3 DEF TypeOK
  <2>5. RespInv'
    BY <1>1, <2>1, <2>2, <2>4 DEF RespInv
  <2>6. MemberInv'
    BY <1>1, <2>1, <2>3 DEF MemberInv
  <2>7. QED
    BY <2>5, <2>6
<1>11. ASSUME NEW d \in Devices, AssociateIndFull(d) \/ LoseRequest(d)
       PROVE  RespInv' /\ MemberInv'
  BY <1>3, <1>4, <1>11 DEF AssociateIndFull, LoseRequest, devVars, tableVars, bounds
<1>12. ASSUME NEW d \in Devices, LoseResponse(d) PROVE RespInv' /\ MemberInv'
  <2>1. \A c \in Devices : resp'[c] = IF c = d THEN None ELSE resp[c]
    BY <1>1, <1>12 DEF LoseResponse, TypeOK
  <2>2. UNCHANGED devTable
    BY <1>12 DEF LoseResponse, tableVars
  <2>3. RespInv'
    BY <1>1, <2>1, <2>2 DEF RespInv, Given
  <2>4. QED
    BY <1>4, <1>12, <2>3 DEF LoseResponse, devVars, tableVars, bounds
<1>13. CASE UNCHANGED vars
  BY <1>3, <1>4, <1>13 DEF vars, devVars, tableVars, macVars, bounds
<1>14. QED
  BY <1>5, <1>6, <1>7, <1>8, <1>9, <1>10, <1>11, <1>12, <1>13 DEF Next

LEMMA InitIInv == Init => IInv
<1> SUFFICES ASSUME Init PROVE IInv
    OBVIOUS
<1>1. Len(<< >>) = 0 /\ DOMAIN << >> = {}
  OBVIOUS
<1>2. TypeOK
  <2>1. devTable \in Seq(Entry) /\ keyTable \in Seq(Devices)
        /\ coor \in [Devices -> Seq(Beacon)]
    BY DEF Init
  <2>2. \A d \in Devices : Len(coor[d]) < MaxScanResults
    BY <1>1, AssocAssumption DEF Init
  <2>3. /\ device_index \in 0..EndDeviceNum /\ device_addr_short \in Addrs
        /\ indirect_device_index \in 0..(EndDeviceNum - 1)
    BY AssocAssumption DEF Init, Addrs, AddrBase
  <2>4. QED
    BY <2>1, <2>2, <2>3 DEF Init, TypeOK, TxStates
<1>3. DevInv /\ RespInv /\ MemberInv /\ SendInv
  BY <1>1 DEF Init, DevInv, RespInv, MemberInv, SendInv
<1>4. TableInv
  <2>1. [i \in {} |-> devTable[i].ext] = << >>
    OBVIOUS
  <2>2. QED
    BY <1>1, <2>1 DEF Init, TableInv, TablesAligned
<1>5. QED
  BY <1>2, <1>3, <1>4 DEF IInv

---------------------------------------------------------------------------

\* The inductive invariant: types, the life of a device, the tables and the
\* addresses under way and in use.
THEOREM AssocInvariant == Spec => []IInv
<1>1. IInv /\ [Next]_vars => IInv'
  BY TypeStep, DevStep, TableStep, AddressStep DEF IInv
<1>2. QED
  BY <1>1, InitIInv, PTL DEF Spec

\* add_key_material keeps device table, key table and device_index in step,
\* with one entry for a device, through repeated and lost associations.
THEOREM TablesCorrect == Spec => []TablesAligned
<1>1. IInv => TablesAligned
  BY DEF IInv, TableInv
<1>2. QED
  BY <1>1, AssocInvariant, PTL

\* A device that joined and the coordinator agree on its address, which no
\* other member has.
THEOREM AddressCorrect == Spec => []AddressAgreed
<1>1. IInv => AddressAgreed
  <2> SUFFICES ASSUME IInv, NEW d \in member
               PROVE  /\ addr[d] \in Addrs
                      /\ \E i \in DOMAIN devTable :
                           devTable[i] = [ext |-> d, short |-> addr[d]]
                      /\ end_device[Slot(addr[d])] = [ext |-> d, short |-> addr[d]]
                      /\ \A e \in member \ {d} : addr[e] # addr[d]
    BY DEF AddressAgreed
  <2>1. TypeOK /\ TableInv /\ MemberInv
    BY DEF IInv
  <2>2. \A i \in DOMAIN devTable : i \in Int /\ devTable[i].short = AddrBase + i - 1
                                  /\ end_device[i - 1] = devTable[i]
    BY <2>1 DEF TableInv, TypeOK
  <2>3. addr[d] \in Addrs
    BY <2>1 DEF MemberInv
  <2>4. PICK i \in DOMAIN devTable : devTable[i] = [ext |-> d, short |-> addr[d]]
    BY <2>1 DEF MemberInv, Given
  <2>5. addr[d] = AddrBase + i - 1
    BY <2>2, <2>4
  <2>6. Slot(addr[d]) = i - 1
    BY <2>2, <2>3, <2>5, SlotOf DEF AddrBase
  <2>7. ASSUME NEW e \in member \ {d} PROVE addr[e] # addr[d]
    <3>1. PICK j \in DOMAIN devTable : devTable[j] = [ext |-> e, short |-> addr[e]]
      BY <2>1 DEF MemberInv, Given
    <3>2. i # j /\ addr[e] = AddrBase + j - 1
      BY <2>2, <2>4, <3>1
    <3>3. QED
      BY <2>2, <2>5, <3>2 DEF AddrBase
  <2>8. QED
    BY <2>2, <2>3, <2>4, <2>6, <2>7
<1>2. QED
  BY <1>1, AssocInvariant, PTL

\* mac_send_data_indirect never addresses an empty place of end_device.
THEOREM SendsCorrect == Spec => []SendsToKnown
<1>1. IInv => SendsToKnown
  <2> SUFFICES ASSUME IInv, sendTask PROVE end_device[indirect_device_index] # EmptyEntry
    BY DEF SendsToKnown
  <2>1. TypeOK /\ TableInv /\ SendInv
    BY DEF IInv
  <2>2. indirect_device_index \in Nat /\ device_index \in Nat
    BY <2>1, AssocAssumption DEF TypeOK
  <2>3. indirect_device_index < device_index
    BY <2>1, <2>2 DEF SendInv
  <2>4. devTable \in Seq(Entry) /\ Len(devTable) = device_index
    BY <2>1 DEF TypeOK, TableInv, TablesAligned
  <2>5. indirect_device_index + 1 \in DOMAIN devTable
    BY <2>2, <2>3, <2>4
  <2>6. devTable[indirect_device_index + 1] \in Entry
    BY <2>4, <2>5
  <2>7. end_device[(indirect_device_index + 1) - 1] = devTable[indirect_device_index + 1]
    BY <2>1, <2>5 DEF TableInv
  <2>8. (indirect_device_index + 1) - 1 = indirect_device_index
    BY <2>2
  <2>9. \A x \in Entry : x # EmptyEntry
    BY AssocAssumption DEF Entry, EmptyEntry
  <2>10. QED
    BY <2>6, <2>7, <2>8, <2>9
<1>2. QED
  BY <1>1, AssocInvariant, PTL
=============================================================================
