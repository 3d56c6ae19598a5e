-------------------------------- MODULE Ota --------------------------------
(***************************************************************************)
(* Over-the-air upgrade, demo/app_common/ota/tl_specific_data_ota.c: an    *)
(* end device fetches an image block by block from a coordinator over a    *)
(* network that loses, duplicates and reorders frames, writes it to the    *)
(* flash bank it does not run from, verifies it and reboots into it.       *)
(*                                                                         *)
(* A file is FileLen units: HdrLen header units, then the image, whose     *)
(* last unit is its CRC.  A unit is known by its position in the file.     *)
(* A CRC is the sequence of units it was computed over; the initial CRC    *)
(* is what an erased word reads as.  The boot flag of a bank is a byte of  *)
(* its first unit, which a transfer leaves erased.                         *)
(***************************************************************************)
EXTENDS Integers, Sequences, FiniteSets

CONSTANTS
  Blank, Old,     \* an erased unit; a unit of the image the device started with
  Mixed,          \* a unit programmed over another one
  Frame,          \* OTA_FRAMESIZE in units
  HdrLen, FileLen,
  MaxRetries,     \* OTA_MAX_IMAGE_BLOCK_RETRIES
  SeqMod,         \* frame sequence numbers wrap here (u8 in the code)
  SectorLen,      \* FLASH_SECTOR_SIZE in units
  Lock,           \* the possible values of locked
  Prompt,         \* TRUE: a retry timer is slower than the frames on their way
  NetCap,         \* bound: frames in flight
  MaxLoss,        \* bound: frames lost or received twice
  MaxFail,        \* bound: flash commands that fail or that a low supply drops
  MaxCrash        \* bound: power failures

ASSUME OtaAssumption ==
  /\ Frame \in Nat \ {0} /\ HdrLen \in 3 .. FileLen - 2 /\ FileLen \in Nat
  /\ MaxRetries \in Nat \ {0} /\ SeqMod \in Nat \ {0, 1}
  /\ SectorLen \in Nat \ {0} /\ Lock \subseteq BOOLEAN /\ Prompt \in BOOLEAN
  /\ {NetCap, MaxLoss, MaxFail, MaxCrash} \subseteq Nat
  /\ Blank # Old /\ Mixed \notin {Blank, Old} /\ {Blank, Old, Mixed} \cap Nat = {}

VARIABLES
  \* flash of the device
  data,             \* units of each bank
  flag,             \* boot flag: "erased" (0xff), "valid" (0x4b) or "cleared" (0)
  locked,           \* the chip is in c_flashOptList: locked but for unlocked writes
  \* its RAM
  boot,             \* mcuBootAddr: the bank it runs from
  ver,              \* image it runs, FILE_VERSION: "old" or "new"
  state,            \* ota_state
  info,             \* dev_otaInfo: "none" or "file"
  bin,              \* binInfo and ota_headersize as parsed from the file header
  headercnt, crc, offset, block,  \* ota_headercnt crcValue flashOffsetAddr blockDataCount
  queryTimer, dataTimer, dataCb, retryCnt, seq,
  poll,             \* rate of PollDataTimer: "normal" or "ota" (mac_set_pollRate)
  task,             \* what the main loop is doing: "none", "erase" (the loop of
                    \* ota_startRspHandler), "enable" or "disable" (ota_mcuReboot);
                    \* "dead": no bank is flagged
  sector,           \* the next sector to erase
  \* coordinator and network
  seqNumber,        \* seq_number: the last data request answered
  net,
  lost, failed, crashed,  \* budgets used
  enableLost        \* history: of the two writes of ota_mcuReboot the low supply
                    \* dropped the first, and not the second

flash == <<data, flag, locked, enableLost>>
ram == <<boot, ver, state, info, bin, headercnt, crc, offset, block,
         queryTimer, dataTimer, dataCb, retryCnt, seq, poll, task, sector>>
vars == <<flash, ram, seqNumber, net, lost, failed, crashed>>

Bank == {0, 1}
Units == 0 .. FileLen - 1
Sectors == FileLen \div SectorLen + 1    \* sectorNumUsed
ImageLen == FileLen - HdrLen
Huge == 100 * FileLen               \* header bytes misread as a size

\* header units that are parsed: OTA_HEAD_LENGTH, the identification, IMAGESIZE
LenAt == 0
FieldsAt == 1
SizeAt == 2

NoBin(hsize) == [fields |-> "zero", size |-> 0, hsize |-> hsize]
Target == 1 - boot

---------------------------------------------------------------------------
(* Frames.  A queue that is full drops what is sent. *)

StartReq == [cmd |-> "startReq"]
StartRsp == [cmd |-> "startRsp"]
DataReq(n, s) == [cmd |-> "dataReq", block |-> n, seq |-> s]
DataRsp(n) == [cmd |-> "dataRsp", block |-> n]
StopReq(same) == [cmd |-> "stopReq", same |-> same]
StopRsp == [cmd |-> "stopRsp"]

Send(from, m) == IF Cardinality(from) < NetCap THEN from \cup {m} ELSE from

\* A frame is taken from the air, or stays to be received once more.
Take(m, rest) ==
  /\ m \in net
  /\ \/ rest = net \ {m} /\ UNCHANGED lost
     \/ rest = net /\ lost < MaxLoss /\ lost' = lost + 1

---------------------------------------------------------------------------
(* Coordinator *)

ServerUnchanged == UNCHANGED <<flash, ram, failed, crashed>>

\* ota_startReqHandler; seq_number = 0x100 matches no frame
ServerStart ==
  /\ \E n \in SUBSET net : Take(StartReq, n) /\ net' = Send(n, StartRsp)
  /\ seqNumber' = SeqMod
  /\ ServerUnchanged

\* A data request is answered unless it repeats the last sequence number.
ServerData ==
  /\ \E m \in net, n \in SUBSET net :
       /\ m.cmd = "dataReq" /\ Take(m, n)
       /\ seqNumber' = m.seq
       /\ net' = IF seqNumber # m.seq THEN Send(n, DataRsp(m.block)) ELSE n
  /\ ServerUnchanged

\* ota_stopReqHandler answers a request that names its own file.
ServerStop ==
  /\ \E m \in net, n \in SUBSET net :
       /\ m.cmd = "stopReq" /\ Take(m, n)
       /\ net' = IF m.same THEN Send(n, StopRsp) ELSE n
  /\ UNCHANGED seqNumber /\ ServerUnchanged

\* ota_dataReqHandler: units of block n.  A last block of Frame units is sent
\* with a length of FileLen % Frame = 0.
BlockLen(n) ==
  IF n * Frame + Frame < FileLen THEN Frame ELSE FileLen % Frame

---------------------------------------------------------------------------
(* Device *)

\* Mutant: what was parsed of the file header is kept.
ResetTransferKeepsBin(hsize) ==
  /\ info' = "none" /\ UNCHANGED bin
  /\ crc' = <<>> /\ offset' = 0 /\ block' = 0
  /\ state' = "idle" /\ queryTimer' = TRUE /\ dataTimer' = FALSE
  /\ poll' = "normal"

\* The way out of a transfer: its timer is cancelled, ota_queryStart with
\* ota_init, the normal poll rate.  ota_headercnt and ota_headersize are kept.
ResetTransfer(hsize) ==
  /\ info' = "none" /\ bin' = NoBin(hsize)
  /\ crc' = <<>> /\ offset' = 0 /\ block' = 0
  /\ state' = "idle" /\ queryTimer' = TRUE /\ dataTimer' = FALSE
  /\ poll' = "normal"

RequestBlock(n, from) ==
  /\ net' = Send(from, DataReq(n, seq))
  /\ seq' = (seq + 1) % SeqMod
  /\ dataCb' = "data" /\ dataTimer' = TRUE /\ retryCnt' = 0

\* binInfo names the coordinator's file
SameFile(b) == b.fields = "right" /\ b.size + b.hsize = FileLen

RequestStop(b, from) ==
  /\ net' = Send(from, StopReq(SameFile(b)))
  /\ seq' = (seq + 1) % SeqMod
  /\ dataCb' = "stop" /\ dataTimer' = TRUE /\ retryCnt' = 0

\* ota_periodicQueryServerCb
Query ==
  /\ queryTimer /\ task = "none" /\ (Prompt => net = {})
  /\ net' = Send(net, StartReq)
  /\ seq' = (seq + 1) % SeqMod
  /\ UNCHANGED <<flash, boot, ver, state, info, bin, headercnt, crc, offset, block,
                 queryTimer, dataTimer, dataCb, retryCnt, poll, task, sector,
                 seqNumber, lost, failed, crashed>>

\* ota_startRspHandler: a newer file, and no transfer under way.
DeviceStartRsp ==
  /\ task = "none"
  /\ \E n \in SUBSET net :
       /\ Take(StartRsp, n) /\ net' = n
       /\ IF state = "idle" /\ ver = "old"
          THEN info' = "file" /\ task' = "erase" /\ sector' = 0
          ELSE UNCHANGED <<info, task, sector>>
  /\ UNCHANGED <<flash, boot, ver, state, bin, headercnt, crc, offset, block, queryTimer,
                 dataTimer, dataCb, retryCnt, seq, poll, seqNumber, failed, crashed>>

\* ... its erase loop, which does not unlock the flash; a low supply drops an erase.
EraseSector ==
  /\ task = "erase" /\ sector < Sectors /\ sector' = sector + 1
  /\ \/ /\ ~locked
        /\ data' = [data EXCEPT ![Target] =
                      [u \in Units |-> IF u \div SectorLen = sector THEN Blank ELSE @[u]]]
        /\ flag' = [flag EXCEPT ![Target] = IF sector = 0 THEN "erased" ELSE @]
        /\ UNCHANGED failed
     \/ locked /\ UNCHANGED <<data, flag, failed>>
     \/ failed < MaxFail /\ failed' = failed + 1 /\ UNCHANGED <<data, flag>>
  /\ UNCHANGED <<locked, enableLost, boot, ver, state, info, bin, headercnt, crc, offset,
                 block, queryTimer, dataTimer, dataCb, retryCnt, seq, poll, task,
                 seqNumber, net, lost, crashed>>

\* ... and the request for the first block.
EraseDone ==
  /\ task = "erase" /\ sector = Sectors
  /\ task' = "none" /\ sector' = 0
  /\ state' = "starting" /\ queryTimer' = FALSE
  /\ RequestBlock(block, net) /\ poll' = "ota"
  /\ UNCHANGED <<flash, boot, ver, info, bin, headercnt, crc, offset, block,
                 seqNumber, lost, failed, crashed>>

\* ota_DataProcess while STARTING, one unit of the file: fields are picked where
\* the count says they are; stop is where in the block the image starts, or -1.
ParseStep(p, i, unit) ==
  CASE p.stop # -1 -> p
    [] p.stop = -1 /\ p.cnt = LenAt ->
         [p EXCEPT !.cnt = @ + 1, !.bin.hsize = IF unit = LenAt THEN HdrLen ELSE 0]
    [] p.stop = -1 /\ p.cnt = FieldsAt ->
         [p EXCEPT !.cnt = @ + 1,
                   !.bin.fields = IF unit = FieldsAt THEN "right" ELSE "wrong"]
    [] p.stop = -1 /\ p.cnt = SizeAt ->
         [p EXCEPT !.cnt = @ + 1,
                   !.bin.size = IF unit = SizeAt THEN ImageLen ELSE Huge]
    [] p.stop = -1 /\ p.cnt \notin {LenAt, FieldsAt, SizeAt}
         /\ p.cnt = p.bin.hsize -> [p EXCEPT !.stop = i]
    [] OTHER -> [p EXCEPT !.cnt = @ + 1]

\* The header of block n unit by unit; parse[i] is the state after i units.
Parse(n, len) ==
  LET parse[i \in 0 .. len] ==
        IF i = 0 THEN [cnt |-> headercnt, bin |-> bin, stop |-> -1]
        ELSE ParseStep(parse[i - 1], i - 1, n * Frame + i - 1)
  IN parse[len]

\* bound: a count at or past the end of the file stays there; the code only
\* compares such a count with the file size
Saturate(cnt) == IF cnt > FileLen THEN FileLen ELSE cnt

\* What ota_DataProcess makes of block n: where the image data starts in it,
\* what is programmed, and what goes into the CRC (all but the last unit).
Received(n) ==
  LET len == BlockLen(n)
      p == IF state = "starting" THEN Parse(n, len)
           ELSE [cnt |-> headercnt, bin |-> bin, stop |-> 0]
      isData == state = "dataing" \/ (state = "starting" /\ p.stop # -1)
      datalen == IF isData THEN len - p.stop ELSE 0
      first == n * Frame + p.stop
      cnt == p.cnt + datalen
      crcEnd == p.bin.size + p.bin.hsize - 1
      fed == IF cnt < crcEnd THEN datalen
             ELSE IF p.cnt >= crcEnd \/ datalen <= cnt - crcEnd THEN 0
             ELSE datalen - (cnt - crcEnd)
  IN [bin |-> p.bin, cnt |-> cnt, datalen |-> datalen, first |-> first,
      state |-> IF isData THEN "dataing" ELSE state,
      crc |-> crc \o [k \in 1 .. fed |-> first + k - 1]]

\* Programming clears bits: an erased unit takes the new value, another one keeps
\* its own only if it is the same.
Cell(old, new) == IF old \in {Blank, new} THEN new ELSE Mixed

Span(r) == {u \in Units : offset <= u /\ u < offset + r.datalen}

\* the bank when the units S of the block have been programmed
Programmed(r, S) ==
  [u \in Units |-> IF u \in S THEN Cell(data[Target][u], r.first + u - offset)
                   ELSE data[Target][u]]

\* flash_writeWithCheck reads the block back, the flag's byte as erased.
Verifies(r, d) ==
  /\ \A u \in Span(r) : d[u] = r.first + u - offset
  /\ 0 \in Span(r) => flag[Target] = "erased"

\* crcBin == crcValue, with crcBin read HdrLen + 1 units before the end
CrcMatches(d, c, hsize) ==
  LET crcBin == d[FileLen - hsize - 1]
  IN \/ crcBin = Blank /\ c = <<>>
     \/ crcBin = FileLen - 1 /\ c = [k \in 1 .. ImageLen - 1 |-> HdrLen + k - 1]

\* ota_dataRspHandler, block accepted and programmed.
TakeBlock(n, from) ==
  LET r == Received(n)
      d == Programmed(r, Span(r))
  IN /\ Verifies(r, d)
     /\ data' = [data EXCEPT ![Target] = d]
     /\ headercnt' = Saturate(r.cnt)
     /\ UNCHANGED failed
     /\ \/ /\ r.cnt < FileLen
           /\ state' = r.state /\ bin' = r.bin /\ crc' = r.crc
           /\ offset' = offset + r.datalen /\ block' = block + 1
           /\ RequestBlock(block + 1, from)
           /\ UNCHANGED <<info, queryTimer, poll>>
        \/ /\ r.cnt >= FileLen /\ CrcMatches(d, r.crc, r.bin.hsize)
           /\ state' = "end" /\ bin' = r.bin /\ crc' = r.crc
           /\ offset' = offset + r.datalen /\ block' = block + 1
           /\ RequestStop(r.bin, from)
           /\ UNCHANGED <<info, queryTimer, poll>>
        \/ /\ r.cnt >= FileLen /\ ~CrcMatches(d, r.crc, r.bin.hsize)
           /\ ResetTransfer(r.bin.hsize) /\ net' = from
           /\ UNCHANGED <<dataCb, retryCnt, seq>>

\* ota_dataRspHandler, the write failed: the supply is low and nothing was
\* programmed, or the chip programmed some or all of the block and it does not
\* read back.  ota_DataProcess resets the transfer and returns; the handler goes
\* on: headercnt is not below the size 0, so it compares the reset CRC with a
\* word outside the image, which may be erased.
FailBlock(n, from) ==
  LET r == Received(n)
  IN /\ r.datalen > 0
     /\ \E S \in SUBSET Span(r) :
          /\ S = {} \/ ~Verifies(r, Programmed(r, S))
          /\ S # Span(r) => failed < MaxFail
          /\ failed' = IF S = Span(r) THEN failed ELSE failed + 1
          /\ data' = [data EXCEPT ![Target] = Programmed(r, S)]
     /\ headercnt' = Saturate(r.cnt)
     /\ \/ /\ info' = "none" /\ bin' = NoBin(r.bin.hsize)
           /\ crc' = <<>> /\ offset' = 0 /\ block' = 1
           /\ state' = "end" /\ queryTimer' = TRUE /\ poll' = "normal"
           /\ RequestStop(NoBin(r.bin.hsize), from)
        \/ /\ ResetTransfer(r.bin.hsize) /\ net' = from
           /\ UNCHANGED <<dataCb, retryCnt, seq>>

DeviceDataRsp ==
  /\ task = "none"
  /\ \E m \in net, n \in SUBSET net :
       /\ m.cmd = "dataRsp" /\ Take(m, n)
       /\ IF state # "idle" /\ info = "file" /\ m.block = block
          THEN \/ /\ BlockLen(m.block) = 0
                  /\ ResetTransfer(bin.hsize) /\ net' = n
                  /\ UNCHANGED <<data, headercnt, dataCb, retryCnt, seq, failed>>
               \/ BlockLen(m.block) > 0 /\ TakeBlock(m.block, n)
               \/ BlockLen(m.block) > 0 /\ FailBlock(m.block, n)
          ELSE /\ net' = n
               /\ UNCHANGED <<data, state, info, bin, headercnt, crc, offset, block,
                              queryTimer, dataTimer, dataCb, retryCnt, seq, poll, failed>>
  /\ UNCHANGED <<flag, locked, enableLost, boot, ver, task, sector, seqNumber, crashed>>

\* ota_stopRspHandler: reboot if the answer names the file that was parsed.
DeviceStopRsp ==
  /\ task = "none"
  /\ \E n \in SUBSET net :
       /\ Take(StopRsp, n) /\ net' = n
       /\ IF state # "end"
          THEN UNCHANGED <<state, info, bin, crc, offset, block, queryTimer,
                           dataTimer, poll, task>>
          ELSE IF SameFile(bin)
          THEN /\ state' = "idle" /\ task' = "enable"
               /\ UNCHANGED <<info, bin, crc, offset, block, queryTimer, dataTimer, poll>>
          ELSE ResetTransfer(bin.hsize) /\ UNCHANGED task
  /\ UNCHANGED <<flash, boot, ver, headercnt, dataCb, retryCnt, seq, sector,
                 seqNumber, failed, crashed>>

\* Mutant: a retry repeats the sequence number, so the coordinator drops it.
DataTimeoutSameSeq ==
  /\ dataTimer /\ task = "none" /\ (Prompt => net = {})
  /\ IF retryCnt + 1 >= MaxRetries
     THEN /\ ResetTransfer(bin.hsize) /\ retryCnt' = 0
          /\ UNCHANGED net
     ELSE /\ retryCnt' = retryCnt + 1
          /\ net' = Send(net, IF dataCb = "data"
                              THEN DataReq(block, (seq + SeqMod - 1) % SeqMod)
                              ELSE StopReq(SameFile(bin)))
          /\ UNCHANGED <<state, info, bin, crc, offset, block, queryTimer, dataTimer, poll>>
  /\ UNCHANGED <<flash, boot, ver, headercnt, dataCb, seq, task, sector,
                 seqNumber, lost, failed, crashed>>

\* Mutant: the poll rate stays when the transfer is given up.
DataTimeoutKeepsPolling ==
  /\ dataTimer /\ task = "none" /\ (Prompt => net = {})
  /\ IF retryCnt + 1 >= MaxRetries
     THEN /\ info' = "none" /\ bin' = NoBin(bin.hsize)
          /\ crc' = <<>> /\ offset' = 0 /\ block' = 0 /\ retryCnt' = 0
          /\ state' = "idle" /\ queryTimer' = TRUE /\ dataTimer' = FALSE
          /\ UNCHANGED <<seq, net>>
     ELSE /\ retryCnt' = retryCnt + 1
          /\ net' = Send(net, IF dataCb = "data" THEN DataReq(block, seq)
                              ELSE StopReq(SameFile(bin)))
          /\ seq' = (seq + 1) % SeqMod
          /\ UNCHANGED <<state, info, bin, crc, offset, block, queryTimer, dataTimer>>
  /\ UNCHANGED <<flash, boot, ver, headercnt, dataCb, poll, task, sector,
                 seqNumber, lost, failed, crashed>>

\* ota_periodicDataServerCb: ask again, or give up after MaxRetries timeouts.
DataTimeout ==
  /\ dataTimer /\ task = "none" /\ (Prompt => net = {})
  /\ IF retryCnt + 1 >= MaxRetries
     THEN /\ ResetTransfer(bin.hsize) /\ retryCnt' = 0
          /\ UNCHANGED <<seq, net>>
     ELSE /\ retryCnt' = retryCnt + 1
          /\ net' = Send(net, IF dataCb = "data" THEN DataReq(block, seq)
                              ELSE StopReq(SameFile(bin)))
          /\ seq' = (seq + 1) % SeqMod
          /\ UNCHANGED <<state, info, bin, crc, offset, block, queryTimer, dataTimer, poll>>
  /\ UNCHANGED <<flash, boot, ver, headercnt, dataCb, task, sector,
                 seqNumber, lost, failed, crashed>>

\* Boot: the boot code runs bank 0 if it is flagged and bank 1 otherwise, as
\* mcuBootAddrGet reads it back.  RAM starts from zero; the device associates
\* again, which starts the query timer.
BootBank(f) == IF f[0] = "valid" THEN 0 ELSE 1
VersionOf(d) == IF \A u \in 0 .. ImageLen - 1 : d[u] = HdrLen + u THEN "new" ELSE "old"

Restart(f) ==
  /\ boot' = BootBank(f) /\ ver' = VersionOf(data[BootBank(f)])
  /\ task' = IF f[BootBank(f)] = "valid" THEN "none" ELSE "dead"
  /\ state' = "idle" /\ info' = "none"
  /\ bin' = NoBin(0)
  /\ headercnt' = 0 /\ crc' = <<>> /\ offset' = 0 /\ block' = 0
  /\ queryTimer' = TRUE /\ dataTimer' = FALSE /\ dataCb' = "none"
  /\ poll' = "normal"
  /\ retryCnt' = 0 /\ seq' = 0 /\ sector' = 0

\* flash_write of a boot flag: only an erased byte can become 0x4b, a low supply
\* drops the write, and nothing reads it back.
FlagWritten(b, value) ==
  /\ flag' = [flag EXCEPT ![b] = IF value = "valid" /\ @ # "erased" THEN @ ELSE value]
  /\ UNCHANGED failed
FlagDropped == failed < MaxFail /\ failed' = failed + 1 /\ UNCHANGED flag

\* Mutant: the old bank is unflagged first.
EnableNewLast ==
  /\ task = "enable" /\ task' = "disable"
  /\ FlagWritten(boot, "cleared") /\ UNCHANGED enableLost
  /\ UNCHANGED <<data, locked, boot, ver, state, info, bin, headercnt, crc, offset, block,
                 queryTimer, dataTimer, dataCb, retryCnt, seq, poll, sector,
                 seqNumber, net, lost, crashed>>

\* ota_mcuReboot: flag the new bank ...
EnableNew ==
  /\ task = "enable" /\ task' = "disable"
  /\ \/ FlagWritten(Target, "valid") /\ UNCHANGED enableLost
     \/ FlagDropped /\ enableLost' = TRUE
  /\ UNCHANGED <<data, locked, boot, ver, state, info, bin, headercnt, crc, offset, block,
                 queryTimer, dataTimer, dataCb, retryCnt, seq, poll, sector,
                 seqNumber, net, lost, crashed>>

\* ... then unflag the old one, and reset.
DisableOld ==
  /\ task = "disable"
  /\ \/ FlagWritten(boot, "cleared") /\ UNCHANGED enableLost
     \/ FlagDropped /\ enableLost' = FALSE
  /\ Restart(flag')
  /\ UNCHANGED <<data, locked, seqNumber, net, lost, crashed>>

Crash ==
  /\ crashed < MaxCrash /\ crashed' = crashed + 1
  /\ Restart(flag)
  /\ enableLost' = (enableLost /\ task # "disable")
  /\ UNCHANGED <<data, flag, locked, seqNumber, net, lost, failed>>

Lose(m) ==
  /\ lost < MaxLoss /\ lost' = lost + 1
  /\ net' = net \ {m}
  /\ UNCHANGED <<flash, ram, seqNumber, failed, crashed>>

\* The device runs the old image from either bank; the other bank is erased or
\* holds an earlier image whose flag an upgrade has cleared.
Init ==
  /\ \E b \in Bank, spare \in {Blank, Old} :
       /\ flag = [x \in Bank |-> IF x = b THEN "valid"
                                ELSE IF spare = Blank THEN "erased" ELSE "cleared"]
       /\ data = [x \in Bank |-> [u \in Units |-> IF x = b THEN Old ELSE spare]]
       /\ boot = b
  /\ ver = "old" /\ state = "idle" /\ info = "none"
  /\ bin = NoBin(0)
  /\ headercnt = 0 /\ crc = <<>> /\ offset = 0 /\ block = 0
  /\ queryTimer = TRUE /\ dataTimer = FALSE /\ dataCb = "none"
  /\ poll = "normal"
  /\ retryCnt = 0 /\ seq = 0 /\ task = "none" /\ sector = 0
  /\ locked \in Lock /\ enableLost = FALSE
  /\ seqNumber = SeqMod /\ net = {}
  /\ lost = 0 /\ failed = 0 /\ crashed = 0

Receive == \/ ServerStart \/ ServerData \/ ServerStop
           \/ DeviceStartRsp \/ DeviceDataRsp \/ DeviceStopRsp
Timer == Query \/ DataTimeout
Working == EraseSector \/ EraseDone \/ EnableNew \/ DisableOld

Next == Receive \/ Timer \/ Working \/ Crash \/ (\E m \in net : Lose(m))

Spec == Init /\ [][Next]_vars

\* A frame that stays in the air is received, timers fire, a handler goes on.
FairSpec == /\ Spec
            /\ WF_vars(Query) /\ WF_vars(DataTimeout)
            /\ WF_vars(Working) /\ WF_vars(Receive)

---------------------------------------------------------------------------
(* Properties *)

\* Types of the state.
TypeOK ==
  /\ data \in [Bank -> [Units -> Units \cup {Blank, Old, Mixed}]]
  /\ flag \in [Bank -> {"erased", "valid", "cleared"}] /\ locked \in BOOLEAN
  /\ boot \in Bank /\ ver \in {"old", "new"} /\ enableLost \in BOOLEAN
  /\ state \in {"idle", "starting", "dataing", "end"} /\ info \in {"none", "file"}
  /\ bin \in [fields : {"zero", "right", "wrong"}, size : {0, ImageLen, Huge},
              hsize : {0, HdrLen}]
  /\ headercnt \in Nat /\ crc \in Seq(Units) /\ offset \in Nat /\ block \in Nat
  /\ queryTimer \in BOOLEAN /\ dataTimer \in BOOLEAN
  /\ dataCb \in {"none", "data", "stop"} /\ retryCnt \in 0 .. MaxRetries - 1
  /\ seq \in 0 .. SeqMod - 1 /\ seqNumber \in 0 .. SeqMod
  /\ poll \in {"normal", "ota"} /\ sector \in 0 .. Sectors
  /\ task \in {"none", "erase", "enable", "disable", "dead"}
  /\ Cardinality(net) <= NetCap

Complete(d) == \/ \A u \in 0 .. ImageLen - 1 : d[u] = Old
               \/ \A u \in 0 .. ImageLen - 1 : d[u] = HdrLen + u

\* At every step, and so after a power failure at any step, the bank the boot
\* code would choose is flagged and holds a complete image: no order of late,
\* repeated or lost frames, erases that are dropped or locked out, writes that
\* fail in the middle or damage what they are written over, and given-up
\* transfers makes the device boot into a partial image or into none.  The one
\* exception is a low supply that drops the first of the two flash_write calls of
\* ota_mcuReboot and not the second.
AlwaysBootable ==
  enableLost \/ LET b == BootBank(flag) IN flag[b] = "valid" /\ Complete(data[b])

\* The device never goes quiet and never stays busy: while idle it keeps asking
\* for an upgrade, during a transfer a timer will repeat the last request, and
\* it polls at the fast rate only while that timer runs.  Every way out of a
\* transfer, the failed write in the middle of ota_dataRspHandler too, restores
\* all three.
NeverSilent ==
  /\ task = "none" => IF state = "idle" THEN queryTimer ELSE dataTimer
  /\ poll = "ota" => dataTimer /\ info = "file"

\* A device that claims a verified image to the coordinator has one.  The CRC
\* alone does not say so: an erased CRC word equals the initial CRC.
StopMeansVerified ==
  state = "end" /\ SameFile(bin) =>
    \A u \in 0 .. ImageLen - 1 : data[Target][u] = HdrLen + u

\* If fewer frames are lost than the device retries, it ends up running the new
\* image, whatever power failures happen on the way.  On a chip that
\* c_flashOptList locks, where ota_startRspHandler cannot erase, this only holds
\* for a spare bank that was erased from the start, and a power failure between
\* the two flag writes may leave the new image flagged behind the old one.
Completes ==
  (locked => \A u \in Units : data[Target][u] = Blank)
    => <>(ver = "new" \/ (locked /\ \A b \in Bank : flag[b] = "valid"))
=============================================================================
