------------------------------ MODULE MacPhy -------------------------------
(***************************************************************************)
(* The radio driver ieee802154/mac/mac_phy.c under the interrupt dispatch  *)
(* of platform/services/b85m/irq_handler.c, with the hardware timer        *)
(* (proj/drivers/drv_timer.c) that runs the CSMA callback.                 *)
(*                                                                         *)
(* Three actors interleave: the radio, which receives into the buffer the  *)
(* DMA was given and finishes transmissions; the interrupt handler, which  *)
(* does not nest; and the main loop, which it interrupts at any step.  The *)
(* MAC library (external) asks for transmissions and takes the frames.     *)
(***************************************************************************)
EXTENDS Naturals, Sequences, FiniteSets

CONSTANTS
  Buffers,     \* receive buffers of the pool behind tl_getRxBuf
  Nil,
  MaxFrames,   \* bound: frames on the air
  MaxTx        \* bound: transmissions the MAC asks for

ASSUME PhyAssumption ==
  /\ IsFiniteSet(Buffers) /\ Buffers # {}
  /\ Nil \notin Buffers \cup {"rx", "tx", "off"}
  /\ MaxFrames \in Nat /\ MaxTx \in Nat

\* ack: MAC_FCF_ACK_REQ_BIT is set; ok: good CRC and length, passes the filter
Frames == [id : 1 .. MaxFrames, ack : BOOLEAN, ok : BOOLEAN]
Modes == {"rx", "tx", "off"}
Sources == {"rx", "tx", "tmr"}

VARIABLES
  radio,      \* mode of the transceiver
  rfMode,     \* the driver's record of it
  txBusy,     \* rf_busyFlag & TX_BUSY
  rxEn,       \* receive DMA enabled
  rxBuf,      \* rf_rxBuf, the buffer of the DMA
  content,    \* the frame in each buffer; Nil: cleared or half written
  free,       \* buffers of the pool
  macQ,       \* buffers handed to zb_macDataRecvHandler: <<buffer, frame>>
  air,        \* the frame that is being received
  txOn,       \* what is being transmitted: "none", "data" or "ack"
  irq,        \* raised interrupt sources
  src,        \* src_rf, the sources irq_handler has read
  irqPc,      \* where irq_handler is; "none": the main loop runs
  call,       \* rf_setTrxState of the main loop: the mode not yet recorded
  cb,         \* CSMA callback: "none", "cca", "claimed" or "switched"
  tmr,        \* status of the hardware timer: TIMER_IDLE or TIMER_WTO
  macTx,      \* the MAC's transmission: "idle", "csma" or "tx"
  arrived, asked,   \* counters of the bounds
  acked, delivered, \* history: frames acknowledged, frames handed to the MAC
  started, sent     \* history: data frames started, calls of zb_macDataSendHandler

hw == <<air, txOn>>
bufs == <<rxBuf, content, free, macQ>>
hist == <<acked, delivered, started, sent>>
env == <<arrived, asked>>
vars == <<radio, rfMode, txBusy, rxEn, bufs, hw, irq, src, irqPc, call, cb, tmr, macTx, env, hist>>

\* The main loop runs and is in none of the driver's functions.
MainIdle == irqPc = "none" /\ call = Nil /\ cb = "none"

---------------------------------------------------------------------------
(* The radio *)

\* A frame overwrites what the DMA buffer held.
AirStart(f) ==
  /\ radio = "rx" /\ rxEn /\ air = Nil /\ arrived < MaxFrames /\ f.id = arrived + 1
  /\ air' = f /\ arrived' = arrived + 1
  /\ content' = [content EXCEPT ![rxBuf] = Nil]
  /\ UNCHANGED <<radio, rfMode, txBusy, rxEn, rxBuf, free, macQ, txOn, irq, src, irqPc,
                 call, cb, tmr, macTx, asked, hist>>

AirEnd ==
  /\ air # Nil
  /\ content' = [content EXCEPT ![rxBuf] = air]
  /\ air' = Nil /\ irq' = irq \cup {"rx"}
  /\ UNCHANGED <<radio, rfMode, txBusy, rxEn, rxBuf, free, macQ, txOn, src, irqPc, call, cb,
                 tmr, macTx, env, hist>>

\* A transmission ends; one that was cut off by a change of mode never does.
TxEnd ==
  /\ txOn # "none" /\ radio = "tx"
  /\ txOn' = "none" /\ irq' = irq \cup {"tx"}
  /\ UNCHANGED <<radio, rfMode, txBusy, rxEn, bufs, air, src, irqPc, call, cb, tmr, macTx,
                 env, hist>>

TimerExpires ==
  /\ tmr = "wto" /\ irqPc # "cb" /\ "tmr" \notin irq
  /\ irq' = irq \cup {"tmr"}
  /\ UNCHANGED <<radio, rfMode, txBusy, rxEn, bufs, hw, src, irqPc, call, cb, tmr, macTx,
                 env, hist>>

---------------------------------------------------------------------------
(* irq_handler: transmission, reception, timers, in this order *)

IrqEnter ==
  /\ irqPc = "none" /\ irq # {}
  /\ src' = irq \ {"tmr"} /\ irqPc' = "tx"
  /\ UNCHANGED <<radio, rfMode, txBusy, rxEn, bufs, hw, irq, call, cb, tmr, macTx, env, hist>>

\* rf_tx_irq_handler, with the MAC's zb_macDataSendHandler
TxIrq ==
  /\ txBusy' = FALSE
  /\ rfMode' = "rx" /\ radio' = "rx" /\ air' = Nil
  /\ sent' = sent + 1 /\ macTx' = "idle"

IrqTx ==
  /\ irqPc = "tx" /\ irqPc' = "rx"
  /\ irq' = irq \ (src \cap {"tx"})
  /\ IF "tx" \in src THEN TxIrq ELSE UNCHANGED <<txBusy, rfMode, radio, air, sent, macTx>>
  /\ UNCHANGED <<rxEn, bufs, txOn, src, call, cb, tmr, env, acked, delivered, started>>

\* Mutant: a frame is taken although a transmission is being prepared.
RejectedAnyTime(f) == f = Nil \/ ~f.ok

\* Dropped before anything else: CRC, length, filter, or a transmission that is
\* being prepared or under way.  A cleared buffer has a length of zero.
Rejected(f) == f = Nil \/ ~f.ok \/ txBusy

\* The frame is dropped and its buffer receives again.
RxDrop ==
  /\ content' = [content EXCEPT ![rxBuf] = Nil]
  /\ rxEn' = TRUE
  /\ irqPc' = "tmr"
  /\ UNCHANGED <<radio, rxBuf, free, macQ, txOn, acked, delivered>>

\* Mutant: the radio is not switched back.
RxNoBufferStaysTx ==
  /\ free = {}
  /\ content' = [content EXCEPT ![rxBuf] = Nil]
  /\ radio' = IF content[rxBuf].ack THEN "tx" ELSE radio
  /\ rxEn' = TRUE /\ irqPc' = "tmr"
  /\ UNCHANGED <<rxBuf, free, macQ, txOn, acked, delivered>>

\* Mutant: the acknowledgement is sent whether or not there is a buffer.
RxNoBufferAcks ==
  /\ free = {}
  /\ acked' = IF content[rxBuf].ack THEN acked \cup {content[rxBuf].id} ELSE acked
  /\ content' = [content EXCEPT ![rxBuf] = Nil]
  /\ radio' = IF content[rxBuf].ack THEN "rx" ELSE radio
  /\ rxEn' = TRUE /\ irqPc' = "tmr"
  /\ UNCHANGED <<rxBuf, free, macQ, txOn, delivered>>

\* tl_getRxBuf returns NULL.  The radio, switched to transmission in advance
\* for a frame that asks for an acknowledgement, is switched back.
RxNoBuffer ==
  /\ free = {}
  /\ content' = [content EXCEPT ![rxBuf] = Nil]
  /\ radio' = IF content[rxBuf].ack THEN "rx" ELSE radio
  /\ rxEn' = TRUE /\ irqPc' = "tmr"
  /\ UNCHANGED <<rxBuf, free, macQ, txOn, acked, delivered>>

\* Mutant: the DMA keeps the buffer that goes to the MAC.
UseNextForgotten(b) ==
  /\ free' = free \ {b}
  /\ macQ' = Append(macQ, <<rxBuf, content[rxBuf]>>)
  /\ UNCHANGED <<rxBuf, content>>

\* rf_rxBuf = rxNextBuf; the old buffer goes to the MAC.
UseNext(b) ==
  /\ free' = free \ {b} /\ rxBuf' = b
  /\ content' = [content EXCEPT ![b] = Nil]
  /\ macQ' = Append(macQ, <<rxBuf, content[rxBuf]>>)

\* A frame without acknowledgement goes to the MAC at once; one with it starts
\* the acknowledgement, whose end the handler waits for.
RxTake ==
  LET f == content[rxBuf]
  IN \E b \in free :
       /\ UseNext(b)
       /\ IF f.ack
          THEN /\ radio' = "tx" /\ txOn' = "ack" /\ rxEn' = FALSE /\ irqPc' = "ack"
               /\ acked' = acked \cup {f.id}
               /\ UNCHANGED delivered
          ELSE /\ rxEn' = TRUE /\ irqPc' = "tmr"
               /\ delivered' = delivered \cup {f.id}
               /\ UNCHANGED <<radio, txOn, acked>>

\* rf_rx_irq_handler up to the wait.  It returns at once while the next frame
\* is being received (RF_DMA_BUSY).
IrqRx ==
  /\ irqPc = "rx"
  /\ irq' = irq \ (src \cap {"rx"})
  /\ IF "rx" \notin src \/ air # Nil
     THEN irqPc' = "tmr" /\ UNCHANGED <<radio, rxEn, bufs, txOn, acked, delivered>>
     ELSE IF Rejected(content[rxBuf]) THEN RxDrop ELSE RxNoBuffer \/ RxTake
  /\ UNCHANGED <<rfMode, txBusy, air, src, call, cb, tmr, macTx, env, started, sent>>

\* Mutant: the end of the acknowledgement stays raised.
AckDoneKeepsFlag ==
  /\ irqPc = "ack"
  /\ txOn' = "none"
  /\ radio' = "rx" /\ rxEn' = TRUE
  /\ delivered' = delivered \cup {macQ[Len(macQ)][2].id}
  /\ irqPc' = "tmr"
  /\ UNCHANGED <<rfMode, txBusy, bufs, air, irq, src, call, cb, tmr, macTx, env, acked,
                 started, sent>>

\* The acknowledgement is out, or 1 ms has passed; the flag of its end is cleared.
AckDone ==
  /\ irqPc = "ack"
  /\ txOn' = "none" /\ irq' = irq \ {"tx"}
  /\ radio' = "rx" /\ rxEn' = TRUE
  /\ delivered' = delivered \cup {macQ[Len(macQ)][2].id}
  /\ irqPc' = "tmr"
  /\ UNCHANGED <<rfMode, txBusy, bufs, air, src, call, cb, tmr, macTx, env, acked,
                 started, sent>>

\* drv_timer_irq3_handler -> drv_hwTmr_irq_process
IrqTmr ==
  /\ irqPc = "tmr"
  /\ IF "tmr" \in irq /\ tmr = "wto"
     THEN irqPc' = "cb" /\ cb' = "cca"
     ELSE irqPc' = "none" /\ UNCHANGED cb
  /\ irq' = irq \ {"tmr"}
  /\ UNCHANGED <<radio, rfMode, txBusy, rxEn, bufs, hw, src, call, tmr, macTx, env, hist>>

---------------------------------------------------------------------------
(* Transmission: the MAC's CSMA callback, from the timer interrupt or, when the
   back-off is too short for the timer, called by hwTmr_setAbs in the main loop *)

\* drv_hwTmr_set for a new transmission
MacSend(short) ==
  /\ MainIdle /\ macTx = "idle" /\ asked < MaxTx /\ tmr = "idle"
  /\ asked' = asked + 1 /\ macTx' = "csma"
  /\ IF short THEN cb' = "cca" /\ UNCHANGED tmr
     ELSE tmr' = "wto" /\ UNCHANGED cb
  /\ UNCHANGED <<radio, rfMode, txBusy, rxEn, bufs, hw, irq, src, irqPc, call, arrived, hist>>

CbTurn == irqPc \in {"none", "cb"}
CbReturn == irqPc' = "none" /\ cb' = "none"

\* The channel is idle (rf_performCCA); the MAC sets TX_BUSY.
CcaIdle ==
  /\ CbTurn /\ cb = "cca"
  /\ txBusy' = TRUE /\ cb' = "claimed"
  /\ UNCHANGED <<radio, rfMode, rxEn, bufs, hw, irq, src, irqPc, call, tmr, macTx, env, hist>>

\* The channel is busy: the MAC gives up, or asks the timer interrupt for
\* another back-off (hwTmr_setAbs ignores what the callback returns).
CcaBusy ==
  /\ CbTurn /\ cb = "cca"
  /\ CbReturn
  /\ \/ irqPc = "cb" /\ UNCHANGED <<tmr, macTx>>
     \/ tmr' = "idle" /\ macTx' = "idle"
  /\ UNCHANGED <<radio, rfMode, txBusy, rxEn, bufs, hw, irq, src, call, env, hist>>

\* rf802154_tx: rf_setTrxState(RF_STATE_TX) switches the radio and waits.
SwitchTx ==
  /\ CbTurn /\ cb = "claimed"
  /\ radio' = "tx" /\ air' = Nil /\ cb' = "switched"
  /\ UNCHANGED <<rfMode, txBusy, rxEn, bufs, txOn, irq, src, irqPc, call, tmr, macTx, env, hist>>

\* Mutant: the flags are cleared after the start.
StartTxClearsLate ==
  /\ CbTurn /\ cb = "switched"
  /\ rfMode' = "tx"
  /\ \/ irq' = irq \ {"rx", "tx"} /\ txOn' = "data"
     \/ irq' = irq \ {"rx", "tx"} /\ txOn' = "none"
  /\ started' = started + 1 /\ macTx' = "tx"
  /\ CbReturn /\ tmr' = "idle"
  /\ UNCHANGED <<radio, txBusy, rxEn, bufs, air, src, call, env, acked, delivered, sent>>

\* It records the mode, clears the flags of both directions and starts.
StartTx ==
  /\ CbTurn /\ cb = "switched"
  /\ rfMode' = "tx" /\ irq' = irq \ {"rx", "tx"} /\ txOn' = "data"
  /\ started' = started + 1 /\ macTx' = "tx"
  /\ CbReturn /\ tmr' = "idle"
  /\ UNCHANGED <<radio, txBusy, rxEn, bufs, air, src, call, env, acked, delivered, sent>>

---------------------------------------------------------------------------
(* Other calls of the MAC, in the main loop while it is not transmitting *)

\* rf_setTrxState(RF_STATE_RX, RF_STATE_ED or RF_STATE_OFF), also from
\* rf_startEDScan: the radio first, the record after it.
SetTrxState(m) ==
  /\ MainIdle /\ macTx = "idle" /\ m \in {"rx", "off"}
  /\ radio' = m /\ air' = Nil /\ call' = m
  /\ UNCHANGED <<rfMode, txBusy, rxEn, bufs, txOn, irq, src, irqPc, cb, tmr, macTx, env, hist>>

RecordState ==
  /\ irqPc = "none" /\ call # Nil
  /\ rfMode' = call /\ call' = Nil
  /\ UNCHANGED <<radio, txBusy, rxEn, bufs, hw, irq, src, irqPc, cb, tmr, macTx, env, hist>>

\* rf_setChannel: the mode stays, a reception is cut off.
SetChannel ==
  /\ MainIdle /\ macTx = "idle" /\ air # Nil
  /\ air' = Nil
  /\ UNCHANGED <<radio, rfMode, txBusy, rxEn, bufs, txOn, irq, src, irqPc, call, cb, tmr,
                 macTx, env, hist>>

\* rf_reset after a sleep with retention: interrupts are still disabled, the
\* radio has lost its state, rf_rxBuf is kept.
Reset ==
  /\ MainIdle /\ macTx = "idle"
  /\ radio' = "tx" /\ rfMode' = "tx" /\ air' = Nil /\ irq' = {}
  /\ content' = [content EXCEPT ![rxBuf] = Nil] /\ rxEn' = TRUE
  /\ UNCHANGED <<txBusy, rxBuf, free, macQ, txOn, src, irqPc, call, cb, tmr, macTx, env, hist>>

\* The MAC task takes a frame and frees its buffer.
MacTake ==
  /\ MainIdle /\ macQ # <<>>
  /\ macQ' = Tail(macQ) /\ free' = free \cup {Head(macQ)[1]}
  /\ UNCHANGED <<radio, rfMode, txBusy, rxEn, rxBuf, content, hw, irq, src, irqPc, call, cb,
                 tmr, macTx, env, hist>>

---------------------------------------------------------------------------
\* rf_init
Init ==
  /\ radio = "tx" /\ rfMode = "tx" /\ txBusy = FALSE /\ rxEn = TRUE
  /\ rxBuf \in Buffers /\ free = Buffers \ {rxBuf}
  /\ content = [b \in Buffers |-> Nil] /\ macQ = <<>>
  /\ air = Nil /\ txOn = "none" /\ irq = {} /\ src = {} /\ irqPc = "none"
  /\ call = Nil /\ cb = "none" /\ tmr = "idle" /\ macTx = "idle"
  /\ arrived = 0 /\ asked = 0 /\ acked = {} /\ delivered = {}
  /\ started = 0 /\ sent = 0

Interrupt == IrqEnter \/ IrqTx \/ IrqRx \/ AckDone \/ IrqTmr
Callback == CcaIdle \/ CcaBusy \/ SwitchTx \/ StartTx

Next ==
  \/ \E f \in Frames : AirStart(f)
  \/ AirEnd \/ TxEnd \/ TimerExpires
  \/ IrqEnter \/ IrqTx \/ IrqRx \/ AckDone \/ IrqTmr
  \/ \E short \in BOOLEAN : MacSend(short)
  \/ CcaIdle \/ CcaBusy \/ SwitchTx \/ StartTx
  \/ \E m \in Modes : SetTrxState(m)
  \/ RecordState \/ SetChannel \/ Reset \/ MacTake

\* The radio ends what it sends, interrupts are served and handlers go on.
Spec ==
  /\ Init /\ [][Next]_vars
  /\ WF_vars(TxEnd) /\ WF_vars(Interrupt) /\ WF_vars(Callback)

---------------------------------------------------------------------------
(* Properties *)

\* Types of the state.
TypeOK ==
  /\ radio \in Modes /\ rfMode \in Modes /\ txBusy \in BOOLEAN /\ rxEn \in BOOLEAN
  /\ rxBuf \in Buffers /\ free \subseteq Buffers
  /\ content \in [Buffers -> Frames \cup {Nil}]
  /\ macQ \in Seq(Buffers \X Frames)
  /\ air \in Frames \cup {Nil} /\ txOn \in {"none", "data", "ack"}
  /\ irq \subseteq Sources /\ src \subseteq Sources
  /\ irqPc \in {"none", "tx", "rx", "ack", "tmr", "cb"}
  /\ call \in Modes \cup {Nil} /\ cb \in {"none", "cca", "claimed", "switched"}
  /\ tmr \in {"idle", "wto"} /\ macTx \in {"idle", "csma", "tx"}

\* No way through the handlers leaves the device deaf: while it records that it
\* is receiving, and no call is under way, the radio does receive and the DMA
\* is enabled.
NeverDeaf ==
  irqPc = "none" /\ call = Nil /\ cb \in {"none", "cca"} /\ rfMode = "rx"
    => radio = "rx" /\ rxEn

\* Every receive buffer is with the DMA, in the pool or with the MAC, never
\* with two of them and never lost, and what the MAC was handed stays as it
\* was received.
BuffersSound ==
  /\ rxBuf \notin free
  /\ \A i \in DOMAIN macQ :
       /\ macQ[i][1] \notin free \cup {rxBuf}
       /\ content[macQ[i][1]] = macQ[i][2]
       /\ \A j \in DOMAIN macQ : macQ[i][1] = macQ[j][1] => i = j
  /\ Cardinality(free) + Len(macQ) + 1 = Cardinality(Buffers)

\* Whoever got an acknowledgement got its frame through: outside the handler,
\* every acknowledged frame has been handed to the MAC.
AckedIsDelivered == irqPc # "ack" => acked \subseteq delivered

\* A data frame goes out undisturbed: while it is sent the radio stays in
\* transmission and TX_BUSY keeps the receive handler away, also when the
\* callback runs in the main loop and is interrupted between its steps.
DataUndisturbed ==
  txOn = "data" => radio = "tx" /\ txBusy

\* zb_macDataSendHandler is called once for every data frame, after it was
\* sent, and never for an acknowledgement.
SentOnce == started = sent + (IF macTx = "tx" THEN 1 ELSE 0)

\* TX_BUSY, which makes the device drop every frame it receives, is released.
BusyReleased == txBusy ~> ~txBusy
=============================================================================
