---------------------------- MODULE MacPhyProofs ----------------------------
(***************************************************************************)
(* Proofs about MacPhy, for every pool of receive buffers and any number   *)
(* of frames and transmissions: whatever the order in which radio,         *)
(* interrupt handler and main loop take their steps.                       *)
(***************************************************************************)
EXTENDS MacPhy, FiniteSetTheorems, TLAPS

---------------------------------------------------------------------------
(* Transmission.  Who may switch the radio is decided by flags that change  *)
(* in different steps; the proof needs to know how they go together.        *)

\* TX_BUSY is set from the channel assessment to zb_macDataSendHandler.
BusyInv == txBusy <=> cb \in {"claimed", "switched"} \/ macTx = "tx"

\* The CSMA callback runs for a transmission that has not started; the one of
\* the timer runs in the timer interrupt, so that there is only one of them.
CsmaInv ==
  /\ cb # "none" \/ tmr = "wto" => macTx = "csma"
  /\ irqPc = "cb" => cb # "none"
  /\ cb # "none" /\ tmr = "wto" => irqPc = "cb"
  /\ call # Nil => macTx = "idle"

\* The acknowledgement is sent only inside the handler, and not while a data
\* frame is being prepared or sent.
AckInv ==
  /\ txOn = "ack" => irqPc = "ack"
  /\ irqPc = "ack" => ~txBusy /\ txOn # "data"

\* Outside the acknowledgement, the end of a transmission is raised, or has
\* been read by the handler, only for a data frame that is out.
EndInv ==
  /\ "tx" \in irq /\ irqPc # "ack" => macTx = "tx" /\ txOn = "none"
  /\ "tx" \in src /\ irqPc = "tx" => macTx = "tx" /\ txOn = "none"

\* A data frame is sent in transmission mode, which was set before it.
DataInv ==
  /\ txOn = "data" => macTx = "tx" /\ radio = "tx"
  /\ cb = "switched" => radio = "tx"

CountInv == started \in Nat /\ sent \in Nat /\ SentOnce

TxInv == BusyInv /\ CsmaInv /\ AckInv /\ EndInv /\ DataInv /\ CountInv

---------------------------------------------------------------------------
(* Reception. *)

\* Outside the acknowledgement the DMA is enabled; the radio receives when the
\* driver records that it does, or is about to record it.
ModeInv ==
  irqPc # "ack" =>
    /\ rxEn
    /\ call = "rx" => radio = "rx"
    /\ call = Nil /\ cb # "switched" /\ rfMode = "rx" => radio = "rx"

\* During the acknowledgement the frame it is for is the last of the queue.
AckedInv ==
  IF irqPc = "ack"
  THEN macQ # <<>> /\ acked \subseteq delivered \cup {macQ[Len(macQ)][2].id}
  ELSE acked \subseteq delivered

IInv == TypeOK /\ TxInv /\ ModeInv /\ AckedInv /\ BuffersSound
---------------------------------------------------------------------------
(* Every step preserves the parts of the invariant. *)

LEMMA TypeStep == TypeOK /\ [Next]_vars => TypeOK'
<1> SUFFICES ASSUME TypeOK, [Next]_vars PROVE TypeOK'
    OBVIOUS
<1> USE DEF TypeOK, Modes, Sources
<1>1. ASSUME NEW f \in Frames, AirStart(f) PROVE TypeOK'
    BY <1>1 DEF AirStart, hw, bufs, hist, env
<1>2. ASSUME NEW short \in BOOLEAN, MacSend(short) PROVE TypeOK'
    BY <1>2 DEF MacSend, MainIdle, hw, bufs, hist, env
<1>3. ASSUME NEW m \in Modes, SetTrxState(m) PROVE TypeOK'
    BY <1>3 DEF SetTrxState, MainIdle, hw, bufs, hist, env
<1>4. CASE AirEnd
    BY <1>4 DEF AirEnd, hw, bufs, hist, env
<1>5. CASE TxEnd
    BY <1>5 DEF TxEnd, hw, bufs, hist, env
<1>6. CASE TimerExpires
    BY <1>6 DEF TimerExpires, hw, bufs, hist, env
<1>7. CASE IrqEnter
    BY <1>7 DEF IrqEnter, hw, bufs, hist, env
<1>8. CASE IrqTx
  <2>1. CASE "tx" \in src
    BY <1>8, <2>1 DEF IrqTx, TxIrq, bufs, env
  <2>2. CASE "tx" \notin src
    BY <1>8, <2>2 DEF IrqTx, bufs, env
  <2>3. QED
    BY <2>1, <2>2
<1>9. CASE IrqRx
  <2>1. CASE "rx" \notin src \/ air # Nil
    BY <1>9, <2>1 DEF IrqRx, bufs, env
  <2>2. CASE "rx" \in src /\ air = Nil /\ Rejected(content[rxBuf])
    BY <1>9, <2>2 DEF IrqRx, RxDrop, env
  <2>3. CASE "rx" \in src /\ air = Nil /\ ~Rejected(content[rxBuf]) /\ RxNoBuffer
    BY <1>9, <2>3 DEF IrqRx, RxNoBuffer, env
  <2>4. CASE "rx" \in src /\ air = Nil /\ ~Rejected(content[rxBuf]) /\ RxTake
    <3>1. content[rxBuf] \in Frames
      BY <2>4 DEF Rejected
    <3>2. PICK b \in free : UseNext(b)
      BY <2>4 DEF RxTake
    <3>3. rxBuf' \in Buffers /\ free' \subseteq Buffers
          /\ content' \in [Buffers -> Frames \cup {Nil}]
      BY <3>2 DEF UseNext
    <3>4. macQ' \in Seq(Buffers \X Frames)
      BY <3>1, <3>2 DEF UseNext
    <3>5. /\ radio' \in Modes /\ rxEn' \in BOOLEAN /\ txOn' \in {"none", "data", "ack"}
          /\ irqPc' \in {"none", "tx", "rx", "ack", "tmr", "cb"}
      BY <2>4 DEF RxTake
    <3>6. irq' \subseteq Sources
      BY <1>9 DEF IrqRx
    <3>7. UNCHANGED <<rfMode, txBusy, air, src, call, cb, tmr, macTx>>
      BY <1>9 DEF IrqRx
    <3>8. QED
      BY <3>3, <3>4, <3>5, <3>6, <3>7
  <2>5. QED
    BY <1>9, <2>1, <2>2, <2>3, <2>4 DEF IrqRx
<1>10. CASE AckDone
    BY <1>10 DEF AckDone, hw, bufs, hist, env
<1>11. CASE IrqTmr
    BY <1>11 DEF IrqTmr, hw, bufs, hist, env
<1>12. CASE CcaIdle
    BY <1>12 DEF CcaIdle, CbTurn, hw, bufs, hist, env
<1>13. CASE CcaBusy
    BY <1>13 DEF CcaBusy, CbTurn, CbReturn, hw, bufs, hist, env
<1>14. CASE SwitchTx
    BY <1>14 DEF SwitchTx, CbTurn, hw, bufs, hist, env
<1>15. CASE StartTx
    BY <1>15 DEF StartTx, CbTurn, CbReturn, hw, bufs, hist, env
<1>16. CASE RecordState
    BY <1>16 DEF RecordState, hw, bufs, hist, env
<1>17. CASE SetChannel
    BY <1>17 DEF SetChannel, MainIdle, hw, bufs, hist, env
<1>18. CASE Reset
    BY <1>18 DEF Reset, MainIdle, hw, bufs, hist, env
<1>19. CASE MacTake
    BY <1>19 DEF MacTake, MainIdle, hw, bufs, hist, env
<1>20. CASE UNCHANGED vars
    BY <1>20 DEF vars, hw, bufs, hist, env
<1>21. QED
    BY <1>1, <1>2, <1>3, <1>4, <1>5, <1>6, <1>7, <1>8, <1>9, <1>10, <1>11, <1>12, <1>13,
       <1>14, <1>15, <1>16, <1>17, <1>18, <1>19, <1>20 DEF Next

LEMMA TxStep == TypeOK /\ TxInv /\ [Next]_vars => TxInv'
<1> SUFFICES ASSUME TypeOK, TxInv, [Next]_vars PROVE TxInv'
    OBVIOUS
<1> USE PhyAssumption DEF TypeOK, TxInv, BusyInv, CsmaInv, AckInv, EndInv, DataInv, CountInv, SentOnce
<1>1. ASSUME NEW f \in Frames, AirStart(f) PROVE TxInv'
    BY <1>1 DEF AirStart, hw, bufs, hist, env
<1>2. ASSUME NEW short \in BOOLEAN, MacSend(short) PROVE TxInv'
    BY <1>2 DEF MacSend, MainIdle, hw, bufs, hist, env
<1>3. ASSUME NEW m \in Modes, SetTrxState(m) PROVE TxInv'
    BY <1>3 DEF SetTrxState, MainIdle, hw, bufs, hist, env
<1>4. CASE AirEnd
    BY <1>4 DEF AirEnd, hw, bufs, hist, env
<1>5. CASE TxEnd
    BY <1>5 DEF TxEnd, hw, bufs, hist, env
<1>6. CASE TimerExpires
    BY <1>6 DEF TimerExpires, hw, bufs, hist, env
<1>7. CASE IrqEnter
    BY <1>7 DEF IrqEnter, hw, bufs, hist, env
<1>8. CASE IrqTx
    BY <1>8 DEF IrqTx, TxIrq, hw, bufs, hist, env
<1>9. CASE IrqRx
    BY <1>9 DEF IrqRx, Rejected, RxDrop, RxNoBuffer, RxTake, UseNext, hw, bufs, hist, env
<1>10. CASE AckDone
    BY <1>10 DEF AckDone, hw, bufs, hist, env
<1>11. CASE IrqTmr
    BY <1>11 DEF IrqTmr, hw, bufs, hist, env
<1>12. CASE CcaIdle
    BY <1>12 DEF CcaIdle, CbTurn, hw, bufs, hist, env
<1>13. CASE CcaBusy
    BY <1>13 DEF CcaBusy, CbTurn, CbReturn, hw, bufs, hist, env
<1>14. CASE SwitchTx
    BY <1>14 DEF SwitchTx, CbTurn, hw, bufs, hist, env
<1>15. CASE StartTx
    BY <1>15 DEF StartTx, CbTurn, CbReturn, hw, bufs, hist, env
<1>16. CASE RecordState
    BY <1>16 DEF RecordState, hw, bufs, hist, env
<1>17. CASE SetChannel
    BY <1>17 DEF SetChannel, MainIdle, hw, bufs, hist, env
<1>18. CASE Reset
    BY <1>18 DEF Reset, MainIdle, hw, bufs, hist, env
<1>19. CASE MacTake
    BY <1>19 DEF MacTake, MainIdle, hw, bufs, hist, env
<1>20. CASE UNCHANGED vars
    BY <1>20 DEF vars, hw, bufs, hist, env
<1>21. QED
    BY <1>1, <1>2, <1>3, <1>4, <1>5, <1>6, <1>7, <1>8, <1>9, <1>10, <1>11, <1>12, <1>13,
       <1>14, <1>15, <1>16, <1>17, <1>18, <1>19, <1>20 DEF Next

LEMMA ModeStep == TypeOK /\ TxInv /\ ModeInv /\ [Next]_vars => ModeInv'
<1> SUFFICES ASSUME TypeOK, TxInv, ModeInv, [Next]_vars PROVE ModeInv'
    OBVIOUS
<1> USE PhyAssumption DEF TypeOK, TxInv, BusyInv, CsmaInv, AckInv, EndInv, DataInv, ModeInv, Modes
<1>1. ASSUME NEW f \in Frames, AirStart(f) PROVE ModeInv'
    BY <1>1 DEF AirStart, hw, bufs, hist, env
<1>2. ASSUME NEW short \in BOOLEAN, MacSend(short) PROVE ModeInv'
    BY <1>2 DEF MacSend, MainIdle, hw, bufs, hist, env
<1>3. ASSUME NEW m \in Modes, SetTrxState(m) PROVE ModeInv'
    BY <1>3 DEF SetTrxState, MainIdle, hw, bufs, hist, env
<1>4. CASE AirEnd
    BY <1>4 DEF AirEnd, hw, bufs, hist, env
<1>5. CASE TxEnd
    BY <1>5 DEF TxEnd, hw, bufs, hist, env
<1>6. CASE TimerExpires
    BY <1>6 DEF TimerExpires, hw, bufs, hist, env
<1>7. CASE IrqEnter
    BY <1>7 DEF IrqEnter, hw, bufs, hist, env
<1>8. CASE IrqTx
    BY <1>8 DEF IrqTx, TxIrq, hw, bufs, hist, env
<1>9. CASE IrqRx
    BY <1>9 DEF IrqRx, Rejected, RxDrop, RxNoBuffer, RxTake, UseNext, hw, bufs, hist, env
<1>10. CASE AckDone
    BY <1>10 DEF AckDone, hw, bufs, hist, env
<1>11. CASE IrqTmr
    BY <1>11 DEF IrqTmr, hw, bufs, hist, env
<1>12. CASE CcaIdle
    BY <1>12 DEF CcaIdle, CbTurn, hw, bufs, hist, env
<1>13. CASE CcaBusy
    BY <1>13 DEF CcaBusy, CbTurn, CbReturn, hw, bufs, hist, env
<1>14. CASE SwitchTx
    BY <1>14 DEF SwitchTx, CbTurn, hw, bufs, hist, env
<1>15. CASE StartTx
    BY <1>15 DEF StartTx, CbTurn, CbReturn, hw, bufs, hist, env
<1>16. CASE RecordState
    BY <1>16 DEF RecordState, hw, bufs, hist, env
<1>17. CASE SetChannel
    BY <1>17 DEF SetChannel, MainIdle, hw, bufs, hist, env
<1>18. CASE Reset
    BY <1>18 DEF Reset, MainIdle, hw, bufs, hist, env
<1>19. CASE MacTake
    BY <1>19 DEF MacTake, MainIdle, hw, bufs, hist, env
<1>20. CASE UNCHANGED vars
    BY <1>20 DEF vars, hw, bufs, hist, env
<1>21. QED
    BY <1>1, <1>2, <1>3, <1>4, <1>5, <1>6, <1>7, <1>8, <1>9, <1>10, <1>11, <1>12, <1>13,
       <1>14, <1>15, <1>16, <1>17, <1>18, <1>19, <1>20 DEF Next
\* An acknowledged frame is handed to the MAC before the handler returns.
LEMMA AckedStep == TypeOK /\ AckedInv /\ [Next]_vars => AckedInv'
<1> SUFFICES ASSUME TypeOK, AckedInv, [Next]_vars PROVE AckedInv'
    OBVIOUS
<1>1. CASE IrqRx
  <2>1. irqPc = "rx" /\ acked \subseteq delivered
    BY <1>1 DEF IrqRx, AckedInv
  <2>2. CASE "rx" \notin src \/ air # Nil
    BY <1>1, <2>1, <2>2 DEF IrqRx, AckedInv
  <2>3. CASE RxDrop
    BY <2>1, <2>3 DEF RxDrop, AckedInv
  <2>4. CASE RxNoBuffer
    BY <2>1, <2>4 DEF RxNoBuffer, AckedInv
  <2>5. CASE ~Rejected(content[rxBuf]) /\ RxTake
    <3>1. PICK b \in free : UseNext(b)
      BY <2>5 DEF RxTake
    <3>2. <<rxBuf, content[rxBuf]>> \in Buffers \X Frames
      BY <2>5 DEF Rejected, TypeOK
    <3>3. macQ' # <<>> /\ macQ'[Len(macQ')] = <<rxBuf, content[rxBuf]>>
      BY <3>1, <3>2 DEF UseNext, TypeOK
    <3>4. macQ'[Len(macQ')][2].id = content[rxBuf].id
      BY <3>3
    <3>5. CASE content[rxBuf].ack
      BY <2>1, <2>5, <3>3, <3>4, <3>5 DEF RxTake, AckedInv
    <3>6. CASE ~content[rxBuf].ack
      BY <2>1, <2>5, <3>6 DEF RxTake, AckedInv
    <3>7. QED
      BY <3>5, <3>6
  <2>6. QED
    BY <1>1, <2>2, <2>3, <2>4, <2>5 DEF IrqRx
<1>2. CASE AckDone
  BY <1>2 DEF AckDone, AckedInv
<1>3. CASE MacTake
  BY <1>3 DEF MacTake, MainIdle, AckedInv, hist
<1>4. ASSUME UNCHANGED <<macQ, acked, delivered>>, irqPc = "ack" <=> irqPc' = "ack"
      PROVE  AckedInv'
  BY <1>4 DEF AckedInv
<1>5. ASSUME NEW f \in Frames, AirStart(f) PROVE AckedInv'
  BY <1>4, <1>5 DEF AirStart, hist
<1>6. ASSUME NEW short \in BOOLEAN, MacSend(short) PROVE AckedInv'
  BY <1>4, <1>6 DEF MacSend, hist, bufs
<1>7. ASSUME NEW m \in Modes, SetTrxState(m) PROVE AckedInv'
  BY <1>4, <1>7 DEF SetTrxState, hist, bufs
<1>8. CASE AirEnd \/ TxEnd \/ TimerExpires
  BY <1>4, <1>8 DEF AirEnd, TxEnd, TimerExpires, hist, bufs
<1>9. CASE IrqEnter \/ IrqTx \/ IrqTmr
  BY <1>4, <1>9 DEF IrqEnter, IrqTx, IrqTmr, hist, bufs
<1>10. CASE CcaIdle \/ CcaBusy \/ SwitchTx \/ StartTx
  BY <1>4, <1>10 DEF CcaIdle, CcaBusy, SwitchTx, StartTx, CbTurn, CbReturn, hist, bufs
<1>11. CASE RecordState \/ SetChannel \/ Reset
  BY <1>4, <1>11 DEF RecordState, SetChannel, Reset, hist, bufs
<1>12. CASE UNCHANGED vars
  BY <1>4, <1>12 DEF vars, hist, bufs
<1>13. QED
  BY <1>1, <1>2, <1>3, <1>5, <1>6, <1>7, <1>8, <1>9, <1>10, <1>11, <1>12 DEF Next

\* The buffers: one step that moves one to the MAC, one that takes one back,
\* and the others, which at most write into the buffer of the DMA.
LEMMA BufferStep == TypeOK /\ BuffersSound /\ [Next]_vars => BuffersSound'
<1> SUFFICES ASSUME TypeOK, BuffersSound, [Next]_vars PROVE BuffersSound'
    OBVIOUS
<1>1. IsFiniteSet(free) /\ Cardinality(free) \in Nat /\ Cardinality(Buffers) \in Nat
  BY PhyAssumption, FS_Subset, FS_CardinalityType DEF TypeOK
<1>2. ASSUME UNCHANGED <<rxBuf, free, macQ>>,
             \A x \in Buffers : x # rxBuf => content'[x] = content[x]
      PROVE  BuffersSound'
  <2>1. \A i \in DOMAIN macQ : macQ[i][1] \in Buffers
    BY DEF TypeOK
  <2>2. QED
    BY <1>2, <2>1 DEF BuffersSound
<1>3. ASSUME ~Rejected(content[rxBuf]), RxTake PROVE BuffersSound'
  <2>1. PICK b \in free : UseNext(b)
    BY <1>3 DEF RxTake
  <2> DEFINE e == <<rxBuf, content[rxBuf]>>
  <2>2. e \in Buffers \X Frames /\ e[1] = rxBuf /\ e[2] = content[rxBuf]
    BY <1>3 DEF Rejected, TypeOK
  <2>3. macQ' = Append(macQ, e) /\ rxBuf' = b /\ free' = free \ {b} /\ rxBuf \notin free
    BY <2>1 DEF UseNext, BuffersSound
  <2> HIDE DEF e
  <2>4. /\ Len(macQ') = Len(macQ) + 1 /\ Len(macQ) \in Nat
        /\ DOMAIN macQ' = 1 .. Len(macQ) + 1 /\ DOMAIN macQ = 1 .. Len(macQ)
        /\ \A i \in DOMAIN macQ : macQ'[i] = macQ[i]
        /\ macQ'[Len(macQ) + 1] = e
    BY <2>2, <2>3 DEF TypeOK
  <2>5. \A x \in Buffers : x # b => content'[x] = content[x]
    BY <2>1 DEF UseNext, TypeOK
  <2>6. \A i \in DOMAIN macQ' : i \in DOMAIN macQ \/ i = Len(macQ) + 1
    BY <2>4
  <2>7. \A i \in DOMAIN macQ : macQ[i][1] \in Buffers /\ macQ[i][1] \notin free \cup {rxBuf}
    BY DEF TypeOK, BuffersSound
  <2>8. \A i \in DOMAIN macQ' : macQ'[i][1] \notin free' \cup {rxBuf'}
    BY <2>1, <2>2, <2>3, <2>4, <2>6, <2>7
  <2>9. \A i \in DOMAIN macQ' : content'[macQ'[i][1]] = macQ'[i][2]
    BY <2>1, <2>2, <2>3, <2>4, <2>5, <2>6, <2>7 DEF BuffersSound, TypeOK
  <2>10. \A i, j \in DOMAIN macQ' : macQ'[i][1] = macQ'[j][1] => i = j
    BY <2>2, <2>4, <2>6, <2>7 DEF BuffersSound
  <2>11. Cardinality(free') + Len(macQ') + 1 = Cardinality(Buffers)
    <3>1. Cardinality(free') = Cardinality(free) - 1
      BY <1>1, <2>1, <2>3, FS_RemoveElement
    <3>2. QED
      BY <1>1, <2>4, <3>1 DEF BuffersSound
  <2>12. QED
    BY <2>3, <2>8, <2>9, <2>10, <2>11 DEF BuffersSound
<1>4. CASE MacTake
  <2> DEFINE b == Head(macQ)[1]
  <2>1. /\ macQ # <<>> /\ macQ' = Tail(macQ) /\ free' = free \cup {b}
        /\ UNCHANGED <<rxBuf, content>>
    BY <1>4 DEF MacTake
  <2>2. /\ Len(macQ) \in Nat /\ Len(macQ) >= 1 /\ Len(macQ') = Len(macQ) - 1
        /\ DOMAIN macQ = 1 .. Len(macQ) /\ DOMAIN macQ' = 1 .. Len(macQ) - 1
        /\ \A i \in DOMAIN macQ' : macQ'[i] = macQ[i + 1]
        /\ b = macQ[1][1]
    BY <2>1 DEF TypeOK
  <2>3. b \notin free \cup {rxBuf}
    BY <2>2 DEF BuffersSound
  <2> HIDE DEF b
  <2>4. \A i \in DOMAIN macQ' : i + 1 \in DOMAIN macQ /\ i + 1 # 1 /\ macQ'[i][1] # b
    BY <2>2 DEF BuffersSound
  <2>5. \A i \in DOMAIN macQ' : /\ macQ'[i][1] \notin free' \cup {rxBuf'}
                               /\ content'[macQ'[i][1]] = macQ'[i][2]
    BY <2>1, <2>2, <2>4 DEF BuffersSound
  <2>6. \A i, j \in DOMAIN macQ' : macQ'[i][1] = macQ'[j][1] => i = j
    BY <2>2, <2>4 DEF BuffersSound
  <2>7. Cardinality(free') = Cardinality(free) + 1
    BY <1>1, <2>1, <2>3, FS_AddElement
  <2>8. QED
    BY <1>1, <2>1, <2>2, <2>3, <2>5, <2>6, <2>7 DEF BuffersSound
<1>5. CASE IrqRx
  <2>1. CASE "rx" \notin src \/ air # Nil
    BY <1>2, <1>5, <2>1 DEF IrqRx, bufs
  <2>2. CASE RxDrop
    BY <1>2, <2>2 DEF RxDrop, TypeOK
  <2>3. CASE RxNoBuffer
    BY <1>2, <2>3 DEF RxNoBuffer, TypeOK
  <2>4. QED
    BY <1>3, <1>5, <2>1, <2>2, <2>3 DEF IrqRx
<1>6. ASSUME NEW f \in Frames, AirStart(f) PROVE BuffersSound'
  BY <1>2, <1>6 DEF AirStart, TypeOK
<1>7. ASSUME NEW short \in BOOLEAN, MacSend(short) PROVE BuffersSound'
  BY <1>2, <1>7 DEF MacSend, bufs
<1>8. ASSUME NEW m \in Modes, SetTrxState(m) PROVE BuffersSound'
  BY <1>2, <1>8 DEF SetTrxState, bufs
<1>9. CASE AirEnd \/ TxEnd \/ TimerExpires \/ Reset
  BY <1>2, <1>9 DEF AirEnd, TxEnd, TimerExpires, Reset, bufs, TypeOK
<1>10. CASE IrqEnter \/ IrqTx \/ AckDone \/ IrqTmr
  BY <1>2, <1>10 DEF IrqEnter, IrqTx, AckDone, IrqTmr, bufs
<1>11. CASE CcaIdle \/ CcaBusy \/ SwitchTx \/ StartTx
  BY <1>2, <1>11 DEF CcaIdle, CcaBusy, SwitchTx, StartTx, bufs
<1>12. CASE RecordState \/ SetChannel
  BY <1>2, <1>12 DEF RecordState, SetChannel, bufs
<1>13. CASE UNCHANGED vars
  BY <1>2, <1>13 DEF vars, bufs
<1>14. QED
  BY <1>4, <1>5, <1>6, <1>7, <1>8, <1>9, <1>10, <1>11, <1>12, <1>13 DEF Next

LEMMA InitIInv == Init => IInv
<1> SUFFICES ASSUME Init PROVE IInv
    OBVIOUS
<1>1. TypeOK
  <2>1. macQ \in Seq(Buffers \X Frames) /\ content \in [Buffers -> Frames \cup {Nil}]
    BY DEF Init
  <2>2. QED
    BY <2>1 DEF Init, TypeOK, Modes, Sources
<1>2. TxInv /\ ModeInv
  BY PhyAssumption DEF Init, TxInv, BusyInv, CsmaInv, AckInv, EndInv, DataInv, CountInv,
                       SentOnce, ModeInv
<1>3. AckedInv
  BY DEF Init, AckedInv
<1>4. BuffersSound
  <2>1. Cardinality(free) = Cardinality(Buffers) - 1
    BY PhyAssumption, FS_RemoveElement DEF Init
  <2>2. Cardinality(Buffers) \in Nat
    BY PhyAssumption, FS_CardinalityType
  <2>3. Len(macQ) = 0 /\ DOMAIN macQ = {}
    BY DEF Init
  <2>4. QED
    BY <2>1, <2>2, <2>3 DEF Init, BuffersSound
<1>5. QED
  BY <1>1, <1>2, <1>3, <1>4 DEF IInv

---------------------------------------------------------------------------

\* The inductive invariant: types, the order of the transmission's flags, the
\* recorded mode and the place of every buffer.
THEOREM PhyInvariant == Spec => []IInv
<1>1. IInv /\ [Next]_vars => IInv'
  BY TypeStep, TxStep, ModeStep, AckedStep, BufferStep DEF IInv
<1>2. QED
  BY <1>1, InitIInv, PTL DEF Spec

\* Every receive buffer is with the DMA, in the pool or with the MAC, in
\* exactly one of them, and keeps its frame until the MAC has taken it.
THEOREM BuffersCorrect == Spec => []BuffersSound
<1>1. IInv => BuffersSound
  BY DEF IInv
<1>2. QED
  BY <1>1, PhyInvariant, PTL

\* A frame whose sender was sent an acknowledgement reaches the MAC.
THEOREM AckedCorrect == Spec => []AckedIsDelivered
<1>1. IInv => AckedIsDelivered
  BY DEF IInv, AckedInv, AckedIsDelivered
<1>2. QED
  BY <1>1, PhyInvariant, PTL

\* No reception, acknowledgement or change of mode disturbs a data frame on
\* its way out.
THEOREM DataCorrect == Spec => []DataUndisturbed
<1>1. IInv => DataUndisturbed
  BY DEF IInv, TxInv, BusyInv, DataInv, DataUndisturbed
<1>2. QED
  BY <1>1, PhyInvariant, PTL

\* The MAC hears of every data frame exactly once.
THEOREM SentCorrect == Spec => []SentOnce
<1>1. IInv => SentOnce
  BY DEF IInv, TxInv, CountInv
<1>2. QED
  BY <1>1, PhyInvariant, PTL

\* While the driver records that it receives, the radio does.
THEOREM NeverDeafCorrect == Spec => []NeverDeaf
<1>1. IInv => NeverDeaf
  BY DEF IInv, ModeInv, NeverDeaf
<1>2. QED
  BY <1>1, PhyInvariant, PTL
=============================================================================
