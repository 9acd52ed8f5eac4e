------------------------ MODULE BitbangDriver_proofs ------------------------
(***************************************************************************)
(* The driver, for any frame width, buffer length and message length.  The *)
(* first part holds whatever the rest of the bus does, the second part     *)
(* when the layer above keeps the bus half-duplex (Arbitrated).            *)
(***************************************************************************)
EXTENDS BitbangDriver, RxStateMachine_proofs, SequenceTheorems

USE DataBitsAssumption, LenAssumption, ModeAssumption, StaleAssumption

(* TypeOK is not inductive: a sample is counted, and the count has to stay *)
(* below the end of the frame.                                             *)
TypeInv == TypeOK /\ Running(rx_sm)

------------------------------------------------------------------------------
(* The operators of the frame.                                             *)

LEMMA FormatType ==
    ASSUME NEW value \in Byte
    PROVE  format_byte_for_hbs_tx(value) \in Frame
<1> DEFINE parity   == IF calc_even_parity(value) THEN {DataBits} ELSE {}
           prepared == value \cup parity \cup {DataBits + 1}
           shifted  == {i + 1 : i \in prepared}
<1>1. prepared \subseteq 0 .. DataBits + 1
  BY DEF Byte
<1>2. \A i \in shifted : i \in 0 .. DataBits + 2
  BY <1>1
<1> HIDE DEF shifted
<1>3. stuff_byte(shifted) \subseteq 0 .. HalfBits - 1
  BY <1>2 DEF stuff_byte, SpreadBits, HalfBits
<1>4. QED
  BY <1>3 DEF format_byte_for_hbs_tx, Frame, shifted

(* The off-duty half of the stop bit, the last level of a frame, is one.   *)
LEMMA FormatEndsHigh ==
    ASSUME NEW value \in Byte
    PROVE  HalfBits - 1 \in format_byte_for_hbs_tx(value)
<1>1. HalfBits - 1 \in 0 .. HalfBits - 1 /\ (HalfBits - 1) % 2 = 1
  BY DEF HalfBits
<1>2. QED
  BY <1>1 DEF format_byte_for_hbs_tx, stuff_byte

LEMMA FormatAll ==
    ASSUME NEW d \in Seq(Byte)
    PROVE  LET f == [k \in DOMAIN d |-> format_byte_for_hbs_tx(d[k])]
           IN  f \in Seq(Frame) /\ Len(f) = Len(d)
<1>1. DOMAIN d = 1 .. Len(d) /\ Len(d) \in Nat
  OBVIOUS
<1>2. \A k \in 1 .. Len(d) : format_byte_for_hbs_tx(d[k]) \in Frame
  BY FormatType
<1>3. QED
  BY <1>1, <1>2

------------------------------------------------------------------------------
(* The types.                                                              *)

LEMMA InitTypeInv == Init => TypeInv
<1> SUFFICES ASSUME Init PROVE TypeInv
  OBVIOUS
<1>1. rx_sm \in StateMachine /\ Running(rx_sm)
  BY InitRunning DEF Init, Running
<1>2. /\ pc \in Locations /\ bus_state \in BusStates
      /\ tx_current_byte \in Nat /\ tx_current_bit \in Nat
      /\ ticks \in 0 .. MaxTicks
  BY DEF Init, Locations, BusStates
<1>3. logged \in SUBSET LogCodes
  BY Zenon DEF Init
<1>4. /\ data \in Seq(Byte) /\ data_to_tx \in Seq(Frame)
      /\ frames \in Seq(Frame)
      /\ rx_queue \in Seq(Byte) /\ Len(rx_queue) <= RxLen
      /\ partial \in Seq(BOOLEAN) /\ Len(partial) < HalfBits
  BY DEF Init, HalfBits
<1>5. QED
  BY <1>1, <1>2, <1>3, <1>4 DEF Init, TypeInv, TypeOK

LEMMA MainTyped ==
    ASSUME TypeInv,
           \/ \E d \in Payloads : Transmit(d)
           \/ TransmitStep
           \/ Read \/ FlushRx
    PROVE  TypeInv'
<1> USE DEF TypeInv, TypeOK, Goto, At, Locations, mainVars, txVars, pinVars,
        intVars, tmrVars, rxVars, history
<1>0. 0 \in 0 .. MaxTicks
  OBVIOUS
<1>1. ASSUME NEW d \in Payloads, Transmit(d) PROVE TypeInv'
  BY <1>0, <1>1 DEF Transmit, Payloads, HalfBits
<1>2. CASE Prepare
  <2>1. data_to_tx' \in Seq(Frame)
    BY <1>2, FormatAll DEF Prepare
  <2>2. QED
    BY <1>0, <1>2, <2>1 DEF Prepare
<1>3. CASE PrepareFails
  BY <1>0, <1>3 DEF PrepareFails
<1>4. CASE MaskDout
  BY <1>0, <1>4 DEF MaskDout
<1>5. CASE SetBusTx
  BY <1>0, <1>5 DEF SetBusTx, BusStates
<1>6. CASE ResetBit
  BY <1>0, <1>6 DEF ResetBit
<1>7. CASE ResetByte
  BY <1>0, <1>7 DEF ResetByte
<1>8. CASE SetCount
  BY <1>0, <1>8 DEF SetCount
<1>9. CASE StartTimer
  BY <1>0, <1>9 DEF StartTimer
<1>10. CASE Spin
  BY <1>0, <1>10 DEF Spin
<1>11. CASE SetBusIdle
  BY <1>0, <1>11 DEF SetBusIdle, BusStates
<1>12. CASE StopTimer
  BY <1>0, <1>12 DEF StopTimer
<1>13. CASE ReloadTimer
  BY <1>0, <1>13 DEF ReloadTimer
<1>14. CASE FreeBuffer
  BY <1>0, <1>14 DEF FreeBuffer
<1>15. CASE UnmaskDout
  BY <1>0, <1>15 DEF UnmaskDout
<1>16. CASE DisableTx
  BY <1>0, <1>16 DEF DisableTx
<1>17. CASE Read
  BY <1>17 DEF Read
<1>18. CASE FlushRx
  BY <1>18 DEF FlushRx
<1>19. QED
  BY <1>1, <1>2, <1>3, <1>4, <1>5, <1>6, <1>7, <1>8, <1>9, <1>10, <1>11,
     <1>12, <1>13, <1>14, <1>15, <1>16, <1>17, <1>18 DEF TransmitStep

LEMMA PutOnWireTyped ==
    ASSUME frames \in Seq(Frame), partial \in Seq(BOOLEAN),
           Len(partial) < HalfBits,
           NEW level \in BOOLEAN, PutOnWire(level)
    PROVE  /\ frames' \in Seq(Frame)
           /\ partial' \in Seq(BOOLEAN) /\ Len(partial') < HalfBits
<1> DEFINE frame == {p \in 0 .. HalfBits - 1 : Append(partial, level)[p + 1]}
<1>1. frame \in Frame
  BY DEF Frame
<1>2. Append(partial, level) \in Seq(BOOLEAN)
      /\ Len(Append(partial, level)) = Len(partial) + 1
      /\ Len(partial) \in Nat
  BY AppendProperties, LenProperties
<1>3. CASE Len(partial) + 1 = HalfBits
  <2>1. frames' = Append(frames, frame) /\ partial' = << >>
    BY <1>3 DEF PutOnWire
  <2> HIDE DEF frame
  <2>2. Append(frames, frame) \in Seq(Frame)
    BY <1>1, AppendProperties
  <2>3. QED
    BY <2>1, <2>2 DEF HalfBits
<1>4. CASE Len(partial) + 1 # HalfBits
  <2>1. partial' = Append(partial, level) /\ frames' = frames
    BY <1>4 DEF PutOnWire
  <2> DEFINE k == Len(partial)
             next == Append(partial, level)
  <2>2. k + 1 < HalfBits
    <3> HIDE DEF k
    <3>1. k \in Nat /\ k < HalfBits /\ k + 1 # HalfBits
      BY <1>2, <1>4 DEF k
    <3>2. QED
      BY <3>1 DEF HalfBits
  <2> HIDE DEF k, next
  <2>3. next \in Seq(BOOLEAN) /\ Len(next) < HalfBits
    BY <1>2, <2>2 DEF k, next
  <2>4. QED
    BY <2>1, <2>3 DEF next
<1>5. QED
  BY <1>3, <1>4

LEMMA DataReceivedTyped ==
    ASSUME rx_queue \in Seq(Byte), Len(rx_queue) <= RxLen,
           NEW byte \in Byte, DataReceived(byte)
    PROVE  rx_queue' \in Seq(Byte) /\ Len(rx_queue') <= RxLen
<1>1. /\ Append(rx_queue, byte) \in Seq(Byte)
      /\ Len(Append(rx_queue, byte)) = Len(rx_queue) + 1
      /\ Len(rx_queue) \in Nat
  BY AppendProperties, LenProperties
<1>2. QED
  BY <1>1 DEF DataReceived

LEMMA HandlersTyped ==
    ASSUME TypeInv, TimerISR \/ EdgeStartsFrame \/ EdgeRefused
    PROVE  TypeInv'
<1> USE DEF TypeInv, TypeOK, mainVars, txVars, pinVars,
        intVars, tmrVars, rxVars, history
<1>0. ASSUME TimerFires PROVE ticks' \in 0 .. MaxTicks
  BY <1>0 DEF TimerFires, CountTick
<1>1. CASE TxDone
  <2>1. bus_state' \in BusStates /\ logged' \in SUBSET LogCodes
    BY <1>1 DEF TxDone, BusStates
  <2>2. QED
    BY <1>0, <1>1, <2>1 DEF TxDone, TxTick
<1>2. CASE TxCollate
  BY <1>0, <1>2 DEF TxCollate, TxTick
<1>3. CASE TxDrive
  <2>1. PICK level \in LevelsToTx :
           /\ din' = level
           /\ dout_irq' = (dout_int /\ din /\ ~level)
           /\ PutOnWire(level)
    BY <1>3 DEF TxDrive
  <2>2. level \in BOOLEAN
    BY DEF LevelsToTx
  <2>3. /\ frames' \in Seq(Frame)
        /\ partial' \in Seq(BOOLEAN) /\ Len(partial') < HalfBits
    BY <2>1, <2>2, PutOnWireTyped
  <2>4. tx_current_bit' \in Nat /\ tx_current_byte' \in Nat
    BY <1>3 DEF TxDrive, AdvanceBit
  <2>5. dout_irq' \in BOOLEAN /\ din' \in BOOLEAN
    BY <2>1, <2>2
  <2>6. QED
    BY <1>0, <1>3, <2>3, <2>4, <2>5 DEF TxDrive, TxTick
<1>4. CASE RxEdge
  <2>1. Running(rx_sm')
    BY <1>4, EdgeRunning DEF RxEdge
  <2>2. logged' \in SUBSET LogCodes
    BY <1>4 DEF RxEdge, LogCodes
  <2>3. QED
    BY <1>0, <1>4, <2>1, <2>2 DEF RxEdge, RxTick, Running
<1>5. CASE RxSample
  <2>1. Running(rx_sm')
    BY <1>5, SampleRunning DEF RxSample
  <2>2. logged' \in SUBSET LogCodes
    BY <1>5 DEF RxSample, LogCodes
  <2>3. QED
    BY <1>0, <1>5, <2>1, <2>2 DEF RxSample, RxTick, Running
<1>6. CASE RxFinish
  <2>1. PICK bit \in BOOLEAN :
           LET result == FrameResult(rx_sm, bit) IN
           /\ rx_sm' = EventSample(rx_sm, bit)
           /\ IF result.error_flags = {}
              THEN DataReceived(result.data)
              ELSE /\ logged' = FrameErrorLog(result.error_flags)
                   /\ UNCHANGED rx_queue
    BY <1>6 DEF RxFinish
  <2> DEFINE result == FrameResult(rx_sm, bit)
  <2>2. Running(rx_sm')
    BY <2>1, SampleRunning
  <2>3. result.data \in Byte
    BY ResultTyped DEF Byte
  <2> HIDE DEF result
  <2>4. /\ rx_queue' \in Seq(Byte) /\ Len(rx_queue') <= RxLen
    BY <2>1, <2>3, DataReceivedTyped DEF result
  <2>5. logged' \in SUBSET LogCodes
    BY <2>1 DEF DataReceived, FrameErrorLog, LogCodes
  <2>6. bus_state' \in BusStates
    BY <1>6 DEF RxFinish, RestartRxing, BusStates
  <2>7. QED
    BY <1>0, <1>6, <2>2, <2>4, <2>5, <2>6
       DEF RxFinish, RxTick, RestartRxing, Running
<1>7. CASE StrayTick
  <2>1. logged' \in SUBSET LogCodes
    BY <1>7 DEF StrayTick, LogCodes
  <2>2. QED
    BY <1>0, <1>7, <2>1 DEF StrayTick
<1>8. CASE EdgeStartsFrame
  <2>1. Running(rx_sm')
    BY <1>8, EdgeRunning DEF EdgeStartsFrame
  <2>2. bus_state' \in BusStates /\ logged' \in SUBSET LogCodes
    BY <1>8 DEF EdgeStartsFrame, BusStates
  <2>3. QED
    BY <1>8, <2>1, <2>2 DEF EdgeStartsFrame, Running
<1>9. CASE EdgeRefused
  BY <1>9 DEF EdgeRefused
<1>10. QED
  BY <1>1, <1>2, <1>3, <1>4, <1>5, <1>6, <1>7, <1>8, <1>9 DEF TimerISR

LEMMA NextTypeInv == TypeInv /\ [Next]_vars => TypeInv'
<1> SUFFICES ASSUME TypeInv, [Next]_vars PROVE TypeInv'
  OBVIOUS
<1>1. CASE UNCHANGED vars
  BY <1>1 DEF TypeInv, TypeOK, vars, mainVars, txVars, pinVars, intVars,
     tmrVars, rxVars, history
<1>2. QED
  BY <1>1, MainTyped, HandlersTyped DEF Next

(* Every variable keeps its type, the receive queue its capacity and the   *)
(* receive state machine its counters, whatever the bus does.              *)
THEOREM TypeCorrect == Spec => []TypeOK
<1>1. TypeInv => TypeOK
  BY DEF TypeInv
<1>2. QED
  BY <1>1, InitTypeInv, NextTypeInv, PTL DEF Spec

------------------------------------------------------------------------------
(* Whatever the bus does: the heap, the edge interrupt and the timer.      *)

(* Where bus_state may say TX: start_transmission sets it on entry to the  *)
(* first of these, and the busy wait is left only when it says otherwise.  *)
TxWindow == {"rst_bit", "rst_byte", "set_cnt", "start", "spin"}

(* Where data_to_tx is allocated.                                          *)
Allocated == {"mask", "set_tx", "idle", "stop", "reload", "free"} \cup TxWindow

(* Where the main thread has no use of the timer, and where it has none of *)
(* a disabled edge interrupt.                                              *)
TimerUnused == {"reload", "free", "unmask", "tx_off", "ready", "prepare",
                "mask", "set_tx"}

DoutUnused == {"tx_off", "ready", "prepare", "mask"}

(* HeapDiscipline and InterruptsAccountedFor speak of one location or of   *)
(* one bus state; what makes them inductive is where each of the three     *)
(* resources is in use.                                                    *)
ResourceInv ==
    /\ TypeInv
    /\ bus_state = "TX" => pc \in TxWindow
    /\ buf_live <=> pc \in Allocated
    /\ dout_irq => dout_int
    /\ pc \in TimerUnused /\ tmr_run => bus_state = "RX"
    /\ pc \in DoutUnused /\ ~dout_int =>
         bus_state = "RX" /\ rx_sm.ongoing /\ tmr_run

LEMMA InitResourceInv == Init => ResourceInv
BY InitTypeInv DEF Init, ResourceInv, Allocated, TxWindow, DoutUnused

LEMMA MainKeepsResources ==
    ASSUME ResourceInv, TypeInv',
           \/ \E d \in Payloads : Transmit(d)
           \/ TransmitStep
           \/ Read \/ FlushRx
    PROVE  ResourceInv'
<1> USE DEF ResourceInv, TxWindow, Allocated, TimerUnused, DoutUnused,
        Goto, At, mainVars, txVars, intVars, tmrVars, rxVars
<1>1. ASSUME NEW d \in Payloads, Transmit(d) PROVE ResourceInv'
  BY <1>1 DEF Transmit
<1>2. CASE Prepare
  BY <1>2 DEF Prepare
<1>3. CASE PrepareFails
  BY <1>3 DEF PrepareFails
<1>4. CASE MaskDout
  BY <1>4 DEF MaskDout
<1>5. CASE SetBusTx
  BY <1>5 DEF SetBusTx
<1>6. CASE ResetBit
  BY <1>6 DEF ResetBit
<1>7. CASE ResetByte
  BY <1>7 DEF ResetByte
<1>8. CASE SetCount
  BY <1>8 DEF SetCount
<1>9. CASE StartTimer
  BY <1>9 DEF StartTimer
<1>10. CASE Spin
  BY <1>10 DEF Spin
<1>11. CASE SetBusIdle
  BY <1>11 DEF SetBusIdle
<1>12. CASE StopTimer
  BY <1>12 DEF StopTimer
<1>13. CASE ReloadTimer
  BY <1>13 DEF ReloadTimer
<1>14. CASE FreeBuffer
  BY <1>14 DEF FreeBuffer
<1>15. CASE UnmaskDout
  BY <1>15 DEF UnmaskDout
<1>16. CASE DisableTx
  BY <1>16 DEF DisableTx
<1>17. CASE Read
  BY <1>17 DEF Read
<1>18. CASE FlushRx
  BY <1>18 DEF FlushRx
<1>19. QED
  BY <1>1, <1>2, <1>3, <1>4, <1>5, <1>6, <1>7, <1>8, <1>9, <1>10, <1>11,
     <1>12, <1>13, <1>14, <1>15, <1>16, <1>17, <1>18 DEF TransmitStep

LEMMA HandlersKeepResources ==
    ASSUME ResourceInv, TypeInv', TimerISR \/ EdgeStartsFrame \/ EdgeRefused
    PROVE  ResourceInv'
<1> USE DEF ResourceInv, TxWindow, TimerUnused, DoutUnused,
        TimerFires, TxTick, RxTick, mainVars, txVars, intVars, tmrVars, rxVars
<1>1. CASE TxDone
  BY <1>1 DEF TxDone
<1>2. CASE TxCollate
  BY <1>2 DEF TxCollate
<1>3. CASE TxDrive
  <2>1. dout_irq' => dout_int
    BY <1>3 DEF TxDrive
  <2>2. QED
    BY <1>3, <2>1 DEF TxDrive
<1>4. CASE RxEdge
  <2>1. rx_sm'.ongoing = rx_sm.ongoing
    BY <1>4, EdgeRunning DEF RxEdge, TypeInv
  <2>2. QED
    BY <1>4, <2>1 DEF RxEdge
<1>5. CASE RxSample
  <2>1. rx_sm'.ongoing = rx_sm.ongoing
    BY <1>5, SampleRunning DEF RxSample, TypeInv
  <2>2. QED
    BY <1>5, <2>1 DEF RxSample
<1>6. CASE RxFinish
  BY <1>6 DEF RxFinish, RestartRxing
<1>7. CASE StrayTick
  BY <1>7 DEF StrayTick
<1>8. CASE EdgeStartsFrame
  BY <1>8, EdgeRunning DEF EdgeStartsFrame, TypeInv
<1>9. CASE EdgeRefused
  BY <1>9 DEF EdgeRefused, FallingEdge, MayHearRemote
<1>10. QED
  BY <1>1, <1>2, <1>3, <1>4, <1>5, <1>6, <1>7, <1>8, <1>9 DEF TimerISR

LEMMA NextResourceInv == ResourceInv /\ [Next]_vars => ResourceInv'
<1> SUFFICES ASSUME ResourceInv, [Next]_vars PROVE ResourceInv'
  OBVIOUS
<1>1. TypeInv'
  BY NextTypeInv DEF ResourceInv
<1>2. CASE UNCHANGED vars
  BY <1>1, <1>2 DEF ResourceInv, vars, mainVars, txVars, intVars, tmrVars,
     rxVars
<1>3. QED
  BY <1>1, <1>2, MainKeepsResources, HandlersKeepResources DEF Next

(* The timer interrupt never reads a transmit buffer that is not allocated *)
(* and Transmit leaves none allocated, whatever the bus does and however   *)
(* the handlers interleave with max22x88_write_bitbang.                    *)
THEOREM HeapSafe == Spec => []HeapDiscipline
<1>1. ResourceInv => HeapDiscipline
  BY DEF ResourceInv, HeapDiscipline, Allocated, TxWindow
<1>2. QED
  BY <1>1, InitResourceInv, NextResourceInv, PTL DEF Spec

(* Outside of Transmit a disabled edge interrupt or a running timer always *)
(* belongs to a reception, whatever the bus does.                          *)
THEOREM InterruptsSafe == Spec => []InterruptsAccountedFor
<1>1. ResourceInv => InterruptsAccountedFor
  BY DEF ResourceInv, InterruptsAccountedFor, TimerUnused, DoutUnused
<1>2. QED
  BY <1>1, InitResourceInv, NextResourceInv, PTL DEF Spec

------------------------------------------------------------------------------
(* The driver on a bus that the layer above keeps half-duplex: it listens  *)
(* when it is idle, its receptions are undisturbed, what it sends is what  *)
(* it was given, and it implements HalfDuplexPort.                         *)

(* Where the transmission's half-bit clock is wanted, and where the timer  *)
(* has to be loaded for the next start bit.                                *)
Clocked == {"spin", "idle", "stop"}

LoadedForStart == {"free", "unmask", "tx_off", "ready", "prepare", "mask",
                   "set_tx", "rst_bit", "rst_byte", "set_cnt"}

(* Listening and ReceptionUndisturbed, with what every other location      *)
(* makes of the timer, the edge interrupt and the receive state machine.   *)
ListenInv ==
    /\ TypeInv
    /\ rx_sm.ongoing => pc \in {"tx_off", "ready"}
    /\ bus_state = "RX" <=> rx_sm.ongoing
    /\ bus_state = "TX" => pc \in TxWindow
    /\ ~dout_irq
    /\ dout_int <=> pc \in DoutUnused /\ ~rx_sm.ongoing
    /\ tmr_run <=> pc \in Clocked \/ rx_sm.ongoing
    /\ pc \in LoadedForStart /\ ~rx_sm.ongoing => tmr_cnt = "sample"

LEMMA InitListenInv == Init => ListenInv
BY InitTypeInv, InitRunning
   DEF Init, ListenInv, TxWindow, DoutUnused, Clocked, LoadedForStart

LEMMA MainKeepsListening ==
    ASSUME Arbitrated, ListenInv, TypeInv',
           \/ \E d \in Payloads : Transmit(d)
           \/ TransmitStep
           \/ Read \/ FlushRx
    PROVE  ListenInv'
<1> USE DEF ListenInv, TxWindow, DoutUnused, Clocked, LoadedForStart,
        Goto, At, mainVars, txVars, intVars, tmrVars, rxVars
<1>1. ASSUME NEW d \in Payloads, Transmit(d) PROVE ListenInv'
  BY <1>1 DEF Transmit, MayTransmit
<1>2. CASE Prepare
  BY <1>2 DEF Prepare
<1>3. CASE PrepareFails
  BY <1>3 DEF PrepareFails
<1>4. CASE MaskDout
  BY <1>4 DEF MaskDout
<1>5. CASE SetBusTx
  BY <1>5 DEF SetBusTx
<1>6. CASE ResetBit
  BY <1>6 DEF ResetBit
<1>7. CASE ResetByte
  BY <1>7 DEF ResetByte
<1>8. CASE SetCount
  BY <1>8 DEF SetCount
<1>9. CASE StartTimer
  BY <1>9 DEF StartTimer
<1>10. CASE Spin
  BY <1>10 DEF Spin
<1>11. CASE SetBusIdle
  BY <1>11 DEF SetBusIdle
<1>12. CASE StopTimer
  BY <1>12 DEF StopTimer
<1>13. CASE ReloadTimer
  BY <1>13 DEF ReloadTimer
<1>14. CASE FreeBuffer
  BY <1>14 DEF FreeBuffer
<1>15. CASE UnmaskDout
  BY <1>15 DEF UnmaskDout
<1>16. CASE DisableTx
  BY <1>16 DEF DisableTx
<1>17. CASE Read
  BY <1>17 DEF Read
<1>18. CASE FlushRx
  BY <1>18 DEF FlushRx
<1>19. QED
  BY <1>1, <1>2, <1>3, <1>4, <1>5, <1>6, <1>7, <1>8, <1>9, <1>10, <1>11,
     <1>12, <1>13, <1>14, <1>15, <1>16, <1>17, <1>18 DEF TransmitStep

LEMMA HandlersKeepListening ==
    ASSUME Arbitrated, ListenInv, TypeInv',
           TimerISR \/ EdgeStartsFrame \/ EdgeRefused
    PROVE  ListenInv'
<1> USE DEF ListenInv, TxWindow, DoutUnused, Clocked, LoadedForStart,
        TimerFires, TxTick, RxTick, FallingEdge, MayHearRemote,
        mainVars, txVars, intVars, tmrVars, rxVars
<1>1. CASE TxDone
  BY <1>1 DEF TxDone
<1>2. CASE TxCollate
  BY <1>2 DEF TxCollate
<1>3. CASE TxDrive
  <2>1. ~dout_irq'
    BY <1>3 DEF TxDrive
  <2>2. QED
    BY <1>3, <2>1 DEF TxDrive
<1>4. CASE RxEdge
  <2>1. rx_sm'.ongoing = rx_sm.ongoing
    BY <1>4, EdgeRunning DEF RxEdge, TypeInv
  <2>2. QED
    BY <1>4, <2>1 DEF RxEdge
<1>5. CASE RxSample
  <2>1. rx_sm'.ongoing = rx_sm.ongoing
    BY <1>5, SampleRunning DEF RxSample, TypeInv
  <2>2. QED
    BY <1>5, <2>1 DEF RxSample
<1>6. CASE RxFinish
  <2>1. ~rx_sm'.ongoing
    BY <1>6, SampleRunning DEF RxFinish, TypeInv
  <2>2. QED
    BY <1>6, <2>1 DEF RxFinish, RestartRxing
<1>7. CASE StrayTick
  BY <1>7 DEF StrayTick
<1>8. CASE EdgeStartsFrame
  BY <1>8, EdgeRunning DEF EdgeStartsFrame, TypeInv
<1>9. CASE EdgeRefused
  BY <1>9 DEF EdgeRefused, StartBitEdgeValid
<1>10. QED
  BY <1>1, <1>2, <1>3, <1>4, <1>5, <1>6, <1>7, <1>8, <1>9 DEF TimerISR

LEMMA NextListenInv ==
    ASSUME Arbitrated
    PROVE  ListenInv /\ [Next]_vars => ListenInv'
<1> SUFFICES ASSUME ListenInv, [Next]_vars PROVE ListenInv'
  OBVIOUS
<1>1. TypeInv'
  BY NextTypeInv DEF ListenInv
<1>2. CASE UNCHANGED vars
  BY <1>1, <1>2 DEF ListenInv, vars, mainVars, txVars, intVars, tmrVars,
     rxVars
<1>3. QED
  BY <1>1, <1>2, MainKeepsListening, HandlersKeepListening DEF Next

(* Between receptions and transmissions the node listens, with the edge    *)
(* interrupt enabled and the timer stopped and loaded.                     *)
THEOREM ListeningHolds ==
    ASSUME Arbitrated
    PROVE  Spec => []Listening
<1>1. ListenInv => Listening
  BY DEF ListenInv, Listening, StartBitEdgeValid, DoutUnused, Clocked,
     LoadedForStart
<1>2. QED
  BY <1>1, InitListenInv, NextListenInv, PTL DEF Spec

(* A reception keeps bus_state, its clock and the masked edge interrupt    *)
(* until it ends.                                                          *)
THEOREM ReceptionSafe ==
    ASSUME Arbitrated
    PROVE  Spec => []ReceptionUndisturbed
<1>1. ListenInv => ReceptionUndisturbed
  BY DEF ListenInv, ReceptionUndisturbed
<1>2. QED
  BY <1>1, InitListenInv, NextListenInv, PTL DEF Spec

------------------------------------------------------------------------------
(* What is sent.                                                           *)

Formatted(d) == [k \in DOMAIN d |-> format_byte_for_hbs_tx(d[k])]

(* Before the first half-bit, and after the last one.                      *)
Unsent == {"prepare", "mask", "set_tx", "rst_bit", "rst_byte", "set_cnt",
           "start"}

Sent == {"idle", "stop", "reload", "free", "unmask", "tx_off"}

Sending == pc = "spin" /\ bus_state = "TX"

(* The transmit indices say how much of data_to_tx is on the wire.         *)
IndicesAgree ==
    /\ tx_current_byte <= Len(data_to_tx) /\ tx_current_bit < HalfBits
    /\ tx_current_byte = Len(data_to_tx) => tx_current_bit = 0
    /\ Len(frames) = tx_current_byte
    /\ \A k \in 1 .. tx_current_byte : frames[k] = data_to_tx[k]
    /\ Len(partial) = tx_current_bit
    /\ \A i \in 1 .. tx_current_bit :
         partial[i] <=> i - 1 \in data_to_tx[tx_current_byte + 1]

SendInv ==
    /\ ListenInv
    /\ ~(pc \in {"ready", "prepare"}) => data_to_tx = Formatted(data)
    /\ pc \in {"rst_byte", "set_cnt", "start"} => tx_current_bit = 0
    /\ pc \in {"set_cnt", "start"} => tx_current_byte = 0
    /\ pc \in {"rst_bit", "rst_byte", "set_cnt", "start"} => bus_state = "TX"
    /\ pc \in Unsent => frames = << >> /\ partial = << >>
    /\ Sending => IndicesAgree
    /\ pc \in Sent \/ (pc = "spin" /\ ~Sending) =>
         frames = Formatted(data) /\ partial = << >>
    /\ pc = "ready" => partial = << >>
    /\ ret = "OK" => pc = "ready" /\ frames = Formatted(data)
    /\ partial = << >> => din
    /\ pc = "ready" /\ ret # "INTERNAL" => ~tx_state

LEMMA InitSendInv == Init => SendInv
BY InitListenInv DEF Init, SendInv, Unsent, Sent, Sending

(* One half-bit: the level driven is that of data_to_tx, and the indices   *)
(* still agree with what is on the wire.                                   *)
LEMMA DriveAgrees ==
    ASSUME SendInv, TypeInv', Sending, TxDrive
    PROVE  /\ IndicesAgree'
           /\ partial' = << >> => din'
<1> DEFINE frame == data_to_tx[tx_current_byte + 1]
           n == tx_current_bit
<1>1. /\ frames \in Seq(Frame) /\ data_to_tx \in Seq(Frame)
      /\ partial \in Seq(BOOLEAN)
      /\ tx_current_byte \in Nat /\ n \in Nat
      /\ Len(data_to_tx) \in Nat /\ HalfBits \in Nat
  <2>1. /\ frames \in Seq(Frame) /\ data_to_tx \in Seq(Frame)
        /\ partial \in Seq(BOOLEAN)
        /\ tx_current_byte \in Nat /\ n \in Nat
    BY DEF SendInv, ListenInv, TypeInv, TypeOK
  <2>2. HalfBits \in Nat
    BY DEF HalfBits
  <2>3. QED
    BY <2>1, <2>2, LenProperties
<1>2. /\ IndicesAgree
      /\ tx_current_byte < Len(data_to_tx)
  BY <1>1 DEF SendInv, TxDrive, IndicesAgree, tx_len
<1>3. frame \in Frame /\ HalfBits - 1 \in frame
  <2>1. data_to_tx = Formatted(data) /\ data \in Seq(Byte)
    BY DEF SendInv, Sending, ListenInv, TypeInv, TypeOK
  <2>2. tx_current_byte + 1 \in 1 .. Len(data_to_tx)
    BY <1>1, <1>2
  <2>3. /\ tx_current_byte + 1 \in DOMAIN data
        /\ data[tx_current_byte + 1] \in Byte
    BY <2>1, <2>2, FormatAll, LenProperties, ElementOfSeq DEF Formatted
  <2>4. frame = format_byte_for_hbs_tx(data[tx_current_byte + 1])
    BY <2>1, <2>3 DEF Formatted
  <2>5. QED
    BY <2>3, <2>4, FormatType, FormatEndsHigh
<1>4. LevelsToTx = {n \in frame}
  BY <1>2 DEF LevelsToTx, IndicesAgree, tx_len
<1>5. PICK level \in BOOLEAN :
         /\ level <=> n \in frame
         /\ din' = level
         /\ PutOnWire(level)
  BY <1>4 DEF TxDrive
<1> DEFINE wire == Append(partial, level)
<1>6. /\ wire \in Seq(BOOLEAN)
      /\ Len(partial) = n /\ Len(wire) = n + 1
      /\ \A i \in 1 .. n + 1 : wire[i] <=> i - 1 \in frame
  <2>1. /\ Len(partial) = n
        /\ \A i \in 1 .. n : partial[i] <=> i - 1 \in frame
    BY <1>2 DEF IndicesAgree
  <2>2. /\ wire \in Seq(BOOLEAN) /\ Len(wire) = n + 1
        /\ \A i \in 1 .. n : wire[i] = partial[i]
        /\ wire[n + 1] = level
    BY <1>1, <2>1, AppendProperties
  <2> HIDE DEF wire, frame, n
  <2>3. ASSUME NEW i \in 1 .. n + 1 PROVE wire[i] <=> i - 1 \in frame
    <3>1. CASE i = n + 1
      <4>1. i - 1 = n
        BY <1>1, <3>1 DEF n
      <4>2. QED
        BY <1>5, <2>2, <3>1, <4>1 DEF n, frame
    <3>2. CASE i # n + 1
      <4>1. i \in 1 .. n
        BY <1>1, <3>2 DEF n
      <4>2. QED
        BY <2>1, <2>2, <4>1
    <3>3. QED
      BY <3>1, <3>2
  <2>4. QED
    BY <2>1, <2>2, <2>3
<1>7. CASE n + 1 = HalfBits
  <2>1. /\ tx_current_bit' = 0 /\ tx_current_byte' = tx_current_byte + 1
        /\ data_to_tx' = data_to_tx
    BY <1>7 DEF TxDrive, AdvanceBit
  <2>2. /\ frames' = Append(frames, {p \in 0 .. HalfBits - 1 : wire[p + 1]})
        /\ partial' = << >>
    BY <1>5, <1>6, <1>7 DEF PutOnWire
  <2>3. {p \in 0 .. HalfBits - 1 : wire[p + 1]} = frame
    <3> HIDE DEF wire, frame, n
    <3>1. ASSUME NEW p \in 0 .. HalfBits - 1 PROVE wire[p + 1] <=> p \in frame
      <4>1. p + 1 \in 1 .. n + 1 /\ p + 1 - 1 = p
        BY <1>1, <1>7
      <4>2. QED
        BY <1>6, <4>1
    <3>2. frame \subseteq 0 .. HalfBits - 1
      BY <1>3 DEF Frame
    <3>3. QED
      BY <3>1, <3>2
  <2>4. frames' = Append(frames, frame)
    BY <2>2, <2>3
  <2>5. /\ Len(frames') = tx_current_byte + 1
        /\ \A k \in 1 .. tx_current_byte : frames'[k] = data_to_tx[k]
        /\ frames'[tx_current_byte + 1] = frame
    <3>1. /\ Len(frames) = tx_current_byte
          /\ \A k \in 1 .. tx_current_byte : frames[k] = data_to_tx[k]
      BY <1>2 DEF IndicesAgree
    <3> HIDE DEF frame
    <3>2. QED
      BY <1>1, <1>3, <2>4, <3>1, AppendProperties
  <2>6. \A k \in 1 .. tx_current_byte + 1 : frames'[k] = data_to_tx[k]
    BY <1>1, <2>5
  <2>7. din'
    <3>1. n \in frame
      BY <1>1, <1>3, <1>7
    <3>2. QED
      BY <1>5, <3>1
  <2> HIDE DEF wire, frame
  <2>8. /\ Len(partial') = tx_current_bit'
        /\ \A i \in 1 .. tx_current_bit' :
             partial'[i] <=> i - 1 \in data_to_tx'[tx_current_byte' + 1]
    BY <2>1, <2>2
  <2>9. tx_current_byte' <= Len(data_to_tx') /\ tx_current_bit' < HalfBits
    BY <1>1, <1>2, <2>1 DEF HalfBits
  <2>10. QED
    BY <2>1, <2>5, <2>6, <2>7, <2>8, <2>9 DEF IndicesAgree
<1>8. CASE n + 1 # HalfBits
  <2>1. /\ tx_current_bit' = n + 1 /\ tx_current_byte' = tx_current_byte
        /\ data_to_tx' = data_to_tx
    BY <1>8 DEF TxDrive, AdvanceBit
  <2>2. frames' = frames /\ partial' = wire
    BY <1>5, <1>6, <1>8 DEF PutOnWire
  <2>3. wire # << >>
    BY <1>1, AppendProperties
  <2>4. n + 1 < HalfBits
    BY <1>1, <1>2, <1>8 DEF IndicesAgree
  <2>5. /\ Len(frames') = tx_current_byte'
        /\ \A k \in 1 .. tx_current_byte' : frames'[k] = data_to_tx'[k]
    BY <1>2, <2>1, <2>2 DEF IndicesAgree
  <2> HIDE DEF wire
  <2>6. /\ Len(partial') = tx_current_bit'
        /\ \A i \in 1 .. tx_current_bit' :
             partial'[i] <=> i - 1 \in data_to_tx'[tx_current_byte' + 1]
    BY <1>6, <2>1, <2>2
  <2>7. tx_current_byte' <= Len(data_to_tx') /\ tx_current_byte' # Len(data_to_tx')
    BY <1>1, <1>2, <2>1
  <2>8. QED
    BY <2>1, <2>2, <2>3, <2>4, <2>5, <2>6, <2>7 DEF IndicesAgree
<1>9. QED
  BY <1>7, <1>8

(* When everything is on the wire, it is the frames of the data.           *)
LEMMA AllSent ==
    ASSUME SendInv, Sending, tx_current_byte = tx_len
    PROVE  frames = Formatted(data) /\ partial = << >>
<1>1. /\ frames \in Seq(Frame) /\ data_to_tx \in Seq(Frame)
      /\ partial \in Seq(BOOLEAN)
  BY DEF SendInv, ListenInv, TypeInv, TypeOK
<1>2. /\ IndicesAgree
      /\ data_to_tx = Formatted(data)
  BY DEF SendInv, Sending
<1>3. /\ Len(frames) = Len(data_to_tx) /\ Len(partial) = 0
      /\ \A k \in 1 .. Len(frames) : frames[k] = data_to_tx[k]
  BY <1>2 DEF IndicesAgree, tx_len
<1>4. frames = data_to_tx
  BY <1>1, <1>3, LenProperties
<1>5. partial = << >>
  BY <1>1, <1>3, EmptySeq
<1>6. QED
  BY <1>2, <1>4, <1>5

LEMMA MainKeepsSending ==
    ASSUME SendInv, ListenInv',
           \/ \E d \in Payloads : Transmit(d)
           \/ TransmitStep
           \/ Read \/ FlushRx
    PROVE  SendInv'
<1> USE DEF SendInv, Sending, Unsent, Sent, Goto, At, mainVars, txVars,
        pinVars, history
<1>1. ASSUME NEW d \in Payloads, Transmit(d) PROVE SendInv'
  BY <1>1 DEF Transmit
<1>2. CASE Prepare
  BY <1>2 DEF Prepare, Formatted
<1>3. CASE PrepareFails
  BY <1>3 DEF PrepareFails
<1>4. CASE MaskDout
  BY <1>4 DEF MaskDout
<1>5. CASE SetBusTx
  BY <1>5 DEF SetBusTx
<1>6. CASE ResetBit
  BY <1>6 DEF ResetBit
<1>7. CASE ResetByte
  BY <1>7 DEF ResetByte
<1>8. CASE SetCount
  BY <1>8 DEF SetCount
<1>9. CASE StartTimer
  <2>1. IndicesAgree'
    <3>1. /\ tx_current_byte' = 0 /\ tx_current_bit' = 0
          /\ frames' = << >> /\ partial' = << >>
          /\ data_to_tx' = data_to_tx
      BY <1>9 DEF StartTimer
    <3>2. Len(data_to_tx) \in Nat
      BY LenProperties DEF ListenInv, TypeInv, TypeOK
    <3>3. QED
      BY <3>1, <3>2, EmptySeq DEF IndicesAgree, HalfBits
  <2>2. QED
    BY <1>9, <2>1 DEF StartTimer
<1>10. CASE Spin
  BY <1>10 DEF Spin
<1>11. CASE SetBusIdle
  BY <1>11 DEF SetBusIdle
<1>12. CASE StopTimer
  BY <1>12 DEF StopTimer
<1>13. CASE ReloadTimer
  BY <1>13 DEF ReloadTimer
<1>14. CASE FreeBuffer
  BY <1>14 DEF FreeBuffer
<1>15. CASE UnmaskDout
  BY <1>15 DEF UnmaskDout
<1>16. CASE DisableTx
  BY <1>16 DEF DisableTx
<1>17. CASE Read
  BY <1>17 DEF Read
<1>18. CASE FlushRx
  BY <1>18 DEF FlushRx
<1>19. QED
  BY <1>1, <1>2, <1>3, <1>4, <1>5, <1>6, <1>7, <1>8, <1>9, <1>10, <1>11,
     <1>12, <1>13, <1>14, <1>15, <1>16, <1>17, <1>18 DEF TransmitStep

LEMMA HandlersKeepSending ==
    ASSUME SendInv, ListenInv', TimerISR \/ EdgeStartsFrame \/ EdgeRefused,
           Arbitrated
    PROVE  SendInv'
<1> USE DEF SendInv, Sending, Unsent, Sent, TimerFires, TxTick, RxTick,
        mainVars, txVars, pinVars, history
<1>0. /\ bus_state = "RX" => pc \in {"tx_off", "ready"}
      /\ ~dout_irq
      /\ bus_state = "TX" => pc \in TxWindow
      /\ tmr_run /\ pc \notin {"tx_off", "ready"} => pc \in Clocked
  BY DEF ListenInv
<1>1. CASE TxDone
  <2>1. Sending
    BY <1>0, <1>1 DEF TxDone, TxWindow, Clocked
  <2>2. frames = Formatted(data) /\ partial = << >>
    BY <1>1, <2>1, AllSent DEF TxDone
  <2>3. QED
    BY <1>1, <2>1, <2>2 DEF TxDone
<1>2. CASE TxCollate
  <2>1. IndicesAgree => IndicesAgree'
    BY <1>2 DEF TxCollate, IndicesAgree
  <2>2. QED
    BY <1>2, <2>1 DEF TxCollate
<1>3. CASE TxDrive
  <2>1. Sending
    BY <1>0, <1>3 DEF TxDrive, TxWindow, Clocked
  <2>2. IndicesAgree' /\ (partial' = << >> => din')
    BY <1>3, <2>1, DriveAgrees DEF ListenInv
  <2>3. QED
    BY <1>3, <2>1, <2>2 DEF TxDrive
<1>4. CASE RxEdge
  BY <1>0, <1>4 DEF RxEdge
<1>5. CASE RxSample
  BY <1>0, <1>5 DEF RxSample
<1>6. CASE RxFinish
  BY <1>0, <1>6 DEF RxFinish
<1>7. CASE StrayTick
  BY <1>7 DEF StrayTick
<1>8. CASE EdgeStartsFrame
  <2>1. pc \in {"tx_off", "ready"}
    BY <1>0, <1>8 DEF EdgeStartsFrame, FallingEdge, MayHearRemote
  <2>2. QED
    BY <1>8, <2>1 DEF EdgeStartsFrame
<1>9. CASE EdgeRefused
  BY <1>0, <1>9 DEF EdgeRefused, FallingEdge, MayHearRemote,
     StartBitEdgeValid, ListenInv
<1>10. QED
  BY <1>1, <1>2, <1>3, <1>4, <1>5, <1>6, <1>7, <1>8, <1>9 DEF TimerISR

LEMMA NextSendInv ==
    ASSUME Arbitrated
    PROVE  SendInv /\ [Next]_vars => SendInv'
<1> SUFFICES ASSUME SendInv, [Next]_vars PROVE SendInv'
  OBVIOUS
<1>1. ListenInv'
  BY NextListenInv DEF SendInv
<1>2. CASE UNCHANGED vars
  <2>1. IndicesAgree => IndicesAgree'
    BY <1>2 DEF vars, txVars, history, IndicesAgree
  <2>2. QED
    BY <1>1, <1>2, <2>1 DEF SendInv, Sending, Unsent, Sent, vars, mainVars,
       txVars, pinVars, history
<1>3. QED
  BY <1>1, <1>2, MainKeepsSending, HandlersKeepSending DEF Next

(* A Transmit that returns OK has put the frames of its data on DIN, each  *)
(* once and in order, and nothing else.                                    *)
THEOREM SendsExactly ==
    ASSUME Arbitrated
    PROVE  Spec => []SentExactly
<1>1. SendInv => SentExactly
  BY DEF SendInv, SentExactly, Formatted
<1>2. QED
  BY <1>1, InitSendInv, NextSendInv, PTL DEF Spec

(* Transmit leaves DIN at the idle level and, unless malloc failed, the    *)
(* transmitter disabled.                                                   *)
THEOREM ReleasesBus ==
    ASSUME Arbitrated
    PROVE  Spec => []BusReleased
<1>1. SendInv => BusReleased
  BY DEF SendInv, BusReleased
<1>2. QED
  BY <1>1, InitSendInv, NextSendInv, PTL DEF Spec

------------------------------------------------------------------------------
(* Refinement.                                                             *)

LEMMA InitRefines == Init => Port!Init
BY InitRunning DEF Init, Port!Init

LEMMA MainRefines ==
    ASSUME Arbitrated, SendInv,
           \/ \E d \in Payloads : Transmit(d)
           \/ TransmitStep
           \/ Read \/ FlushRx
    PROVE  Port!Next \/ UNCHANGED Port!vars
<1> USE DEF Goto, At, Port!vars, mainVars, txVars, rxVars, history
<1>0. rx_sm.ongoing => pc \in {"tx_off", "ready"}
  BY DEF SendInv, ListenInv
<1>1. ASSUME NEW d \in Payloads, Transmit(d) PROVE Port!BeginSend
  <2>1. ~rx_sm.ongoing
    BY <1>1 DEF Transmit, MayTransmit
  <2>2. d \in Seq(Byte) /\ d # << >>
    BY DEF Payloads
  <2>3. QED
    BY <1>1, <2>1, <2>2 DEF Transmit, Port!BeginSend, Port!Byte, Byte
<1>2. CASE PrepareFails
  <2>1. frames = << >> /\ ~rx_sm.ongoing
    BY <1>0, <1>2 DEF PrepareFails, SendInv, Unsent
  <2>2. Port!EndSend
    BY <1>2, <2>1, EmptySeq DEF PrepareFails, Port!EndSend
  <2>3. QED
    BY <2>2 DEF Port!Next
<1>3. CASE UnmaskDout
  <2>1. frames = Formatted(data) /\ ~rx_sm.ongoing
    BY <1>0, <1>3 DEF UnmaskDout, SendInv, Sent
  <2>2. Len(frames) = Len(data)
    BY <2>1, FormatAll DEF Formatted, SendInv, ListenInv, TypeInv, TypeOK
  <2>3. Port!EndSend
    BY <1>3, <2>1, <2>2 DEF UnmaskDout, Port!EndSend
  <2>4. QED
    BY <2>3 DEF Port!Next
<1>4. CASE Read
  <2>1. Port!Take
    BY <1>4 DEF Read, Port!Take
  <2>2. QED
    BY <2>1 DEF Port!Next
<1>5. CASE FlushRx
  <2>1. Port!Take
    BY <1>5 DEF FlushRx, Port!Take
  <2>2. QED
    BY <2>1 DEF Port!Next
<1>6. CASE Prepare
  BY <1>6 DEF Prepare
<1>7. CASE MaskDout
  BY <1>7 DEF MaskDout
<1>8. CASE SetBusTx \/ ResetBit \/ ResetByte \/ SetCount \/ StartTimer
  BY <1>8 DEF SetBusTx, ResetBit, ResetByte, SetCount, StartTimer
<1>9. CASE Spin \/ SetBusIdle \/ StopTimer \/ ReloadTimer
  BY <1>9 DEF Spin, SetBusIdle, StopTimer, ReloadTimer
<1>10. CASE FreeBuffer \/ DisableTx
  BY <1>10 DEF FreeBuffer, DisableTx
<1>11. QED
  BY <1>1, <1>2, <1>3, <1>4, <1>5, <1>6, <1>7, <1>8, <1>9, <1>10
     DEF TransmitStep, Port!Next

(* The port's frames are the driver's.                                     *)
LEMMA PortFormat ==
    ASSUME NEW value
    PROVE  Port!format_byte_for_hbs_tx(value) = format_byte_for_hbs_tx(value)
<1>1. Port!HalfBits = HalfBits
  BY DEF Port!HalfBits, HalfBits
<1>2. \A v : Port!SpreadBits(v) = SpreadBits(v)
  BY DEF Port!SpreadBits, SpreadBits
<1>3. \A v : Port!stuff_byte(v) = stuff_byte(v)
  BY <1>1, <1>2 DEF Port!stuff_byte, stuff_byte
<1>4. Port!calc_even_parity(value) = calc_even_parity(value)
  BY DEF Port!calc_even_parity, calc_even_parity, Port!Cardinality, Cardinality
<1>5. QED
  BY <1>3, <1>4 DEF Port!format_byte_for_hbs_tx, format_byte_for_hbs_tx

(* The half-bit that completes a frame is the port's SendFrame.            *)
LEMMA DriveRefines ==
    ASSUME SendInv, SendInv', Sending, TxDrive
    PROVE  Port!SendFrame \/ UNCHANGED frames
<1>1. PICK level \in LevelsToTx : PutOnWire(level)
  BY DEF TxDrive
<1>2. CASE Len(partial) + 1 = HalfBits
  <2> DEFINE frame == {p \in 0 .. HalfBits - 1 : Append(partial, level)[p + 1]}
             n == tx_current_byte
  <2>1. /\ IndicesAgree /\ IndicesAgree'
        /\ data_to_tx = Formatted(data) /\ data \in Seq(Byte)
        /\ frames \in Seq(Frame) /\ n \in Nat
        /\ n # tx_len
        /\ data_to_tx' = data_to_tx
    BY DEF SendInv, Sending, TxDrive, TxTick, mainVars, ListenInv, TypeInv,
       TypeOK
  <2>2. Len(data_to_tx) = Len(data) /\ Len(data) \in Nat
    BY <2>1, FormatAll, LenProperties DEF Formatted
  <2>3. n < Len(data) /\ Len(frames) = n /\ n + 1 \in 1 .. Len(data)
    BY <2>1, <2>2 DEF IndicesAgree, tx_len
  <2>4. data_to_tx[n + 1] = format_byte_for_hbs_tx(data[n + 1])
    BY <2>1, <2>3, LenProperties DEF Formatted
  <2>5. frames' = Append(frames, frame)
    BY <1>1, <1>2 DEF PutOnWire
  <2>6. frame \in Frame
    BY DEF Frame
  <2> HIDE DEF frame
  <2>7. Len(frames') = n + 1 /\ frames'[n + 1] = frame
    BY <2>1, <2>3, <2>5, <2>6, AppendProperties
  <2>8. frames'[n + 1] = data_to_tx[n + 1]
    <3>1. tx_current_byte' = n + 1
      BY <2>1, <2>7 DEF IndicesAgree
    <3>2. QED
      BY <2>1, <3>1 DEF IndicesAgree
  <2>9. frames' = Append(frames, format_byte_for_hbs_tx(data[Len(frames) + 1]))
    BY <2>3, <2>4, <2>5, <2>7, <2>8
  <2>10. /\ pc = "spin" /\ UNCHANGED <<pc, data, rx_sm, rx_queue>>
    BY DEF Sending, TxDrive, mainVars, rxVars
  <2>11. QED
    BY <2>3, <2>9, <2>10, PortFormat DEF Port!SendFrame
<1>3. CASE Len(partial) + 1 # HalfBits
  BY <1>1, <1>3 DEF PutOnWire
<1>4. QED
  BY <1>2, <1>3

LEMMA HandlersRefine ==
    ASSUME SendInv, SendInv', Arbitrated,
           TimerISR \/ EdgeStartsFrame \/ EdgeRefused
    PROVE  Port!Next \/ UNCHANGED Port!vars
<1> USE DEF Port!vars, TimerFires, TxTick, RxTick, mainVars, rxVars, history
<1>0. /\ rx_sm.ongoing => pc \in {"tx_off", "ready"}
      /\ bus_state = "RX" <=> rx_sm.ongoing
      /\ bus_state = "TX" => pc \in TxWindow
      /\ ~dout_irq
      /\ tmr_run /\ pc \notin {"tx_off", "ready"} => pc \in Clocked
      /\ Running(rx_sm)
  BY DEF SendInv, ListenInv, TypeInv
<1>1. CASE TxDone
  BY <1>1 DEF TxDone
<1>2. CASE TxCollate
  BY <1>2 DEF TxCollate
<1>3. CASE TxDrive
  <2>1. Sending
    BY <1>0, <1>3 DEF TxDrive, TxWindow, Clocked, Sending
  <2>2. Port!SendFrame \/ UNCHANGED frames
    BY <1>3, <2>1, DriveRefines
  <2>3. UNCHANGED <<pc, data, rx_sm, rx_queue>>
    BY <1>3 DEF TxDrive
  <2>4. QED
    BY <2>2, <2>3 DEF Port!Next
<1>4. CASE RxEdge
  <2>1. rx_sm'.ongoing = rx_sm.ongoing
    BY <1>0, <1>4, EdgeRunning DEF RxEdge
  <2>2. QED
    BY <1>4, <2>1 DEF RxEdge
<1>5. CASE RxSample
  <2>1. rx_sm'.ongoing = rx_sm.ongoing
    BY <1>0, <1>5, SampleRunning DEF RxSample
  <2>2. QED
    BY <1>5, <2>1 DEF RxSample
<1>6. CASE RxFinish
  <2>1. /\ pc \in {"tx_off", "ready"} /\ rx_sm.ongoing
        /\ UNCHANGED <<pc, data, frames>>
    BY <1>0, <1>6 DEF RxFinish
  <2>2. PICK bit \in BOOLEAN :
           LET result == FrameResult(rx_sm, bit) IN
           /\ rx_sm' = EventSample(rx_sm, bit)
           /\ IF result.error_flags = {}
              THEN DataReceived(result.data)
              ELSE /\ logged' = FrameErrorLog(result.error_flags)
                   /\ UNCHANGED rx_queue
    BY <1>6 DEF RxFinish
  <2> DEFINE byte == FrameResult(rx_sm, bit).data
  <2>3. byte \in Byte
    BY <1>0, ResultTyped DEF Byte
  <2>4. ~rx_sm'.ongoing
    BY <1>0, <1>6, <2>2, SampleRunning DEF RxFinish
  <2> HIDE DEF byte
  <2>5. \/ UNCHANGED rx_queue
        \/ Len(rx_queue) < RxLen /\ rx_queue' = Append(rx_queue, byte)
    BY <2>2 DEF DataReceived, byte
  <2>6. Port!EndReceive
    BY <2>1, <2>3, <2>4, <2>5 DEF Port!EndReceive, Port!Byte, Byte
  <2>7. QED
    BY <2>6 DEF Port!Next
<1>7. CASE StrayTick
  BY <1>7 DEF StrayTick
<1>8. CASE EdgeStartsFrame
  <2>1. pc \in {"tx_off", "ready"} /\ ~rx_sm.ongoing /\ rx_sm'.ongoing
    BY <1>0, <1>8, EdgeRunning
       DEF EdgeStartsFrame, FallingEdge, MayHearRemote, StartBitEdgeValid
  <2>2. Port!BeginReceive
    BY <1>8, <2>1 DEF EdgeStartsFrame, Port!BeginReceive
  <2>3. QED
    BY <2>2 DEF Port!Next
<1>9. CASE EdgeRefused
  BY <1>9 DEF EdgeRefused
<1>10. QED
  BY <1>1, <1>2, <1>3, <1>4, <1>5, <1>6, <1>7, <1>8, <1>9 DEF TimerISR

LEMMA StepRefines ==
    ASSUME Arbitrated
    PROVE  SendInv /\ SendInv' /\ [Next]_vars => [Port!Next]_(Port!vars)
<1> SUFFICES ASSUME SendInv, SendInv', [Next]_vars
             PROVE  Port!Next \/ UNCHANGED Port!vars
  OBVIOUS
<1>1. CASE UNCHANGED vars
  BY <1>1 DEF vars, mainVars, rxVars, history, Port!vars
<1>2. QED
  BY <1>1, MainRefines, HandlersRefine DEF Next

(* On a bus that is kept half-duplex the driver implements HalfDuplexPort: *)
(* for any frame width, buffer length and message length.                  *)
THEOREM Implements ==
    ASSUME Arbitrated
    PROVE  Spec => PortSpec
<1>1. Init => Port!Init
  BY InitRefines
<1>2. SendInv /\ SendInv' /\ [Next]_vars => [Port!Next]_(Port!vars)
  BY StepRefines
<1>3. QED
  BY <1>1, <1>2, InitSendInv, NextSendInv, PTL DEF Spec, PortSpec, Port!Spec

==============================================================================
