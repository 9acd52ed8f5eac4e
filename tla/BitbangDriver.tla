---------------------------- MODULE BitbangDriver ----------------------------
(***************************************************************************)
(* max22x88_bitbang.c under max22x88.c: one node's driver, initialised.    *)
(*                                                                         *)
(* Three actors share the context: the main thread, which calls the API    *)
(* and busy-waits inside Transmit; the timer interrupt, which drives or    *)
(* samples one half-bit; and the falling-edge interrupt of DOUT, which     *)
(* starts a reception.  The handlers run at the same priority, so neither  *)
(* preempts the other, and both preempt the main thread between any two    *)
(* of its statements.  A handler is therefore one action, and Transmit is  *)
(* a step per statement that a handler can tell apart from its neighbours. *)
(*                                                                         *)
(* The rest of the bus is the environment: it may start a frame whenever   *)
(* the interrupt is enabled and every sample may have either level.  With  *)
(* Arbitrated the layer above keeps the bus half-duplex: from the call of  *)
(* Transmit until it enables the edge interrupt again nobody sends, and    *)
(* Transmit is not called while a frame is being received.                 *)
(***************************************************************************)
EXTENDS RxStateMachine, Sequences

CONSTANTS
    MaxLen,          \* bytes in the longest transmission
    RxLen,           \* rx_buffer_len
    Arbitrated,      \* see above
    AllocMayFail,    \* malloc may return NULL
    StaleBytes,      \* what the never-initialised tx_current_byte may hold
    StaleBits,       \* what the never-initialised tx_current_bit may hold
    MaxTicks         \* bound: timer ticks between two statements of Transmit

ASSUME LenAssumption == MaxLen \in Nat \ {0} /\ RxLen \in Nat \ {0}
ASSUME ModeAssumption == Arbitrated \in BOOLEAN /\ AllocMayFail \in BOOLEAN
ASSUME StaleAssumption ==
    StaleBytes \subseteq Nat /\ StaleBits \subseteq Nat /\ MaxTicks \in Nat

VARIABLES
    pc,          \* where the main thread is in Transmit; "ready" outside it
    data,        \* the argument of the last Transmit
    ret,         \* what the last Transmit returned
    bus_state, rx_sm, data_to_tx, tx_current_byte, tx_current_bit,
    perform_bit_collation,
    buf_live,    \* data_to_tx points to allocated memory
    tx_state,    \* the transmitter is enabled (driver->tx_state, pin RST)
    din,         \* the level of pin DIN
    dout_int,    \* the falling-edge interrupt of DOUT is enabled
    dout_irq,    \* it is pending: the next thing to run is its handler
    tmr_run,     \* the timer counts
    ticks,       \* its ticks since the main thread's last statement
    tmr_cnt,     \* its counter: "sample" when loaded with
                 \* cnt_for_start_bit_sample, "half_bit" with
                 \* half_bit_initial_cnt, "counting" once it has ticked
    rx_queue,    \* the received bytes (Fifo refines this queue)
    logged,      \* the log codes the last handler counted
    frames,      \* history: the whole frames this Transmit put on DIN
    partial      \* history: the levels of the frame it is putting there

mainVars == <<pc, data, ret>>
txVars   == <<data_to_tx, tx_current_byte, tx_current_bit,
              perform_bit_collation, buf_live>>
pinVars  == <<tx_state, din>>
intVars  == <<dout_int, dout_irq>>
tmrVars  == <<tmr_run, tmr_cnt>>
rxVars   == <<rx_sm, rx_queue>>
history  == <<frames, partial>>

vars == <<mainVars, bus_state, txVars, pinVars, intVars, tmrVars, rxVars,
          logged, ticks, history>>

(* max22x88_bus_state_e; WAIT is never assigned.                           *)
BusStates == {"IDLE", "RX", "TX", "UNKNOWN"}

LogCodes == {"FRAME_VALID", "FRAME_BAD", "FRAME_BAD_START",
             "FRAME_BAD_OFFDUTY", "FRAME_BAD_PARITY", "FRAME_BAD_STOP",
             "RX_OVF", "INTERNAL_ERROR"}

Payloads == UNION {[1 .. n -> Byte] : n \in 1 .. MaxLen}

tx_len == Len(data_to_tx)

(* The state adi_max22x88_InitBitbang leaves.  max22x88_bitbang_init_ctx   *)
(* does not assign the transmit indices.                                   *)
Init ==
    /\ pc = "ready" /\ data = << >> /\ ret = "none"
    /\ bus_state = "UNKNOWN"
    /\ data_to_tx = << >> /\ buf_live = FALSE
    /\ tx_current_byte \in StaleBytes /\ tx_current_bit \in StaleBits
    /\ perform_bit_collation = FALSE
    /\ tx_state = FALSE /\ din = TRUE
    /\ dout_int = TRUE /\ dout_irq = FALSE
    /\ tmr_run = FALSE /\ tmr_cnt = "sample" /\ ticks = 0
    /\ rx_sm = sm_Init /\ rx_queue = << >>
    /\ logged = {}
    /\ frames = << >> /\ partial = << >>

------------------------------------------------------------------------------
(* The main thread: Transmit, Write and max22x88_write_bitbang.            *)

At(l) == pc = l /\ ~dout_irq

Goto(from, to) == At(from) /\ pc' = to /\ ticks' = 0

(* The layer above may call Transmit now.                                  *)
MayTransmit == Arbitrated => ~rx_sm.ongoing

Transmit(d) ==
    /\ Goto("ready", "prepare") /\ MayTransmit
    /\ data' = d /\ ret' = "none"
    /\ tx_state' = TRUE
    /\ frames' = << >> /\ partial' = << >>
    /\ UNCHANGED <<bus_state, txVars, din, intVars, tmrVars, rxVars, logged>>

(* malloc and the loop that formats the bytes; no handler looks at the     *)
(* buffer or at tx_len before bus_state says TX.                           *)
Prepare ==
    /\ Goto("prepare", "mask")
    /\ data_to_tx' = [k \in DOMAIN data |-> format_byte_for_hbs_tx(data[k])]
    /\ buf_live' = TRUE
    /\ UNCHANGED <<data, ret, bus_state, tx_current_byte, tx_current_bit,
                   perform_bit_collation, pinVars, intVars, tmrVars, rxVars,
                   logged, history>>

(* The early returns of max22x88_write_bitbang and of Transmit.            *)
PrepareFails ==
    /\ AllocMayFail
    /\ Goto("prepare", "ready") /\ ret' = "INTERNAL"
    /\ data_to_tx' = << >>
    /\ UNCHANGED <<data, bus_state, tx_current_byte, tx_current_bit,
                   perform_bit_collation, buf_live, pinVars, intVars, tmrVars,
                   rxVars, logged, history>>

(* Mutant of MaskDout: the edge interrupt stays enabled.                   *)
MaskDoutForgotten ==
    /\ Goto("mask", "set_tx")
    /\ UNCHANGED <<data, ret, bus_state, txVars, pinVars, intVars, tmrVars,
                   rxVars, logged, history>>

MaskDout ==
    /\ Goto("mask", "set_tx")
    /\ dout_int' = FALSE
    /\ UNCHANGED <<data, ret, bus_state, txVars, pinVars, dout_irq, tmrVars,
                   rxVars, logged, history>>

(* start_transmission, statement by statement.                             *)
SetBusTx ==
    /\ Goto("set_tx", "rst_bit")
    /\ bus_state' = "TX"
    /\ UNCHANGED <<data, ret, txVars, pinVars, intVars, tmrVars, rxVars,
                   logged, history>>

ResetBit ==
    /\ Goto("rst_bit", "rst_byte")
    /\ tx_current_bit' = 0
    /\ UNCHANGED <<data, ret, bus_state, data_to_tx, tx_current_byte,
                   perform_bit_collation, buf_live, pinVars, intVars, tmrVars,
                   rxVars, logged, history>>

(* Mutant of ResetByte: the index of the last transmission is kept.        *)
ResetByteForgotten ==
    /\ Goto("rst_byte", "set_cnt")
    /\ UNCHANGED <<data, ret, bus_state, txVars, pinVars, intVars, tmrVars,
                   rxVars, logged, history>>

ResetByte ==
    /\ Goto("rst_byte", "set_cnt")
    /\ tx_current_byte' = 0
    /\ UNCHANGED <<data, ret, bus_state, data_to_tx, tx_current_bit,
                   perform_bit_collation, buf_live, pinVars, intVars, tmrVars,
                   rxVars, logged, history>>

SetCount ==
    /\ Goto("set_cnt", "start")
    /\ tmr_cnt' = "half_bit"
    /\ UNCHANGED <<data, ret, bus_state, txVars, pinVars, intVars, tmr_run,
                   rxVars, logged, history>>

StartTimer ==
    /\ Goto("start", "spin")
    /\ tmr_run' = TRUE
    /\ UNCHANGED <<data, ret, bus_state, txVars, pinVars, intVars, tmr_cnt,
                   rxVars, logged, history>>

(* Mutant of Spin: nothing is waited for and the timer is left running.    *)
SpinForgotten ==
    /\ Goto("spin", "free")
    /\ UNCHANGED <<data, ret, bus_state, txVars, pinVars, intVars, tmrVars,
                   rxVars, logged, history>>

(* The busy wait ends.                                                     *)
Spin ==
    /\ Goto("spin", "idle") /\ bus_state # "TX"
    /\ UNCHANGED <<data, ret, bus_state, txVars, pinVars, intVars, tmrVars,
                   rxVars, logged, history>>

(* stop_hbs_timing, statement by statement.                                *)
SetBusIdle ==
    /\ Goto("idle", "stop")
    /\ bus_state' = "IDLE"
    /\ UNCHANGED <<data, ret, txVars, pinVars, intVars, tmrVars, rxVars,
                   logged, history>>

StopTimer ==
    /\ Goto("stop", "reload")
    /\ tmr_run' = FALSE
    /\ UNCHANGED <<data, ret, bus_state, txVars, pinVars, intVars, tmr_cnt,
                   rxVars, logged, history>>

(* Mutant of ReloadTimer: the count stays where it was stopped.            *)
ReloadTimerForgotten ==
    /\ Goto("reload", "free")
    /\ UNCHANGED <<data, ret, bus_state, txVars, pinVars, intVars, tmrVars,
                   rxVars, logged, history>>

ReloadTimer ==
    /\ Goto("reload", "free")
    /\ tmr_cnt' = "sample"
    /\ UNCHANGED <<data, ret, bus_state, txVars, pinVars, intVars, tmr_run,
                   rxVars, logged, history>>

FreeBuffer ==
    /\ Goto("free", "unmask")
    /\ buf_live' = FALSE
    /\ UNCHANGED <<data, ret, bus_state, data_to_tx, tx_current_byte,
                   tx_current_bit, perform_bit_collation, pinVars, intVars,
                   tmrVars, rxVars, logged, history>>

(* Mutant of UnmaskDout: the edge interrupt stays disabled.                *)
UnmaskDoutForgotten ==
    /\ Goto("unmask", "tx_off")
    /\ UNCHANGED <<data, ret, bus_state, txVars, pinVars, intVars, tmrVars,
                   rxVars, logged, history>>

UnmaskDout ==
    /\ Goto("unmask", "tx_off")
    /\ dout_int' = TRUE
    /\ UNCHANGED <<data, ret, bus_state, txVars, pinVars, dout_irq, tmrVars,
                   rxVars, logged, history>>

DisableTx ==
    /\ Goto("tx_off", "ready") /\ ret' = "OK"
    /\ tx_state' = FALSE
    /\ UNCHANGED <<data, bus_state, txVars, din, intVars, tmrVars, rxVars,
                   logged, history>>

TransmitStep ==
    \/ Prepare \/ PrepareFails \/ MaskDout
    \/ SetBusTx \/ ResetBit \/ ResetByte \/ SetCount \/ StartTimer
    \/ Spin \/ SetBusIdle \/ StopTimer \/ ReloadTimer
    \/ FreeBuffer \/ UnmaskDout \/ DisableTx

(* Read, one element of the queue.                                         *)
Read ==
    /\ At("ready") /\ rx_queue # << >>
    /\ rx_queue' = Tail(rx_queue)
    /\ UNCHANGED <<mainVars, bus_state, txVars, pinVars, intVars, tmrVars,
                   rx_sm, logged, ticks, history>>

FlushRx ==
    /\ At("ready") /\ rx_queue # << >>
    /\ rx_queue' = << >>
    /\ UNCHANGED <<mainVars, bus_state, txVars, pinVars, intVars, tmrVars,
                   rx_sm, logged, ticks, history>>

------------------------------------------------------------------------------
(* signal_timer_isr.  The timer is continuous: it ticks while it runs.     *)

(* Where the main thread may take any number of ticks for one step: before *)
(* and after Transmit, allocating and formatting, and in the busy wait.    *)
Unhurried == {"ready", "prepare", "spin"}

CountTick ==
    IF pc \in Unhurried THEN UNCHANGED ticks
    ELSE ticks < MaxTicks /\ ticks' = ticks + 1

TimerFires == tmr_run /\ ~dout_irq /\ CountTick

TxTick == TimerFires /\ bus_state = "TX"

(* max22x88_handle_interrupt_tx: everything has been sent.  The timer runs *)
(* on until the main thread stops it.                                      *)
TxDone ==
    /\ TxTick /\ tx_current_byte = tx_len
    /\ bus_state' = "IDLE"
    /\ tmr_cnt' = "counting"
    /\ logged' = {}
    /\ UNCHANGED <<mainVars, txVars, pinVars, intVars, tmr_run, rxVars, history>>

(* The second tick of a half-bit; handle_collision is empty.               *)
TxCollate ==
    /\ TxTick /\ tx_current_byte # tx_len
    /\ perform_bit_collation
    /\ perform_bit_collation' = FALSE
    /\ tmr_cnt' = "counting"
    /\ logged' = {}
    /\ UNCHANGED <<mainVars, bus_state, data_to_tx, tx_current_byte,
                   tx_current_bit, buf_live, pinVars, intVars, tmr_run,
                   rxVars, history>>

(* The level read from data_to_tx: any, for indices outside of what was    *)
(* formatted.                                                              *)
LevelsToTx ==
    IF tx_current_byte < tx_len /\ tx_current_bit < HalfBits
    THEN {tx_current_bit \in data_to_tx[tx_current_byte + 1]}
    ELSE BOOLEAN

(* The far end cuts what is on DIN into frames of HalfBits.                *)
PutOnWire(level) ==
    IF Len(partial) + 1 = HalfBits
    THEN /\ frames' = Append(frames, {p \in 0 .. HalfBits - 1 :
                                        Append(partial, level)[p + 1]})
         /\ partial' = << >>
    ELSE /\ partial' = Append(partial, level)
         /\ UNCHANGED frames

AdvanceBit ==
    IF tx_current_bit + 1 = HalfBits
    THEN tx_current_bit' = 0 /\ tx_current_byte' = tx_current_byte + 1
    ELSE tx_current_bit' = tx_current_bit + 1 /\ UNCHANGED tx_current_byte

(* The first tick of a half-bit.  The receiver hears its own transmitter:  *)
(* DIN falling makes DOUT fall.                                            *)
TxDrive ==
    /\ TxTick /\ tx_current_byte # tx_len
    /\ ~perform_bit_collation
    /\ perform_bit_collation' = TRUE
    /\ \E level \in LevelsToTx :
         /\ din' = level
         /\ dout_irq' = (dout_int /\ din /\ ~level)
         /\ PutOnWire(level)
    /\ AdvanceBit
    /\ tmr_cnt' = "counting"
    /\ logged' = {}
    /\ UNCHANGED <<mainVars, bus_state, data_to_tx, buf_live, tx_state,
                   dout_int, tmr_run, rxVars>>

RxTick == TimerFires /\ bus_state = "RX"

(* max22x88_handle_interrupt_rx on a tick that is not a frame's last.      *)
RxEdge ==
    /\ RxTick /\ ~WantSample(rx_sm)
    /\ rx_sm' = IF EdgeValid(rx_sm) THEN BitEdge(rx_sm) ELSE rx_sm
    /\ logged' = IF EdgeValid(rx_sm) THEN {} ELSE {"INTERNAL_ERROR"}
    /\ tmr_cnt' = "counting"
    /\ UNCHANGED <<mainVars, bus_state, txVars, pinVars, intVars, tmr_run,
                   rx_queue, history>>

RxSample ==
    /\ RxTick /\ WantSample(rx_sm)
    /\ ~(SampleValid(rx_sm) /\ CompletesFrame(rx_sm))
    /\ \E bit \in BOOLEAN :
         rx_sm' = IF SampleValid(rx_sm) THEN EventSample(rx_sm, bit) ELSE rx_sm
    /\ logged' = IF SampleValid(rx_sm) THEN {} ELSE {"INTERNAL_ERROR"}
    /\ tmr_cnt' = "counting"
    /\ UNCHANGED <<mainVars, bus_state, txVars, pinVars, intVars, tmr_run,
                   rx_queue, history>>

(* Mutant of DataReceived: the push does not ask whether there is room.    *)
DataReceivedUnchecked(byte) ==
    rx_queue' = Append(rx_queue, byte) /\ logged' = {"FRAME_VALID"}

(* Mutant of DataReceived: a full queue makes room by dropping its oldest. *)
DataReceivedOverwriting(byte) ==
    /\ rx_queue' = Append(IF Len(rx_queue) < RxLen THEN rx_queue
                          ELSE Tail(rx_queue), byte)
    /\ logged' = {"FRAME_VALID"}

(* DataReceived: the byte goes into the queue unless the queue is full.    *)
DataReceived(byte) ==
    IF Len(rx_queue) < RxLen
    THEN rx_queue' = Append(rx_queue, byte) /\ logged' = {"FRAME_VALID"}
    ELSE UNCHANGED rx_queue /\ logged' = {"RX_OVF"}

FrameErrorLog(flags) ==
    {"FRAME_BAD"}
      \cup (IF "OFFDUTY_SAMPLE"   \in flags THEN {"FRAME_BAD_OFFDUTY"} ELSE {})
      \cup (IF "PARITY_ERROR"     \in flags THEN {"FRAME_BAD_PARITY"}  ELSE {})
      \cup (IF "START_BIT_SAMPLE" \in flags THEN {"FRAME_BAD_START"}   ELSE {})
      \cup (IF "STOP_BIT_SAMPLE"  \in flags THEN {"FRAME_BAD_STOP"}    ELSE {})

(* restart_rxing, with stop_hbs_timing.                                    *)
RestartRxing ==
    /\ bus_state' = "IDLE"
    /\ tmr_run' = FALSE /\ tmr_cnt' = "sample"
    /\ dout_int' = TRUE

(* The tick that completes a frame.                                        *)
RxFinish ==
    /\ RxTick /\ WantSample(rx_sm)
    /\ SampleValid(rx_sm) /\ CompletesFrame(rx_sm)
    /\ \E bit \in BOOLEAN :
         LET result == FrameResult(rx_sm, bit) IN
         /\ rx_sm' = EventSample(rx_sm, bit)
         /\ IF result.error_flags = {}
            THEN DataReceived(result.data)
            ELSE /\ logged' = FrameErrorLog(result.error_flags)
                 /\ UNCHANGED rx_queue
    /\ RestartRxing
    /\ UNCHANGED <<mainVars, txVars, pinVars, dout_irq, history>>

(* The tick of a bus state in which no tick is expected.                   *)
StrayTick ==
    /\ TimerFires /\ bus_state \in {"IDLE", "UNKNOWN"}
    /\ logged' = {"INTERNAL_ERROR"}
    /\ tmr_cnt' = "counting"
    /\ UNCHANGED <<mainVars, bus_state, txVars, pinVars, intVars, tmr_run,
                   rxVars, history>>

TimerISR ==
    \/ TxDone \/ TxCollate \/ TxDrive
    \/ RxEdge \/ RxSample \/ RxFinish
    \/ StrayTick

------------------------------------------------------------------------------
(* adi_max22x88_FallingEdgeIntCallback.                                    *)

(* Another node may pull the line low now, or the GPIO block has latched   *)
(* an edge of this node's own transmission and delivers it once it may.    *)
MayHearRemote == dout_int /\ (Arbitrated => pc \in {"tx_off", "ready"})

FallingEdge == dout_irq \/ MayHearRemote

(* Mutant of EdgeStartsFrame: the edge interrupt stays enabled.            *)
EdgeStartsFrameUnmasked ==
    /\ FallingEdge
    /\ StartBitEdgeValid(rx_sm)
    /\ rx_sm' = StartBitEdge(rx_sm)
    /\ bus_state' = "RX"
    /\ dout_irq' = FALSE
    /\ tmr_run' = TRUE
    /\ logged' = {}
    /\ UNCHANGED <<mainVars, txVars, pinVars, dout_int, tmr_cnt, rx_queue,
                   ticks, history>>

(* Mutant of EdgeStartsFrame: the timer is not started.                    *)
EdgeStartsFrameUntimed ==
    /\ FallingEdge
    /\ StartBitEdgeValid(rx_sm)
    /\ rx_sm' = StartBitEdge(rx_sm)
    /\ bus_state' = "RX"
    /\ dout_int' = FALSE /\ dout_irq' = FALSE
    /\ logged' = {}
    /\ UNCHANGED <<mainVars, txVars, pinVars, tmrVars, rx_queue, ticks,
                   history>>

EdgeStartsFrame ==
    /\ FallingEdge
    /\ StartBitEdgeValid(rx_sm)
    /\ rx_sm' = StartBitEdge(rx_sm)
    /\ bus_state' = "RX"
    /\ dout_int' = FALSE /\ dout_irq' = FALSE
    /\ tmr_run' = TRUE
    /\ logged' = {}
    /\ UNCHANGED <<mainVars, txVars, pinVars, tmr_cnt, rx_queue, ticks,
                   history>>

(* The timer has been started too: it is stopped again.                    *)
EdgeRefused ==
    /\ FallingEdge
    /\ ~StartBitEdgeValid(rx_sm)
    /\ dout_irq' = FALSE
    /\ tmr_run' = FALSE /\ tmr_cnt' = "sample"
    /\ logged' = {}
    /\ UNCHANGED <<mainVars, bus_state, txVars, pinVars, dout_int, rxVars,
                   ticks, history>>

------------------------------------------------------------------------------

Next ==
    \/ \E d \in Payloads : Transmit(d)
    \/ TransmitStep
    \/ Read \/ FlushRx
    \/ TimerISR
    \/ EdgeStartsFrame \/ EdgeRefused

Spec == Init /\ [][Next]_vars

(* The handlers are shorter than the timer's period, so the main thread    *)
(* keeps being scheduled; the timer's interrupt is never masked.           *)
FairSpec ==
    /\ Spec
    /\ WF_vars(TransmitStep)
    /\ WF_vars(TimerISR)
    /\ WF_vars(dout_irq /\ (EdgeStartsFrame \/ EdgeRefused))

------------------------------------------------------------------------------
(* Properties.                                                             *)

Locations == {"ready", "prepare", "mask", "set_tx", "rst_bit", "rst_byte",
              "set_cnt", "start", "spin", "idle", "stop", "reload", "free",
              "unmask", "tx_off"}

Frame == SUBSET (0 .. HalfBits - 1)

TypeOK ==
    /\ pc \in Locations
    /\ data \in Seq(Byte)
    /\ ret \in {"none", "OK", "INTERNAL"}
    /\ bus_state \in BusStates
    /\ rx_sm \in StateMachine
    /\ data_to_tx \in Seq(Frame)
    /\ tx_current_byte \in Nat /\ tx_current_bit \in Nat
    /\ perform_bit_collation \in BOOLEAN /\ buf_live \in BOOLEAN
    /\ tx_state \in BOOLEAN /\ din \in BOOLEAN
    /\ dout_int \in BOOLEAN /\ dout_irq \in BOOLEAN
    /\ tmr_run \in BOOLEAN /\ tmr_cnt \in {"sample", "half_bit", "counting"}
    /\ ticks \in 0 .. MaxTicks
    /\ rx_queue \in Seq(Byte) /\ Len(rx_queue) <= RxLen
    /\ logged \in SUBSET LogCodes
    /\ frames \in Seq(Frame)
    /\ partial \in Seq(BOOLEAN) /\ Len(partial) < HalfBits

(* The timer interrupt reads data_to_tx whenever bus_state says TX, from   *)
(* the moment start_transmission sets it until the main thread, which      *)
(* frees the buffer, has left the busy wait; no interleaving with the      *)
(* edge interrupt or with a reception lets it read a buffer that is freed, *)
(* and Transmit leaves none allocated, on any of its ways out.             *)
HeapDiscipline ==
    /\ bus_state = "TX" => buf_live
    /\ pc = "ready" => ~buf_live

(* Outside of Transmit, the edge interrupt is disabled only for a          *)
(* reception whose timer is running, so that it will be enabled again      *)
(* (FallingEdgeIntCallback, restart_rxing), and the timer runs only for a  *)
(* reception: no interleaving of Transmit with the edge interrupt and with *)
(* receptions that begin or end inside it leaves one of them behind.       *)
InterruptsAccountedFor ==
    pc = "ready" =>
        /\ ~dout_int => bus_state = "RX" /\ rx_sm.ongoing /\ tmr_run
        /\ tmr_run => bus_state = "RX"

(* Transmit busy-waits for an interrupt handler to change bus_state, with  *)
(* no timeout (max22x88_write_bitbang): whatever the bus does, the timer   *)
(* is left running for as long as it waits, and it returns.                *)
TransmitReturns == pc # "ready" ~> pc = "ready"

(* Outside of a reception and of Transmit the node listens: the edge       *)
(* interrupt is enabled, the state machine accepts a start bit, and the    *)
(* timer is stopped and loaded for sampling the start bit (restart_rxing   *)
(* and the end of max22x88_write_bitbang both have to leave it so).        *)
Listening ==
    pc = "ready" /\ bus_state # "RX" =>
        /\ dout_int /\ StartBitEdgeValid(rx_sm)
        /\ ~tmr_run /\ tmr_cnt = "sample"

(* A reception owns the timer and the edge interrupt until it ends: the    *)
(* data's own falling edges cannot restart the state machine, and nothing  *)
(* stops its clock or takes bus_state away from it.                        *)
ReceptionUndisturbed ==
    /\ bus_state = "RX" <=> rx_sm.ongoing
    /\ rx_sm.ongoing => tmr_run /\ ~dout_int

(* A Transmit that returns OK has put exactly the frames of its data on    *)
(* DIN, each once and in order, and no loose half-bit before or after.     *)
SentExactly ==
    ret = "OK" =>
        /\ frames = [k \in DOMAIN data |-> format_byte_for_hbs_tx(data[k])]
        /\ partial = << >>

(* Unless malloc failed, Transmit leaves the bus to the others: DIN back   *)
(* at the idle level and the transmitter disabled.                         *)
BusReleased ==
    pc = "ready" => din /\ (ret # "INTERNAL" => ~tx_state)

(* A started reception comes to an end, and with it the edge interrupt     *)
(* comes back.                                                             *)
ReceptionEnds == rx_sm.ongoing ~> ~rx_sm.ongoing

(* The driver, on a bus that is kept half-duplex, is a half-duplex port.   *)
(* It listens from the moment the edge interrupt is enabled again.         *)
Port == INSTANCE HalfDuplexPort
          WITH Capacity <- RxLen,
               mode  <- IF pc \notin {"tx_off", "ready"} THEN "send"
                        ELSE IF rx_sm.ongoing THEN "receive" ELSE "listen",
               message <- data,
               sent  <- frames,
               inbox <- rx_queue
PortSpec == Port!Spec

------------------------------------------------------------------------------
(* What comments and docs say and the code does not do.                    *)

(* max22x88_bitbang.c:171-172: the falling edge interrupt is disabled      *)
(* while a frame is received and reenabled afterwards.  A node whose bus   *)
(* is idle therefore accepts the next start bit.                           *)
NeverDeaf ==
    pc = "ready" /\ bus_state = "IDLE" => StartBitEdgeValid(rx_sm)

==============================================================================
