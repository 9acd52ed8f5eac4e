# Verification of the MAX22x88 driver

TLA+ models, TLC model-checking runs and TLAPS proofs for `max22x88-driver`: an
interrupt-driven, bit-banged UART-like driver for the MAX22088 and MAX22288 Home Bus
transceivers on a single-core microcontroller, with its receive queue and the two-node
example that sits on top of it. Paths below are relative to the repository.

1. [The system](#1-the-system)
2. [Modules](#2-modules)
3. [How the models correspond to the code](#3-how-the-models-correspond-to-the-code)
4. [Runs and bounds](#4-runs-and-bounds)
5. [Fairness](#5-fairness)
6. [Proofs](#6-proofs)
7. [Where the code and its documentation differ](#7-where-the-code-and-its-documentation-differ)
8. [Not modelled](#8-not-modelled)
9. [Plan](#9-plan)

## 1. The system

```
   main thread                          interrupts (one priority)
   -----------                          -------------------------
   run_master / run_slave  (main.c)
        |  adi_hbs_Send, adi_hbs_Received          timer        DOUT falls
   packet layer (homebus.c)                          |              |
        |  Transmit, IsAvailable, Read               v              v
   front end (max22x88.c) <---- DataReceived --- signal_timer   FallingEdge-
        |  Write                    |            _isr           IntCallback
        v                           v                |              |
   bit-bang layer (max22x88_bitbang.c)  <------------+--------------+
        |                receive queue       receive state machine
   frame format          (fifo.c)            (..._rx_state_machine.c)
   (bitbang_helper.c)                        
        |
   HAL: pins RST (transmitter off), DIN (to the bus), DOUT (from it); one timer
```

| component | state | operations | what makes it correct |
|---|---|---|---|
| frame format, `bitbang_helper.c` | none; a parity table | `_stuff_byte_u32`, `_calc_even_parity_u8`, `format_byte_for_hbs_tx` | a formatted byte is received as it was sent; the table is a parity |
| receive state machine, `max22x88_bitbang_rx_state_machine.c` | three counters and toggles, accumulated byte and error flags | start-bit edge, edge, sample | the on-line accumulation is the decoding of the whole frame; nothing of a frame is left in the next; a frame ends |
| bit-bang layer, `max22x88_bitbang.c` | `bus_state`, the receive state machine, transmit buffer, indices and collation toggle, the timer, the edge interrupt | `max22x88_write_bitbang` (busy-waits), `signal_timer_isr`, `FallingEdgeIntCallback`, init | a Transmit sends exactly its data and returns; a reception keeps its clock; the node listens again afterwards; no freed buffer is read |
| front end, `max22x88.c`, `max22x88_common.c` | `tx_state`, log counters, the queue, the context | `Init`, `Deinit`, `Transmit`, `Read`, `FlushRx`, `IsAvailable`, `DataReceived` | the transmitter is disabled again; handlers never meet an unready context; every queue an Init got is owned or freed |
| receive queue, `fifo.c` | `buf`, volatile `head` and `tail` | `Push` (interrupt), `Pop`, `Read`, `ReadN`, `Clear`, `Len` (main thread) | a bounded queue, without a lock, for one producer and one consumer |
| packet layer, `examples/two_nodes/stack` | parser state, packet, payload index, callback, count of unhandled packets | `adi_hbs_Send`, `adi_hbs_Received`, `adi_hbs_RegisterRxCb` | packets are cut where the sender cut them; each reaches its addressee's callback, or its count, once |
| application, `examples/two_nodes/main.c` | role, `master_received_response` | master and slave loop and callbacks | the bus stays half-duplex; a request is answered, with a current status |
| HAL, `platform/hal/max32670` | none of its own | one vendor call each | (external hardware) |

What is hard here is concurrency without locks. The main thread is preempted between any
two of its statements by two handlers, and all three write `bus_state`, the timer and the
enable bit of the edge interrupt. A transmission is a busy wait for a handler, without a
timeout. A reception is started by one handler, continued by the other, and ended only by
the last of its 44 ticks. The queue is shared without masking interrupts. The packet
layer has no timeout and no resynchronisation. `PROJECT.json` lists every such hazard with
its line and the properties that cover it.

## 2. Modules

| module | what it is | checked in | proved in |
|---|---|---|---|
| `Framing` | frame format as pure operators | through the modules that use it | |
| `RxStateMachine` | the functions of the receive state machine, as operators on the record `_adi_bitbang_sm_t` | through the modules that use it | `RxStateMachine_proofs` (lemmas) |
| `FrameReceiver` | abstract: remembers levels, decodes a whole frame at its end | | |
| `FrameReception` | the receive state machine alone, any levels, frame after frame | `rx_frame`, `rx_last_bits` | `FrameReception_proofs` |
| `LineTiming` | a sender's and a receiver's timer in real time, 8 data bits, the code's timer counts, at most one disturbed sample | `line_timing`, through `MCLineTiming` | `LineTiming_proofs` |
| `HalfDuplexPort` | abstract: listens, receives a byte or sends a message | | |
| `BitbangDriver` | the driver: main thread, timer interrupt, edge interrupt, environment | `driver_half_duplex`, `driver_any_traffic`, `driver_deaf`, `driver_truncated` | `BitbangDriver_proofs` |
| `BoundedQueue` | abstract: a bounded sequence, one step per operation | | |
| `Fifo` | the ring buffer, a consumer step per access to the index the interrupt moves | `fifo` | `Fifo_proofs` |
| `Lifecycle` | Init and Deinit of any number of driver objects under armed interrupts | `lifecycle`, `lifecycle_reinit` | `Lifecycle_proofs` |
| `Homebus` | the packet layer as operators on `adi_hbs_t` | through `PacketBus` and `TwoNodes` | |
| `PacketChannel` | abstract: whole packets on their way to each node | | |
| `PacketBus` | any nodes that send each other packets, byte by byte, over one bus | `packets` | `PacketBus_proofs` |
| `TwoNodes` | both nodes of the example over a byte channel | `two_nodes` | `TwoNodes_proofs` |

They compose as follows. `RxStateMachine` and `Framing` are the same operators wherever
they are used: alone, in real time and inside the interrupt of `BitbangDriver`.
`FrameReception` refines `FrameReceiver`, `BitbangDriver` (on a half-duplex bus) refines
`HalfDuplexPort`, `Fifo` refines `BoundedQueue`, and `PacketBus` refines `PacketChannel`.
`BitbangDriver` keeps the receive queue as a sequence with one-step operations, which
`Fifo` shows to be what the ring buffer provides. That a sample is taken in the half-bit
it is counted for is left open in `BitbangDriver` (a sample has any level) and shown in
`LineTiming`, from what the clocks and latencies have to satisfy. `PacketBus` and `TwoNodes` both run the operators of `Homebus` over
half-duplex ports that are joined by the bus; `TwoNodes!HalfDuplex` is the assumption
`Arbitrated` of `BitbangDriver`, and what `PacketBus` assumes of its applications.

A definition whose comment begins "Mutant of" is a faulty variant of the definition that
follows it, kept to show that the properties notice such a fault; nothing uses it.

## 3. How the models correspond to the code

### Framing, RxStateMachine

A byte is the set of positions of its one bits, a formatted frame the set of positions of
its high half-bits: the bit operations of `_stuff_byte_u32` become unions. The number of
data bits is the constant `DataBits` (8 in the code), and `HalfBits` is twice the start bit, data,
parity and stop bit, the code's `BITS_IN_HOMEBUS_FRAME`. The three positions that the
state machine compares its count with are translated as the code has them
(`PARITY_BIT_POS` is 19 at eight bits, an odd number); section 7 says what follows. The
truncation of the ninth "data" sample to `uint8_t` is the intersection in
`SampledDataBits`.

Each function with an early return is two operators, the test and the new record
(`EdgeValid`, `BitEdge`). `FrameReception` calls them in the order the timer handler
does. `Agrees` says what a record holds as a function of the levels that were sampled; it
is the invariant `AccumulatorsAgree` of `FrameReception` and part of the one behind
`LineTiming_proofs`.

### BitbangDriver

| code | model |
|---|---|
| `adi_max22x88_Transmit`, `max22x88_write_bitbang`, `start_transmission`, `begin_hbs_timing`, `stop_hbs_timing` | `Transmit`, then one action per statement a handler can tell apart: `Prepare`, `MaskDout`, `SetBusTx`, `ResetBit`, `ResetByte`, `SetCount`, `StartTimer`, `Spin`, `SetBusIdle`, `StopTimer`, `ReloadTimer`, `FreeBuffer`, `UnmaskDout`, `DisableTx`; `PrepareFails` is the failed `malloc` |
| `signal_timer_isr` in `TX` | `TxDone`, `TxCollate`, `TxDrive` |
| in `RX` | `RxEdge`, `RxSample`, `RxFinish` (with `DataReceived` and `restart_rxing`) |
| in any other state | `StrayTick` |
| `adi_max22x88_FallingEdgeIntCallback` | `EdgeStartsFrame`, `EdgeRefused` (timer started, then stopped and reloaded) |
| `Read`, `FlushRx` | actions of the same names |
| GPIO pins, timer, edge interrupt | `tx_state`, `din`; `tmr_run`, `tmr_cnt` (what the count is loaded with); `dout_int`, `dout_irq` |
| the indices, never assigned before the first transmission | any value of `StaleBytes`, `StaleBits` at `Init` |
| a read of `data_to_tx` outside of what was formatted | any level |

A handler is one action because both interrupts have the same priority and neither
preempts the other. `frames` and `partial` are history variables: what the far end sees on
DIN. `dout_irq` is the node hearing its own transmitter.

The source does not settle whether the GPIO block latches a falling edge of DOUT while its
interrupt is disabled. The model covers both: `MayHearRemote` lets an edge be delivered at
any moment the interrupt is enabled, the one right after `UnmaskDout` included, whether it
comes from another node or is one of the node's own that was latched. A node that takes
its own edge for a start bit receives a frame that nobody sent. No property
excludes that; `Listening`, `ReceptionUndisturbed` and `PortSpec` hold all the same, since
Transmit is not called again before that reception has ended.

Assumptions about the hardware that remain: when a tick and an edge are due at once, the
order is either, except that a pending edge of the node's own transmission is served
before the next tick; the instant between the start and the stop of the timer inside a
refused edge is too short for a tick. The log counters are modelled
by the codes counted by the last handler. Early returns for NULL arguments change nothing
and are left out, as is the failing `SetTxState`, which has no failing path.

`Arbitrated = TRUE` says what the application does (`TwoNodes!HalfDuplex`): from the call
of Transmit until the edge interrupt is enabled again nobody else sends and no edge is
delivered that was latched before, and Transmit is not called in the middle of a reception. With `FALSE` a start bit can arrive whenever the interrupt is enabled.

### LineTiming

The only module with time. A behaviour is one Transmit, of any number of bytes: `Messages`
arrive undisturbed, of `Disturbed` one sample of the first frame may be inverted. Its unit is one clock of the receiver's timer, and it jumps
from event to event. `half_bit_cmp`, `cnt_for_start_bit_sample` and the offset of 126
clocks are those of `max22x88_bitbang_init_ctx`; everything the code cannot determine is a
constant: the timer's clock (32 MHz), the ratio of the two nodes' clocks, the clocks from
an edge to the start of the timer, those from a tick to the end of its handler. The
sender's timer is exact, the receiver's starts with the edge of each frame's start bit and
is not corrected until the next. An edge while the interrupt is disabled is not delivered
here. The parity table of `bitbang_helper.c` is written out and compared with the parity
of each byte that is sent.

### Fifo

The producer is an interrupt that runs to completion: `Push` is one action. The
consumer is preempted: `Pop` is test, copy and advance; `Clear` is a test, a read of `head` and
a write of `tail`; `ReadN` reads `head` up to three times. `Items` is the refinement
mapping, and the history variable `put` ties what a push stores to what it was given.
`Pop(NULL)` does not test for an empty queue, so the model allows it only when
`IsAvailable` has returned true. `ReadNMasked` keeps the producer off while `ReadN` runs;
without it `ReadN` is wrong (section 7).

### Lifecycle

The steps of `adi_max22x88_Init` down to `max22x88_gpio_bitbang_init`, one per statement
that matters to a handler or to a later call, with each failure: no queue
(`AllocQueueFails`), an `rx_buffer_len` of zero (`RejectEmptyQueue`), no context, a second
instance, no parameters. The history variable `leaked` holds the queues that were
allocated for an object and cannot be reached from it any more: a live one whose pointer
an Init overwrites, and the buffer that was allocated for a length of zero and then
refused. The two handlers are reduced to what they do to the
interrupts (`FallingEdge` starts the clock of a reception, `LastTick` ends it), because
what else they do is in `BitbangDriver`; Transmit is left out. `Calls` says what the
application does with a live driver: `"reinit"`, `"deinit"`, both or neither.

### Homebus, PacketBus, TwoNodes

`Homebus` is the parser, one operator per idea of `adi_hbs_Received`: what is stored,
whether that completes the packet, who is called back, what the state is then. A header
is four bytes whatever a byte can hold, so `HBS_MAX_DATA_LEN`, which is also the largest
`uint8_t`, is a constant: 255 in `two_nodes`, 2 in `packets`, where the wrap of the length
byte, of the payload index and a payload that fills the packet come within reach. A
payload is a sequence of what was written to it; a byte that was never written is any
octet where the code reads it (`ShowStatus`).

`PacketBus` lets any node send anything to anybody, register its callback at any time and
fall behind with its queue; one Transmit at a time has the bus. A byte is lost only when
it meets a full queue, and from then on `PacketChannel` promises nothing.

`TwoNodes` runs the main loops: `Request`, `ShowStatus` (`mastercb`), `Respond` (`slavecb`, which sends
from inside the callback), `Ignore`, `PutByte`. The master's loop waits for the button to be
released after a response (`Release`) before it looks for the next press. A byte arrives unless the other queue is
full, the other node is itself in Transmit, or, with `Lossy`, the frame was damaged and
dropped. Damage that the receiver does not notice, a data bit delivered inverted (section
7, *Parity and stop bit*), is not in this model: what holds unless a byte was lost is not
claimed of it. `SendFails` is the Transmit that finds no memory: nothing is put on the bus,
and since nobody looks at the result of `adi_hbs_Send`, the node goes on to wait for bytes.
That the transmitter is left enabled then is in `BitbangDriver`; its DIN is idle.
Transmit is taken to return with its last byte: the receiver prints the packet before it
answers, which is longer than what is left of the sender's Transmit. The real queue has
256 places and no more than a packet ever waits in it; the length is a constant.

## 4. Runs and bounds

| run | instance | what it shows |
|---|---|---|
| `rx_frame` | 2 data bits, any levels | `AccumulatorsAgree`: at every sample the byte, the flags and the counters are those of the levels so far. `ReceiverSpec`: on-line accumulation implements `FrameReceiver`. `FrameEnds`. |
| `rx_last_bits` | same | violation: parity and stop bit are not checked |
| `line_timing` | 8 data bits, 9600 and 19200 baud, clocks that differ by up to 0.5 %, latencies of 100 and 160 clocks, handlers of 20 and 150; all 256 single bytes undisturbed, pairs of bytes with each sample inverted or none | `SampledInside`: no sample comes within an eighth of a half-bit of either neighbour; `RoundTrip`, `DamageNoticed`; `ParityTableEven` over the whole table |
| `driver_half_duplex` | 1 data bit, up to 2 bytes sent, queue of 2, arbitrated, `malloc` may fail | `Listening`, `ReceptionUndisturbed`, `SentExactly`, `BusReleased`, the refinement `PortSpec`, `ReceptionEnds` |
| `driver_any_traffic` | 1 data bit, 1 byte sent, queue of 1, start bits at any time | `HeapDiscipline`, `InterruptsAccountedFor`, `TransmitReturns`: what survives when nothing keeps the bus half-duplex |
| `driver_deaf` | same | violation: a start bit just before the masking leaves the node deaf |
| `driver_truncated` | same | violation: Transmit returns OK with less than its data sent |
| `fifo` | 2 values, capacity 3, any initial memory | `QueueSpec`: a bounded queue, with a push possible between any two accesses to the index it moves, except inside `ReadN`, which runs with the interrupt off; `StillAvailable`: `IsAvailable` and then `Read` is safe without a lock |
| `lifecycle` | 2 objects, Deinit allowed | `HandlersSafe`, `LiveDriverServed`, `OutcomeAccountedFor`, `QuietPins` |
| `lifecycle_reinit` | 2 objects, a live one may be initialised again | violation of `HandlersSafe` |
| `two_nodes` | queues of 5, lossy | `HalfDuplex` under any loss; `StatusCurrent` unless a byte was lost; `Answered` unless a byte was lost or a Transmit failed |
| `packets` | 2 nodes, queues of 4, 2 packets with payloads of up to 2 bytes to 3 addresses | `ChannelSpec`: the bytes on the bus implement a channel of whole packets; `EveryPacketServed` |

Why the bounds are enough:

- `DataBits`. The code treats all data bits alike, and with 1 or 2 of them there is a
  first, a last and, at 2, a pair; the counts that are compared with constants scale with
  the width. The proofs cover every width and `line_timing` is at 8.
- `MaxLen` 2 has a byte boundary inside a transmission; `RxLen` 2 and capacity 3 have an
  empty, a partly filled and a full queue, and the ring buffer wraps around in the middle
  of a `ReadN`.
- `MaxTicks` bounds the ticks between two adjacent statements of Transmit to one. There is
  no bound before and after Transmit, during allocation and formatting, or in the busy
  wait. Two ticks between two adjacent statements would need those to take a whole half of a half-bit.
  The proofs hold for every `MaxTicks`.
- `StaleBytes` and `StaleBits` hold an index inside and one at or beyond the end. The
  proofs take any set of naturals.
- `RxLen` 5 is the longest packet of the example, so that the queue can be filled exactly.
- In `packets` the longest packet (6 bytes) does not fit the queue (4), so that losses
  occur, and a second packet finds the parsers in whatever state the first left them:
  addressed elsewhere, empty, or full. The third address belongs to no node. With
  `LongestPayload` one more than `HBS_MAX_DATA_LEN` the same run violates `ChannelSpec`
  (`adi_hbs_Send` does not check the length).
- The constants of `line_timing` bracket what the code was tuned for: the offset of 126
  clocks lies between the two latencies. Time scales with the half-bit: at 38400 baud all
  three properties fail, because a handler of 150 clocks ends after the next start edge
  (with 20 clocks they hold), and at 115200 baud, where the offset no longer fits into
  the count, bytes are received wrong even with 20. The code accepts any rate.
- Deadlock is checked in every run but `line_timing`, which has one transmission per
  behaviour and then stops.

## 5. Fairness

- `FrameReception!FairSpec`: the timer ticks on while a frame is in progress.
- `BitbangDriver!FairSpec`: weak fairness of the main thread's next statement (a handler is
  much shorter than the timer's period, so handlers cannot starve it), of the timer
  interrupt (continuous mode; the code never masks it), and of the handler of a pending
  edge. Nothing is assumed of other nodes, nor that the application calls anything.
- `PacketBus!FairSpec`: a Transmit puts its next byte on the bus, which is what
  `TransmitReturns` shows of the driver, and every main loop keeps taking bytes. Nothing is
  assumed of who sends or registers.
- `TwoNodes!FairSpec`: both main loops keep running (`while (1)`). The user's button is not fair.

## 6. Proofs

All under TLAPS, for every value of the constants.

**RxStateMachine_proofs** holds the lemmas about the state machine's operators that the
others share: what one sample does to the accumulators (`AccumulateAgrees`,
`SampleAgrees`), and what a formatted frame looks like with one half-bit inverted
(`FrameShape`, `DisturbedFrame`).

**FrameReception_proofs.** `IInv` is the type together with `AccumulatorsAgree`; neither
is inductive alone, since the counter's range needs the relation between the toggles and
the total. `WholeFrame` connects the prefix decoding with `FrameReceiver!Decode`. Results:
`TypeCorrect`, `Agreement`, `Implements` (`Spec => ReceiverSpec`), and `OneDisturbance`,
which joins it with the frame format: for every width, byte and half-bit, what one
inverted level does to the byte and its flags. An inverted data bit is delivered without
a flag (section 7, *Parity and stop bit*).

**LineTiming_proofs**, for every timer clock, baud rate, skew, latency, handler time and
message. The hypothesis is about one frame alone: `Timely` says that, counted from its
start edge, sample number s falls into half-bit s with a clock to spare, and that the
last handler ends before the next start edge. (`SamplesInside` asks for an eighth of a
half-bit as well, `WellInside`.) From that the whole transmission follows, because the
receiver's clock starts anew with each start edge and no error is carried into the next
frame. The invariant `IInv` names the four phases of the receiver in a frame (`Waiting`
for the edge, `Woken` until the timer starts, `Hearing`, `Closing` until the edge
interrupt is enabled), says in each what is due when and how many half-bits the sender
has driven (`TimeInv`), and that the accumulators agree with the levels this frame was
sent with (`HeardInv`). `TolerancesSuffice` discharges the hypothesis: it is enough that
the clocks differ by half a percent at most, the latency misses the offset by no more
than a quarter of the timer's period, the offset fits into that period, and the last
handler takes less than half of it (`Tolerable`). `MCLineTiming` asserts that of every line of the
run; at 38400 baud the longest handler of the run is too long for it. `TableIsParity`
needs no timing: each entry of the lookup table is compared with the number of ones of
its index. Results: `SamplesInside`, `RoundTripHolds`, `DamageIsNoticed`,
`TolerancesSuffice`, `TableIsParity`.

**BitbangDriver_proofs**, on any traffic. `TypeInv` adds the state machine's `Running`.
`HeapDiscipline` and `InterruptsAccountedFor` speak of one location or one bus state;
`ResourceInv` says for each resource (the buffer, the timer, the edge interrupt, the state
`TX`) between which locations of the main thread it is in use. Results: `TypeCorrect`,
`HeapSafe`, `InterruptsSafe`.

The second half assumes `Arbitrated`. `ListenInv` gives exact conditions: the
timer runs if and only if a transmission is clocked or a reception is in progress, the
edge interrupt is enabled if and only if neither masks it. `SendInv` adds where a
transmission is: `IndicesAgree` says that the two indices count what is on the wire, and
that those frames and half-bits are a prefix of the formatted data. Results: `ListeningHolds`,
`ReceptionSafe`, `SendsExactly`, `ReleasesBus`, `Implements` (`Spec => PortSpec`).

**Lifecycle_proofs**, assuming that no live driver is initialised again. `IInv` follows an Init
along its locations: where it holds a queue, where its context is ready, where it has found
`_driver` to be NULL, and that the interrupts are quiet until there is an instance. That no
queue is lost rests on one fact about the whole call: an Init only asks for a queue while
its object has none, because every way out of a failed one frees it (`NextKept`). The
buffer of an empty queue is excepted, as the code leaks it (section 7).
Results: `TypeCorrect`, `HandlersAreSafe`, `LiveServed`, `OutcomeAccounted`, `PinsAreQuiet`.

**Fifo_proofs**, assuming `ReadNMasked`, for every capacity. `IInv` adds to the types and
to `StillAvailable` what each location of the consumer knows (`ConsumerInv`): the element
it has copied is still in its slot, `Clear`'s copy of `head` lies between `tail` and
`head`, `ReadN` is not longer than what is there. The refinement turns on `Items` under
one step of an index modulo `Size`: a push appends, an advance removes the first. Results:
`TypeCorrect`, `AvailableStays`, `Implements` (`Spec => QueueSpec`).

**TwoNodes_proofs**, for every length of the receive queues, lossy or not. What has to be
proved about the turns is that the slave cannot be answering when the master begins to
ask, and it comes down to counting: `Ahead(n)` is the number of bytes of a message to `n`
that its parser has taken, that wait in its queue or that are still to be put on the bus.
While the master asks or waits, either at most four bytes are ahead of the slave and none
of the master, or at most five of the master and none of the slave (`TurnInv`). A loss
only lowers the count, so an incomplete request is never answered; and a packet that
completes has four bytes at least, so that a complete one leaves nothing behind. For a
response this needs `LengthFollows`: when none of its five bytes is lost, the fourth is
not zero, and the packet does not end with it. `StatusInv` adds that without a loss a
response is there whole and what is left of it ends with the status (`ResponseWhole`), so
that the byte that completes the packet is `data[0]`. A failed Transmit (`RequestFails`,
`RespondFails`) leaves both counts at zero and the master waiting. Results: `TypeCorrect`,
`HalfDuplexHolds`, `StatusIsCurrent`.

**PacketBus_proofs**, for any nodes, payloads and queues. `TypeCorrect` holds whatever is
lost: an index into a packet stays below its length, across the wrap of the length byte
and of the payload index. `Implements` (`Spec => ChannelSpec`) assumes `PayloadsFit`, that
no payload is longer than `adi_hbs_Send` can announce in its length byte; TLC shows that
it fails without (section 4). `ChannelSpec` speaks of whole packets and the parsers see
bytes, so the invariant says how each node is going to read everything that is still in
its queue or on its way to it: `CanRead` labels every one of these bytes with the packet
it belongs to, its position there and the number of packets that end before it. The
labels agree with the parser's state at the first byte, advance by one from a byte to the next and
begin a packet only where the one before is complete; the parser then cuts where
the sender cut (`ReadByte`, which rests on `TakenStep`: what the parser holds after a byte
is the packet so far). A new transmission extends the labels (`ReadMore`), because a
sender starts only when `out` is empty. A byte that meets a full queue maps to `Lose`, after
which `PacketChannel` promises nothing. Results: `TypeCorrect`, `Implements`.

Each strengthening was checked with TLC before it was proved. Every invariant and every
refinement that a run finds to hold is proved. Only model-checked: the liveness properties
(`FrameEnds`, `ReceptionEnds`, `TransmitReturns`, `Answered`, `EveryPacketServed`), since
liveness under fairness is beyond the prover.

## 7. Where the code and its documentation differ

*Parity and stop bit*, *Deaf*, *Truncated* and *Init of a live driver* have runs whose
counterexample shows them; `PROJECT.json` quotes the text each contradicts.

- *Parity and stop bit are never checked* (`rx_last_bits`). Their positions are 19 and 21,
  odd counts, but the branch that compares is entered for even counts only. The log codes
  for a bad parity and a bad stop bit cannot occur; a frame with a damaged data bit is
  delivered.
- *Deaf* (`driver_deaf`). A start bit between the call of Transmit and the masking of the
  edge interrupt starts a reception that `start_transmission` then overrides. Nothing resets
  the receive state machine, and it refuses every later start bit.
- *Truncated* (`driver_truncated`). The same start bit leaves the timer running while
  `start_transmission` sets `bus_state` and then the indices; a tick in between uses the
  old ones. Transmit can return OK with part of the data sent, or none.
- *ReadN* uses a head older than its length: with `ReadNMasked = FALSE` the `fifo` run violates
  `QueueSpec`. It has no caller in the repository.
- *Init of a live driver* (`lifecycle_reinit`) is refused only after its context has been replaced.
- *A failed `malloc`* leaves the transmitter enabled: `Transmit` returns before
  `SetTxState(false)`. `BusReleased` exempts it.
- *Nobody looks at the result of a send.* When Transmit fails in the master or in the slave
  there is no request, or no response, and the master waits for ever without a byte having
  been lost: `Answered` exempts it, and is violated in the run `two_nodes` without that.
- *An empty queue.* For an `rx_buffer_len` of zero `_adi_fifo_Init` allocates a byte, refuses
  it and returns without a free; `err_1` skips `_adi_fifo_Free`, and no Deinit can free it
  later. `OutcomeAccountedFor` is about the queues an object gets. Contexts get lost too: a
  refused Init does not free its own, and the next Init of the object overwrites the pointer.
- *Deinit* leaves `_driver` and both interrupts: the next edge dereferences NULL, and no
  driver can be initialised again. `HandlersSafe` exempts a driver that was given up.
- *A lost length byte* lets the master show what the payload held before. `StatusCurrent`
  exempts losses.
- *`bitbang_helper.h:38`* speaks of an even amount of zeroes; the table gives an even amount of ones.
- *`fifo.h:152`* promises an error of `ReadN` on an empty queue; the code returns OK.

## 8. Not modelled

- The HAL's registers: each function is one vendor-library call; its effect is a variable
  of `BitbangDriver`, `Lifecycle` or `LineTiming`.
- Real time outside of `LineTiming`: the other models know the order of ticks and
  statements, not their distance.
- The return values in `homebus.c`, which the example ignores; `_adi_fifo_Capacity`, which
  nothing calls.
- A frame with a damaged data bit above the driver: `PacketBus` and `TwoNodes` know bytes
  that arrive and bytes that do not.
- A context of the packet layer that was not cleared: `adi_hbs_Init` leaves `user_cb`
  unassigned, and the models start with it cleared.
- Printing, board setup, build files.

## 9. Plan

The order so far was frame format and receive state machine, driver, queue, life cycle,
application, line timing, packets. What remains:

1. A composition of two `BitbangDriver` nodes at frame level, to discharge `Arbitrated`
   for the application instead of arguing it through `TwoNodes`.
2. Reset of one node of the example in the middle of an exchange.
