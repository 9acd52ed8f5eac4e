----------------------------- MODULE LineTiming -----------------------------
(***************************************************************************)
(* Real time on the line: one node drives the half-bits of a transmission  *)
(* by its timer, another finds the start bit of every frame by the edge    *)
(* interrupt and samples by its own timer, which is never synchronised     *)
(* again within the frame.  Time is counted in the receiver's timer        *)
(* clocks, from the first half-bit; it jumps to the next event.            *)
(*                                                                         *)
(* The transmission is a number of whole bytes at the code's width, sent   *)
(* without a gap, as one Transmit does.                                    *)
(***************************************************************************)
EXTENDS RxStateMachine, SequencesExt

CONSTANTS
    TimerClock,   \* frequency of MAX32670_TIMER_CLOCK_SIGNAL, unprescaled
    Bauds,        \* adi_max22x88_bitbang_InitParams_t.hbs_baud
    Skews,        \* sender's clock period, in thousandths of the receiver's
    Latencies,    \* clocks from an edge on DOUT to the timer's start
    IsrTimes,     \* clocks from a tick to the end of its handler
    Messages,     \* the bytes of a Transmit
    Disturbed     \* those in which a sample may be inverted

ASSUME WidthAssumption == DataBits = 8

ASSUME TimingAssumption ==
    /\ TimerClock \in Nat \ {0}
    /\ \A s \in {Bauds, Skews, Latencies, IsrTimes} : s \subseteq Nat \ {0}

Octets == 0 .. 2^DataBits - 1

ASSUME MessagesAssumption == Messages \cup Disturbed \subseteq Seq(Octets)

VARIABLES
    line,       \* the constants of this transmission: baud, skew, times
    message,    \* the bytes that are sent
    disturbed,  \* the sample of the first frame that is inverted, if any
    driven,     \* half-bits driven so far
    wire,       \* the level they leave
    at,         \* when the next edge callback, tick and unmasking are due
    rx_sm,
    dout_int,   \* the edge interrupt is enabled
    received    \* the results handed out so far

vars == <<line, message, disturbed, driven, wire, at, rx_sm, dout_int, received>>

------------------------------------------------------------------------------
(* Conversion of a byte, and the parity table.                             *)

(* The positions of the one bits of a number.                              *)
Bits(n) == {i \in 0 .. DataBits - 1 : (n \div 2^i) % 2 = 1}

(* bitbang_helper.c's table: sixteen rows, each one of these two.          *)
EvenRow == <<0, 1, 1, 0, 1, 0, 0, 1, 1, 0, 0, 1, 0, 1, 1, 0>>
OddRow  == <<1, 0, 0, 1, 0, 1, 1, 0, 0, 1, 1, 0, 1, 0, 0, 1>>

(* Mutant of ParityTableRows: the last two rows are swapped.               *)
ParityTableRowsSwapped ==
    <<EvenRow, OddRow, OddRow, EvenRow, OddRow, EvenRow, EvenRow, OddRow,
      OddRow, EvenRow, EvenRow, OddRow, EvenRow, OddRow, EvenRow, OddRow>>

ParityTableRows ==
    <<EvenRow, OddRow, OddRow, EvenRow, OddRow, EvenRow, EvenRow, OddRow,
      OddRow, EvenRow, EvenRow, OddRow, EvenRow, OddRow, OddRow, EvenRow>>

parity_lookup_table_256(n) ==
    ParityTableRows[(n \div 16) + 1][(n % 16) + 1] = 1

------------------------------------------------------------------------------
(* The counts that init_ctx computes.                                      *)

(* MXC_TMR_GetPeriod: the clocks of one period at a frequency.             *)
TimerCalcPeriod(frequency) == TimerClock \div frequency

(* Two ticks for each half-bit, two half-bits for each bit.                *)
half_bit_cmp(baud) == TimerCalcPeriod(baud * 2 * 2)

half_bit_initial_cnt == 1

START_BIT_OFFSET_TICKS == 126

(* Mutant of cnt_for_start_bit_sample: the latency is not made up for.     *)
cnt_for_start_bit_sampleUncorrected(baud) == half_bit_initial_cnt

(* Clipped to the compare value.                                           *)
cnt_for_start_bit_sample(baud) ==
    Min({half_bit_initial_cnt + START_BIT_OFFSET_TICKS, half_bit_cmp(baud)})

(* The sender's half-bit: two periods of its timer, on its clock.          *)
HalfBitTime == (2 * half_bit_cmp(line.baud) * line.skew) \div 1000

(* Two nodes, and what is between them.                                    *)
Lines == [baud : Bauds, skew : Skews, latency : Latencies, isr : IsrTimes]

(* The clocks differ by half a percent at most; the timer's start after an *)
(* edge misses what START_BIT_OFFSET_TICKS makes up for by no more than a  *)
(* quarter of the tick's period, and that offset fits into the period; the *)
(* handler of the last tick takes less than half of it.                    *)
Tolerable(l) ==
    LET c == half_bit_cmp(l.baud)
        o == half_bit_initial_cnt + START_BIT_OFFSET_TICKS
    IN  /\ 995 <= l.skew /\ l.skew <= 1005
        /\ o <= c
        /\ 4 * l.latency <= 4 * o + c /\ 4 * o <= 4 * l.latency + c
        /\ 2 * l.isr + 50 <= c

------------------------------------------------------------------------------

Never == -1

NextDrive ==
    IF driven = HalfBits * Len(message) THEN Never ELSE driven * HalfBitTime

(* It is time for the event that is due at t: no other is due before.      *)
Now(t) ==
    /\ t # Never
    /\ \A u \in {NextDrive, at.start, at.tick, at.unmask} : u = Never \/ t <= u

Init ==
    /\ line \in Lines
    /\ \/ message \in Messages  /\ disturbed = HalfBits
       \/ message \in Disturbed /\ disturbed \in 0 .. HalfBits
    /\ driven = 0 /\ wire = TRUE
    /\ at = [start |-> Never, tick |-> Never, unmask |-> Never]
    /\ rx_sm = sm_Init /\ dout_int = TRUE
    /\ received = << >>

(* The level of half-bit number p of the transmission.                     *)
LevelToTx(p) ==
    (p % HalfBits) \in format_byte_for_hbs_tx(Bits(message[p \div HalfBits + 1]))

(* The sender's timer drives the next half-bit; the receiver's edge        *)
(* interrupt takes a falling edge if it is enabled.                        *)
Drive ==
    /\ Now(NextDrive)
    /\ driven' = driven + 1
    /\ wire' = LevelToTx(driven)
    /\ at' = IF wire /\ ~wire' /\ dout_int
             THEN [at EXCEPT !.start = NextDrive + line.latency] ELSE at
    /\ UNCHANGED <<line, message, disturbed, rx_sm, dout_int, received>>

(* FallingEdgeIntCallback: the timer starts from the count it was loaded   *)
(* with.                                                                   *)
StartBit ==
    /\ Now(at.start)
    /\ StartBitEdgeValid(rx_sm)
    /\ rx_sm' = StartBitEdge(rx_sm)
    /\ dout_int' = FALSE
    /\ at' = [at EXCEPT !.start = Never,
                        !.tick  = at.start + half_bit_cmp(line.baud)
                                  - cnt_for_start_bit_sample(line.baud)]
    /\ UNCHANGED <<line, message, disturbed, driven, wire, received>>

(* The tick between two samples.                                           *)
EdgeTick ==
    /\ Now(at.tick) /\ ~WantSample(rx_sm) /\ EdgeValid(rx_sm)
    /\ rx_sm' = BitEdge(rx_sm)
    /\ at' = [at EXCEPT !.tick = @ + half_bit_cmp(line.baud)]
    /\ UNCHANGED <<line, message, disturbed, driven, wire, dout_int, received>>

(* What the handler reads from DOUT.                                       *)
Reading ==
    wire # (received = << >> /\ rx_sm.sampled_total_bit_cnt = disturbed)

Samples == Now(at.tick) /\ WantSample(rx_sm) /\ SampleValid(rx_sm)

SampleTick ==
    /\ Samples /\ ~CompletesFrame(rx_sm)
    /\ rx_sm' = EventSample(rx_sm, Reading)
    /\ at' = [at EXCEPT !.tick = @ + half_bit_cmp(line.baud)]
    /\ UNCHANGED <<line, message, disturbed, driven, wire, dout_int, received>>

(* The last sample: the handler stops the timer and, at its end, enables   *)
(* the edge interrupt.                                                     *)
LastSampleTick ==
    /\ Samples /\ CompletesFrame(rx_sm)
    /\ rx_sm' = EventSample(rx_sm, Reading)
    /\ received' = Append(received, FrameResult(rx_sm, Reading))
    /\ at' = [at EXCEPT !.tick = Never, !.unmask = at.tick + line.isr]
    /\ UNCHANGED <<line, message, disturbed, driven, wire, dout_int>>

UnmaskDout ==
    /\ Now(at.unmask)
    /\ dout_int' = TRUE
    /\ at' = [at EXCEPT !.unmask = Never]
    /\ UNCHANGED <<line, message, disturbed, driven, wire, rx_sm, received>>

Next ==
    \/ Drive \/ StartBit \/ EdgeTick \/ SampleTick \/ LastSampleTick
    \/ UnmaskDout

Spec == Init /\ [][Next]_vars

------------------------------------------------------------------------------

(* Where in the transmission a sample is taken, in clocks.                 *)
SampledHalfBit ==
    HalfBits * Len(received) + rx_sm.sampled_total_bit_cnt

(* Every sample is taken in the half-bit the state machine takes it for,   *)
(* and not within an eighth of it from either end: the receiver's counts   *)
(* and the offset that makes up for the latency keep it near the middle    *)
(* over the 43 ticks of a frame, from an edge to the last off-duty period. *)
SampledInside ==
    Samples =>
        LET margin == HalfBitTime \div 8
            begin  == SampledHalfBit * HalfBitTime
        IN  /\ driven = SampledHalfBit + 1
            /\ at.tick \in begin + margin .. begin + HalfBitTime - margin

Result(byte, flags) == [data |-> byte, error_flags |-> flags]

(* Nothing but these results was received, in their order, and all of them *)
(* once the line is quiet again.                                           *)
Receives(results) ==
    /\ IsPrefix(received, results)
    /\ NextDrive = Never /\ ~rx_sm.ongoing => received = results

(* An undisturbed transmission is received byte for byte, in its order and *)
(* without an error flag, and completely.                                  *)
RoundTrip ==
    disturbed = HalfBits =>
        Receives([f \in DOMAIN message |-> Result(Bits(message[f]), {})])

(* One disturbed sample of the start bit or of an off-duty period is       *)
(* always noticed, the byte is still right, and so are the next frames,    *)
(* none of which is missed.                                                *)
DamageNoticed ==
    disturbed = 0 \/ (disturbed < HalfBits /\ disturbed % 2 = 1) =>
        LET flag == IF disturbed = 0 THEN "START_BIT_SAMPLE" ELSE "OFFDUTY_SAMPLE"
        IN  Receives([f \in DOMAIN message |->
                        Result(Bits(message[f]), IF f = 1 THEN {flag} ELSE {})])

(* The lookup table that both directions use, over all its entries: the    *)
(* byte and its parity bit together have an even number of ones.           *)
ParityTableEven ==
    \A f \in DOMAIN message :
        parity_lookup_table_256(message[f]) = calc_even_parity(Bits(message[f]))

==============================================================================
