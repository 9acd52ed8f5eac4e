--------------------------- MODULE FrameReception ---------------------------
(***************************************************************************)
(* The receive state machine run alone, in the order the interrupt         *)
(* handlers drive it: the start bit's falling edge, then timer ticks that  *)
(* alternate between a sample and the edge of the next half-bit.  Every    *)
(* sample may have either level.                                           *)
(***************************************************************************)
EXTENDS RxStateMachine

CONSTANT NoVerdict    \* before the first frame has completed

VARIABLES
    sm,         \* the _adi_bitbang_sm_t
    verdict,    \* the last *result handed out
    levels      \* history: the levels sampled, by position in the frame

vars == <<sm, verdict, levels>>

Verdict == [data : SUBSET (0 .. DataBits - 1), error_flags : SUBSET FrameErrors]

Init ==
    /\ sm = sm_Init
    /\ verdict = NoVerdict
    /\ levels = [p \in Positions |-> FALSE]

EventStartBitEdge ==
    /\ StartBitEdgeValid(sm)
    /\ sm' = StartBitEdge(sm)
    /\ UNCHANGED <<verdict, levels>>

EventEdge ==
    /\ EdgeValid(sm)
    /\ sm' = BitEdge(sm)
    /\ UNCHANGED <<verdict, levels>>

Sample(bit) ==
    /\ SampleValid(sm)
    /\ sm' = EventSample(sm, bit)
    /\ verdict' = IF CompletesFrame(sm) THEN FrameResult(sm, bit) ELSE verdict
    /\ levels' = [levels EXCEPT ![sm.sampled_total_bit_cnt] = bit]

(* The timer's tick, as max22x88_handle_interrupt_rx dispatches it.        *)
Tick ==
    IF WantSample(sm) THEN \E bit \in BOOLEAN : Sample(bit) ELSE EventEdge

Next == EventStartBitEdge \/ Tick

Spec == Init /\ [][Next]_vars

(* The timer keeps ticking while a frame is in progress.                   *)
FairSpec == Spec /\ WF_vars(Tick)

------------------------------------------------------------------------------

TypeOK ==
    /\ sm \in StateMachine
    /\ verdict \in Verdict \cup {NoVerdict}
    /\ levels \in [Positions -> BOOLEAN]

(* The accumulators say at every moment what the levels heard so far       *)
(* decode to: the ninth "data" sample, which the code takes at the parity  *)
(* half-bit, leaves no trace in the byte, no sample is dropped or taken    *)
(* twice, and between two frames nothing of the last one is left.          *)
AccumulatorsAgree ==
    /\ Agrees(sm, levels, sm.sampled_total_bit_cnt)
    /\ sm.sampled_total_bit_cnt < BITS_SAMPLED_IN_PACKET
    /\ ~sm.ongoing => sm.expecting_edge /\ sm.sampled_total_bit_cnt = 0

(* The on-line accumulation implements decoding a whole frame at once.     *)
Receiver == INSTANCE FrameReceiver
              WITH receiving <- sm.ongoing,
                   count     <- sm.sampled_total_bit_cnt
ReceiverSpec == Receiver!Spec

(* A started frame always ends: the ticks of one frame are finitely many   *)
(* and none of them is refused, so the receiver comes back to the start    *)
(* bit whatever was on the line (it has no other way out of a frame).      *)
FrameEnds == sm.ongoing ~> ~sm.ongoing

(* What the log codes of max22x88_bitbang.h:37-38 promise: a completed     *)
(* frame is reported with a parity error exactly when its parity bit is    *)
(* not the parity of its data, and with a stop bit error exactly when its  *)
(* stop bit was sampled low.  The positions 19 and 21 the code compares    *)
(* with are off-duty half-bits, so it does neither.                        *)
ParityChecked ==
    "PARITY_ERROR" \in verdict.error_flags <=>
        levels[2 * (DataBits + 1)] # calc_even_parity(verdict.data)

StopBitChecked ==
    "STOP_BIT_SAMPLE" \in verdict.error_flags <=> ~levels[2 * (DataBits + 2)]

LastBitsChecked ==
    ~sm.ongoing /\ verdict # NoVerdict => ParityChecked /\ StopBitChecked

==============================================================================
