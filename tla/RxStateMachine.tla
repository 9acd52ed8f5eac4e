--------------------------- MODULE RxStateMachine ---------------------------
(***************************************************************************)
(* max22x88_bitbang_rx_state_machine.c: the functions that turn the edges  *)
(* and samples of one frame into a byte and a set of error flags.  They    *)
(* are operators on the state machine's record, so that FrameReception     *)
(* runs them alone and BitbangDriver inside its interrupt handlers.        *)
(* A function that returns false leaves the record as it was: the guards   *)
(* StartBitEdgeValid, EdgeValid and SampleValid are its return value.      *)
(***************************************************************************)
EXTENDS Framing

BITS_SAMPLED_IN_PACKET == HalfBits

START_BIT_POS  == 0
PARITY_BIT_POS == 2 * (DataBits + 1) + 1    \* 19
STOP_BIT_POS   == 2 * (DataBits + 2) + 1    \* 21

FrameErrors == {"START_BIT_SAMPLE", "STOP_BIT_SAMPLE",
                "OFFDUTY_SAMPLE", "PARITY_ERROR"}

StateMachine ==
    [data                  : SUBSET (0 .. DataBits - 1),
     error_flags           : SUBSET FrameErrors,
     sampled_data_bit_cnt  : Nat,
     sampled_total_bit_cnt : 0 .. BITS_SAMPLED_IN_PACKET,
     expecting_edge        : BOOLEAN,
     ongoing               : BOOLEAN,
     expecting_offduty_bit : BOOLEAN]

sm_Init ==
    [data                  |-> {},
     error_flags           |-> {},
     sampled_data_bit_cnt  |-> 0,
     sampled_total_bit_cnt |-> 0,
     expecting_edge        |-> TRUE,
     ongoing               |-> FALSE,
     expecting_offduty_bit |-> FALSE]

------------------------------------------------------------------------------
(* The edge events and the question WantSample.                            *)

StartBitEdgeValid(sm) == ~sm.ongoing

StartBitEdge(sm) == [sm EXCEPT !.ongoing = TRUE, !.expecting_edge = FALSE]

WantSample(sm) == ~sm.expecting_edge

EdgeValid(sm) == sm.ongoing /\ sm.expecting_edge

(* Mutant of BitEdge: the edge is still expected.                          *)
BitEdgeKept(sm) == sm

BitEdge(sm) == [sm EXCEPT !.expecting_edge = FALSE]

------------------------------------------------------------------------------
(* The sample event.                                                       *)

SampleValid(sm) == sm.ongoing /\ ~sm.expecting_edge

(* The duty half-bit at position pos is the one being sampled.             *)
DutySampleAt(sm, pos) ==
    ~sm.expecting_offduty_bit /\ sm.sampled_total_bit_cnt = pos

(* Mutant of SamplesData: the start bit counts as data.                    *)
SamplesDataFromStart(sm) ==
    /\ ~sm.expecting_offduty_bit
    /\ sm.sampled_total_bit_cnt < PARITY_BIT_POS

SamplesData(sm) ==
    /\ ~sm.expecting_offduty_bit
    /\ sm.sampled_total_bit_cnt > START_BIT_POS
    /\ sm.sampled_total_bit_cnt < PARITY_BIT_POS

SampleErrors(sm, bit) == {e \in FrameErrors :
    \/ e = "OFFDUTY_SAMPLE"   /\ sm.expecting_offduty_bit         /\ ~bit
    \/ e = "START_BIT_SAMPLE" /\ DutySampleAt(sm, START_BIT_POS)  /\ bit
    \/ e = "STOP_BIT_SAMPLE"  /\ DutySampleAt(sm, STOP_BIT_POS)   /\ ~bit
    \/ e = "PARITY_ERROR"     /\ DutySampleAt(sm, PARITY_BIT_POS)
                              /\ bit # calc_even_parity(sm.data)}

(* The bits that |= 1 << sampled_data_bit_cnt adds to a uint8_t: none once *)
(* the count has left the type's width.                                    *)
SampledDataBits(sm, bit) ==
    IF SamplesData(sm) /\ bit
    THEN {sm.sampled_data_bit_cnt} \cap (0 .. DataBits - 1)
    ELSE {}

Accumulate(sm, bit) ==
    [sm EXCEPT
      !.error_flags           = @ \cup SampleErrors(sm, bit),
      !.data                  = @ \cup SampledDataBits(sm, bit),
      !.sampled_data_bit_cnt  =
          IF SamplesData(sm) THEN @ + 1
          ELSE IF DutySampleAt(sm, START_BIT_POS) /\ bit THEN 0 ELSE @,
      !.expecting_offduty_bit = ~@,
      !.sampled_total_bit_cnt = @ + 1]

(* The call that samples the frame's last half-bit sets *finished.         *)
CompletesFrame(sm) ==
    sm.sampled_total_bit_cnt + 1 = BITS_SAMPLED_IN_PACKET

(* Mutant of FrameResult: the result is copied before the last sample.     *)
FrameResultEarly(sm, bit) ==
    [data |-> sm.data, error_flags |-> sm.error_flags]

(* *result, for the call that completes the frame.                         *)
FrameResult(sm, bit) ==
    LET last == Accumulate(sm, bit)
    IN  [data |-> last.data, error_flags |-> last.error_flags]

(* Mutant of EventSample: a finished frame does not reset the machine.     *)
EventSampleUnreset(sm, bit) ==
    [Accumulate(sm, bit) EXCEPT !.expecting_edge = TRUE]

EventSample(sm, bit) ==
    IF CompletesFrame(sm)
    THEN sm_Init
    ELSE [Accumulate(sm, bit) EXCEPT !.expecting_edge = TRUE]

------------------------------------------------------------------------------
(* What the record holds, as a function of the levels that were sampled.   *)

Positions == 0 .. HalfBits - 1

(* What the first n half-bits of l decode to.                              *)
DataUpTo(l, n) == {i \in 0 .. DataBits - 1 : 2 * (i + 1) < n /\ l[2 * (i + 1)]}

FlagsUpTo(l, n) == {e \in FrameErrors :
    \/ e = "START_BIT_SAMPLE" /\ n > 0 /\ l[0]
    \/ /\ e = "OFFDUTY_SAMPLE"
       /\ \E p \in Positions : p < n /\ p % 2 = 1 /\ ~l[p]}

(* The duty samples after the start bit are counted up to the parity bit,  *)
(* and the off-duty toggle agrees with the parity of the total.            *)
CountsAgree(s, n) ==
    /\ s.sampled_total_bit_cnt = n
    /\ s.expecting_offduty_bit <=> n % 2 = 1
    /\ n \in {0, 1} => s.sampled_data_bit_cnt = 0
    /\ n \in 2 .. PARITY_BIT_POS =>
         2 * s.sampled_data_bit_cnt = (n - 2) + (n % 2)

Agrees(s, l, n) ==
    /\ s.data = DataUpTo(l, n)
    /\ s.error_flags = FlagsUpTo(l, n)
    /\ CountsAgree(s, n)

==============================================================================
