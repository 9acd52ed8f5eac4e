------------------------ MODULE FrameReception_proofs ------------------------
(***************************************************************************)
(* For every number of data bits: the receive state machine keeps its      *)
(* types, its accumulators agree with the levels it was handed, and it     *)
(* implements FrameReceiver.                                               *)
(***************************************************************************)
EXTENDS FrameReception, RxStateMachine_proofs

USE DataBitsAssumption DEF HalfBits, BITS_SAMPLED_IN_PACKET, PARITY_BIT_POS,
    STOP_BIT_POS, START_BIT_POS, Receiver!HalfBits

(* The inductive invariant: what AccumulatorsAgree says of the levels is   *)
(* also what makes each of the state machine's own counters right.         *)
IInv == TypeOK /\ AccumulatorsAgree

------------------------------------------------------------------------------
(* The invariant is inductive.                                             *)

LEMMA InitIInv == Init => IInv
<1> SUFFICES ASSUME Init PROVE IInv
  OBVIOUS
<1>1. levels \in [Positions -> BOOLEAN]
  BY DEF Init
<1>2. sm_Init \in StateMachine /\ Agrees(sm_Init, levels, 0)
  BY <1>1, ResetAgrees
<1>3. sm = sm_Init /\ verdict = NoVerdict
  BY DEF Init
<1>4. QED
  BY <1>1, <1>2, <1>3 DEF IInv, TypeOK, AccumulatorsAgree, sm_Init

LEMMA ResultType ==
    ASSUME IInv, NEW bit \in BOOLEAN
    PROVE  FrameResult(sm, bit) \in Verdict
<1>1. Accumulate(sm, bit) \in StateMachine
  BY AccumulateType DEF IInv, TypeOK, AccumulatorsAgree
<1>2. QED
  BY <1>1 DEF FrameResult, Verdict, StateMachine

LEMMA NextIInv == IInv /\ [Next]_vars => IInv'
<1> SUFFICES ASSUME IInv, [Next]_vars PROVE IInv'
  OBVIOUS
<1> USE DEF IInv
<1> DEFINE n == sm.sampled_total_bit_cnt
<1>0. /\ sm \in StateMachine
      /\ n \in Positions
      /\ Agrees(sm, levels, n)
      /\ levels \in [Positions -> BOOLEAN]
      /\ verdict \in Verdict \cup {NoVerdict}
  BY DEF TypeOK, AccumulatorsAgree, StateMachine, Positions
<1>1. CASE EventStartBitEdge
  <2>1. /\ sm' \in StateMachine
        /\ Agrees(sm', levels, n)
        /\ sm'.sampled_total_bit_cnt = n /\ sm'.ongoing
    BY <1>0, <1>1 DEF EventStartBitEdge, StartBitEdge, StateMachine, Agrees,
       CountsAgree
  <2>2. QED
    BY <1>0, <1>1, <2>1 DEF EventStartBitEdge, TypeOK, AccumulatorsAgree
<1>2. CASE EventEdge
  <2>1. /\ sm' \in StateMachine
        /\ Agrees(sm', levels, n)
        /\ sm'.sampled_total_bit_cnt = n /\ sm'.ongoing
    BY <1>0, <1>2 DEF EventEdge, EdgeValid, BitEdge, StateMachine, Agrees,
       CountsAgree
  <2>2. QED
    BY <1>0, <1>2, <2>1 DEF EventEdge, TypeOK, AccumulatorsAgree
<1>3. ASSUME NEW bit \in BOOLEAN, Sample(bit) PROVE IInv'
  <2> DEFINE a == Accumulate(sm, bit)
  <2>1. /\ levels' = [levels EXCEPT ![n] = bit]
        /\ levels' \in [Positions -> BOOLEAN]
    BY <1>0, <1>3 DEF Sample
  <2>2. verdict' \in Verdict \cup {NoVerdict}
    BY <1>0, <1>3, ResultType DEF Sample
  <2>3. CASE CompletesFrame(sm)
    <3>1. sm' = sm_Init
      BY <1>3, <2>3 DEF Sample, EventSample
    <3>2. sm' \in StateMachine /\ Agrees(sm', levels', 0)
      BY <2>1, <3>1, ResetAgrees
    <3>3. QED
      BY <2>1, <2>2, <3>1, <3>2 DEF TypeOK, AccumulatorsAgree, sm_Init
  <2>4. CASE ~CompletesFrame(sm)
    <3>1. a \in StateMachine
      BY <1>0, AccumulateType DEF AccumulatorsAgree
    <3>2. Agrees(a, levels', n + 1)
      BY <1>0, <2>1, AccumulateAgrees
    <3>3. sm' = [a EXCEPT !.expecting_edge = TRUE]
      BY <1>3, <2>4 DEF Sample, EventSample
    <3> HIDE DEF a
    <3>4. sm' \in StateMachine
      BY <3>1, <3>3 DEF StateMachine
    <3>5. Agrees(sm', levels', n + 1)
      BY <3>1, <3>2, <3>3 DEF Agrees, CountsAgree, StateMachine
    <3>6. n + 1 < BITS_SAMPLED_IN_PACKET
      BY <1>0, <2>4 DEF CompletesFrame, Positions
    <3>7. sm'.ongoing = sm.ongoing /\ sm.ongoing
      BY <1>3, <1>0, <3>1, <3>3
         DEF Sample, SampleValid, a, Accumulate, StateMachine
    <3>8. sm'.sampled_total_bit_cnt = n + 1
      BY <3>5 DEF Agrees, CountsAgree
    <3>9. QED
      BY <2>1, <2>2, <3>4, <3>5, <3>6, <3>7, <3>8
         DEF TypeOK, AccumulatorsAgree
  <2>5. QED
    BY <2>3, <2>4
<1>4. CASE UNCHANGED vars
  BY <1>4 DEF vars, TypeOK, AccumulatorsAgree, Agrees, CountsAgree
<1>5. QED
  BY <1>1, <1>2, <1>3, <1>4 DEF Next, Tick

(* The state machine keeps its types, for any number of data bits.         *)
THEOREM TypeCorrect == Spec => []TypeOK
<1>1. IInv => TypeOK
  BY DEF IInv
<1>2. QED
  BY <1>1, InitIInv, NextIInv, PTL DEF Spec

(* The accumulators agree with the levels heard, for any number of data    *)
(* bits (max22x88_bb_rx_sm_EventSample).                                   *)
THEOREM Agreement == Spec => []AccumulatorsAgree
<1>1. IInv => AccumulatorsAgree
  BY DEF IInv
<1>2. QED
  BY <1>1, InitIInv, NextIInv, PTL DEF Spec

------------------------------------------------------------------------------
(* Refinement.                                                             *)

(* What has been accumulated at the end of the frame is its decoding.      *)
LEMMA WholeFrame ==
    ASSUME NEW l \in [Positions -> BOOLEAN]
    PROVE  [data |-> DataUpTo(l, HalfBits), error_flags |-> FlagsUpTo(l, HalfBits)]
             = Receiver!Decode(l)
<1>1. \A i \in 0 .. DataBits - 1 : 2 * (i + 1) < HalfBits
  OBVIOUS
<1>2. \A p \in Positions : p < HalfBits
  BY DEF Positions
<1>3. DataUpTo(l, HalfBits) = {i \in 0 .. DataBits - 1 : l[2 * (i + 1)]}
  BY <1>1 DEF DataUpTo
<1>4. FlagsUpTo(l, HalfBits) =
        {e \in {"START_BIT_SAMPLE", "OFFDUTY_SAMPLE"} :
           \/ e = "START_BIT_SAMPLE" /\ l[0]
           \/ /\ e = "OFFDUTY_SAMPLE"
              /\ \E p \in Positions : p % 2 = 1 /\ ~l[p]}
  BY <1>2 DEF FlagsUpTo, FrameErrors
<1>5. QED
  BY <1>3, <1>4 DEF Receiver!Decode, Receiver!Positions, Positions

LEMMA InitRefines == Init => Receiver!Init
BY DEF Init, sm_Init, Receiver!Init, Positions, Receiver!Positions

LEMMA StepRefines ==
    IInv /\ [Next]_vars => [Receiver!Next]_(Receiver!vars)
<1> SUFFICES ASSUME IInv, [Next]_vars
             PROVE  Receiver!Next \/ UNCHANGED Receiver!vars
  OBVIOUS
<1> DEFINE n == sm.sampled_total_bit_cnt
<1>0. /\ sm \in StateMachine
      /\ n \in Positions
      /\ Agrees(sm, levels, n)
      /\ levels \in [Positions -> BOOLEAN]
      /\ ~sm.ongoing => n = 0
  BY DEF IInv, TypeOK, AccumulatorsAgree, StateMachine, Positions
<1>1. CASE EventStartBitEdge
  <2>1. Receiver!Begin
    BY <1>0, <1>1 DEF EventStartBitEdge, StartBitEdgeValid, StartBitEdge,
       StateMachine, Receiver!Begin
  <2>2. QED
    BY <2>1 DEF Receiver!Next
<1>2. CASE EventEdge
  BY <1>0, <1>2 DEF EventEdge, BitEdge, StateMachine, Receiver!vars
<1>3. ASSUME NEW bit \in BOOLEAN, Sample(bit) PROVE Receiver!Next
  <2> DEFINE a == Accumulate(sm, bit)
  <2>1. /\ levels' = [levels EXCEPT ![n] = bit]
        /\ sm.ongoing
    BY <1>3 DEF Sample, SampleValid
  <2>2. a \in StateMachine
    BY <1>0, AccumulateType DEF Positions
  <2>3. Agrees(a, levels', n + 1)
    BY <1>0, <2>1, AccumulateAgrees
  <2>4. CASE CompletesFrame(sm)
    <3>1. n + 1 = HalfBits
      BY <2>4 DEF CompletesFrame
    <3>2. verdict' = [data |-> a.data, error_flags |-> a.error_flags]
      BY <1>3, <2>4 DEF Sample, FrameResult
    <3>3. levels' \in [Positions -> BOOLEAN]
      BY <1>0, <2>1
    <3> HIDE DEF a
    <3>4. verdict' = Receiver!Decode(levels')
      BY <2>3, <3>1, <3>2, <3>3, WholeFrame DEF Agrees
    <3>5. sm'.ongoing = FALSE /\ sm'.sampled_total_bit_cnt = 0
      BY <1>3, <2>4 DEF Sample, EventSample, sm_Init
    <3>6. Receiver!HearLast(bit)
      BY <2>1, <3>1, <3>4, <3>5 DEF Receiver!HearLast
    <3>7. QED
      BY <3>6 DEF Receiver!Next
  <2>5. CASE ~CompletesFrame(sm)
    <3>1. n + 1 < HalfBits
      BY <1>0, <2>5 DEF CompletesFrame, Positions
    <3>2. sm' = [a EXCEPT !.expecting_edge = TRUE]
      BY <1>3, <2>5 DEF Sample, EventSample
    <3>3. a.ongoing = sm.ongoing
      BY <1>0 DEF Accumulate, StateMachine
    <3>4. verdict' = verdict
      BY <1>3, <2>5 DEF Sample
    <3> HIDE DEF a
    <3>5. sm'.ongoing = sm.ongoing /\ sm'.sampled_total_bit_cnt = n + 1
      BY <2>2, <2>3, <3>2, <3>3 DEF Agrees, CountsAgree, StateMachine
    <3>6. Receiver!Hear(bit)
      BY <2>1, <3>1, <3>4, <3>5 DEF Receiver!Hear
    <3>7. QED
      BY <3>6 DEF Receiver!Next
  <2>6. QED
    BY <2>4, <2>5
<1>4. CASE UNCHANGED vars
  BY <1>4 DEF vars, Receiver!vars
<1>5. QED
  BY <1>1, <1>2, <1>3, <1>4 DEF Next, Tick

(* Accumulating the samples one by one implements decoding the whole frame *)
(* at once, for any number of data bits.                                   *)
THEOREM Implements == Spec => ReceiverSpec
<1>1. IInv /\ [Next]_vars => [Receiver!Next]_(Receiver!vars)
  BY StepRefines
<1>2. QED
  BY <1>1, InitIInv, NextIInv, InitRefines, PTL
     DEF Spec, ReceiverSpec, Receiver!Spec

------------------------------------------------------------------------------
(* Sender and receiver agree on the frame.                                 *)

(* What format_byte_for_hbs_tx makes of a byte the receive state machine   *)
(* decodes to this byte, without an error flag, if every level arrives     *)
(* (d = HalfBits).  One inverted level is reported if it is the start      *)
(* bit's or an off-duty one, and costs nothing; in a data bit it inverts   *)
(* this bit of the result and is not reported; in the parity or the stop   *)
(* bit it goes unnoticed.                                                  *)
THEOREM OneDisturbance ==
    ASSUME NEW value \in Byte, NEW d \in 0 .. HalfBits
    PROVE  Receiver!Decode(Arriving(value, d)) =
             [data        |-> {i \in 0 .. DataBits - 1 :
                                 (i \in value) # (d = 2 * (i + 1))},
              error_flags |-> NoticedIn(d)]
<1>1. Arriving(value, d) \in [Positions -> BOOLEAN]
  BY DEF Arriving
<1>. QED
  BY <1>1, WholeFrame, DisturbedFrame

==============================================================================
