------------------------ MODULE RxStateMachine_proofs ------------------------
(***************************************************************************)
(* What each function of the receive state machine does to a record of its *)
(* type and to its agreement with the levels, for any number of data bits. *)
(***************************************************************************)
EXTENDS RxStateMachine, TLAPS

(* A record the machine can be in between two calls: the count of samples  *)
(* has not reached the end of a frame.                                     *)
Running(sm) ==
    /\ sm \in StateMachine
    /\ sm.sampled_total_bit_cnt < BITS_SAMPLED_IN_PACKET

LEMMA AccumulateType ==
    ASSUME NEW s \in StateMachine, NEW bit \in BOOLEAN,
           s.sampled_total_bit_cnt < BITS_SAMPLED_IN_PACKET
    PROVE  Accumulate(s, bit) \in StateMachine
<1> USE DataBitsAssumption DEF HalfBits, BITS_SAMPLED_IN_PACKET
<1>1. SampleErrors(s, bit) \subseteq FrameErrors
  BY DEF SampleErrors
<1>2. SampledDataBits(s, bit) \subseteq 0 .. DataBits - 1
  BY DEF SampledDataBits
<1> DEFINE cnt == IF SamplesData(s) THEN s.sampled_data_bit_cnt + 1
                  ELSE IF DutySampleAt(s, START_BIT_POS) /\ bit THEN 0
                  ELSE s.sampled_data_bit_cnt
<1>3. cnt \in Nat
  BY DEF StateMachine
<1>4. /\ s.error_flags \cup SampleErrors(s, bit) \in SUBSET FrameErrors
      /\ s.data \cup SampledDataBits(s, bit) \in SUBSET (0 .. DataBits - 1)
      /\ s.sampled_total_bit_cnt + 1 \in 0 .. BITS_SAMPLED_IN_PACKET
      /\ (~s.expecting_offduty_bit) \in BOOLEAN
  <2>1. /\ s.error_flags \in SUBSET FrameErrors
        /\ s.data \in SUBSET (0 .. DataBits - 1)
        /\ s.sampled_total_bit_cnt \in 0 .. BITS_SAMPLED_IN_PACKET
    BY DEF StateMachine
  <2>2. s.error_flags \cup SampleErrors(s, bit) \in SUBSET FrameErrors
    BY <1>1, <2>1, Zenon
  <2>3. s.data \cup SampledDataBits(s, bit) \in SUBSET (0 .. DataBits - 1)
    BY <1>2, <2>1, Zenon
  <2>4. s.sampled_total_bit_cnt + 1 \in 0 .. BITS_SAMPLED_IN_PACKET
    BY <2>1
  <2>5. (~s.expecting_offduty_bit) \in BOOLEAN
    BY Zenon
  <2>6. QED
    BY <2>2, <2>3, <2>4, <2>5
<1>5. Accumulate(s, bit) =
        [s EXCEPT !.error_flags = s.error_flags \cup SampleErrors(s, bit),
                  !.data = s.data \cup SampledDataBits(s, bit),
                  !.sampled_data_bit_cnt = cnt,
                  !.expecting_offduty_bit = ~s.expecting_offduty_bit,
                  !.sampled_total_bit_cnt = s.sampled_total_bit_cnt + 1]
  BY DEF Accumulate
<1> HIDE DEF cnt
<1>6. QED
  BY <1>3, <1>4, <1>5 DEF StateMachine

LEMMA InitRunning == Running(sm_Init) /\ ~sm_Init.ongoing
BY DataBitsAssumption
   DEF Running, sm_Init, StateMachine, HalfBits, BITS_SAMPLED_IN_PACKET

LEMMA EdgeRunning ==
    ASSUME NEW s, Running(s)
    PROVE  /\ Running(StartBitEdge(s)) /\ StartBitEdge(s).ongoing
           /\ Running(BitEdge(s)) /\ BitEdge(s).ongoing = s.ongoing
BY DEF Running, StateMachine, StartBitEdge, BitEdge

LEMMA SampleRunning ==
    ASSUME NEW s, Running(s), NEW bit \in BOOLEAN
    PROVE  /\ Running(EventSample(s, bit))
           /\ CompletesFrame(s) => ~EventSample(s, bit).ongoing
           /\ ~CompletesFrame(s) => EventSample(s, bit).ongoing = s.ongoing
<1> DEFINE a == Accumulate(s, bit)
<1>1. a \in StateMachine
  BY AccumulateType DEF Running
<1>2. /\ a.ongoing = s.ongoing
      /\ a.sampled_total_bit_cnt = s.sampled_total_bit_cnt + 1
  BY DEF Running, Accumulate, StateMachine
<1> HIDE DEF a
<1>3. CASE CompletesFrame(s)
  BY <1>3, InitRunning DEF EventSample
<1>4. CASE ~CompletesFrame(s)
  <2>1. EventSample(s, bit) = [a EXCEPT !.expecting_edge = TRUE]
    BY <1>4 DEF EventSample, a
  <2>2. s.sampled_total_bit_cnt + 1 < BITS_SAMPLED_IN_PACKET
    BY <1>4, DataBitsAssumption
       DEF CompletesFrame, Running, StateMachine, HalfBits,
           BITS_SAMPLED_IN_PACKET
  <2>3. QED
    BY <1>1, <1>2, <1>4, <2>1, <2>2 DEF Running, StateMachine
<1>5. QED
  BY <1>3, <1>4

(* What a frame's last call hands out.                                     *)
LEMMA ResultTyped ==
    ASSUME NEW s, Running(s), NEW bit \in BOOLEAN
    PROVE  FrameResult(s, bit) \in
             [data : SUBSET (0 .. DataBits - 1), error_flags : SUBSET FrameErrors]
<1>1. Accumulate(s, bit) \in StateMachine
  BY AccumulateType DEF Running
<1>2. QED
  BY <1>1 DEF FrameResult, StateMachine

------------------------------------------------------------------------------
USE DataBitsAssumption DEF HalfBits, BITS_SAMPLED_IN_PACKET, PARITY_BIT_POS,
    STOP_BIT_POS, START_BIT_POS

(* One sample, of whatever state the accumulators agree in.                *)

(* The arithmetic of CountsAgree: c data samples before half-bit n, d after. *)
LEMMA CountStep ==
    ASSUME NEW n \in Nat, NEW c \in Nat, NEW d,
           n \in {0, 1} => c = 0,
           n \in 2 .. PARITY_BIT_POS => 2 * c = (n - 2) + (n % 2),
           d = IF n % 2 # 1 /\ n > 0 /\ n < PARITY_BIT_POS THEN c + 1 ELSE c
    PROVE  /\ n + 1 \in {0, 1} => d = 0
           /\ n + 1 \in 2 .. PARITY_BIT_POS =>
                2 * d = (n + 1 - 2) + ((n + 1) % 2)
           /\ (n + 1) % 2 = 1 <=> n % 2 # 1
<1>1. \/ n % 2 = 0 /\ (n + 1) % 2 = 1
      \/ n % 2 = 1 /\ (n + 1) % 2 = 0
  OBVIOUS
<1>2. CASE n = 0
  BY <1>2
<1>3. CASE n = 1
  BY <1>3
<1>4. CASE n > 1 /\ n % 2 = 0
  BY <1>1, <1>4
<1>5. CASE n > 1 /\ n % 2 = 1
  BY <1>1, <1>5
<1>6. QED
  BY <1>1, <1>2, <1>3, <1>4, <1>5

LEMMA AccumulateAgrees ==
    ASSUME NEW s \in StateMachine, NEW bit \in BOOLEAN,
           NEW l \in [Positions -> BOOLEAN], NEW n \in Positions,
           Agrees(s, l, n)
    PROVE  Agrees(Accumulate(s, bit), [l EXCEPT ![n] = bit], n + 1)
<1> DEFINE a == Accumulate(s, bit)
           m == [l EXCEPT ![n] = bit]
<1>1. /\ s.sampled_total_bit_cnt = n
      /\ s.expecting_offduty_bit <=> n % 2 = 1
      /\ s.data = DataUpTo(l, n)
      /\ s.error_flags = FlagsUpTo(l, n)
  BY DEF Agrees, CountsAgree
<1>2. /\ a.data = s.data \cup SampledDataBits(s, bit)
      /\ a.error_flags = s.error_flags \cup SampleErrors(s, bit)
      /\ a.expecting_offduty_bit <=> ~s.expecting_offduty_bit
      /\ a.sampled_total_bit_cnt = n + 1
      /\ a.sampled_data_bit_cnt =
           IF SamplesData(s) THEN s.sampled_data_bit_cnt + 1
           ELSE IF DutySampleAt(s, START_BIT_POS) /\ bit THEN 0
           ELSE s.sampled_data_bit_cnt
  BY <1>1 DEF Accumulate, StateMachine
<1>3. /\ m[n] = bit
      /\ \A p \in Positions : p # n => m[p] = l[p]
  BY DEF Positions
<1>4. a.data = DataUpTo(m, n + 1)
  <2>1. ASSUME NEW i \in 0 .. DataBits - 1
        PROVE  i \in SampledDataBits(s, bit) <=> 2 * (i + 1) = n /\ bit
    BY <1>1 DEF SampledDataBits, SamplesData, Agrees, CountsAgree,
       StateMachine, Positions
  <2>2. ASSUME NEW i \in 0 .. DataBits - 1
        PROVE  /\ 2 * (i + 1) \in Positions
               /\ 2 * (i + 1) < n + 1 <=> 2 * (i + 1) < n \/ 2 * (i + 1) = n
               /\ 2 * (i + 1) < n => 2 * (i + 1) # n
    BY DEF Positions
  <2>3. ASSUME NEW i \in 0 .. DataBits - 1
        PROVE  i \in DataUpTo(m, n + 1) <=>
                 i \in DataUpTo(l, n) \/ i \in SampledDataBits(s, bit)
    BY <2>1, <2>2, <1>3 DEF DataUpTo
  <2>4. SampledDataBits(s, bit) \subseteq 0 .. DataBits - 1
    BY DEF SampledDataBits
  <2>5. DataUpTo(m, n + 1) \subseteq 0 .. DataBits - 1
        /\ DataUpTo(l, n) \subseteq 0 .. DataBits - 1
    BY DEF DataUpTo
  <2>6. QED
    BY <1>1, <1>2, <2>3, <2>4, <2>5
<1>5. a.error_flags = FlagsUpTo(m, n + 1)
  <2>1. SampleErrors(s, bit) = {e \in FrameErrors :
          \/ e = "START_BIT_SAMPLE" /\ n = 0 /\ bit
          \/ e = "OFFDUTY_SAMPLE" /\ n % 2 = 1 /\ ~bit}
    BY <1>1 DEF SampleErrors, DutySampleAt, Positions, FrameErrors
  <2>2. n + 1 > 0 /\ m[0] <=> (n > 0 /\ l[0]) \/ (n = 0 /\ bit)
    BY <1>3 DEF Positions
  <2>3. (\E p \in Positions : p < n + 1 /\ p % 2 = 1 /\ ~m[p])
          <=> \/ \E p \in Positions : p < n /\ p % 2 = 1 /\ ~l[p]
              \/ n % 2 = 1 /\ ~bit
    <3>1. \A p \in Positions : p < n + 1 <=> p < n \/ p = n
      BY DEF Positions
    <3>2. \A p \in Positions : p < n => p # n
      BY DEF Positions
    <3>3. QED
      BY <1>3, <3>1, <3>2
  <2>4. QED
    BY <1>1, <1>2, <2>1, <2>2, <2>3 DEF FlagsUpTo
<1>6. CountsAgree(a, n + 1)
  <2> DEFINE c == s.sampled_data_bit_cnt
  <2>1. /\ n \in Nat /\ c \in Nat
        /\ n \in {0, 1} => c = 0
        /\ n \in 2 .. PARITY_BIT_POS => 2 * c = (n - 2) + (n % 2)
    BY DEF Agrees, CountsAgree, StateMachine, Positions
  <2>2. /\ SamplesData(s) <=> n % 2 # 1 /\ n > 0 /\ n < PARITY_BIT_POS
        /\ DutySampleAt(s, START_BIT_POS) <=> n % 2 # 1 /\ n = 0
    BY <1>1, <2>1 DEF SamplesData, DutySampleAt
  <2>3. a.sampled_data_bit_cnt =
          IF n % 2 # 1 /\ n > 0 /\ n < PARITY_BIT_POS THEN c + 1 ELSE c
    <3> HIDE DEF a
    <3>1. CASE n = 0
      BY <3>1, <1>2, <2>1, <2>2
    <3>2. CASE n # 0
      BY <3>2, <1>2, <2>1, <2>2
    <3>3. QED
      BY <3>1, <3>2
  <2>4. /\ n + 1 \in {0, 1} => a.sampled_data_bit_cnt = 0
        /\ n + 1 \in 2 .. PARITY_BIT_POS =>
             2 * a.sampled_data_bit_cnt = (n + 1 - 2) + ((n + 1) % 2)
        /\ (n + 1) % 2 = 1 <=> n % 2 # 1
    <3> HIDE DEF a, c
    <3> QED
      BY <2>1, <2>3, CountStep
  <2>5. a.expecting_offduty_bit <=> (n + 1) % 2 = 1
    BY <1>1, <1>2, <2>4
  <2> HIDE DEF a
  <2>6. QED
    BY <1>2, <2>1, <2>4, <2>5 DEF CountsAgree
<1>7. QED
  BY <1>4, <1>5, <1>6 DEF Agrees

(* Between frames nothing is left of the last one.                         *)
LEMMA ResetAgrees ==
    ASSUME NEW l \in [Positions -> BOOLEAN]
    PROVE  sm_Init \in StateMachine /\ Agrees(sm_Init, l, 0)
<1>1. DataUpTo(l, 0) = {} /\ FlagsUpTo(l, 0) = {}
  BY DEF DataUpTo, FlagsUpTo, Positions
<1>2. QED
  BY <1>1 DEF sm_Init, StateMachine, Agrees, CountsAgree

(* The levels l are known in advance, and the sample is one of them.       *)
LEMMA SampleAgrees ==
    ASSUME NEW s, Running(s), NEW l \in [Positions -> BOOLEAN],
           NEW n \in Positions, Agrees(s, l, n)
    PROVE  /\ CompletesFrame(s) <=> n + 1 = HalfBits
           /\ CompletesFrame(s) =>
                FrameResult(s, l[n]) = [data        |-> DataUpTo(l, HalfBits),
                                        error_flags |-> FlagsUpTo(l, HalfBits)]
           /\ ~CompletesFrame(s) => Agrees(EventSample(s, l[n]), l, n + 1)
<1>. DEFINE a == Accumulate(s, l[n])
<1>1. s \in StateMachine /\ s.sampled_total_bit_cnt = n
  BY DEF Running, Agrees, CountsAgree
<1>2. l[n] \in BOOLEAN /\ [l EXCEPT ![n] = l[n]] = l
  OBVIOUS
<1>3. Agrees(a, l, n + 1)
  <2>1. Agrees(a, [l EXCEPT ![n] = l[n]], n + 1)
    BY <1>1, <1>2, AccumulateAgrees
  <2>. QED
    BY <1>2, <2>1
<1>4. a \in StateMachine
  BY <1>1, <1>2, AccumulateType DEF Running
<1>5. CompletesFrame(s) <=> n + 1 = HalfBits
  BY <1>1 DEF CompletesFrame
<1>6. FrameResult(s, l[n]) = [data |-> a.data, error_flags |-> a.error_flags]
  BY DEF FrameResult
<1>7. ~CompletesFrame(s) =>
        EventSample(s, l[n]) = [a EXCEPT !.expecting_edge = TRUE]
  BY DEF EventSample
<1>. HIDE DEF a
<1>8. CASE CompletesFrame(s)
  BY <1>3, <1>5, <1>6, <1>8 DEF Agrees
<1>9. CASE ~CompletesFrame(s)
  BY <1>3, <1>4, <1>5, <1>7, <1>9 DEF Agrees, CountsAgree, StateMachine
<1>. QED
  BY <1>8, <1>9

LEMMA EdgeAgrees ==
    ASSUME NEW s \in StateMachine, NEW l, NEW n, Agrees(s, l, n)
    PROVE  Agrees(StartBitEdge(s), l, n) /\ Agrees(BitEdge(s), l, n)
BY DEF StartBitEdge, BitEdge, StateMachine, Agrees, CountsAgree

------------------------------------------------------------------------------
(* A frame as it was sent, and as it arrives.                              *)

(* A frame begins low, its off-duty half-bits are high, and every data bit *)
(* is at its place.                                                        *)
LEMMA FrameShape ==
    ASSUME NEW value \in Byte
    PROVE  /\ 0 \notin format_byte_for_hbs_tx(value)
           /\ \A p \in Positions :
                p % 2 = 1 => p \in format_byte_for_hbs_tx(value)
           /\ \A i \in 0 .. DataBits - 1 :
                2 * (i + 1) \in format_byte_for_hbs_tx(value) <=> i \in value
<1>. DEFINE prepared == value \cup
                  (IF calc_even_parity(value) THEN {DataBits} ELSE {})
                  \cup {DataBits + 1}
<1>1. /\ prepared \subseteq 0 .. DataBits + 1
      /\ \A i \in 0 .. DataBits - 1 : i \in prepared <=> i \in value
  BY DEF Byte
<1>2. format_byte_for_hbs_tx(value) =
        {2 * i : i \in {j + 1 : j \in prepared}}
          \cup {p \in 0 .. HalfBits - 1 : p % 2 = 1}
  BY DEF format_byte_for_hbs_tx, stuff_byte, SpreadBits
<1>. HIDE DEF prepared
<1>3. \A p : p \in format_byte_for_hbs_tx(value) <=>
        \/ \E j \in prepared : p = 2 * (j + 1)
        \/ p \in 0 .. HalfBits - 1 /\ p % 2 = 1
  BY <1>2
<1>4. 0 \notin format_byte_for_hbs_tx(value)
  BY <1>1, <1>3
<1>5. \A p \in Positions : p % 2 = 1 => p \in format_byte_for_hbs_tx(value)
  BY <1>3 DEF Positions
<1>6. ASSUME NEW i \in 0 .. DataBits - 1
      PROVE  2 * (i + 1) \in format_byte_for_hbs_tx(value) <=> i \in value
  <2>1. (2 * (i + 1)) % 2 # 1
    OBVIOUS
  <2>2. \A j \in prepared : 2 * (i + 1) = 2 * (j + 1) => j = i
    BY <1>1
  <2>. QED
    BY <1>1, <1>3, <2>1, <2>2
<1>. QED
  BY <1>4, <1>5, <1>6

(* The levels of a byte's frame, the one of half-bit d inverted; none is,  *)
(* if d is not one of the frame's.                                         *)
Arriving(value, d) ==
    [p \in Positions |-> (p \in format_byte_for_hbs_tx(value)) # (p = d)]

(* The flags that report it.                                               *)
NoticedIn(d) ==
    IF d = 0 THEN {"START_BIT_SAMPLE"}
    ELSE IF d \in Positions /\ d % 2 = 1 THEN {"OFFDUTY_SAMPLE"} ELSE {}

LEMMA DisturbedFrame ==
    ASSUME NEW value \in Byte, NEW d
    PROVE  /\ DataUpTo(Arriving(value, d), HalfBits) =
                {i \in 0 .. DataBits - 1 : (i \in value) # (d = 2 * (i + 1))}
           /\ FlagsUpTo(Arriving(value, d), HalfBits) = NoticedIn(d)
<1>. DEFINE l == Arriving(value, d)
            frame == format_byte_for_hbs_tx(value)
<1>1. \A p \in Positions : l[p] <=> ((p \in frame) # (p = d))
  BY DEF Arriving
<1>2. /\ 0 \notin frame
      /\ \A p \in Positions : p % 2 = 1 => p \in frame
      /\ \A i \in 0 .. DataBits - 1 : 2 * (i + 1) \in frame <=> i \in value
  BY FrameShape
<1>. HIDE DEF l, frame
<1>3. ASSUME NEW i \in 0 .. DataBits - 1
      PROVE  i \in DataUpTo(l, HalfBits) <=> (i \in value) # (d = 2 * (i + 1))
  <2>1. 2 * (i + 1) \in Positions /\ 2 * (i + 1) < HalfBits
    BY DEF Positions
  <2>. QED
    BY <1>1, <1>2, <2>1 DEF DataUpTo
<1>4. FlagsUpTo(l, HalfBits) = NoticedIn(d)
  <2>1. /\ 0 \in Positions /\ HalfBits > 0
        /\ \A p \in Positions : p < HalfBits /\ (p % 2 = 1 => p # 0)
    BY DEF Positions
  <2>2. l[0] <=> d = 0
    BY <1>1, <1>2, <2>1
  <2>3. (\E p \in Positions : p < HalfBits /\ p % 2 = 1 /\ ~l[p])
          <=> d \in Positions /\ d % 2 = 1
    BY <1>1, <1>2, <2>1
  <2>. QED
    BY <2>1, <2>2, <2>3 DEF FlagsUpTo, FrameErrors, NoticedIn
<1>5. DataUpTo(l, HalfBits) \subseteq 0 .. DataBits - 1
  BY DEF DataUpTo
<1>. QED
  BY <1>3, <1>4, <1>5 DEF l

==============================================================================
