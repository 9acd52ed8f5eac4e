-------------------------- MODULE LineTiming_proofs --------------------------
(***************************************************************************)
(* Sender and receiver in real time, for every baud rate, timer clock,     *)
(* latency and message: if the samples of one frame fall into their        *)
(* half-bits when they are counted from its start edge, then so do all     *)
(* samples of a transmission, and it is received as it was sent.           *)
(***************************************************************************)
EXTENDS LineTiming, RxStateMachine_proofs, SequenceTheorems,
        FiniteSetTheorems

USE WidthAssumption, TimingAssumption
    DEF HalfBits, BITS_SAMPLED_IN_PACKET

------------------------------------------------------------------------------
(* The times of one frame, and what is assumed of them.                    *)

(* HalfBitTime, of any line.                                               *)
HalfBit(l) == (2 * half_bit_cmp(l.baud) * l.skew) \div 1000

(* Clocks from the start edge of a frame to its sample number s: the timer *)
(* starts late but with a head start, and every second tick is a sample.   *)
SampleTime(l, s) ==
    l.latency - cnt_for_start_bit_sample(l.baud)
      + (2 * s + 1) * half_bit_cmp(l.baud)

(* Every sample is in its half-bit, this far from both of its ends.        *)
Inside(l, margin) ==
    \A s \in Positions :
        /\ s * HalfBit(l) + margin <= SampleTime(l, s)
        /\ SampleTime(l, s) <= (s + 1) * HalfBit(l) - margin

(* The edge interrupt is enabled again before the next frame.              *)
ReadyInTime(l) ==
    SampleTime(l, HalfBits - 1) + l.isr < HalfBits * HalfBit(l)

Timely == \A l \in Lines : Inside(l, 1) /\ ReadyInTime(l)

LEMMA Quotient ==
    ASSUME NEW a \in Nat, NEW b \in Nat \ {0}
    PROVE  a \div b \in Nat
OBVIOUS

LEMMA MinOfTwo ==
    ASSUME NEW a \in Nat, NEW b \in Nat
    PROVE  Min({a, b}) \in {a, b} /\ Min({a, b}) <= a /\ Min({a, b}) <= b
<1>. DEFINE P(x) == x \in {a, b} /\ \A y \in {a, b} : x <= y
<1>1. \E x : P(x)
  <2>1. CASE a <= b
    BY <2>1
  <2>2. CASE b <= a
    BY <2>2
  <2>. QED
    BY <2>1, <2>2
<1>2. P(CHOOSE x : P(x))
  BY <1>1, Zenon
<1>3. Min({a, b}) = CHOOSE x : P(x)
  BY DEF Min
<1>. QED
  BY <1>2, <1>3

LEMMA CountFacts ==
    ASSUME NEW l \in Lines
    PROVE  /\ half_bit_cmp(l.baud) \in Nat
           /\ cnt_for_start_bit_sample(l.baud) \in Nat
           /\ cnt_for_start_bit_sample(l.baud) <= 127
           /\ cnt_for_start_bit_sample(l.baud) <= half_bit_cmp(l.baud)
           /\ cnt_for_start_bit_sample(l.baud) \in {127, half_bit_cmp(l.baud)}
           /\ HalfBit(l) \in Nat
           /\ l.latency \in Nat \ {0} /\ l.isr \in Nat \ {0}
           /\ l.skew \in Nat \ {0}
<1>1. l.baud \in Nat \ {0} /\ l.latency \in Nat \ {0} /\ l.isr \in Nat \ {0}
      /\ l.skew \in Nat \ {0}
  BY DEF Lines
<1>2. half_bit_cmp(l.baud) \in Nat
  BY <1>1, Quotient DEF half_bit_cmp, TimerCalcPeriod
<1>3. 2 * half_bit_cmp(l.baud) * l.skew \in Nat
  BY <1>1, <1>2
<1>4. HalfBit(l) \in Nat
  BY <1>3, Quotient DEF HalfBit
<1>5. cnt_for_start_bit_sample(l.baud) = Min({127, half_bit_cmp(l.baud)})
  BY DEF cnt_for_start_bit_sample, half_bit_initial_cnt, START_BIT_OFFSET_TICKS
<1>. QED
  BY <1>1, <1>2, <1>4, <1>5, MinOfTwo

(* Multiples of one length.                                                *)
LEMMA Multiples ==
    ASSUME NEW h \in Nat \ {0}, NEW a \in Int, NEW b \in Int
    PROVE  /\ a * h \in Int
           /\ (a + b) * h = a * h + b * h
           /\ a * h <= b * h <=> a <= b
           /\ a * h < b * h <=> a < b
<1>1. a * h \in Int /\ b * h \in Int /\ (a + b) * h = a * h + b * h
  OBVIOUS
<1>2. ASSUME NEW c \in Int, NEW d \in Int, c < d
      PROVE  c * h < d * h
  <2>1. (d - c) * h > 0
    BY <1>2
  <2>2. (d - c) * h = d * h - c * h
    OBVIOUS
  <2>3. c * h \in Int /\ d * h \in Int
    OBVIOUS
  <2>. QED
    BY <2>1, <2>2, <2>3
<1>3. a < b => a * h < b * h
  BY <1>2
<1>4. b < a => b * h < a * h
  BY <1>2
<1>5. a = b => a * h = b * h
  OBVIOUS
<1>6. a < b \/ b < a \/ a = b
  OBVIOUS
<1>. QED
  BY <1>1, <1>3, <1>4, <1>5, <1>6

LEMMA FrameTimes ==
    ASSUME Timely, NEW l \in Lines
    PROVE  /\ HalfBit(l) \in Nat \ {0}
           /\ l.latency < HalfBit(l)
           /\ half_bit_cmp(l.baud) \in Nat
           /\ SampleTime(l, 0) = l.latency + half_bit_cmp(l.baud)
                                 - cnt_for_start_bit_sample(l.baud)
           /\ \A s \in Positions :
                /\ SampleTime(l, s) \in Nat
                /\ SampleTime(l, s + 1) =
                     SampleTime(l, s) + half_bit_cmp(l.baud) + half_bit_cmp(l.baud)
                /\ s * HalfBit(l) < SampleTime(l, s)
                /\ SampleTime(l, s) < (s + 1) * HalfBit(l)
           /\ SampleTime(l, HalfBits - 1) + l.isr < HalfBits * HalfBit(l)
<1>. DEFINE c == half_bit_cmp(l.baud)
            o == cnt_for_start_bit_sample(l.baud)
            h == HalfBit(l)
<1>1. /\ c \in Nat /\ o \in Nat /\ o <= c /\ h \in Nat
      /\ l.latency \in Nat \ {0} /\ l.isr \in Nat \ {0}
  BY CountFacts
<1>2. \A s \in Positions : SampleTime(l, s) = l.latency - o + (2 * s + 1) * c
  BY DEF SampleTime
<1>3. /\ \A s \in Positions :
           /\ s * h + 1 <= SampleTime(l, s)
           /\ SampleTime(l, s) <= (s + 1) * h - 1
      /\ SampleTime(l, 21) + l.isr < 22 * h
  BY DEF Timely, Inside, ReadyInTime
<1>4. SampleTime(l, 0) = l.latency - o + c
  BY <1>1, <1>2 DEF Positions
<1>5. h > 0 /\ l.latency < h
  <2>1. SampleTime(l, 0) <= h - 1 /\ SampleTime(l, 0) >= 1
    <3>1. 0 * h + 1 <= SampleTime(l, 0) /\ SampleTime(l, 0) <= (0 + 1) * h - 1
      BY <1>3 DEF Positions
    <3>2. 0 * h = 0 /\ (0 + 1) * h = h
      BY <1>1
    <3>. HIDE DEF h
    <3>. QED
      BY <1>1, <1>4, <3>1, <3>2
  <2>. HIDE DEF h, c, o
  <2>. QED
    BY <1>1, <1>4, <2>1
<1>6. ASSUME NEW s \in Positions
      PROVE  /\ SampleTime(l, s) \in Int
             /\ SampleTime(l, s + 1) = SampleTime(l, s) + c + c
  <2>1. SampleTime(l, s + 1) = l.latency - o + (2 * (s + 1) + 1) * c
    BY DEF SampleTime
  <2>2. s \in Nat
    BY DEF Positions
  <2>3. SampleTime(l, s) = l.latency - o + (2 * s + 1) * c
    BY <1>2
  <2>. HIDE DEF c, o, h
  <2>4. /\ (2 * (s + 1) + 1) * c = (2 * s + 1) * c + c + c
        /\ (2 * s + 1) * c \in Int
    BY <1>1, <2>2
  <2>. QED
    BY <1>1, <2>1, <2>3, <2>4
<1>7. ASSUME NEW s \in Positions
      PROVE  /\ s * h < SampleTime(l, s) /\ SampleTime(l, s) < (s + 1) * h
             /\ s * h \in Nat
  <2>1. s \in Nat /\ s * h + 1 <= SampleTime(l, s)
        /\ SampleTime(l, s) <= (s + 1) * h - 1
    BY <1>3 DEF Positions
  <2>2. s * h \in Nat /\ (s + 1) * h \in Nat
    BY <1>1, <2>1
  <2>. HIDE DEF c, o, h
  <2>. QED
    BY <1>6, <2>1, <2>2
<1>. HIDE DEF c, o, h
<1>8. \A s \in Positions : SampleTime(l, s) \in Nat
  BY <1>6, <1>7
<1>9. SampleTime(l, 0) = l.latency + c - o
  BY <1>1, <1>4
<1>. QED
  BY <1>1, <1>3, <1>5, <1>6, <1>7, <1>8, <1>9 DEF c, o, h

------------------------------------------------------------------------------
(* The levels of a transmission.                                           *)

LEMMA BitsType ==
    ASSUME NEW n
    PROVE  Bits(n) \in Byte
BY DEF Bits, Byte

LEMMA LevelInFrame ==
    ASSUME NEW f \in Nat, NEW p \in Positions
    PROVE  LevelToTx(HalfBits * f + p)
             = (p \in format_byte_for_hbs_tx(Bits(message[f + 1])))
<1>1. (22 * f + p) % 22 = p /\ (22 * f + p) \div 22 = f
  BY DEF Positions
<1>. QED
  BY <1>1 DEF LevelToTx

(* What the receiver is going to read during frame number g.               *)
Levels(g) ==
    [p \in Positions |->
        (p \in format_byte_for_hbs_tx(Bits(message[g])))
          # (g = 1 /\ p = disturbed)]

Decoded(l) == Result(DataUpTo(l, HalfBits), FlagsUpTo(l, HalfBits))

LEMMA LevelsType ==
    ASSUME NEW g
    PROVE  Levels(g) \in [Positions -> BOOLEAN]
BY DEF Levels

------------------------------------------------------------------------------
(* The inductive invariant.                                                *)

Results == [data : SUBSET (0 .. DataBits - 1), error_flags : SUBSET FrameErrors]

TypeInv ==
    /\ line \in Lines
    /\ message \in Seq(Octets)
    /\ disturbed \in 0 .. HalfBits
    /\ driven \in 0 .. HalfBits * Len(message)
    /\ wire \in BOOLEAN /\ dout_int \in BOOLEAN
    /\ Running(rx_sm)
    /\ received \in Seq(Results)
    /\ Len(received) <= Len(message)

(* When half-bit number k is driven, how many belong to the frames that    *)
(* have been received, and when the next frame's start edge is due.        *)
DueAt(k) == k * HalfBitTime

Done  == HalfBits * Len(received)
Begun == DueAt(Done)

Due(s, t, u) == [start |-> s, tick |-> t, unmask |-> u]

(* Between two frames.                                                     *)
Waiting ==
    /\ at = Due(Never, Never, Never)
    /\ dout_int /\ rx_sm = sm_Init /\ driven = Done /\ wire

(* The start edge has been driven, its callback has not started the timer. *)
Woken ==
    /\ at = Due(Begun + line.latency, Never, Never)
    /\ dout_int /\ rx_sm = sm_Init /\ driven = Done + 1
    /\ Len(received) < Len(message)

(* The next tick is the next sample's, or the one before it.               *)
TickDue ==
    LET n == rx_sm.sampled_total_bit_cnt
    IN  Begun + IF WantSample(rx_sm) THEN SampleTime(line, n)
                ELSE SampleTime(line, n - 1) + half_bit_cmp(line.baud)

(* A frame is sampled.  The sender has driven nothing that is due after    *)
(* the next tick.                                                          *)
Hearing ==
    /\ at = Due(Never, TickDue, Never)
    /\ rx_sm.sampled_total_bit_cnt = 0 => WantSample(rx_sm)
    /\ ~dout_int /\ rx_sm.ongoing
    /\ driven > Done /\ DueAt(driven - 1) <= TickDue
    /\ Len(received) < Len(message)

(* The frame is complete and the handler of its last tick still runs.      *)
Closing ==
    /\ \E t \in Nat : at = Due(Never, Never, t) /\ t < Begun
    /\ ~dout_int /\ rx_sm = sm_Init /\ driven = Done /\ wire

TimeInv ==
    /\ driven > 0 => wire = LevelToTx(driven - 1)
    /\ Waiting \/ Woken \/ Hearing \/ Closing

(* What has been received and what the accumulators hold is what the       *)
(* levels of the transmission decode to.                                   *)
HeardInv ==
    /\ \A g \in DOMAIN received : received[g] = Decoded(Levels(g))
    /\ Len(received) < Len(message) =>
         Agrees(rx_sm, Levels(Len(received) + 1), rx_sm.sampled_total_bit_cnt)

IInv == TypeInv /\ TimeInv /\ HeardInv

LEMMA InitIInv == Init => IInv
<1>. SUFFICES ASSUME Init PROVE IInv
  OBVIOUS
<1>1. message \in Seq(Octets)
  <2>1. message \in Messages \cup Disturbed
    BY DEF Init
  <2>. QED
    BY <2>1, MessagesAssumption, Zenon
<1>2. disturbed \in 0 .. HalfBits
  BY DEF Init
<1>3. received = << >> /\ Len(received) = 0 /\ DOMAIN received = {}
  BY DEF Init
<1>4. 0 \in 0 .. HalfBits * Len(message)
  BY <1>1
<1>5. TypeInv
  BY <1>1, <1>2, <1>3, <1>4, InitRunning DEF Init, TypeInv, Lines
<1>6. Waiting
  BY <1>3 DEF Init, Waiting, Due, Done
<1>7. HeardInv
  <2>1. Agrees(sm_Init, Levels(1), 0)
    BY LevelsType, ResetAgrees
  <2>2. rx_sm = sm_Init /\ sm_Init.sampled_total_bit_cnt = 0
    BY DEF Init, sm_Init
  <2>. QED
    BY <1>3, <2>1, <2>2 DEF HeardInv
<1>. QED
  BY <1>5, <1>6, <1>7 DEF IInv, TimeInv, Init

------------------------------------------------------------------------------
(* What the clocks say: which event can be the next one.                   *)

HIDE DEF HalfBits, BITS_SAMPLED_IN_PACKET

LEMMA Width == HalfBits = 22 /\ BITS_SAMPLED_IN_PACKET = 22 /\ Positions = 0 .. 21
BY WidthAssumption DEF HalfBits, BITS_SAMPLED_IN_PACKET, Positions

LEMMA Clocks ==
    ASSUME Timely, TypeInv
    PROVE  /\ line \in Lines
           /\ HalfBitTime = HalfBit(line) /\ HalfBitTime \in Nat \ {0}
           /\ line.latency \in Nat /\ line.latency < HalfBitTime
           /\ Len(received) \in Nat /\ Len(message) \in Nat
           /\ Done \in Nat /\ Done = 22 * Len(received)
           /\ driven \in Nat /\ driven <= 22 * Len(message)
<1>1. line \in Lines /\ Len(received) \in Nat /\ Len(message) \in Nat
      /\ driven \in Nat /\ driven <= 22 * Len(message)
  BY Width DEF TypeInv
<1>2. HalfBitTime = HalfBit(line)
  BY DEF HalfBitTime, HalfBit
<1>3. HalfBitTime \in Nat \ {0} /\ line.latency < HalfBitTime
  BY <1>1, <1>2, FrameTimes
<1>4. line.latency \in Nat
  BY <1>1, CountFacts
<1>5. Done \in Nat /\ Done = 22 * Len(received)
  BY <1>1, Width DEF Done
<1>. QED
  BY <1>1, <1>2, <1>3, <1>4, <1>5

LEMMA DueOrder ==
    ASSUME Timely, TypeInv, NEW a \in Int, NEW b \in Int
    PROVE  /\ DueAt(a) \in Int
           /\ a >= 0 => DueAt(a) >= 0
           /\ a <= b <=> DueAt(a) <= DueAt(b)
<1>1. HalfBitTime \in Nat \ {0}
  BY Clocks
<1>. DEFINE h == HalfBitTime
<1>2. DueAt(a) = a * h /\ DueAt(b) = b * h
  BY DEF DueAt
<1>. HIDE DEF h
<1>3. h \in Nat \ {0}
  BY <1>1 DEF h
<1>4. a * h \in Int /\ (a * h <= b * h <=> a <= b)
  BY <1>3, Multiples
<1>5. a >= 0 => a * h >= 0
  BY <1>3
<1>. QED
  BY <1>2, <1>4, <1>5

(* In terms of the time at which the current frame began.                  *)
LEMMA DueInFrame ==
    ASSUME Timely, TypeInv, NEW k \in Int
    PROVE  /\ Begun \in Nat
           /\ k * HalfBitTime \in Int
           /\ DueAt(Done + k) = Begun + k * HalfBitTime
<1>1. HalfBitTime \in Nat \ {0} /\ Done \in Nat
  BY Clocks
<1>2. DueAt(Done) \in Int /\ DueAt(Done) >= 0
  BY <1>1, DueOrder
<1>. DEFINE h == HalfBitTime
<1>3. DueAt(Done) = Done * h /\ DueAt(Done + k) = (Done + k) * h
  BY DEF DueAt
<1>. HIDE DEF h
<1>4. (Done + k) * h = Done * h + k * h /\ k * h \in Int
  BY <1>1, Multiples DEF h
<1>. QED
  BY <1>2, <1>3, <1>4 DEF Begun, h

LEMMA BegunDue ==
    ASSUME Timely, TypeInv
    PROVE  Begun \in Nat /\ DueAt(Done + 1) = Begun + HalfBitTime
<1>1. HalfBitTime \in Nat
  BY Clocks
<1>2. 1 * HalfBitTime = HalfBitTime
  BY <1>1
<1>. QED
  BY <1>2, DueInFrame

LEMMA NextDriveDue ==
    ASSUME Timely, TypeInv
    PROVE  \/ NextDrive = Never /\ driven = 22 * Len(message)
           \/ /\ NextDrive = DueAt(driven) /\ NextDrive # Never
              /\ driven < 22 * Len(message)
<1>1. driven \in Nat /\ driven <= 22 * Len(message) /\ Len(message) \in Nat
  BY Clocks
<1>2. DueAt(driven) \in Int /\ DueAt(driven) >= 0
  BY <1>1, DueOrder
<1>3. NextDrive = IF driven = 22 * Len(message) THEN Never ELSE DueAt(driven)
  BY Width DEF NextDrive, DueAt
<1>. QED
  BY <1>1, <1>2, <1>3 DEF Never

LEMMA Before ==
    ASSUME NEW t, NEW u, Now(t), u \in {NextDrive, at.start, at.tick, at.unmask}
    PROVE  t # Never /\ (u # Never => t <= u)
BY DEF Now

(* The sender drives a half-bit.                                           *)
LEMMA DriveTime ==
    ASSUME Timely, TypeInv, TimeInv, Drive
    PROVE  TimeInv' /\ driven' = driven + 1 /\ driven < 22 * Len(message)
<1>1. /\ NextDrive # Never /\ Now(NextDrive)
      /\ driven' = driven + 1 /\ wire' = LevelToTx(driven)
      /\ at' = IF wire /\ ~wire' /\ dout_int
               THEN [at EXCEPT !.start = NextDrive + line.latency] ELSE at
      /\ UNCHANGED <<line, message, disturbed, rx_sm, dout_int, received>>
  BY DEF Drive, Now
<1>2. /\ driven \in Nat /\ driven < 22 * Len(message)
      /\ NextDrive = DueAt(driven)
  BY <1>1, NextDriveDue, Clocks
<1>3. Done' = Done /\ Begun' = Begun /\ HalfBitTime' = HalfBitTime
  BY <1>1 DEF Done, Begun, HalfBitTime, DueAt
<1>4. (driven > 0 => wire = LevelToTx(driven - 1))'
  <2>1. driven' - 1 = driven
    BY <1>1, <1>2
  <2>2. LevelToTx(driven - 1)' = LevelToTx(driven)
    BY <1>1, <2>1 DEF LevelToTx
  <2>. QED
    BY <1>1, <2>2
<1>5. /\ Done \in Nat /\ Done = 22 * Len(received) /\ Len(received) \in Nat
      /\ Len(message) \in Nat /\ HalfBitTime \in Nat
      /\ line.latency \in Nat /\ line.latency < HalfBitTime
  BY Clocks
<1>6. Begun \in Nat /\ DueAt(Done + 1) = Begun + HalfBitTime
  BY BegunDue
<1>7. CASE Waiting
  <2>1. driven = Done /\ Begun = NextDrive
    BY <1>2, <1>7 DEF Waiting, Begun
  <2>2. Len(received) < Len(message)
    BY <1>2, <1>5, <2>1
  <2>3. ~LevelToTx(driven)
    <3>1. LevelToTx(HalfBits * Len(received) + 0)
            = (0 \in format_byte_for_hbs_tx(Bits(message[Len(received) + 1])))
      BY <1>5, LevelInFrame, Width
    <3>2. HalfBits * Len(received) + 0 = driven
      BY <1>5, <2>1, Width
    <3>. QED
      BY <3>1, <3>2, FrameShape, BitsType
  <2>4. at' = Due(Begun + line.latency, Never, Never)
    BY <1>1, <1>7, <2>1, <2>3 DEF Waiting, Due
  <2>5. driven' = Done' + 1
    BY <1>1, <1>3, <2>1
  <2>6. Woken'
    BY <1>1, <1>3, <1>7, <2>2, <2>4, <2>5 DEF Waiting, Woken, Due
  <2>7. TimeInv'
    BY <1>4, <2>6 DEF TimeInv
  <2>. QED
    BY <1>1, <1>2, <2>7
<1>8. CASE Woken
  <2>1. at.start = Begun + line.latency /\ driven = Done + 1
    BY <1>8 DEF Woken, Due
  <2>2. at.start # Never
    BY <1>5, <1>6, <2>1 DEF Never
  <2>3. NextDrive <= at.start
    BY <1>1, <2>2, Before
  <2>. QED
    BY <1>2, <1>5, <1>6, <2>1, <2>3
<1>9. CASE Hearing
  <2>1. at' = at /\ at.tick = TickDue
    BY <1>1, <1>9 DEF Hearing, Due
  <2>2. driven > Done /\ DueAt(driven - 1) <= TickDue /\ Len(received) < Len(message)
    BY <1>9 DEF Hearing
  <2>3. DueAt(driven - 1) \in Int /\ DueAt(driven - 1) >= 0
    BY <1>2, <1>5, <2>2, DueOrder
  <2>4. TickDue # Never
    BY <2>2, <2>3 DEF Never
  <2>5. DueAt(driven) <= TickDue
    BY <1>1, <1>2, <2>1, <2>4, Before
  <2>6. driven' - 1 = driven /\ driven' > Done
    BY <1>1, <1>2, <1>5, <2>2
  <2>7. DueAt(driven - 1)' = DueAt(driven)
    BY <1>3, <2>6 DEF DueAt
  <2>8. TickDue' = TickDue
    BY <1>1, <1>3 DEF TickDue
  <2>9. Hearing'
    BY <1>1, <1>3, <1>9, <2>1, <2>2, <2>5, <2>6, <2>7, <2>8 DEF Hearing, Due
  <2>10. TimeInv'
    BY <1>4, <2>9 DEF TimeInv
  <2>. QED
    BY <1>1, <1>2, <2>10
<1>10. CASE Closing
  <2>1. PICK t \in Nat : at = Due(Never, Never, t) /\ t < Begun
    BY <1>10 DEF Closing
  <2>2. NextDrive = Begun
    BY <1>2, <1>10 DEF Closing, Begun
  <2>3. NextDrive <= t
    <3>1. at.unmask = t /\ t # Never
      BY <2>1 DEF Due, Never
    <3>. QED
      BY <1>1, <3>1, Before
  <2>. QED
    BY <1>6, <2>1, <2>2, <2>3
<1>. QED
  BY <1>1, <1>2, <1>7, <1>8, <1>9, <1>10 DEF TimeInv

(* The edge callback starts the timer.                                     *)
LEMMA StartTime ==
    ASSUME Timely, TypeInv, TimeInv, StartBit
    PROVE  TimeInv' /\ rx_sm = sm_Init
<1>1. /\ at.start # Never /\ rx_sm' = StartBitEdge(rx_sm) /\ dout_int' = FALSE
      /\ at' = [at EXCEPT !.start = Never,
                          !.tick  = at.start + half_bit_cmp(line.baud)
                                    - cnt_for_start_bit_sample(line.baud)]
      /\ UNCHANGED <<line, message, disturbed, driven, wire, received>>
  BY DEF StartBit, Now
<1>2. Woken
  BY <1>1 DEF TimeInv, Waiting, Hearing, Closing, Due
<1>3. /\ Done \in Nat /\ Begun \in Nat /\ line \in Lines
      /\ line.latency \in Nat
  BY Clocks, BegunDue
<1>4. /\ half_bit_cmp(line.baud) \in Nat
      /\ cnt_for_start_bit_sample(line.baud) \in Nat
      /\ SampleTime(line, 0) = line.latency + half_bit_cmp(line.baud)
                               - cnt_for_start_bit_sample(line.baud)
      /\ SampleTime(line, 0) \in Nat
  <2>1. 0 \in Positions
    BY Width
  <2>. QED
    BY <1>3, <2>1, CountFacts, FrameTimes
<1>5. /\ Done' = Done /\ Begun' = Begun /\ SampleTime(line, 0)' = SampleTime(line, 0)
      /\ DueAt(driven - 1)' = DueAt(driven - 1)
      /\ LevelToTx(driven - 1)' = LevelToTx(driven - 1)
  BY <1>1 DEF Done, Begun, DueAt, HalfBitTime, SampleTime, LevelToTx
<1>6. /\ rx_sm'.sampled_total_bit_cnt = 0 /\ WantSample(rx_sm') /\ rx_sm'.ongoing
  BY <1>1, <1>2 DEF Woken, StartBitEdge, sm_Init, WantSample
<1>7. TickDue' = Begun + SampleTime(line, 0)
  BY <1>1, <1>5, <1>6 DEF TickDue, SampleTime, WantSample
<1>8. at' = Due(Never, Begun + SampleTime(line, 0), Never)
  <2>1. at.start = Begun + line.latency
    BY <1>2 DEF Woken, Due
  <2>2. at.start + half_bit_cmp(line.baud) - cnt_for_start_bit_sample(line.baud)
          = Begun + SampleTime(line, 0)
    BY <1>3, <1>4, <2>1
  <2>. QED
    BY <1>1, <1>2, <2>2 DEF Woken, Due
<1>9. driven = Done + 1 /\ DueAt(driven - 1) = Begun /\ Len(received) < Len(message)
  <2>1. driven = Done + 1 /\ Len(received) < Len(message)
    BY <1>2 DEF Woken
  <2>2. driven - 1 = Done
    BY <1>3, <2>1
  <2>. QED
    BY <2>1, <2>2 DEF Begun
<1>10. driven > Done /\ DueAt(driven - 1) <= Begun + SampleTime(line, 0)
  BY <1>3, <1>4, <1>9
<1>11. Hearing'
  BY <1>1, <1>5, <1>6, <1>7, <1>8, <1>9, <1>10 DEF Hearing, Due, WantSample
<1>12. (driven > 0 => wire = LevelToTx(driven - 1))'
  BY <1>1, <1>5 DEF TimeInv
<1>. QED
  BY <1>2, <1>11, <1>12 DEF TimeInv, Woken

(* Every sample is taken in its half-bit.                                  *)
LEMMA SampleInside ==
    ASSUME Timely, TypeInv, TimeInv, Now(at.tick), WantSample(rx_sm),
           NEW n \in Int, n = rx_sm.sampled_total_bit_cnt
    PROVE  /\ Hearing /\ n \in Positions
           /\ driven = Done + n + 1
           /\ at.tick = Begun + SampleTime(line, n)
<1>1. at.tick # Never
  BY DEF Now
<1>2. Hearing /\ at.tick = TickDue
  BY <1>1 DEF TimeInv, Waiting, Woken, Hearing, Closing, Due
<1>3. n \in Positions
  BY Width DEF TypeInv, Running, StateMachine
<1>4. at.tick = Begun + SampleTime(line, n)
  BY <1>2 DEF TickDue
<1>5. /\ n >= 0 /\ n <= 21
      /\ Done \in Int /\ Done = 22 * Len(received) /\ Len(received) \in Int
      /\ Len(message) \in Int /\ driven \in Int
  <2>1. n >= 0 /\ n <= 21
    BY <1>3, Width
  <2>. QED
    BY <2>1, Clocks
<1>. DEFINE low == Done + n
            high == Done + n + 1
<1>6. /\ low \in Int /\ high \in Int /\ high = low + 1
  BY <1>5
<1>7. at.tick \in Int /\ DueAt(low) < at.tick /\ at.tick < DueAt(high)
  <2>1. /\ SampleTime(line, n) \in Nat
        /\ n * HalfBitTime < SampleTime(line, n)
        /\ SampleTime(line, n) < (n + 1) * HalfBitTime
    BY <1>3, Clocks, FrameTimes
  <2>2. Begun \in Nat /\ n * HalfBitTime \in Int
        /\ DueAt(low) = Begun + n * HalfBitTime
    BY DueInFrame
  <2>3. (n + 1) * HalfBitTime \in Int
        /\ DueAt(Done + (n + 1)) = Begun + (n + 1) * HalfBitTime
    <3>1. n + 1 \in Int
      OBVIOUS
    <3>. QED
      BY <3>1, DueInFrame
  <2>4. high = Done + (n + 1)
    BY <1>5
  <2>. DEFINE a == n * HalfBitTime
              b == (n + 1) * HalfBitTime
  <2>. HIDE DEF low, high, a, b
  <2>5. a \in Int /\ b \in Int /\ a < SampleTime(line, n)
        /\ SampleTime(line, n) < b
        /\ DueAt(low) = Begun + a /\ DueAt(high) = Begun + b
    BY <2>1, <2>2, <2>3, <2>4 DEF a, b
  <2>. QED
    BY <1>4, <2>1, <2>2, <2>5
<1>8. driven > Done /\ DueAt(driven - 1) <= at.tick /\ Len(received) < Len(message)
  BY <1>2 DEF Hearing
<1>. HIDE DEF low, high
<1>9. driven - 1 < high
  <2>1. driven - 1 \in Int
    BY <1>5
  <2>2. DueAt(driven - 1) \in Int /\ DueAt(high) \in Int
        /\ (high <= driven - 1 => DueAt(high) <= DueAt(driven - 1))
    BY <1>6, <2>1, DueOrder
  <2>. QED
    BY <1>6, <1>7, <1>8, <2>1, <2>2
<1>10. driven > low
  <2>1. CASE NextDrive = Never /\ driven = 22 * Len(message)
    BY <1>5, <1>8, <2>1 DEF low
  <2>2. CASE NextDrive = DueAt(driven) /\ NextDrive # Never
    <3>1. at.tick <= DueAt(driven)
      BY <2>2, Before
    <3>2. DueAt(driven) \in Int /\ DueAt(low) \in Int
          /\ (driven <= low => DueAt(driven) <= DueAt(low))
      BY <1>5, <1>6, DueOrder
    <3>. QED
      BY <1>5, <1>6, <1>7, <3>1, <3>2
  <2>. QED
    BY <2>1, <2>2, NextDriveDue
<1>. QED
  BY <1>2, <1>3, <1>4, <1>5, <1>6, <1>9, <1>10 DEF high

(* Between two samples, and from a sample to the next tick.                *)
LEMMA EdgeTime ==
    ASSUME Timely, TypeInv, TimeInv, EdgeTick
    PROVE  TimeInv'
<1>1. /\ at.tick # Never /\ ~WantSample(rx_sm) /\ rx_sm' = BitEdge(rx_sm)
      /\ at' = [at EXCEPT !.tick = at.tick + half_bit_cmp(line.baud)]
      /\ UNCHANGED <<line, message, disturbed, driven, wire, dout_int, received>>
  BY DEF EdgeTick, Now
<1>2. Hearing /\ at.tick = TickDue /\ at = Due(Never, TickDue, Never)
  BY <1>1 DEF TimeInv, Waiting, Woken, Hearing, Closing, Due
<1>. DEFINE n == rx_sm.sampled_total_bit_cnt
            c == half_bit_cmp(line.baud)
<1>3. rx_sm \in StateMachine /\ n \in 0 .. 21 /\ n # 0
  BY <1>1, <1>2, Width DEF TypeInv, Running, StateMachine, Hearing
<1>4. TickDue = Begun + (SampleTime(line, n - 1) + c)
  BY <1>1 DEF TickDue
<1>5. /\ Begun \in Nat /\ c \in Nat
      /\ SampleTime(line, n - 1) \in Nat
      /\ SampleTime(line, (n - 1) + 1) = SampleTime(line, n - 1) + c + c
  <2>1. n - 1 \in Positions /\ line \in Lines
    BY <1>3, Width, Clocks
  <2>. QED
    BY <2>1, BegunDue, FrameTimes
<1>6. TickDue + c = Begun + SampleTime(line, n)
  <2>1. (n - 1) + 1 = n
    BY <1>3
  <2>. HIDE DEF n, c
  <2>. QED
    BY <1>4, <1>5, <2>1
<1>7. /\ rx_sm'.sampled_total_bit_cnt = n /\ WantSample(rx_sm')
      /\ rx_sm'.ongoing = rx_sm.ongoing
  BY <1>1, <1>3 DEF BitEdge, StateMachine, WantSample
<1>8. /\ Done' = Done /\ Begun' = Begun /\ DueAt(driven - 1)' = DueAt(driven - 1)
      /\ LevelToTx(driven - 1)' = LevelToTx(driven - 1)
  BY <1>1 DEF Done, Begun, DueAt, HalfBitTime, LevelToTx
<1>9. TickDue' = Begun + SampleTime(line, n)
  BY <1>1, <1>7, <1>8 DEF TickDue, SampleTime, WantSample
<1>10. at' = Due(Never, TickDue', Never)
  BY <1>1, <1>2, <1>6, <1>9 DEF Due
<1>11. DueAt(driven - 1) <= TickDue'
  <2>1. driven - 1 \in Int
    BY Clocks
  <2>2. DueAt(driven - 1) \in Int
    BY <2>1, DueOrder
  <2>3. DueAt(driven - 1) <= TickDue /\ TickDue \in Int
    <3>. HIDE DEF n, c
    <3>. QED
      BY <1>2, <1>4, <1>5 DEF Hearing
  <2>. HIDE DEF n, c
  <2>. QED
    BY <1>5, <1>6, <1>9, <2>2, <2>3
<1>12. Hearing'
  BY <1>1, <1>2, <1>7, <1>8, <1>10, <1>11 DEF Hearing, WantSample
<1>13. (driven > 0 => wire = LevelToTx(driven - 1))'
  BY <1>1, <1>8 DEF TimeInv
<1>. QED
  BY <1>12, <1>13 DEF TimeInv

LEMMA SampleTimes ==
    ASSUME Timely, TypeInv, TimeInv, SampleTick
    PROVE  TimeInv'
<1>. DEFINE n == rx_sm.sampled_total_bit_cnt
            c == half_bit_cmp(line.baud)
<1>1. /\ Now(at.tick) /\ WantSample(rx_sm) /\ ~CompletesFrame(rx_sm)
      /\ rx_sm' = EventSample(rx_sm, Reading)
      /\ at' = [at EXCEPT !.tick = at.tick + c]
      /\ UNCHANGED <<line, message, disturbed, driven, wire, dout_int, received>>
  BY DEF SampleTick, Samples
<1>2. rx_sm \in StateMachine /\ n \in Int
  BY DEF TypeInv, Running, StateMachine
<1>3. /\ Hearing /\ n \in Positions /\ at.tick = Begun + SampleTime(line, n)
  BY <1>1, <1>2, SampleInside
<1>4. at = Due(Never, TickDue, Never) /\ TickDue = Begun + SampleTime(line, n)
  BY <1>1, <1>3 DEF Hearing, TickDue
<1>5. Begun \in Nat /\ c \in Nat /\ SampleTime(line, n) \in Nat
  <2>1. line \in Lines
    BY Clocks
  <2>. QED
    BY <1>3, <2>1, BegunDue, FrameTimes
<1>6. /\ rx_sm'.sampled_total_bit_cnt = n + 1 /\ ~WantSample(rx_sm')
      /\ rx_sm'.ongoing = rx_sm.ongoing
  BY <1>1, <1>2 DEF EventSample, Accumulate, StateMachine, WantSample
<1>7. /\ Done' = Done /\ Begun' = Begun /\ DueAt(driven - 1)' = DueAt(driven - 1)
      /\ LevelToTx(driven - 1)' = LevelToTx(driven - 1)
  BY <1>1 DEF Done, Begun, DueAt, HalfBitTime, LevelToTx
<1>8. TickDue' = Begun + (SampleTime(line, n) + c)
  <2>1. (n + 1) - 1 = n /\ n + 1 # 0
    BY <1>3, Width
  <2>2. TickDue' = Begun' + (SampleTime(line, (n + 1) - 1) + c)
    BY <1>1, <1>6 DEF TickDue, SampleTime, WantSample
  <2>. QED
    BY <1>7, <2>1, <2>2
<1>9. rx_sm'.sampled_total_bit_cnt # 0
  BY <1>3, <1>6, Width
<1>. HIDE DEF n, c
<1>10. at' = Due(Never, TickDue', Never)
  <2>1. at.tick + c = Begun + (SampleTime(line, n) + c)
    BY <1>3, <1>5
  <2>. QED
    BY <1>1, <1>4, <1>8, <2>1 DEF Due
<1>11. DueAt(driven - 1) <= TickDue'
  <2>1. driven - 1 \in Int
    BY Clocks
  <2>2. DueAt(driven - 1) \in Int
    BY <2>1, DueOrder
  <2>3. DueAt(driven - 1) <= TickDue
    BY <1>3 DEF Hearing
  <2>. QED
    BY <1>4, <1>5, <1>8, <2>2, <2>3
<1>12. Hearing'
  BY <1>1, <1>3, <1>6, <1>7, <1>9, <1>10, <1>11 DEF Hearing, WantSample
<1>13. (driven > 0 => wire = LevelToTx(driven - 1))'
  BY <1>1, <1>7 DEF TimeInv
<1>. QED
  BY <1>12, <1>13 DEF TimeInv

LEMMA LastSampleTime ==
    ASSUME Timely, TypeInv, TimeInv, LastSampleTick,
           Len(received') = Len(received) + 1
    PROVE  TimeInv' /\ Len(received) < Len(message)
<1>. DEFINE n == rx_sm.sampled_total_bit_cnt
            f == Len(received)
<1>1. /\ Now(at.tick) /\ WantSample(rx_sm) /\ CompletesFrame(rx_sm)
      /\ rx_sm' = sm_Init
      /\ at' = [at EXCEPT !.tick = Never, !.unmask = at.tick + line.isr]
      /\ UNCHANGED <<line, message, disturbed, driven, wire, dout_int>>
  BY DEF LastSampleTick, Samples, EventSample
<1>2. rx_sm \in StateMachine /\ n \in Int
  BY DEF TypeInv, Running, StateMachine
<1>3. /\ Hearing /\ driven = Done + n + 1
      /\ at.tick = Begun + SampleTime(line, n)
  BY <1>1, <1>2, SampleInside
<1>4. n = 21 /\ f < Len(message) /\ ~dout_int
      /\ at = Due(Never, TickDue, Never) /\ at.tick = TickDue
  BY <1>1, <1>2, <1>3, Width DEF CompletesFrame, Hearing, Due
<1>5. /\ Done \in Nat /\ Done = 22 * f /\ f \in Nat /\ line \in Lines
      /\ HalfBitTime \in Nat /\ HalfBitTime = HalfBit(line)
  BY Clocks
<1>6. line.isr \in Nat /\ Begun \in Nat /\ SampleTime(line, 21) \in Nat
      /\ SampleTime(line, 21) + line.isr < 22 * HalfBitTime
  <2>1. 21 \in Positions /\ HalfBits - 1 = 21
    BY Width
  <2>2. line.isr \in Nat /\ Begun \in Nat
    BY <1>5, CountFacts, BegunDue
  <2>3. SampleTime(line, 21) \in Nat
    BY <1>5, <2>1, FrameTimes
  <2>4. SampleTime(line, HalfBits - 1) + line.isr < HalfBits * HalfBit(line)
    BY <1>5, FrameTimes
  <2>. QED
    BY <1>5, <2>1, <2>2, <2>3, <2>4, Width
<1>7. driven = Done + 22 /\ Done' = Done + 22
  <2>1. Done' = 22 * (f + 1)
    BY Width DEF Done
  <2>. HIDE DEF f
  <2>. QED
    BY <1>3, <1>4, <1>5, <2>1
<1>8. Begun' = Begun + 22 * HalfBitTime
  <2>1. Begun' = DueAt(Done + 22)
    BY <1>1, <1>7 DEF Begun, DueAt, HalfBitTime
  <2>. QED
    BY <2>1, DueInFrame
<1>9. wire /\ LevelToTx(driven - 1)' = LevelToTx(driven - 1)
      /\ wire = LevelToTx(driven - 1)
  <2>1. driven - 1 = HalfBits * f + 21 /\ driven > 0
    BY <1>5, <1>7, Width
  <2>2. 21 \in Positions /\ 21 % 2 = 1
    BY Width
  <2>. DEFINE frame == format_byte_for_hbs_tx(Bits(message[f + 1]))
  <2>3. LevelToTx(HalfBits * f + 21) = (21 \in frame)
    BY <1>5, <2>2, LevelInFrame
  <2>4. 21 \in frame
    BY <2>2, FrameShape, BitsType
  <2>. HIDE DEF frame
  <2>5. LevelToTx(driven - 1)
    BY <2>1, <2>3, <2>4
  <2>6. wire = LevelToTx(driven - 1)
    BY <2>1 DEF TimeInv
  <2>. QED
    BY <1>1, <2>5, <2>6 DEF LevelToTx
<1>. HIDE DEF n, f
<1>10. at' = Due(Never, Never, at.tick + line.isr)
  BY <1>1, <1>4 DEF Due
<1>11. at.tick + line.isr \in Nat /\ at.tick + line.isr < Begun'
  <2>1. at.tick = Begun + SampleTime(line, 21)
    BY <1>3, <1>4
  <2>2. 22 * HalfBitTime \in Int
    BY <1>5
  <2>. QED
    BY <1>6, <1>8, <2>1, <2>2
<1>12. Closing'
  BY <1>1, <1>4, <1>7, <1>9, <1>10, <1>11 DEF Closing, Due
<1>13. (driven > 0 => wire = LevelToTx(driven - 1))'
  BY <1>1, <1>9
<1>. QED
  BY <1>4, <1>12, <1>13 DEF TimeInv, f

LEMMA UnmaskTime ==
    ASSUME TimeInv, UnmaskDout
    PROVE  TimeInv'
<1>1. /\ at.unmask # Never /\ dout_int' = TRUE
      /\ at' = [at EXCEPT !.unmask = Never]
      /\ UNCHANGED <<line, message, disturbed, driven, wire, rx_sm, received>>
  BY DEF UnmaskDout, Now
<1>2. Closing
  BY <1>1 DEF TimeInv, Waiting, Woken, Hearing, Due
<1>3. Waiting'
  BY <1>1, <1>2 DEF Closing, Waiting, Due, Done
<1>4. (driven > 0 => wire = LevelToTx(driven - 1))'
  BY <1>1 DEF TimeInv, LevelToTx
<1>. QED
  BY <1>3, <1>4 DEF TimeInv

------------------------------------------------------------------------------
(* What is read is what was sent.                                          *)

LEMMA ReadingLevel ==
    ASSUME Timely, TypeInv, TimeInv, Now(at.tick), WantSample(rx_sm),
           NEW n \in Int, n = rx_sm.sampled_total_bit_cnt
    PROVE  n \in Positions /\ Reading = Levels(Len(received) + 1)[n]
<1>. DEFINE f == Len(received)
            frame == format_byte_for_hbs_tx(Bits(message[f + 1]))
<1>1. n \in Positions /\ driven = Done + n + 1
  BY SampleInside
<1>2. f \in Nat /\ Done = 22 * f /\ Done \in Nat
  BY Clocks
<1>3. LevelToTx(HalfBits * f + n) = (n \in frame)
  BY <1>1, <1>2, LevelInFrame
<1>4. wire = (n \in frame)
  <2>1. n >= 0
    BY <1>1, Width
  <2>2. driven > 0 /\ driven - 1 = HalfBits * f + n
    <3>. HIDE DEF f
    <3>. QED
      BY <1>1, <1>2, <2>1, Width
  <2>. QED
    BY <1>3, <2>2 DEF TimeInv
<1>5. received = << >> <=> f + 1 = 1
  BY DEF TypeInv
<1>6. Levels(f + 1)[n] = ((n \in frame) # (f + 1 = 1 /\ n = disturbed))
  BY <1>1 DEF Levels
<1>7. Reading = (wire # (received = << >> /\ n = disturbed))
  BY DEF Reading
<1>. HIDE DEF f, frame
<1>. QED
  BY <1>1, <1>4, <1>5, <1>6, <1>7 DEF f

LEMMA LevelsSame ==
    ASSUME UNCHANGED <<message, disturbed>>, NEW g
    PROVE  Levels(g)' = Levels(g) /\ Decoded(Levels(g))' = Decoded(Levels(g))
<1>1. Levels(g)' = Levels(g)
  BY DEF Levels
<1>2. Decoded(Levels(g))' = Decoded(Levels(g)')
  BY DEF Decoded, Result, DataUpTo, FlagsUpTo
<1>. QED
  BY <1>1, <1>2

(* A step that neither samples nor hands out anything.                     *)
LEMMA NothingHeard ==
    ASSUME TypeInv, HeardInv,
           UNCHANGED <<line, message, disturbed, received>>,
           driven' \in 0 .. HalfBits * Len(message),
           wire' \in BOOLEAN, dout_int' \in BOOLEAN,
           \/ rx_sm' = rx_sm
           \/ rx_sm' = StartBitEdge(rx_sm)
           \/ rx_sm' = BitEdge(rx_sm)
    PROVE  TypeInv' /\ HeardInv'
<1>1. rx_sm \in StateMachine /\ Running(rx_sm)
  BY DEF TypeInv, Running
<1>2. Running(rx_sm') /\ rx_sm'.sampled_total_bit_cnt = rx_sm.sampled_total_bit_cnt
  <2>1. Running(rx_sm')
    BY <1>1, EdgeRunning
  <2>. QED
    BY <1>1, <2>1 DEF StartBitEdge, BitEdge, StateMachine
<1>3. TypeInv'
  BY <1>2 DEF TypeInv
<1>4. \A l, n : Agrees(rx_sm, l, n) => Agrees(rx_sm', l, n)
  BY <1>1, EdgeAgrees
<1>5. \A g : Levels(g)' = Levels(g) /\ Decoded(Levels(g))' = Decoded(Levels(g))
  BY LevelsSame
<1>6. HeardInv'
  BY <1>2, <1>4, <1>5 DEF HeardInv
<1>. QED
  BY <1>3, <1>6

LEMMA SampleHeard ==
    ASSUME Timely, IInv, SampleTick
    PROVE  TypeInv' /\ HeardInv'
<1>. DEFINE n == rx_sm.sampled_total_bit_cnt
            l == Levels(Len(received) + 1)
<1>1. /\ Now(at.tick) /\ WantSample(rx_sm) /\ ~CompletesFrame(rx_sm)
      /\ rx_sm' = EventSample(rx_sm, Reading)
      /\ UNCHANGED <<line, message, disturbed, driven, wire, dout_int, received>>
  BY DEF SampleTick, Samples
<1>2. /\ Running(rx_sm) /\ n \in Int /\ TypeInv /\ TimeInv /\ HeardInv
  BY DEF IInv, TypeInv, Running, StateMachine
<1>3. n \in Positions /\ Reading = l[n] /\ Hearing
  BY <1>1, <1>2, ReadingLevel, SampleInside
<1>4. l \in [Positions -> BOOLEAN]
  BY LevelsType
<1>5. Agrees(rx_sm, l, n)
  BY <1>2, <1>3 DEF HeardInv, Hearing
<1>6. Agrees(rx_sm', l, n + 1) /\ Running(rx_sm')
  <2>1. l[n] \in BOOLEAN
    BY <1>3, <1>4
  <2>. QED
    BY <1>1, <1>2, <1>3, <1>4, <1>5, <2>1, SampleAgrees, SampleRunning
<1>7. TypeInv'
  BY <1>1, <1>2, <1>6 DEF TypeInv
<1>8. \A g : Levels(g)' = Levels(g) /\ Decoded(Levels(g))' = Decoded(Levels(g))
  BY <1>1, LevelsSame
<1>9. rx_sm'.sampled_total_bit_cnt = n + 1
  BY <1>6 DEF Agrees, CountsAgree
<1>10. HeardInv'
  BY <1>1, <1>2, <1>6, <1>8, <1>9 DEF HeardInv
<1>. QED
  BY <1>7, <1>10

LEMMA FrameHeard ==
    ASSUME Timely, IInv, LastSampleTick
    PROVE  TypeInv' /\ HeardInv' /\ Len(received') = Len(received) + 1
<1>. DEFINE n == rx_sm.sampled_total_bit_cnt
            f == Len(received)
            l == Levels(f + 1)
            r == FrameResult(rx_sm, Reading)
<1>1. /\ Now(at.tick) /\ WantSample(rx_sm) /\ CompletesFrame(rx_sm)
      /\ rx_sm' = sm_Init /\ received' = Append(received, r)
      /\ UNCHANGED <<line, message, disturbed, driven, wire, dout_int>>
  BY DEF LastSampleTick, Samples, EventSample
<1>2. /\ Running(rx_sm) /\ n \in Int /\ TypeInv /\ TimeInv /\ HeardInv
  BY DEF IInv, TypeInv, Running, StateMachine
<1>3. n \in Positions /\ Reading = l[n] /\ Hearing
  BY <1>1, <1>2, ReadingLevel, SampleInside
<1>4. l \in [Positions -> BOOLEAN] /\ f < Len(message)
  BY <1>3, LevelsType DEF Hearing
<1>5. Agrees(rx_sm, l, n)
  BY <1>2, <1>4 DEF HeardInv
<1>6. r = Decoded(l)
  BY <1>1, <1>2, <1>3, <1>4, <1>5, SampleAgrees DEF Decoded, Result
<1>7. r \in Results
  <2>1. Reading \in BOOLEAN
    BY <1>3, <1>4
  <2>. QED
    BY <1>2, <2>1, ResultTyped DEF Results
<1>8. received \in Seq(Results) /\ f \in Nat
  BY <1>2 DEF TypeInv
<1>. HIDE DEF r
<1>9. /\ received' \in Seq(Results) /\ Len(received') = f + 1
      /\ DOMAIN received' = 1 .. f + 1
      /\ \A g \in 1 .. f : received'[g] = received[g]
      /\ received'[f + 1] = r
  BY <1>1, <1>7, <1>8
<1>10. TypeInv'
  <2>1. Len(message) \in Nat
    BY <1>2, Clocks
  <2>2. Len(received') <= Len(message')
    <3>. HIDE DEF f
    <3>. QED
      BY <1>1, <1>4, <1>8, <1>9, <2>1
  <2>. QED
    BY <1>1, <1>2, <1>9, <2>2, InitRunning DEF TypeInv
<1>11. \A g : Levels(g)' = Levels(g) /\ Decoded(Levels(g))' = Decoded(Levels(g))
  BY <1>1, LevelsSame
<1>12. ASSUME NEW g \in DOMAIN received'
       PROVE  received'[g] = Decoded(Levels(g))
  <2>1. CASE g = f + 1
    BY <1>6, <1>9, <2>1
  <2>2. CASE g # f + 1
    <3>1. g \in 1 .. f /\ g \in DOMAIN received
      BY <1>8, <1>9, <2>2
    <3>. QED
      BY <1>2, <1>9, <3>1 DEF HeardInv
  <2>. QED
    BY <2>1, <2>2
<1>13. Agrees(sm_Init, Levels(Len(received') + 1), 0)
  BY LevelsType, ResetAgrees
<1>14. HeardInv'
  <2>1. rx_sm' = sm_Init /\ sm_Init.sampled_total_bit_cnt = 0
    BY <1>1 DEF sm_Init
  <2>. QED
    BY <1>11, <1>12, <1>13, <2>1 DEF HeardInv
<1>. QED
  BY <1>9, <1>10, <1>14

LEMMA NextIInv == Timely /\ IInv /\ [Next]_vars => IInv'
<1>. SUFFICES ASSUME Timely, IInv, [Next]_vars PROVE IInv'
  OBVIOUS
<1>. USE DEF IInv
<1>0. driven \in 0 .. HalfBits * Len(message) /\ wire \in BOOLEAN
      /\ dout_int \in BOOLEAN
  BY DEF TypeInv
<1>1. CASE Drive
  <2>1. TimeInv' /\ driven' = driven + 1 /\ driven < 22 * Len(message)
    BY <1>1, DriveTime
  <2>2. driven' \in 0 .. HalfBits * Len(message)
    BY <2>1, Clocks, Width
  <2>3. wire' \in BOOLEAN
    BY <1>1 DEF Drive, LevelToTx
  <2>. QED
    BY <1>0, <1>1, <2>1, <2>2, <2>3, NothingHeard DEF Drive
<1>2. CASE StartBit
  BY <1>0, <1>2, StartTime, NothingHeard DEF StartBit
<1>3. CASE EdgeTick
  BY <1>0, <1>3, EdgeTime, NothingHeard DEF EdgeTick
<1>4. CASE SampleTick
  BY <1>4, SampleTimes, SampleHeard
<1>5. CASE LastSampleTick
  BY <1>5, LastSampleTime, FrameHeard
<1>6. CASE UnmaskDout
  BY <1>0, <1>6, UnmaskTime, NothingHeard DEF UnmaskDout
<1>7. CASE UNCHANGED vars
  <2>1. TypeInv' /\ HeardInv'
    BY <1>0, <1>7, NothingHeard DEF vars
  <2>2. TimeInv'
    BY <1>7 DEF vars, TimeInv, Waiting, Woken, Hearing, Closing, Begun, Done,
       DueAt, HalfBitTime, TickDue, SampleTime, WantSample, LevelToTx
  <2>. QED
    BY <2>1, <2>2
<1>. QED
  BY <1>1, <1>2, <1>3, <1>4, <1>5, <1>6, <1>7 DEF Next

LEMMA Invariant == ASSUME Timely PROVE Spec => []IInv
BY InitIInv, NextIInv, PTL DEF Spec

------------------------------------------------------------------------------
(* The properties.                                                         *)

(* Every sample is as far inside its half-bit as SampledInside asks.       *)
WellInside == \A l \in Lines : Inside(l, HalfBit(l) \div 8)

LEMMA InsideHolds == Timely /\ WellInside /\ IInv => SampledInside
<1>. SUFFICES ASSUME Timely, WellInside, IInv, Samples
              PROVE  LET margin == HalfBitTime \div 8
                         begin  == SampledHalfBit * HalfBitTime
                     IN  /\ driven = SampledHalfBit + 1
                         /\ at.tick \in begin + margin .. begin + HalfBitTime - margin
  BY DEF SampledInside
<1>. DEFINE n == rx_sm.sampled_total_bit_cnt
            h == HalfBitTime
            m == HalfBitTime \div 8
            t == SampleTime(line, n)
<1>1. TypeInv /\ TimeInv /\ n \in Int
  BY DEF IInv, TypeInv, Running, StateMachine
<1>2. n \in Positions /\ driven = Done + n + 1 /\ at.tick = Begun + t
  BY <1>1, SampleInside DEF Samples
<1>3. /\ h \in Nat /\ Begun \in Nat /\ n * h \in Int
      /\ DueAt(Done + n) = Begun + n * h
  BY <1>1, Clocks, DueInFrame
<1>4. n * h + m <= t /\ t <= (n + 1) * h - m
  BY <1>1, <1>2, Clocks DEF WellInside, Inside
<1>5. t \in Nat
  BY <1>1, <1>2, Clocks, FrameTimes
<1>6. SampledHalfBit = Done + n /\ SampledHalfBit * h = Begun + n * h
  BY <1>3 DEF SampledHalfBit, Done, DueAt
<1>7. m \in Int /\ (n + 1) * h = n * h + h
  BY <1>1, <1>3
<1>8. driven = SampledHalfBit + 1
  BY <1>2, <1>6
<1>9. at.tick \in Begun + n * h + m .. Begun + n * h + h - m
  <2>. DEFINE a == n * h
  <2>1. a \in Int /\ a + m <= t /\ t <= a + h - m
    BY <1>3, <1>4, <1>7
  <2>. HIDE DEF a, m, h, t
  <2>2. at.tick \in Begun + a + m .. Begun + a + h - m
    BY <1>2, <1>3, <1>5, <1>7, <2>1
  <2>. QED
    BY <2>2 DEF a
<1>. QED
  BY <1>6, <1>8, <1>9

(* For every baud rate, clock and latency for which the samples of one     *)
(* frame would be well inside their half-bits, all samples of all frames   *)
(* are: the receiver starts anew with every start edge, and is ready for   *)
(* it (FallingEdgeIntCallback, signal_timer_isr).                          *)
THEOREM SamplesInside ==
    ASSUME Timely, WellInside
    PROVE  Spec => []SampledInside
BY Invariant, InsideHolds, PTL

(* What a frame decodes to.                                                *)
LEMMA DecodedFrame ==
    ASSUME NEW g, NEW flag,
           IF g # 1 \/ disturbed = HalfBits THEN flag = {}
           ELSE \/ disturbed = 0 /\ flag = {"START_BIT_SAMPLE"}
                \/ /\ disturbed \in Positions /\ disturbed % 2 = 1
                   /\ flag = {"OFFDUTY_SAMPLE"}
    PROVE  Decoded(Levels(g)) = Result(Bits(message[g]), flag)
<1>. DEFINE value == Bits(message[g])
            d == IF g = 1 THEN disturbed ELSE HalfBits
<1>1. HalfBits \notin Positions /\ HalfBits # 0 /\ 0 % 2 # 1
  BY Width
<1>2. Levels(g) = Arriving(value, d)
  BY <1>1 DEF Levels, Arriving
<1>3. \A i \in 0 .. DataBits - 1 : d # 2 * (i + 1)
  <2>1. ASSUME NEW i \in 0 .. DataBits - 1
        PROVE  2 * (i + 1) # HalfBits /\ 2 * (i + 1) # 0 /\ (2 * (i + 1)) % 2 # 1
    BY Width, WidthAssumption
  <2>. QED
    BY <2>1
<1>4. value \in Byte
  BY BitsType
<1>5. DataUpTo(Levels(g), HalfBits) = value
  <2>1. DataUpTo(Levels(g), HalfBits) =
          {i \in 0 .. DataBits - 1 : (i \in value) # (d = 2 * (i + 1))}
    BY <1>2, <1>4, DisturbedFrame
  <2>. HIDE DEF value, d
  <2>2. \A i \in 0 .. DataBits - 1 : (i \in value) # (d = 2 * (i + 1)) <=> i \in value
    BY <1>3
  <2>. QED
    BY <1>4, <2>1, <2>2 DEF Byte
<1>6. FlagsUpTo(Levels(g), HalfBits) = flag
  <2>1. FlagsUpTo(Levels(g), HalfBits) = NoticedIn(d)
    BY <1>2, <1>4, DisturbedFrame
  <2>2. NoticedIn(d) = flag
    BY <1>1 DEF NoticedIn
  <2>. QED
    BY <2>1, <2>2
<1>. QED
  BY <1>5, <1>6 DEF Decoded

LEMMA PrefixOf ==
    ASSUME NEW S, NEW s \in Seq(S), NEW t \in Seq(S), Len(s) <= Len(t),
           \A i \in 1 .. Len(s) : s[i] = t[i]
    PROVE  IsPrefix(s, t) /\ (Len(s) = Len(t) => s = t)
<1>1. SubSeq(s, 1, Len(s)) = SubSeq(t, 1, Len(s))
  OBVIOUS
<1>2. Len(s) = Len(t) => s = t
  BY SeqEqual
<1>. QED
  BY <1>1, <1>2 DEF IsPrefix

(* The results that the receiver owes for the message.                     *)
Owed(flags) ==
    [g \in DOMAIN message |->
        Result(Bits(message[g]), IF g = 1 THEN flags ELSE {})]

LEMMA ReceivedOwed ==
    ASSUME IInv, NEW flags \in SUBSET FrameErrors,
           IF disturbed = HalfBits THEN flags = {}
           ELSE \/ disturbed = 0 /\ flags = {"START_BIT_SAMPLE"}
                \/ /\ disturbed \in Positions /\ disturbed % 2 = 1
                   /\ flags = {"OFFDUTY_SAMPLE"}
    PROVE  /\ IsPrefix(received, Owed(flags))
           /\ Len(received) = Len(message) => received = Owed(flags)
<1>1. /\ received \in Seq(Results) /\ Len(received) <= Len(message)
      /\ message \in Seq(Octets)
      /\ \A g \in DOMAIN received : received[g] = Decoded(Levels(g))
  BY DEF IInv, TypeInv, HeardInv
<1>2. \A g : Result(Bits(message[g]), IF g = 1 THEN flags ELSE {}) \in Results
  <2>1. \A g : Bits(message[g]) \in SUBSET (0 .. DataBits - 1)
    BY BitsType DEF Byte
  <2>2. \A g : (IF g = 1 THEN flags ELSE {}) \in SUBSET FrameErrors
    OBVIOUS
  <2>. QED
    BY <2>1, <2>2 DEF Result, Results
<1>3. Owed(flags) \in Seq(Results) /\ Len(Owed(flags)) = Len(message)
      /\ DOMAIN message = 1 .. Len(message)
  BY <1>1, <1>2 DEF Owed
<1>4. ASSUME NEW g \in 1 .. Len(received)
      PROVE  received[g] = Owed(flags)[g]
  <2>1. g \in DOMAIN received /\ g \in DOMAIN message
    BY <1>1, <1>3
  <2>2. Decoded(Levels(g)) = Result(Bits(message[g]), IF g = 1 THEN flags ELSE {})
    BY DecodedFrame
  <2>. QED
    BY <1>1, <2>1, <2>2 DEF Owed
<1>. QED
  BY <1>1, <1>3, <1>4, PrefixOf

(* Once the line is quiet, all frames have been received.                  *)
LEMMA AllReceived ==
    ASSUME Timely, IInv, NextDrive = Never, ~rx_sm.ongoing
    PROVE  Len(received) = Len(message)
<1>1. TypeInv /\ TimeInv
  BY DEF IInv
<1>2. driven = 22 * Len(message)
  BY <1>1, NextDriveDue
<1>3. driven = Done \/ driven = Done + 1
  BY <1>1 DEF TimeInv, Waiting, Woken, Hearing, Closing
<1>. QED
  BY <1>1, <1>2, <1>3, Clocks

LEMMA TripHolds == Timely /\ IInv => RoundTrip
<1>. SUFFICES ASSUME Timely, IInv, disturbed = HalfBits
              PROVE  Receives(Owed({}))
  BY DEF RoundTrip, Owed
<1>1. IsPrefix(received, Owed({}))
      /\ (Len(received) = Len(message) => received = Owed({}))
  BY ReceivedOwed
<1>. QED
  BY <1>1, AllReceived DEF Receives

(* For every message and all such clocks, an undisturbed transmission is   *)
(* received byte for byte, without an error flag, and completely.          *)
THEOREM RoundTripHolds == ASSUME Timely PROVE Spec => []RoundTrip
BY Invariant, TripHolds, PTL

LEMMA NoticeHolds == Timely /\ IInv => DamageNoticed
<1>. SUFFICES ASSUME Timely, IInv,
                     disturbed = 0 \/ (disturbed < HalfBits /\ disturbed % 2 = 1)
              PROVE  Receives(Owed({IF disturbed = 0 THEN "START_BIT_SAMPLE"
                                    ELSE "OFFDUTY_SAMPLE"}))
  BY DEF DamageNoticed, Owed
<1>. DEFINE flags == {IF disturbed = 0 THEN "START_BIT_SAMPLE"
                      ELSE "OFFDUTY_SAMPLE"}
<1>1. disturbed \in Positions /\ disturbed # HalfBits
  BY Width DEF IInv, TypeInv
<1>2. /\ IsPrefix(received, Owed(flags))
      /\ Len(received) = Len(message) => received = Owed(flags)
  <2>1. CASE disturbed = 0
    BY <1>1, <2>1, ReceivedOwed DEF FrameErrors
  <2>2. CASE disturbed # 0
    BY <1>1, <2>2, ReceivedOwed DEF FrameErrors
  <2>. QED
    BY <2>1, <2>2
<1>. QED
  BY <1>2, AllReceived DEF Receives

(* For every message and all such clocks, one disturbed sample of a start  *)
(* bit or an off-duty period costs no byte, is reported with the byte it   *)
(* belongs to and with no other, and every byte is received in the end.    *)
THEOREM DamageIsNoticed == ASSUME Timely PROVE Spec => []DamageNoticed
BY Invariant, NoticeHolds, PTL

------------------------------------------------------------------------------
(* What is enough for the hypotheses.                                      *)

LEMMA HalfBitBounds ==
    ASSUME NEW c \in Nat, NEW skew \in Nat, 995 <= skew, skew <= 1005,
           NEW h \in Nat, h = (2 * c * skew) \div 1000
    PROVE  /\ 1000 * h <= 2010 * c
           /\ 1990 * c < 1000 * h + 1000
<1>. DEFINE x == c * skew
<1>1. c * (skew - 995) >= 0 /\ c * (1005 - skew) >= 0
  OBVIOUS
<1>2. c * (skew - 995) = x - 995 * c /\ c * (1005 - skew) = 1005 * c - x
  OBVIOUS
<1>3. x \in Nat /\ 2 * c * skew = 2 * x
  OBVIOUS
<1>. HIDE DEF x
<1>4. 995 * c <= x /\ x <= 1005 * c
  BY <1>1, <1>2, <1>3
<1>5. h = (2 * x) \div 1000
  BY <1>3
<1>6. 1000 * h <= 2 * x /\ 2 * x < 1000 * h + 1000
  BY <1>3, <1>5
<1>. QED
  BY <1>3, <1>4, <1>6

LEMMA SampleBounds ==
    ASSUME NEW c \in Nat, NEW h \in Nat, NEW m \in Nat, NEW d \in Int,
           NEW s \in 0 .. 21,
           127 <= c, 1000 * h <= 2010 * c, 1990 * c < 1000 * h + 1000,
           8 * m <= h, 4 * d <= c, 0 <= 4 * d + c
    PROVE  /\ s * h + m <= d + (2 * s + 1) * c
           /\ d + (2 * s + 1) * c <= (s + 1) * h - m
<1>1. \/ s = 0 \/ s = 1 \/ s = 2 \/ s = 3 \/ s = 4 \/ s = 5 \/ s = 6 \/ s = 7
      \/ s = 8 \/ s = 9 \/ s = 10 \/ s = 11 \/ s = 12 \/ s = 13 \/ s = 14
      \/ s = 15 \/ s = 16 \/ s = 17 \/ s = 18 \/ s = 19 \/ s = 20 \/ s = 21
  OBVIOUS
<1>. QED
  BY <1>1

THEOREM TolerancesSuffice ==
    (\A l \in Lines : Tolerable(l)) => Timely /\ WellInside
<1>. SUFFICES ASSUME NEW l \in Lines, Tolerable(l)
              PROVE  /\ Inside(l, 1) /\ ReadyInTime(l)
                     /\ Inside(l, HalfBit(l) \div 8)
  BY DEF Timely, WellInside
<1>. DEFINE c == half_bit_cmp(l.baud)
            h == HalfBit(l)
            d == l.latency - 127
            isr == l.isr
<1>1. /\ c \in Nat /\ h \in Nat /\ l.latency \in Nat /\ isr \in Nat
      /\ l.skew \in Nat
  BY CountFacts
<1>2. /\ 995 <= l.skew /\ l.skew <= 1005 /\ 127 <= c
      /\ 4 * d <= c /\ 0 <= 4 * d + c /\ d \in Int
      /\ 2 * isr + 50 <= c
  BY <1>1 DEF Tolerable, half_bit_initial_cnt, START_BIT_OFFSET_TICKS
<1>3. cnt_for_start_bit_sample(l.baud) = 127
  <2>1. cnt_for_start_bit_sample(l.baud) \in {127, c}
        /\ cnt_for_start_bit_sample(l.baud) <= 127
    BY CountFacts
  <2>. QED
    BY <1>1, <1>2, <2>1
<1>4. \A s \in Int : SampleTime(l, s) = d + (2 * s + 1) * c
  BY <1>3 DEF SampleTime
<1>5. h = (2 * c * l.skew) \div 1000
  BY DEF HalfBit
<1>. HIDE DEF c, h, d, isr
<1>6. 1000 * h <= 2010 * c /\ 1990 * c < 1000 * h + 1000
  BY <1>1, <1>2, <1>5, HalfBitBounds
<1>7. ASSUME NEW m \in Nat, 8 * m <= h
      PROVE  \A s \in 0 .. 21 :
               /\ s * h + m <= SampleTime(l, s)
               /\ SampleTime(l, s) <= (s + 1) * h - m
  BY <1>1, <1>2, <1>4, <1>6, <1>7, SampleBounds
<1>8. 8 * 1 <= h
  BY <1>1, <1>2, <1>6
<1>9. (h \div 8) \in Nat /\ 8 * (h \div 8) <= h
  BY <1>1
<1>10. SampleTime(l, 21) + isr < 22 * h
  <2>1. SampleTime(l, 21) = d + 43 * c
    BY <1>1, <1>2, <1>4
  <2>. QED
    BY <1>1, <1>2, <1>6, <2>1
<1>11. Inside(l, 1) /\ Inside(l, h \div 8)
  BY <1>7, <1>8, <1>9, Width DEF Inside, h
<1>12. ReadyInTime(l)
  BY <1>10, Width DEF ReadyInTime, h, isr
<1>. QED
  BY <1>11, <1>12 DEF h

------------------------------------------------------------------------------
(* The parity table.                                                       *)

(* Bit number i of a byte.                                                 *)
Bit(n, i) == (n \div 2^i) % 2

LEMMA OctetsType == Octets = 0 .. 255
BY DEF Octets

(* The parity of four bits.                                                *)
NibbleParity(n) ==
    ((n % 2) + ((n \div 2) % 2) + ((n \div 4) % 2) + ((n \div 8) % 2)) % 2

(* A row of the table is the parity of its column, inverted in the rows    *)
(* whose number is odd in parity itself.                                   *)
LEMMA RowParity ==
    ASSUME NEW n \in 0 .. 15
    PROVE  /\ EvenRow[n + 1] = NibbleParity(n)
           /\ OddRow[n + 1] = 1 - NibbleParity(n)
           /\ ParityTableRows[n + 1] =
                IF NibbleParity(n) = 1 THEN OddRow ELSE EvenRow
<1>1. n \in {0, 1, 2, 3, 4, 5, 6, 7, 8, 9, 10, 11, 12, 13, 14, 15}
  OBVIOUS
<1>. QED
  BY <1>1 DEF EvenRow, OddRow, ParityTableRows, NibbleParity

(* A set of numbers is counted one number after another.                   *)
LEMMA CountUpTo ==
    ASSUME NEW S \in SUBSET Nat, NEW k \in Nat
    PROVE  /\ IsFiniteSet(S \cap 0 .. k)
           /\ Cardinality(S \cap 0 .. k) =
                Cardinality(S \cap 0 .. k - 1) + IF k \in S THEN 1 ELSE 0
<1>. DEFINE L == S \cap 0 .. k - 1
<1>1. IsFiniteSet(0 .. k - 1)
  BY FS_Interval
<1>2. IsFiniteSet(L)
  BY <1>1, FS_Intersection
<1>3. k \notin L
  OBVIOUS
<1>4. S \cap 0 .. k = IF k \in S THEN L \cup {k} ELSE L
  OBVIOUS
<1>5. Cardinality(L) \in Nat
      /\ IsFiniteSet(L \cup {k}) /\ Cardinality(L \cup {k}) = Cardinality(L) + 1
  BY <1>2, <1>3, FS_AddElement, FS_CardinalityType
<1>. HIDE DEF L
<1>. QED
  <2>1. CASE k \in S
    BY <1>4, <1>5, <2>1 DEF L
  <2>2. CASE k \notin S
    <3>1. S \cap 0 .. k = L
      BY <1>4, <2>2
    <3>2. Cardinality(L) = Cardinality(L) + IF k \in S THEN 1 ELSE 0
      BY <1>5, <2>2
    <3>. QED
      BY <1>2, <3>1, <3>2, Zenon DEF L
  <2>. QED
    BY <2>1, <2>2

LEMMA CardBits ==
    ASSUME NEW n \in Octets
    PROVE  Cardinality(Bits(n)) =
             Bit(n, 0) + Bit(n, 1) + Bit(n, 2) + Bit(n, 3) + Bit(n, 4) + Bit(n, 5)
             + Bit(n, 6) + Bit(n, 7)
<1>. DEFINE S == Bits(n)
            C(k) == Cardinality(S \cap 0 .. k)
<1>1. \A i \in 0 .. 7 : Bit(n, i) = IF i \in S THEN 1 ELSE 0
  BY OctetsType DEF Bits, Bit
<1>2. S \in SUBSET Nat
  BY DEF Bits
<1>3. C(0 - 1) = 0
  <2>1. S \cap 0 .. 0 - 1 = {}
    OBVIOUS
  <2>. QED
    BY <2>1, FS_EmptySet
<1>4. \A k \in Nat : C(k) = C(k - 1) + IF k \in S THEN 1 ELSE 0
  BY <1>2, CountUpTo
<1>5. S = S \cap 0 .. 7
  BY DEF Bits
<1>. HIDE DEF C, S
<1>6. /\ C(0) = Bit(n, 0) /\ C(1) = C(0) + Bit(n, 1) /\ C(2) = C(1) + Bit(n, 2)
      /\ C(3) = C(2) + Bit(n, 3) /\ C(4) = C(3) + Bit(n, 4)
      /\ C(5) = C(4) + Bit(n, 5) /\ C(6) = C(5) + Bit(n, 6) /\ C(7) = C(6) + Bit(n, 7)
  BY <1>1, <1>3, <1>4
<1>. QED
  BY <1>5, <1>6 DEF S, C

(* Each of the 256 entries.                                                *)
LEMMA TableParity ==
    ASSUME NEW n \in Octets
    PROVE  parity_lookup_table_256(n) = calc_even_parity(Bits(n))
<1>. DEFINE h == n \div 16
            l == n % 16
<1>1. h \in 0 .. 15 /\ l \in 0 .. 15 /\ n \in Nat /\ n = 16 * h + l
  BY OctetsType
<1>2. /\ Bit(n, 0) = l % 2 /\ Bit(n, 1) = (l \div 2) % 2
      /\ Bit(n, 2) = (l \div 4) % 2 /\ Bit(n, 3) = (l \div 8) % 2
  BY <1>1 DEF Bit
<1>3. /\ Bit(n, 4) = h % 2 /\ Bit(n, 5) = (h \div 2) % 2
      /\ Bit(n, 6) = (h \div 4) % 2 /\ Bit(n, 7) = (h \div 8) % 2
  BY <1>1 DEF Bit
<1>4. calc_even_parity(Bits(n)) <=> (NibbleParity(l) + NibbleParity(h)) % 2 = 1
  BY <1>1, <1>2, <1>3, CardBits DEF calc_even_parity, NibbleParity
<1>5. NibbleParity(l) \in {0, 1} /\ NibbleParity(h) \in {0, 1}
  BY <1>1 DEF NibbleParity
<1>6. parity_lookup_table_256(n) <=>
        IF NibbleParity(h) = 1 THEN 1 - NibbleParity(l) = 1 ELSE NibbleParity(l) = 1
  <2>1. parity_lookup_table_256(n) <=> ParityTableRows[h + 1][l + 1] = 1
    BY DEF parity_lookup_table_256
  <2>. HIDE DEF h, l
  <2>. QED
    BY <1>1, <1>5, <2>1, RowParity
<1>7. calc_even_parity(Bits(n)) \in BOOLEAN /\ parity_lookup_table_256(n) \in BOOLEAN
  BY DEF calc_even_parity, parity_lookup_table_256
<1>. HIDE DEF h, l
<1>8. parity_lookup_table_256(n) <=> calc_even_parity(Bits(n))
  BY <1>4, <1>5, <1>6
<1>. QED
  BY <1>7, <1>8
LEMMA MessageKept == Spec => [](message \in Seq(Octets))
<1>1. Init => message \in Seq(Octets)
  BY MessagesAssumption DEF Init
<1>2. message \in Seq(Octets) /\ [Next]_vars => (message \in Seq(Octets))'
  BY DEF Next, vars, Drive, StartBit, EdgeTick, SampleTick, LastSampleTick, UnmaskDout
<1>. QED
  BY <1>1, <1>2, PTL DEF Spec

(* The table that both directions look up holds, for whatever bytes are    *)
(* sent, the parity that the frame format is defined with.                 *)
THEOREM TableIsParity == Spec => []ParityTableEven
<1>1. message \in Seq(Octets) => ParityTableEven
  <2>. SUFFICES ASSUME message \in Seq(Octets), NEW f \in DOMAIN message
                PROVE  parity_lookup_table_256(message[f])
                         = calc_even_parity(Bits(message[f]))
    BY DEF ParityTableEven
  <2>1. message[f] \in Octets
    OBVIOUS
  <2>. QED
    BY <2>1, TableParity
<1>. QED
  BY <1>1, MessageKept, PTL

==============================================================================
