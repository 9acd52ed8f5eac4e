----------------------------- MODULE Fifo_proofs -----------------------------
(***************************************************************************)
(* The ring buffer is a bounded queue, for every capacity and every set of *)
(* values: its type, the safety of IsAvailable followed by Read, and the   *)
(* refinement of BoundedQueue.  The last is for callers of ReadN that hold *)
(* the producer off.                                                       *)
(***************************************************************************)
EXTENDS Fifo, SequenceTheorems, TLAPS

USE CapacityAssumption, ValuesAssumption, ReadNAssumption

------------------------------------------------------------------------------
(* Indices.                                                                *)

LEMMA Wraps ==
    ASSUME NEW i \in Slots, NEW j \in Slots
    PROVE  (i + j) % Size = IF i + j < Size THEN i + j ELSE i + j - Size
<1>. Size \in Nat \ {0} /\ i \in Nat /\ j \in Nat /\ i < Size /\ j < Size
  BY DEF Size, Slots
<1>1. CASE i + j < Size
  BY <1>1, SMTT(30)
<1>2. CASE i + j >= Size
  BY <1>2, SMTT(30)
<1>. QED
  BY <1>1, <1>2

LEMMA NextIndex ==
    ASSUME NEW i \in Slots
    PROVE  /\ NEXT_IDX(i) = IF i = Size - 1 THEN 0 ELSE i + 1
           /\ NEXT_IDX(i) \in Slots
<1>1. 1 \in Slots
  BY DEF Slots, Size
<1>2. (i + 1) % Size = IF i + 1 < Size THEN i + 1 ELSE i + 1 - Size
  BY <1>1, Wraps
<1>. QED
  BY <1>2 DEF NEXT_IDX, Slots, Size

LEMMA LenInRange ==
    ASSUME TypeOK
    PROVE  /\ FifoLen \in 0 .. Capacity
           /\ FifoLen = 0 <=> IsEmpty
           /\ FifoLen = Capacity <=> is_Full
<1>1. head \in 0 .. Capacity /\ tail \in 0 .. Capacity
  BY DEF TypeOK, Slots, Size
<1>2. NEXT_IDX(head) = IF head = Capacity THEN 0 ELSE head + 1
  BY NextIndex DEF TypeOK, Size
<1>3. FifoLen = IF head >= tail THEN head - tail ELSE (Capacity + 1 - tail) + head
  BY <1>1 DEF FifoLen, Size
<1>4. FifoLen \in 0 .. Capacity /\ (FifoLen = 0 <=> head = tail)
  BY <1>1, <1>3
<1>5. FifoLen = Capacity <=> NEXT_IDX(head) = tail
  BY <1>1, <1>2, <1>3
<1>. QED
  BY <1>4, <1>5 DEF IsEmpty, is_Full

(* Length and elements for any buffer and indices, so that the lemmas      *)
(* speak of the state before and after a step alike.                       *)
Distance(h, t) == IF h >= t THEN h - t ELSE (Size - t) + h

SlotOf(t, i) == IF t + i - 1 < Size THEN t + i - 1 ELSE t + i - 1 - Size

LEMMA DistanceInRange ==
    ASSUME NEW h \in Slots, NEW t \in Slots
    PROVE  Distance(h, t) \in 0 .. Capacity
BY DEF Distance, Slots, Size

LEMMA ElementsAt ==
    ASSUME NEW b \in [Slots -> Values], NEW h \in Slots, NEW t \in Slots,
           NEW s, s = [i \in 1 .. Distance(h, t) |-> b[(t + i - 1) % Size]]
    PROVE  /\ s \in Seq(Values)
           /\ Len(s) = Distance(h, t)
           /\ \A i \in 1 .. Distance(h, t) : s[i] = b[SlotOf(t, i)]
<1>1. Distance(h, t) \in 0 .. Capacity
  BY DistanceInRange
<1>2. ASSUME NEW i \in 1 .. Distance(h, t)
      PROVE  (t + i - 1) % Size = SlotOf(t, i) /\ SlotOf(t, i) \in Slots
  <2>1. i - 1 \in Slots
    BY <1>1 DEF Slots, Size
  <2>2. (t + (i - 1)) % Size =
            IF t + (i - 1) < Size THEN t + (i - 1) ELSE t + (i - 1) - Size
    BY <2>1, Wraps
  <2>3. t + (i - 1) = t + i - 1
    BY <1>1 DEF Slots, Size
  <2>. QED
    BY <2>1, <2>2, <2>3 DEF SlotOf, Slots, Size
<1>3. \A i \in 1 .. Distance(h, t) : b[(t + i - 1) % Size] \in Values
  BY <1>2
<1>. QED
  BY <1>1, <1>2, <1>3

ElementsHeld ==
    /\ Items \in Seq(Values)
    /\ Len(Items) = Distance(head, tail)
    /\ \A i \in 1 .. Distance(head, tail) : Items[i] = buf[SlotOf(tail, i)]

LEMMA ItemsAt == TypeOK => ElementsHeld
BY ElementsAt DEF TypeOK, Items, FifoLen, Distance, ElementsHeld

LEMMA ItemsAtNext == TypeOK' => ElementsHeld'
BY ItemsAt, PTL

------------------------------------------------------------------------------
(* The type.                                                               *)

LEMMA TypeInit == Init => TypeOK
BY DEF Init, TypeOK, Slots, Size

LEMMA TypeStep == TypeOK /\ [Next]_vars => TypeOK'
<1>. SUFFICES ASSUME TypeOK, [Next]_vars PROVE TypeOK'
  OBVIOUS
<1>1. ASSUME NEW v \in Values, Push(v) PROVE TypeOK'
  BY <1>1, NextIndex DEF TypeOK, Push, consumerVars
<1>2. CASE PopTest
  BY <1>2 DEF TypeOK, PopTest
<1>3. CASE PopCopy
  BY <1>3 DEF TypeOK, PopCopy
<1>4. CASE PopDiscard
  BY <1>4 DEF TypeOK, PopDiscard
<1>5. CASE PopAdvance
  BY <1>5, NextIndex DEF TypeOK, PopAdvance
<1>6. CASE ClearTest
  BY <1>6 DEF TypeOK, ClearTest
<1>7. CASE ClearReadHead
  BY <1>7 DEF TypeOK, ClearReadHead
<1>8. CASE ClearWriteTail
  BY <1>8 DEF TypeOK, ClearWriteTail
<1>9. CASE IsAvailable
  BY <1>9 DEF TypeOK, IsAvailable
<1>10. ASSUME NEW n \in 1 .. Capacity, ReadNBegin(n) PROVE TypeOK'
  BY <1>10 DEF TypeOK, ReadNBegin
<1>11. CASE ReadNCompare
  BY <1>11 DEF TypeOK, ReadNCompare
<1>12. CASE ReadNShorten
  <2>1. FifoLen \in 0 .. Capacity
    BY LenInRange
  <2>. QED
    BY <1>12, <2>1 DEF TypeOK, ReadNShorten
<1>13. CASE ReadNCopy
  <2>1. \A i \in 1 .. len :
           (IF i <= Sequential THEN buf[tail + i - 1]
            ELSE buf[i - Sequential - 1]) \in Values
    BY DEF TypeOK, Sequential, Slots, Size
  <2>2. view' \in Seq(Values)
    BY <1>13, <2>1 DEF ReadNCopy, TypeOK
  <2>. QED
    BY <1>13, <2>2 DEF TypeOK, ReadNCopy
<1>14. CASE UNCHANGED vars
  BY <1>14 DEF TypeOK, vars, consumerVars
<1>. QED
  BY <1>1, <1>2, <1>3, <1>4, <1>5, <1>6, <1>7, <1>8, <1>9, <1>10, <1>11,
     <1>12, <1>13, <1>14 DEF Next

(* Whatever the capacity, the indices stay inside the buffer and ReadN     *)
(* copies no more than there is room for.                                  *)
THEOREM TypeCorrect == Spec => []TypeOK
BY TypeInit, TypeStep, PTL DEF Spec

------------------------------------------------------------------------------
(* The consumer.                                                           *)

LEMMA StillInit == Init => StillAvailable
BY DEF Init, StillAvailable

LEMMA StillStep == TypeOK /\ StillAvailable /\ [Next]_vars => StillAvailable'
<1>. SUFFICES ASSUME TypeOK, StillAvailable, [Next]_vars
              PROVE  StillAvailable'
  OBVIOUS
<1>. USE DEF StillAvailable, IsEmpty
<1>1. ASSUME NEW v \in Values, Push(v) PROVE StillAvailable'
  BY <1>1 DEF TypeOK, Push, is_Full, consumerVars
<1>2. CASE PopTest \/ PopCopy \/ PopDiscard \/ PopAdvance
  BY <1>2 DEF PopTest, PopCopy, PopDiscard, PopAdvance
<1>3. CASE ClearTest \/ ClearReadHead \/ ClearWriteTail \/ IsAvailable
  BY <1>3 DEF ClearTest, ClearReadHead, ClearWriteTail, IsAvailable
<1>4. CASE \/ \E n \in 1 .. Capacity : ReadNBegin(n)
           \/ ReadNCompare \/ ReadNShorten \/ ReadNCopy
  BY <1>4 DEF ReadNBegin, ReadNCompare, ReadNShorten, ReadNCopy
<1>5. CASE UNCHANGED vars
  BY <1>5 DEF vars, consumerVars
<1>. QED
  BY <1>1, <1>2, <1>3, <1>4, <1>5 DEF Next

(* An element that IsAvailable or Pop has seen is there until it is taken: *)
(* the interrupt only adds to the queue.                                   *)
THEOREM AvailableStays == Spec => []StillAvailable
<1>1. TypeOK /\ StillAvailable /\ [Next]_vars => (TypeOK /\ StillAvailable)'
  BY TypeStep, StillStep
<1>. QED
  BY <1>1, TypeInit, StillInit, PTL DEF Spec

(* How far an index is from tail.                                          *)
FromTail(i) == IF i >= tail THEN i - tail ELSE (Size - tail) + i

(* What the consumer has read before and uses now still holds: the element *)
(* it has copied is the oldest, the head it has read is in the queue, and  *)
(* ReadN's view of the queue is exact while the producer is held off.      *)
ConsumerInv ==
    /\ pc = "advance" /\ reg # NoValue => reg = buf[tail]
    /\ pc = "clear_tail" => FromTail(snapshot) \in 1 .. FifoLen
    /\ ReadNMasked /\ ReadNRunning => snapshot = head
    /\ ReadNMasked /\ pc = "readn_copy" => len <= FifoLen

IInv == TypeOK /\ StillAvailable /\ ConsumerInv

LEMMA ConsumerInit == Init => ConsumerInv
BY DEF Init, ConsumerInv, ReadNRunning

LEMMA PushLen ==
    ASSUME TypeOK, NEW v, Push(v)
    PROVE  FifoLen < Capacity /\ FifoLen' = FifoLen + 1
<1>1. /\ NEXT_IDX(head) = IF head = Size - 1 THEN 0 ELSE head + 1
      /\ NEXT_IDX(head) # tail
  BY NextIndex DEF TypeOK, Push, is_Full
<1>2. head' = NEXT_IDX(head) /\ tail' = tail
  BY DEF Push
<1>. QED
  BY <1>1, <1>2 DEF TypeOK, FifoLen, Slots, Size

LEMMA ConsumerStep == IInv /\ [Next]_vars => ConsumerInv'
<1>. SUFFICES ASSUME IInv, [Next]_vars PROVE ConsumerInv'
  OBVIOUS
<1>. USE DEF IInv, ConsumerInv, ReadNRunning
<1>1. ASSUME NEW v \in Values, Push(v) PROVE ConsumerInv'
  <2>1. FifoLen' = FifoLen + 1 /\ FifoLen \in 0 .. Capacity
    BY <1>1, PushLen, LenInRange
  <2>2. pc = "advance" => buf'[tail'] = buf[tail]
    BY <1>1 DEF TypeOK, StillAvailable, IsEmpty, Push
  <2>3. FromTail(snapshot)' = FromTail(snapshot)
    BY <1>1 DEF Push, FromTail, consumerVars
  <2>. QED
    BY <1>1, <2>1, <2>2, <2>3 DEF Push, consumerVars
<1>2. CASE PopTest
  BY <1>2 DEF PopTest
<1>3. CASE PopCopy
  BY <1>3 DEF PopCopy
<1>4. CASE PopDiscard
  BY <1>4 DEF PopDiscard
<1>5. CASE PopAdvance
  BY <1>5 DEF PopAdvance
<1>6. CASE ClearTest
  BY <1>6 DEF ClearTest
<1>7. CASE ClearReadHead
  BY <1>7 DEF ClearReadHead, StillAvailable, IsEmpty, TypeOK, FromTail,
              FifoLen, Slots, Size
<1>8. CASE ClearWriteTail
  BY <1>8 DEF ClearWriteTail
<1>9. CASE IsAvailable
  BY <1>9 DEF IsAvailable, FifoLen, FromTail
<1>10. ASSUME NEW n \in 1 .. Capacity, ReadNBegin(n) PROVE ConsumerInv'
  BY <1>10 DEF ReadNBegin
<1>11. CASE ReadNCompare
  BY <1>11, LenInRange DEF ReadNCompare, TypeOK, FifoLen
<1>12. CASE ReadNShorten
  BY <1>12, LenInRange DEF ReadNShorten, FifoLen
<1>13. CASE ReadNCopy
  BY <1>13 DEF ReadNCopy
<1>14. CASE UNCHANGED vars
  BY <1>14 DEF vars, consumerVars, FifoLen, FromTail
<1>. QED
  BY <1>1, <1>2, <1>3, <1>4, <1>5, <1>6, <1>7, <1>8, <1>9, <1>10, <1>11,
     <1>12, <1>13, <1>14 DEF Next

------------------------------------------------------------------------------
(* The refinement of BoundedQueue.                                         *)

LEMMA InductiveInvariant ==
    /\ Init => IInv
    /\ IInv /\ [Next]_vars => IInv'
BY TypeInit, StillInit, ConsumerInit, TypeStep, StillStep, ConsumerStep
   DEF IInv

(* The elements depend on the buffer and its indices only.                 *)
LEMMA ItemsKept ==
    ASSUME UNCHANGED <<buf, head, tail>>
    PROVE  Items' = Items
BY DEF Items, FifoLen

LEMMA ItemsPush ==
    ASSUME TypeOK, TypeOK', NEW v \in Values, Push(v)
    PROVE  Items' = Append(Items, v)
<1>. DEFINE n == Distance(head, tail)
<1>1. /\ Items \in Seq(Values) /\ Len(Items) = n
      /\ \A i \in 1 .. n : Items[i] = buf[SlotOf(tail, i)]
  BY ItemsAt DEF ElementsHeld
<1>2. n \in 0 .. Capacity /\ n < Capacity /\ Distance(head', tail') = n + 1
  BY PushLen, DistanceInRange DEF TypeOK, FifoLen, Distance
<1>3. tail' = tail /\ buf' = [buf EXCEPT ![head] = v]
  BY DEF Push
<1>4. /\ Items' \in Seq(Values) /\ Len(Items') = n + 1
      /\ \A i \in 1 .. n + 1 : Items'[i] = buf'[SlotOf(tail, i)]
  BY <1>2, <1>3, ItemsAtNext DEF ElementsHeld
<1>5. head = SlotOf(tail, n + 1)
  BY DEF TypeOK, Distance, SlotOf, Slots, Size
<1>6. \A i \in 1 .. n : SlotOf(tail, i) \in Slots /\ SlotOf(tail, i) # head
  BY <1>2 DEF TypeOK, Distance, SlotOf, Slots, Size
<1>. HIDE DEF n
<1>7. \A i \in 1 .. n : Items'[i] = Items[i]
  <2>. SUFFICES ASSUME NEW i \in 1 .. n PROVE Items'[i] = Items[i]
    OBVIOUS
  <2>1. Items'[i] = buf'[SlotOf(tail, i)]
    BY <1>2, <1>4
  <2>2. buf'[SlotOf(tail, i)] = buf[SlotOf(tail, i)]
    BY <1>3, <1>6 DEF TypeOK
  <2>. QED
    BY <1>1, <2>1, <2>2
<1>8. Items'[n + 1] = v
  BY <1>2, <1>3, <1>4, <1>5 DEF TypeOK
<1>9. /\ Append(Items, v) \in Seq(Values)
      /\ Len(Append(Items, v)) = n + 1
      /\ \A i \in 1 .. n : Append(Items, v)[i] = Items[i]
      /\ Append(Items, v)[n + 1] = v
  BY <1>1, AppendProperties
<1>10. \A i \in 1 .. Len(Items') : Items'[i] = Append(Items, v)[i]
  BY <1>2, <1>4, <1>7, <1>8, <1>9
<1>. QED
  BY <1>4, <1>9, <1>10, SeqEqual

(* Moving tail on by k elements removes the k oldest.                      *)
LEMMA ItemsDropped ==
    ASSUME TypeOK, TypeOK', NEW k \in 1 .. FifoLen,
           buf' = buf, head' = head, tail' = SlotOf(tail, k + 1)
    PROVE  Items' = SubSeq(Items, k + 1, Len(Items))
<1>. DEFINE n == Distance(head, tail)
<1>1. /\ Items \in Seq(Values) /\ Len(Items) = n
      /\ \A i \in 1 .. n : Items[i] = buf[SlotOf(tail, i)]
  BY ItemsAt DEF ElementsHeld
<1>2. n \in 0 .. Capacity /\ k \in 1 .. n
  BY DistanceInRange DEF TypeOK, FifoLen, Distance
<1>3. Distance(head', tail') = n - k
  BY <1>2 DEF TypeOK, Distance, SlotOf, Slots, Size
<1>4. /\ Items' \in Seq(Values) /\ Len(Items') = n - k
      /\ \A i \in 1 .. n - k : Items'[i] = buf[SlotOf(tail', i)]
  BY <1>3, ItemsAtNext DEF ElementsHeld
<1>5. \A i \in 1 .. n - k : SlotOf(tail', i) = SlotOf(tail, k + i)
  BY <1>2 DEF TypeOK, Distance, SlotOf, Slots, Size
<1>. HIDE DEF n
<1>6. \A i \in 1 .. n - k : Items'[i] = Items[k + i]
  <2>. SUFFICES ASSUME NEW i \in 1 .. n - k PROVE Items'[i] = Items[k + i]
    OBVIOUS
  <2>1. Items'[i] = buf[SlotOf(tail, k + i)]
    BY <1>4, <1>5
  <2>2. k + i \in 1 .. n
    BY <1>2
  <2>. QED
    BY <1>1, <2>1, <2>2
<1>. DEFINE rest == SubSeq(Items, k + 1, Len(Items))
<1>7. /\ rest \in Seq(Values) /\ Len(rest) = n - k
      /\ \A i \in 1 .. n - k : rest[i] = Items[k + i]
  <2>1. \A i \in k + 1 .. Len(Items) : Items[i] \in Values
    BY <1>1, <1>2
  <2>2. k + 1 \in Int /\ Len(Items) \in Int
    BY <1>1, <1>2
  <2>3. /\ rest \in Seq(Values)
        /\ Len(rest) = IF k + 1 <= Len(Items) THEN Len(Items) - (k + 1) + 1 ELSE 0
        /\ \A i \in 1 .. Len(Items) - (k + 1) + 1 :
             rest[i] = Items[(k + 1) + i - 1]
    BY <2>1, <2>2, SubSeqProperties
  <2>. QED
    BY <1>1, <1>2, <2>3
<1>8. \A i \in 1 .. Len(Items') : Items'[i] = rest[i]
  BY <1>4, <1>6, <1>7
<1>. HIDE DEF rest
<1>9. Items' = rest
  BY <1>4, <1>7, <1>8, SeqEqual
<1>. QED
  BY <1>9 DEF rest

(* What ReadN copies are the oldest elements, in their order, wherever the *)
(* end of the buffer falls among them.                                     *)
LEMMA ItemsCopied ==
    ASSUME IInv, ReadNMasked, ReadNCopy
    PROVE  view' = SubSeq(Items, 1, len)
<1>. DEFINE n == Distance(head, tail)
            copied == [i \in 1 .. len |-> IF i <= Sequential
                                          THEN buf[tail + i - 1]
                                          ELSE buf[i - Sequential - 1]]
<1>1. TypeOK /\ snapshot = head /\ len \in 0 .. n
  BY DEF IInv, ConsumerInv, ReadNRunning, ReadNCopy, TypeOK, FifoLen, Distance
<1>2. /\ Items \in Seq(Values) /\ Len(Items) = n
      /\ \A i \in 1 .. n : Items[i] = buf[SlotOf(tail, i)]
  BY <1>1, ItemsAt DEF ElementsHeld
<1>3. n \in 0 .. Capacity
  BY <1>1, DistanceInRange DEF TypeOK
<1>4. ASSUME NEW i \in 1 .. len
      PROVE  copied[i] = Items[i] /\ Items[i] \in Values
  <2>1. copied[i] = IF i <= Sequential THEN buf[tail + i - 1]
                    ELSE buf[i - Sequential - 1]
    OBVIOUS
  <2>2. SlotOf(tail, i) = IF i <= Sequential THEN tail + i - 1
                          ELSE i - Sequential - 1
    BY <1>1 DEF TypeOK, Sequential, SlotOf, Distance, Slots, Size
  <2>. QED
    BY <1>1, <1>2, <1>3, <2>1, <2>2
<1>5. copied \in Seq(Values) /\ Len(copied) = len
  BY <1>1, <1>3, <1>4
<1>6. view' = copied
  BY DEF ReadNCopy
<1>. HIDE DEF n, copied
<1>7. /\ SubSeq(Items, 1, len) \in Seq(Values)
      /\ Len(SubSeq(Items, 1, len)) = len
      /\ \A i \in 1 .. len : SubSeq(Items, 1, len)[i] = Items[i]
  <2>1. \A i \in 1 .. len : Items[i] \in Values
    BY <1>4
  <2>. QED
    BY <1>1, <1>3, <2>1, SubSeqProperties
<1>8. \A i \in 1 .. Len(copied) : copied[i] = SubSeq(Items, 1, len)[i]
  BY <1>4, <1>5, <1>7
<1>. QED
  BY <1>5, <1>6, <1>7, <1>8, SeqEqual

LEMMA RefinesInit == Init => Queue!Init
<1>. SUFFICES ASSUME Init PROVE Queue!Init
  OBVIOUS
<1>1. TypeOK /\ Distance(head, tail) = 0
  BY TypeInit DEF Init, Distance
<1>2. Items \in Seq(Values) /\ Len(Items) = 0
  BY <1>1, ItemsAt DEF ElementsHeld
<1>3. Items = << >>
  BY <1>2, EmptySeq
<1>. QED
  BY <1>3 DEF Init, Queue!Init

LEMMA RefinesStep ==
    ASSUME ReadNMasked, IInv, IInv', [Next]_vars
    PROVE  [Queue!Next]_Queue!vars
<1>. USE DEF IInv
<1>a. Items \in Seq(Values) /\ Len(Items) = FifoLen /\ FifoLen \in 0 .. Capacity
  BY ItemsAt, LenInRange DEF ElementsHeld, FifoLen, Distance
<1>1. ASSUME NEW v \in Values, Push(v) PROVE Queue!Push(v)
  <2>1. Items' = Append(Items, v) /\ FifoLen < Capacity
    BY <1>1, ItemsPush, PushLen
  <2>. QED
    BY <1>1, <1>a, <2>1 DEF Push, consumerVars, Queue!Push
<1>2. CASE PopAdvance
  <2>1. FifoLen >= 1
    BY <1>2, LenInRange DEF PopAdvance, StillAvailable
  <2>2. tail' = SlotOf(tail, 1 + 1)
    BY <1>2, NextIndex DEF PopAdvance, TypeOK, SlotOf, Slots, Size
  <2>3. Items' = SubSeq(Items, 1 + 1, Len(Items))
    <3>1. 1 \in 1 .. FifoLen /\ buf' = buf /\ head' = head
      BY <1>2, <1>a, <2>1 DEF PopAdvance
    <3>. QED
      BY <2>2, <3>1, ItemsDropped
  <2>4. Items # << >> /\ Tail(Items) = SubSeq(Items, 2, Len(Items))
    BY <1>a, <2>1
  <2>5. Head(Items) = buf[tail]
    <3>1. Items[1] = buf[SlotOf(tail, 1)]
      BY <1>a, <2>1, ItemsAt DEF ElementsHeld, FifoLen, Distance
    <3>2. SlotOf(tail, 1) = tail
      BY DEF SlotOf, TypeOK, Slots, Size
    <3>. QED
      BY <3>1, <3>2
  <2>6. CASE reg = NoValue
    <3>1. Queue!Discard
      BY <1>2, <2>3, <2>4, <2>6 DEF PopAdvance, Queue!Discard
    <3>. QED
      BY <3>1 DEF Queue!Next
  <2>7. CASE reg # NoValue
    <3>1. reg = buf[tail]
      BY <1>2, <2>7 DEF PopAdvance, ConsumerInv
    <3>2. Queue!Pop
      BY <1>2, <2>3, <2>4, <2>5, <2>7, <3>1 DEF PopAdvance, Queue!Pop
    <3>. QED
      BY <3>2 DEF Queue!Next
  <2>. QED
    BY <2>6, <2>7
<1>3. CASE ClearWriteTail
  <2>. DEFINE k == FromTail(snapshot)
  <2>1. k \in 1 .. FifoLen /\ buf' = buf /\ head' = head
    BY <1>3 DEF ClearWriteTail, ConsumerInv
  <2>2. tail' = SlotOf(tail, k + 1)
    BY <1>3, <2>1 DEF ClearWriteTail, TypeOK, FromTail, FifoLen, SlotOf,
                      Slots, Size
  <2>. HIDE DEF k
  <2>3. Items' = SubSeq(Items, k + 1, Len(Items))
    BY <2>1, <2>2, ItemsDropped
  <2>4. Queue!Clear
    BY <1>3, <1>a, <2>1, <2>3 DEF ClearWriteTail, Queue!Clear
  <2>. QED
    BY <2>4 DEF Queue!Next
<1>4. CASE ReadNCopy
  <2>1. len \in 0 .. Len(Items)
    BY <1>4, <1>a DEF ReadNCopy, ConsumerInv, TypeOK
  <2>2. view' = SubSeq(Items, 1, len) /\ Items' = Items
    BY <1>4, ItemsCopied, ItemsKept DEF ReadNCopy
  <2>3. Queue!ReadN
    BY <1>4, <2>1, <2>2 DEF ReadNCopy, Queue!ReadN
  <2>. QED
    BY <2>3 DEF Queue!Next
<1>5. CASE PopTest \/ PopCopy \/ PopDiscard \/ ClearTest \/ ClearReadHead
           \/ IsAvailable
  <2>1. UNCHANGED <<buf, head, tail, got, view, put>>
    BY <1>5 DEF PopTest, PopCopy, PopDiscard, ClearTest, ClearReadHead,
                IsAvailable
  <2>. QED
    BY <2>1, ItemsKept DEF Queue!vars
<1>6. CASE \/ \E n \in 1 .. Capacity : ReadNBegin(n)
           \/ ReadNCompare \/ ReadNShorten
  <2>1. UNCHANGED <<buf, head, tail, got, view, put>>
    BY <1>6 DEF ReadNBegin, ReadNCompare, ReadNShorten
  <2>. QED
    BY <2>1, ItemsKept DEF Queue!vars
<1>7. CASE UNCHANGED vars
  <2>1. UNCHANGED <<buf, head, tail, got, view, put>>
    BY <1>7 DEF vars, consumerVars
  <2>. QED
    BY <2>1, ItemsKept DEF Queue!vars
<1>. QED
  BY <1>1, <1>2, <1>3, <1>4, <1>5, <1>6, <1>7 DEF Next, Queue!Next

(* Interrupted by pushes between any two accesses to head, the ring buffer *)
(* loses, repeats, changes or reorders nothing: it implements              *)
(* BoundedQueue, provided that ReadN is called with the interrupt off.     *)
THEOREM Implements ==
    ASSUME ReadNMasked
    PROVE  Spec => QueueSpec
<1>1. IInv /\ IInv' /\ [Next]_vars => [Queue!Next]_Queue!vars
  BY RefinesStep
<1>. QED
  BY <1>1, RefinesInit, InductiveInvariant, PTL DEF Spec, QueueSpec, Queue!Spec

==============================================================================
