--------------------------- MODULE PacketBus_proofs ---------------------------
(***************************************************************************)
(* Any number of nodes, queues of any length and packets with any payload  *)
(* that fits: the parsers of homebus.c stay inside their packets, and as   *)
(* long as no byte is lost they implement the packet channel.              *)
(***************************************************************************)
EXTENDS PacketBus, SequenceTheorems, FiniteSetTheorems, TLAPS

USE DataLenAssumption, NodesAssumption, PayloadAssumption, QueueAssumption

------------------------------------------------------------------------------
(* The parser.                                                             *)

Parser == [self_addr : Octet, user_cb : BOOLEAN, rx_state : RxStates,
           data_rxed : Octet, unhandled_pkt_cnt : Nat, rx_packet : Packet]

ParserOK(h) ==
    /\ h \in Parser
    /\ IF h.rx_state = "data"
       THEN /\ h.data_rxed < h.rx_packet.len
            /\ h.data_rxed <= Len(h.rx_packet.data)
       ELSE h.data_rxed = 0
    /\ Len(h.rx_packet.data) <= HBS_MAX_DATA_LEN

(* A packet as an application sends or sees it.                            *)
Message == {p \in [self_addr : Octet, dest_addr : Octet, operation : Octet,
                   data : Seq(Octet)] : Len(p.data) <= HBS_MAX_DATA_LEN}

LEMMA OctetFacts ==
    /\ \A i \in Octet : i \in Nat /\ i <= HBS_MAX_DATA_LEN
    /\ \A i \in Nat : i <= HBS_MAX_DATA_LEN => i \in Octet
    /\ 0 \in Octet
BY DEF Octet

LEMMA ToOctetKeeps ==
    ASSUME NEW i \in Octet
    PROVE  ToOctet(i) = i
<1>1. i \in Nat /\ HBS_MAX_DATA_LEN + 1 \in Nat \ {0} /\ i < HBS_MAX_DATA_LEN + 1
  BY DEF Octet
<1>. QED
  BY <1>1, SMTT(30) DEF ToOctet

(* There is room for the next byte of the payload.                         *)
LEMMA NextIndex ==
    ASSUME NEW h, ParserOK(h), h.rx_state = "data"
    PROVE  /\ h.data_rxed + 1 \in Octet
           /\ ToOctet(h.data_rxed + 1) = h.data_rxed + 1
<1>1. h.data_rxed + 1 \in Octet
  BY DEF ParserOK, Parser, Packet, Octet
<1>. QED
  BY <1>1, ToOctetKeeps

(* d begins with the first i bytes of data and then the value.             *)
Continues(d, data, i, value) ==
    i + 1 <= Len(d) /\ d[i + 1] = value /\ \A j \in 1 .. i : d[j] = data[j]

(* A byte is written behind those before it, which stay.                   *)
LEMMA WriteAtResult ==
    ASSUME NEW data \in Seq(Octet), NEW i \in Nat, i <= Len(data),
           NEW value \in Octet
    PROVE  LET d == WriteAt(data, i, value)
           IN  /\ d \in Seq(Octet)
               /\ Len(d) = IF i < Len(data) THEN Len(data) ELSE i + 1
               /\ Continues(d, data, i, value)
<1>1. CASE i < Len(data)
  BY <1>1 DEF WriteAt, Continues
<1>2. CASE ~(i < Len(data))
  <2>1. i = Len(data)
    BY <1>2
  <2>. QED
    BY <1>2, <2>1 DEF WriteAt, Continues
<1>. QED
  BY <1>1, <1>2

(* What a byte of the header does to the packet, and one of the payload.   *)
LEMMA StoredHeader ==
    ASSUME NEW h, ParserOK(h), NEW value \in Octet, h.rx_state # "data"
    PROVE  LET s == Stored(h, value)
           IN  /\ s \in Parser
               /\ s = [h EXCEPT !.rx_packet = s.rx_packet]
               /\ s.rx_packet = [h.rx_packet EXCEPT ![h.rx_state] = value]
<1>. DEFINE p == h.rx_packet
            q == [p EXCEPT ![h.rx_state] = value]
            s == Stored(h, value)
<1>1. h \in Parser /\ p \in Packet /\ h.rx_state \in RxStates \ {"data"}
  BY DEF ParserOK, Parser
<1>2. s = [h EXCEPT !.rx_packet = q]
  BY DEF Stored
<1>3. q \in Packet
  BY <1>1 DEF Packet, RxStates
<1>. HIDE DEF q, s
<1>4. s \in Parser /\ s.rx_packet = q
  BY <1>1, <1>2, <1>3 DEF Parser
<1>. QED
  BY <1>2, <1>4 DEF q, s

LEMMA StoredData ==
    ASSUME NEW h, ParserOK(h), NEW value \in Octet, h.rx_state = "data"
    PROVE  LET s == Stored(h, value)
               d == WriteAt(h.rx_packet.data, h.data_rxed, value)
           IN  /\ s \in Parser
               /\ s = [h EXCEPT !.rx_packet = s.rx_packet,
                                !.data_rxed = h.data_rxed + 1]
               /\ s.rx_packet = [h.rx_packet EXCEPT !.data = d]
<1>. DEFINE p == h.rx_packet
            k == h.data_rxed + 1
            d == WriteAt(p.data, h.data_rxed, value)
            q == [p EXCEPT !.data = d]
            s == Stored(h, value)
<1>1. h \in Parser /\ p \in Packet /\ p.data \in Seq(Octet) /\ h.data_rxed \in Nat
      /\ h.data_rxed <= Len(p.data)
  BY DEF ParserOK, Parser, Packet, Octet
<1>2. k \in Octet /\ ToOctet(k) = k
  BY NextIndex
<1>3. d \in Seq(Octet)
  BY <1>1, WriteAtResult
<1>4. s = [h EXCEPT !.rx_packet = q, !.data_rxed = k]
  BY <1>1, <1>2 DEF Stored, Parser
<1>. HIDE DEF d
<1>5. q \in Packet
  BY <1>1, <1>3 DEF Packet
<1>. HIDE DEF q, s, k
<1>6. s \in Parser /\ s.rx_packet = q
  BY <1>1, <1>2, <1>4, <1>5 DEF Parser
<1>. QED
  BY <1>4, <1>6 DEF d, q, s, k

(* Counting a packet changes nothing that storing a byte looks at.         *)
LEMMA CountedResult ==
    ASSUME NEW h, ParserOK(h), NEW value \in Octet
    PROVE  LET c == Counted(h, value)
           IN  /\ ParserOK(c)
               /\ c = [h EXCEPT !.unhandled_pkt_cnt = c.unhandled_pkt_cnt]
               /\ c.unhandled_pkt_cnt =
                     IF ~h.user_cb /\ PacketFor(h, value) # {}
                     THEN h.unhandled_pkt_cnt + 1 ELSE h.unhandled_pkt_cnt
               /\ CompletesPacket(c, value) <=> CompletesPacket(h, value)
<1>. DEFINE c == Counted(h, value)
            k == IF ~h.user_cb /\ PacketFor(h, value) # {}
                 THEN h.unhandled_pkt_cnt + 1 ELSE h.unhandled_pkt_cnt
<1>1. h \in Parser /\ k \in Nat
  BY DEF ParserOK, Parser
<1>2. c = [h EXCEPT !.unhandled_pkt_cnt = k]
  BY <1>1 DEF Counted, Parser
<1>. HIDE DEF c, k
<1>3. /\ c \in Parser /\ c.unhandled_pkt_cnt = k
      /\ c.rx_state = h.rx_state /\ c.data_rxed = h.data_rxed
      /\ c.rx_packet = h.rx_packet
  BY <1>1, <1>2 DEF Parser
<1>4. ParserOK(c)
  BY <1>3 DEF ParserOK
<1>5. CompletesPacket(c, value) <=> CompletesPacket(h, value)
  BY <1>3 DEF CompletesPacket
<1>. QED
  BY <1>2, <1>3, <1>4, <1>5 DEF c, k

(* The parser after a byte.                                                *)
LEMMA ReceivedResult ==
    ASSUME NEW h, ParserOK(h), NEW value \in Octet
    PROVE  LET r == hbs_Received(h, value)
               s == Stored(h, value)
           IN  /\ r \in Parser
               /\ r.self_addr = h.self_addr /\ r.user_cb = h.user_cb
               /\ r.unhandled_pkt_cnt =
                     IF ~h.user_cb /\ PacketFor(h, value) # {}
                     THEN h.unhandled_pkt_cnt + 1 ELSE h.unhandled_pkt_cnt
               /\ r.rx_packet = s.rx_packet
               /\ CompletesPacket(h, value) =>
                     r.rx_state = "self_addr" /\ r.data_rxed = 0
               /\ ~CompletesPacket(h, value) =>
                     /\ r.rx_state = FollowingState[h.rx_state]
                     /\ r.data_rxed = s.data_rxed
<1>. DEFINE c == Counted(h, value)
            r == hbs_Received(h, value)
            s == Stored(h, value)
            t == Stored(c, value)
<1>1. /\ ParserOK(c)
      /\ c = [h EXCEPT !.unhandled_pkt_cnt = c.unhandled_pkt_cnt]
      /\ c.unhandled_pkt_cnt =
            IF ~h.user_cb /\ PacketFor(h, value) # {}
            THEN h.unhandled_pkt_cnt + 1 ELSE h.unhandled_pkt_cnt
  BY CountedResult
<1>. HIDE DEF c
<1>2. /\ h \in Parser /\ c \in Parser
      /\ c.self_addr = h.self_addr /\ c.user_cb = h.user_cb
      /\ c.rx_state = h.rx_state /\ c.rx_packet = h.rx_packet
      /\ c.data_rxed = h.data_rxed
  BY <1>1 DEF ParserOK, Parser
<1>3. /\ s \in Parser /\ t \in Parser
      /\ s.self_addr = h.self_addr /\ s.user_cb = h.user_cb
      /\ s.rx_state = h.rx_state
      /\ s.unhandled_pkt_cnt = h.unhandled_pkt_cnt
      /\ t.self_addr = h.self_addr /\ t.user_cb = h.user_cb
      /\ t.rx_packet = s.rx_packet
      /\ t.unhandled_pkt_cnt = c.unhandled_pkt_cnt
  <2>1. CASE h.rx_state = "data"
    <3>1. /\ s \in Parser
          /\ s = [h EXCEPT !.rx_packet = s.rx_packet,
                           !.data_rxed = h.data_rxed + 1]
          /\ s.rx_packet = [h.rx_packet EXCEPT
                !.data = WriteAt(h.rx_packet.data, h.data_rxed, value)]
      BY <2>1, StoredData
    <3>2. /\ t \in Parser
          /\ t = [c EXCEPT !.rx_packet = t.rx_packet,
                           !.data_rxed = c.data_rxed + 1]
          /\ t.rx_packet = [c.rx_packet EXCEPT
                !.data = WriteAt(c.rx_packet.data, c.data_rxed, value)]
      <4>1. ParserOK(c) /\ c.rx_state = "data"
        BY <1>1, <1>2, <2>1
      <4>. QED
        BY <4>1, StoredData
    <3>3. t.rx_packet = s.rx_packet
      BY <1>2, <3>1, <3>2
    <3>. HIDE DEF s, t
    <3>. QED
      BY <1>2, <3>1, <3>2, <3>3 DEF Parser
  <2>2. CASE h.rx_state # "data"
    <3>1. /\ s \in Parser
          /\ s = [h EXCEPT !.rx_packet = s.rx_packet]
          /\ s.rx_packet = [h.rx_packet EXCEPT ![h.rx_state] = value]
      BY <2>2, StoredHeader
    <3>2. /\ t \in Parser
          /\ t = [c EXCEPT !.rx_packet = t.rx_packet]
          /\ t.rx_packet = [c.rx_packet EXCEPT ![c.rx_state] = value]
      BY <1>1, <1>2, <2>2, StoredHeader
    <3>3. t.rx_packet = s.rx_packet
      BY <1>2, <3>1, <3>2
    <3>. HIDE DEF s, t
    <3>. QED
      BY <1>2, <3>1, <3>2, <3>3 DEF Parser
  <2>. QED
    BY <2>1, <2>2
<1>4. CASE CompletesPacket(h, value)
  <2>1. r = [t EXCEPT !.rx_state = "self_addr", !.data_rxed = 0]
    BY <1>4 DEF hbs_Received, reset_rxing_state, c
  <2>2. "self_addr" \in RxStates /\ 0 \in Octet
    BY DEF RxStates, Octet
  <2>. HIDE DEF r, s, t
  <2>. QED
    BY <1>1, <1>3, <1>4, <2>1, <2>2 DEF Parser, r, s
<1>5. CASE ~CompletesPacket(h, value)
  <2>. DEFINE next == FollowingState[h.rx_state]
  <2>1. r = [s EXCEPT !.rx_state = next]
    BY <1>3, <1>5 DEF hbs_Received
  <2>2. next \in RxStates
    BY <1>2 DEF FollowingState, RxStates, Parser
  <2>3. ~(~h.user_cb /\ PacketFor(h, value) # {})
    BY <1>5 DEF PacketFor
  <2>. HIDE DEF r, s, next
  <2>. QED
    BY <1>3, <1>5, <2>1, <2>2, <2>3 DEF Parser, r, s, next
<1>. QED
  BY <1>4, <1>5

(* The packet in the parser after a byte: inside its array.                *)
LEMMA StoredPacket ==
    ASSUME NEW h, ParserOK(h), NEW value \in Octet
    PROVE  LET p == Stored(h, value).rx_packet
           IN  /\ p \in Packet
               /\ Len(p.data) <= HBS_MAX_DATA_LEN
               /\ h.rx_state = "data" =>
                     /\ p.len = h.rx_packet.len
                     /\ h.data_rxed + 1 <= p.len
                     /\ h.data_rxed + 1 <= Len(p.data)
               /\ h.rx_state = "len" => p.len = value
<1>. DEFINE s == Stored(h, value)
            p == s.rx_packet
            q == h.rx_packet
            i == h.data_rxed
<1>1. /\ h.rx_state \in RxStates /\ q \in Packet /\ q.data \in Seq(Octet)
      /\ q.len \in Nat /\ i \in Nat /\ Len(q.data) <= HBS_MAX_DATA_LEN
  BY DEF ParserOK, Parser, Packet, Octet
<1>2. CASE h.rx_state = "data"
  <2>. DEFINE d == WriteAt(q.data, i, value)
  <2>1. s \in Parser /\ p = [q EXCEPT !.data = d]
    BY <1>2, StoredData
  <2>2. i < q.len /\ i <= Len(q.data)
    BY <1>2 DEF ParserOK
  <2>3. /\ d \in Seq(Octet) /\ i + 1 <= Len(d)
        /\ Len(d) = IF i < Len(q.data) THEN Len(q.data) ELSE i + 1
    <3>. HIDE DEF i, q
    <3>1. /\ d \in Seq(Octet) /\ Continues(d, q.data, i, value)
          /\ Len(d) = IF i < Len(q.data) THEN Len(q.data) ELSE i + 1
      BY <1>1, <2>2, WriteAtResult
    <3>. HIDE DEF d
    <3>. QED
      BY <3>1 DEF Continues
  <2>4. i + 1 <= HBS_MAX_DATA_LEN
    BY <1>2, NextIndex, OctetFacts
  <2>. HIDE DEF d, s, i, q
  <2>5. p \in Packet /\ p.len = q.len /\ p.data = d
    BY <1>1, <2>1, <2>3 DEF Packet, Parser
  <2>6. Len(d) <= HBS_MAX_DATA_LEN
    BY <1>1, <2>3, <2>4
  <2>7. i + 1 <= q.len
    BY <1>1, <2>2
  <2>. QED
    BY <1>2, <2>3, <2>5, <2>6, <2>7 DEF s, i, q
<1>3. CASE h.rx_state # "data"
  <2>1. s \in Parser /\ p = [q EXCEPT ![h.rx_state] = value]
    BY <1>3, StoredHeader
  <2>2. p.data = q.data
    BY <1>1, <1>3, <2>1 DEF Packet, RxStates
  <2>3. h.rx_state = "len" => p.len = value
    BY <1>1, <2>1 DEF Packet
  <2>. HIDE DEF s
  <2>. QED
    BY <1>1, <1>3, <2>1, <2>2, <2>3 DEF Parser, s
<1>. QED
  BY <1>2, <1>3

LEMMA ParserStep ==
    ASSUME NEW h, ParserOK(h), NEW value \in Octet
    PROVE  ParserOK(hbs_Received(h, value))
<1>. DEFINE r == hbs_Received(h, value)
            s == Stored(h, value)
            p == s.rx_packet
<1>1. /\ r \in Parser /\ r.rx_packet = p
      /\ CompletesPacket(h, value) => r.rx_state = "self_addr" /\ r.data_rxed = 0
      /\ ~CompletesPacket(h, value) =>
            r.rx_state = FollowingState[h.rx_state] /\ r.data_rxed = s.data_rxed
  BY ReceivedResult
<1>2. /\ p \in Packet /\ Len(p.data) <= HBS_MAX_DATA_LEN
      /\ h.rx_state = "data" =>
            /\ p.len = h.rx_packet.len
            /\ h.data_rxed + 1 <= p.len /\ h.data_rxed + 1 <= Len(p.data)
      /\ h.rx_state = "len" => p.len = value
  BY StoredPacket
<1>3. h \in Parser /\ h.rx_state \in RxStates
  BY DEF ParserOK, Parser
<1>4. CASE CompletesPacket(h, value)
  BY <1>1, <1>2, <1>4 DEF ParserOK
<1>5. CASE ~CompletesPacket(h, value) /\ h.rx_state = "data"
  <2>1. s = [h EXCEPT !.rx_packet = p, !.data_rxed = h.data_rxed + 1]
    BY <1>5, StoredData
  <2>2. s.data_rxed = h.data_rxed + 1
    BY <1>3, <2>1 DEF Parser
  <2>3. h.data_rxed + 1 # h.rx_packet.len
    BY <1>5, NextIndex DEF CompletesPacket
  <2>4. r.rx_state = "data" /\ r.data_rxed = h.data_rxed + 1
    <3>1. FollowingState["data"] = "data"
      BY DEF FollowingState
    <3>2. r.rx_state = FollowingState["data"] /\ r.data_rxed = s.data_rxed
      BY <1>1, <1>5
    <3>. QED
      BY <2>2, <3>1, <3>2
  <2>5. h.data_rxed + 1 \in Nat /\ p.len \in Nat
    BY <1>2, <1>3 DEF Parser, Packet, Octet
  <2>6. h.data_rxed + 1 < p.len
    BY <1>2, <1>5, <2>3, <2>5
  <2>. QED
    BY <1>1, <1>2, <1>5, <2>4, <2>6 DEF ParserOK
<1>6. CASE ~CompletesPacket(h, value) /\ h.rx_state # "data"
  <2>1. s = [h EXCEPT !.rx_packet = p]
    BY <1>6, StoredHeader
  <2>2. s.data_rxed = 0
    BY <1>3, <1>6, <2>1 DEF Parser, ParserOK
  <2>3. h.rx_state = "len" => value > 0
    BY <1>6 DEF CompletesPacket, Octet
  <2>4. r.rx_state = "data" <=> h.rx_state = "len"
    BY <1>1, <1>3, <1>6 DEF FollowingState, RxStates
  <2>5. p.data \in Seq(Octet)
    BY <1>2 DEF Packet
  <2>6. r.data_rxed = 0
    BY <1>1, <1>6, <2>2
  <2>7. r.rx_state = "data" => r.data_rxed < p.len /\ r.data_rxed <= Len(p.data)
    BY <1>2, <2>3, <2>4, <2>5, <2>6
  <2>. QED
    BY <1>1, <1>2, <2>6, <2>7 DEF ParserOK
<1>. QED
  BY <1>4, <1>5, <1>6

(* The callback sees a whole packet.                                       *)
LEMMA SeenType ==
    ASSUME NEW h, ParserOK(h), NEW value \in Octet,
           NEW packet \in PacketFor(h, value)
    PROVE  Seen(packet) \in Message
<1>1. /\ packet = Stored(h, value).rx_packet /\ CompletesPacket(h, value)
  BY DEF PacketFor
<1>2. /\ packet \in Packet
      /\ h.rx_state = "data" =>
            packet.len = h.rx_packet.len /\ h.data_rxed + 1 <= Len(packet.data)
      /\ h.rx_state = "len" => packet.len = value
  BY <1>1, StoredPacket
<1>3. packet.data \in Seq(Octet) /\ packet.len \in Nat
      /\ packet.len <= HBS_MAX_DATA_LEN
  BY <1>2 DEF Packet, Octet
<1>4. packet.len <= Len(packet.data)
  <2>1. CASE h.rx_state = "len" /\ value = 0
    BY <1>2, <1>3, <2>1
  <2>2. CASE h.rx_state = "data" /\ ToOctet(h.data_rxed + 1) = h.rx_packet.len
    BY <1>2, <2>2, NextIndex
  <2>. QED
    BY <1>1, <2>1, <2>2 DEF CompletesPacket
<1>. DEFINE d == SubSeq(packet.data, 1, packet.len)
<1>5. d \in Seq(Octet) /\ Len(d) = packet.len
  BY <1>3, <1>4
<1>. HIDE DEF d
<1>. QED
  BY <1>2, <1>3, <1>5 DEF Seen, Message, Packet, d

------------------------------------------------------------------------------
(* A parser that is given the bytes of a packet.                           *)

Encoded(p) == hbs_Send(p.self_addr, p.dest_addr, p.operation, p.data)

Size(p) == HBS_HEADER_SIZE + Len(p.data)

LEMMA EncodedBytes ==
    ASSUME NEW p \in Message
    PROVE  /\ Encoded(p) \in Seq(Octet)
           /\ Len(Encoded(p)) = Size(p)
           /\ Size(p) \in Nat /\ Size(p) >= 4
           /\ Encoded(p)[1] = p.self_addr /\ Encoded(p)[2] = p.dest_addr
           /\ Encoded(p)[3] = p.operation /\ Encoded(p)[4] = Len(p.data)
           /\ \A j \in 1 .. Len(p.data) : Encoded(p)[j + 4] = p.data[j]
<1>. DEFINE head == <<p.self_addr, p.dest_addr, p.operation, Len(p.data)>>
<1>1. /\ p.data \in Seq(Octet) /\ p.self_addr \in Octet
      /\ p.dest_addr \in Octet /\ p.operation \in Octet
  BY DEF Message
<1>2. Len(p.data) \in Octet
  BY <1>1 DEF Message, Octet
<1>3. Encoded(p) = head \o p.data
  BY <1>2, ToOctetKeeps DEF Encoded, hbs_Send
<1>4. /\ head \in Seq(Octet) /\ Len(head) = 4
      /\ head[1] = p.self_addr /\ head[2] = p.dest_addr
      /\ head[3] = p.operation /\ head[4] = Len(p.data)
  BY <1>1, <1>2
<1>. DEFINE d == p.data
            e == Encoded(p)
<1>5. d \in Seq(Octet) /\ Len(d) \in Nat
  BY <1>1
<1>. HIDE DEF head, d, e
<1>6. /\ e \in Seq(Octet) /\ Len(e) = 4 + Len(d)
      /\ \A i \in 1 .. 4 : e[i] = head[i]
      /\ \A j \in 1 .. Len(d) : e[j + 4] = d[j]
  <2>1. e = head \o d
    BY <1>3 DEF e, d
  <2>2. head \in Seq(Octet)
    BY <1>4
  <2>3. /\ e \in Seq(Octet) /\ Len(e) = Len(head) + Len(d)
        /\ \A i \in 1 .. Len(head) + Len(d) :
              e[i] = IF i <= Len(head) THEN head[i] ELSE d[i - Len(head)]
    BY <1>5, <2>1, <2>2, ConcatProperties, Zenon
  <2>4. \A i \in 1 .. 4 : e[i] = head[i]
    BY <1>4, <1>5, <2>3
  <2>5. ASSUME NEW j \in 1 .. Len(d) PROVE e[j + 4] = d[j]
    <3>1. j + 4 \in 1 .. 4 + Len(d) /\ ~(j + 4 <= 4) /\ (j + 4) - 4 = j
      BY <1>5
    <3>. QED
      BY <1>4, <2>3, <3>1
  <2>. QED
    BY <1>4, <2>3, <2>4, <2>5
<1>. QED
  BY <1>4, <1>5, <1>6 DEF d, e, Size, HBS_HEADER_SIZE

(* What a parser waits for that has taken k bytes of p.                    *)
Position(p, k) ==
    IF k \in {0, Size(p)} THEN "self_addr"
    ELSE IF k < HBS_HEADER_SIZE THEN <<"dest_addr", "operation", "len">>[k]
    ELSE "data"

Taken(h, p, k) ==
    /\ h.rx_state = Position(p, k)
    /\ k < Size(p) =>
          /\ k >= 1 => h.rx_packet.self_addr = p.self_addr
          /\ k >= 2 => h.rx_packet.dest_addr = p.dest_addr
          /\ k >= 3 => h.rx_packet.operation = p.operation
          /\ k >= 4 => /\ h.rx_packet.len = Len(p.data)
                       /\ h.data_rxed = k - 4
                       /\ \A j \in 1 .. k - 4 : h.rx_packet.data[j] = p.data[j]

(* At the end of a packet it is where it is before one.                    *)
LEMMA NextPacket ==
    ASSUME NEW h, NEW p \in Message, NEW q \in Message, Taken(h, p, Size(p))
    PROVE  Taken(h, q, 0)
BY EncodedBytes DEF Taken, Position

LEMMA TakenHeader ==
    ASSUME NEW h, ParserOK(h), NEW p \in Message, NEW k \in 0 .. 3,
           Taken(h, p, k)
    PROVE  LET value == Encoded(p)[k + 1]
               s     == Stored(h, value)
           IN  /\ value \in Octet
               /\ h.rx_state = <<"self_addr", "dest_addr", "operation", "len">>[k + 1]
               /\ s.rx_packet \in Packet
               /\ s.rx_packet.self_addr = p.self_addr
               /\ k >= 1 => s.rx_packet.dest_addr = p.dest_addr
               /\ k >= 2 => s.rx_packet.operation = p.operation
               /\ k = 3  => s.rx_packet.len = Len(p.data)
               /\ s.data_rxed = 0
<1>. DEFINE value == Encoded(p)[k + 1]
            s == Stored(h, value)
            q == h.rx_packet
<1>1. /\ value \in Octet
      /\ k = 0 => value = p.self_addr
      /\ k = 1 => value = p.dest_addr
      /\ k = 2 => value = p.operation
      /\ k = 3 => value = Len(p.data)
      /\ k < Size(p)
  BY EncodedBytes
<1>2. h.rx_state = <<"self_addr", "dest_addr", "operation", "len">>[k + 1]
  BY <1>1 DEF Taken, Position, HBS_HEADER_SIZE
<1>3. h \in Parser /\ q \in Packet /\ h.rx_state # "data"
  BY <1>2 DEF ParserOK, Parser
<1>. HIDE DEF value
<1>4. /\ s \in Parser /\ s = [h EXCEPT !.rx_packet = s.rx_packet]
      /\ s.rx_packet = [q EXCEPT ![h.rx_state] = value]
  BY <1>1, <1>3, StoredHeader
<1>. HIDE DEF s
<1>5. s.rx_packet \in Packet /\ s.data_rxed = 0
  BY <1>3, <1>4 DEF Parser, ParserOK
<1>6. CASE k = 0
  <2>1. s.rx_packet = [q EXCEPT !.self_addr = value]
    BY <1>2, <1>4, <1>6
  <2>. QED
    BY <1>1, <1>2, <1>3, <1>5, <1>6, <2>1 DEF value, s, Packet
<1>7. CASE k = 1
  <2>1. s.rx_packet = [q EXCEPT !.dest_addr = value]
    BY <1>2, <1>4, <1>7
  <2>2. q.self_addr = p.self_addr
    BY <1>1, <1>7 DEF Taken
  <2>. QED
    BY <1>1, <1>2, <1>3, <1>5, <1>7, <2>1, <2>2 DEF value, s, Packet
<1>8. CASE k = 2
  <2>1. s.rx_packet = [q EXCEPT !.operation = value]
    BY <1>2, <1>4, <1>8
  <2>2. q.self_addr = p.self_addr /\ q.dest_addr = p.dest_addr
    BY <1>1, <1>8 DEF Taken
  <2>. QED
    BY <1>1, <1>2, <1>3, <1>5, <1>8, <2>1, <2>2 DEF value, s, Packet
<1>9. CASE k = 3
  <2>1. s.rx_packet = [q EXCEPT !.len = value]
    BY <1>2, <1>4, <1>9
  <2>2. /\ q.self_addr = p.self_addr /\ q.dest_addr = p.dest_addr
        /\ q.operation = p.operation
    BY <1>1, <1>9 DEF Taken
  <2>. QED
    BY <1>1, <1>2, <1>3, <1>5, <1>9, <2>1, <2>2 DEF value, s, Packet
<1>. QED
  BY <1>6, <1>7, <1>8, <1>9

LEMMA TakenData ==
    ASSUME NEW h, ParserOK(h), NEW p \in Message, NEW k \in Nat,
           4 <= k, k < Size(p), Taken(h, p, k)
    PROVE  LET value == Encoded(p)[k + 1]
               q     == Stored(h, value).rx_packet
           IN  /\ value \in Octet
               /\ h.rx_state = "data" /\ h.data_rxed + 1 = k - 3
               /\ Stored(h, value).data_rxed = k - 3
               /\ h.rx_packet.len = Len(p.data)
               /\ q \in Packet
               /\ q.self_addr = p.self_addr /\ q.dest_addr = p.dest_addr
               /\ q.operation = p.operation /\ q.len = Len(p.data)
               /\ \A j \in 1 .. k - 3 : q.data[j] = p.data[j]
<1>. DEFINE value == Encoded(p)[k + 1]
            s == Stored(h, value)
            q == h.rx_packet
            i == h.data_rxed
            d == WriteAt(q.data, i, value)
<1>1. Len(p.data) \in Nat /\ k < 4 + Len(p.data)
  BY DEF Message, Size, HBS_HEADER_SIZE
<1>2. value = p.data[k - 3]
  <2>1. k - 3 \in 1 .. Len(p.data) /\ (k - 3) + 4 = k + 1
    BY <1>1
  <2>2. Encoded(p)[(k - 3) + 4] = p.data[k - 3]
    BY <2>1, EncodedBytes
  <2>. QED
    BY <2>1, <2>2
<1>3. value \in Octet
  <2>1. /\ Encoded(p) \in Seq(Octet) /\ Len(Encoded(p)) = Size(p)
        /\ Size(p) \in Nat
    BY EncodedBytes
  <2>2. k + 1 \in 1 .. Size(p)
    BY <2>1
  <2>. QED
    BY <2>1, <2>2
<1>4. h.rx_state = "data"
  BY <1>1 DEF Taken, Position, Size, HBS_HEADER_SIZE
<1>5. /\ q.self_addr = p.self_addr /\ q.dest_addr = p.dest_addr
      /\ q.operation = p.operation /\ q.len = Len(p.data)
      /\ i = k - 4
      /\ \A j \in 1 .. k - 4 : q.data[j] = p.data[j]
  BY DEF Taken
<1>6. h \in Parser /\ q \in Packet /\ q.data \in Seq(Octet) /\ i <= Len(q.data)
  BY <1>4 DEF ParserOK, Parser, Packet
<1>. HIDE DEF value
<1>7. /\ s \in Parser
      /\ s = [h EXCEPT !.rx_packet = s.rx_packet, !.data_rxed = i + 1]
      /\ s.rx_packet = [q EXCEPT !.data = d]
  BY <1>3, <1>4, StoredData
<1>8. i \in Nat /\ i + 1 = k - 3
  BY <1>5
<1>. HIDE DEF i, q
<1>9. /\ d \in Seq(Octet)
      /\ d[i + 1] = value /\ \A j \in 1 .. i : d[j] = q.data[j]
  <2>1. q.data \in Seq(Octet) /\ i \in Nat /\ i <= Len(q.data)
    BY <1>6, <1>8
  <2>2. d \in Seq(Octet) /\ Continues(d, q.data, i, value)
    BY <1>3, <2>1, WriteAtResult
  <2>. HIDE DEF d
  <2>. QED
    BY <2>2 DEF Continues
<1>10. \A j \in 1 .. k - 3 : d[j] = p.data[j]
  <2>. SUFFICES ASSUME NEW j \in 1 .. k - 3 PROVE d[j] = p.data[j]
    OBVIOUS
  <2>1. CASE j = k - 3
    BY <1>2, <1>8, <1>9, <2>1
  <2>2. CASE j # k - 3
    <3>1. j \in 1 .. i /\ j \in 1 .. k - 4
      BY <1>5, <1>8, <2>2
    <3>. QED
      BY <1>5, <1>9, <3>1
  <2>. QED
    BY <2>1, <2>2
<1>. HIDE DEF d, s
<1>11. /\ s.rx_packet \in Packet /\ s.rx_packet.data = d
       /\ s.rx_packet.self_addr = q.self_addr
       /\ s.rx_packet.dest_addr = q.dest_addr
       /\ s.rx_packet.operation = q.operation /\ s.rx_packet.len = q.len
  BY <1>6, <1>7, <1>9 DEF Packet, Parser
<1>12. s.data_rxed = k - 3
  BY <1>6, <1>7, <1>8 DEF Parser, i
<1>. QED
  BY <1>3, <1>4, <1>5, <1>8, <1>10, <1>11, <1>12 DEF value, s, q, i

(* The next byte of p takes the parser one further; the last one of p, and *)
(* no other, completes a packet, and that is p.                            *)
LEMMA TakenStep ==
    ASSUME NEW h, ParserOK(h), NEW p \in Message, NEW k \in Nat, k < Size(p),
           Taken(h, p, k)
    PROVE  LET value == Encoded(p)[k + 1]
           IN  /\ value \in Octet
               /\ Taken(hbs_Received(h, value), p, k + 1)
               /\ CompletesPacket(h, value) <=> k + 1 = Size(p)
               /\ k + 1 = Size(p) => Seen(Stored(h, value).rx_packet) = p
<1>. DEFINE value == Encoded(p)[k + 1]
            r == hbs_Received(h, value)
            s == Stored(h, value)
            q == s.rx_packet
<1>1. /\ Len(p.data) \in Nat /\ Len(p.data) \in Octet /\ p.data \in Seq(Octet)
      /\ Size(p) = 4 + Len(p.data)
      /\ p = [self_addr |-> p.self_addr, dest_addr |-> p.dest_addr,
              operation |-> p.operation, data |-> p.data]
  BY DEF Message, Octet, Size, HBS_HEADER_SIZE
<1>2. CASE k <= 3
  <2>1. k \in 0 .. 3
    BY <1>2
  <2>2. /\ value \in Octet
        /\ h.rx_state = <<"self_addr", "dest_addr", "operation", "len">>[k + 1]
        /\ q \in Packet
        /\ q.self_addr = p.self_addr
        /\ k >= 1 => q.dest_addr = p.dest_addr
        /\ k >= 2 => q.operation = p.operation
        /\ k = 3  => q.len = Len(p.data)
        /\ s.data_rxed = 0
    BY <2>1, TakenHeader
  <2>3. k = 3 => value = Len(p.data)
    BY EncodedBytes
  <2>. HIDE DEF value
  <2>4. /\ r.rx_packet = q
        /\ CompletesPacket(h, value) => r.rx_state = "self_addr"
        /\ ~CompletesPacket(h, value) =>
              r.rx_state = FollowingState[h.rx_state] /\ r.data_rxed = 0
    BY <2>2, ReceivedResult
  <2>5. CompletesPacket(h, value) <=> k = 3 /\ Len(p.data) = 0
    BY <2>1, <2>2, <2>3 DEF CompletesPacket
  <2>6. CompletesPacket(h, value) <=> k + 1 = Size(p)
    BY <1>1, <2>1, <2>5
  <2>. HIDE DEF r, s
  <2>7. r.rx_state = Position(p, k + 1)
    <3>1. CASE k + 1 = Size(p)
      BY <2>4, <2>6, <3>1 DEF Position
    <3>2. CASE k + 1 # Size(p)
      <4>1. r.rx_state = FollowingState[h.rx_state]
        BY <2>4, <2>6, <3>2
      <4>2. /\ k = 0 => Position(p, k + 1) = "dest_addr"
            /\ k = 1 => Position(p, k + 1) = "operation"
            /\ k = 2 => Position(p, k + 1) = "len"
            /\ k = 3 => Position(p, k + 1) = "data"
        BY <3>2 DEF Position, HBS_HEADER_SIZE
      <4>. QED
        BY <2>1, <2>2, <4>1, <4>2 DEF FollowingState
    <3>. QED
      BY <3>1, <3>2
  <2>8. Taken(r, p, k + 1)
    BY <2>1, <2>2, <2>4, <2>6, <2>7 DEF Taken
  <2>9. k + 1 = Size(p) => Seen(q) = p
    <3>. SUFFICES ASSUME k = 3, Len(p.data) = 0 PROVE Seen(q) = p
      BY <2>5, <2>6
    <3>1. SubSeq(q.data, 1, q.len) = << >> /\ p.data = << >>
      BY <1>1, <2>2 DEF Packet
    <3>2. /\ q.self_addr = p.self_addr /\ q.dest_addr = p.dest_addr
          /\ q.operation = p.operation
      BY <2>2
    <3>. QED
      BY <1>1, <3>1, <3>2 DEF Seen
  <2>. QED
    BY <2>2, <2>6, <2>8, <2>9 DEF value, r, s
<1>3. CASE k > 3
  <2>1. /\ value \in Octet
        /\ h.rx_state = "data" /\ h.data_rxed + 1 = k - 3
        /\ s.data_rxed = k - 3
        /\ h.rx_packet.len = Len(p.data)
        /\ q \in Packet
        /\ q.self_addr = p.self_addr /\ q.dest_addr = p.dest_addr
        /\ q.operation = p.operation /\ q.len = Len(p.data)
        /\ \A j \in 1 .. k - 3 : q.data[j] = p.data[j]
    BY <1>3, TakenData
  <2>2. ToOctet(h.data_rxed + 1) = k - 3
    BY <2>1, NextIndex
  <2>. HIDE DEF value
  <2>3. CompletesPacket(h, value) <=> k + 1 = Size(p)
    BY <1>1, <2>1, <2>2 DEF CompletesPacket
  <2>4. /\ r.rx_packet = q
        /\ CompletesPacket(h, value) => r.rx_state = "self_addr"
        /\ ~CompletesPacket(h, value) =>
              r.rx_state = FollowingState[h.rx_state] /\ r.data_rxed = k - 3
    BY <2>1, ReceivedResult
  <2>5. Len(q.data) >= k - 3
    BY <2>1, StoredPacket
  <2>. HIDE DEF r, s
  <2>6. r.rx_state = Position(p, k + 1)
    BY <1>3, <2>1, <2>3, <2>4 DEF Position, HBS_HEADER_SIZE, FollowingState
  <2>7. (k + 1) - 4 = k - 3
    OBVIOUS
  <2>8. Taken(r, p, k + 1)
    BY <1>3, <2>1, <2>3, <2>4, <2>6, <2>7 DEF Taken
  <2>9. k + 1 = Size(p) => Seen(q) = p
    <3>. SUFFICES ASSUME k - 3 = Len(p.data) PROVE Seen(q) = p
      BY <1>1
    <3>. DEFINE d == SubSeq(q.data, 1, q.len)
    <3>1. q.data \in Seq(Octet)
      BY <2>1 DEF Packet
    <3>2. /\ d \in Seq(Octet) /\ Len(d) = Len(p.data)
          /\ \A j \in 1 .. Len(p.data) : d[j] = p.data[j]
      BY <1>1, <2>1, <2>5, <3>1
    <3>3. d = p.data
      <4>. HIDE DEF d
      <4>. QED
        BY <1>1, <3>2
    <3>. QED
      BY <1>1, <2>1, <3>3 DEF Seen
  <2>. QED
    BY <2>1, <2>3, <2>8, <2>9 DEF value, r, s
<1>. QED
  BY <1>2, <1>3

------------------------------------------------------------------------------
(* The packets a callback has seen, as a sequence of one or none.          *)

LEMMA SeenInNone == SeenIn({}) = << >>
<1>1. {Seen(packet) : packet \in {}} = {}
  OBVIOUS
<1>2. Cardinality({}) = 0
  BY FS_EmptySet
<1>. DEFINE F == [1 .. Cardinality({}) -> {}]
<1>3. << >> \in F /\ IsInjective(<< >>)
  BY <1>2 DEF IsInjective
<1>4. SetToSeq({}) \in F
  BY <1>3 DEF SetToSeq
<1>5. SetToSeq({}) = << >>
  <2>. DEFINE f == SetToSeq({})
  <2>1. f \in [1 .. 0 -> {}]
    BY <1>2, <1>4
  <2>. HIDE DEF f
  <2>2. f \in Seq({}) /\ Len(f) = 0
    BY <2>1
  <2>. QED
    BY <2>2 DEF f
<1>. QED
  BY <1>1, <1>5 DEF SeenIn

LEMMA SeenInOne ==
    ASSUME NEW packet
    PROVE  SeenIn({packet}) = <<Seen(packet)>>
<1>. DEFINE x == Seen(packet)
            F == [1 .. Cardinality({x}) -> {x}]
<1>1. {Seen(p) : p \in {packet}} = {x}
  OBVIOUS
<1>. HIDE DEF x
<1>2. Cardinality({x}) = 1
  BY FS_Singleton
<1>3. <<x>> \in F /\ IsInjective(<<x>>)
  BY <1>2 DEF IsInjective
<1>4. SetToSeq({x}) \in F
  BY <1>3 DEF SetToSeq
<1>5. SetToSeq({x}) = <<x>>
  <2>. DEFINE f == SetToSeq({x})
  <2>1. f \in [1 .. 1 -> {x}]
    BY <1>2, <1>4
  <2>. HIDE DEF f
  <2>2. f = [i \in 1 .. 1 |-> x] /\ <<x>> = [i \in 1 .. 1 |-> x]
    BY <2>1
  <2>. QED
    BY <2>2 DEF f
<1>. QED
  BY <1>1, <1>5 DEF SeenIn, x

(* What TakeByte adds to the packets that were handled.                    *)
LEMMA SeenInResult ==
    ASSUME NEW h, ParserOK(h), NEW value \in Octet
    PROVE  /\ SeenIn(CallsBack(h, value)) \in Seq(Message)
           /\ CallsBack(h, value) = {} => SeenIn(CallsBack(h, value)) = << >>
           /\ CallsBack(h, value) # {} =>
                 SeenIn(CallsBack(h, value)) =
                    <<Seen(Stored(h, value).rx_packet)>>
<1>. DEFINE p == Stored(h, value).rx_packet
<1>1. CASE CallsBack(h, value) = {}
  <2>1. SeenIn(CallsBack(h, value)) = << >>
    BY <1>1, SeenInNone, Zenon
  <2>2. << >> \in Seq(Message)
    OBVIOUS
  <2>. QED
    BY <1>1, <2>1, <2>2, Zenon
<1>2. CASE CallsBack(h, value) # {}
  <2>1. CallsBack(h, value) = {p} /\ p \in PacketFor(h, value)
    BY <1>2 DEF CallsBack, PacketFor
  <2>2. Seen(p) \in Message
    BY <2>1, SeenType
  <2>3. SeenIn(CallsBack(h, value)) = <<Seen(p)>>
    BY <2>1, SeenInOne, Zenon
  <2>4. <<Seen(p)>> \in Seq(Message)
    <3>. HIDE DEF p
    <3>. QED
      BY <2>2
  <2>. QED
    BY <1>2, <2>3, <2>4, Zenon
<1>. QED
  BY <1>1, <1>2

------------------------------------------------------------------------------
(* The types.                                                              *)

TypeInv ==
    /\ hbs \in [Nodes -> Parser]
    /\ \A n \in Nodes : ParserOK(hbs[n]) /\ hbs[n].self_addr = n
    /\ queue \in [Nodes -> Seq(Octet)]
    /\ \A n \in Nodes : Len(queue[n]) <= RxLen
    /\ handled \in [Nodes -> Seq(Message)]
    /\ out \in Seq(Octet)
    /\ sender \in Nodes \cup {Nobody} /\ (sender = Nobody <=> out = << >>)
    /\ lost \in BOOLEAN

LEMMA TypeInvOK == TypeInv => TypeOK
BY DEF TypeInv, TypeOK, ParserOK, Parser

LEMMA NobodyFact == Nobody \notin Nodes
BY DEF Nobody, Octet

LEMMA InitType == Init => TypeInv
<1>. SUFFICES ASSUME Init PROVE TypeInv
  OBVIOUS
<1>1. ASSUME NEW n \in Nodes
      PROVE  hbs[n] \in Parser /\ ParserOK(hbs[n]) /\ hbs[n].self_addr = n
  <2>. DEFINE p == [self_addr |-> 0, dest_addr |-> 0, operation |-> 0,
                    len |-> 0, data |-> << >>]
              h == hbs[n]
  <2>1. p \in Packet /\ p.data = << >>
    BY OctetFacts DEF Packet
  <2>2. h = [self_addr |-> n, user_cb |-> FALSE, rx_state |-> "self_addr",
             data_rxed |-> 0, unhandled_pkt_cnt |-> 0, rx_packet |-> p]
    BY DEF Init, hbs_Init
  <2>3. n \in Octet /\ "self_addr" \in RxStates
    BY DEF RxStates
  <2>. HIDE DEF p, h
  <2>4. /\ h \in Parser /\ h.self_addr = n /\ h.rx_state = "self_addr"
        /\ h.data_rxed = 0 /\ h.rx_packet = p
    BY <2>1, <2>2, <2>3, OctetFacts DEF Parser
  <2>5. Len(h.rx_packet.data) <= HBS_MAX_DATA_LEN
    BY <2>1, <2>4
  <2>6. ParserOK(h)
    BY <2>4, <2>5 DEF ParserOK
  <2>. QED
    BY <2>4, <2>6 DEF h
<1>2. hbs \in [Nodes -> Parser]
  BY <1>1 DEF Init
<1>3. /\ queue \in [Nodes -> Seq(Octet)] /\ handled \in [Nodes -> Seq(Message)]
      /\ \A n \in Nodes : Len(queue[n]) <= RxLen
  BY DEF Init
<1>4. out \in Seq(Octet) /\ out = << >> /\ sender = Nobody
  BY DEF Init
<1>5. lost \in BOOLEAN
  BY Zenon DEF Init
<1>. QED
  BY <1>1, <1>2, <1>3, <1>4, <1>5 DEF TypeInv

LEMMA RegisterType ==
    ASSUME TypeInv, NEW n \in Nodes, RegisterRxCb(n)
    PROVE  TypeInv'
<1>. DEFINE h == hbs[n]
            r == hbs'[n]
<1>1. /\ h \in Parser /\ ParserOK(h) /\ h.self_addr = n
      /\ r = [h EXCEPT !.user_cb = TRUE]
      /\ \A m \in Nodes \ {n} : hbs'[m] = hbs[m]
      /\ DOMAIN hbs' = Nodes /\ hbs' = [m \in Nodes |-> hbs'[m]]
  BY DEF TypeInv, RegisterRxCb, hbs_RegisterRxCb
<1>. HIDE DEF h, r
<1>2. /\ r \in Parser /\ r.self_addr = n /\ r.rx_state = h.rx_state
      /\ r.data_rxed = h.data_rxed /\ r.rx_packet = h.rx_packet
  BY <1>1 DEF Parser
<1>3. ParserOK(r)
  BY <1>1, <1>2 DEF ParserOK
<1>4. \A m \in Nodes :
        hbs'[m] \in Parser /\ ParserOK(hbs'[m]) /\ hbs'[m].self_addr = m
  <2>. SUFFICES ASSUME NEW m \in Nodes
                PROVE  /\ hbs'[m] \in Parser /\ ParserOK(hbs'[m])
                       /\ hbs'[m].self_addr = m
    OBVIOUS
  <2>1. CASE m = n
    BY <1>2, <1>3, <2>1 DEF r
  <2>2. CASE m # n
    BY <1>1, <2>2 DEF TypeInv
  <2>. QED
    BY <2>1, <2>2
<1>5. hbs' \in [Nodes -> Parser]
  BY <1>1, <1>4
<1>. QED
  BY <1>4, <1>5 DEF TypeInv, RegisterRxCb

LEMMA ToOctetType ==
    ASSUME NEW i \in Nat
    PROVE  ToOctet(i) \in Octet
<1>1. HBS_MAX_DATA_LEN + 1 \in Nat \ {0}
  OBVIOUS
<1>. DEFINE M == HBS_MAX_DATA_LEN + 1
<1>2. i % M \in 0 .. M - 1
  <2>. HIDE DEF M
  <2>. QED
    BY <1>1 DEF M
<1>. QED
  BY <1>2 DEF ToOctet, Octet

LEMMA PayloadType ==
    ASSUME NEW data \in Payloads
    PROVE  data \in Seq(Octet) /\ Len(data) <= LongestPayload
<1>1. PICK k \in 0 .. LongestPayload : data \in [1 .. k -> Contents]
  BY DEF Payloads
<1>2. data \in Seq(Contents) /\ Len(data) = k
  BY <1>1
<1>3. data \in Seq(Octet)
  BY <1>1, <1>2
<1>. QED
  BY <1>1, <1>2, <1>3

LEMMA SendType ==
    ASSUME TypeInv, NEW n \in Nodes, NEW dest \in Octet,
           NEW opcode \in Operations, NEW data \in Payloads,
           Send(n, dest, opcode, data)
    PROVE  TypeInv'
<1>. DEFINE head == <<hbs[n].self_addr, dest, opcode, ToOctet(Len(data))>>
<1>1. data \in Seq(Octet) /\ Len(data) \in Nat
  BY PayloadType
<1>2. ToOctet(Len(data)) \in Octet /\ hbs[n].self_addr \in Octet
  BY <1>1, ToOctetType DEF TypeInv
<1>3. head \in Seq(Octet) /\ Len(head) = 4
  BY <1>2
<1>4. out' = head \o data
  BY DEF Send, hbs_Send
<1>. HIDE DEF head
<1>5. out' \in Seq(Octet) /\ Len(out') = Len(head) + Len(data)
  BY <1>1, <1>3, <1>4, ConcatProperties, Zenon
<1>6. out' # << >>
  BY <1>1, <1>3, <1>5
<1>7. sender' = n /\ sender' # Nobody
  BY NobodyFact DEF Send
<1>. QED
  BY <1>5, <1>6, <1>7 DEF TypeInv, Send

LEMMA PutByteType ==
    ASSUME TypeInv, PutByte
    PROVE  TypeInv'
<1>1. /\ out' \in Seq(Octet) /\ Head(out) \in Octet
      /\ out' = Tail(out) /\ sender \in Nodes
  BY DEF TypeInv, PutByte
<1>2. /\ sender' \in Nodes \cup {Nobody}
      /\ sender' = Nobody <=> out' = << >>
  BY <1>1, NobodyFact DEF PutByte
<1>3. ASSUME NEW m \in Nodes
      PROVE  queue'[m] \in Seq(Octet) /\ Len(queue'[m]) <= RxLen
  <2>1. queue[m] \in Seq(Octet) /\ Len(queue[m]) <= RxLen
    BY DEF TypeInv
  <2>2. queue'[m] = IF Hears(m) THEN Append(queue[m], Head(out)) ELSE queue[m]
    BY DEF PutByte
  <2>3. Hears(m) => Len(queue[m]) < RxLen
    BY DEF Hears
  <2>. QED
    BY <1>1, <2>1, <2>2, <2>3
<1>4. queue' \in [Nodes -> Seq(Octet)]
  BY <1>3 DEF PutByte
<1>5. lost' \in BOOLEAN
  BY DEF PutByte, TypeInv
<1>. QED
  BY <1>1, <1>2, <1>3, <1>4, <1>5 DEF TypeInv, PutByte

LEMMA TakeByteType ==
    ASSUME TypeInv, NEW n \in Nodes, TakeByte(n)
    PROVE  TypeInv'
<1>. DEFINE value == Head(queue[n])
<1>1. /\ queue[n] \in Seq(Octet) /\ queue[n] # << >> /\ ParserOK(hbs[n])
      /\ value \in Octet
      /\ hbs[n].self_addr = n /\ Len(queue[n]) <= RxLen
  BY DEF TypeInv, TakeByte
<1>2. /\ hbs' = [hbs EXCEPT ![n] = hbs_Received(hbs[n], value)]
      /\ handled' = [handled EXCEPT
                        ![n] = @ \o SeenIn(CallsBack(hbs[n], value))]
      /\ queue' = [queue EXCEPT ![n] = Tail(@)]
  BY DEF TakeByte, TypeInv
<1>. HIDE DEF value
<1>3. /\ hbs_Received(hbs[n], value) \in Parser
      /\ ParserOK(hbs_Received(hbs[n], value))
      /\ hbs_Received(hbs[n], value).self_addr = n
  BY <1>1, ParserStep, ReceivedResult
<1>4. /\ hbs' \in [Nodes -> Parser]
      /\ \A m \in Nodes : ParserOK(hbs'[m]) /\ hbs'[m].self_addr = m
  BY <1>2, <1>3 DEF TypeInv
<1>5. /\ queue' \in [Nodes -> Seq(Octet)]
      /\ \A m \in Nodes : Len(queue'[m]) <= RxLen
  BY <1>1, <1>2 DEF TypeInv
<1>6. handled' \in [Nodes -> Seq(Message)]
  <2>1. SeenIn(CallsBack(hbs[n], value)) \in Seq(Message)
    BY <1>1, SeenInResult
  <2>2. handled[n] \in Seq(Message)
    BY DEF TypeInv
  <2>3. handled[n] \o SeenIn(CallsBack(hbs[n], value)) \in Seq(Message)
    BY <2>1, <2>2, ConcatProperties, Zenon
  <2>. QED
    BY <1>2, <2>3 DEF TypeInv
<1>. QED
  BY <1>4, <1>5, <1>6 DEF TypeInv, TakeByte

LEMMA NextType == TypeInv /\ [Next]_vars => TypeInv'
<1>. SUFFICES ASSUME TypeInv, [Next]_vars PROVE TypeInv'
  OBVIOUS
<1>1. CASE PutByte
  BY <1>1, PutByteType
<1>2. CASE \E n \in Nodes : RegisterRxCb(n)
  BY <1>2, RegisterType
<1>3. CASE \E n \in Nodes : SendSome(n)
  BY <1>3, SendType DEF SendSome
<1>4. CASE \E n \in Nodes : TakeByte(n)
  BY <1>4, TakeByteType
<1>5. CASE UNCHANGED vars
  BY <1>5 DEF TypeInv, vars
<1>. QED
  BY <1>1, <1>2, <1>3, <1>4, <1>5 DEF Next

LEMMA TypeInvariant == Spec => []TypeInv
BY InitType, NextType, PTL DEF Spec

(* Whatever is sent, however long the payload, to whomever, and whether    *)
(* bytes are lost or not: a parser keeps to its states, counts no further  *)
(* than the length it was given, and writes inside its array.              *)
THEOREM TypeCorrect == Spec => []TypeOK
BY TypeInvariant, TypeInvOK, PTL

------------------------------------------------------------------------------
(* How node m, whose parser is h and which has served k of the packets s   *)
(* that were sent to it, will read the bytes that come next: byte i is     *)
(* number at[i] of packet pkt[i], and cnt[i] of s are complete with it;    *)
(* index 0 is where the parser is.  The last byte ends a packet.           *)

Ends(p, i) == i = Size(p)

Reading(m, h, bytes, s, k, pkt, at, cnt) ==
    /\ pkt \in [0 .. Len(bytes) -> Message]
    /\ at  \in [0 .. Len(bytes) -> Nat]
    /\ cnt \in [0 .. Len(bytes) -> Nat]
    /\ \A i \in 0 .. Len(bytes) :
         1 <= at[i] /\ at[i] <= Size(pkt[i]) /\ cnt[i] <= Len(s)
    /\ \A i \in 1 .. Len(bytes) :
         /\ bytes[i] = Encoded(pkt[i])[at[i]]
         /\ IF Ends(pkt[i - 1], at[i - 1])
            THEN at[i] = 1
            ELSE at[i] = at[i - 1] + 1 /\ pkt[i] = pkt[i - 1]
         /\ IF Ends(pkt[i], at[i]) /\ pkt[i].dest_addr = m
            THEN cnt[i] = cnt[i - 1] + 1 /\ s[cnt[i]] = pkt[i]
            ELSE cnt[i] = cnt[i - 1]
    /\ Ends(pkt[Len(bytes)], at[Len(bytes)]) /\ cnt[Len(bytes)] = Len(s)
    /\ Taken(h, pkt[0], at[0]) /\ cnt[0] = k

CanRead(m, h, bytes, s, k) ==
    \E pkt, at, cnt : Reading(m, h, bytes, s, k, pkt, at, cnt)

(* Of the packets s, x comes after the first k.                            *)
NextIs(s, k, x) == k + 1 <= Len(s) /\ s[k + 1] = x

(* A parser that waits for a packet reads nothing.                         *)
LEMMA ReadNothing ==
    ASSUME NEW m, NEW h, h.rx_state = "self_addr"
    PROVE  CanRead(m, h, << >>, << >>, 0)
<1>. DEFINE p == [self_addr |-> 0, dest_addr |-> 0, operation |-> 0,
                  data |-> << >>]
            pkt == [i \in 0 .. 0 |-> p]
            at  == [i \in 0 .. 0 |-> 4]
            cnt == [i \in 0 .. 0 |-> 0]
<1>1. p \in Message /\ Size(p) = 4
  BY OctetFacts DEF Message, Size, HBS_HEADER_SIZE
<1>2. Taken(h, p, 4)
  BY <1>1 DEF Taken, Position
<1>. HIDE DEF p
<1>3. Reading(m, h, << >>, << >>, 0, pkt, at, cnt)
  BY <1>1, <1>2 DEF Reading, Ends
<1>. QED
  BY <1>3 DEF CanRead

(* A packet more behind the last byte.                                     *)
LEMMA ReadMore ==
    ASSUME NEW m, NEW h, NEW bytes \in Seq(Octet), NEW s \in Seq(Message),
           NEW k \in Nat, CanRead(m, h, bytes, s, k), NEW q \in Message
    PROVE  CanRead(m, h, bytes \o Encoded(q),
                   IF q.dest_addr = m THEN Append(s, q) ELSE s, k)
<1>1. PICK pkt, at, cnt : Reading(m, h, bytes, s, k, pkt, at, cnt)
  BY DEF CanRead
<1>. DEFINE L  == Len(bytes)
            e  == Encoded(q)
            N  == Size(q)
            b  == bytes \o e
            t  == IF q.dest_addr = m THEN Append(s, q) ELSE s
            pkt2 == [i \in 0 .. L + N |-> IF i <= L THEN pkt[i] ELSE q]
            at2  == [i \in 0 .. L + N |-> IF i <= L THEN at[i] ELSE i - L]
            cnt2 == [i \in 0 .. L + N |->
                       IF i <= L THEN cnt[i]
                       ELSE IF i = L + N THEN Len(t) ELSE Len(s)]
<1>2. /\ e \in Seq(Octet) /\ Len(e) = N /\ N \in Nat /\ N >= 4 /\ L \in Nat
  BY EncodedBytes
<1>3. /\ b \in Seq(Octet) /\ Len(b) = L + N
      /\ \A i \in 1 .. L : b[i] = bytes[i]
      /\ \A i \in 1 .. N : b[L + i] = e[i]
  <2>. DEFINE M == Len(e)
  <2>1. /\ b \in Seq(Octet) /\ Len(b) = L + M
        /\ \A i \in 1 .. L + M : b[i] = IF i <= L THEN bytes[i] ELSE e[i - L]
    BY <1>2, ConcatProperties, Zenon
  <2>. HIDE DEF b, e, L, M, N
  <2>2. \A i \in 1 .. L : b[i] = bytes[i]
    BY <1>2, <2>1 DEF M
  <2>3. \A i \in 1 .. N : L + i \in 1 .. L + N /\ ~(L + i <= L) /\ (L + i) - L = i
    BY <1>2
  <2>4. \A i \in 1 .. N : b[L + i] = e[i]
    BY <1>2, <2>1, <2>3 DEF M
  <2>. QED
    BY <1>2, <2>1, <2>2, <2>4 DEF M
<1>4. /\ t \in Seq(Message) /\ Len(s) \in Nat
      /\ Len(t) \in Nat /\ Len(s) <= Len(t)
      /\ \A i \in 1 .. Len(s) : t[i] = s[i]
      /\ q.dest_addr = m => Len(t) = Len(s) + 1 /\ t[Len(s) + 1] = q
      /\ q.dest_addr # m => Len(t) = Len(s)
  OBVIOUS
<1>5. /\ pkt \in [0 .. L -> Message] /\ at \in [0 .. L -> Nat]
      /\ cnt \in [0 .. L -> Nat]
      /\ \A i \in 0 .. L :
           1 <= at[i] /\ at[i] <= Size(pkt[i]) /\ cnt[i] <= Len(s)
      /\ Ends(pkt[L], at[L]) /\ cnt[L] = Len(s)
      /\ Taken(h, pkt[0], at[0]) /\ cnt[0] = k
  BY <1>1 DEF Reading
<1>6. \A i \in 1 .. L :
        /\ bytes[i] = Encoded(pkt[i])[at[i]]
        /\ IF Ends(pkt[i - 1], at[i - 1])
           THEN at[i] = 1
           ELSE at[i] = at[i - 1] + 1 /\ pkt[i] = pkt[i - 1]
        /\ IF Ends(pkt[i], at[i]) /\ pkt[i].dest_addr = m
           THEN cnt[i] = cnt[i - 1] + 1 /\ s[cnt[i]] = pkt[i]
           ELSE cnt[i] = cnt[i - 1]
  BY <1>1 DEF Reading
<1>. HIDE DEF L, N, b, e, t
<1>7. /\ \A i \in 0 .. L : /\ i \in 0 .. L + N
                           /\ pkt2[i] = pkt[i] /\ at2[i] = at[i] /\ cnt2[i] = cnt[i]
      /\ \A i \in 1 .. N : /\ L + i \in 0 .. L + N
                           /\ pkt2[L + i] = q /\ at2[L + i] = i
                           /\ cnt2[L + i] = IF i = N THEN Len(t) ELSE Len(s)
  <2>1. \A i \in 0 .. L : i \in 0 .. L + N /\ i <= L
    BY <1>2
  <2>2. \A i \in 1 .. N : /\ L + i \in 0 .. L + N /\ ~(L + i <= L)
                          /\ (L + i) - L = i /\ (L + i = L + N <=> i = N)
    BY <1>2
  <2>. QED
    BY <2>1, <2>2
<1>8. /\ pkt2 \in [0 .. L + N -> Message] /\ at2 \in [0 .. L + N -> Nat]
      /\ cnt2 \in [0 .. L + N -> Nat]
  <2>1. \A i \in 0 .. L + N : IF i <= L THEN i \in 0 .. L ELSE i - L \in Nat
    BY <1>2
  <2>2. Len(t) \in Nat
    BY <1>4
  <2>. QED
    BY <1>4, <1>5, <2>1, <2>2
<1>. HIDE DEF pkt2, at2, cnt2
<1>9. ASSUME NEW i \in 0 .. L + N
      PROVE  \/ i \in 0 .. L
             \/ \E j \in 1 .. N : i = L + j
  <2>1. CASE i <= L
    BY <1>2, <2>1
  <2>2. CASE ~(i <= L)
    <3>1. i - L \in 1 .. N /\ i = L + (i - L)
      BY <1>2, <2>2
    <3>. QED
      BY <3>1
  <2>. QED
    BY <2>1, <2>2
<1>10. ASSUME NEW i \in 0 .. L + N
       PROVE  1 <= at2[i] /\ at2[i] <= Size(pkt2[i]) /\ cnt2[i] <= Len(t)
  <2>1. CASE i \in 0 .. L
    <3>1. cnt[i] \in Nat /\ cnt[i] <= Len(s)
      BY <1>5, <2>1
    <3>2. cnt[i] <= Len(t)
      BY <1>4, <3>1
    <3>. QED
      BY <1>5, <1>7, <2>1, <3>2
  <2>2. ASSUME NEW j \in 1 .. N, i = L + j
        PROVE  1 <= at2[i] /\ at2[i] <= Size(pkt2[i]) /\ cnt2[i] <= Len(t)
    <3>1. Len(s) <= Len(t) /\ Len(t) <= Len(t)
      BY <1>4
    <3>2. 1 <= j /\ j <= N
      BY <1>2
    <3>. QED
      BY <1>7, <2>2, <3>1, <3>2 DEF N
  <2>. QED
    BY <1>9, <2>1, <2>2
<1>11. ASSUME NEW i \in 1 .. L + N
       PROVE  /\ b[i] = Encoded(pkt2[i])[at2[i]]
              /\ IF Ends(pkt2[i - 1], at2[i - 1])
                 THEN at2[i] = 1
                 ELSE at2[i] = at2[i - 1] + 1 /\ pkt2[i] = pkt2[i - 1]
              /\ IF Ends(pkt2[i], at2[i]) /\ pkt2[i].dest_addr = m
                 THEN cnt2[i] = cnt2[i - 1] + 1 /\ t[cnt2[i]] = pkt2[i]
                 ELSE cnt2[i] = cnt2[i - 1]
  <2>1. CASE i \in 0 .. L
    <3>1. i \in 1 .. L /\ i - 1 \in 0 .. L
      BY <1>2, <2>1
    <3>2. /\ pkt2[i] = pkt[i] /\ at2[i] = at[i] /\ cnt2[i] = cnt[i]
          /\ pkt2[i - 1] = pkt[i - 1] /\ at2[i - 1] = at[i - 1]
          /\ cnt2[i - 1] = cnt[i - 1]
      BY <1>7, <2>1, <3>1
    <3>3. /\ cnt[i] \in Nat /\ cnt[i - 1] \in Nat
          /\ cnt[i] <= Len(s)
      BY <1>5, <2>1, <3>1
    <3>4. cnt[i] = cnt[i - 1] + 1 => t[cnt[i]] = s[cnt[i]]
      BY <1>4, <3>3
    <3>. QED
      BY <1>3, <1>6, <3>1, <3>2, <3>4
  <2>2. ASSUME NEW j \in 1 .. N, i = L + j
        PROVE  /\ b[i] = Encoded(pkt2[i])[at2[i]]
               /\ IF Ends(pkt2[i - 1], at2[i - 1])
                  THEN at2[i] = 1
                  ELSE at2[i] = at2[i - 1] + 1 /\ pkt2[i] = pkt2[i - 1]
               /\ IF Ends(pkt2[i], at2[i]) /\ pkt2[i].dest_addr = m
                  THEN cnt2[i] = cnt2[i - 1] + 1 /\ t[cnt2[i]] = pkt2[i]
                  ELSE cnt2[i] = cnt2[i - 1]
    <3>1. /\ pkt2[i] = q /\ at2[i] = j /\ b[i] = e[j]
          /\ cnt2[i] = IF j = N THEN Len(t) ELSE Len(s)
      BY <1>3, <1>7, <2>2
    <3>2. b[i] = Encoded(pkt2[i])[at2[i]]
      BY <3>1 DEF e
    <3>3. CASE j = 1
      <4>1. i - 1 = L /\ L \in 0 .. L /\ N # 1
        BY <1>2, <2>2, <3>3
      <4>2. /\ pkt2[i - 1] = pkt[L] /\ at2[i - 1] = at[L]
            /\ cnt2[i - 1] = Len(s)
        BY <1>5, <1>7, <4>1
      <4>. QED
        BY <1>5, <3>1, <3>2, <3>3, <4>1, <4>2 DEF Ends, N
    <3>4. CASE j # 1
      <4>1. j - 1 \in 1 .. N /\ i - 1 = L + (j - 1) /\ j - 1 # N
        BY <1>2, <2>2, <3>4
      <4>2. /\ pkt2[i - 1] = q /\ at2[i - 1] = j - 1
            /\ cnt2[i - 1] = Len(s)
        BY <1>7, <4>1
      <4>3. j = (j - 1) + 1
        OBVIOUS
      <4>4. CASE j = N
        BY <1>4, <3>1, <3>2, <4>1, <4>2, <4>3, <4>4 DEF Ends, N
      <4>5. CASE j # N
        BY <3>1, <3>2, <4>1, <4>2, <4>3, <4>5 DEF Ends, N
      <4>. QED
        BY <4>4, <4>5
    <3>. QED
      BY <3>3, <3>4
  <2>3. i \in 0 .. L + N
    BY <1>2
  <2>. QED
    BY <1>9, <2>1, <2>2, <2>3
<1>12. /\ Ends(pkt2[L + N], at2[L + N]) /\ cnt2[L + N] = Len(t)
       /\ Taken(h, pkt2[0], at2[0]) /\ cnt2[0] = k
  <2>1. N \in 1 .. N /\ 0 \in 0 .. L
    BY <1>2
  <2>2. pkt2[L + N] = q /\ at2[L + N] = N /\ cnt2[L + N] = Len(t)
    BY <1>7, <2>1
  <2>3. pkt2[0] = pkt[0] /\ at2[0] = at[0] /\ cnt2[0] = cnt[0]
    BY <1>7, <2>1
  <2>. QED
    BY <1>5, <2>2, <2>3 DEF Ends, N
<1>13. Reading(m, h, b, t, k, pkt2, at2, cnt2)
  BY <1>3, <1>8, <1>10, <1>11, <1>12 DEF Reading
<1>. QED
  BY <1>13 DEF CanRead, b, e, t

(* The next byte: where it ends a packet for this node, and nowhere else,  *)
(* the parser has that packet.                                             *)
LEMMA ReadByte ==
    ASSUME NEW m, NEW h, ParserOK(h), h.self_addr = m,
           NEW bytes \in Seq(Octet), bytes # << >>, NEW s \in Seq(Message),
           NEW k \in Nat, CanRead(m, h, bytes, s, k)
    PROVE  LET value == Head(bytes)
               r     == hbs_Received(h, value)
           IN  /\ PacketFor(h, value) = {} => CanRead(m, r, Tail(bytes), s, k)
               /\ PacketFor(h, value) # {} =>
                     /\ NextIs(s, k, Seen(Stored(h, value).rx_packet))
                     /\ CanRead(m, r, Tail(bytes), s, k + 1)
<1>1. PICK pkt, at, cnt : Reading(m, h, bytes, s, k, pkt, at, cnt)
  BY DEF CanRead
<1>. DEFINE L     == Len(bytes)
            value == Head(bytes)
            r     == hbs_Received(h, value)
            p     == pkt[1]
            j     == at[1] - 1
            last  == Ends(p, at[1]) /\ p.dest_addr = m
<1>2. /\ L \in Nat /\ L >= 1 /\ value = bytes[1] /\ value \in Octet
      /\ Tail(bytes) \in Seq(Octet) /\ Len(Tail(bytes)) = L - 1
      /\ \A i \in 1 .. L - 1 : Tail(bytes)[i] = bytes[i + 1]
  OBVIOUS
<1>3. /\ pkt \in [0 .. L -> Message] /\ at \in [0 .. L -> Nat]
      /\ cnt \in [0 .. L -> Nat]
      /\ \A i \in 0 .. L :
           1 <= at[i] /\ at[i] <= Size(pkt[i]) /\ cnt[i] <= Len(s)
      /\ Ends(pkt[L], at[L]) /\ cnt[L] = Len(s)
      /\ Taken(h, pkt[0], at[0]) /\ cnt[0] = k
  BY <1>1 DEF Reading
<1>4. \A i \in 1 .. L :
        /\ bytes[i] = Encoded(pkt[i])[at[i]]
        /\ IF Ends(pkt[i - 1], at[i - 1])
           THEN at[i] = 1
           ELSE at[i] = at[i - 1] + 1 /\ pkt[i] = pkt[i - 1]
        /\ IF Ends(pkt[i], at[i]) /\ pkt[i].dest_addr = m
           THEN cnt[i] = cnt[i - 1] + 1 /\ s[cnt[i]] = pkt[i]
           ELSE cnt[i] = cnt[i - 1]
  BY <1>1 DEF Reading
<1>. HIDE DEF L, value
<1>5. 0 \in 0 .. L /\ 1 \in 0 .. L /\ 1 \in 1 .. L /\ 1 - 1 = 0
  BY <1>2
<1>6. /\ p \in Message /\ pkt[0] \in Message /\ at[0] \in Nat /\ at[1] \in Nat
      /\ 1 <= at[1] /\ at[1] <= Size(p) /\ Size(p) \in Nat
      /\ cnt[1] \in Nat /\ cnt[1] <= Len(s)
  BY <1>3, <1>5, EncodedBytes
<1>7. /\ value = Encoded(p)[at[1]]
      /\ IF Ends(pkt[0], at[0]) THEN at[1] = 1
                                ELSE at[1] = at[0] + 1 /\ p = pkt[0]
      /\ IF last THEN cnt[1] = k + 1 /\ s[cnt[1]] = p ELSE cnt[1] = k
  BY <1>2, <1>3, <1>4, <1>5
<1>8. j \in Nat /\ j < Size(p) /\ j + 1 = at[1]
  BY <1>6
<1>9. Taken(h, p, j)
  <2>1. CASE Ends(pkt[0], at[0])
    <3>1. j = 0 /\ Taken(h, pkt[0], Size(pkt[0]))
      BY <1>3, <1>7, <2>1 DEF Ends
    <3>. HIDE DEF p, j
    <3>2. Taken(h, p, 0)
      BY <1>6, <3>1, NextPacket
    <3>. QED
      BY <3>1, <3>2
  <2>2. CASE ~Ends(pkt[0], at[0])
    <3>1. j = at[0] /\ p = pkt[0]
      BY <1>6, <1>7, <2>2
    <3>. QED
      BY <1>3, <3>1
  <2>. QED
    BY <2>1, <2>2
<1>10. /\ Taken(r, p, at[1])
       /\ CompletesPacket(h, value) <=> Ends(p, at[1])
       /\ Ends(p, at[1]) => Seen(Stored(h, value).rx_packet) = p
  <2>. HIDE DEF p, j
  <2>1. /\ Taken(hbs_Received(h, Encoded(p)[j + 1]), p, j + 1)
        /\ CompletesPacket(h, Encoded(p)[j + 1]) <=> j + 1 = Size(p)
        /\ j + 1 = Size(p) =>
              Seen(Stored(h, Encoded(p)[j + 1]).rx_packet) = p
    BY <1>6, <1>8, <1>9, TakenStep
  <2>. QED
    BY <1>7, <1>8, <2>1 DEF Ends
<1>11. PacketFor(h, value) # {} <=> last
  <2>. DEFINE packet == Stored(h, value).rx_packet
  <2>1. PacketFor(h, value) # {} <=>
           CompletesPacket(h, value) /\ packet.dest_addr = m
    BY DEF PacketFor
  <2>2. Seen(packet).dest_addr = packet.dest_addr
    BY DEF Seen
  <2>. HIDE DEF packet
  <2>. QED
    BY <1>10, <2>1, <2>2 DEF packet
<1>. DEFINE pkt2 == [i \in 0 .. L - 1 |-> pkt[i + 1]]
            at2  == [i \in 0 .. L - 1 |-> at[i + 1]]
            cnt2 == [i \in 0 .. L - 1 |-> cnt[i + 1]]
            b    == Tail(bytes)
<1>12. Reading(m, r, b, s, cnt[1], pkt2, at2, cnt2)
  <2>. HIDE DEF r, b, last, p, j
  <2>1. /\ \A i \in 0 .. L - 1 : i + 1 \in 0 .. L /\ i + 1 \in 1 .. L
        /\ \A i \in 1 .. L - 1 :
             /\ i \in 0 .. L - 1 /\ i - 1 \in 0 .. L - 1
             /\ (i - 1) + 1 = i /\ (i + 1) - 1 = i
        /\ 0 \in 0 .. L - 1 /\ 0 + 1 = 1
        /\ L - 1 \in 0 .. L - 1 /\ (L - 1) + 1 = L
    BY <1>2
  <2>2. Len(b) = L - 1 /\ \A i \in 1 .. L - 1 : b[i] = bytes[i + 1]
    BY <1>2 DEF b
  <2>3. \A i \in 0 .. L - 1 :
          pkt2[i] = pkt[i + 1] /\ at2[i] = at[i + 1] /\ cnt2[i] = cnt[i + 1]
    OBVIOUS
  <2>4. /\ pkt2 \in [0 .. L - 1 -> Message] /\ at2 \in [0 .. L - 1 -> Nat]
        /\ cnt2 \in [0 .. L - 1 -> Nat]
    BY <1>3, <2>1
  <2>. HIDE DEF pkt2, at2, cnt2
  <2>5. \A i \in 0 .. L - 1 :
          1 <= at2[i] /\ at2[i] <= Size(pkt2[i]) /\ cnt2[i] <= Len(s)
    BY <1>3, <2>1, <2>3
  <2>6. ASSUME NEW i \in 1 .. L - 1
        PROVE  /\ b[i] = Encoded(pkt2[i])[at2[i]]
               /\ IF Ends(pkt2[i - 1], at2[i - 1])
                  THEN at2[i] = 1
                  ELSE at2[i] = at2[i - 1] + 1 /\ pkt2[i] = pkt2[i - 1]
               /\ IF Ends(pkt2[i], at2[i]) /\ pkt2[i].dest_addr = m
                  THEN cnt2[i] = cnt2[i - 1] + 1 /\ s[cnt2[i]] = pkt2[i]
                  ELSE cnt2[i] = cnt2[i - 1]
    <3>1. /\ i \in 0 .. L - 1 /\ i - 1 \in 0 .. L - 1 /\ i + 1 \in 1 .. L
          /\ (i - 1) + 1 = i /\ (i + 1) - 1 = i
      BY <2>1
    <3>2. /\ pkt2[i] = pkt[i + 1] /\ at2[i] = at[i + 1]
          /\ cnt2[i] = cnt[i + 1] /\ b[i] = bytes[i + 1]
          /\ pkt2[i - 1] = pkt[i] /\ at2[i - 1] = at[i]
          /\ cnt2[i - 1] = cnt[i]
      BY <2>2, <2>3, <3>1
    <3>3. /\ bytes[i + 1] = Encoded(pkt[i + 1])[at[i + 1]]
          /\ IF Ends(pkt[i], at[i])
             THEN at[i + 1] = 1
             ELSE at[i + 1] = at[i] + 1 /\ pkt[i + 1] = pkt[i]
          /\ IF Ends(pkt[i + 1], at[i + 1]) /\ pkt[i + 1].dest_addr = m
             THEN cnt[i + 1] = cnt[i] + 1 /\ s[cnt[i + 1]] = pkt[i + 1]
             ELSE cnt[i + 1] = cnt[i]
      BY <1>4, <3>1
    <3>. QED
      BY <3>2, <3>3
  <2>7. /\ Ends(pkt2[L - 1], at2[L - 1]) /\ cnt2[L - 1] = Len(s)
        /\ Taken(r, pkt2[0], at2[0]) /\ cnt2[0] = cnt[1]
    BY <1>3, <1>10, <2>1, <2>3 DEF p
  <2>. QED
    BY <2>2, <2>4, <2>5, <2>6, <2>7 DEF Reading
<1>13. CanRead(m, r, b, s, cnt[1])
  BY <1>12 DEF CanRead
<1>. HIDE DEF r, b
<1>14. CASE PacketFor(h, value) = {}
  <2>1. cnt[1] = k
    BY <1>7, <1>11, <1>14
  <2>. QED
    BY <1>13, <1>14, <2>1 DEF value, r, b
<1>15. CASE PacketFor(h, value) # {}
  <2>1. cnt[1] = k + 1 /\ s[cnt[1]] = p
    BY <1>7, <1>11, <1>15
  <2>2. Seen(Stored(h, value).rx_packet) = p
    BY <1>10, <1>11, <1>15
  <2>. QED
    BY <1>6, <1>13, <1>15, <2>1, <2>2 DEF NextIs, value, r, b
<1>. QED
  BY <1>14, <1>15

LEMMA ReadServed ==
    ASSUME NEW m, NEW h, NEW bytes \in Seq(Octet), NEW s \in Seq(Message),
           NEW k, CanRead(m, h, bytes, s, k)
    PROVE  k \in Nat /\ k <= Len(s)
<1>1. PICK pkt, at, cnt : Reading(m, h, bytes, s, k, pkt, at, cnt)
  BY DEF CanRead
<1>2. 0 \in 0 .. Len(bytes)
  OBVIOUS
<1>3. cnt[0] \in Nat /\ cnt[0] <= Len(s) /\ cnt[0] = k
  BY <1>1, <1>2 DEF Reading
<1>. QED
  BY <1>3

(* Only the parser's own fields matter.                                    *)
LEMMA ReadSame ==
    ASSUME NEW m, NEW h, NEW bytes, NEW s, NEW k, CanRead(m, h, bytes, s, k),
           NEW g, g.rx_state = h.rx_state, g.data_rxed = h.data_rxed,
           g.rx_packet = h.rx_packet
    PROVE  CanRead(m, g, bytes, s, k)
<1>1. PICK pkt, at, cnt : Reading(m, h, bytes, s, k, pkt, at, cnt)
  BY DEF CanRead
<1>2. Taken(h, pkt[0], at[0]) => Taken(g, pkt[0], at[0])
  BY DEF Taken
<1>3. Reading(m, g, bytes, s, k, pkt, at, cnt)
  BY <1>1, <1>2 DEF Reading
<1>. QED
  BY <1>3 DEF CanRead

------------------------------------------------------------------------------
(* Sequences.                                                              *)

LEMMA MoveHead ==
    ASSUME NEW S, NEW s \in Seq(S), NEW t \in Seq(S), t # << >>
    PROVE  Append(s, Head(t)) \o Tail(t) = s \o t
<1>. DEFINE a == Append(s, Head(t))
            u == Tail(t)
            c == s \o t
            d == a \o u
<1>1. /\ Head(t) \in S /\ Head(t) = t[1] /\ u \in Seq(S) /\ Len(u) = Len(t) - 1
      /\ Len(t) \in Nat /\ Len(t) >= 1 /\ Len(s) \in Nat
      /\ \A i \in 1 .. Len(t) - 1 : u[i] = t[i + 1]
  OBVIOUS
<1>2. /\ a \in Seq(S) /\ Len(a) = Len(s) + 1 /\ a[Len(s) + 1] = t[1]
      /\ \A i \in 1 .. Len(s) : a[i] = s[i]
  BY <1>1
<1>. HIDE DEF a, u
<1>3. /\ c \in Seq(S) /\ Len(c) = Len(s) + Len(t)
      /\ \A i \in 1 .. Len(s) + Len(t) :
            c[i] = IF i <= Len(s) THEN s[i] ELSE t[i - Len(s)]
  BY ConcatProperties, Zenon
<1>4. /\ d \in Seq(S) /\ Len(d) = Len(a) + Len(u)
      /\ \A i \in 1 .. Len(a) + Len(u) :
            d[i] = IF i <= Len(a) THEN a[i] ELSE u[i - Len(a)]
  <2>1. a \in Seq(S) /\ u \in Seq(S)
    BY <1>1, <1>2
  <2>. QED
    BY <2>1, ConcatProperties, Zenon
<1>. HIDE DEF c, d
<1>5. /\ Len(d) = Len(c) /\ Len(c) = Len(s) + Len(t)
      /\ Len(a) + Len(u) = Len(s) + Len(t)
      /\ Len(s) + Len(t) \in Nat
  BY <1>1, <1>2, <1>3, <1>4
<1>6. ASSUME NEW i \in 1 .. Len(c)
      PROVE  c[i] = d[i]
  <2>1. /\ i \in Nat /\ i >= 1 /\ i <= Len(s) + Len(t)
        /\ i \in 1 .. Len(s) + Len(t) /\ i \in 1 .. Len(a) + Len(u)
    <3>. DEFINE N == Len(s) + Len(t)
    <3>. HIDE DEF N
    <3>1. i \in 1 .. N /\ N \in Nat /\ 1 .. Len(a) + Len(u) = 1 .. N
      BY <1>5 DEF N
    <3>2. i \in Nat /\ i >= 1 /\ i <= N
      BY <3>1
    <3>. QED
      BY <3>1, <3>2 DEF N
  <2>2. CASE i <= Len(s)
    BY <1>1, <1>2, <1>3, <1>4, <2>1, <2>2
  <2>3. CASE i = Len(s) + 1
    BY <1>1, <1>2, <1>3, <1>4, <2>1, <2>3
  <2>4. CASE i > Len(s) + 1
    <3>1. /\ i - Len(a) \in 1 .. Len(t) - 1
          /\ (i - Len(a)) + 1 = i - Len(s)
          /\ ~(i <= Len(a)) /\ ~(i <= Len(s))
      BY <1>1, <1>2, <2>1, <2>4
    <3>2. u[i - Len(a)] = t[i - Len(s)]
      BY <1>1, <3>1
    <3>. QED
      BY <1>3, <1>4, <2>1, <3>1, <3>2
  <2>. QED
    BY <1>1, <2>1, <2>2, <2>3, <2>4
<1>7. c = d
  BY <1>3, <1>4, <1>5, <1>6, SeqEqual
<1>. QED
  BY <1>7 DEF a, u, c, d

LEMMA TakeHead ==
    ASSUME NEW S, NEW s \in Seq(S), NEW t \in Seq(S), s # << >>
    PROVE  /\ s \o t # << >> /\ Head(s \o t) = Head(s)
           /\ Tail(s \o t) = Tail(s) \o t
<1>. DEFINE u == Tail(s)
            c == s \o t
            x == Tail(c)
            d == u \o t
<1>1. /\ Head(s) = s[1] /\ u \in Seq(S) /\ Len(u) = Len(s) - 1
      /\ Len(t) \in Nat /\ Len(s) \in Nat /\ Len(s) >= 1
      /\ \A i \in 1 .. Len(s) - 1 : u[i] = s[i + 1]
  OBVIOUS
<1>. HIDE DEF u
<1>2. /\ c \in Seq(S) /\ Len(c) = Len(s) + Len(t)
      /\ \A i \in 1 .. Len(s) + Len(t) :
            c[i] = IF i <= Len(s) THEN s[i] ELSE t[i - Len(s)]
  BY ConcatProperties, Zenon
<1>3. /\ d \in Seq(S) /\ Len(d) = Len(u) + Len(t)
      /\ \A i \in 1 .. Len(u) + Len(t) :
            d[i] = IF i <= Len(u) THEN u[i] ELSE t[i - Len(u)]
  BY <1>1, ConcatProperties, Zenon
<1>. HIDE DEF c, d
<1>4. c # << >> /\ Head(c) = c[1] /\ 1 \in 1 .. Len(s) + Len(t) /\ 1 <= Len(s)
  BY <1>1, <1>2
<1>5. Head(c) = Head(s)
  BY <1>1, <1>2, <1>4
<1>6. /\ x \in Seq(S) /\ Len(x) = Len(c) - 1
      /\ \A i \in 1 .. Len(c) - 1 : x[i] = c[i + 1]
  BY <1>2, <1>4
<1>. HIDE DEF x
<1>7. Len(x) = Len(d)
  BY <1>1, <1>2, <1>3, <1>6
<1>8. ASSUME NEW i \in 1 .. Len(x)
      PROVE  x[i] = d[i]
  <2>1. /\ i \in Nat /\ i >= 1 /\ i \in 1 .. Len(u) + Len(t)
        /\ i \in 1 .. Len(c) - 1 /\ i + 1 \in 1 .. Len(s) + Len(t)
    BY <1>1, <1>2, <1>6
  <2>2. x[i] = c[i + 1]
    BY <1>6, <2>1
  <2>3. CASE i <= Len(u)
    <3>1. i \in 1 .. Len(s) - 1 /\ i + 1 <= Len(s)
      BY <1>1, <2>1, <2>3
    <3>. QED
      BY <1>1, <1>2, <1>3, <2>1, <2>2, <2>3, <3>1
  <2>4. CASE ~(i <= Len(u))
    <3>1. (i + 1) - Len(s) = i - Len(u) /\ ~(i + 1 <= Len(s))
      BY <1>1, <2>1, <2>4
    <3>. QED
      BY <1>2, <1>3, <2>1, <2>2, <2>4, <3>1
  <2>. QED
    BY <2>3, <2>4
<1>9. x = d
  BY <1>3, <1>6, <1>7, <1>8, SeqEqual
<1>. QED
  BY <1>4, <1>5, <1>9 DEF u, c, x, d

(* What is left of a sequence behind its first k elements.                 *)
Behind(s, k) == SubSeq(s, k + 1, Len(s))

LEMMA BehindAppend ==
    ASSUME NEW S, NEW s \in Seq(S), NEW k \in 0 .. Len(s), NEW x \in S
    PROVE  Behind(Append(s, x), k) = Append(Behind(s, k), x)
<1>. DEFINE a == Append(s, x)
            b == Behind(a, k)
            c == Behind(s, k)
            d == Append(c, x)
            M == Len(s) - k
<1>1. /\ Len(s) \in Nat /\ k \in Nat /\ k <= Len(s) /\ M \in Nat
      /\ a \in Seq(S) /\ Len(a) = Len(s) + 1 /\ a[Len(s) + 1] = x
      /\ \A i \in 1 .. Len(s) : a[i] = s[i]
  OBVIOUS
<1>. HIDE DEF a
<1>2. /\ b \in Seq(S) /\ Len(b) = M + 1
      /\ \A i \in 1 .. M + 1 : b[i] = a[k + i]
  BY <1>1 DEF Behind
<1>3. /\ c \in Seq(S) /\ Len(c) = M
      /\ \A i \in 1 .. M : c[i] = s[k + i]
  BY <1>1 DEF Behind
<1>. HIDE DEF b, c
<1>4. /\ d \in Seq(S) /\ Len(d) = M + 1 /\ d[M + 1] = x
      /\ \A i \in 1 .. M : d[i] = c[i]
  BY <1>1, <1>3
<1>. HIDE DEF d
<1>5. ASSUME NEW i \in 1 .. M + 1
      PROVE  b[i] = d[i]
  <2>1. CASE i = M + 1
    <3>1. k + i = Len(s) + 1
      BY <1>1, <2>1
    <3>. QED
      BY <1>1, <1>2, <1>4, <2>1, <3>1
  <2>2. CASE i # M + 1
    <3>1. i \in 1 .. M /\ k + i \in 1 .. Len(s)
      BY <1>1, <2>2
    <3>. QED
      BY <1>1, <1>2, <1>3, <1>4, <3>1
  <2>. QED
    BY <2>1, <2>2
<1>6. b = d
  BY <1>2, <1>4, <1>5, SeqEqual
<1>. QED
  BY <1>6 DEF a, b, c, d

LEMMA BehindNext ==
    ASSUME NEW S, NEW s \in Seq(S), NEW k \in Nat, k + 1 <= Len(s)
    PROVE  /\ Behind(s, k) # << >> /\ Head(Behind(s, k)) = s[k + 1]
           /\ Tail(Behind(s, k)) = Behind(s, k + 1)
<1>. DEFINE b == Behind(s, k)
            c == Behind(s, k + 1)
            x == Tail(b)
            M == Len(s) - k
<1>1. Len(s) \in Nat /\ M \in Nat /\ M >= 1
  OBVIOUS
<1>2. /\ b \in Seq(S) /\ Len(b) = M
      /\ \A i \in 1 .. M : b[i] = s[k + i]
  BY <1>1 DEF Behind
<1>3. /\ c \in Seq(S) /\ Len(c) = M - 1
      /\ \A i \in 1 .. M - 1 : c[i] = s[(k + 1) + i]
  BY <1>1 DEF Behind
<1>. HIDE DEF b, c
<1>4. b # << >> /\ Head(b) = b[1] /\ 1 \in 1 .. M
  BY <1>1, <1>2
<1>5. /\ x \in Seq(S) /\ Len(x) = M - 1
      /\ \A i \in 1 .. M - 1 : x[i] = b[i + 1]
  BY <1>1, <1>2, <1>4
<1>. HIDE DEF x
<1>6. ASSUME NEW i \in 1 .. M - 1
      PROVE  x[i] = c[i]
  <2>. HIDE DEF M
  <2>1. i \in Nat /\ i >= 1 /\ i <= M - 1 /\ M \in Nat
    BY <1>1
  <2>2. i + 1 \in 1 .. M
    BY <2>1
  <2>3. k + (i + 1) = (k + 1) + i
    BY <2>1
  <2>. QED
    <3>1. x[i] = b[i + 1] /\ c[i] = s[(k + 1) + i]
      BY <1>3, <1>5
    <3>2. b[i + 1] = s[k + (i + 1)]
      BY <1>2, <2>2
    <3>. QED
      BY <2>3, <3>1, <3>2, Zenon
<1>7. x = c
  BY <1>3, <1>5, <1>6, SeqEqual
<1>. QED
  BY <1>2, <1>4, <1>7 DEF b, c, x

------------------------------------------------------------------------------
(* Nothing is torn.                                                        *)

(* The bytes that node m still has before it.                              *)
Pending(m) == queue[m] \o (IF sender = m THEN << >> ELSE out)

Follows(m) == CanRead(m, hbs[m], Pending(m), sent[m], Served(m))

IInv ==
    /\ TypeInv
    /\ sent \in [Nodes -> Seq(Message)]
    /\ ~lost => \A m \in Nodes : Follows(m)

(* Payloads that adi_hbs_Send does not cut short.                          *)
PayloadsFit == LongestPayload <= HBS_MAX_DATA_LEN

LEMMA PendingType ==
    ASSUME TypeInv, NEW m \in Nodes
    PROVE  /\ Pending(m) \in Seq(Octet)
           /\ sender = m \/ out = << >> => Pending(m) = queue[m]
<1>1. /\ queue[m] \in Seq(Octet) /\ out \in Seq(Octet)
      /\ << >> \in Seq(Octet)
  BY DEF TypeInv
<1>2. queue[m] \o << >> = queue[m]
  BY <1>1, ConcatEmptySeq, Zenon
<1>3. queue[m] \o out \in Seq(Octet)
  BY <1>1, ConcatProperties, Zenon
<1>4. CASE sender = m
  BY <1>1, <1>2, <1>4, Zenon DEF Pending
<1>5. CASE sender # m
  BY <1>1, <1>2, <1>3, <1>5, Zenon DEF Pending
<1>. QED
  BY <1>4, <1>5

LEMMA ServedType ==
    ASSUME TypeInv, NEW m \in Nodes
    PROVE  /\ Served(m) \in Nat
           /\ hbs[m].unhandled_pkt_cnt \in Nat /\ handled[m] \in Seq(Message)
BY DEF TypeInv, Parser, Served

LEMMA InitIInv == Init => IInv
<1>. SUFFICES ASSUME Init PROVE IInv
  OBVIOUS
<1>1. TypeInv
  BY InitType
<1>2. sent \in [Nodes -> Seq(Message)]
  BY DEF Init
<1>3. ASSUME NEW m \in Nodes
      PROVE  Follows(m)
  <2>1. /\ hbs[m].rx_state = "self_addr" /\ hbs[m].unhandled_pkt_cnt = 0
        /\ sent[m] = << >> /\ handled[m] = << >> /\ queue[m] = << >>
        /\ out = << >>
    BY DEF Init, hbs_Init
  <2>2. Pending(m) = << >>
    BY <1>1, <2>1, PendingType
  <2>3. Served(m) = 0
    BY <2>1 DEF Served
  <2>4. CanRead(m, hbs[m], << >>, << >>, 0)
    BY <2>1, ReadNothing
  <2>. QED
    BY <2>1, <2>2, <2>3, <2>4 DEF Follows
<1>. QED
  BY <1>1, <1>2, <1>3 DEF IInv

LEMMA RegisterResult ==
    ASSUME TypeInv, NEW n \in Nodes, RegisterRxCb(n), NEW m \in Nodes
    PROVE  /\ hbs'[m].rx_state = hbs[m].rx_state
           /\ hbs'[m].data_rxed = hbs[m].data_rxed
           /\ hbs'[m].rx_packet = hbs[m].rx_packet
           /\ hbs'[m].unhandled_pkt_cnt = hbs[m].unhandled_pkt_cnt
           /\ hbs'[m].user_cb = (m = n \/ hbs[m].user_cb)
<1>1. hbs[m] \in Parser /\ hbs[m].user_cb \in BOOLEAN
  BY DEF TypeInv, Parser
<1>2. CASE m = n
  <2>1. hbs'[m] = [hbs[m] EXCEPT !.user_cb = TRUE]
    BY <1>2 DEF RegisterRxCb, hbs_RegisterRxCb, TypeInv
  <2>. QED
    BY <1>1, <1>2, <2>1 DEF Parser
<1>3. CASE m # n
  <2>1. hbs'[m] = hbs[m]
    BY <1>3 DEF RegisterRxCb, TypeInv
  <2>. QED
    BY <1>1, <1>3, <2>1
<1>. QED
  BY <1>2, <1>3

LEMMA RegisterStep ==
    ASSUME IInv, NEW n \in Nodes, RegisterRxCb(n)
    PROVE  IInv'
<1>1. TypeInv'
  BY RegisterType DEF IInv
<1>2. UNCHANGED <<queue, out, sender, sent, handled, lost>>
  BY DEF RegisterRxCb
<1>3. ASSUME ~lost', NEW m \in Nodes
      PROVE  Follows(m)'
  <2>1. CanRead(m, hbs[m], Pending(m), sent[m], Served(m))
    BY <1>2, <1>3 DEF IInv, Follows
  <2>2. /\ hbs'[m].rx_state = hbs[m].rx_state
        /\ hbs'[m].data_rxed = hbs[m].data_rxed
        /\ hbs'[m].rx_packet = hbs[m].rx_packet
        /\ hbs'[m].unhandled_pkt_cnt = hbs[m].unhandled_pkt_cnt
    BY RegisterResult DEF IInv
  <2>3. Pending(m)' = Pending(m) /\ Served(m)' = Served(m) /\ sent'[m] = sent[m]
    BY <1>2, <2>2 DEF Pending, Served
  <2>4. CanRead(m, hbs'[m], Pending(m), sent[m], Served(m))
    BY <2>1, <2>2, ReadSame
  <2>. QED
    BY <2>3, <2>4 DEF Follows
<1>. QED
  BY <1>1, <1>2, <1>3 DEF IInv

(* The packet that a Send puts on the bus.                                 *)
PacketSent(n, dest, opcode, data) ==
    [self_addr |-> n, dest_addr |-> dest, operation |-> opcode, data |-> data]

LEMMA SendResult ==
    ASSUME PayloadsFit, TypeInv, NEW n \in Nodes, NEW dest \in Octet,
           NEW opcode \in Operations, NEW data \in Payloads,
           Send(n, dest, opcode, data)
    PROVE  LET q == PacketSent(n, dest, opcode, data)
           IN  /\ q \in Message /\ q.dest_addr = dest
               /\ out' = Encoded(q)
<1>. DEFINE q == PacketSent(n, dest, opcode, data)
<1>1. data \in Seq(Octet) /\ Len(data) <= LongestPayload /\ Len(data) \in Nat
  BY PayloadType
<1>2. Len(data) <= HBS_MAX_DATA_LEN
  BY <1>1 DEF PayloadsFit
<1>3. q \in Message
  BY <1>1, <1>2 DEF Message, PacketSent
<1>4. q.dest_addr = dest
  BY DEF PacketSent
<1>5. hbs[n].self_addr = n
  BY DEF TypeInv
<1>6. out' = Encoded(q)
  BY <1>5 DEF Send, Encoded, PacketSent
<1>. QED
  BY <1>3, <1>4, <1>6

LEMMA SendStep ==
    ASSUME PayloadsFit, IInv, NEW n \in Nodes, NEW dest \in Octet,
           NEW opcode \in Operations, NEW data \in Payloads,
           Send(n, dest, opcode, data)
    PROVE  IInv'
<1>. DEFINE q == PacketSent(n, dest, opcode, data)
<1>1. TypeInv /\ TypeInv'
  BY SendType DEF IInv
<1>2. q \in Message /\ q.dest_addr = dest /\ out' = Encoded(q)
  BY <1>1, SendResult
<1>3. /\ sender = Nobody /\ sender' = n /\ out = << >>
      /\ UNCHANGED <<hbs, queue, handled, lost>>
  BY <1>1 DEF Send, TypeInv
<1>4. ASSUME NEW m \in Nodes
      PROVE  /\ sent[m] \in Seq(Message)
             /\ sent'[m] = IF m = dest /\ m # n THEN Append(sent[m], q)
                                                ELSE sent[m]
  BY DEF IInv, Send, PacketSent
<1>. HIDE DEF q
<1>5. sent' \in [Nodes -> Seq(Message)]
  <2>1. ASSUME NEW m \in Nodes PROVE sent'[m] \in Seq(Message)
    <3>1. /\ sent[m] \in Seq(Message)
          /\ sent'[m] = Append(sent[m], q) \/ sent'[m] = sent[m]
      BY <1>4
    <3>2. Append(sent[m], q) \in Seq(Message)
      BY <1>2, <3>1
    <3>. QED
      BY <3>1, <3>2, Zenon
  <2>. QED
    BY <2>1 DEF Send
<1>6. ASSUME ~lost', NEW m \in Nodes
      PROVE  Follows(m)'
  <2>1. Pending(m) = queue[m]
    BY <1>1, <1>3, PendingType
  <2>2. CanRead(m, hbs[m], queue[m], sent[m], Served(m))
    BY <1>3, <1>6, <2>1 DEF IInv, Follows
  <2>3. Served(m)' = Served(m) /\ hbs'[m] = hbs[m] /\ queue'[m] = queue[m]
    BY <1>3 DEF Served
  <2>4. CASE m = n
    <3>1. Pending(m)' = queue'[m]
      <4>1. Pending(m)' = queue'[m] \o << >>
        BY <1>3, <2>4 DEF Pending
      <4>2. queue'[m] \in Seq(Octet)
        BY <1>1 DEF TypeInv
      <4>. QED
        BY <4>1, <4>2, ConcatEmptySeq, Zenon
    <3>2. sent'[m] = sent[m]
      BY <1>4, <2>4
    <3>. QED
      BY <2>2, <2>3, <3>1, <3>2 DEF Follows
  <2>5. CASE m # n
    <3>1. Pending(m)' = queue[m] \o Encoded(q)
      BY <1>2, <1>3, <2>3, <2>5 DEF Pending
    <3>2. sent'[m] = IF q.dest_addr = m THEN Append(sent[m], q) ELSE sent[m]
      BY <1>2, <1>4, <2>5
    <3>3. queue[m] \in Seq(Octet) /\ Served(m) \in Nat
      BY <1>1, ServedType DEF TypeInv
    <3>4. CanRead(m, hbs[m], queue[m] \o Encoded(q),
                  IF q.dest_addr = m THEN Append(sent[m], q) ELSE sent[m],
                  Served(m))
      BY <1>2, <1>4, <2>2, <3>3, ReadMore
    <3>. QED
      BY <2>3, <3>1, <3>2, <3>4 DEF Follows
  <2>. QED
    BY <2>4, <2>5
<1>. QED
  BY <1>1, <1>5, <1>6 DEF IInv

(* A byte that everybody hears only moves from the Transmit to the queues. *)
LEMMA PutByteResult ==
    ASSUME TypeInv, PutByte, ~lost', NEW m \in Nodes
    PROVE  Pending(m)' = Pending(m)
<1>1. /\ TypeInv' /\ out \in Seq(Octet) /\ out # << >> /\ sender \in Nodes
      /\ out' = Tail(out)
  BY PutByteType DEF TypeInv, PutByte
<1>2. queue[m] \in Seq(Octet)
  BY DEF TypeInv
<1>3. queue'[m] = IF Hears(m) THEN Append(queue[m], Head(out)) ELSE queue[m]
  BY DEF PutByte
<1>4. CASE m = sender
  <2>1. queue'[m] = queue[m]
    BY <1>3, <1>4 DEF Hears
  <2>2. sender' = m \/ out' = << >>
    BY <1>4 DEF PutByte
  <2>3. Pending(m) = queue[m]
    BY <1>4, PendingType
  <2>4. Pending(m)' = queue'[m] \o << >>
    BY <2>2 DEF Pending
  <2>5. queue'[m] \in Seq(Octet)
    BY <1>1 DEF TypeInv
  <2>6. Pending(m)' = queue'[m]
    BY <2>4, <2>5, ConcatEmptySeq, Zenon
  <2>. QED
    BY <2>1, <2>3, <2>6
<1>5. CASE m # sender
  <2>1. Hears(m)
    BY <1>5 DEF PutByte
  <2>2. sender' # m
    BY <1>5, NobodyFact DEF PutByte
  <2>3. Pending(m)' = Append(queue[m], Head(out)) \o Tail(out)
    BY <1>1, <1>3, <2>1, <2>2 DEF Pending
  <2>4. Pending(m) = queue[m] \o out
    BY <1>5 DEF Pending
  <2>5. Append(queue[m], Head(out)) \o Tail(out) = queue[m] \o out
    BY <1>1, <1>2, MoveHead, Zenon
  <2>. QED
    BY <2>3, <2>4, <2>5
<1>. QED
  BY <1>4, <1>5

LEMMA PutByteStep == IInv /\ PutByte => IInv'
<1>. SUFFICES ASSUME IInv, PutByte PROVE IInv'
  OBVIOUS
<1>1. TypeInv /\ TypeInv'
  BY PutByteType DEF IInv
<1>2. UNCHANGED <<hbs, sent, handled>> /\ (~lost' => ~lost)
  BY DEF PutByte
<1>3. ASSUME ~lost', NEW m \in Nodes
      PROVE  Follows(m)'
  <2>1. Pending(m)' = Pending(m)
    BY <1>1, <1>3, PutByteResult
  <2>2. Served(m)' = Served(m)
    BY <1>2 DEF Served
  <2>3. CanRead(m, hbs[m], Pending(m), sent[m], Served(m))
    BY <1>2, <1>3 DEF IInv, Follows
  <2>. QED
    BY <1>2, <2>1, <2>2, <2>3 DEF Follows
<1>. QED
  BY <1>1, <1>2, <1>3 DEF IInv

(* What taking a byte does to the counts: due is whether it ends a packet  *)
(* for node n.                                                             *)
LEMMA TakeByteResult ==
    ASSUME TypeInv, NEW n \in Nodes, TakeByte(n)
    PROVE  LET h     == hbs[n]
               value == Head(queue[n])
               p     == Seen(Stored(h, value).rx_packet)
               due   == PacketFor(h, value) # {}
           IN  /\ hbs' = [hbs EXCEPT ![n] = hbs_Received(h, value)]
               /\ hbs'[n].user_cb = h.user_cb
               /\ hbs'[n].unhandled_pkt_cnt =
                     IF due /\ ~h.user_cb THEN h.unhandled_pkt_cnt + 1
                                          ELSE h.unhandled_pkt_cnt
               /\ handled' = IF due /\ h.user_cb
                             THEN [handled EXCEPT ![n] = Append(@, p)]
                             ELSE handled
               /\ Served(n)' = IF due THEN Served(n) + 1 ELSE Served(n)
               /\ \A m \in Nodes \ {n} : Served(m)' = Served(m)
<1>. DEFINE h     == hbs[n]
            value == Head(queue[n])
            p     == Seen(Stored(h, value).rx_packet)
            due   == PacketFor(h, value) # {}
            r     == hbs_Received(h, value)
            seen  == SeenIn(CallsBack(h, value))
<1>1. /\ queue[n] \in Seq(Octet) /\ queue[n] # << >> /\ ParserOK(h)
      /\ value \in Octet /\ h \in Parser /\ handled \in [Nodes -> Seq(Message)]
      /\ hbs \in [Nodes -> Parser]
  BY DEF TypeInv, TakeByte
<1>2. /\ hbs' = [hbs EXCEPT ![n] = r]
      /\ handled' = [handled EXCEPT ![n] = handled[n] \o seen]
  BY <1>1 DEF TakeByte
<1>. HIDE DEF value
<1>3. /\ r.user_cb = h.user_cb
      /\ r.unhandled_pkt_cnt = IF ~h.user_cb /\ due
                               THEN h.unhandled_pkt_cnt + 1
                               ELSE h.unhandled_pkt_cnt
  BY <1>1, ReceivedResult
<1>4. /\ seen \in Seq(Message)
      /\ CallsBack(h, value) = {} => seen = << >>
      /\ CallsBack(h, value) # {} => seen = <<p>>
  BY <1>1, SeenInResult
<1>5. CallsBack(h, value) # {} <=> due /\ h.user_cb
  BY DEF CallsBack
<1>6. h.user_cb \in BOOLEAN /\ h.unhandled_pkt_cnt \in Nat
  BY <1>1 DEF Parser
<1>7. hbs'[n] = r /\ \A m \in Nodes \ {n} : hbs'[m] = hbs[m]
  BY <1>1, <1>2
<1>. HIDE DEF h, r, seen, p, due
<1>8. CASE due /\ h.user_cb
  <2>1. seen = <<p>> /\ p \in Message
    <3>1. seen = <<p>>
      BY <1>4, <1>5, <1>8
    <3>. QED
      BY <1>4, <3>1
  <2>2. handled[n] \o seen = Append(handled[n], p)
    <3>1. handled[n] \in Seq(Message)
      BY <1>1
    <3>. QED
      BY <2>1, <3>1, AppendIsConcat
  <2>3. handled' = [handled EXCEPT ![n] = Append(@, p)]
    BY <1>1, <1>2, <2>2
  <2>4. Len(handled'[n]) = Len(handled[n]) + 1 /\ Len(handled[n]) \in Nat
    BY <1>1, <2>1, <2>3
  <2>5. \A m \in Nodes \ {n} : handled'[m] = handled[m]
    BY <1>1, <2>3
  <2>6. Served(n)' = Served(n) + 1
    BY <1>3, <1>6, <1>7, <1>8, <2>4 DEF Served, h
  <2>7. \A m \in Nodes \ {n} : Served(m)' = Served(m)
    BY <1>7, <2>5 DEF Served
  <2>. QED
    BY <1>2, <1>3, <1>7, <1>8, <2>3, <2>6, <2>7 DEF h, value, r, p, due
<1>9. CASE ~(due /\ h.user_cb)
  <2>1. seen = << >>
    BY <1>4, <1>5, <1>9
  <2>2. handled[n] \o seen = handled[n]
    <3>1. handled[n] \in Seq(Message)
      BY <1>1
    <3>. QED
      BY <2>1, <3>1, ConcatEmptySeq, Zenon
  <2>3. handled' = handled
    BY <1>1, <1>2, <2>2
  <2>4. Len(handled[n]) \in Nat
    BY <1>1
  <2>5. Served(n)' = IF due THEN Served(n) + 1 ELSE Served(n)
    BY <1>3, <1>6, <1>7, <1>9, <2>3, <2>4 DEF Served, h
  <2>6. \A m \in Nodes \ {n} : Served(m)' = Served(m)
    BY <1>7, <2>3 DEF Served
  <2>. QED
    BY <1>2, <1>3, <1>7, <1>9, <2>3, <2>5, <2>6 DEF h, value, r, p, due
<1>. QED
  BY <1>8, <1>9

LEMMA TakeByteStep ==
    ASSUME IInv, NEW n \in Nodes, TakeByte(n)
    PROVE  IInv'
<1>. DEFINE h     == hbs[n]
            value == Head(queue[n])
            due   == PacketFor(h, value) # {}
<1>1. TypeInv /\ TypeInv'
  BY TakeByteType DEF IInv
<1>2. /\ UNCHANGED <<out, sender, sent, lost>> /\ sender # n
      /\ queue' = [queue EXCEPT ![n] = Tail(@)] /\ queue[n] # << >>
  BY DEF TakeByte
<1>3. /\ hbs' = [hbs EXCEPT ![n] = hbs_Received(h, value)]
      /\ Served(n)' = IF due THEN Served(n) + 1 ELSE Served(n)
      /\ \A m \in Nodes \ {n} : Served(m)' = Served(m)
  BY <1>1, TakeByteResult
<1>4. ASSUME ~lost', NEW m \in Nodes
      PROVE  Follows(m)'
  <2>1. CanRead(m, hbs[m], Pending(m), sent[m], Served(m))
    BY <1>2, <1>4 DEF IInv, Follows
  <2>2. CASE m # n
    <3>1. hbs'[m] = hbs[m] /\ queue'[m] = queue[m]
      BY <1>1, <1>2, <1>3, <2>2 DEF TypeInv
    <3>2. Pending(m)' = Pending(m) /\ Served(m)' = Served(m)
      BY <1>2, <1>3, <2>2, <3>1 DEF Pending
    <3>. QED
      BY <1>2, <2>1, <3>1, <3>2 DEF Follows
  <2>3. CASE m = n
    <3>1. /\ queue[n] \in Seq(Octet) /\ out \in Seq(Octet)
          /\ queue'[n] = Tail(queue[n]) /\ hbs'[n] = hbs_Received(h, value)
          /\ ParserOK(h) /\ h.self_addr = n
      BY <1>1, <1>2, <1>3 DEF TypeInv
    <3>2. Pending(n) = queue[n] \o out /\ Pending(n)' = Tail(queue[n]) \o out
      BY <1>2, <3>1 DEF Pending
    <3>3. /\ Pending(n) # << >> /\ Head(Pending(n)) = value
          /\ Tail(Pending(n)) = Pending(n)'
      <4>. DEFINE x == queue[n]
      <4>1. x \in Seq(Octet) /\ x # << >>
        BY <1>2, <3>1
      <4>. HIDE DEF x
      <4>2. /\ x \o out # << >> /\ Head(x \o out) = Head(x)
            /\ Tail(x \o out) = Tail(x) \o out
        BY <3>1, <4>1, TakeHead, Zenon
      <4>. QED
        BY <3>2, <4>2, Zenon DEF x
    <3>4. /\ Pending(n) \in Seq(Octet) /\ Served(n) \in Nat
          /\ sent[n] \in Seq(Message)
      BY <1>1, PendingType, ServedType DEF IInv
    <3>. HIDE DEF h, value, due
    <3>5. /\ ~due => CanRead(n, hbs_Received(h, value), Pending(n)',
                             sent[n], Served(n))
          /\ due => CanRead(n, hbs_Received(h, value), Pending(n)',
                            sent[n], Served(n) + 1)
      <4>. DEFINE b == Pending(n)
                  c == Pending(n)'
                  k == Served(n)
      <4>1. CanRead(n, h, b, sent[n], k)
        BY <2>1, <2>3 DEF h
      <4>2. b \in Seq(Octet) /\ b # << >> /\ Head(b) = value /\ Tail(b) = c
            /\ k \in Nat
        BY <3>3, <3>4
      <4>. HIDE DEF b, c, k
      <4>3. /\ PacketFor(h, value) = {} =>
                  CanRead(n, hbs_Received(h, value), c, sent[n], k)
            /\ PacketFor(h, value) # {} =>
                  CanRead(n, hbs_Received(h, value), c, sent[n], k + 1)
        BY <3>1, <3>4, <4>1, <4>2, ReadByte
      <4>. QED
        BY <4>3 DEF b, c, k, due
    <3>6. CanRead(n, hbs'[n], Pending(n)', sent'[n], Served(n)')
      BY <1>2, <1>3, <3>1, <3>5
    <3>. QED
      BY <2>3, <3>6 DEF Follows
  <2>. QED
    BY <2>2, <2>3
<1>. QED
  BY <1>1, <1>2, <1>4 DEF IInv

LEMMA NextStep == PayloadsFit /\ IInv /\ [Next]_vars => IInv'
<1>. SUFFICES ASSUME PayloadsFit, IInv, [Next]_vars PROVE IInv'
  OBVIOUS
<1>1. CASE PutByte
  BY <1>1, PutByteStep
<1>2. CASE \E n \in Nodes : RegisterRxCb(n)
  BY <1>2, RegisterStep
<1>3. CASE \E n \in Nodes : SendSome(n)
  BY <1>3, SendStep DEF SendSome
<1>4. CASE \E n \in Nodes : TakeByte(n)
  BY <1>4, TakeByteStep
<1>5. CASE UNCHANGED vars
  BY <1>5 DEF IInv, TypeInv, Follows, Pending, Served, vars
<1>. QED
  BY <1>1, <1>2, <1>3, <1>4, <1>5 DEF Next

------------------------------------------------------------------------------
(* The packet channel.                                                     *)

Upcoming   == [n \in Nodes |-> Behind(sent[n], Served(n))]
Unhandled  == [n \in Nodes |-> hbs[n].unhandled_pkt_cnt]
Registered == [n \in Nodes |-> hbs[n].user_cb]

LEMMA InitRefines == Init => Channel!Init
<1>. SUFFICES ASSUME Init PROVE Channel!Init
  OBVIOUS
<1>1. ASSUME NEW n \in Nodes
      PROVE  /\ Behind(sent[n], Served(n)) = << >>
             /\ hbs[n].unhandled_pkt_cnt = 0 /\ hbs[n].user_cb = FALSE
  <2>1. /\ hbs[n].unhandled_pkt_cnt = 0 /\ hbs[n].user_cb = FALSE
        /\ sent[n] = << >> /\ handled[n] = << >>
    BY DEF Init, hbs_Init
  <2>2. Served(n) = 0
    BY <2>1 DEF Served
  <2>3. SubSeq(<< >>, 0 + 1, Len(<< >>)) = << >>
    OBVIOUS
  <2>. QED
    BY <2>1, <2>2, <2>3 DEF Behind
<1>2. /\ Upcoming = [n \in Nodes |-> << >>]
      /\ Unhandled = [n \in Nodes |-> 0] /\ Registered = [n \in Nodes |-> FALSE]
  BY <1>1 DEF Upcoming, Unhandled, Registered
<1>3. handled = [n \in Nodes |-> << >>] /\ lost = FALSE
  BY DEF Init
<1>. QED
  BY <1>2, <1>3 DEF Channel!Init, Upcoming, Unhandled, Registered, Behind

LEMMA RegisterRefines ==
    ASSUME IInv, NEW n \in Nodes, RegisterRxCb(n)
    PROVE  Channel!Register(n)
<1>1. /\ UNCHANGED <<sent, handled, lost>>
      /\ \A m \in Nodes :
           /\ hbs'[m].unhandled_pkt_cnt = hbs[m].unhandled_pkt_cnt
           /\ hbs'[m].user_cb = (m = n \/ hbs[m].user_cb)
           /\ hbs[m].user_cb \in BOOLEAN
  BY RegisterResult DEF IInv, RegisterRxCb, TypeInv, Parser
<1>2. \A m \in Nodes : Served(m)' = Served(m)
  BY <1>1 DEF Served
<1>3. Upcoming' = Upcoming /\ Unhandled' = Unhandled
  BY <1>1, <1>2 DEF Upcoming, Unhandled
<1>4. Registered' = [Registered EXCEPT ![n] = TRUE]
  BY <1>1 DEF Registered
<1>. QED
  BY <1>1, <1>3, <1>4
  DEF Channel!Register, Upcoming, Unhandled, Registered, Behind

LEMMA SendRefines ==
    ASSUME PayloadsFit, IInv, ~lost, NEW n \in Nodes, NEW dest \in Octet,
           NEW opcode \in Operations, NEW data \in Payloads,
           Send(n, dest, opcode, data)
    PROVE  Channel!Send(n)
<1>. DEFINE q == PacketSent(n, dest, opcode, data)
<1>1. /\ UNCHANGED <<hbs, handled, lost>>
      /\ sent' = [m \in Nodes |-> IF m = dest /\ m # n
                                  THEN Append(sent[m], q) ELSE sent[m]]
  BY DEF Send, PacketSent
<1>2. q \in Message /\ q.dest_addr = dest
  BY SendResult DEF IInv
<1>3. q \in [self_addr : {n}, dest_addr : Octet, operation : Operations,
             data : Payloads]
  BY DEF PacketSent
<1>. HIDE DEF q
<1>4. ASSUME NEW m \in Nodes
      PROVE  Behind(sent'[m], Served(m)') =
                IF m = q.dest_addr /\ m # n
                THEN Append(Behind(sent[m], Served(m)), q)
                ELSE Behind(sent[m], Served(m))
  <2>1. Served(m)' = Served(m)
    BY <1>1 DEF Served
  <2>2. /\ sent[m] \in Seq(Message) /\ Pending(m) \in Seq(Octet)
        /\ CanRead(m, hbs[m], Pending(m), sent[m], Served(m))
    BY PendingType DEF IInv, Follows
  <2>3. Served(m) \in 0 .. Len(sent[m])
    BY <2>2, ReadServed
  <2>4. Behind(Append(sent[m], q), Served(m)) =
           Append(Behind(sent[m], Served(m)), q)
    BY <1>2, <2>2, <2>3, BehindAppend
  <2>. QED
    BY <1>1, <1>2, <2>1, <2>4
<1>5. Upcoming' = [m \in Nodes |-> IF m = q.dest_addr /\ m # n
                                   THEN Append(Upcoming[m], q)
                                   ELSE Upcoming[m]]
  BY <1>4 DEF Upcoming
<1>6. Unhandled' = Unhandled /\ Registered' = Registered
  BY <1>1 DEF Unhandled, Registered
<1>. QED
  BY <1>1, <1>3, <1>5, <1>6
  DEF Channel!Send, Upcoming, Unhandled, Registered, Behind

LEMMA PutByteRefines ==
    ASSUME PutByte, ~lost'
    PROVE  UNCHANGED Channel!vars
<1>1. UNCHANGED <<hbs, sent, handled>> /\ (~lost') = ~lost
  <2>1. UNCHANGED <<hbs, sent, handled>>
    BY DEF PutByte
  <2>2. (~lost') = ~lost
    BY Zenon DEF PutByte
  <2>. QED
    BY <2>1, <2>2
<1>2. \A m \in Nodes : Served(m)' = Served(m)
  BY <1>1 DEF Served
<1>3. /\ Upcoming' = Upcoming /\ Unhandled' = Unhandled
      /\ Registered' = Registered
  BY <1>1, <1>2 DEF Upcoming, Unhandled, Registered
<1>. QED
  BY <1>1, <1>3 DEF Channel!vars, Upcoming, Unhandled, Registered, Behind

(* A byte either completes a packet, the next one, or is not noticed.      *)
LEMMA TakeByteRefines ==
    ASSUME IInv, ~lost, NEW n \in Nodes, TakeByte(n)
    PROVE  Channel!Handle(n) \/ UNCHANGED Channel!vars
<1>. DEFINE h     == hbs[n]
            value == Head(queue[n])
            p     == Seen(Stored(h, value).rx_packet)
            due   == PacketFor(h, value) # {}
<1>1. /\ TypeInv /\ UNCHANGED <<sent, lost>>
  BY DEF IInv, TakeByte
<1>2. /\ hbs' = [hbs EXCEPT ![n] = hbs_Received(h, value)]
      /\ hbs'[n].user_cb = h.user_cb
      /\ hbs'[n].unhandled_pkt_cnt =
            IF due /\ ~h.user_cb THEN h.unhandled_pkt_cnt + 1
                                 ELSE h.unhandled_pkt_cnt
      /\ handled' = IF due /\ h.user_cb
                    THEN [handled EXCEPT ![n] = Append(@, p)] ELSE handled
      /\ Served(n)' = IF due THEN Served(n) + 1 ELSE Served(n)
      /\ \A m \in Nodes \ {n} : Served(m)' = Served(m)
  BY <1>1, TakeByteResult
<1>3. \A m \in Nodes \ {n} : hbs'[m] = hbs[m]
  BY <1>1, <1>2 DEF TypeInv
<1>. HIDE DEF h, value, due
<1>4. Registered' = Registered
  BY <1>2, <1>3 DEF Registered, h
<1>5. CASE ~due
  <2>1. \A m \in Nodes : Served(m)' = Served(m)
    BY <1>2, <1>5
  <2>2. Upcoming' = Upcoming
    BY <1>1, <2>1 DEF Upcoming
  <2>3. Unhandled' = Unhandled
    BY <1>2, <1>3, <1>5 DEF Unhandled, h
  <2>4. handled' = handled
    BY <1>2, <1>5
  <2>. QED
    BY <1>1, <1>4, <2>2, <2>3, <2>4
    DEF Channel!vars, Upcoming, Unhandled, Registered, Behind
<1>6. CASE due
  <2>1. /\ sent[n] \in Seq(Message) /\ Served(n) \in Nat
        /\ Served(n) + 1 <= Len(sent[n]) /\ p = sent[n][Served(n) + 1]
    <3>1. /\ ParserOK(h) /\ h.self_addr = n /\ queue[n] \in Seq(Octet)
          /\ queue[n] # << >> /\ out \in Seq(Octet) /\ sender # n
          /\ sent[n] \in Seq(Message) /\ Served(n) \in Nat
          /\ CanRead(n, h, Pending(n), sent[n], Served(n))
      BY <1>1, ServedType DEF IInv, TypeInv, TakeByte, Follows, h
    <3>2. Pending(n) \in Seq(Octet) /\ Pending(n) = queue[n] \o out
      BY <1>1, <3>1, PendingType DEF Pending
    <3>. DEFINE x == queue[n]
                b == Pending(n)
                k == Served(n)
    <3>. HIDE DEF x
    <3>3. x \o out # << >> /\ Head(x \o out) = Head(x)
      BY <3>1, TakeHead, Zenon DEF x
    <3>4. b # << >> /\ Head(b) = value
      BY <3>2, <3>3, Zenon DEF x, value
    <3>. HIDE DEF b, k
    <3>5. b \in Seq(Octet) /\ k \in Nat /\ CanRead(n, h, b, sent[n], k)
      BY <3>1, <3>2 DEF b, k
    <3>6. NextIs(sent[n], k, p)
      <4>. DEFINE s == sent[n]
      <4>1. /\ ParserOK(h) /\ h.self_addr = n /\ s \in Seq(Message)
            /\ CanRead(n, h, b, s, k) /\ PacketFor(h, value) # {}
        BY <1>6, <3>1, <3>5 DEF due
      <4>. HIDE DEF s
      <4>2. NextIs(s, k, Seen(Stored(h, value).rx_packet))
        BY <3>4, <3>5, <4>1, ReadByte
      <4>. QED
        BY <4>2 DEF s
    <3>7. k + 1 <= Len(sent[n]) /\ sent[n][k + 1] = p
      BY <3>6 DEF NextIs
    <3>. QED
      BY <3>1, <3>7 DEF k
  <2>. HIDE DEF p
  <2>2. /\ Behind(sent[n], Served(n)) # << >>
        /\ Head(Behind(sent[n], Served(n))) = p
        /\ Tail(Behind(sent[n], Served(n))) = Behind(sent[n], Served(n) + 1)
    BY <2>1, BehindNext
  <2>3. Upcoming[n] # << >> /\ Head(Upcoming[n]) = p
    BY <2>2 DEF Upcoming
  <2>4. Upcoming' = [Upcoming EXCEPT ![n] = Tail(@)]
    <3>1. \A m \in Nodes :
            Behind(sent'[m], Served(m)') =
               IF m = n THEN Tail(Upcoming[n]) ELSE Upcoming[m]
      BY <1>1, <1>2, <1>6, <2>2 DEF Upcoming
    <3>. QED
      BY <3>1 DEF Upcoming
  <2>5. CASE h.user_cb
    <3>1. /\ handled' = [handled EXCEPT ![n] = Append(@, Head(Upcoming[n]))]
          /\ Registered[n]
      BY <1>2, <1>6, <2>3, <2>5 DEF Registered, h
    <3>2. Unhandled' = Unhandled
      BY <1>2, <1>3, <2>5 DEF Unhandled, h
    <3>3. Channel!Handle(n)
      BY <1>1, <1>4, <2>3, <2>4, <3>1, <3>2
      DEF Channel!Handle, Upcoming, Unhandled, Registered, Behind
    <3>. QED
      BY <3>3
  <2>6. CASE ~h.user_cb
    <3>1. handled' = handled /\ ~Registered[n]
      BY <1>2, <2>6 DEF Registered, h
    <3>2. Unhandled' = [Unhandled EXCEPT ![n] = @ + 1]
      <4>1. hbs'[n].unhandled_pkt_cnt = hbs[n].unhandled_pkt_cnt + 1
        BY <1>2, <1>6, <2>6 DEF h
      <4>. QED
        BY <1>3, <4>1 DEF Unhandled
    <3>3. Channel!Handle(n)
      BY <1>1, <1>4, <2>3, <2>4, <3>1, <3>2
      DEF Channel!Handle, Upcoming, Unhandled, Registered, Behind
    <3>. QED
      BY <3>3
  <2>. QED
    BY <2>5, <2>6
<1>. QED
  BY <1>5, <1>6

LEMMA NextRefines ==
    PayloadsFit /\ IInv /\ [Next]_vars => [Channel!Next]_Channel!vars
<1>. SUFFICES ASSUME PayloadsFit, IInv, [Next]_vars
              PROVE  Channel!Next \/ UNCHANGED Channel!vars
  OBVIOUS
<1>1. CASE lost'
  BY <1>1 DEF Channel!Next, Channel!Lose
<1>2. CASE ~lost'
  <2>1. ~lost
    BY <1>2 DEF Next, RegisterRxCb, SendSome, Send, TakeByte, PutByte, vars
  <2>2. CASE PutByte
    BY <1>2, <2>2, PutByteRefines
  <2>3. ASSUME NEW n \in Nodes, RegisterRxCb(n)
        PROVE  Channel!Next
    BY <2>3, RegisterRefines DEF Channel!Next
  <2>4. ASSUME NEW n \in Nodes, SendSome(n)
        PROVE  Channel!Next
    BY <2>1, <2>4, SendRefines DEF SendSome, Channel!Next
  <2>5. ASSUME NEW n \in Nodes, TakeByte(n)
        PROVE  Channel!Next \/ UNCHANGED Channel!vars
    BY <2>1, <2>5, TakeByteRefines DEF Channel!Next
  <2>6. CASE UNCHANGED vars
    BY <2>6 DEF vars, Channel!vars, Served
  <2>. QED
    BY <2>2, <2>3, <2>4, <2>5, <2>6 DEF Next
<1>. QED
  BY <1>1, <1>2

(* As long as no byte is lost, a packet reaches the callback of the node   *)
(* it is for, or is counted there, whole, once and in the order of         *)
(* sending, and no other node: for any number of nodes, any payload that   *)
(* adi_hbs_Send does not cut short and any timing of the main loops.       *)
THEOREM Implements ==
    ASSUME PayloadsFit
    PROVE  Spec => ChannelSpec
<1>1. IInv /\ [Next]_vars => IInv'
  BY NextStep
<1>2. IInv /\ [Next]_vars => [Channel!Next]_Channel!vars
  BY NextRefines
<1>. QED
  BY InitIInv, InitRefines, <1>1, <1>2, PTL DEF Spec, ChannelSpec, Channel!Spec

==============================================================================
