--------------------------- MODULE TwoNodes_proofs ---------------------------
(***************************************************************************)
(* The example application, for any length of the receive queues and with  *)
(* or without damaged frames: its parsers stay inside their packets, and   *)
(* the exchange of request and response keeps the bus half-duplex.         *)
(***************************************************************************)
EXTENDS TwoNodes, SequenceTheorems, TLAPS

USE DataLenAssumption, RxLenAssumption, LossyAssumption, CodesAssumption

------------------------------------------------------------------------------
(* The parser.                                                             *)

Parser == [self_addr : Octet, user_cb : BOOLEAN, rx_state : RxStates,
           data_rxed : Octet, unhandled_pkt_cnt : Nat, rx_packet : Packet]

ParserOK(h) ==
    /\ h \in Parser /\ h.user_cb
    /\ IF h.rx_state = "data" THEN h.data_rxed < h.rx_packet.len
                              ELSE h.data_rxed = 0

(* The bytes of the current packet it has taken.                           *)
Pos(h) ==
    IF h.rx_state = "self_addr" THEN 0
    ELSE IF h.rx_state = "dest_addr" THEN 1
    ELSE IF h.rx_state = "operation" THEN 2
    ELSE IF h.rx_state = "len" THEN 3
    ELSE 4 + h.data_rxed

LEMMA PosType ==
    ASSUME NEW h, ParserOK(h)
    PROVE  /\ Pos(h) \in Nat
           /\ Pos(h) < 4 <=> h.rx_state # "data"
BY DEF ParserOK, Parser, Pos, RxStates, Octet

LEMMA ToOctetKeeps ==
    ASSUME NEW n \in Octet
    PROVE  ToOctet(n) = n
<1>1. n \in Nat /\ HBS_MAX_DATA_LEN + 1 \in Nat \ {0} /\ n < HBS_MAX_DATA_LEN + 1
  BY DEF Octet
<1>. QED
  BY <1>1, SMTT(30) DEF ToOctet

(* There is room for the next byte of the payload.                         *)
LEMMA NextIndex ==
    ASSUME NEW h, ParserOK(h), h.rx_state = "data"
    PROVE  h.data_rxed + 1 \in Octet /\ ToOctet(h.data_rxed + 1) = h.data_rxed + 1
<1>1. h.data_rxed + 1 \in Octet
  BY DEF ParserOK, Parser, Packet, Octet
<1>. QED
  BY <1>1, ToOctetKeeps

LEMMA WriteAtType ==
    ASSUME NEW data \in Seq(Octet), NEW i \in Nat, NEW value \in Octet
    PROVE  WriteAt(data, i, value) \in Seq(Octet)
<1>1. CASE i < Len(data)
  BY <1>1 DEF WriteAt
<1>2. CASE ~(i < Len(data))
  BY <1>2 DEF WriteAt
<1>. QED
  BY <1>1, <1>2

(* A header field only moves the state on; the payload may be stored       *)
(* anywhere below its length.                                              *)
LEMMA StoredType ==
    ASSUME NEW h, ParserOK(h), NEW value \in Octet
    PROVE  /\ Stored(h, value) \in Parser
           /\ Stored(h, value).user_cb
           /\ Stored(h, value).rx_state = h.rx_state
           /\ h.rx_state = "data" =>
                 /\ Stored(h, value).rx_packet.len = h.rx_packet.len
                 /\ Stored(h, value).data_rxed = h.data_rxed + 1
           /\ h.rx_state # "data" => Stored(h, value).data_rxed = 0
           /\ h.rx_state = "len" => Stored(h, value).rx_packet.len = value
<1>. USE DEF ParserOK, Parser, Packet
<1>1. CASE h.rx_state = "data"
  <2>1. ToOctet(h.data_rxed + 1) = h.data_rxed + 1
    BY <1>1, NextIndex
  <2>2. WriteAt(h.rx_packet.data, h.data_rxed, value) \in Seq(Octet)
    BY WriteAtType DEF Octet
  <2>3. h.data_rxed + 1 \in Octet
    BY <1>1, NextIndex
  <2>. DEFINE d == WriteAt(h.rx_packet.data, h.data_rxed, value)
              k == h.data_rxed + 1
  <2>4. Stored(h, value) = [h EXCEPT !.rx_packet.data = d, !.data_rxed = k]
    BY <1>1, <2>1 DEF Stored
  <2>5. d \in Seq(Octet) /\ k \in Octet
    BY <2>2, <2>3
  <2>. HIDE DEF d
  <2>6. Stored(h, value) \in Parser
    <3>. HIDE DEF k
    <3>. QED
      BY <2>4, <2>5
  <2>. QED
    BY <1>1, <2>4, <2>6
<1>2. CASE h.rx_state = "self_addr"
  <2>1. Stored(h, value) = [h EXCEPT !.rx_packet.self_addr = value]
    BY <1>2 DEF Stored
  <2>. QED
    BY <1>2, <2>1
<1>3. CASE h.rx_state = "dest_addr"
  <2>1. Stored(h, value) = [h EXCEPT !.rx_packet.dest_addr = value]
    BY <1>3 DEF Stored
  <2>. QED
    BY <1>3, <2>1
<1>4. CASE h.rx_state = "operation"
  <2>1. Stored(h, value) = [h EXCEPT !.rx_packet.operation = value]
    BY <1>4 DEF Stored
  <2>. QED
    BY <1>4, <2>1
<1>5. CASE h.rx_state = "len"
  <2>1. Stored(h, value) = [h EXCEPT !.rx_packet.len = value]
    BY <1>5 DEF Stored
  <2>. QED
    BY <1>5, <2>1
<1>. QED
  BY <1>1, <1>2, <1>3, <1>4, <1>5 DEF RxStates

(* Every byte brings the parser one further or, at the end of a packet,    *)
(* which has four bytes at least, back to the start.                       *)
LEMMA ParserStep ==
    ASSUME NEW h, ParserOK(h), NEW value \in Octet
    PROVE  /\ ParserOK(hbs_Received(h, value))
           /\ CompletesPacket(h, value) =>
                 Pos(h) >= 3 /\ Pos(hbs_Received(h, value)) = 0
           /\ ~CompletesPacket(h, value) =>
                 Pos(hbs_Received(h, value)) = Pos(h) + 1
           /\ Pos(h) = 3 /\ value # 0 => ~CompletesPacket(h, value)
<1>. USE DEF ParserOK, Parser
<1>1. Counted(h, value) = h
  BY DEF Counted
<1>. DEFINE s == Stored(h, value)
<1>2. /\ s \in Parser /\ s.user_cb /\ s.rx_state = h.rx_state
      /\ h.rx_state = "data" =>
            s.rx_packet.len = h.rx_packet.len /\ s.data_rxed = h.data_rxed + 1
      /\ h.rx_state # "data" => s.data_rxed = 0
      /\ h.rx_state = "len" => s.rx_packet.len = value
  BY StoredType
<1>. DEFINE r == hbs_Received(h, value)
<1>3. CASE CompletesPacket(h, value)
  <2>1. r = [s EXCEPT !.rx_state = "self_addr", !.data_rxed = 0]
    BY <1>1, <1>3 DEF hbs_Received, reset_rxing_state
  <2>. HIDE DEF s, r
  <2>2. Pos(h) >= 3
    BY <1>3 DEF CompletesPacket, Pos, Octet
  <2>3. r \in Parser
    <3>1. "self_addr" \in RxStates /\ 0 \in Octet
      BY DEF RxStates, Octet
    <3>. QED
      BY <1>2, <2>1, <3>1
  <2>4. r.user_cb /\ r.rx_state = "self_addr" /\ r.data_rxed = 0
    BY <1>2, <2>1
  <2>5. ParserOK(r) /\ Pos(r) = 0
    BY <2>3, <2>4 DEF Pos
  <2>6. ~(Pos(h) = 3 /\ value # 0)
    BY <1>3 DEF CompletesPacket, Pos, RxStates, Octet
  <2>. QED
    BY <1>3, <2>2, <2>5, <2>6 DEF r
<1>4. CASE ~CompletesPacket(h, value)
  <2>. DEFINE next == FollowingState[h.rx_state]
  <2>1. r = [s EXCEPT !.rx_state = next]
    BY <1>2, <1>4 DEF hbs_Received
  <2>2. /\ next \in RxStates
        /\ h.rx_state = "self_addr" => next = "dest_addr"
        /\ h.rx_state = "dest_addr" => next = "operation"
        /\ h.rx_state = "operation" => next = "len"
        /\ h.rx_state \in {"len", "data"} => next = "data"
    BY DEF FollowingState, RxStates
  <2>. HIDE DEF s, r, next
  <2>3. r \in Parser
    BY <1>2, <2>1, <2>2
  <2>4. /\ r.user_cb /\ r.rx_state = next
        /\ r.data_rxed = s.data_rxed /\ r.rx_packet.len = s.rx_packet.len
    BY <1>2, <2>1
  <2>5. h.rx_state = "data" => h.data_rxed + 1 < h.rx_packet.len
    BY <1>4, NextIndex DEF CompletesPacket, Packet, Octet
  <2>6. h.rx_state = "len" => value > 0
    BY <1>4 DEF CompletesPacket, Octet
  <2>7. IF r.rx_state = "data" THEN r.data_rxed < r.rx_packet.len
                               ELSE r.data_rxed = 0
    BY <1>2, <2>2, <2>4, <2>5, <2>6 DEF RxStates
  <2>8. Pos(r) = Pos(h) + 1
    BY <1>2, <2>2, <2>4 DEF Pos, RxStates, Octet
  <2>9. ParserOK(r)
    BY <2>3, <2>4, <2>7
  <2>. QED
    BY <1>4, <2>8, <2>9 DEF r
<1>. QED
  BY <1>3, <1>4

LEMMA CallsBackType ==
    ASSUME NEW h, ParserOK(h), NEW value \in Octet,
           NEW packet \in CallsBack(h, value)
    PROVE  packet \in Packet /\ CompletesPacket(h, value)
<1>1. Stored(h, value).rx_packet \in Packet
  BY StoredType DEF Parser
<1>. QED
  BY <1>1 DEF CallsBack, PacketFor

------------------------------------------------------------------------------
(* Whose turn it is.                                                       *)

TypeInv ==
    /\ pc \in [Nodes -> {"idle", "transmit", "wait", "held"}]
    /\ pc["slave"] \in {"transmit", "wait"}
    /\ hbs \in [Nodes -> Parser]
    /\ queue \in [Nodes -> Seq(Octet)]
    /\ out \in [Nodes -> Seq(Octet)]
    /\ \A n \in Nodes :
         /\ ParserOK(hbs[n])
         /\ Len(queue[n]) <= RxLen
         /\ pc[n] = "transmit" <=> out[n] # << >>
    /\ button \in {0, 1} /\ shown \in Octet /\ sampled \in {0, 1}
    /\ master_received_response \in BOOLEAN
    /\ lost \in BOOLEAN /\ unsent \in BOOLEAN

(* The bytes of the message to n that its parser has taken or has before   *)
(* it.                                                                     *)
Ahead(n) == Pos(hbs[n]) + Len(queue[n]) + Len(out[Other(n)])

(* A response that has not lost a byte does not end with its length byte,  *)
(* which is the fourth.                                                    *)
LengthFollows ==
    LET k == 4 - Pos(hbs["master"]) IN
    k > 0 => IF k <= Len(queue["master"]) THEN queue["master"][k] # 0
             ELSE out["slave"][k - Len(queue["master"])] # 0

Quiet  == Ahead("master") = 0 /\ Ahead("slave") = 0

Asking == Ahead("master") = 0 /\ Ahead("slave") <= 4

Answering ==
    /\ Ahead("slave") = 0 /\ Ahead("master") <= 5
    /\ Ahead("master") = 5 => LengthFollows

TurnInv ==
    /\ pc["master"] \in {"idle", "held"} => Quiet
    /\ pc["master"] = "transmit" => Asking
    /\ pc["master"] = "wait" => Asking \/ Answering

IInv == TypeInv /\ TurnInv

LEMMA TypeInvOK == IInv => TypeOK
BY DEF IInv, TypeInv, TypeOK, ParserOK, Parser, Nodes

(* Nobody transmits to a node that the rest of a message is not for.       *)
LEMMA TurnsOK == IInv => HalfDuplex
<1>. SUFFICES ASSUME IInv, pc["master"] = "transmit", pc["slave"] = "transmit"
              PROVE  FALSE
  BY DEF HalfDuplex
<1>1. Pos(hbs["master"]) \in Nat /\ Len(queue["master"]) \in Nat
      /\ Len(out["slave"]) \in Nat /\ Len(out["slave"]) # 0
  BY PosType DEF IInv, TypeInv, Nodes
<1>. QED
  BY <1>1 DEF IInv, TurnInv, Asking, Ahead, Other

------------------------------------------------------------------------------
(* Messages.                                                               *)

LEMMA Codes ==
    /\ 1 \in Octet /\ 0 \in Octet
    /\ REQUEST_CODE \in Octet /\ RESPONSE_CODE \in Octet
    /\ \A n \in Nodes : ADDRESS[n] \in Octet
BY DEF Octet, REQUEST_CODE, RESPONSE_CODE, ADDRESS, Nodes

LEMMA RequestBytes ==
    ASSUME NEW a \in Octet, NEW b \in Octet, NEW c \in Octet
    PROVE  /\ hbs_Send(a, b, c, << >>) \in Seq(Octet)
           /\ Len(hbs_Send(a, b, c, << >>)) = 4
<1>1. ToOctet(Len(<< >>)) = 0 /\ 0 \in Octet
  BY Codes, ToOctetKeeps
<1>. DEFINE header == <<a, b, c, 0>>
<1>2. hbs_Send(a, b, c, << >>) = header \o << >>
  BY <1>1 DEF hbs_Send
<1>3. header \in Seq(Octet) /\ Len(header) = 4
  BY <1>1
<1>. HIDE DEF header
<1>4. header \o << >> = header
  BY <1>3, ConcatEmptySeq
<1>. QED
  BY <1>2, <1>3, <1>4

LEMMA ResponseBytes ==
    ASSUME NEW a \in Octet, NEW b \in Octet, NEW c \in Octet, NEW d \in Octet
    PROVE  /\ hbs_Send(a, b, c, <<d>>) \in Seq(Octet)
           /\ Len(hbs_Send(a, b, c, <<d>>)) = 5
           /\ hbs_Send(a, b, c, <<d>>)[4] = 1
           /\ hbs_Send(a, b, c, <<d>>)[5] = d
<1>1. ToOctet(Len(<<d>>)) = 1
  BY Codes, ToOctetKeeps
<1>. DEFINE header == <<a, b, c, 1>>
            payload == <<d>>
<1>2. hbs_Send(a, b, c, <<d>>) = header \o payload
  BY <1>1 DEF hbs_Send
<1>3. header \in Seq(Octet) /\ Len(header) = 4 /\ header[4] = 1
  BY Codes
<1>4. payload \in Seq(Octet) /\ Len(payload) = 1 /\ payload[1] = d
  OBVIOUS
<1>. HIDE DEF header, payload
<1>. DEFINE bytes == header \o payload
<1>5. /\ bytes \in Seq(Octet) /\ Len(bytes) = Len(header) + Len(payload)
      /\ \A i \in 1 .. Len(header) + Len(payload) :
           bytes[i] = IF i <= Len(header) THEN header[i] ELSE payload[i - Len(header)]
  BY <1>3, <1>4, ConcatProperties
<1>. HIDE DEF bytes
<1>6. Len(bytes) = 5 /\ bytes[4] = 1
  BY <1>3, <1>4, <1>5
<1>7. bytes[5] = d
  <2>1. 5 \in 1 .. Len(header) + Len(payload) /\ ~(5 <= Len(header))
        /\ 5 - Len(header) = 1
    BY <1>3, <1>4
  <2>. QED
    BY <1>4, <1>5, <2>1
<1>. QED
  BY <1>2, <1>5, <1>6, <1>7 DEF bytes

(* What taking a byte does to the parser and the queue.                    *)
LEMMA Taken ==
    ASSUME TypeInv, NEW n \in Nodes, TakeByte(n)
    PROVE  /\ Head(queue[n]) \in Octet
           /\ hbs' \in [Nodes -> Parser] /\ queue' \in [Nodes -> Seq(Octet)]
           /\ \A m \in Nodes : ParserOK(hbs'[m]) /\ Len(queue'[m]) <= RxLen
           /\ \A m \in Nodes \ {n} : hbs'[m] = hbs[m] /\ queue'[m] = queue[m]
           /\ Len(queue[n]) \in Nat \ {0}
           /\ Len(queue'[n]) = Len(queue[n]) - 1
           /\ \A k \in 1 .. Len(queue'[n]) : queue'[n][k] = queue[n][k + 1]
           /\ hbs'[n] = hbs_Received(hbs[n], Head(queue[n]))
<1>. DEFINE q == queue[n]
            v == Head(q)
<1>1. q \in Seq(Octet) /\ q # << >> /\ hbs[n] \in Parser /\ ParserOK(hbs[n])
      /\ Len(q) <= RxLen
  BY DEF TypeInv, TakeByte
<1>2. /\ v \in Octet /\ v = q[1] /\ Tail(q) \in Seq(Octet)
      /\ Len(q) \in Nat \ {0} /\ Len(Tail(q)) = Len(q) - 1
      /\ \A k \in 1 .. Len(Tail(q)) : Tail(q)[k] = q[k + 1]
  BY <1>1
<1>3. ParserOK(hbs_Received(hbs[n], v))
  BY <1>1, <1>2, ParserStep
<1>4. queue' = [queue EXCEPT ![n] = Tail(q)]
      /\ hbs' = [hbs EXCEPT ![n] = hbs_Received(hbs[n], v)]
  BY DEF TakeByte
<1>5. hbs_Received(hbs[n], v) \in Parser
  BY <1>3 DEF ParserOK
<1>. HIDE DEF q, v
<1>. DEFINE h == hbs_Received(hbs[n], v)
            t == Tail(q)
<1>6. t \in Seq(Octet) /\ Len(t) = Len(q) - 1 /\ Len(q) \in Nat \ {0}
  BY <1>2
<1>. HIDE DEF h, t
<1>7. hbs' = [hbs EXCEPT ![n] = h] /\ queue' = [queue EXCEPT ![n] = t]
      /\ h \in Parser /\ ParserOK(h)
  BY <1>3, <1>4, <1>5 DEF h, t
<1>8. hbs' \in [Nodes -> Parser] /\ hbs'[n] = h
      /\ \A m \in Nodes \ {n} : hbs'[m] = hbs[m]
  BY <1>7 DEF TypeInv
<1>9. queue' \in [Nodes -> Seq(Octet)] /\ queue'[n] = t
      /\ \A m \in Nodes \ {n} : queue'[m] = queue[m]
  BY <1>6, <1>7 DEF TypeInv
<1>10. \A m \in Nodes : ParserOK(hbs'[m])
  BY <1>7, <1>8 DEF TypeInv
<1>11. \A m \in Nodes : Len(queue'[m]) <= RxLen
  <2>1. Len(t) <= RxLen
    BY <1>1, <1>6
  <2>2. \A m \in Nodes \ {n} : Len(queue[m]) <= RxLen
    BY DEF TypeInv
  <2>. QED
    BY <1>9, <2>1, <2>2
<1>. QED
  BY <1>2, <1>8, <1>9, <1>10, <1>11 DEF q, v, h, t

------------------------------------------------------------------------------
(* The steps.                                                              *)

LEMMA Counts ==
    ASSUME TypeInv
    PROVE  \A n \in Nodes :
               /\ Pos(hbs[n]) \in Nat /\ Len(queue[n]) \in Nat
               /\ Len(out[n]) \in Nat /\ (Len(out[n]) = 0 <=> out[n] = << >>)
BY PosType DEF TypeInv

LEMMA InitParser ==
    ASSUME NEW a \in Octet
    PROVE  LET h == hbs_RegisterRxCb(hbs_Init(a))
           IN  h \in Parser /\ ParserOK(h) /\ Pos(h) = 0
<1>. DEFINE p == [self_addr |-> 0, dest_addr |-> 0, operation |-> 0,
                  len |-> 0, data |-> << >>]
            i == hbs_Init(a)
            h == hbs_RegisterRxCb(i)
<1>1. p \in Packet
  BY Codes DEF Packet
<1>2. i = [self_addr |-> a, user_cb |-> FALSE, rx_state |-> "self_addr",
           data_rxed |-> 0, unhandled_pkt_cnt |-> 0, rx_packet |-> p]
  BY DEF hbs_Init
<1>. HIDE DEF p, i
<1>3. i \in Parser /\ i.rx_state = "self_addr" /\ i.data_rxed = 0
  BY <1>1, <1>2, Codes DEF Parser, RxStates
<1>4. h = [i EXCEPT !.user_cb = TRUE]
  BY DEF hbs_RegisterRxCb
<1>. HIDE DEF h
<1>5. h \in Parser
  BY <1>3, <1>4 DEF Parser
<1>6. h.user_cb /\ h.rx_state = "self_addr" /\ h.data_rxed = 0
  BY <1>3, <1>4 DEF Parser
<1>7. ParserOK(h) /\ Pos(h) = 0
  BY <1>5, <1>6 DEF ParserOK, Pos
<1>. QED
  BY <1>5, <1>7 DEF h, i

LEMMA InitIInv == Init => IInv
<1>. SUFFICES ASSUME Init PROVE IInv
  OBVIOUS
<1>1. /\ hbs \in [Nodes -> Parser]
      /\ \A n \in Nodes : ParserOK(hbs[n]) /\ Pos(hbs[n]) = 0
  BY Codes, InitParser DEF Init
<1>2. TypeInv
  <2>1. /\ pc \in [Nodes -> {"idle", "transmit", "wait", "held"}]
        /\ pc["slave"] = "wait" /\ pc["master"] = "idle"
    BY DEF Init, Nodes
  <2>2. /\ queue \in [Nodes -> Seq(Octet)] /\ out \in [Nodes -> Seq(Octet)]
        /\ \A n \in Nodes : queue[n] = << >> /\ out[n] = << >>
    BY DEF Init
  <2>3. \A n \in Nodes : Len(queue[n]) <= RxLen
    BY <2>2
  <2>4. \A n \in Nodes : pc[n] = "transmit" <=> out[n] # << >>
    BY <2>1, <2>2 DEF Nodes
  <2>5. /\ button \in {0, 1} /\ shown \in Octet /\ sampled \in {0, 1}
        /\ master_received_response \in BOOLEAN
        /\ lost \in BOOLEAN /\ unsent \in BOOLEAN
    BY Codes DEF Init
  <2>. QED
    BY <1>1, <2>1, <2>2, <2>3, <2>4, <2>5 DEF TypeInv
<1>3. TurnInv
  BY <1>1 DEF Init, TurnInv, Quiet, Ahead, Other, Nodes
<1>. QED
  BY <1>2, <1>3 DEF IInv

(* The request that is not sent leaves both parsers at rest.               *)
LEMMA RequestFails ==
    ASSUME IInv, Request, SendFails("master")
    PROVE  IInv'
<1>1. /\ pc' = [pc EXCEPT !["master"] = "wait"] /\ out' = out
      /\ UNCHANGED <<hbs, queue, button, shown, sampled, lost>>
      /\ unsent' = TRUE
      /\ master_received_response' = FALSE /\ pc["master"] = "idle"
  BY DEF Request, SendFails
<1>2. TypeInv'
  <2>1. /\ pc' \in [Nodes -> {"idle", "transmit", "wait", "held"}]
        /\ pc'["master"] = "wait" /\ pc'["slave"] = pc["slave"]
    BY <1>1 DEF IInv, TypeInv, Nodes
  <2>2. \A n \in Nodes : pc'[n] = "transmit" <=> pc[n] = "transmit"
    BY <1>1, <2>1 DEF Nodes
  <2>. QED
    BY <1>1, <2>1, <2>2 DEF IInv, TypeInv
<1>3. Ahead("master")' = 0 /\ Ahead("slave")' = 0 /\ pc'["master"] = "wait"
  BY <1>1 DEF IInv, TypeInv, TurnInv, Quiet, Ahead, Nodes
<1>4. TurnInv'
  BY <1>3 DEF TurnInv, Asking
<1>. QED
  BY <1>2, <1>4 DEF IInv

LEMMA RequestStep == IInv /\ Request => IInv'
<1>. SUFFICES ASSUME IInv, Request, ~SendFails("master") PROVE IInv'
  BY RequestFails
<1>. DEFINE bytes == hbs_Send(ADDRESS["master"], ADDRESS["slave"], REQUEST_CODE, << >>)
<1>1. bytes \in Seq(Octet) /\ Len(bytes) = 4
  BY Codes, RequestBytes DEF Nodes
<1>2. /\ out' = [out EXCEPT !["master"] = bytes]
      /\ pc' = [pc EXCEPT !["master"] = "transmit"]
      /\ UNCHANGED <<hbs, queue, button, shown, sampled, lost>>
      /\ master_received_response' = FALSE /\ pc["master"] = "idle"
      /\ unsent' = unsent
  BY DEF Request, Send, BeginSend
<1>. HIDE DEF bytes
<1>3. TypeInv'
  <2>1. out' \in [Nodes -> Seq(Octet)] /\ out'["master"] = bytes
    BY <1>1, <1>2 DEF IInv, TypeInv, Nodes
  <2>3. bytes # << >>
    BY <1>1
  <2>2. /\ pc' \in [Nodes -> {"idle", "transmit", "wait", "held"}]
        /\ pc'["master"] = "transmit" /\ pc'["slave"] = pc["slave"]
        /\ out'["slave"] = out["slave"]
    BY <1>2 DEF IInv, TypeInv, Nodes
  <2>. QED
    BY <1>2, <2>1, <2>2, <2>3 DEF IInv, TypeInv, Nodes
<1>4. Ahead("master")' = 0 /\ Ahead("slave")' = 4
  <2>1. Ahead("master") = 0 /\ Ahead("slave") = 0
    BY <1>2 DEF IInv, TurnInv, Quiet
  <2>2. out'["master"] = bytes /\ out'["slave"] = out["slave"]
    BY <1>2 DEF IInv, TypeInv, Nodes
  <2>3. \A n \in Nodes : Pos(hbs[n]) \in Nat /\ Len(queue[n]) \in Nat
                         /\ Len(out[n]) \in Nat
    BY Counts DEF IInv
  <2>4. Ahead("master")' = Ahead("master")
    BY <1>2, <2>2 DEF Ahead, Other
  <2>5. Ahead("slave")' = Pos(hbs["slave"]) + Len(queue["slave"]) + 4
    BY <1>1, <1>2, <2>2 DEF Ahead, Other
  <2>6. Ahead("slave") =
            Pos(hbs["slave"]) + Len(queue["slave"]) + Len(out["master"])
    BY DEF Ahead, Other
  <2>. QED
    BY <2>1, <2>3, <2>4, <2>5, <2>6 DEF Nodes
<1>5. TurnInv'
  BY <1>2, <1>4 DEF IInv, TypeInv, TurnInv, Asking, Nodes
<1>. QED
  BY <1>3, <1>5 DEF IInv

LEMMA ReleaseStep == IInv /\ Release => IInv'
<1>. SUFFICES ASSUME IInv, Release PROVE IInv'
  OBVIOUS
<1>1. TypeInv'
  BY DEF Release, IInv, TypeInv, Nodes
<1>2. TurnInv'
  BY DEF Release, IInv, TypeInv, TurnInv, Quiet, Ahead, Nodes
<1>. QED
  BY <1>1, <1>2 DEF IInv

LEMMA ToggleStep == IInv /\ Toggle => IInv'
<1>. SUFFICES ASSUME IInv, Toggle PROVE IInv'
  OBVIOUS
<1>1. TypeInv'
  BY DEF Toggle, IInv, TypeInv
<1>2. TurnInv'
  BY DEF Toggle, IInv, TurnInv, Quiet, Asking, Answering, LengthFollows, Ahead
<1>. QED
  BY <1>1, <1>2 DEF IInv

(* What a byte of a Transmit does, whether or not it arrives.              *)
LEMMA Put ==
    ASSUME TypeInv, NEW n \in Nodes, PutByte(n)
    PROVE  LET m == Other(n) IN
           /\ pc[n] = "transmit" /\ Len(out[n]) \in Nat \ {0}
           /\ Len(out'[n]) = Len(out[n]) - 1
           /\ \A k \in 1 .. Len(out'[n]) : out'[n][k] = out[n][k + 1]
           /\ out'[m] = out[m] /\ pc'[m] = pc[m] /\ pc'[n] \in {"transmit", "wait"}
           /\ hbs' = hbs /\ queue'[n] = queue[n]
           /\ \/ queue'[m] = queue[m] /\ lost'
              \/ queue'[m] = Append(queue[m], out[n][1])
           /\ lost => lost'
           /\ TypeInv'
<1>. DEFINE m == Other(n)
            o == out[n]
            q == queue[m]
<1>1. n # m /\ m \in Nodes /\ \A x \in Nodes : x = n \/ x = m
  BY DEF Other, Nodes
<1>2. o \in Seq(Octet) /\ o # << >> /\ q \in Seq(Octet) /\ pc[n] = "transmit"
  BY <1>1 DEF TypeInv, PutByte
<1>. DEFINE t == Tail(o)
            b == o[1]
<1>3. /\ Len(o) \in Nat \ {0} /\ t \in Seq(Octet) /\ Len(t) = Len(o) - 1
      /\ \A k \in 1 .. Len(t) : t[k] = o[k + 1]
      /\ b \in Octet /\ Head(o) = b
  BY <1>2
<1>4. /\ out' = [out EXCEPT ![n] = t]
      /\ pc' = [pc EXCEPT ![n] = IF Len(o) = 1 THEN "wait" ELSE @]
      /\ UNCHANGED <<hbs, button, master_received_response, shown, sampled,
                     unsent>>
  BY DEF PutByte
<1>5. /\ \/ queue' = queue /\ lost'
         \/ queue' = [queue EXCEPT ![m] = Append(q, b)] /\ Len(q) < RxLen
      /\ lost' \in BOOLEAN /\ (lost => lost')
  BY <1>3 DEF PutByte, Hears, TypeInv
<1>. HIDE DEF m, o, q, t, b
<1>6. out' \in [Nodes -> Seq(Octet)] /\ out'[n] = t /\ out'[m] = out[m]
  BY <1>1, <1>3, <1>4 DEF TypeInv
<1>7. /\ pc' \in [Nodes -> {"idle", "transmit", "wait", "held"}]
      /\ pc'[n] = (IF Len(o) = 1 THEN "wait" ELSE "transmit")
      /\ pc'[m] = pc[m]
  BY <1>1, <1>2, <1>4 DEF TypeInv
<1>8. Append(q, b) \in Seq(Octet) /\ Len(Append(q, b)) = Len(q) + 1
  BY <1>2, <1>3
<1>9. /\ queue' \in [Nodes -> Seq(Octet)] /\ queue'[n] = queue[n]
      /\ \/ queue'[m] = queue[m] /\ lost'
         \/ queue'[m] = Append(q, b) /\ Len(q) < RxLen
  BY <1>1, <1>5, <1>8 DEF TypeInv
<1>10. Len(queue'[n]) <= RxLen /\ Len(queue'[m]) <= RxLen
  <2>1. Len(queue[n]) <= RxLen /\ Len(queue[m]) <= RxLen
    BY <1>1 DEF TypeInv
  <2>2. Len(q) < RxLen => Len(q) + 1 <= RxLen
    BY <1>2
  <2>. QED
    BY <1>8, <1>9, <2>1, <2>2
<1>11. pc'[n] = "transmit" <=> out'[n] # << >>
  <2>1. Len(o) = 1 <=> t = << >>
    BY <1>3
  <2>. QED
    BY <1>6, <1>7, <2>1
<1>12. pc'[m] = "transmit" <=> out'[m] # << >>
  BY <1>1, <1>6, <1>7 DEF TypeInv
<1>13. pc'["slave"] \in {"transmit", "wait"}
  BY <1>1, <1>7 DEF TypeInv, Nodes
<1>14. TypeInv'
  <2>1. \A x \in Nodes : ParserOK(hbs'[x])
    BY <1>4 DEF TypeInv
  <2>2. \A x \in Nodes : Len(queue'[x]) <= RxLen
    BY <1>1, <1>10
  <2>3. \A x \in Nodes : pc'[x] = "transmit" <=> out'[x] # << >>
    BY <1>1, <1>11, <1>12
  <2>. QED
    BY <1>4, <1>5, <1>6, <1>7, <1>9, <1>13, <2>1, <2>2, <2>3 DEF TypeInv
<1>. QED
  BY <1>2, <1>3, <1>4, <1>5, <1>6, <1>7, <1>9, <1>14 DEF m, o, q, b

LEMMA PutMasterStep == IInv /\ PutByte("master") => IInv'
<1>. SUFFICES ASSUME IInv, PutByte("master") PROVE IInv'
  OBVIOUS
<1>1. /\ pc["master"] = "transmit" /\ Len(out["master"]) \in Nat \ {0}
      /\ Len(out'["master"]) = Len(out["master"]) - 1
      /\ out'["slave"] = out["slave"]
      /\ pc'["master"] \in {"transmit", "wait"}
      /\ hbs' = hbs /\ queue'["master"] = queue["master"]
      /\ \/ queue'["slave"] = queue["slave"]
         \/ queue'["slave"] = Append(queue["slave"], out["master"][1])
      /\ TypeInv'
  BY Put DEF IInv, Other, Nodes
<1>2. Len(queue'["slave"]) \in {Len(queue["slave"]), Len(queue["slave"]) + 1}
  BY <1>1 DEF IInv, TypeInv, Nodes
<1>3. Ahead("master") = 0 /\ Ahead("slave") <= 4
  BY <1>1 DEF IInv, TurnInv, Asking
<1>4. Ahead("master")' = Ahead("master")
  BY <1>1 DEF Ahead, Other
<1>5. Ahead("slave")' <= 4
  <2>1. Pos(hbs["slave"]) \in Nat /\ Len(queue["slave"]) \in Nat
        /\ Len(out["master"]) \in Nat
    BY Counts DEF IInv, Nodes
  <2>2. Ahead("slave")' =
            Pos(hbs["slave"]) + Len(queue'["slave"]) + Len(out'["master"])
    BY <1>1 DEF Ahead, Other
  <2>3. Pos(hbs["slave"]) + Len(queue["slave"]) + Len(out["master"]) <= 4
    BY <1>3 DEF Ahead, Other
  <2>4. Len(out'["master"]) = Len(out["master"]) - 1
    BY <1>1
  <2>. DEFINE p == Pos(hbs["slave"])
              q == Len(queue["slave"])
              r == Len(queue'["slave"])
              o == Len(out["master"])
  <2>5. /\ p \in Nat /\ q \in Nat /\ o \in Nat /\ r \in {q, q + 1}
        /\ p + q + o <= 4 /\ Ahead("slave")' = p + r + (o - 1)
    BY <1>2, <2>1, <2>2, <2>3, <2>4
  <2>. HIDE DEF p, q, r, o
  <2>. QED
    BY <2>5
<1>. QED
  BY <1>1, <1>3, <1>4, <1>5 DEF IInv, TurnInv, Asking

LEMMA PutSlaveStep == IInv /\ PutByte("slave") => IInv'
<1>. SUFFICES ASSUME IInv, PutByte("slave") PROVE IInv'
  OBVIOUS
<1>. DEFINE q == queue["master"]
            o == out["slave"]
            p == Pos(hbs["master"])
<1>1. /\ pc["slave"] = "transmit" /\ Len(o) \in Nat \ {0}
      /\ Len(out'["slave"]) = Len(o) - 1
      /\ \A k \in 1 .. Len(out'["slave"]) : out'["slave"][k] = o[k + 1]
      /\ out'["master"] = out["master"] /\ pc'["master"] = pc["master"]
      /\ hbs' = hbs /\ queue'["slave"] = queue["slave"]
      /\ \/ queue'["master"] = q
         \/ queue'["master"] = Append(q, o[1])
      /\ TypeInv'
  BY Put DEF IInv, Other, Nodes
<1>2. /\ p \in Nat /\ Len(q) \in Nat /\ Len(o) \in Nat
      /\ q \in Seq(Octet) /\ o[1] \in Octet
  BY <1>1, Counts DEF IInv, TypeInv, Nodes
<1>3. Ahead("master") = p + Len(q) + Len(o)
  BY DEF Ahead, Other
<1>4. pc["master"] = "wait" /\ Answering
  BY <1>1, <1>2, <1>3 DEF IInv, TypeInv, TurnInv, Quiet, Asking, Nodes
<1>5. Ahead("slave")' = 0
  BY <1>1, <1>4 DEF Answering, Ahead, Other
<1>6. Ahead("master")' = p + Len(queue'["master"]) + (Len(o) - 1)
  BY <1>1 DEF Ahead, Other
<1>7. p + Len(q) + Len(o) <= 5
  BY <1>3, <1>4 DEF Answering
<1>8. CASE queue'["master"] = q
  <2>1. Ahead("master")' <= 4
    BY <1>2, <1>6, <1>7, <1>8
  <2>2. Ahead("master")' # 5 /\ Ahead("master")' <= 5
    BY <1>2, <1>6, <1>7, <1>8
  <2>. QED
    BY <1>1, <1>4, <1>5, <2>2 DEF IInv, TurnInv, Answering
<1>9. CASE queue'["master"] = Append(q, o[1])
  <2>1. /\ Len(queue'["master"]) = Len(q) + 1
        /\ \A k \in 1 .. Len(q) : queue'["master"][k] = q[k]
        /\ queue'["master"][Len(q) + 1] = o[1]
    <3>. DEFINE b == o[1]
    <3>. HIDE DEF q, b
    <3>1. q \in Seq(Octet) /\ b \in Octet /\ queue'["master"] = Append(q, b)
      BY <1>2, <1>9 DEF b
    <3>. QED
      BY <3>1, AppendProperties DEF b
  <2>2. Ahead("master")' = p + Len(q) + Len(o)
    <3>1. p \in Nat /\ Len(q) \in Nat /\ Len(o) \in Nat
      BY <1>2
    <3>2. Len(queue'["master"]) = Len(q) + 1
      BY <2>1
    <3>. HIDE DEF q, o, p
    <3>. QED
      BY <1>6, <3>1, <3>2
  <2>3. ASSUME p + Len(q) + Len(o) = 5 PROVE LengthFollows'
    <3>. DEFINE k == 4 - p
    <3>1. k > 0 => IF k <= Len(q) THEN q[k] # 0 ELSE o[k - Len(q)] # 0
      BY <1>3, <1>4, <2>3 DEF Answering, LengthFollows
    <3>2. SUFFICES ASSUME k > 0
                   PROVE  IF k <= Len(queue'["master"])
                          THEN queue'["master"][k] # 0
                          ELSE out'["slave"][k - Len(queue'["master"])] # 0
      BY <1>1 DEF LengthFollows
    <3>. DEFINE n == Len(q)
    <3>a. n \in Nat /\ k \in Int /\ Len(queue'["master"]) = n + 1
      BY <1>2, <2>1
    <3>3. CASE k <= Len(q)
      <4>1. k \in 1 .. Len(q) /\ k <= Len(queue'["master"])
        BY <3>a, <3>2, <3>3
      <4>2. queue'["master"][k] = q[k] /\ q[k] # 0
        BY <2>1, <3>1, <3>2, <3>3, <4>1
      <4>. QED
        BY <4>1, <4>2
    <3>4. CASE k = Len(q) + 1
      <4>1. k <= Len(queue'["master"]) /\ k - Len(q) = 1 /\ ~(k <= Len(q))
        BY <3>a, <3>4
      <4>2. queue'["master"][k] = o[1]
        BY <2>1, <3>4
      <4>3. o[1] # 0
        BY <3>1, <3>2, <4>1
      <4>. QED
        BY <4>1, <4>2, <4>3
    <3>5. CASE k > Len(q) + 1
      <4>. DEFINE j == k - n - 1
                  l == Len(o)
      <4>1. /\ p \in Nat /\ l \in Nat /\ p + n + l = 5
            /\ Len(out'["slave"]) = l - 1 /\ k = 4 - p /\ k > n + 1
        BY <1>1, <1>2, <2>3, <3>5
      <4>2. /\ j \in 1 .. l - 1 /\ j + 1 = k - n /\ j = k - (n + 1)
            /\ ~(k <= n) /\ ~(k <= n + 1)
        <5>. HIDE DEF n, l, p, k
        <5>. QED
          BY <3>a, <4>1
      <4>3. out'["slave"][j] = o[k - n]
        BY <1>1, <4>1, <4>2
      <4>4. o[k - n] # 0
        BY <3>1, <3>2, <4>2
      <4>. HIDE DEF k, n, j
      <4>. QED
        BY <3>a, <4>2, <4>3, <4>4
    <3>. QED
      <4>1. k <= n \/ k = n + 1 \/ k > n + 1
        <5>. HIDE DEF k, n
        <5>. QED
          BY <3>a
      <4>. QED
        BY <3>3, <3>4, <3>5, <4>1
  <2>. QED
    BY <1>1, <1>4, <1>5, <1>7, <2>2, <2>3 DEF IInv, TurnInv, Answering
<1>. QED
  BY <1>1, <1>8, <1>9

(* A byte is taken and the packet, if it is one, ignored.                  *)
LEMMA TakenType ==
    ASSUME TypeInv, NEW n \in Nodes, TakeByte(n),
           pc' = pc, out' = out,
           UNCHANGED <<button, lost>>,
           sampled' \in {0, 1}, unsent' \in BOOLEAN,
           shown' \in Octet, master_received_response' \in BOOLEAN
    PROVE  TypeInv'
BY Taken DEF TypeInv

(* The message that is in progress gets no longer, and its last byte or    *)
(* the end of a packet leaves nothing of it.                               *)
LEMMA TakenAhead ==
    ASSUME TypeInv, NEW n \in Nodes, TakeByte(n),
           out'[Other(n)] = out[Other(n)]
    PROVE  LET v == Head(queue[n])
               h == hbs[n]
           IN  /\ out'[n] = out[n] => Ahead(Other(n))' = Ahead(Other(n))
               /\ Ahead(n) \in Nat /\ Ahead(n) >= Pos(h) + 1
               /\ ~CompletesPacket(h, v) =>
                     Ahead(n)' = Ahead(n) /\ Pos(hbs'[n]) = Pos(h) + 1
               /\ CompletesPacket(h, v) =>
                     /\ Pos(h) >= 3
                     /\ Ahead(n)' = Ahead(n) - Pos(h) - 1
               /\ Pos(h) = 3 /\ v # 0 => ~CompletesPacket(h, v)
<1>. DEFINE v == Head(queue[n])
            h == hbs[n]
            m == Other(n)
            p == Pos(h)
            r == Pos(hbs'[n])
<1>1. n # m /\ m \in Nodes /\ Other(m) = n
  BY DEF Other, Nodes
<1>2. /\ v \in Octet /\ Len(queue[n]) \in Nat \ {0}
      /\ Len(queue'[n]) = Len(queue[n]) - 1
      /\ hbs'[m] = hbs[m] /\ queue'[m] = queue[m]
      /\ hbs'[n] = hbs_Received(h, v) /\ ParserOK(h)
  BY <1>1, Taken DEF TypeInv
<1>3. /\ CompletesPacket(h, v) => p >= 3 /\ r = 0
      /\ ~CompletesPacket(h, v) => r = p + 1
      /\ p = 3 /\ v # 0 => ~CompletesPacket(h, v)
  BY <1>2, ParserStep
<1>4. p \in Nat /\ Len(out[m]) \in Nat
  BY <1>1, Counts
<1>5. /\ Ahead(n) = p + Len(queue[n]) + Len(out[m])
      /\ Ahead(n)' = r + Len(queue'[n]) + Len(out[m])
  BY DEF Ahead
<1>6. out'[n] = out[n] => Ahead(m)' = Ahead(m)
  BY <1>1, <1>2 DEF Ahead
<1>. DEFINE q == Len(queue[n])
            o == Len(out[m])
<1>7. /\ q \in Nat \ {0} /\ Len(queue'[n]) = q - 1
      /\ Ahead(n) = p + q + o /\ Ahead(n)' = r + (q - 1) + o
  BY <1>2, <1>5
<1>8. p \in Nat /\ o \in Nat
  BY <1>4
<1>. HIDE DEF v, h, m, p, r, q, o
<1>9. /\ Ahead(n) \in Nat /\ Ahead(n) >= p + 1
      /\ r = 0 => Ahead(n)' = Ahead(n) - p - 1
      /\ r = p + 1 => Ahead(n)' = Ahead(n)
  BY <1>7, <1>8
<1>. QED
  BY <1>3, <1>6, <1>9 DEF v, h, m, p, r

(* The slave only takes a byte when it is being asked.                     *)
LEMMA SlaveTakes ==
    ASSUME IInv, TakeByte("slave"), out' = out, pc' = pc,
           UNCHANGED <<button, master_received_response, shown, lost>>,
           sampled' \in {0, 1}, unsent' \in BOOLEAN
    PROVE  /\ IInv' /\ Ahead("master")' = 0
           /\ pc["master"] \in {"transmit", "wait"}
<1>. DEFINE p == Pos(hbs["slave"])
<1>1. /\ TypeInv /\ "slave" \in Nodes /\ Other("slave") = "master"
  BY DEF IInv, Nodes, Other
<1>2. TypeInv'
  BY <1>1, TakenType DEF TypeInv
<1>3. /\ Ahead("master")' = Ahead("master")
      /\ Ahead("slave") \in Nat /\ Ahead("slave") >= p + 1
      /\ Ahead("slave")' \in {Ahead("slave"), Ahead("slave") - p - 1}
  BY <1>1, TakenAhead
<1>4. p \in Nat
  BY <1>1, Counts
<1>. HIDE DEF p
<1>5. Ahead("slave") > 0 /\ Ahead("slave")' <= Ahead("slave")
  BY <1>3, <1>4
<1>6. Asking /\ pc["master"] \in {"transmit", "wait"}
  BY <1>1, <1>5 DEF IInv, TypeInv, TurnInv, Quiet, Answering, Nodes
<1>7. Asking'
  BY <1>3, <1>4, <1>5, <1>6 DEF Asking
<1>8. Ahead("master")' = 0
  BY <1>3, <1>6 DEF Asking
<1>. QED
  BY <1>1, <1>2, <1>6, <1>7, <1>8 DEF IInv, TurnInv

LEMMA IgnoreSlaveStep == IInv /\ Ignore("slave", REQUEST_CODE) => IInv'
<1>. SUFFICES ASSUME IInv, Ignore("slave", REQUEST_CODE) PROVE IInv'
  OBVIOUS
<1>1. sampled' \in {0, 1} /\ unsent' \in BOOLEAN
  BY DEF Ignore, IInv, TypeInv
<1>. QED
  BY <1>1, SlaveTakes DEF Ignore

LEMMA RespondFails ==
    ASSUME IInv, Respond, SendFails("slave")
    PROVE  /\ IInv' /\ Ahead("master")' = 0 /\ pc' = pc
           /\ pc["master"] \in {"transmit", "wait"}
<1>1. /\ TakeByte("slave") /\ out' = out
      /\ UNCHANGED <<button, master_received_response, shown, lost>>
      /\ sampled' \in {0, 1} /\ unsent' \in BOOLEAN
  BY DEF Respond, SendFails, IInv, TypeInv
<1>2. pc' = pc
  <2>1. /\ pc \in [Nodes -> {"idle", "transmit", "wait", "held"}]
        /\ pc["slave"] = "wait" /\ pc' = [pc EXCEPT !["slave"] = "wait"]
    BY DEF Respond, SendFails, TakeByte, IInv, TypeInv
  <2>. QED
    BY <2>1
<1>. QED
  BY <1>1, <1>2, SlaveTakes

LEMMA RespondStep ==
    ASSUME IInv, Respond, ~SendFails("slave")
    PROVE  /\ IInv' /\ pc["master"] = "wait"
           /\ Ahead("master")' = 5
           /\ Len(out'["slave"]) = 5 /\ out'["slave"][5] = button
<1>. DEFINE p == Pos(hbs["slave"])
            v == Head(queue["slave"])
<1>1. PICK packet \in Packets("slave") :
          BeginSend("slave", packet.self_addr, RESPONSE_CODE, <<button>>)
  BY DEF Respond, Send
<1>. DEFINE bytes ==
       hbs_Send(ADDRESS["slave"], packet.self_addr, RESPONSE_CODE, <<button>>)
<1>2. /\ TypeInv /\ TakeByte("slave") /\ pc["slave"] = "wait"
      /\ sampled' = button
      /\ UNCHANGED <<button, master_received_response, shown, lost>>
      /\ "slave" \in Nodes /\ "master" \in Nodes
  BY DEF Respond, IInv, TakeByte, Nodes
<1>3. /\ out' = [out EXCEPT !["slave"] = bytes]
      /\ pc' = [pc EXCEPT !["slave"] = "transmit"]
      /\ unsent' = unsent
  BY <1>1 DEF BeginSend
<1>4. packet.self_addr \in Octet /\ CompletesPacket(hbs["slave"], v)
  BY <1>1, <1>2, Taken, CallsBackType DEF Packets, Packet, TypeInv
<1>5. button \in Octet
  BY <1>2, Codes DEF TypeInv
<1>6. /\ bytes \in Seq(Octet) /\ Len(bytes) = 5
      /\ bytes[4] = 1 /\ bytes[5] = button
  <2>. DEFINE a == ADDRESS["slave"]
              b == packet.self_addr
  <2>1. a \in Octet /\ b \in Octet /\ RESPONSE_CODE \in Octet
    BY <1>2, <1>4, Codes
  <2>. HIDE DEF a, b
  <2>2. LET s == hbs_Send(a, b, RESPONSE_CODE, <<button>>)
        IN  s \in Seq(Octet) /\ Len(s) = 5 /\ s[4] = 1 /\ s[5] = button
    BY <1>5, <2>1, ResponseBytes
  <2>. QED
    BY <2>2 DEF a, b
<1>. HIDE DEF bytes, v
<1>7. /\ out' \in [Nodes -> Seq(Octet)] /\ out'["slave"] = bytes
      /\ out'["master"] = out["master"] /\ bytes # << >>
  <2>1. bytes # << >>
    <3>1. ASSUME bytes = << >> PROVE Len(bytes) = 0
      BY <3>1
    <3>2. Len(bytes) # 0
      BY <1>6
    <3>. QED
      BY <3>1, <3>2
  <2>2. out \in [Nodes -> Seq(Octet)]
    BY <1>2 DEF TypeInv
  <2>. DEFINE T == Seq(Octet)
  <2>5. bytes \in T /\ out \in [Nodes -> T]
    BY <1>6, <2>2
  <2>6. "slave" \in Nodes /\ "master" \in Nodes
    BY <1>2
  <2>. HIDE DEF T
  <2>3. out' \in [Nodes -> T]
    BY <1>3, <2>5, <2>6
  <2>4. out'["slave"] = bytes /\ out'["master"] = out["master"]
    BY <1>3, <2>5, <2>6
  <2>. QED
    BY <2>1, <2>3, <2>4 DEF T
<1>8. /\ pc' \in [Nodes -> {"idle", "transmit", "wait", "held"}]
      /\ pc'["slave"] = "transmit" /\ pc'["master"] = pc["master"]
  BY <1>2, <1>3 DEF TypeInv
<1>9. TypeInv'
  <2>1. \A n \in Nodes : pc'[n] = "transmit" <=> out'[n] # << >>
    BY <1>2, <1>7, <1>8 DEF TypeInv, Nodes
  <2>. QED
    BY <1>2, <1>3, <1>7, <1>8, <2>1, Taken DEF TypeInv
<1>10. /\ Ahead("slave") \in Nat /\ Ahead("slave") >= p + 1
       /\ p >= 3 /\ Ahead("slave")' = Ahead("slave") - p - 1
       /\ p \in Nat
  <2>1. Other("slave") = "master"
    BY DEF Other
  <2>2. p \in Nat
    BY <1>2, Counts
  <2>. QED
    BY <1>2, <1>4, <1>7, <2>1, <2>2, TakenAhead DEF v
<1>. HIDE DEF p
<1>11. Asking /\ pc["master"] \in {"transmit", "wait"}
  BY <1>2, <1>10 DEF IInv, TypeInv, TurnInv, Quiet, Answering, Nodes
<1>12. Ahead("slave")' = 0
  BY <1>10, <1>11 DEF Asking
<1>13. pc["master"] = "wait"
  <2>1. Pos(hbs'["slave"]) \in Nat /\ Len(queue'["slave"]) \in Nat
        /\ Len(out'["master"]) \in Nat
    BY <1>9, PosType DEF TypeInv, Nodes
  <2>2. Ahead("slave")' =
            Pos(hbs'["slave"]) + Len(queue'["slave"]) + Len(out'["master"])
    BY DEF Ahead, Other
  <2>3. Len(out["master"]) = 0
    BY <1>7, <1>12, <2>1, <2>2
  <2>. QED
    BY <1>2, <1>11, <2>3, Counts DEF TypeInv
<1>14. /\ Pos(hbs'["master"]) = 0 /\ Len(queue'["master"]) = 0
  <2>1. hbs'["master"] = hbs["master"] /\ queue'["master"] = queue["master"]
    BY <1>2, Taken DEF Nodes
  <2>2. Pos(hbs["master"]) \in Nat /\ Len(queue["master"]) \in Nat
        /\ Len(out["slave"]) \in Nat
    BY <1>2, Counts
  <2>3. Pos(hbs["master"]) + Len(queue["master"]) + Len(out["slave"]) = 0
    BY <1>11 DEF Asking, Ahead, Other
  <2>. QED
    BY <2>1, <2>2, <2>3
<1>15. Ahead("master")' = 5
  BY <1>6, <1>7, <1>14 DEF Ahead, Other
<1>16. LengthFollows'
  <2>1. 4 - Pos(hbs'["master"]) = 4
    BY <1>14
  <2>2. ~(4 <= Len(queue'["master"])) /\ 4 - Len(queue'["master"]) = 4
    BY <1>14
  <2>. QED
    BY <1>6, <1>7, <2>1, <2>2 DEF LengthFollows
<1>17. Answering'
  BY <1>12, <1>15, <1>16 DEF Answering
<1>18. IInv'
  BY <1>8, <1>9, <1>13, <1>17 DEF IInv, TurnInv
<1>. QED
  BY <1>6, <1>7, <1>13, <1>15, <1>18

(* The master takes a byte of the response; the response's last byte       *)
(* leaves nothing behind.                                                  *)
LEMMA MasterTakes ==
    ASSUME IInv, TakeByte("master"), out' = out,
           shown' \in Octet, master_received_response' \in BOOLEAN
    PROVE  LET v == Head(queue["master"])
           IN  /\ CompletesPacket(hbs["master"], v) => Quiet'
               /\ ~CompletesPacket(hbs["master"], v) => Answering'
<1>. DEFINE v == Head(queue["master"])
            h == hbs["master"]
            p == Pos(h)
            q == queue["master"]
            o == out["slave"]
<1>1. /\ TypeInv /\ "master" \in Nodes /\ "slave" \in Nodes
      /\ Other("master") = "slave" /\ Other("slave") = "master"
      /\ pc["master"] = "wait" /\ q # << >>
  BY DEF IInv, TakeByte, Nodes, Other
<1>2. /\ Ahead("slave")' = Ahead("slave")
      /\ Ahead("master") \in Nat /\ Ahead("master") >= p + 1
      /\ ~CompletesPacket(h, v) =>
            Ahead("master")' = Ahead("master") /\ Pos(hbs'["master"]) = p + 1
      /\ CompletesPacket(h, v) =>
            p >= 3 /\ Ahead("master")' = Ahead("master") - p - 1
      /\ p = 3 /\ v # 0 => ~CompletesPacket(h, v)
  BY <1>1, TakenAhead
<1>3. p \in Nat /\ Len(q) \in Nat /\ Len(o) \in Nat
  BY <1>1, Counts
<1>4. /\ Len(q) \in Nat \ {0} /\ Len(queue'["master"]) = Len(q) - 1
      /\ \A k \in 1 .. Len(queue'["master"]) : queue'["master"][k] = q[k + 1]
      /\ v = q[1]
  BY <1>1, Taken DEF TypeInv
<1>5. Answering
  <2>1. Ahead("master") # 0
    <3>. HIDE DEF p
    <3>. QED
      BY <1>2, <1>3
  <2>. QED
    BY <1>1, <2>1 DEF IInv, TurnInv, Asking
<1>6. ASSUME CompletesPacket(h, v) PROVE Quiet'
  <2>1. Ahead("master") <= 5 /\ Ahead("slave")' = 0
    BY <1>2, <1>5 DEF Answering
  <2>2. ASSUME Ahead("master") = 5, p = 3 PROVE FALSE
    <3>1. LengthFollows
      BY <1>5, <2>2 DEF Answering
    <3>2. 4 - p = 1 /\ 1 <= Len(q)
      BY <1>4, <2>2
    <3>3. q[1] # 0
      BY <3>1, <3>2 DEF LengthFollows
    <3>. QED
      BY <1>2, <1>4, <1>6, <2>2, <3>3
  <2>3. p >= 3 /\ Ahead("master")' = Ahead("master") - p - 1
    BY <1>2, <1>6
  <2>. HIDE DEF p
  <2>4. Ahead("master")' = 0
    BY <1>2, <1>3, <2>1, <2>2, <2>3
  <2>. QED
    BY <2>1, <2>4 DEF Quiet
<1>7. ASSUME ~CompletesPacket(h, v) PROVE Answering'
  <2>1. /\ Ahead("master")' = Ahead("master") /\ Pos(hbs'["master"]) = p + 1
        /\ Ahead("slave")' = 0 /\ Ahead("master") <= 5
    BY <1>2, <1>5, <1>7 DEF Answering
  <2>2. ASSUME Ahead("master") = 5 PROVE LengthFollows'
    <3>. DEFINE k == 4 - p
                j == 4 - (p + 1)
    <3>1. k > 0 => IF k <= Len(q) THEN q[k] # 0 ELSE o[k - Len(q)] # 0
      BY <1>5, <2>2 DEF Answering, LengthFollows
    <3>2. SUFFICES ASSUME j > 0
                   PROVE  IF j <= Len(queue'["master"])
                          THEN queue'["master"][j] # 0
                          ELSE out["slave"][j - Len(queue'["master"])] # 0
      BY <2>1 DEF LengthFollows
    <3>. DEFINE n == Len(q)
                m == Len(queue'["master"])
    <3>3. n \in Nat \ {0} /\ m = n - 1 /\ p \in Nat
      BY <1>3, <1>4
    <3>4. /\ j \in Int /\ k = j + 1 /\ k > 0 /\ k - n = j - m
          /\ j <= m <=> k <= n
          /\ j <= m => j \in 1 .. m
      <4>. HIDE DEF n, m, p
      <4>. QED
        BY <3>2, <3>3
    <3>. HIDE DEF k, j, n, m
    <3>5. CASE j <= m
      <4>1. queue'["master"][j] = q[j + 1]
        BY <1>4, <3>4, <3>5 DEF m
      <4>. QED
        BY <3>1, <3>4, <3>5, <4>1 DEF m, n
    <3>6. CASE ~(j <= m)
      BY <3>1, <3>4, <3>6 DEF m, n
    <3>. QED
      BY <3>5, <3>6 DEF m
  <2>. QED
    BY <2>1, <2>2 DEF Answering
<1>. QED
  BY <1>6, <1>7

LEMMA IgnoreMasterStep == IInv /\ Ignore("master", RESPONSE_CODE) => IInv'
<1>. SUFFICES ASSUME IInv, Ignore("master", RESPONSE_CODE) PROVE IInv'
  OBVIOUS
<1>1. /\ TypeInv /\ TakeByte("master") /\ out' = out /\ pc' = pc
      /\ UNCHANGED <<button, master_received_response, shown, sampled, lost,
                     unsent>>
      /\ "master" \in Nodes /\ pc["master"] = "wait"
  BY DEF Ignore, IInv, Nodes, TakeByte
<1>2. /\ shown' \in Octet /\ master_received_response' \in BOOLEAN
      /\ sampled' \in {0, 1} /\ unsent' \in BOOLEAN
  BY <1>1 DEF TypeInv
<1>3. TypeInv'
  BY <1>1, <1>2, TakenType
<1>4. Quiet' \/ Answering'
  BY <1>1, <1>2, MasterTakes
<1>5. Quiet' => Asking'
  BY DEF Quiet, Asking
<1>. QED
  BY <1>1, <1>3, <1>4, <1>5 DEF IInv, TurnInv

LEMMA ShowStatusStep == IInv /\ ShowStatus => IInv'
<1>. SUFFICES ASSUME IInv, ShowStatus PROVE IInv'
  OBVIOUS
<1>1. /\ TypeInv /\ TakeByte("master") /\ out' = out
      /\ pc' = [pc EXCEPT !["master"] = "held"]
      /\ UNCHANGED <<button, sampled, lost, unsent>>
      /\ master_received_response' = TRUE
      /\ "master" \in Nodes /\ "slave" \in Nodes /\ pc["master"] = "wait"
  BY DEF ShowStatus, IInv, Nodes, TakeByte
<1>2. PICK packet \in Packets("master") :
          shown' \in IF packet.data # << >> THEN {packet.data[1]} ELSE Octet
  BY DEF ShowStatus
<1>3. packet \in Packet /\ CompletesPacket(hbs["master"], Head(queue["master"]))
  BY <1>1, <1>2, Taken, CallsBackType DEF Packets, TypeInv
<1>4. shown' \in Octet
  <2>1. packet.data \in Seq(Octet)
    BY <1>3 DEF Packet
  <2>2. packet.data # << >> => packet.data[1] \in Octet
    BY <2>1
  <2>. QED
    BY <1>2, <2>2
<1>5. Quiet'
  BY <1>1, <1>3, <1>4, MasterTakes
<1>6. /\ pc' \in [Nodes -> {"idle", "transmit", "wait", "held"}]
      /\ pc'["master"] = "held" /\ pc'["slave"] = pc["slave"]
  BY <1>1 DEF TypeInv
<1>7. TypeInv'
  <2>1. \A n \in Nodes : pc'[n] = "transmit" <=> out'[n] # << >>
    BY <1>1, <1>6 DEF TypeInv, Nodes
  <2>. QED
    BY <1>1, <1>4, <1>6, <2>1, Taken DEF TypeInv
<1>. QED
  BY <1>5, <1>6, <1>7 DEF IInv, TurnInv

LEMMA NextStep == IInv /\ [Next]_vars => IInv'
<1>. SUFFICES ASSUME IInv, [Next]_vars PROVE IInv'
  OBVIOUS
<1>1. CASE UNCHANGED vars
  BY <1>1 DEF vars, IInv, TypeInv, TurnInv, Quiet, Asking, Answering,
              LengthFollows, Ahead
<1>2. CASE Request
  BY <1>2, RequestStep
<1>3. CASE Release
  BY <1>3, ReleaseStep
<1>4. CASE Toggle
  BY <1>4, ToggleStep
<1>5. CASE Master
  BY <1>5, IgnoreMasterStep, ShowStatusStep, PutMasterStep DEF Master
<1>6. CASE Slave
  BY <1>6, IgnoreSlaveStep, RespondStep, RespondFails, PutSlaveStep
     DEF Slave
<1>. QED
  BY <1>1, <1>2, <1>3, <1>4, <1>5, <1>6 DEF Next

------------------------------------------------------------------------------

(* Whatever the length of the receive queues, and with or without damaged  *)
(* frames, adi_hbs_Received never waits for a payload byte beyond the      *)
(* length of the packet, and no receive queue is overfilled.               *)
THEOREM TypeCorrect == Spec => []TypeOK
BY InitIInv, NextStep, TypeInvOK, PTL DEF Spec

(* The same for the turns: main.c keeps master and slave from ever being   *)
(* in Transmit together, although neither looks at the bus first.          *)
THEOREM HalfDuplexHolds == Spec => []HalfDuplex
BY InitIInv, NextStep, TurnsOK, PTL DEF Spec

------------------------------------------------------------------------------
(* What the response says.                                                 *)

(* The last byte on its way to the master.                                 *)
LastToMaster ==
    IF out["slave"] # << >> THEN out["slave"][Len(out["slave"])]
    ELSE queue["master"][Len(queue["master"])]

(* Unless a byte was lost, a response is there whole, and what is left of  *)
(* it ends with the status that the slave read for it.                     *)
ResponseWhole ==
    ~lost /\ Ahead("master") # 0 =>
        /\ Ahead("master") = 5
        /\ queue["master"] # << >> \/ out["slave"] # << >> =>
               LastToMaster = sampled

Waiting ==
    pc["master"] \in {"transmit", "wait"} => ~master_received_response

StatusInv == IInv /\ ResponseWhole /\ Waiting /\ StatusCurrent

LEMMA InitStatus == Init => StatusInv
<1>. SUFFICES ASSUME Init PROVE StatusInv
  OBVIOUS
<1>1. IInv /\ pc["master"] = "idle" /\ ~master_received_response
  BY InitIInv DEF Init
<1>2. Ahead("master") = 0
  BY <1>1 DEF IInv, TurnInv, Quiet
<1>. QED
  BY <1>1, <1>2 DEF StatusInv, ResponseWhole, Waiting, StatusCurrent

(* A step that changes nothing of what is on its way to the master.        *)
LEMMA ResponseKept ==
    ASSUME ResponseWhole,
           hbs'["master"] = hbs["master"], queue'["master"] = queue["master"],
           out'["slave"] = out["slave"], sampled' = sampled, lost => lost'
    PROVE  ResponseWhole'
BY DEF ResponseWhole, LastToMaster, Ahead, Other

LEMMA RespondFailsStatus ==
    ASSUME StatusInv, Respond, SendFails("slave")
    PROVE  StatusInv'
<1>1. /\ IInv' /\ Ahead("master")' = 0 /\ pc' = pc
      /\ pc["master"] \in {"transmit", "wait"}
  BY RespondFails DEF StatusInv
<1>2. ~master_received_response'
  BY <1>1 DEF Respond, StatusInv, Waiting
<1>. QED
  BY <1>1, <1>2 DEF StatusInv, ResponseWhole, Waiting, StatusCurrent

LEMMA RespondStatus == StatusInv /\ Respond => StatusInv'
<1>. SUFFICES ASSUME StatusInv, Respond, ~SendFails("slave") PROVE StatusInv'
  BY RespondFailsStatus
<1>1. /\ IInv' /\ pc["master"] = "wait" /\ Ahead("master")' = 5
      /\ Len(out'["slave"]) = 5 /\ out'["slave"][5] = button
  BY RespondStep DEF StatusInv
<1>2. sampled' = button /\ master_received_response' = master_received_response
  BY DEF Respond
<1>3. out'["slave"] # << >>
  <2>1. ASSUME out'["slave"] = << >> PROVE Len(out'["slave"]) = 0
    BY <2>1
  <2>. QED
    BY <1>1, <2>1
<1>4. ResponseWhole'
  BY <1>1, <1>2, <1>3 DEF ResponseWhole, LastToMaster
<1>5. ~master_received_response'
  BY <1>1, <1>2 DEF StatusInv, Waiting
<1>. QED
  BY <1>1, <1>4, <1>5 DEF StatusInv, Waiting, StatusCurrent

LEMMA PutMasterStatus == StatusInv /\ PutByte("master") => StatusInv'
<1>. SUFFICES ASSUME StatusInv, PutByte("master") PROVE StatusInv'
  OBVIOUS
<1>1. /\ out'["slave"] = out["slave"] /\ hbs' = hbs
      /\ queue'["master"] = queue["master"] /\ (lost => lost')
      /\ pc["master"] = "transmit"
  BY Put DEF StatusInv, IInv, Other, Nodes
<1>2. UNCHANGED <<sampled, shown, master_received_response>>
  BY DEF PutByte
<1>3. IInv'
  BY PutMasterStep DEF StatusInv
<1>4. ResponseWhole'
  BY <1>1, <1>2, ResponseKept DEF StatusInv
<1>5. ~master_received_response'
  BY <1>1, <1>2 DEF StatusInv, Waiting
<1>. QED
  BY <1>3, <1>4, <1>5 DEF StatusInv, Waiting, StatusCurrent

LEMMA PutSlaveStatus == StatusInv /\ PutByte("slave") => StatusInv'
<1>. SUFFICES ASSUME StatusInv, PutByte("slave") PROVE StatusInv'
  OBVIOUS
<1>. DEFINE q == queue["master"]
            o == out["slave"]
            p == Pos(hbs["master"])
<1>1. /\ Len(o) \in Nat \ {0}
      /\ Len(out'["slave"]) = Len(o) - 1
      /\ \A k \in 1 .. Len(out'["slave"]) : out'["slave"][k] = o[k + 1]
      /\ pc'["master"] = pc["master"] /\ hbs' = hbs
      /\ \/ queue'["master"] = q /\ lost'
         \/ queue'["master"] = Append(q, o[1])
      /\ lost => lost'
  BY Put DEF StatusInv, IInv, Other, Nodes
<1>2. /\ q \in Seq(Octet) /\ o \in Seq(Octet) /\ out'["slave"] \in Seq(Octet)
      /\ Len(q) \in Nat /\ p \in Nat
  BY PutSlaveStep, Counts DEF StatusInv, IInv, TypeInv, Nodes
<1>3. UNCHANGED <<sampled, shown, master_received_response>>
  BY DEF PutByte
<1>4. IInv'
  BY PutSlaveStep DEF StatusInv
<1>5. ASSUME ~lost' PROVE Ahead("master")' = 5 /\ LastToMaster' = sampled
  <2>1. ~lost /\ queue'["master"] = Append(q, o[1])
    BY <1>1, <1>5
  <2>2. Len(queue'["master"]) = Len(q) + 1 /\ queue'["master"][Len(q) + 1] = o[1]
    BY <1>1, <1>2, <2>1
  <2>3. /\ Ahead("master") = p + Len(q) + Len(o)
        /\ Ahead("master")' = p + Len(queue'["master"]) + Len(out'["slave"])
    BY <1>1 DEF Ahead, Other
  <2>. DEFINE m == Len(q)
              n == Len(o)
  <2>4. /\ m \in Nat /\ n \in Nat \ {0}
        /\ Ahead("master") = p + m + n /\ Ahead("master")' = p + (m + 1) + (n - 1)
    BY <1>1, <1>2, <2>2, <2>3
  <2>5. Ahead("master")' = Ahead("master") /\ Ahead("master") # 0
    <3>. HIDE DEF m, n, p
    <3>. QED
      BY <1>2, <2>4
  <2>6. o # << >>
    <3>1. ASSUME o = << >> PROVE Len(o) = 0
      BY <3>1
    <3>. QED
      BY <1>1, <3>1
  <2>7. Ahead("master") = 5 /\ o[Len(o)] = sampled
    BY <2>1, <2>5, <2>6 DEF StatusInv, ResponseWhole, LastToMaster
  <2>8. LastToMaster' = o[Len(o)]
    <3>1. CASE out'["slave"] = << >>
      <4>1. Len(o) = 1
        BY <1>1, <1>2, <3>1
      <4>2. LastToMaster' = queue'["master"][Len(queue'["master"])]
        BY <3>1 DEF LastToMaster
      <4>. QED
        BY <2>2, <4>1, <4>2
    <3>2. CASE out'["slave"] # << >>
      <4>1. Len(out'["slave"]) # 0
        BY <1>2, <3>2
      <4>. DEFINE l == Len(out'["slave"])
      <4>4. n \in Nat \ {0} /\ l = n - 1 /\ l # 0
        BY <1>1, <4>1
      <4>2. l \in 1 .. l /\ l + 1 = Len(o)
        <5>1. l \in 1 .. l /\ l + 1 = n
          <6>. HIDE DEF l, n
          <6>. QED
            BY <4>4
        <5>. QED
          BY <5>1
      <4>3. LastToMaster' = out'["slave"][Len(out'["slave"])]
        BY <3>2 DEF LastToMaster
      <4>. QED
        BY <1>1, <4>2, <4>3
    <3>. QED
      BY <3>1, <3>2
  <2>. QED
    BY <2>5, <2>7, <2>8
<1>6. ResponseWhole'
  BY <1>3, <1>5 DEF ResponseWhole
<1>7. Waiting' /\ StatusCurrent'
  BY <1>1, <1>3 DEF StatusInv, Waiting, StatusCurrent
<1>. QED
  BY <1>4, <1>6, <1>7 DEF StatusInv

(* The master takes a byte of the response: of a whole one only the last,  *)
(* the status, completes the packet.                                       *)
LEMMA MasterTakesStatus ==
    ASSUME StatusInv, TakeByte("master"), out' = out, sampled' = sampled,
           lost' = lost,
           shown' \in Octet, master_received_response' \in BOOLEAN
    PROVE  LET v == Head(queue["master"])
               h == hbs["master"]
           IN  /\ ResponseWhole'
               /\ CompletesPacket(h, v) /\ ~lost =>
                      h.rx_state = "data" /\ h.data_rxed = 0 /\ v = sampled
<1>. DEFINE v == Head(queue["master"])
            h == hbs["master"]
            p == Pos(h)
            q == queue["master"]
            o == out["slave"]
<1>1. /\ IInv /\ TypeInv /\ "master" \in Nodes /\ "slave" \in Nodes
      /\ Other("master") = "slave" /\ Other("slave") = "master"
      /\ q # << >>
  BY DEF StatusInv, IInv, TakeByte, Nodes, Other
<1>2. /\ Ahead("master") \in Nat /\ Ahead("master") >= p + 1
      /\ ~CompletesPacket(h, v) => Ahead("master")' = Ahead("master")
      /\ CompletesPacket(h, v) =>
            p >= 3 /\ Ahead("master")' = Ahead("master") - p - 1
  BY <1>1, TakenAhead
<1>3. /\ p \in Nat /\ Len(q) \in Nat /\ Len(o) \in Nat
      /\ (Len(o) = 0 <=> o = << >>)
  BY <1>1, Counts
<1>4. /\ Len(q) \in Nat \ {0} /\ Len(queue'["master"]) = Len(q) - 1
      /\ \A k \in 1 .. Len(queue'["master"]) : queue'["master"][k] = q[k + 1]
      /\ v = q[1] /\ queue'["master"] \in Seq(Octet)
  BY <1>1, Taken DEF TypeInv
<1>5. CompletesPacket(h, v) => Ahead("master")' = 0
  BY <1>1, MasterTakes DEF Quiet
<1>6. Ahead("master") # 0
  <2>. HIDE DEF p
  <2>. QED
    BY <1>2, <1>3
<1>7. ASSUME ~lost
      PROVE  Ahead("master") = 5 /\ LastToMaster = sampled
  BY <1>1, <1>6, <1>7 DEF StatusInv, ResponseWhole
<1>8. ASSUME CompletesPacket(h, v), ~lost
      PROVE  h.rx_state = "data" /\ h.data_rxed = 0 /\ v = sampled
  <2>1. /\ Ahead("master") = 5 /\ Ahead("master") - p - 1 = 0
        /\ Ahead("master") = p + Len(q) + Len(o)
    BY <1>2, <1>5, <1>7, <1>8 DEF Ahead, Other
  <2>2. p = 4 /\ Len(q) = 1 /\ Len(o) = 0
    <3>. DEFINE m == Len(q)
                n == Len(o)
    <3>1. /\ 5 - p - 1 = 0 /\ 5 = p + m + n
          /\ p \in Nat /\ m \in Nat \ {0} /\ n \in Nat
      BY <1>3, <1>4, <2>1
    <3>2. p = 4 /\ m = 1 /\ n = 0
      <4>. HIDE DEF p, m, n
      <4>. QED
        BY <3>1
    <3>. QED
      BY <3>2
  <2>3. h.rx_state = "data" /\ h.data_rxed = 0
    <3>1. h \in Parser /\ ParserOK(h)
      BY <1>1 DEF TypeInv
    <3>2. h.rx_state = "data"
      BY <2>2, <3>1, PosType
    <3>3. p = 4 + h.data_rxed /\ h.data_rxed \in Nat
      BY <3>1, <3>2 DEF Pos, Parser, Octet
    <3>. QED
      BY <2>2, <3>2, <3>3
  <2>4. LastToMaster = q[1]
    BY <1>3, <2>2 DEF LastToMaster
  <2>. QED
    BY <1>4, <1>7, <1>8, <2>3, <2>4
<1>9. ASSUME ~CompletesPacket(h, v), ~lost,
             queue'["master"] # << >> \/ o # << >>
      PROVE  LastToMaster' = sampled
  <2>1. CASE o # << >>
    BY <1>7, <1>9, <2>1 DEF LastToMaster
  <2>2. CASE o = << >>
    <3>. DEFINE m == Len(queue'["master"])
                n == Len(q)
    <3>1. m \in Nat /\ m # 0 /\ m = n - 1 /\ n \in Nat \ {0}
      BY <1>4, <1>9, <2>2
    <3>2. m \in 1 .. m /\ m + 1 = n
      <4>. HIDE DEF m, n
      <4>. QED
        BY <3>1
    <3>3. queue'["master"][m] = q[n]
      BY <1>4, <3>2
    <3>4. LastToMaster' = queue'["master"][m] /\ LastToMaster = q[n]
      BY <2>2 DEF LastToMaster
    <3>. QED
      BY <1>7, <1>9, <3>3, <3>4
  <2>. QED
    BY <2>1, <2>2
<1>10. ResponseWhole'
  <2>1. CASE lost
    BY <2>1 DEF ResponseWhole
  <2>2. CASE ~lost /\ CompletesPacket(h, v)
    BY <1>5, <2>2 DEF ResponseWhole
  <2>3. CASE ~lost /\ ~CompletesPacket(h, v)
    BY <1>2, <1>7, <1>9, <2>3 DEF ResponseWhole
  <2>. QED
    BY <2>1, <2>2, <2>3
<1>. QED
  BY <1>8, <1>10

LEMMA IgnoreMasterStatus ==
    StatusInv /\ Ignore("master", RESPONSE_CODE) => StatusInv'
<1>. SUFFICES ASSUME StatusInv, Ignore("master", RESPONSE_CODE)
              PROVE  StatusInv'
  OBVIOUS
<1>1. /\ TakeByte("master") /\ out' = out /\ pc' = pc
      /\ UNCHANGED <<button, master_received_response, shown, sampled, lost>>
  BY DEF Ignore
<1>2. shown' \in Octet /\ master_received_response' \in BOOLEAN
  BY <1>1 DEF StatusInv, IInv, TypeInv
<1>3. ResponseWhole'
  BY <1>1, <1>2, MasterTakesStatus
<1>4. IInv'
  BY IgnoreMasterStep DEF StatusInv
<1>. QED
  BY <1>1, <1>3, <1>4 DEF StatusInv, Waiting, StatusCurrent

(* The first byte of a payload is data[0] from then on.                    *)
LEMMA FirstStored ==
    ASSUME NEW h, ParserOK(h), h.rx_state = "data", h.data_rxed = 0,
           NEW value \in Octet
    PROVE  LET data == Stored(h, value).rx_packet.data
           IN  data # << >> /\ data[1] = value
<1>. DEFINE old == h.rx_packet.data
            d == WriteAt(old, 0, value)
            k == ToOctet(0 + 1)
<1>1. old \in Seq(Octet) /\ h \in Parser /\ h.rx_packet \in Packet
  BY DEF ParserOK, Parser, Packet
<1>2. Stored(h, value) = [h EXCEPT !.rx_packet.data = d, !.data_rxed = k]
  BY DEF Stored
<1>3. Stored(h, value).rx_packet.data = d
  <2>. HIDE DEF d, k
  <2>. QED
    BY <1>1, <1>2 DEF Parser, Packet
<1>4. CASE 0 < Len(old)
  <2>1. d = [old EXCEPT ![1] = value] /\ 1 \in DOMAIN old
    BY <1>1, <1>4 DEF WriteAt
  <2>2. d[1] = value /\ DOMAIN d = DOMAIN old
    BY <2>1
  <2>3. d # << >>
    BY <2>1, <2>2
  <2>. QED
    BY <1>3, <2>2, <2>3
<1>5. CASE ~(0 < Len(old))
  <2>1. old = << >> /\ d = Append(old, value)
    BY <1>1, <1>5 DEF WriteAt
  <2>2. d = <<value>>
    BY <2>1
  <2>. QED
    BY <1>3, <2>2
<1>. QED
  BY <1>4, <1>5

LEMMA ShowStatusStatus == StatusInv /\ ShowStatus => StatusInv'
<1>. SUFFICES ASSUME StatusInv, ShowStatus PROVE StatusInv'
  OBVIOUS
<1>. DEFINE v == Head(queue["master"])
            h == hbs["master"]
<1>1. /\ IInv' /\ IInv /\ TypeInv /\ TakeByte("master") /\ out' = out
      /\ UNCHANGED <<button, sampled, lost>>
      /\ master_received_response' = TRUE
      /\ "master" \in Nodes /\ pc' = [pc EXCEPT !["master"] = "held"]
  BY ShowStatusStep DEF StatusInv, IInv, ShowStatus, Nodes
<1>2. pc'["master"] = "held" /\ shown' \in Octet
  BY <1>1 DEF IInv, TypeInv
<1>3. PICK packet \in Packets("master") :
          shown' \in IF packet.data # << >> THEN {packet.data[1]} ELSE Octet
  BY DEF ShowStatus
<1>4. /\ packet = Stored(h, v).rx_packet /\ CompletesPacket(h, v)
      /\ v \in Octet /\ ParserOK(h)
  BY <1>1, <1>3, Taken DEF Packets, CallsBack, PacketFor, TypeInv
<1>5. /\ ResponseWhole'
      /\ ~lost => h.rx_state = "data" /\ h.data_rxed = 0 /\ v = sampled
  BY <1>1, <1>2, <1>4, MasterTakesStatus
<1>6. StatusCurrent'
  <2>1. SUFFICES ASSUME ~lost PROVE shown' = sampled
    BY <1>1 DEF StatusCurrent
  <2>2. packet.data # << >> /\ packet.data[1] = v
    BY <1>4, <1>5, <2>1, FirstStored
  <2>. QED
    BY <1>3, <1>5, <2>1, <2>2
<1>7. Waiting'
  BY <1>2 DEF Waiting
<1>. QED
  BY <1>1, <1>5, <1>6, <1>7 DEF StatusInv

LEMMA NextStatus == StatusInv /\ [Next]_vars => StatusInv'
<1>. SUFFICES ASSUME StatusInv, [Next]_vars PROVE StatusInv'
  OBVIOUS
<1>1. IInv'
  BY NextStep DEF StatusInv
<1>2. CASE UNCHANGED vars
  <2>1. ResponseWhole'
    BY <1>2, ResponseKept DEF vars, StatusInv
  <2>. QED
    BY <1>1, <1>2, <2>1 DEF vars, StatusInv, Waiting, StatusCurrent
<1>3. CASE Request
  <2>1. /\ pc["master"] = "idle" /\ master_received_response' = FALSE
        /\ hbs' = hbs /\ queue' = queue /\ UNCHANGED <<sampled, lost>>
        /\ out'["slave"] = out["slave"]
    BY <1>3 DEF Request, Send, BeginSend, SendFails, StatusInv, IInv, TypeInv,
                Nodes
  <2>2. ResponseWhole'
    BY <2>1, ResponseKept DEF StatusInv
  <2>. QED
    BY <1>1, <2>1, <2>2 DEF StatusInv, Waiting, StatusCurrent
<1>4. CASE Release
  <2>1. /\ pc'["master"] = "idle"
        /\ UNCHANGED <<hbs, queue, out, shown, sampled, lost,
                       master_received_response>>
    BY <1>4 DEF Release, StatusInv, IInv, TypeInv, Nodes
  <2>2. ResponseWhole'
    BY <2>1, ResponseKept DEF StatusInv
  <2>. QED
    BY <1>1, <2>1, <2>2 DEF StatusInv, Waiting, StatusCurrent
<1>5. CASE Toggle
  <2>1. UNCHANGED <<pc, hbs, queue, out, shown, sampled, lost,
                    master_received_response>>
    BY <1>5 DEF Toggle
  <2>2. ResponseWhole'
    BY <2>1, ResponseKept DEF StatusInv
  <2>. QED
    BY <1>1, <2>1, <2>2 DEF StatusInv, Waiting, StatusCurrent
<1>6. CASE Ignore("slave", REQUEST_CODE)
  <2>1. /\ UNCHANGED <<pc, out, shown, sampled, lost, master_received_response>>
        /\ TakeByte("slave")
    BY <1>6 DEF Ignore
  <2>2. hbs'["master"] = hbs["master"] /\ queue'["master"] = queue["master"]
    BY <2>1, Taken DEF StatusInv, IInv, Nodes
  <2>3. ResponseWhole'
    BY <2>1, <2>2, ResponseKept DEF StatusInv
  <2>. QED
    BY <1>1, <2>1, <2>3 DEF StatusInv, Waiting, StatusCurrent
<1>7. CASE Master
  BY <1>7, IgnoreMasterStatus, ShowStatusStatus, PutMasterStatus DEF Master
<1>8. CASE Respond \/ PutByte("slave")
  BY <1>8, RespondStatus, PutSlaveStatus
<1>. QED
  BY <1>2, <1>3, <1>4, <1>5, <1>6, <1>7, <1>8 DEF Next, Slave

(* What the master shows after slavecb and mastercb is what the slave read *)
(* when it answered, unless a byte was lost: data[0] of the packet, which  *)
(* is neither cleared nor checked for, is that of the response.            *)
THEOREM StatusIsCurrent == Spec => []StatusCurrent
<1>1. StatusInv => StatusCurrent
  BY DEF StatusInv
<1>. QED
  BY InitStatus, NextStatus, <1>1, PTL DEF Spec

==============================================================================
