------------------------------ MODULE PacketBus ------------------------------
(***************************************************************************)
(* Nodes that exchange packets over one bus, each with homebus.c on top of *)
(* a driver and a main loop that passes every received byte on.  A node is *)
(* known by its address.                                                   *)
(*                                                                         *)
(* The drivers are half-duplex ports, as BitbangDriver implements them: a  *)
(* byte on the bus arrives in the receive queue of every other node, and   *)
(* is lost when that queue is full.  The applications share the bus: one   *)
(* sends only while no other does.  (In the example the exchange of        *)
(* request and response sees to that: TwoNodes.)                           *)
(***************************************************************************)
EXTENDS Homebus, SequencesExt

CONSTANTS
    Nodes,            \* the addresses in use
    RxLen,            \* rx_buffer_len
    Operations,       \* the operation codes in use
    Contents,         \* the bytes that payloads are made of
    LongestPayload,   \* the longest payload that is sent
    MaxPackets        \* bound: packets sent

ASSUME NodesAssumption == Nodes \subseteq Octet
ASSUME PayloadAssumption ==
    /\ Operations \subseteq Octet /\ Contents \subseteq Octet
    /\ LongestPayload \in Nat
ASSUME QueueAssumption == RxLen \in Nat \ {0} /\ MaxPackets \in Nat

VARIABLES
    hbs,       \* each node's adi_hbs_t
    queue,     \* its receive queue
    out,       \* the bytes that the Transmit in progress has still to send
    sender,    \* the node in Transmit, if any
    sent,      \* history: the packets that were sent to each node
    handled,   \* history: the packets its callback was called with
    packets,   \* how many were sent in all
    lost       \* history: a byte has been lost

vars == <<hbs, queue, out, sender, sent, handled, packets, lost>>

Nobody == -1

Payloads == UNION {[1 .. k -> Contents] : k \in 0 .. LongestPayload}

Init ==
    /\ hbs = [n \in Nodes |-> hbs_Init(n)]
    /\ queue = [n \in Nodes |-> << >>] /\ sent = queue /\ handled = queue
    /\ out = << >> /\ sender = Nobody
    /\ packets = 0 /\ lost = FALSE

------------------------------------------------------------------------------

RegisterRxCb(n) ==
    /\ sender # n
    /\ hbs' = [hbs EXCEPT ![n] = hbs_RegisterRxCb(@)]
    /\ UNCHANGED <<queue, out, sender, sent, handled, packets, lost>>

(* adi_hbs_Send, from the main loop or from a callback, up to the driver's *)
(* Transmit.  One that fails there sends nothing and changes nothing.      *)
Send(n, dest, opcode, data) ==
    /\ sender = Nobody /\ packets < MaxPackets
    /\ sender' = n
    /\ out' = hbs_Send(hbs[n].self_addr, dest, opcode, data)
    /\ packets' = packets + 1
    /\ sent' = [m \in Nodes |->
                   IF m = dest /\ m # n
                   THEN Append(sent[m], [self_addr |-> n, dest_addr |-> dest,
                                         operation |-> opcode, data |-> data])
                   ELSE sent[m]]
    /\ UNCHANGED <<hbs, queue, handled, lost>>

Hears(m) == m # sender /\ Len(queue[m]) < RxLen

(* One byte of the Transmit; the last one ends it.                         *)
PutByte ==
    /\ out # << >>
    /\ out' = Tail(out)
    /\ sender' = IF out' = << >> THEN Nobody ELSE sender
    /\ queue' = [m \in Nodes |->
                    IF Hears(m) THEN Append(queue[m], Head(out)) ELSE queue[m]]
    /\ lost' = (lost \/ \E m \in Nodes : m # sender /\ ~Hears(m))
    /\ UNCHANGED <<hbs, sent, handled, packets>>

(* The packet a callback sees: of data, what len says there is.            *)
Seen(packet) ==
    [self_addr |-> packet.self_addr, dest_addr |-> packet.dest_addr,
     operation |-> packet.operation,
     data |-> SubSeq(packet.data, 1, packet.len)]

SeenIn(set) == SetToSeq({Seen(packet) : packet \in set})

(* IsAvailable, Read and adi_hbs_Received, the callback included.          *)
TakeByte(n) ==
    /\ sender # n /\ queue[n] # << >>
    /\ LET value == Head(queue[n]) IN
       /\ hbs' = [hbs EXCEPT ![n] = hbs_Received(@, value)]
       /\ handled' = [handled EXCEPT ![n] = @ \o SeenIn(CallsBack(hbs[n], value))]
    /\ queue' = [queue EXCEPT ![n] = Tail(@)]
    /\ UNCHANGED <<out, sender, sent, packets, lost>>

SendSome(n) ==
    \E dest \in Octet, opcode \in Operations, data \in Payloads :
        Send(n, dest, opcode, data)

Next ==
    \/ PutByte
    \/ \E n \in Nodes : RegisterRxCb(n) \/ SendSome(n) \/ TakeByte(n)

Spec == Init /\ [][Next]_vars

(* A Transmit goes on, and every main loop keeps taking bytes.             *)
FairSpec == Spec /\ WF_vars(PutByte) /\ \A n \in Nodes : WF_vars(TakeByte(n))

------------------------------------------------------------------------------

(* The types; a payload byte is only stored below the length, and so       *)
(* inside the array.                                                       *)
TypeOK ==
    /\ \A n \in Nodes :
         /\ hbs[n].rx_packet \in Packet /\ hbs[n].rx_state \in RxStates
         /\ IF hbs[n].rx_state = "data"
            THEN hbs[n].data_rxed < hbs[n].rx_packet.len
            ELSE hbs[n].data_rxed = 0
         /\ Len(hbs[n].rx_packet.data) <= HBS_MAX_DATA_LEN
         /\ hbs[n].unhandled_pkt_cnt \in Nat
         /\ queue[n] \in Seq(Octet) /\ Len(queue[n]) <= RxLen
    /\ sender \in Nodes \cup {Nobody} /\ (sender = Nobody <=> out = << >>)
    /\ out \in Seq(Octet)

(* How many packets node n has handled or counted.                         *)
Served(n) == Len(handled[n]) + hbs[n].unhandled_pkt_cnt

Channel == INSTANCE PacketChannel WITH
    Packets    <- LAMBDA n :
                    [self_addr : {n}, dest_addr : Octet,
                     operation : Operations, data : Payloads],
    upcoming   <- [n \in Nodes |->
                      SubSeq(sent[n], Served(n) + 1, Len(sent[n]))],
    unhandled  <- [n \in Nodes |-> hbs[n].unhandled_pkt_cnt],
    registered <- [n \in Nodes |-> hbs[n].user_cb],
    intact     <- ~lost

(* The byte-wise parsers implement the packet channel: every node cuts the *)
(* bytes where the sender cut them, whatever the payload, to whomever the  *)
(* packet goes and however full the queues are.                            *)
ChannelSpec == Channel!Spec

(* In the end every packet that was sent to a node has been handled or     *)
(* counted there, unless a byte was lost.                                  *)
EveryPacketServed ==
    <>[](lost \/ \A n \in Nodes : Served(n) = Len(sent[n]))

==============================================================================
