------------------------------- MODULE Homebus -------------------------------
(***************************************************************************)
(* homebus.c: the packet layer of the example.  Like the receive state     *)
(* machine, its functions are operators on a record, the adi_hbs_t.        *)
(***************************************************************************)
EXTENDS Integers, Sequences

CONSTANT HBS_MAX_DATA_LEN   \* 255: also the largest value of a uint8_t

ASSUME DataLenAssumption == HBS_MAX_DATA_LEN \in Nat \ {0}

Octet == 0 .. HBS_MAX_DATA_LEN

(* Conversion to uint8_t.                                                  *)
ToOctet(n) == n % (HBS_MAX_DATA_LEN + 1)

HBS_HEADER_SIZE == 4

(* Mutant of hbs_Send: the length byte counts the header too.              *)
hbs_SendWholeLength(self, dest, opcode, data) ==
    <<self, dest, opcode, ToOctet(HBS_HEADER_SIZE + Len(data))>> \o data

(* What adi_hbs_Send hands to the driver: the header, whose length byte is *)
(* what a uint8_t keeps of the length, and the whole payload.              *)
hbs_Send(self, dest, opcode, data) ==
    <<self, dest, opcode, ToOctet(Len(data))>> \o data

(* hbs_rx_state_machine_e: the header field that is waited for, or DATA.   *)
RxStates == {"self_addr", "dest_addr", "operation", "len", "data"}

FollowingState ==
    [self_addr |-> "dest_addr", dest_addr |-> "operation",
     operation |-> "len", len |-> "data", data |-> "data"]

(* The payload holds what was ever written to it, from index 0 on; beyond  *)
(* that its bytes are indeterminate.                                       *)
Packet == [self_addr : Octet, dest_addr : Octet, operation : Octet,
           len : Octet, data : Seq(Octet)]

(* adi_hbs_Init leaves the packet and user_cb as they are: zero in a       *)
(* context that was cleared.  user_cb is whether there is a callback.      *)
hbs_Init(addr) ==
    [self_addr |-> addr, user_cb |-> FALSE, rx_state |-> "self_addr",
     data_rxed |-> 0, unhandled_pkt_cnt |-> 0,
     rx_packet |-> [self_addr |-> 0, dest_addr |-> 0, operation |-> 0,
                    len |-> 0, data |-> << >>]]

hbs_RegisterRxCb(h) == [h EXCEPT !.user_cb = TRUE]

(* Mutant of reset_rxing_state: the count of payload bytes is kept.        *)
reset_rxing_stateKept(h) == [h EXCEPT !.rx_state = "self_addr"]

reset_rxing_state(h) ==
    [h EXCEPT !.rx_state = "self_addr", !.data_rxed = 0]

WriteAt(data, i, value) ==
    IF i < Len(data) THEN [data EXCEPT ![i + 1] = value] ELSE Append(data, value)

(* The assignment that each state of the switch begins with.               *)
Stored(h, value) ==
    IF h.rx_state = "data"
    THEN [h EXCEPT !.rx_packet.data = WriteAt(@, h.data_rxed, value),
                   !.data_rxed = ToOctet(@ + 1)]
    ELSE [h EXCEPT !.rx_packet[h.rx_state] = value]

(* Mutant of CompletesPacket: the count is compared before it is advanced. *)
CompletesPacketLate(h, value) ==
    \/ h.rx_state = "len"  /\ value = 0
    \/ h.rx_state = "data" /\ h.data_rxed = h.rx_packet.len

CompletesPacket(h, value) ==
    \/ h.rx_state = "len"  /\ value = 0
    \/ h.rx_state = "data" /\ ToOctet(h.data_rxed + 1) = h.rx_packet.len

(* process_packet: the packet that is for this node, if it is completed.   *)
PacketFor(h, value) ==
    LET packet == Stored(h, value).rx_packet
    IN  IF CompletesPacket(h, value) /\ packet.dest_addr = h.self_addr
        THEN {packet} ELSE {}

(* Mutant of CallsBack: the callback gets the packet before it is stored.  *)
CallsBackEarly(h, value) ==
    IF h.user_cb /\ PacketFor(h, value) # {} THEN {h.rx_packet} ELSE {}

(* hbs_invoke_callback: the packet user_cb is called with, if it is.       *)
CallsBack(h, value) == IF h.user_cb THEN PacketFor(h, value) ELSE {}

(* hbs_invoke_callback without a callback.                                 *)
Counted(h, value) ==
    IF ~h.user_cb /\ PacketFor(h, value) # {}
    THEN [h EXCEPT !.unhandled_pkt_cnt = @ + 1] ELSE h

(* The state machine after adi_hbs_Received.                               *)
hbs_Received(h, value) ==
    IF CompletesPacket(h, value)
    THEN reset_rxing_state(Stored(Counted(h, value), value))
    ELSE [Stored(h, value) EXCEPT !.rx_state = FollowingState[@]]

==============================================================================
