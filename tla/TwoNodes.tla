------------------------------ MODULE TwoNodes ------------------------------
(***************************************************************************)
(* The example application: a master that asks for the state of the        *)
(* slave's push button, and the slave, each with the packet layer on top   *)
(* of a driver.  The drivers are the half-duplex ports that BitbangDriver  *)
(* implements: a byte put on the bus arrives in the other node's receive   *)
(* queue, unless that queue is full, the other node is in Transmit itself, *)
(* or the frame is damaged and dropped for it.  That a frame with damaged  *)
(* data bits is delivered as another byte is not modelled here: what holds *)
(* "unless a byte was lost" is only claimed of damage that is noticed.     *)
(*                                                                         *)
(* Transmit returns with its last byte: the receiver, which prints the     *)
(* packet before it answers, is slower than the sender's last half-bit.    *)
(***************************************************************************)
EXTENDS Homebus

CONSTANTS
    RxLen,     \* MAX22X88_RX_FIFO_LEN
    Lossy      \* frames may be damaged

ASSUME RxLenAssumption == RxLen \in Nat \ {0}
ASSUME LossyAssumption == Lossy \in BOOLEAN

VARIABLES
    pc,          \* "transmit", "wait" (for bytes); the master's button:
                 \* "idle" (to be pressed), "held" (to be released)
    hbs,         \* each node's adi_hbs_t
    queue,       \* its receive queue
    out,         \* the bytes its Transmit has still to put on the bus
    button,      \* the slave's button
    master_received_response,
    shown,       \* the status the master shows
    sampled,     \* history: the status the slave read last
    lost,        \* history: a byte has been lost
    unsent       \* history: a Transmit has failed

vars == <<pc, hbs, queue, out, button, master_received_response, shown,
          sampled, lost, unsent>>

Nodes == {"master", "slave"}

Other(n) == IF n = "master" THEN "slave" ELSE "master"

ADDRESS == [master |-> 16, slave |-> 0]

REQUEST_CODE  == 42
RESPONSE_CODE == 90

(* These constants and the addresses are octets.                           *)
ASSUME CodesAssumption == HBS_MAX_DATA_LEN >= RESPONSE_CODE

Init ==
    /\ pc = [master |-> "idle", slave |-> "wait"]
    /\ hbs = [n \in Nodes |-> hbs_RegisterRxCb(hbs_Init(ADDRESS[n]))]
    /\ queue = [n \in Nodes |-> << >>]
    /\ out = [n \in Nodes |-> << >>]
    /\ button \in {0, 1}
    /\ master_received_response = FALSE
    /\ shown = 0 /\ sampled = 0
    /\ lost = FALSE /\ unsent = FALSE

------------------------------------------------------------------------------
(* adi_hbs_Send by way of adi_hbs_TxCbMax22x88: Transmit begins.           *)
BeginSend(n, dest, opcode, data) ==
    /\ out' = [out EXCEPT ![n] = hbs_Send(ADDRESS[n], dest, opcode, data)]
    /\ pc' = [pc EXCEPT ![n] = "transmit"]
    /\ UNCHANGED unsent

(* Transmit finds no memory.  Nothing is put on the bus, adi_hbs_Send      *)
(* returns the error, and both callers ignore it.                          *)
SendFails(n) ==
    /\ unsent' = TRUE
    /\ pc' = [pc EXCEPT ![n] = "wait"]
    /\ UNCHANGED out

Send(n, dest, opcode, data) ==
    BeginSend(n, dest, opcode, data) \/ SendFails(n)

(* Mutant of Request: the master does not wait for the response.           *)
RequestWithoutWaiting ==
    /\ pc["master"] \in {"idle", "wait"}
    /\ master_received_response' = FALSE
    /\ Send("master", ADDRESS["slave"], REQUEST_CODE, << >>)
    /\ UNCHANGED <<hbs, queue, button, shown, sampled, lost>>

(* The master's button is pressed.                                         *)
Request ==
    /\ pc["master"] = "idle"
    /\ master_received_response' = FALSE
    /\ Send("master", ADDRESS["slave"], REQUEST_CODE, << >>)
    /\ UNCHANGED <<hbs, queue, button, shown, sampled, lost>>

Hears(n) == pc[n] # "transmit" /\ Len(queue[n]) < RxLen

(* One byte of a Transmit; the last one ends it.                           *)
PutByte(n) ==
    /\ pc[n] = "transmit" /\ out[n] # << >>
    /\ out' = [out EXCEPT ![n] = Tail(@)]
    /\ pc' = [pc EXCEPT ![n] = IF Len(out[n]) = 1 THEN "wait" ELSE @]
    /\ \E arrives \in {Hears(Other(n)), Hears(Other(n)) /\ ~Lossy} :
         /\ queue' = IF arrives
                     THEN [queue EXCEPT ![Other(n)] = Append(@, Head(out[n]))]
                     ELSE queue
         /\ lost' = (lost \/ ~arrives)
    /\ UNCHANGED <<hbs, button, master_received_response, shown, sampled,
                   unsent>>

(* The slave's button is pressed or released.                              *)
Toggle ==
    /\ button' = 1 - button
    /\ UNCHANGED <<pc, hbs, queue, out, master_received_response, shown,
                   sampled, lost, unsent>>

(* IsAvailable, Read and adi_hbs_Received, up to the callback.             *)
TakeByte(n) ==
    /\ pc[n] = "wait" /\ queue[n] # << >>
    /\ queue' = [queue EXCEPT ![n] = Tail(@)]
    /\ hbs' = [hbs EXCEPT ![n] = hbs_Received(@, Head(queue[n]))]

Packets(n) == CallsBack(hbs[n], Head(queue[n]))

(* The packet has another operation code, or there is none yet.            *)
Ignore(n, code) ==
    /\ TakeByte(n)
    /\ \A packet \in Packets(n) : packet.operation # code
    /\ UNCHANGED <<pc, out, button, master_received_response, shown, sampled,
                   lost, unsent>>

(* slavecb: the response goes to whoever sent the request.                 *)
Respond ==
    /\ TakeByte("slave")
    /\ \E packet \in Packets("slave") :
         /\ packet.operation = REQUEST_CODE
         /\ Send("slave", packet.self_addr, RESPONSE_CODE, <<button>>)
    /\ sampled' = button
    /\ UNCHANGED <<button, master_received_response, shown, lost>>

(* mastercb: data[0] is read whatever the packet's length is.              *)
ShowStatus ==
    /\ TakeByte("master")
    /\ \E packet \in Packets("master") :
         /\ packet.operation = RESPONSE_CODE
         /\ shown' \in IF packet.data # << >> THEN {packet.data[1]} ELSE Octet
    /\ master_received_response' = TRUE
    /\ pc' = [pc EXCEPT !["master"] = "held"]
    /\ UNCHANGED <<out, button, sampled, lost, unsent>>

(* The master's button is released.                                        *)
Release ==
    /\ pc["master"] = "held"
    /\ pc' = [pc EXCEPT !["master"] = "idle"]
    /\ UNCHANGED <<hbs, queue, out, button, master_received_response, shown,
                   sampled, lost, unsent>>

Master == Ignore("master", RESPONSE_CODE) \/ ShowStatus \/ PutByte("master")

Slave == Ignore("slave", REQUEST_CODE) \/ Respond \/ PutByte("slave")

Next == Request \/ Release \/ Toggle \/ Master \/ Slave

Spec == Init /\ [][Next]_vars

(* Both main loops keep running; the user need not press a button.         *)
FairSpec == Spec /\ WF_vars(Master) /\ WF_vars(Slave)

------------------------------------------------------------------------------

(* The types; a payload byte is only waited for while one is missing, so   *)
(* that the index stays below the length.                                  *)
TypeOK ==
    /\ pc \in [Nodes -> {"idle", "transmit", "wait", "held"}]
    /\ \A n \in Nodes :
         /\ hbs[n].rx_packet \in Packet
         /\ hbs[n].rx_state \in RxStates
         /\ IF hbs[n].rx_state = "data"
            THEN hbs[n].data_rxed < hbs[n].rx_packet.len
            ELSE hbs[n].data_rxed = 0
         /\ queue[n] \in Seq(Octet) /\ Len(queue[n]) <= RxLen
         /\ out[n] \in Seq(Octet)
    /\ button \in {0, 1} /\ shown \in Octet /\ sampled \in {0, 1}
    /\ master_received_response \in BOOLEAN
    /\ lost \in BOOLEAN /\ unsent \in BOOLEAN

(* The application keeps the bus half-duplex without any arbitration, also *)
(* when bytes get lost: the slave only answers, and the master does not    *)
(* ask again before it is answered.  (What BitbangDriver calls Arbitrated.)*)
HalfDuplex == ~(pc["master"] = "transmit" /\ pc["slave"] = "transmit")

(* What the master shows is what the slave read for this request, unless   *)
(* a byte was lost.                                                        *)
StatusCurrent ==
    master_received_response /\ ~lost => shown = sampled

(* A request is answered, unless a Transmit failed or a byte was lost: the *)
(* parsers of both nodes are back at the start of a packet after every     *)
(* exchange.                                                               *)
Answered ==
    pc["master"] \in {"transmit", "wait"} ~>
        pc["master"] = "held" \/ lost \/ unsent

==============================================================================
