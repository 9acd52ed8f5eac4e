---------------------------- MODULE PacketChannel ----------------------------
(***************************************************************************)
(* What the packet layer promises the applications of a bus, as long as no *)
(* byte is lost: a packet that is sent to a node reaches that node's       *)
(* callback, or is counted by a node without one, whole, once and in the   *)
(* order of sending, and reaches no other node.                            *)
(***************************************************************************)
EXTENDS Integers, Sequences

CONSTANTS Nodes, Packets(_)    \* Packets(n): what node n may send

VARIABLES
    upcoming,     \* the packets on their way to each node
    handled,      \* those its callback was called with
    unhandled,    \* how many came while it had no callback
    registered,   \* it has a callback
    intact        \* no byte has been lost

vars == <<upcoming, handled, unhandled, registered, intact>>

Init ==
    /\ upcoming = [n \in Nodes |-> << >>] /\ handled = upcoming
    /\ unhandled = [n \in Nodes |-> 0]
    /\ registered = [n \in Nodes |-> FALSE]
    /\ intact = TRUE

(* To whoever has the address; a node does not hear itself.                *)
Send(n) ==
    /\ \E packet \in Packets(n) :
         upcoming' = [m \in Nodes |-> IF m = packet.dest_addr /\ m # n
                                      THEN Append(upcoming[m], packet)
                                      ELSE upcoming[m]]
    /\ UNCHANGED <<handled, unhandled, registered, intact>>

Handle(n) ==
    /\ upcoming[n] # << >>
    /\ upcoming' = [upcoming EXCEPT ![n] = Tail(@)]
    /\ IF registered[n]
       THEN /\ handled' = [handled EXCEPT ![n] = Append(@, Head(upcoming[n]))]
            /\ UNCHANGED unhandled
       ELSE /\ unhandled' = [unhandled EXCEPT ![n] = @ + 1]
            /\ UNCHANGED handled
    /\ UNCHANGED <<registered, intact>>

Register(n) ==
    /\ registered' = [registered EXCEPT ![n] = TRUE]
    /\ UNCHANGED <<upcoming, handled, unhandled, intact>>

(* After a loss nothing is promised: there is no resynchronisation.        *)
Lose == ~intact'

Next == Lose \/ \E n \in Nodes : Send(n) \/ Handle(n) \/ Register(n)

Spec == Init /\ [][Next]_vars

==============================================================================
