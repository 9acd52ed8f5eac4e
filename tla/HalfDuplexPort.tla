--------------------------- MODULE HalfDuplexPort ---------------------------
(***************************************************************************)
(* What the driver promises to the layer above while that layer keeps the  *)
(* bus half-duplex: a port that listens, receives one byte or sends one    *)
(* message at a time.  What is sent is the frames of the message, one      *)
(* after the other; a byte that arrives is put at the end of a queue of    *)
(* fixed capacity or, damaged or without room, dropped; none that was      *)
(* queued is lost, changed or overtaken.                                   *)
(***************************************************************************)
EXTENDS Framing, Sequences

CONSTANT Capacity

VARIABLES
    mode,       \* "listen", "receive" or "send"
    message,    \* the bytes being sent, or sent last
    sent,       \* the frames of it that are on the wire
    inbox       \* received bytes not yet read

vars == <<mode, message, sent, inbox>>

Init ==
    /\ mode = "listen"
    /\ message = << >> /\ sent = << >> /\ inbox = << >>

BeginReceive ==
    /\ mode = "listen" /\ mode' = "receive"
    /\ UNCHANGED <<message, sent, inbox>>

EndReceive ==
    /\ mode = "receive" /\ mode' = "listen"
    /\ \/ UNCHANGED inbox
       \/ /\ Len(inbox) < Capacity
          /\ \E b \in Byte : inbox' = Append(inbox, b)
    /\ UNCHANGED <<message, sent>>

BeginSend ==
    /\ mode = "listen" /\ mode' = "send"
    /\ message' \in Seq(Byte) /\ message' # << >>
    /\ sent' = << >>
    /\ UNCHANGED inbox

SendFrame ==
    /\ mode = "send" /\ Len(sent) < Len(message)
    /\ sent' = Append(sent, format_byte_for_hbs_tx(message[Len(sent) + 1]))
    /\ UNCHANGED <<mode, message, inbox>>

(* All or, when there was no memory for it, nothing.                       *)
EndSend ==
    /\ mode = "send" /\ mode' = "listen"
    /\ Len(sent) \in {0, Len(message)}
    /\ UNCHANGED <<message, sent, inbox>>

Take ==
    /\ mode # "send" /\ inbox # << >>
    /\ inbox' \in {Tail(inbox), << >>}
    /\ UNCHANGED <<mode, message, sent>>

Next == \/ BeginReceive \/ EndReceive
        \/ BeginSend \/ SendFrame \/ EndSend
        \/ Take

Spec == Init /\ [][Next]_vars

==============================================================================
