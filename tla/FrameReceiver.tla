---------------------------- MODULE FrameReceiver ----------------------------
(***************************************************************************)
(* What the receive state machine promises, with none of its counters:     *)
(* between a start bit's edge and the last half-bit it only remembers the  *)
(* levels it was handed, and the last one yields the byte and the error    *)
(* flags as a function of those levels.                                    *)
(*                                                                         *)
(* Decode says what the code computes: the levels of the parity and of the *)
(* stop bit do not enter it.                                               *)
(***************************************************************************)
EXTENDS Framing

CONSTANT NoVerdict    \* before the first frame has completed

VARIABLES
    receiving,    \* a frame is in progress
    count,        \* half-bits of it sampled so far
    levels,       \* their levels, by position
    verdict       \* the result of the last complete frame, or NoVerdict

vars == <<receiving, count, levels, verdict>>

Positions == 0 .. HalfBits - 1

Decode(l) ==
    [data        |-> {i \in 0 .. DataBits - 1 : l[2 * (i + 1)]},
     error_flags |-> {e \in {"START_BIT_SAMPLE", "OFFDUTY_SAMPLE"} :
                        \/ e = "START_BIT_SAMPLE" /\ l[0]
                        \/ /\ e = "OFFDUTY_SAMPLE"
                           /\ \E p \in Positions : p % 2 = 1 /\ ~l[p]}]

Init ==
    /\ receiving = FALSE
    /\ count = 0
    /\ levels = [p \in Positions |-> FALSE]
    /\ verdict = NoVerdict

Begin ==
    /\ ~receiving
    /\ receiving' = TRUE
    /\ count' = 0
    /\ UNCHANGED <<levels, verdict>>

Hear(bit) ==
    /\ receiving
    /\ count + 1 < HalfBits
    /\ levels' = [levels EXCEPT ![count] = bit]
    /\ count' = count + 1
    /\ UNCHANGED <<receiving, verdict>>

HearLast(bit) ==
    /\ receiving
    /\ count + 1 = HalfBits
    /\ levels' = [levels EXCEPT ![count] = bit]
    /\ count' = 0
    /\ receiving' = FALSE
    /\ verdict' = Decode(levels')

Next ==
    \/ Begin
    \/ \E bit \in BOOLEAN : Hear(bit) \/ HearLast(bit)

Spec == Init /\ [][Next]_vars

==============================================================================
