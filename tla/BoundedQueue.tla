---------------------------- MODULE BoundedQueue ----------------------------
(***************************************************************************)
(* What fifo.h promises of the receive queue: a sequence of at most        *)
(* Capacity elements that the producer appends to and the consumer takes   *)
(* from at the other end, every operation in one step.                     *)
(***************************************************************************)
EXTENDS Naturals, Sequences

CONSTANTS Values, Capacity, NoValue

VARIABLES
    items,    \* the elements stored, oldest first
    got,      \* the element the last _adi_fifo_Pop copied out
    view,     \* the elements the last _adi_fifo_ReadN copied out
    put       \* the element the last _adi_fifo_Push was given

vars == <<items, got, view, put>>

Init == items = << >> /\ got = NoValue /\ view = << >> /\ put = NoValue

Push(v) ==
    /\ Len(items) < Capacity
    /\ items' = Append(items, v) /\ put' = v
    /\ UNCHANGED <<got, view>>

Pop ==
    /\ items # << >>
    /\ got' = Head(items) /\ items' = Tail(items)
    /\ UNCHANGED <<view, put>>

(* A pop with a NULL pointer.                                              *)
Discard ==
    /\ items # << >>
    /\ items' = Tail(items)
    /\ UNCHANGED <<got, view, put>>

(* What is pushed while the queue is being cleared may stay.               *)
Clear ==
    /\ \E k \in 1 .. Len(items) : items' = SubSeq(items, k + 1, Len(items))
    /\ UNCHANGED <<got, view, put>>

(* Copies the oldest elements, as many as asked for or as there are.       *)
ReadN ==
    /\ \E n \in 0 .. Len(items) : view' = SubSeq(items, 1, n)
    /\ UNCHANGED <<items, got, put>>

Next == (\E v \in Values : Push(v)) \/ Pop \/ Discard \/ Clear \/ ReadN

Spec == Init /\ [][Next]_vars

==============================================================================
