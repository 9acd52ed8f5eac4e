-------------------------------- MODULE Fifo --------------------------------
(***************************************************************************)
(* fifo.c, as the driver uses it: elements of one byte, one producer and   *)
(* one consumer.  The producer is the timer interrupt (DataReceived); it   *)
(* runs to completion, so a push is one step.  The consumer is the main    *)
(* thread (Read, FlushRx, IsAvailable), which can be interrupted between   *)
(* any two accesses to the volatile indices: its operations are a step per *)
(* access to head, the index the producer moves.                           *)
(***************************************************************************)
EXTENDS Integers, Sequences

CONSTANTS
    Values,         \* the bytes
    Capacity,       \* len of _adi_fifo_Init
    NoValue,        \* not a byte
    ReadNMasked     \* the caller of ReadN holds the producer off

ASSUME CapacityAssumption == Capacity \in Nat \ {0}
ASSUME ValuesAssumption == NoValue \notin Values
ASSUME ReadNAssumption == ReadNMasked \in BOOLEAN

(* buf_size; one slot stays free, to tell full from empty.                 *)
Size == Capacity + 1

Slots == 0 .. Size - 1

VARIABLES
    buf, head, tail,
    pc,           \* where the consumer is; "idle" between operations
    reg,          \* the element Pop has copied, or NoValue for Pop(NULL)
    snapshot,     \* the value of head Clear or ReadN has read
    len,          \* ReadN's len
    got,          \* the element the last Pop copied out
    view,         \* the elements the last ReadN copied out
    available,    \* the caller has seen IsAvailable return true and has
                  \* not consumed anything since
    put           \* history: the element the last Push was given

consumerVars == <<pc, reg, snapshot, len, got, view, available>>

vars == <<buf, head, tail, put, consumerVars>>

(* The memory is not cleared when it is allocated.                         *)
Init ==
    /\ buf \in [Slots -> Values]
    /\ head = 0 /\ tail = 0
    /\ pc = "idle" /\ reg = NoValue /\ snapshot = 0 /\ len = 0
    /\ got = NoValue /\ view = << >> /\ available = FALSE
    /\ put = NoValue

------------------------------------------------------------------------------

(* Mutant of NEXT_IDX: the index does not wrap.                            *)
NEXT_IDXUnwrapped(idx) == idx + 1

NEXT_IDX(idx) == (idx + 1) % Size

IsEmpty == head = tail

(* Mutant of is_Full: the last free slot is used too.                      *)
is_FullByWrap == head = Size - 1 /\ tail = 0

is_Full == NEXT_IDX(head) = tail

FifoLen == IF head >= tail THEN head - tail ELSE (Size - tail) + head

ReadNRunning == pc \in {"readn_cmp", "readn_len", "readn_copy"}

(* Mutant of Push: the index moves before the element is there.            *)
PushEarly(v) ==
    /\ ~(ReadNMasked /\ ReadNRunning)
    /\ ~is_Full
    /\ head' = NEXT_IDX(head)
    /\ buf' = [buf EXCEPT ![head'] = v]
    /\ put' = v
    /\ UNCHANGED <<tail, consumerVars>>

(* The interrupt: adi_max22x88_DataReceived.  A push into a full queue     *)
(* changes nothing.                                                        *)
Push(v) ==
    /\ ~(ReadNMasked /\ ReadNRunning)
    /\ ~is_Full
    /\ buf' = [buf EXCEPT ![head] = v]
    /\ head' = NEXT_IDX(head)
    /\ put' = v
    /\ UNCHANGED <<tail, consumerVars>>

------------------------------------------------------------------------------
(* Pop: the test of Read, its copy, and the advance.                       *)

PopTest ==
    /\ pc = "idle" /\ ~IsEmpty
    /\ pc' = "copy"
    /\ UNCHANGED <<buf, put, head, tail, reg, snapshot, len, got, view,
                   available>>

PopCopy ==
    /\ pc = "copy"
    /\ reg' = buf[tail]
    /\ pc' = "advance"
    /\ UNCHANGED <<buf, put, head, tail, snapshot, len, got, view, available>>

(* Pop(NULL) neither tests nor copies: the caller must know that there is  *)
(* an element.                                                             *)
PopDiscard ==
    /\ pc = "idle" /\ available
    /\ reg' = NoValue
    /\ pc' = "advance"
    /\ UNCHANGED <<buf, put, head, tail, snapshot, len, got, view, available>>

PopAdvance ==
    /\ pc = "advance"
    /\ tail' = NEXT_IDX(tail)
    /\ got' = IF reg = NoValue THEN got ELSE reg
    /\ available' = FALSE
    /\ pc' = "idle"
    /\ UNCHANGED <<buf, put, head, reg, snapshot, len, view>>

(* Clear: tail = head is a read of head and a write of tail.               *)
ClearTest ==
    /\ pc = "idle" /\ ~IsEmpty
    /\ pc' = "clear_head"
    /\ UNCHANGED <<buf, put, head, tail, reg, snapshot, len, got, view,
                   available>>

ClearReadHead ==
    /\ pc = "clear_head"
    /\ snapshot' = head
    /\ pc' = "clear_tail"
    /\ UNCHANGED <<buf, put, head, tail, reg, len, got, view, available>>

ClearWriteTail ==
    /\ pc = "clear_tail"
    /\ tail' = snapshot
    /\ available' = FALSE
    /\ pc' = "idle"
    /\ UNCHANGED <<buf, put, head, reg, snapshot, len, got, view>>

(* adi_max22x88_IsAvailable.                                               *)
IsAvailable ==
    /\ pc = "idle"
    /\ available' = ~IsEmpty
    /\ UNCHANGED <<buf, put, head, tail, pc, reg, snapshot, len, got, view>>

(* ReadN reads head once, and then again in each of two calls of Len.      *)
ReadNBegin(n) ==
    /\ pc = "idle"
    /\ snapshot' = head /\ len' = n
    /\ pc' = "readn_cmp"
    /\ UNCHANGED <<buf, put, head, tail, reg, got, view, available>>

ReadNCompare ==
    /\ pc = "readn_cmp"
    /\ pc' = IF len > FifoLen THEN "readn_len" ELSE "readn_copy"
    /\ UNCHANGED <<buf, put, head, tail, reg, snapshot, len, got, view,
                   available>>

ReadNShorten ==
    /\ pc = "readn_len"
    /\ len' = FifoLen
    /\ pc' = "readn_copy"
    /\ UNCHANGED <<buf, put, head, tail, reg, snapshot, got, view, available>>

(* The elements up to snapshot or to the end of the buffer, and the rest   *)
(* from its start.                                                         *)
Sequential == IF snapshot >= tail THEN snapshot - tail ELSE Size - tail

ReadNCopy ==
    /\ pc = "readn_copy"
    /\ view' = [i \in 1 .. len |-> IF i <= Sequential THEN buf[tail + i - 1]
                                   ELSE buf[i - Sequential - 1]]
    /\ pc' = "idle"
    /\ UNCHANGED <<buf, put, head, tail, reg, snapshot, len, got, available>>

------------------------------------------------------------------------------

Next ==
    \/ \E v \in Values : Push(v)
    \/ PopTest \/ PopCopy \/ PopDiscard \/ PopAdvance
    \/ ClearTest \/ ClearReadHead \/ ClearWriteTail
    \/ IsAvailable
    \/ (\E n \in 1 .. Capacity : ReadNBegin(n))
    \/ ReadNCompare \/ ReadNShorten \/ ReadNCopy

Spec == Init /\ [][Next]_vars

------------------------------------------------------------------------------

TypeOK ==
    /\ buf \in [Slots -> Values]
    /\ head \in Slots /\ tail \in Slots /\ snapshot \in Slots
    /\ pc \in {"idle", "copy", "advance", "clear_head", "clear_tail",
               "readn_cmp", "readn_len", "readn_copy"}
    /\ {reg, got, put} \subseteq Values \cup {NoValue}
    /\ len \in 0 .. Capacity
    /\ view \in Seq(Values)
    /\ available \in BOOLEAN

(* The elements between tail and head, oldest first.                       *)
Items == [i \in 1 .. FifoLen |-> buf[(tail + i - 1) % Size]]

(* Interleaved with pushes at every access to head, the operations still   *)
(* behave as those of a bounded queue: nothing that was pushed is lost,    *)
(* duplicated, changed or overtaken.                                       *)
Queue == INSTANCE BoundedQueue WITH items <- Items
QueueSpec == Queue!Spec

(* main.c:120-123 and 160-163 call Read when IsAvailable has returned true *)
(* and ignore what Read returns: whatever the interrupt does in between,   *)
(* there is an element to read, and the one Pop has tested for is there    *)
(* when it is copied and removed.                                          *)
StillAvailable ==
    available \/ pc \in {"copy", "advance", "clear_head"} => ~IsEmpty

==============================================================================
