------------------------------ MODULE Lifecycle ------------------------------
(***************************************************************************)
(* adi_max22x88_InitBitbang and adi_max22x88_Deinit: who owns the queue,   *)
(* the context, the pins and the two interrupts while drivers come up, are *)
(* refused, fail and go.                                                   *)
(*                                                                         *)
(* The main thread takes a step per statement that touches something a     *)
(* handler or a later call can see; a handler is one step.  Which calls    *)
(* the application makes is a constant: it initialises driver objects that *)
(* are not initialised, any number of times, and with "reinit" also live   *)
(* ones, with "deinit" it also calls Deinit.                               *)
(***************************************************************************)

CONSTANTS
    Drivers,     \* the application's adi_max22x88_t objects
    NoDriver,    \* NULL
    Calls        \* see above

ASSUME DriversAssumption == NoDriver \notin Drivers
ASSUME CallsAssumption == Calls \subseteq {"reinit", "deinit"}

VARIABLES
    pc,          \* where the main thread is in a call; "ready" outside
    cur,         \* the object of the call
    params_ok,   \* its params are not NULL
    status,      \* what the last Init of each object returned; "none"
                 \* before it and after Deinit
    queue,       \* rx_queue.buf: "unset", "live" or "null" (freed)
    ctx,         \* low_level_ctx: "unset", "null", "raw" (allocated and not
                 \* assigned) or "ready"
    instance,    \* the static _driver
    dout_int,    \* the edge interrupt of DOUT is enabled
    tmr_int,     \* the interrupt of the timer is enabled
    tmr_run,     \* the timer counts
    level,       \* the output register of the pins RST and DIN
    output,      \* the pins that are configured as outputs
    given_up,    \* history: the objects Deinit was called for
    leaked       \* history: the queues that were allocated for each object
                 \* and that no pointer in it leads to any more

callVars   == <<pc, cur, params_ok>>
objectVars == <<status, queue, ctx, instance>>
intVars    == <<dout_int, tmr_int, tmr_run>>
pinVars    == <<level, output>>

vars == <<callVars, objectVars, intVars, pinVars, given_up, leaked>>

Pins == {"RST", "DIN"}

(* Nothing is known of the objects' memory nor of the output register.     *)
Init ==
    /\ pc = "ready" /\ cur = NoDriver /\ params_ok = FALSE
    /\ status = [d \in Drivers |-> "none"]
    /\ queue = [d \in Drivers |-> "unset"]
    /\ ctx = [d \in Drivers |-> "unset"]
    /\ instance = NoDriver
    /\ dout_int = FALSE /\ tmr_int = FALSE /\ tmr_run = FALSE
    /\ level \in [Pins -> BOOLEAN] /\ output = {}
    /\ given_up = {} /\ leaked = [d \in Drivers |-> {}]

------------------------------------------------------------------------------
(* adi_max22x88_Init.                                                      *)

Leave(from, to) ==
    pc = from /\ pc' = to /\ UNCHANGED <<cur, params_ok, given_up>>

Goto(from, to) == Leave(from, to) /\ UNCHANGED leaked

Return(from, result) ==
    /\ Goto(from, "ready")
    /\ status' = [status EXCEPT ![cur] = result]

InitBitbang(d) ==
    /\ pc = "ready" /\ pc' = "queue"
    /\ status[d] = "OK" => "reinit" \in Calls
    /\ cur' = d
    /\ params_ok' \in BOOLEAN
    /\ UNCHANGED <<objectVars, intVars, pinVars, given_up, leaked>>

Lose(block) == leaked' = [leaked EXCEPT ![cur] = @ \cup {block}]

(* The object's pointer to a queue it still has is overwritten.            *)
AllocQueue ==
    /\ Leave("queue", "ctx")
    /\ IF queue[cur] = "live" THEN Lose("queue") ELSE UNCHANGED leaked
    /\ queue' = [queue EXCEPT ![cur] = "live"]
    /\ UNCHANGED <<status, ctx, instance, intVars, pinVars>>

(* Mutant of AllocQueueFails: ret is returned without a value.             *)
AllocQueueFailsUnset ==
    /\ Return("queue", "unset")
    /\ UNCHANGED <<queue, ctx, instance, intVars, pinVars>>

(* No memory, or an rx_buffer_len out of range: the object is left as it   *)
(* was.                                                                    *)
AllocQueueFails ==
    /\ Return("queue", "INTERNAL")
    /\ UNCHANGED <<queue, ctx, instance, intVars, pinVars>>

(* An rx_buffer_len of zero: a buffer is allocated and then refused, the   *)
(* object does not get it, and err_1 frees nothing.                        *)
RejectEmptyQueue ==
    /\ Leave("queue", "ready") /\ Lose("empty queue")
    /\ status' = [status EXCEPT ![cur] = "INTERNAL"]
    /\ UNCHANGED <<queue, ctx, instance, intVars, pinVars>>

AllocCtx ==
    /\ Goto("ctx", "instance")
    /\ ctx' = [ctx EXCEPT ![cur] = "raw"]
    /\ UNCHANGED <<status, queue, instance, intVars, pinVars>>

AllocCtxFails ==
    /\ Goto("ctx", "fail_internal")
    /\ ctx' = [ctx EXCEPT ![cur] = "null"]
    /\ UNCHANGED <<status, queue, instance, intVars, pinVars>>

(* err_2, with the result of initialize_io_layer.                          *)
Unwind(from, result) ==
    /\ Return(from, result)
    /\ queue' = [queue EXCEPT ![cur] = "null"]
    /\ UNCHANGED <<ctx, instance, intVars, pinVars>>

(* Mutant of FreeQueue: the error path frees nothing.                      *)
FreeQueueForgotten ==
    /\ Return("fail_internal", "INTERNAL") \/ Return("fail_user", "USER_FN")
    /\ UNCHANGED <<queue, ctx, instance, intVars, pinVars>>

FreeQueue ==
    Unwind("fail_internal", "INTERNAL") \/ Unwind("fail_user", "USER_FN")

------------------------------------------------------------------------------
(* max22x88_gpio_bitbang_init.                                             *)

(* Mutant of CheckInstance: only the parameters are checked.               *)
CheckInstanceForgotten ==
    /\ Goto("instance", IF params_ok THEN "init_ctx" ELSE "fail_user")
    /\ UNCHANGED <<objectVars, intVars, pinVars>>

(* Mutant of CheckInstance: _driver is assigned before it is asked for.    *)
CheckInstanceTooLate ==
    /\ Goto("instance", IF instance = NoDriver /\ params_ok
                        THEN "init_ctx" ELSE "fail_user")
    /\ instance' = cur
    /\ UNCHANGED <<status, queue, ctx, intVars, pinVars>>

(* A second instance is refused, and so are no parameters.                 *)
CheckInstance ==
    /\ Goto("instance", IF instance = NoDriver /\ params_ok
                        THEN "init_ctx" ELSE "fail_user")
    /\ UNCHANGED <<objectVars, intVars, pinVars>>

InitCtx ==
    /\ Goto("init_ctx", "timer")
    /\ ctx' = [ctx EXCEPT ![cur] = "ready"]
    /\ UNCHANGED <<status, queue, instance, intVars, pinVars>>

(* configure_homebus_signal_timer.                                         *)
ConfigureTimer ==
    /\ Goto("timer", "set_rst")
    /\ tmr_run' = FALSE /\ tmr_int' = TRUE
    /\ UNCHANGED <<objectVars, dout_int, pinVars>>

SetPin(pin) ==
    level' = [level EXCEPT ![pin] = TRUE] /\ UNCHANGED output

ConfigurePin(pin) ==
    output' = output \cup {pin} /\ UNCHANGED level

(* Mutant of SetRst: the pin is configured first.                          *)
SetRstTooLate ==
    /\ Goto("set_rst", "cfg_rst") /\ ConfigurePin("RST")
    /\ UNCHANGED <<objectVars, intVars>>

SetRst ==
    /\ Goto("set_rst", "cfg_rst") /\ SetPin("RST")
    /\ UNCHANGED <<objectVars, intVars>>

ConfigureRst ==
    /\ Goto("cfg_rst", "set_din") /\ ConfigurePin("RST")
    /\ UNCHANGED <<objectVars, intVars>>

SetDin ==
    /\ Goto("set_din", "cfg_din") /\ SetPin("DIN")
    /\ UNCHANGED <<objectVars, intVars>>

ConfigureDin ==
    /\ Goto("cfg_din", "claim") /\ ConfigurePin("DIN")
    /\ UNCHANGED <<objectVars, intVars>>

ClaimInstance ==
    /\ Goto("claim", "enable")
    /\ instance' = cur
    /\ UNCHANGED <<status, queue, ctx, intVars, pinVars>>

EnableDout ==
    /\ Goto("enable", "tx_off")
    /\ dout_int' = TRUE
    /\ UNCHANGED <<objectVars, tmr_int, tmr_run, pinVars>>

(* adi_max22x88_SetTxState(driver, false), which cannot fail.              *)
DisableTx ==
    /\ Return("tx_off", "OK") /\ SetPin("RST")
    /\ UNCHANGED <<queue, ctx, instance, intVars>>

InitStep ==
    \/ AllocQueue \/ AllocQueueFails \/ RejectEmptyQueue
    \/ AllocCtx \/ AllocCtxFails \/ FreeQueue \/ CheckInstance
    \/ InitCtx \/ ConfigureTimer
    \/ SetRst \/ ConfigureRst \/ SetDin \/ ConfigureDin
    \/ ClaimInstance \/ EnableDout \/ DisableTx

------------------------------------------------------------------------------
(* adi_max22x88_Deinit.                                                    *)

Deinit(d) ==
    /\ "deinit" \in Calls
    /\ pc = "ready" /\ status[d] = "OK" /\ pc' = "free_ctx"
    /\ cur' = d /\ UNCHANGED <<params_ok, leaked>>
    /\ status' = [status EXCEPT ![d] = "none"]
    /\ given_up' = given_up \cup {d}
    /\ queue' = [queue EXCEPT ![d] = "null"]
    /\ UNCHANGED <<ctx, instance, intVars, pinVars>>

FreeCtx ==
    /\ Return("free_ctx", "none")
    /\ ctx' = [ctx EXCEPT ![cur] = "null"]
    /\ UNCHANGED <<queue, instance, intVars, pinVars>>

------------------------------------------------------------------------------
(* The handlers, as far as they change what is modelled here.  What they   *)
(* do with a context that is not ready is undefined: HandlersSafe says     *)
(* that it does not happen.                                                *)

FallingEdge ==
    /\ dout_int
    /\ IF instance = NoDriver
       THEN tmr_run' = FALSE /\ UNCHANGED dout_int
       ELSE tmr_run' = TRUE /\ dout_int' = FALSE
    /\ UNCHANGED <<callVars, objectVars, tmr_int, pinVars, given_up,
                   leaked>>

(* The tick that completes a frame; the others change nothing here.        *)
LastTick ==
    /\ tmr_run /\ tmr_int
    /\ tmr_run' = FALSE /\ dout_int' = TRUE
    /\ UNCHANGED <<callVars, objectVars, tmr_int, pinVars, given_up,
                   leaked>>

------------------------------------------------------------------------------

Next ==
    \/ \E d \in Drivers : InitBitbang(d) \/ Deinit(d)
    \/ InitStep \/ FreeCtx
    \/ FallingEdge \/ LastTick

Spec == Init /\ [][Next]_vars

------------------------------------------------------------------------------

Locations == {"ready", "queue", "ctx", "fail_internal", "fail_user",
              "instance", "init_ctx", "timer", "set_rst", "cfg_rst",
              "set_din", "cfg_din", "claim", "enable", "tx_off", "free_ctx"}

LeakedType == leaked \in [Drivers -> SUBSET {"queue", "empty queue"}]

TypeOK ==
    /\ pc \in Locations
    /\ cur \in Drivers \cup {NoDriver} /\ (pc # "ready" => cur \in Drivers)
    /\ params_ok \in BOOLEAN
    /\ status \in [Drivers -> {"none", "OK", "INTERNAL", "USER_FN"}]
    /\ queue \in [Drivers -> {"unset", "live", "null"}]
    /\ ctx \in [Drivers -> {"unset", "null", "raw", "ready"}]
    /\ instance \in Drivers \cup {NoDriver}
    /\ dout_int \in BOOLEAN /\ tmr_int \in BOOLEAN /\ tmr_run \in BOOLEAN
    /\ level \in [Pins -> BOOLEAN] /\ output \subseteq Pins
    /\ given_up \subseteq Drivers
    /\ LeakedType

(* Both handlers dereference _driver's context without looking at it; the  *)
(* timer's does not even ask whether there is a driver.  Until the object  *)
(* they serve is given up with Deinit, what they use is there and          *)
(* initialised whenever one of them can run, also while another object is  *)
(* being initialised, refused or unwound.                                  *)
HandlersSafe ==
    /\ tmr_run => tmr_int /\ instance # NoDriver
    /\ (dout_int \/ tmr_run) /\ instance # NoDriver =>
         \/ ctx[instance] = "ready" /\ queue[instance] = "live"
         \/ instance \in given_up

(* An Init that returned OK made its object the one the handlers serve,    *)
(* and it stays so: whatever is tried with other objects, the driver keeps *)
(* listening or receiving.                                                 *)
LiveDriverServed ==
    \A d \in Drivers : status[d] = "OK" =>
        /\ instance = d /\ tmr_int
        /\ dout_int # tmr_run

NoQueueLost == \A d \in Drivers : "queue" \notin leaked[d]

(* Every queue an Init got is still reachable or was freed: one that       *)
(* returned OK owns its queue and its context, one that failed owns no     *)
(* queue any more, and no later Init overwrites the only pointer to one.   *)
(* (The buffer that was allocated for an rx_buffer_len of zero is lost in  *)
(* the code: RejectEmptyQueue.)                                            *)
OutcomeAccountedFor ==
    /\ NoQueueLost
    /\ pc = "ready" =>
         \A d \in Drivers :
             /\ status[d] = "OK" => queue[d] = "live" /\ ctx[d] = "ready"
             /\ status[d] \in {"INTERNAL", "USER_FN"} => queue[d] # "live"

(* Coming up disturbs nobody on the bus: from the moment a pin is an       *)
(* output it holds its idle level, the transmitter disabled and DIN high.  *)
QuietPins == \A pin \in output : level[pin]

==============================================================================
