-------------------------- MODULE Lifecycle_proofs --------------------------
(***************************************************************************)
(* While the application does not initialise a live driver again, the      *)
(* handlers are safe, the live driver is served, every queue an Init got   *)
(* is owned or freed, and the pins stay quiet: for any set of driver       *)
(* objects.                                                                *)
(***************************************************************************)
EXTENDS Lifecycle, TLAPS

USE DriversAssumption, CallsAssumption

(* Where an Init owns the queue of its object, where it has an initialised *)
(* context, and where it has found that there is no other driver.          *)
Claiming == {"claim", "enable", "tx_off"}
Timed    == Claiming \cup {"set_rst", "cfg_rst", "set_din", "cfg_din"}
WithCtx  == Timed \cup {"timer"}
Holding  == WithCtx \cup {"ctx", "fail_internal", "fail_user", "instance",
                          "init_ctx"}
Alone    == (WithCtx \cup {"init_ctx"}) \ {"enable", "tx_off"}

ObjectsAgree ==
    /\ pc = "queue" => queue[cur] # "live"
    /\ pc \in Holding => queue[cur] = "live"
    /\ pc \in WithCtx => ctx[cur] = "ready"
    /\ \A d \in Drivers :
         /\ status[d] = "OK" =>
              /\ instance = d /\ queue[d] = "live" /\ ctx[d] = "ready"
              /\ d \notin given_up
         /\ status[d] # "OK" /\ (d = cur => pc \notin Holding) =>
              queue[d] # "live"

InstanceAgrees ==
    /\ pc \in Alone => instance = NoDriver
    /\ pc \in {"enable", "tx_off"} => instance = cur /\ given_up = {}
    /\ pc \notin {"ready", "free_ctx"} => status[cur] # "OK"
    /\ pc = "free_ctx" => cur \in given_up
    /\ instance # NoDriver =>
         \/ pc \in {"enable", "tx_off"}
         \/ status[instance] = "OK"
         \/ instance \in given_up
    /\ given_up # {} => instance # NoDriver

InterruptsAgree ==
    /\ instance = NoDriver \/ pc = "enable" => ~dout_int /\ ~tmr_run
    /\ instance # NoDriver /\ pc # "enable" => dout_int # tmr_run
    /\ pc \in Timed \/ instance # NoDriver => tmr_int

PinsAgree ==
    /\ QuietPins
    /\ pc = "cfg_rst" => level["RST"]
    /\ pc = "cfg_din" => level["DIN"]

IInv ==
    /\ NoQueueLost
    /\ TypeOK /\ ObjectsAgree /\ InstanceAgrees /\ InterruptsAgree /\ PinsAgree

(* What has been leaked matters to no other part of the invariant.         *)
Kept == LeakedType /\ NoQueueLost

LEMMA InitIInv == Init => IInv
<1>1. Init => Kept
  BY DEF Init, Kept, LeakedType, NoQueueLost
<1>2. Init => TypeOK
  <2>1. Init => /\ status \in [Drivers -> {"none", "OK", "INTERNAL", "USER_FN"}]
                /\ queue \in [Drivers -> {"unset", "live", "null"}]
                /\ ctx \in [Drivers -> {"unset", "null", "raw", "ready"}]
    BY DEF Init
  <2>2. Init => /\ pc = "ready" /\ cur = NoDriver /\ instance = NoDriver
                /\ given_up = {} /\ output = {} /\ level \in [Pins -> BOOLEAN]
                /\ params_ok \in BOOLEAN /\ dout_int \in BOOLEAN
                /\ tmr_int \in BOOLEAN /\ tmr_run \in BOOLEAN
    BY DEF Init
  <2> QED
    BY <1>1, <2>1, <2>2 DEF TypeOK, Locations, Kept
<1>3. Init => ObjectsAgree /\ InstanceAgrees
  BY DEF Init, ObjectsAgree, InstanceAgrees, Holding, WithCtx, Timed,
         Claiming, Alone
<1>4. Init => InterruptsAgree /\ PinsAgree
  BY DEF Init, InterruptsAgree, PinsAgree, QuietPins, WithCtx, Timed, Claiming
<1> QED
  BY <1>1, <1>2, <1>3, <1>4 DEF IInv, Kept

(* An Init asks for a queue only when the object has none, so that no      *)
(* pointer to one is overwritten.                                          *)
LEMMA NextKept ==
    ASSUME "reinit" \notin Calls, IInv, [Next]_vars
    PROVE  Kept'
<1> USE DEF Kept, LeakedType, NoQueueLost
<1>1. Kept /\ (pc = "queue" => queue[cur] # "live") /\ pc \in Locations
  BY DEF IInv, TypeOK, ObjectsAgree
<1>2. CASE AllocQueue \/ RejectEmptyQueue
  <2>1. leaked' \in {leaked, [leaked EXCEPT ![cur] = @ \cup {"empty queue"}]}
    BY <1>1, <1>2 DEF AllocQueue, RejectEmptyQueue, Leave, Lose
  <2>2. ASSUME NEW d \in Drivers
        PROVE  leaked'[d] \subseteq leaked[d] \cup {"empty queue"}
    BY <1>1, <2>1
  <2>3. /\ DOMAIN leaked' = Drivers
        /\ leaked' = [d \in Drivers |-> leaked'[d]]
    BY <1>1, <2>1
  <2>4. ASSUME NEW d \in Drivers
        PROVE  /\ leaked'[d] \in SUBSET {"queue", "empty queue"}
               /\ "queue" \notin leaked'[d]
    <3>1. /\ leaked[d] \subseteq {"queue", "empty queue"}
          /\ "queue" \notin leaked[d]
      BY <1>1
    <3> QED
      BY <2>1, <2>2, <3>1
  <2> QED
    BY <2>3, <2>4
<1>3. CASE UNCHANGED leaked
  BY <1>1, <1>3
<1>4. [Next]_vars =>
        AllocQueue \/ RejectEmptyQueue \/ UNCHANGED leaked
  BY DEF Next, InitStep, vars, InitBitbang, Deinit, FreeCtx, FallingEdge,
         LastTick, AllocQueueFails, AllocCtx, AllocCtxFails, FreeQueue,
         Unwind, CheckInstance, InitCtx, ConfigureTimer, SetRst,
         ConfigureRst, SetDin, ConfigureDin, ClaimInstance, EnableDout,
         DisableTx, Goto, Return
<1> QED
  BY <1>2, <1>3, <1>4

(* The calls, with the steps of Deinit.                                    *)
LEMMA CallsKeep ==
    ASSUME "reinit" \notin Calls, IInv, Kept',
           \/ \E d \in Drivers : InitBitbang(d) \/ Deinit(d)
           \/ FreeCtx
    PROVE  IInv'
<1> USE DEF Kept, IInv, TypeOK, ObjectsAgree, InstanceAgrees, InterruptsAgree,
            PinsAgree, QuietPins, Pins, Locations, Holding, WithCtx, Timed,
            Claiming, Alone, callVars, objectVars, intVars, pinVars, Goto,
            Leave, Return
<1>1. ASSUME NEW d \in Drivers, InitBitbang(d) PROVE IInv'
  BY <1>1 DEF InitBitbang
<1>2. ASSUME NEW d \in Drivers, Deinit(d) PROVE IInv'
  BY <1>2 DEF Deinit
<1>3. CASE FreeCtx
  BY <1>3 DEF FreeCtx
<1> QED
  BY <1>1, <1>2, <1>3

(* The statements of Init up to the check of the instance.                 *)
LEMMA AllocationKeeps ==
    ASSUME IInv, Kept',
           \/ AllocQueue \/ AllocQueueFails \/ RejectEmptyQueue
           \/ AllocCtx \/ AllocCtxFails \/ FreeQueue \/ CheckInstance
    PROVE  IInv'
<1> USE DEF Kept, IInv, TypeOK, ObjectsAgree, InstanceAgrees, InterruptsAgree,
            PinsAgree, QuietPins, Pins, Locations, Holding, WithCtx, Timed,
            Claiming, Alone, callVars, objectVars, intVars, pinVars, Goto,
            Leave, Return
<1>1. CASE AllocQueue
  BY <1>1 DEF AllocQueue
<1>2. CASE AllocQueueFails
  BY <1>2 DEF AllocQueueFails
<1>3. CASE AllocCtx
  BY <1>3 DEF AllocCtx
<1>4. CASE AllocCtxFails
  BY <1>4 DEF AllocCtxFails
<1>5. CASE FreeQueue
  <2>1. /\ pc \in {"fail_internal", "fail_user"} /\ pc' = "ready"
        /\ \E result \in {"INTERNAL", "USER_FN"} :
             status' = [status EXCEPT ![cur] = result]
        /\ queue' = [queue EXCEPT ![cur] = "null"]
        /\ UNCHANGED <<cur, params_ok, given_up, leaked, ctx, instance,
                       intVars, pinVars>>
    BY <1>5 DEF FreeQueue, Unwind
  <2>2. TypeOK'
    BY <2>1
  <2>3. ObjectsAgree'
    BY <2>1
  <2>4. InstanceAgrees'
    BY <2>1
  <2>5. InterruptsAgree' /\ PinsAgree'
    BY <2>1
  <2> QED
    BY <2>2, <2>3, <2>4, <2>5
<1>6. CASE CheckInstance
  <2>1. /\ pc = "instance"
        /\ \/ instance = NoDriver /\ pc' = "init_ctx"
           \/ pc' = "fail_user"
        /\ UNCHANGED <<cur, params_ok, given_up, leaked, objectVars, intVars,
                       pinVars>>
    BY <1>6 DEF CheckInstance
  <2>2. TypeOK'
    BY <2>1
  <2>3. ObjectsAgree' /\ InstanceAgrees'
    BY <2>1
  <2>4. InterruptsAgree' /\ PinsAgree'
    BY <2>1
  <2> QED
    BY <2>2, <2>3, <2>4
<1>7. CASE RejectEmptyQueue
  <2>1. /\ pc = "queue" /\ pc' = "ready"
        /\ status' = [status EXCEPT ![cur] = "INTERNAL"]
        /\ UNCHANGED <<cur, params_ok, given_up, queue, ctx, instance,
                       intVars, pinVars>>
    BY <1>7 DEF RejectEmptyQueue
  <2>2. TypeOK'
    BY <2>1
  <2>3. ObjectsAgree' /\ InstanceAgrees'
    BY <2>1
  <2>4. InterruptsAgree' /\ PinsAgree'
    BY <2>1
  <2> QED
    BY <2>2, <2>3, <2>4
<1> QED
  BY <1>1, <1>2, <1>3, <1>4, <1>5, <1>6, <1>7

(* The statements of max22x88_gpio_bitbang_init that follow, and the end   *)
(* of Init.                                                                *)
LEMMA BringUpKeeps ==
    ASSUME IInv, Kept',
           \/ InitCtx \/ ConfigureTimer
           \/ SetRst \/ ConfigureRst \/ SetDin \/ ConfigureDin
           \/ ClaimInstance \/ EnableDout \/ DisableTx
    PROVE  IInv'
<1> USE DEF Kept, IInv, TypeOK, ObjectsAgree, InstanceAgrees, InterruptsAgree,
            PinsAgree, QuietPins, Pins, Locations, Holding, WithCtx, Timed,
            Claiming, Alone, callVars, objectVars, intVars, pinVars, Goto,
            Leave, Return, SetPin, ConfigurePin
<1>1. CASE InitCtx
  BY <1>1 DEF InitCtx
<1>2. CASE ConfigureTimer
  BY <1>2 DEF ConfigureTimer
<1>3. CASE SetRst
  BY <1>3 DEF SetRst
<1>4. CASE ConfigureRst
  BY <1>4 DEF ConfigureRst
<1>5. CASE SetDin
  BY <1>5 DEF SetDin
<1>6. CASE ConfigureDin
  BY <1>6 DEF ConfigureDin
<1>7. CASE ClaimInstance
  BY <1>7 DEF ClaimInstance
<1>8. CASE EnableDout
  BY <1>8 DEF EnableDout
<1>9. CASE DisableTx
  BY <1>9 DEF DisableTx
<1> QED
  BY <1>1, <1>2, <1>3, <1>4, <1>5, <1>6, <1>7, <1>8, <1>9

LEMMA HandlersKeep ==
    ASSUME IInv, Kept', FallingEdge \/ LastTick
    PROVE  IInv'
<1> USE DEF Kept, IInv, TypeOK, ObjectsAgree, InstanceAgrees, InterruptsAgree,
            PinsAgree, QuietPins, Pins, callVars, objectVars, pinVars
<1>1. CASE FallingEdge
  <2>1. TypeOK'
    BY <1>1 DEF FallingEdge
  <2>2. ObjectsAgree' /\ InstanceAgrees'
    BY <1>1 DEF FallingEdge
  <2>3. InterruptsAgree' /\ PinsAgree'
    BY <1>1 DEF FallingEdge
  <2> QED
    BY <2>1, <2>2, <2>3
<1>2. CASE LastTick
  <2>1. TypeOK'
    BY <1>2 DEF LastTick
  <2>2. ObjectsAgree' /\ InstanceAgrees'
    BY <1>2 DEF LastTick
  <2>3. InterruptsAgree' /\ PinsAgree'
    BY <1>2 DEF LastTick
  <2> QED
    BY <2>1, <2>2, <2>3
<1> QED
  BY <1>1, <1>2

LEMMA NextIInv ==
    ASSUME "reinit" \notin Calls
    PROVE  IInv /\ [Next]_vars => IInv'
<1> SUFFICES ASSUME IInv, [Next]_vars PROVE IInv'
  OBVIOUS
<1>1. CASE Next
  BY <1>1, NextKept, CallsKeep, AllocationKeeps, BringUpKeeps, HandlersKeep
     DEF Next, InitStep
<1>2. CASE UNCHANGED vars
  BY <1>2, NextKept
     DEF vars, callVars, objectVars, intVars, pinVars, Kept, IInv, TypeOK,
         ObjectsAgree, InstanceAgrees, InterruptsAgree, PinsAgree, QuietPins
<1> QED
  BY <1>1, <1>2

LEMMA Invariance ==
    ASSUME "reinit" \notin Calls
    PROVE  Spec => []IInv
<1>1. IInv /\ [Next]_vars => IInv'
  BY NextIInv
<1> QED
  BY InitIInv, <1>1, PTL DEF Spec

(* The types: a call to Init or Deinit is under way for an object, and     *)
(* only the two pins of the driver are ever configured.                    *)
THEOREM TypeCorrect ==
    ASSUME "reinit" \notin Calls
    PROVE  Spec => []TypeOK
<1>1. IInv => TypeOK
  BY DEF IInv
<1> QED
  BY Invariance, <1>1, PTL

(* Whenever a handler can run, the context and the queue it uses are there *)
(* and initialised, until the object is given up.                          *)
THEOREM HandlersAreSafe ==
    ASSUME "reinit" \notin Calls
    PROVE  Spec => []HandlersSafe
<1>1. IInv => HandlersSafe
  BY DEF IInv, TypeOK, ObjectsAgree, InstanceAgrees, InterruptsAgree,
         HandlersSafe, Holding, WithCtx, Timed, Claiming
<1> QED
  BY Invariance, <1>1, PTL

(* An initialised driver is the one that is served, and stays so.          *)
THEOREM LiveServed ==
    ASSUME "reinit" \notin Calls
    PROVE  Spec => []LiveDriverServed
<1>1. IInv => LiveDriverServed
  BY DEF IInv, TypeOK, ObjectsAgree, InstanceAgrees, InterruptsAgree,
         LiveDriverServed
<1> QED
  BY Invariance, <1>1, PTL

(* No queue an Init got is lost: the ones that returned OK own theirs, the *)
(* ones that failed have freed it, and no Init overwrites a live one.      *)
THEOREM OutcomeAccounted ==
    ASSUME "reinit" \notin Calls
    PROVE  Spec => []OutcomeAccountedFor
<1>1. IInv => OutcomeAccountedFor
  BY DEF IInv, TypeOK, ObjectsAgree, OutcomeAccountedFor, Holding, WithCtx,
         Timed, Claiming
<1> QED
  BY Invariance, <1>1, PTL

(* An output pin holds its idle level from the moment it is one.           *)
THEOREM PinsAreQuiet ==
    ASSUME "reinit" \notin Calls
    PROVE  Spec => []QuietPins
<1>1. IInv => QuietPins
  BY DEF IInv, PinsAgree
<1> QED
  BY Invariance, <1>1, PTL

==============================================================================
