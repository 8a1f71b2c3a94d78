------------------------------ MODULE CoreLlr ------------------------------
(***************************************************************************)
(* The core Link Layer Retry (LLR) state machine of one link:              *)
(* core/sl_core_llr.c (the commands, under data_lock) and                  *)
(* core/hw/sl_core_hw_llr.c (the work items, run by an unordered           *)
(* workqueue), with its two timers (core/base/sl_core_timer_llr.c), its    *)
(* two decisive interrupts (core/hw/sl_core_hw_intr_llr.c), the callbacks  *)
(* of ctrl/sl_ctrl_llr.c and deletion (core/data/sl_core_data_llr.c).      *)
(*                                                                         *)
(* The two attempts an LLR makes, its setup and then its start, have the   *)
(* same shape: a command takes the busy state and queues a work that       *)
(* enables an interrupt; the interrupt's work publishes success; a timer,  *)
(* a failed enable or a stop ends the attempt in the state it rests in.    *)
(* So one operator describes both, with the attempt p as its parameter.    *)
(*                                                                         *)
(* A thread is a client inside an API call or a running work item.  Every  *)
(* critical section of data_lock and every cancel_work_sync is a step of   *)
(* its own.  Register accesses, info_map bits, fail causes and the work of *)
(* the unexpected-loop-time interrupt, which only logs, are left out: no   *)
(* step reads them back.                                                   *)
(***************************************************************************)
EXTENDS Integers, FiniteSets, Kernel

CONSTANTS
    Clients,     \* threads that may call the API of this LLR
    MaxCalls,    \* bound on the accepted setup and start commands
    MaxFaults    \* bound on failing settings and interrupt enables

Attempts == {"setup", "start"}   \* also the names of their timer, interrupt
                                 \* and of the work that enables the interrupt

TimeoutWork == [setup |-> "setup_timeout", start |-> "start_timeout"]
IntrWork    == [setup |-> "loop_time",     start |-> "init_complete"]

Works == Attempts \cup {TimeoutWork[p] : p \in Attempts}
                  \cup {IntrWork[p] : p \in Attempts}

ASSUME ClientsAssumption == Clients \cap Works = {}
ASSUME BoundsAssumption  == MaxCalls \in Nat /\ MaxFaults \in Nat

Threads == Works \cup Clients

From      == [setup |-> "CONFIGURED",      start |-> "SETUP"]
Busy      == [setup |-> "SETTING_UP",      start |-> "STARTING"]
Done      == [setup |-> "SETUP",           start |-> "RUNNING"]

(* Mutant: both timeouts enter the state of the first. *)
TimedOutCopied == [setup |-> "SETUP_TIMEOUT", start |-> "SETUP_TIMEOUT"]
TimedOut  == [setup |-> "SETUP_TIMEOUT",   start |-> "START_TIMEOUT"]

(* Mutant: the enumerator of the link's state in place of the LLR's. *)
CancelingOfLink == [setup |-> "CANCELING", start |-> "CANCELING"]
Canceling == [setup |-> "SETUP_CANCELING", start |-> "START_CANCELING"]

Transient == {"SETUP_CANCELING", "SETUP_STOPPING", "SETUP_TIMEOUT",
              "START_CANCELING", "STOPPING", "START_TIMEOUT"}

States == {"NEW", "CONFIGURED", "SETTING_UP", "SETUP", "STARTING", "RUNNING"}
              \cup Transient

(* sl_core_llr_setup_should_stop and sl_core_llr_start_should_stop *)
ShouldStop == [setup |-> {"SETUP_CANCELING", "SETUP_TIMEOUT", "SETUP_STOPPING"},
               start |-> Transient]

(* What a callback that reads this state enqueues: sl_ctrl_llr_setup_callback *)
(* and sl_ctrl_llr_start_callback.                                            *)
Note(p, s) ==
    CASE s = Done[p]     -> [setup |-> "LLR_SETUP", start |-> "LLR_RUNNING"][p]
      [] s = TimedOut[p] -> [setup |-> "LLR_SETUP_TIMEOUT",
                             start |-> "LLR_START_TIMEOUT"][p]
      [] s = From[p]     -> "LLR_CANCELED"
      [] OTHER           -> "LLR_ERROR"

Notes == {"none", "LLR_SETUP", "LLR_RUNNING", "LLR_SETUP_TIMEOUT",
          "LLR_START_TIMEOUT", "LLR_CANCELED", "LLR_ERROR"}

(* A step of a thread is about an attempt or about a work. *)
Labels ==
    {Idle, <<"del", "none">>, <<"freed", "none">>, <<"stop_wait", "none">>}
    \cup ({"store", "arm", "queue", "cancel", "stop", "enable", "fail", "check",
           "disarm", "publish", "teardown", "settle", "cb", "complete"}
              \X Attempts)
    \cup ({"wait", "del"} \X Works)

VARIABLES
    state,       \* core_llr->state
    stopDone,    \* core_llr->stop_complete
    stored,      \* attempts whose callback has ever been stored
    dataValid,   \* core_llr->is_data_valid
    deleting,    \* the last reference is gone: sl_ctrl_llr_release runs
    due,         \* accepted attempts whose callback has not been called yet
    note,        \* the last notification a callback enqueued
    calls,       \* attempts accepted so far
    faults       \* faults injected so far

vars == <<state, queued, pc, armed, intrOn, stopDone, stored, dataValid,
          deleting, due, note, calls, faults>>

kernel  == <<queued, armed, intrOn>>
object  == <<stored, dataValid, deleting>>
answer  == <<due, note>>
budget  == <<calls, faults>>

(* Every variable of the LLR stays in its range: the state is one of the     *)
(* LLR's enum and every thread is at a step of the functions modelled.       *)
TypeOK ==
    /\ state \in States
    /\ queued \subseteq Works
    /\ pc \in [Threads -> Labels]
    /\ armed \subseteq Attempts
    /\ intrOn \subseteq Attempts
    /\ stopDone \in BOOLEAN
    /\ stored \subseteq Attempts
    /\ dataValid \in BOOLEAN
    /\ deleting \in BOOLEAN
    /\ due \in [Attempts -> Int]
    /\ note \in Notes
    /\ calls \in 0..MaxCalls
    /\ faults \in 0..MaxFaults

Init ==
    /\ state = "NEW"
    /\ queued = {}
    /\ pc = [t \in Threads |-> Idle]
    /\ armed = {}
    /\ intrOn = {}
    /\ stopDone = FALSE
    /\ stored = {}
    /\ dataValid = FALSE
    /\ deleting = FALSE
    /\ due = [p \in Attempts |-> 0]
    /\ note = "none"
    /\ calls = 0
    /\ faults = 0

-----------------------------------------------------------------------------
(* Timers, interrupts, faults and callbacks *)

(* sl_core_timer_llr_timeout *)
TimerExpire(p) ==
    /\ p \in armed
    /\ armed' = armed \ {p}
    /\ QueueWork(TimeoutWork[p])
    /\ UNCHANGED <<state, pc, intrOn, stopDone, object, answer, budget>>

(* sl_core_hw_intr_llr_hdlr: the handler disables its own interrupt. *)
IntrFire(p) ==
    /\ p \in intrOn
    /\ intrOn' = intrOn \ {p}
    /\ QueueWork(IntrWork[p])
    /\ UNCHANGED <<state, pc, armed, stopDone, object, answer, budget>>

Fault == faults < MaxFaults /\ faults' = faults + 1

(* The callbacks read core_llr->state without the lock.  The retry of       *)
(* SL_LLR_POLICY_OPT_CONTINUOUS_START_TRIES calls sl_core_llr_start in      *)
(* state START_TIMEOUT, which that function refuses: it changes nothing.    *)
Callback(p) ==
    /\ due' = [due EXCEPT ![p] = @ - 1]
    /\ note' = Note(p, state)

(* Mutant: the attempt is decided without looking at the state again. *)
ClaimBlind(t, p, s, next) == state' = s /\ Go(t, next)

(* A work decides a busy attempt, under data_lock; it goes away if another  *)
(* thread decided it before.                                                *)
Claim(t, p, s, next) ==
    IF state = Busy[p] THEN state' = s /\ Go(t, next)
                       ELSE Go(t, Idle) /\ UNCHANGED state

-----------------------------------------------------------------------------
(* Client commands *)

Calling(c) == pc[c] = Idle /\ ~deleting

LlrConfigSet(c) ==
    /\ Calling(c)
    /\ state \in {"NEW", "CONFIGURED"}
    /\ state' = "CONFIGURED"
    /\ UNCHANGED <<kernel, pc, stopDone, object, answer, budget>>

(* sl_core_llr_setup and sl_core_llr_start.  The settings of a setup may be *)
(* refused: the call fails and the state stays SETTING_UP.                  *)
LlrBegin(c, p) ==
    /\ Calling(c)
    /\ calls < MaxCalls
    /\ state = From[p]
    /\ state' = Busy[p]
    /\ calls' = calls + 1
    /\ \/ Go(c, <<"store", p>>) /\ due' = [due EXCEPT ![p] = @ + 1]
          /\ UNCHANGED faults
       \/ p = "setup" /\ Fault /\ UNCHANGED <<pc, due>>
    /\ UNCHANGED <<kernel, stopDone, object, note>>

(* Mutant: the callback is stored by the setup only. *)
CmdStoreSetup(c, p) ==
    /\ At(c, "store", p)
    /\ stopDone' = FALSE
    /\ stored' = stored \cup ({p} \cap {"setup"})
    /\ Go(c, <<"arm", p>>)
    /\ UNCHANGED <<state, kernel, dataValid, deleting, answer, budget>>

(* sl_core_hw_llr_setup_cmd and sl_core_hw_llr_start_cmd: the completion    *)
(* and the callback; the timer, under data_lock; the interrupt and the work *)
CmdStore(c, p) ==
    /\ At(c, "store", p)
    /\ stopDone' = FALSE
    /\ stored' = stored \cup {p}
    /\ Go(c, <<"arm", p>>)
    /\ UNCHANGED <<state, kernel, dataValid, deleting, answer, budget>>

(* Mutant: the timer starts for SETTING_UP only. *)
TimerBeginSetup(c, p) ==
    /\ At(c, "arm", p)
    /\ armed' = IF state = Busy["setup"] THEN armed \cup {p} ELSE armed
    /\ Go(c, <<"queue", p>>)
    /\ UNCHANGED <<state, queued, intrOn, stopDone, object, answer, budget>>

TimerBegin(c, p) ==
    /\ At(c, "arm", p)
    /\ armed' = IF state \in {Busy[a] : a \in Attempts} THEN armed \cup {p}
                                                        ELSE armed
    /\ Go(c, <<"queue", p>>)
    /\ UNCHANGED <<state, queued, intrOn, stopDone, object, answer, budget>>

CmdQueue(c, p) ==
    /\ At(c, "queue", p)
    /\ intrOn' = intrOn \ {p}
    /\ QueueWork(p)
    /\ Go(c, Idle)
    /\ UNCHANGED <<state, armed, stopDone, object, answer, budget>>

Returned == IF deleting' THEN <<"del", "none">> ELSE Idle

(* The critical section of sl_core_llr_stop *)
StopDecision(c) ==
    \/ state \in {"NEW", "CONFIGURED"} /\ Go(c, Returned) /\ UNCHANGED state
    \/ \E p \in Attempts :
          /\ state = Busy[p]
          /\ state' = Canceling[p]
          /\ Go(c, <<"cancel", p>>)
    \/ /\ state = "SETUP"
       /\ state' = "SETUP_STOPPING"
       /\ Go(c, <<"stop", "setup">>)
    \/ /\ state = "RUNNING"
       /\ state' = "STOPPING"
       /\ Go(c, <<"stop", "start">>)
    \/ state \in Transient /\ Go(c, <<"stop_wait", "none">>) /\ UNCHANGED state

LlrStop(c) ==
    /\ Calling(c)
    /\ UNCHANGED <<kernel, stopDone, object, answer, budget>>
    /\ StopDecision(c)

(* sl_ctrl_llr_release, on the last kref_put: stop, then delete. *)
LlrRelease(c) ==
    /\ ~deleting
    /\ \A k \in Clients : pc[k] = Idle
    /\ deleting' = TRUE
    /\ StopDecision(c)
    /\ UNCHANGED <<kernel, stopDone, stored, dataValid, answer, budget>>

(* sl_core_hw_llr_settingup_cancel_cmd and sl_core_hw_llr_starting_cancel_cmd *)
CancelCmd(c, p) ==
    /\ \/ /\ At(c, "cancel", p)
          /\ armed' = armed \ {p}
          /\ Cancel(c, "wait", p)
          /\ UNCHANGED <<state, intrOn, answer>>
       \/ /\ Waited(c, "wait", p)
          /\ Cancel(c, "wait", TimeoutWork[p])
          /\ UNCHANGED <<state, armed, intrOn, answer>>
       \/ /\ Waited(c, "wait", TimeoutWork[p])
          /\ intrOn' = intrOn \ {p}
          /\ Cancel(c, "wait", IntrWork[p])
          /\ UNCHANGED <<state, armed, answer>>
       \/ /\ Waited(c, "wait", IntrWork[p])
          /\ state' = From[p]
          /\ Go(c, <<"cb", p>>)
          /\ UNCHANGED <<kernel, answer>>
       \/ /\ At(c, "cb", p)
          /\ Callback(p)
          /\ Go(c, <<"complete", p>>)
          /\ UNCHANGED <<state, kernel>>
    /\ UNCHANGED <<stopDone, object, budget>>

(* Mutant: both stops clear the loop time data. *)
StopCmdClears(c, p) ==
    /\ At(c, "stop", p)
    /\ state' = From[p]
    /\ dataValid' = FALSE
    /\ Go(c, <<"complete", p>>)
    /\ UNCHANGED <<kernel, stopDone, stored, deleting, answer, budget>>

(* sl_core_hw_llr_setup_stop_cmd and sl_core_hw_llr_running_stop_cmd *)
StopCmd(c, p) ==
    /\ At(c, "stop", p)
    /\ state' = From[p]
    /\ dataValid' = (dataValid /\ p # "setup")
    /\ Go(c, <<"complete", p>>)
    /\ UNCHANGED <<kernel, stopDone, stored, deleting, answer, budget>>

StopComplete(c, p) ==
    /\ At(c, "complete", p)
    /\ stopDone' = TRUE
    /\ UNCHANGED <<state, kernel, object, answer, budget>>
    /\ Go(c, Returned)

(* sl_core_hw_llr_stop_wait: 0 once completed, else -ETIMEDOUT *)
StopWaited(c) ==
    /\ At(c, "stop_wait", "none")
    /\ stopDone
    /\ UNCHANGED <<state, kernel, stopDone, object, answer, budget>>
    /\ Go(c, Returned)

StopTimedOut(c) ==
    /\ At(c, "stop_wait", "none")
    /\ ~stopDone
    /\ UNCHANGED <<state, kernel, stopDone, object, answer, budget>>
    /\ Go(c, Returned)

(* Mutant: deletion forgets the loop time work. *)
DelNextShort == [setup         |-> "setup_timeout", setup_timeout |-> "start",
                 start         |-> "start_timeout",
                 start_timeout |-> "init_complete"]

(* sl_core_data_llr_del *)
DelNext == [setup         |-> "setup_timeout", setup_timeout |-> "start",
            start         |-> "start_timeout", start_timeout |-> "loop_time",
            loop_time     |-> "init_complete"]

LlrDel(c) ==
    /\ \/ /\ At(c, "del", "none")
          /\ armed' = {}
          /\ Cancel(c, "del", "setup")
          /\ UNCHANGED intrOn
       \/ \E w \in DOMAIN DelNext :
             /\ Waited(c, "del", w)
             /\ intrOn' = IF w = "start_timeout" THEN {} ELSE intrOn
             /\ Cancel(c, "del", DelNext[w])
             /\ UNCHANGED armed
       \/ /\ Waited(c, "del", "init_complete")
          /\ Go(c, <<"freed", "none">>)
          /\ UNCHANGED kernel
    /\ UNCHANGED <<state, stopDone, object, answer, budget>>

(* The object is gone and nobody holds a reference: the end of a behaviour *)
Freed == \E c \in Clients : At(c, "freed", "none")

Gone == Freed /\ UNCHANGED vars

ClientCall(c) ==
    \/ LlrConfigSet(c) \/ LlrStop(c) \/ LlrRelease(c)
    \/ \E p \in Attempts : LlrBegin(c, p)

ClientStep(c) ==
    \/ \E p \in Attempts : CmdStore(c, p) \/ TimerBegin(c, p) \/ CmdQueue(c, p)
                           \/ CancelCmd(c, p) \/ StopCmd(c, p)
                           \/ StopComplete(c, p)
    \/ StopWaited(c) \/ StopTimedOut(c) \/ LlrDel(c)

-----------------------------------------------------------------------------
(* Work items *)

(* sl_core_hw_llr_setup_work and sl_core_hw_llr_start_work *)
AttemptWork(p) ==
    /\ \/ /\ Take(p)
          /\ Go(p, IF state = Busy[p] THEN <<"enable", p>> ELSE Idle)
          /\ UNCHANGED <<state, armed, intrOn, stopDone, answer, faults>>
       \/ /\ At(p, "enable", p)
          /\ \/ intrOn' = intrOn \cup {p} /\ Go(p, Idle)
                /\ UNCHANGED <<armed, faults>>
             \/ Fault /\ armed' = armed \ {p} /\ Go(p, <<"fail", p>>)
                /\ UNCHANGED intrOn
          /\ UNCHANGED <<state, queued, stopDone, answer>>
       \/ /\ At(p, "fail", p)
          /\ state' = Canceling[p]
          /\ intrOn' = intrOn \ {p}
          /\ Cancel(p, "wait", IntrWork[p])
          /\ UNCHANGED <<armed, stopDone, answer, faults>>
       \/ /\ Waited(p, "wait", IntrWork[p])
          /\ state' = From[p]
          /\ Go(p, <<"cb", p>>)
          /\ UNCHANGED <<kernel, stopDone, answer, faults>>
       \/ /\ At(p, "cb", p)
          /\ Callback(p)
          /\ Go(p, <<"complete", p>>)
          /\ UNCHANGED <<state, kernel, stopDone, faults>>
       \/ /\ At(p, "complete", p)
          /\ stopDone' = TRUE
          /\ Go(p, Idle)
          /\ UNCHANGED <<state, kernel, answer, faults>>
    /\ UNCHANGED <<object, calls>>

(* sl_core_hw_llr_setup_loop_time_intr_work and                     *)
(* sl_core_hw_llr_start_init_complete_intr_work                     *)
AttemptIntrWork(p) ==
    LET w == IntrWork[p] IN
    /\ \/ /\ Take(w)
          /\ Go(w, IF state = Busy[p] THEN <<"check", p>> ELSE Idle)
          /\ UNCHANGED <<state, armed, intrOn, dataValid, answer>>
       \/ /\ At(w, "check", p)
          /\ IF state \in ShouldStop[p]
             THEN Go(w, Idle) /\ UNCHANGED dataValid
             ELSE Go(w, <<"disarm", p>>) /\ dataValid' = (dataValid \/ p = "setup")
          /\ UNCHANGED <<state, kernel, answer>>
       \/ /\ At(w, "disarm", p)
          /\ armed' = armed \ {p}
          /\ Go(w, <<"publish", p>>)
          /\ UNCHANGED <<state, queued, intrOn, dataValid, answer>>
       \/ /\ At(w, "publish", p)
          /\ Claim(w, p, Done[p], <<"cb", p>>)
          /\ UNCHANGED <<kernel, dataValid, answer>>
       \/ /\ At(w, "cb", p)
          /\ Callback(p)
          /\ Go(w, Idle)
          /\ UNCHANGED <<state, kernel, dataValid>>
    /\ UNCHANGED <<stopDone, stored, deleting, budget>>

(* sl_core_hw_llr_setup_timeout_work cancels no work;               *)
(* sl_core_hw_llr_start_timeout_work cancels the other two.         *)
AttemptTimeoutWork(p) ==
    LET w == TimeoutWork[p] IN
    /\ \/ /\ Take(w)
          /\ Claim(w, p, TimedOut[p], <<"teardown", p>>)
          /\ UNCHANGED <<armed, intrOn, stopDone, answer>>
       \/ /\ At(w, "teardown", p)
          /\ IF p = "setup"
             THEN /\ intrOn' = intrOn \ {p}
                  /\ Go(w, <<"cb", p>>)
                  /\ UNCHANGED queued
             ELSE Cancel(w, "wait", p) /\ UNCHANGED intrOn
          /\ UNCHANGED <<state, armed, stopDone, answer>>
       \/ /\ Waited(w, "wait", p)
          /\ intrOn' = intrOn \ {p}
          /\ Cancel(w, "wait", IntrWork[p])
          /\ UNCHANGED <<state, armed, stopDone, answer>>
       \/ /\ Waited(w, "wait", IntrWork[p])
          /\ Go(w, <<"cb", p>>)
          /\ UNCHANGED <<state, kernel, stopDone, answer>>
       \/ /\ At(w, "cb", p)
          /\ Callback(p)
          /\ Go(w, <<"settle", p>>)
          /\ UNCHANGED <<state, kernel, stopDone>>
       \/ /\ At(w, "settle", p)
          /\ state' = From[p]
          /\ Go(w, <<"complete", p>>)
          /\ UNCHANGED <<kernel, stopDone, answer>>
       \/ /\ At(w, "complete", p)
          /\ stopDone' = TRUE
          /\ Go(w, Idle)
          /\ UNCHANGED <<state, kernel, answer>>
    /\ UNCHANGED <<object, budget>>

WorkStep(p) == AttemptWork(p) \/ AttemptIntrWork(p) \/ AttemptTimeoutWork(p)

Next ==
    \/ \E c \in Clients : ClientCall(c) \/ ClientStep(c)
    \/ \E p \in Attempts : WorkStep(p) \/ TimerExpire(p) \/ IntrFire(p)
    \/ Gone

Spec == Init /\ [][Next]_vars

(* A thread inside a call, a queued or running work and a pending timer all  *)
(* go on; clients call and interrupts fire when they like.                   *)
Fairness ==
    /\ \A c \in Clients : WF_vars(ClientStep(c))
    /\ \A p \in Attempts :
          /\ WF_vars(AttemptWork(p))
          /\ WF_vars(AttemptIntrWork(p))
          /\ WF_vars(AttemptTimeoutWork(p))
          /\ WF_vars(TimerExpire(p))

FairSpec == Spec /\ Fairness

-----------------------------------------------------------------------------
(* Properties *)

(* The steps of an attempt that has been decided and not answered yet *)
Deciding(p) == {<<"cancel", p>>, <<"teardown", p>>, <<"cb", p>>}
               \cup {<<"wait", w>> : w \in {p, TimeoutWork[p], IntrWork[p]}}

(* Every accepted setup and every accepted start is owed exactly one        *)
(* callback: by its busy state until one of the success, the timeout and    *)
(* the stop wins the lock, and by the one winner from then on.  Two winners *)
(* or none would be a callback called twice or never.                       *)
AnsweredOnce ==
    \A p \in Attempts :
        due[p] = (IF state = Busy[p] THEN 1 ELSE 0)
                 + Cardinality({t \in Threads : pc[t] \in Deciding(p)})

(* The steps of a thread that is going to write the state of attempt p      *)
(* whatever it is by then                                                   *)
Settling(t) ==
    \/ \E p \in Attempts : pc[t] \in {<<"cancel", p>>, <<"stop", p>>,
                                      <<"teardown", p>>, <<"settle", p>>,
                                      <<"fail", p>>}
    \/ \E w \in Works : At(t, "wait", w)
    \/ \E p \in Attempts : t = TimeoutWork[p] /\ At(t, "cb", p)

(* A transient state has exactly one thread that will leave it, and no      *)
(* thread writes the state unconditionally in any other state: nobody's     *)
(* teardown overwrites the attempt that came after it.                      *)
OneSettler ==
    Cardinality({t \in Threads : Settling(t)})
        = IF state \in Transient THEN 1 ELSE 0

(* An LLR that says it is set up, or that starts from its setup, has the    *)
(* loop time data of a measurement: no state past SETUP without it.         *)
SetupHasData ==
    state \in {"SETUP", "STARTING", "START_TIMEOUT", "START_CANCELING",
               "RUNNING", "STOPPING"} => dataValid

(* A callback is never called before one was stored (NULL otherwise).       *)
CallbackStored ==
    \A t \in Threads, p \in Attempts : At(t, "cb", p) => p \in stored

(* As long as no setting was refused and no enable failed, a client that     *)
(* makes one call at a time never has a callback called before it is stored. *)
StoredWithoutFault == faults = 0 => CallbackStored

(* When sl_core_data_llr_del frees the object nothing that points to it is  *)
(* left: no timer, no interrupt, no pending and no running work.            *)
FreedQuiet ==
    Freed => /\ queued = {} /\ armed = {} /\ intrOn = {}
             /\ \A w \in Works : pc[w] = Idle

(* Every accepted setup and start is answered by its callback in the end,    *)
(* and no busy and no transient state lasts: the timer, the interrupt or a   *)
(* stop decides the attempt, and who entered a state leaves it.  Refused     *)
(* settings leave an attempt that nothing decides but a stop, so they are    *)
(* set aside.                                                                *)
NeverStuck ==
    /\ \A p \in Attempts : []<>(faults > 0 \/ due[p] = 0)
    /\ []<>(faults > 0 \/ state \in {"NEW", "CONFIGURED", "SETUP", "RUNNING"})

=============================================================================
