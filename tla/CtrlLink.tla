------------------------------ MODULE CtrlLink ------------------------------
(***************************************************************************)
(* The control layer of one link on top of its core: the API of            *)
(* ctrl/sl_ctrl_link.c and the callbacks of ctrl/sl_ctrl_link_priv.c.      *)
(*                                                                         *)
(* The control layer has a state and a lock of its own.  A command takes   *)
(* its state, releases the lock and then calls the core; the core answers  *)
(* through callbacks that run inside its work items, where a failed        *)
(* attempt may be tried again.  Every critical section of either lock is a *)
(* step; queueing a notification is a step, and so is the wake-up of the   *)
(* threads that wait for the link to come down.                            *)
(*                                                                         *)
(* Left out: counters, clocks except the attempt count, causes, the FEC    *)
(* monitor and the notification queue behind sl_ctrl_lgrp_notif_enqueue.   *)
(***************************************************************************)
EXTENDS CoreLink

CONSTANTS
    Calls,       \* what the clients call: "up", "down", "reset", "async"
    MaxTries,    \* config.link_up_tries_max
    DownReq      \* SL_LINK_POLICY_OPT_LINK_DOWN_REQ

ASSUME CtrlAssumption ==
    /\ Calls \subseteq {"up", "down", "reset", "async"}
    /\ MaxTries \in Nat \ {0}
    /\ DownReq \in BOOLEAN

CtrlLabels ==
    Labels
    \cup {Step(s) : s \in {"up_begin", "up_core", "up_refuse", "up_refused",
                           "cancel", "down", "async", "up_fail", "retry",
                           "stopping"}}
    \cup {"settle", "notify"} \X {"up", "down"}

VARIABLES
    ctrl,        \* ctrl_link->state
    canceled,    \* ctrl_link->is_canceled
    tries,       \* ctrl_link->up_clock.attempt_count
    owed         \* ups that returned 0 and whose end is not notified yet

ctrlVars == <<ctrl, canceled, tries, owed>>

allVars == <<vars, ctrlVars>>

coreVars == <<state, kernel, link, ghosts>>

(* The variables of the control layer stay in their ranges: an attempt is    *)
(* never tried more often than config.link_up_tries_max.                     *)
CtrlTypeOK ==
    /\ pc \in [Threads -> CtrlLabels]
    /\ ctrl \in {"DOWN", "STARTING", "UP", "UP_DOWN_REQ", "STOPPING"}
    /\ canceled \in BOOLEAN
    /\ tries \in 0..MaxTries
    /\ owed \in Int

CtrlInit ==
    /\ Init
    /\ ctrl = "DOWN"
    /\ canceled = FALSE
    /\ tries = 0
    /\ owed = 0

-----------------------------------------------------------------------------
(* The calls of the core: taken, or nothing to do for it (both return 0), or *)
(* refused                                                                   *)

CoreUp(t, next) ==
    \/ UpAccept(t)
    \/ UpAlready /\ Go(t, next) /\ UNCHANGED coreVars

CoreUpFails(t, next) ==
    /\ UpRefused
    /\ Go(t, next)
    /\ UNCHANGED <<state, kernel, link, loose, due, ups>>

CoreCancel(t) ==
    /\ \/ CancelAccept(t)
       \/ (DownAlready \/ DownRefused("up_cancel")) /\ Go(t, Idle)
          /\ UNCHANGED state
    /\ UNCHANGED <<kernel, link, ghosts>>

CoreDown(t) ==
    /\ \/ DownAccept(t)
       \/ (DownAlready \/ DownRefused("down")) /\ Go(t, Idle)
          /\ UNCHANGED state
    /\ UNCHANGED <<kernel, link, ghosts>>

-----------------------------------------------------------------------------
(* Link up: sl_ctrl_link_up and sl_ctrl_link_up_cmd *)

LinkUp(c) ==
    /\ "up" \in Calls /\ ups < MaxUps
    /\ pc[c] = Idle
    /\ ctrl = "DOWN"
    /\ ctrl' = "STARTING"
    /\ Go(c, Step("up_begin"))
    /\ UNCHANGED <<coreVars, canceled, tries, owed>>

LinkUpCmd(c) ==
    \/ /\ At(c, "up_begin", "none")
       /\ canceled' = FALSE
       /\ tries' = 1
       /\ Go(c, Step("up_core"))
       /\ UNCHANGED <<coreVars, ctrl, owed>>
    \/ /\ At(c, "up_core", "none")
       /\ \/ CoreUp(c, Idle) /\ owed' = owed + 1
          \/ CoreUpFails(c, Step("up_refuse")) /\ UNCHANGED owed
       /\ UNCHANGED <<ctrl, canceled, tries>>
    \/ /\ At(c, "up_refuse", "none")
       /\ ctrl' = "STOPPING"
       /\ Go(c, Step("up_refused"))
       /\ UNCHANGED <<coreVars, canceled, tries, owed>>
    \/ /\ At(c, "up_refused", "none")
       /\ ctrl' = "DOWN"
       /\ tries' = 0
       /\ Go(c, Idle)
       /\ UNCHANGED <<coreVars, canceled, owed>>

-----------------------------------------------------------------------------
(* Link down: sl_ctrl_link_down, sl_ctrl_link_reset, sl_ctrl_link_async_down *)

LinkDown(c) ==
    /\ "down" \in Calls
    /\ pc[c] = Idle
    /\ \/ ctrl = "STARTING" /\ canceled' = TRUE /\ Go(c, Step("cancel"))
       \/ ctrl \in {"UP", "UP_DOWN_REQ"} /\ UNCHANGED canceled
          /\ Go(c, Step("down"))
    /\ ctrl' = "STOPPING"
    /\ UNCHANGED <<coreVars, tries, owed>>

(* A reset takes an attempt down as if it were up.  What it stops before and *)
(* resets after a wait of bounded time is not part of this model.            *)
LinkReset(c) ==
    /\ "reset" \in Calls
    /\ pc[c] = Idle
    /\ ctrl \in {"STARTING", "UP", "UP_DOWN_REQ"}
    /\ canceled' = (canceled \/ ctrl = "STARTING")
    /\ ctrl' = "STOPPING"
    /\ Go(c, Step("down"))
    /\ UNCHANGED <<coreVars, tries, owed>>

(* Mutant: an attempt is taken down as if it were up. *)
LinkAsyncDownBlind(c) ==
    /\ "async" \in Calls
    /\ pc[c] = Idle
    /\ tries' = 0
    /\ ctrl \in {"STARTING", "UP"} /\ ctrl' = "STOPPING" /\ Go(c, Step("async"))
    /\ UNCHANGED <<coreVars, canceled, owed>>

(* Most callers force the link down; one that asks first leaves it up when   *)
(* the policy says so.                                                       *)
LinkAsyncDown(c) ==
    /\ "async" \in Calls
    /\ pc[c] = Idle
    /\ tries' = 0
    /\ \/ ctrl = "UP" /\ ctrl' = "STOPPING" /\ Go(c, Step("async"))
       \/ ctrl = "UP" /\ DownReq /\ ctrl' = "UP_DOWN_REQ" /\ UNCHANGED pc
       \/ ctrl # "UP" /\ UNCHANGED <<ctrl, pc>>
    /\ UNCHANGED <<coreVars, canceled, owed>>

LinkDownCmd(c) ==
    \/ /\ At(c, "cancel", "none")
       /\ CoreCancel(c)
       /\ UNCHANGED ctrlVars
    \/ /\ At(c, "down", "none")
       /\ tries' = 0
       /\ CoreDown(c)
       /\ UNCHANGED <<ctrl, canceled, owed>>
    \/ /\ At(c, "async", "none")
       /\ CoreDown(c)
       /\ UNCHANGED ctrlVars

-----------------------------------------------------------------------------
(* The callbacks, inside the works of the core *)

(* sl_ctrl_link_up_callback: success *)
UpCallbackUp(t) ==
    /\ At(t, "up_cb", "up")
    /\ due' = due - 1
    /\ ctrl' = "UP"
    /\ Go(t, <<"notify", "up">>)
    /\ UNCHANGED <<state, kernel, link, loose, ups, fails, canceled, tries,
                   owed>>

(* The end of an attempt reports the state the core has by then. *)
UpCallbackRead(t) ==
    /\ At(t, "up_cb", "read")
    /\ due' = due - 1
    /\ \/ state = "UP" /\ ctrl' = "UP" /\ Go(t, <<"notify", "up">>)
       \/ /\ state # "UP"
          /\ Go(t, Step(IF state = "DOWN" THEN "up_fail" ELSE "stopping"))
          /\ UNCHANGED ctrl
    /\ UNCHANGED <<state, kernel, link, loose, ups, fails, canceled, tries,
                   owed>>

(* It ends here when it was canceled, when it was the last try or when its   *)
(* cause is fatal.                                                           *)
UpCallbackFail(t) ==
    /\ At(t, "up_fail", "none")
    /\ \/ Go(t, Step("stopping")) /\ UNCHANGED tries
       \/ /\ ~canceled /\ tries < MaxTries
          /\ ups < MaxUps
          /\ tries' = tries + 1
          /\ Go(t, Step("retry"))
    /\ UNCHANGED <<coreVars, ctrl, canceled, owed>>

(* Mutant: a refused retry returns its error at once. *)
UpCallbackRetryQuiet(t) ==
    /\ \/ /\ At(t, "retry", "none")
          /\ CoreUp(t, AfterUpCallback(t)) \/ CoreUpFails(t, Idle)
       \/ UpCmd(t, AfterUpCallback(t))
    /\ UNCHANGED ctrlVars

UpCallbackRetry(t) ==
    /\ \/ /\ At(t, "retry", "none")
          /\ \/ CoreUp(t, AfterUpCallback(t))
             \/ CoreUpFails(t, Step("stopping"))
       \/ UpCmd(t, AfterUpCallback(t))
    /\ UNCHANGED ctrlVars

(* sl_ctrl_link_state_stopping_set *)
Stopping(t) ==
    /\ At(t, "stopping", "none")
    /\ ctrl' = IF ctrl = "DOWN" THEN "DOWN" ELSE "STOPPING"
    /\ tries' = 0
    /\ Go(t, <<"settle", "up">>)
    /\ UNCHANGED <<coreVars, canceled, owed>>

Settled(t) ==
    /\ pc[t][1] = "settle"
    /\ ctrl' = "DOWN"
    /\ Go(t, <<"notify", pc[t][2]>>)
    /\ UNCHANGED <<coreVars, canceled, tries, owed>>

(* A cancel calls the down callback after the up callback. *)
Notify(t) ==
    /\ pc[t][1] = "notify"
    /\ owed' = IF pc[t][2] = "up" THEN owed - 1 ELSE owed
    /\ Go(t, IF pc[t][2] = "up" THEN AfterUpCallback(t) ELSE Idle)
    /\ UNCHANGED <<coreVars, ctrl, canceled, tries>>

(* sl_ctrl_link_down_callback and sl_ctrl_link_async_down_callback do nothing *)
(* when the core is not down any more.                                        *)
DownCallback(t) ==
    /\ At(t, "down_cb", "none")
    /\ Go(t, IF state = "DOWN" THEN <<"settle", "down">> ELSE Idle)
    /\ UNCHANGED <<coreVars, ctrlVars>>

(* sl_ctrl_link_fault_start_callback, inside the lock of the core *)
FaultStartCallback(w) ==
    /\ FaultStart(w)
    /\ ctrl' = IF state = "UP" THEN "STOPPING" ELSE ctrl
    /\ UNCHANGED <<canceled, tries, owed>>

(* sl_ctrl_link_fault_callback: DOWN, whatever the core's state *)
FaultCallback(w) ==
    /\ At(w, "fault_cb", "none")
    /\ tries' = 0
    /\ Go(w, <<"settle", "down">>)
    /\ UNCHANGED <<coreVars, ctrl, canceled, owed>>

-----------------------------------------------------------------------------

(* sl_ctrl_link_config_set gives its lock back between the look at the state  *)
(* and the core's config_set; what is configured decides nothing here.        *)
CtrlCall(c) ==
    \/ LinkUp(c) \/ LinkDown(c) \/ LinkReset(c) \/ LinkAsyncDown(c)
    \/ /\ ctrl = "DOWN"
       /\ ConfigSet(c)
       /\ UNCHANGED ctrlVars

CtrlClientStep(c) ==
    \/ LinkUpCmd(c) \/ LinkDownCmd(c)
    \/ ClientStep(c) /\ UNCHANGED ctrlVars

CtrlCallback(t) ==
    \/ UpCallbackUp(t) \/ UpCallbackRead(t) \/ UpCallbackFail(t)
    \/ UpCallbackRetry(t)
    \/ Stopping(t) \/ Settled(t) \/ Notify(t) \/ DownCallback(t)
    \/ t \in FaultWorks /\ (FaultStartCallback(t) \/ FaultCallback(t))

CtrlWorkStep(t) == (LinkWork(t) /\ UNCHANGED ctrlVars) \/ CtrlCallback(t)

CtrlNext ==
    \/ \E c \in Clients : CtrlCall(c) \/ CtrlClientStep(c)
    \/ \E t \in Works : CtrlWorkStep(t)
    \/ \E tm \in DOMAIN TimerWork : TimerExpire(tm) /\ UNCHANGED ctrlVars
    \/ \E i \in DOMAIN IntrWork : IntrFire(i) /\ UNCHANGED ctrlVars

CtrlSpec == CtrlInit /\ [][CtrlNext]_allVars

(* As in CoreLink: what was begun goes on. *)
CtrlFairness ==
    /\ \A c \in Clients : WF_allVars(CtrlClientStep(c))
    /\ \A t \in Works : WF_allVars(CtrlWorkStep(t))
    /\ \A tm \in DOMAIN TimerWork :
          WF_allVars(TimerExpire(tm) /\ UNCHANGED ctrlVars)

CtrlFairSpec == CtrlSpec /\ CtrlFairness

-----------------------------------------------------------------------------
(* Properties *)

(* Nothing of the link is going on: no thread, no queued work, no timer.     *)
Quiet == queued = {} /\ armed = {} /\ \A t \in Threads : pc[t] = Idle

(* When nothing is going on the two layers agree, and neither is on its way: *)
(* no answer of the core got lost, none was applied to the wrong attempt.    *)
(* What the control layer keeps stays in its ranges meanwhile.               *)
Agreement ==
    /\ CtrlTypeOK
    /\ Quiet /\ state # "UNCONFIGURED" =>
          /\ ctrl \in {"UP", "UP_DOWN_REQ"} => state = "UP"
          /\ ctrl = "DOWN" => state \in {"CONFIGURED", "DOWN"}
          /\ ctrl \in {"UP", "UP_DOWN_REQ", "DOWN"}

(* Every up that returned 0 is told its end exactly once, however often the  *)
(* attempt was retried: up, failed, or an error.                             *)
ToldOnce == owed >= 0 /\ (Quiet => owed = 0)

(* A link that was told to come down does not come up.                       *)
DownStays == [][ctrl = "STOPPING" => ctrl' # "UP"]_allVars

(* No command leaves the link half way: it is up or down again and again.    *)
CtrlSettles == []<>(ctrl \in {"DOWN", "UP", "UP_DOWN_REQ"})

=============================================================================
