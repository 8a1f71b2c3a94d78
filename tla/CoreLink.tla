------------------------------ MODULE CoreLink ------------------------------
(***************************************************************************)
(* The core state machine of one link: core/sl_core_link.c (the commands,  *)
(* under data_lock), core/hw/sl_core_hw_link.c and sl_core_hw_an_up.c (the *)
(* work items of an attempt to come up, of its three ends and of a link    *)
(* that goes down), with their timers (core/base/sl_core_timer_link.c) and *)
(* interrupts (core/hw/sl_core_hw_intr.c, sl_core_hw_an.c).                *)
(*                                                                         *)
(* An attempt runs through its works, each handing over to the next by     *)
(* queue_work, a timer or an interrupt, until one publishes UP.  Until     *)
(* then it may be ended by the timeout, by a cancel or by a failing work;  *)
(* each of these has a work that cancels all the others, one by one, turns *)
(* the link off, writes DOWN and calls the up callback.                    *)
(*                                                                         *)
(* Steps merge register accesses, info_map bits, fail causes and counters  *)
(* into the step beside them; an interrupt enable that reports -EALREADY   *)
(* is tried again within its step.  sl_core_hw_link_off changes nothing    *)
(* that is modelled here, but it sleeps, so it ends a step.                *)
(*                                                                         *)
(* Three things do outlive an attempt, and loose notes them: the first     *)
(* work of an up whose attempt was over when it queued it (UpCmd); the AN  *)
(* page interrupt, which no teardown disables (IntrFire, TeardownEnd); and *)
(* a watching interrupt that its work enables again on a leaving link,     *)
(* after the teardown has disabled it (Rearm).                             *)
(***************************************************************************)
EXTENDS Integers, Sequences, FiniteSets, Kernel

CONSTANTS
    Clients,     \* threads that may call the API of this link
    Autoneg,     \* SL_LINK_CONFIG_OPT_AUTONEG_ENABLE: what a config may say
    Settle,      \* fec.settings.up_settle_wait_ms # 0
    Monitors,    \* interrupts that watch the link beside the fault interrupt
    FaultPaths,  \* what a fault may lead to: "down", "rearm", "recover"
    MaxUps,      \* bound on the ups a client asks for
    MaxFails     \* bound on the steps of an attempt that fail

AnWorks     == IF TRUE \in Autoneg THEN {"an_up_start", "an_up", "an_up_done"}
                                   ELSE {}
SettleWorks == IF Settle THEN {"fec_settle", "fec_check"} ELSE {}
PollWorks   == IF "recover" \in FaultPaths THEN {"pml_poll"} ELSE {}
Enders      == {"up_timeout", "up_cancel", "up_fail"}

Works == AnWorks \cup {"up_start", "up", "up_intr", "up_check"} \cup SettleWorks
             \cup Enders \cup {"down", "fault"} \cup PollWorks \cup Monitors

ASSUME LinkClientsAssumption == Clients \cap Works = {}
ASSUME LinkOptionsAssumption ==
    /\ Autoneg \subseteq BOOLEAN /\ Autoneg # {}
    /\ Settle \in BOOLEAN
    /\ Monitors \subseteq {"high_ser", "llr_max", "llr_starved", "lane_degrade"}
    /\ FaultPaths \subseteq {"down", "rearm", "recover"}
ASSUME LinkBoundsAssumption == MaxUps \in Nat /\ MaxFails \in Nat

Threads == Works \cup Clients

(* Mutant: the high power timer is given its own number for its work's. *)
TimerWorkSelf == [link_up |-> "up_timeout", up_check |-> "up_check",
                  fec_settle |-> "fec_settle", fec_check |-> "fec_check",
                  high_power |-> "high_power"]

(* The work each timer and each interrupt queues: sl_core_data_link_init *)
TimerWork == [link_up |-> "up_timeout", up_check |-> "up_check",
              fec_settle |-> "fec_settle", fec_check |-> "fec_check",
              high_power |-> "up"]

IntrWork == [i \in {"link_up", "an_page", "fault"} \cup Monitors |->
                CASE i = "link_up" -> "up_intr"
                  [] i = "an_page" -> "an_up_done"
                  [] OTHER         -> i]

Rising  == {"AN", "GOING_UP"}
Leaving == {"CANCELING", "GOING_DOWN", "TIMEOUT"}
States  == {"UNCONFIGURED", "CONFIGURING", "CONFIGURED", "DOWN", "UP"}
               \cup Rising \cup Leaving

(* The interrupts an attempt disables before it starts, and its ends after *)
WatchIntrs == {"fault"} \cup Monitors
LinkIntrs  == {"link_up"} \cup WatchIntrs

(* The works each teardown cancels, in order; not every link has all of them *)
Existing(w) == IF w \in Works THEN <<w>> ELSE <<>>

WatchWorks == Existing("high_ser") \o Existing("llr_max") \o Existing("llr_starved")
                  \o <<"fault">> \o Existing("pml_poll") \o Existing("lane_degrade")

StartWorks == Existing("an_up_start") \o Existing("an_up") \o Existing("an_up_done")
                  \o <<"up_start", "up">>
CheckWorks == <<"up_check">> \o Existing("fec_settle") \o Existing("fec_check")

(* Mutant: the cancel does not wait for the checks of the attempt. *)
CancelListShort ==
    [up_timeout |-> StartWorks \o CheckWorks
                      \o <<"up_fail", "up_cancel", "up_intr">> \o WatchWorks,
     up_cancel  |-> StartWorks \o <<"up_timeout">>
                      \o <<"up_fail", "up_intr">> \o WatchWorks,
     up_fail    |-> StartWorks \o <<"up_timeout">> \o CheckWorks
                      \o <<"up_cancel", "up_intr">> \o WatchWorks,
     down       |-> WatchWorks]

CancelList ==
    [up_timeout |-> StartWorks \o CheckWorks
                      \o <<"up_fail", "up_cancel", "up_intr">> \o WatchWorks,
     up_cancel  |-> StartWorks \o <<"up_timeout">> \o CheckWorks
                      \o <<"up_fail", "up_intr">> \o WatchWorks,
     up_fail    |-> StartWorks \o <<"up_timeout">> \o CheckWorks
                      \o <<"up_cancel", "up_intr">> \o WatchWorks,
     down       |-> WatchWorks]

(* The work a teardown cancels after w; "none" after the last *)
Following ==
    [t \in DOMAIN CancelList |->
        LET list == CancelList[t] IN
        [w \in {list[i] : i \in DOMAIN list} |->
            LET i == CHOOSE i \in DOMAIN list : list[i] = w IN
            IF i = Len(list) THEN "none" ELSE list[i + 1]]]

Step(name) == <<name, "none">>

Labels ==
    {Step(s) : s \in {"idle", "up_cmd", "config", "begin", "serdes", "decide",
                      "after_an", "off", "check", "enable", "publish", "rearm",
                      "poll", "fault_start", "fault_cb", "down_cb"}}
    \cup {<<"up_cb", s>> : s \in {"up", "read"}}
    \cup {<<"queue", w>> : w \in {"up_cancel", "down"}}
    \cup {<<"wait", w>> : w \in Works}

VARIABLES
    state,       \* core_link->link.state
    recovering,  \* pml_rec_running
    autoneg,     \* the option of the last config
    loose,       \* something of an attempt is known to outlive it
    due,         \* accepted ups whose up callback has not been called yet
    ups,         \* ups accepted so far
    fails        \* failures injected so far

vars == <<state, queued, pc, armed, intrOn, recovering, autoneg, loose, due,
          ups, fails>>

kernel == <<queued, armed, intrOn>>
link   == <<recovering, autoneg>>
ghosts == <<loose, due, ups, fails>>

(* Every variable of the link stays in its range: the state is one of the    *)
(* link's enum and every thread is at a step of the functions modelled.      *)
TypeOK ==
    /\ state \in States
    /\ queued \subseteq Works
    /\ pc \in [Threads -> Labels]
    /\ armed \subseteq DOMAIN TimerWork
    /\ intrOn \subseteq DOMAIN IntrWork
    /\ recovering \in BOOLEAN
    /\ autoneg \in Autoneg
    /\ loose \in BOOLEAN
    /\ due \in Int
    /\ ups \in Nat
    /\ fails \in 0..MaxFails

Init ==
    /\ state = "UNCONFIGURED"
    /\ queued = {}
    /\ pc = [t \in Threads |-> Idle]
    /\ armed = {}
    /\ intrOn = {}
    /\ recovering = FALSE
    /\ autoneg \in Autoneg
    /\ loose = FALSE
    /\ due = 0
    /\ ups = 0
    /\ fails = 0

Failure == fails < MaxFails /\ fails' = fails + 1

-----------------------------------------------------------------------------
(* Timers and interrupts *)

(* Mutant: a timer starts whatever the state. *)
StartedBlind(tm) == armed \cup {tm}

(* sl_core_timer_link_begin *)
Started(tm) == IF state \in Leaving THEN armed ELSE armed \cup {tm}

(* sl_core_timer_link_timeout *)
TimerExpire(tm) ==
    /\ tm \in armed
    /\ armed' = armed \ {tm}
    /\ QueueWork(TimerWork[tm])
    /\ UNCHANGED <<state, pc, intrOn, link, ghosts>>

(* sl_core_hw_intr_hdlr and sl_core_hw_an_intr_hdlr, once the pages are all *)
(* exchanged: the handler disables its interrupt and queues its work.       *)
IntrFire(i) ==
    /\ i \in intrOn
    /\ i = "fault" => FaultPaths # {}
    /\ intrOn' = intrOn \ {i}
    /\ QueueWork(IntrWork[i])
    /\ loose' = (loose \/ (i = "an_page" /\ state # "AN"))
    /\ UNCHANGED <<state, pc, armed, link, due, ups, fails>>

-----------------------------------------------------------------------------
(* Commands *)

(* Mutant: a failing attempt writes its state without looking. *)
UpFailBlind == state' = "GOING_DOWN" /\ QueueWork("up_fail")

(* sl_core_link_up_fail: the attempt is over unless somebody ended it before *)
UpFail ==
    IF state \in Rising THEN state' = "GOING_DOWN" /\ QueueWork("up_fail")
                        ELSE UNCHANGED <<state, queued>>

(* sl_core_link_up: accepted, already on its way (returns 0, and the         *)
(* callback of this call is dropped), or refused (the state, or the serdes). *)
UpAccept(t) ==
    /\ state \in {"CONFIGURED", "DOWN"}
    /\ state' = IF autoneg THEN "AN" ELSE "GOING_UP"
    /\ Go(t, Step("up_cmd"))
    /\ due' = due + 1
    /\ ups' = ups + 1
    /\ UNCHANGED <<kernel, link, loose, fails>>

UpAlready == state \in Rising \cup {"UP"}

UpRefused ==
    \/ state \in Leaving \cup {"UNCONFIGURED", "CONFIGURING"} /\ UNCHANGED fails
    \/ Failure

(* sl_core_hw_link_up_cmd; the media check may end the attempt at once.  Of  *)
(* two that have their first work still to queue, one is of an attempt that  *)
(* is over: loose notes it like one that finds its attempt over.             *)
UpCmd(t, next) ==
    /\ At(t, "up_cmd", "none")
    /\ Go(t, next)
    /\ \/ /\ QueueWork(IF autoneg THEN "an_up_start" ELSE "up_start")
          /\ loose' = (loose \/ state \notin Rising
                              \/ \E d \in DOMAIN pc \ {t} : At(d, "up_cmd", "none"))
          /\ UNCHANGED <<state, fails>>
       \/ Failure /\ UpFail /\ UNCHANGED loose
    /\ UNCHANGED <<armed, intrOn, link, due, ups>>

(* sl_core_link_cancel and sl_core_link_down: accepted; already leaving      *)
(* (returns 0, and the callback of this call is dropped); or refused.        *)
CancelAccept(t) ==
    /\ state \in Rising
    /\ state' = "CANCELING"
    /\ Go(t, <<"queue", "up_cancel">>)

DownAccept(t) ==
    /\ state = "UP"
    /\ state' = "GOING_DOWN"
    /\ Go(t, <<"queue", "down">>)

DownAlready == state \in Leaving

DownRefused(w) == state \notin Leaving
                      \cup (IF w = "up_cancel" THEN Rising ELSE {"UP"})

(* The work is queued after the lock is released. *)
QueueEnd(t) ==
    /\ \E w \in {"up_cancel", "down"} : At(t, "queue", w) /\ QueueWork(w)
    /\ Go(t, Idle)
    /\ UNCHANGED <<state, armed, intrOn, link, ghosts>>

(* sl_core_link_config_set: the config and CONFIGURED are written after the  *)
(* lock is released.                                                         *)
ConfigSet(t) ==
    /\ pc[t] = Idle
    /\ state \in {"UNCONFIGURED", "CONFIGURED", "DOWN"}
    /\ state' = "CONFIGURING"
    /\ Go(t, Step("config"))
    /\ UNCHANGED <<kernel, link, ghosts>>

ConfigEnd(t) ==
    /\ At(t, "config", "none")
    /\ autoneg' \in Autoneg
    /\ state' = "CONFIGURED"
    /\ Go(t, Idle)
    /\ UNCHANGED <<kernel, recovering, ghosts>>

-----------------------------------------------------------------------------
(* The works of an attempt *)

(* A work of an attempt begins by looking at the state, without keeping the  *)
(* lock; one that finds another state than its own stops the link up timer.  *)
Enter(w, states, next, stopTimer) ==
    /\ Take(w)
    /\ IF state \in states
       THEN Go(w, next) /\ UNCHANGED armed
       ELSE Go(w, Idle) /\ armed' = armed \ stopTimer
    /\ UNCHANGED <<state, intrOn, link, ghosts>>

(* A step of an attempt fails: stop the link up timer (or not), then up_fail *)
FailUp(w, stopTimer) ==
    /\ Failure
    /\ armed' = armed \ stopTimer
    /\ UpFail
    /\ Go(w, Idle)
    /\ UNCHANGED <<link, loose, due, ups>>

(* sl_core_hw_an_up_start_work; test caps skip the exchange of pages. *)
AnUpStartWork ==
    LET w == "an_up_start" IN
    \/ Enter(w, {"AN"}, Step("begin"), {})
    \/ /\ At(w, "begin", "none")
       /\ armed' = Started("link_up")
       /\ \/ QueueWork("an_up") /\ Go(w, Idle) /\ UNCHANGED <<state, fails>>
          \/ Go(w, Step("after_an")) /\ UNCHANGED <<state, queued, fails>>
       /\ UNCHANGED <<intrOn, link, loose, due, ups>>
    \/ At(w, "after_an", "none") /\ FailUp(w, {}) /\ UNCHANGED intrOn

(* sl_core_hw_an_up_work *)
AnUpWork ==
    LET w == "an_up" IN
    \/ Enter(w, {"AN"}, Step("serdes"), {})
    \/ /\ At(w, "serdes", "none")
       /\ \/ /\ intrOn' = intrOn \cup {"an_page"}
             /\ Go(w, Idle)
             /\ UNCHANGED <<state, queued, armed, link, ghosts>>
          \/ FailUp(w, {}) /\ intrOn' = intrOn \ {"an_page"}

(* sl_core_hw_an_up_done_work: try again, give up, or go on *)
AnUpDoneWork ==
    LET w == "an_up_done" IN
    \/ Enter(w, {"AN"}, Step("decide"), {})
    \/ /\ At(w, "decide", "none")
       /\ \/ intrOn' = intrOn \cup {"an_page"} /\ Go(w, Idle)
          \/ Go(w, Step("after_an")) /\ UNCHANGED intrOn
       /\ UNCHANGED <<state, queued, armed, link, ghosts>>
    \/ At(w, "decide", "none") /\ FailUp(w, {}) /\ UNCHANGED intrOn

(* sl_core_hw_link_up_after_an_start *)
UpAfterAnStart(w) ==
    \/ /\ At(w, "after_an", "none")
       /\ IF state = "AN"
          THEN state' = "GOING_UP" /\ Go(w, Step("off")) /\ UNCHANGED armed
          ELSE armed' = armed \ {"link_up"} /\ Go(w, Idle) /\ UNCHANGED state
       /\ UNCHANGED <<queued, intrOn, link, ghosts>>
    \/ /\ At(w, "off", "none")
       /\ \/ /\ intrOn' = intrOn \ LinkIntrs
             /\ QueueWork("up")
             /\ Go(w, Idle)
             /\ UNCHANGED <<state, armed, link, ghosts>>
          \/ FailUp(w, {"link_up"}) /\ UNCHANGED intrOn

(* sl_core_hw_link_up_start_work; active media may still have to power up. *)
UpStartWork ==
    LET w == "up_start" IN
    \/ Enter(w, {"GOING_UP"}, Step("begin"), {})
    \/ /\ At(w, "begin", "none")
       /\ armed' = Started("link_up")
       /\ Go(w, Step("off"))
       /\ UNCHANGED <<state, queued, intrOn, link, ghosts>>
    \/ At(w, "begin", "none") /\ FailUp(w, {}) /\ UNCHANGED intrOn
    \/ /\ At(w, "off", "none")
       /\ intrOn' = intrOn \ LinkIntrs
       /\ \/ QueueWork("up") /\ UNCHANGED armed
          \/ armed' = Started("high_power") /\ UNCHANGED queued
       /\ Go(w, Idle)
       /\ UNCHANGED <<state, link, ghosts>>

(* sl_core_hw_link_up_work *)
UpWork ==
    LET w == "up" IN
    \/ Enter(w, Rising, Step("serdes"), {"link_up"})
    \/ /\ At(w, "serdes", "none")
       /\ intrOn' = intrOn \cup {"link_up"}
       /\ Go(w, Idle)
       /\ UNCHANGED <<state, queued, armed, link, ghosts>>
    \/ At(w, "serdes", "none") /\ FailUp(w, {"link_up"}) /\ UNCHANGED intrOn

(* sl_core_hw_link_up_intr_work and sl_core_hw_link_up_fec_settle_work *)
BeginWork(w, tm) ==
    \/ Enter(w, Rising, Step("begin"), {"link_up"})
    \/ /\ At(w, "begin", "none")
       /\ armed' = Started(tm)
       /\ Go(w, Idle)
       /\ UNCHANGED <<state, queued, intrOn, link, ghosts>>

(* sl_core_hw_link_up_ald: a failing enable ends the attempt, but the caller *)
(* goes on to its success all the same.                                      *)
UpAld ==
    IF "lane_degrade" \in Monitors
    THEN \/ intrOn' = intrOn \cup {"lane_degrade"} /\ UNCHANGED <<state, queued, fails>>
         \/ Failure /\ UpFail /\ UNCHANGED intrOn
    ELSE UNCHANGED <<state, queued, intrOn, fails>>

(* sl_core_hw_link_up_check_work and sl_core_hw_link_up_fec_check_work *)
CheckWork(w) ==
    \/ Enter(w, Rising, Step("check"), {"link_up"})
    \/ /\ At(w, "check", "none")
       /\ w = "up_check" /\ Settle
       /\ armed' = Started("fec_settle")
       /\ Go(w, Idle)
       /\ UNCHANGED <<state, queued, intrOn, link, ghosts>>
    \/ /\ At(w, "check", "none")
       /\ ~(w = "up_check" /\ Settle)
       /\ UpAld
       /\ armed' = armed \ {"link_up"}
       /\ Go(w, Step("enable"))
       /\ UNCHANGED <<link, loose, due, ups>>
    \/ At(w, "check", "none") /\ FailUp(w, {"link_up"}) /\ UNCHANGED intrOn

(* sl_core_hw_link_up_success: the interrupts, in order; then UP *)
SuccessIntrs == Existing("high_ser") \o Existing("llr_max") \o Existing("llr_starved")
                    \o <<"fault">>

(* Mutant: UP is published whatever the state. *)
UpSuccessBlind(w) ==
    \/ /\ At(w, "enable", "none")
       /\ intrOn' = intrOn \cup {SuccessIntrs[i] : i \in DOMAIN SuccessIntrs}
       /\ Go(w, Step("publish"))
       /\ UNCHANGED <<state, queued, armed, link, ghosts>>
    \/ /\ At(w, "publish", "none")
       /\ state' = "UP" /\ Go(w, <<"up_cb", "up">>)
       /\ UNCHANGED <<kernel, link, ghosts>>

UpSuccess(w) ==
    \/ /\ At(w, "enable", "none")
       /\ intrOn' = intrOn \cup {SuccessIntrs[i] : i \in DOMAIN SuccessIntrs}
       /\ Go(w, Step("publish"))
       /\ UNCHANGED <<state, queued, armed, link, ghosts>>
    \/ /\ At(w, "enable", "none")
       /\ \E n \in 1..Len(SuccessIntrs) :
             intrOn' = intrOn \cup {SuccessIntrs[i] : i \in 1..(n - 1)}
       /\ FailUp(w, {})
    \/ /\ At(w, "publish", "none")
       /\ IF state = "GOING_UP"
          THEN state' = "UP" /\ Go(w, <<"up_cb", "up">>)
          ELSE Go(w, Idle) /\ UNCHANGED state
       /\ UNCHANGED <<kernel, link, ghosts>>

-----------------------------------------------------------------------------
(* The ends of an attempt and the way down *)

(* Mutant: the timeout knows one of the two rising states only. *)
ClaimsAn == [up_timeout |-> {"AN"}, up_cancel |-> {"CANCELING"},
             up_fail |-> {"GOING_DOWN"}, down |-> {"GOING_DOWN"}]

Claims == [up_timeout |-> Rising, up_cancel |-> {"CANCELING"},
           up_fail |-> {"GOING_DOWN"}, down |-> {"GOING_DOWN"}]

(* sl_core_hw_link_up_timeout_work, sl_core_hw_link_up_cancel_work,          *)
(* sl_core_hw_link_up_fail_work and sl_core_hw_link_down_work.  The timeout  *)
(* takes the attempt, under data_lock; the others were promised it.          *)
TeardownStart(t) ==
    LET first == CancelList[t][1] IN
    /\ t \in queued /\ pc[t] = Idle
    /\ IF state \in Claims[t]
       THEN /\ state' = IF t = "up_timeout" THEN "TIMEOUT" ELSE state
            /\ armed' = IF t = "down" THEN armed ELSE {}
            /\ intrOn' = IF t = "down" THEN intrOn \ WatchIntrs ELSE intrOn
            /\ Go(t, <<"wait", first>>)
            /\ queued' = queued \ {t, first}
       ELSE /\ Go(t, Idle)
            /\ queued' = queued \ {t}
            /\ UNCHANGED <<state, armed, intrOn>>
    /\ UNCHANGED <<link, ghosts>>

(* The interrupts of an attempt are disabled once its works are canceled. *)
TeardownWait(t) ==
    /\ \E w \in DOMAIN Following[t] :
          LET next == Following[t][w] IN
          /\ Waited(t, "wait", w)
          /\ IF next = "none"
             THEN Go(t, Step("off")) /\ UNCHANGED <<queued, intrOn>>
             ELSE /\ Cancel(t, "wait", next)
                  /\ intrOn' = IF next = "up_intr" THEN intrOn \ LinkIntrs
                                                   ELSE intrOn
    /\ UNCHANGED <<state, armed, link, ghosts>>

TeardownEnd(t) ==
    /\ At(t, "off", "none")
    /\ state' = "DOWN"
    /\ Go(t, IF t = "down" THEN Step("down_cb") ELSE <<"up_cb", "read">>)
    /\ loose' = (loose \/ "an_page" \in intrOn)
    /\ UNCHANGED <<kernel, link, due, ups, fails>>

Teardown(t) == TeardownStart(t) \/ TeardownWait(t) \/ TeardownEnd(t)

-----------------------------------------------------------------------------
(* The works of the interrupts that watch the link *)

(* sl_core_hw_link_high_ser_intr_work, sl_core_hw_link_llr_max_starvation_   *)
(* intr_work, sl_core_hw_link_llr_starved_intr_work and                      *)
(* sl_core_hw_link_lane_degrade_intr_work: all enable their interrupt again. *)
MonitorTake(w) ==
    /\ Take(w)
    /\ Go(w, IF \/ w = "lane_degrade"
                \/ state = "UP"
                \/ w = "high_ser" /\ state \in Rising \cup {"GOING_DOWN"}
             THEN Step("rearm") ELSE Idle)
    /\ UNCHANGED <<state, armed, intrOn, link, ghosts>>

(* An enable that finds its flag set again is given up on a leaving link;    *)
(* one that is not given up may come after the teardown disabled it.         *)
Rearm(w) ==
    /\ At(w, "rearm", "none")
    /\ \/ /\ intrOn' = intrOn \cup {IF w = "pml_poll" THEN "fault" ELSE w}
          /\ loose' = (loose \/ state \in Leaving)
       \/ /\ w \in {"high_ser", "llr_max", "llr_starved"}
          /\ state \in Leaving
          /\ UNCHANGED <<intrOn, loose>>
    /\ Go(w, Idle)
    /\ UNCHANGED <<state, queued, armed, link, due, ups, fails>>

(* sl_core_hw_link_fault_intr_work: a remote fault or a replay counter       *)
(* without limit only enables the interrupt again; PML recovery toggles the  *)
(* PCS and polls; anything else takes the link down.                         *)
FaultTake ==
    /\ Take("fault")
    /\ \/ "down" \in FaultPaths /\ Go("fault", Step("fault_start"))
       \/ "rearm" \in FaultPaths /\ Go("fault", Step("rearm"))
    /\ UNCHANGED <<state, armed, intrOn, link, ghosts>>

FaultRecover ==
    /\ "fault" \in queued /\ pc["fault"] = Idle
    /\ "recover" \in FaultPaths
    /\ IF recovering
       THEN /\ Go("fault", Step("fault_start"))
            /\ queued' = queued \ {"fault"}
            /\ UNCHANGED link
       ELSE /\ recovering' = TRUE
            /\ UNCHANGED autoneg
            /\ queued' = (queued \ {"fault"})
                             \cup (IF Held("pml_poll") THEN {} ELSE {"pml_poll"})
            /\ UNCHANGED pc
    /\ UNCHANGED <<state, armed, intrOn, ghosts>>

(* sl_core_hw_link_pml_rec_poll_work *)
PmlRecPollWork ==
    LET w == "pml_poll" IN
    \/ /\ Take(w)
       /\ Go(w, IF recovering THEN Step("poll") ELSE Idle)
       /\ UNCHANGED <<state, armed, intrOn, link, ghosts>>
    \/ /\ At(w, "poll", "none")
       /\ recovering' = FALSE
       /\ Go(w, Step("rearm")) \/ Go(w, Step("fault_start"))
       /\ UNCHANGED <<state, kernel, autoneg, ghosts>>

(* sl_core_hw_link_fault_callback_start, under data_lock, and the interrupts *)
(* that sl_core_hw_link_fault_link_down disables                             *)
FaultStart(w) ==
    /\ At(w, "fault_start", "none")
    /\ state' = IF state = "UP" THEN "GOING_DOWN" ELSE state
    /\ intrOn' = intrOn \ {"link_up", "lane_degrade"}
    /\ Go(w, Step("off"))
    /\ UNCHANGED <<queued, armed, link, ghosts>>

(* sl_core_hw_link_fault_link_down *)
FaultLinkDown(w) ==
    /\ At(w, "off", "none")
    /\ state' = "DOWN"
    /\ Go(w, Step("fault_cb"))
    /\ UNCHANGED <<kernel, link, ghosts>>

FaultWorks == {"fault", "pml_poll"} \cap Works

FaultWork(w) ==
    \/ w = "fault" /\ (FaultTake \/ FaultRecover)
    \/ w = "pml_poll" /\ PmlRecPollWork

(* One step of work t, the callbacks apart *)
LinkWork(t) ==
    \/ t = "an_up_start" /\ AnUpStartWork
    \/ t = "an_up" /\ AnUpWork
    \/ t = "an_up_done" /\ AnUpDoneWork
    \/ t \in {"an_up_start", "an_up_done"} /\ UpAfterAnStart(t)
    \/ t = "up_start" /\ UpStartWork
    \/ t = "up" /\ UpWork
    \/ t = "up_intr" /\ BeginWork(t, "up_check")
    \/ t = "fec_settle" /\ BeginWork(t, "fec_check")
    \/ t \in {"up_check", "fec_check"} /\ (CheckWork(t) \/ UpSuccess(t))
    \/ t \in DOMAIN CancelList /\ Teardown(t)
    \/ t \in Monitors /\ (MonitorTake(t) \/ Rearm(t))
    \/ t \in FaultWorks /\ (FaultWork(t) \/ Rearm(t) \/ FaultLinkDown(t))

-----------------------------------------------------------------------------
(* The link with a client that makes any call at any time and callbacks that *)
(* return at once.  CtrlLink has the client and the callbacks of the driver. *)

(* The callback of an attempt reads the state again, unless it came up; a    *)
(* cancel calls the down callback after it.                                  *)
AfterUpCallback(t) == IF t = "up_cancel" THEN Step("down_cb") ELSE Idle

CallbackReturns(t) ==
    /\ \/ pc[t][1] = "up_cb" /\ due' = due - 1 /\ Go(t, AfterUpCallback(t))
       \/ pc[t] \in {Step("down_cb"), Step("fault_cb")} /\ Go(t, Idle)
          /\ UNCHANGED due
    /\ UNCHANGED <<state, kernel, link, loose, ups, fails>>

Callback(t) == pc[t] # Idle /\ (FaultStart(t) \/ CallbackReturns(t))

ClientCall(c) ==
    /\ pc[c] = Idle
    /\ \/ ups < MaxUps /\ UpAccept(c)
       \/ CancelAccept(c) /\ UNCHANGED <<kernel, link, ghosts>>
       \/ DownAccept(c) /\ UNCHANGED <<kernel, link, ghosts>>
       \/ ConfigSet(c)

ClientStep(c) ==
    UpCmd(c, Idle) \/ ConfigEnd(c) \/ QueueEnd(c)

WorkStep(t) ==
    \/ LinkWork(t)
    \/ Callback(t)

Next ==
    \/ \E c \in Clients : ClientCall(c) \/ ClientStep(c)
    \/ \E t \in Works : WorkStep(t)
    \/ \E tm \in DOMAIN TimerWork : TimerExpire(tm)
    \/ \E i \in DOMAIN IntrWork : IntrFire(i)

Spec == Init /\ [][Next]_vars

(* A thread inside a call, a queued or running work and a pending timer all  *)
(* go on; clients call, interrupts fire and steps fail when they like.       *)
Fairness ==
    /\ \A c \in Clients : WF_vars(ClientStep(c))
    /\ \A t \in Works : WF_vars(WorkStep(t))
    /\ \A tm \in DOMAIN TimerWork : WF_vars(TimerExpire(tm))

FairSpec == Spec /\ Fairness

-----------------------------------------------------------------------------
(* Properties *)

(* A teardown that is on its way: it runs, or its work is queued, or is      *)
(* about to be, in the state it was promised.                                *)
Coming(t) ==
    \/ pc[t][1] \in {"wait", "off"}
    \/ t # "up_timeout" /\ t \in queued /\ state \in Claims[t]
    \/ \E c \in Clients : At(c, "queue", t)

(* A link that is leaving has exactly one teardown on its way, and a link    *)
(* in any other state has none: no cancel, timeout, failure or down is lost  *)
(* between the lock and the workqueue, and none is left over to write DOWN   *)
(* over the next attempt.                                                    *)
OneTeardown ==
    Cardinality({t \in DOMAIN CancelList : Coming(t)})
        = IF state \in Leaving THEN 1 ELSE 0

(* Every accepted up is owed exactly one up callback: by its rising state,   *)
(* then by the one teardown that ended it or by the work that published UP.  *)
AnsweredOnce ==
    due = (IF state \in Rising THEN 1 ELSE 0)
          + Cardinality({t \in Enders : Coming(t)})
          + Cardinality({t \in Works : pc[t][1] = "up_cb"})

(* Every attempt has one end, whoever races for it.                          *)
OneEnd == OneTeardown /\ AnsweredOnce

(* Whatever a fault does in between, no up callback is called that no        *)
(* accepted up is still owed.                                                *)
AnsweredAtMostOnce ==
    due >= Cardinality({t \in Works : pc[t][1] = "up_cb"})

AttemptWorks == Works \ ({"down", "fault", "pml_poll"} \cup Monitors)

(* When a teardown turns the link off, every work of the attempt it ends has *)
(* been canceled and every timer stopped.                                    *)
OffAlone ==
    \A t \in Enders : ~loose /\ At(t, "off", "none") =>
        /\ armed = {}
        /\ \A w \in AttemptWorks \ {t} : w \notin queued /\ pc[w] = Idle

(* The steps of an attempt that program the hardware *)
Programming == {"serdes", "off", "check", "enable", "publish"}

(* Every teardown outlasts the works of the attempt it ends: no work         *)
(* programs the hardware of a link that is down, and none is in the middle   *)
(* of its attempt when the link is up.                                       *)
NoStrayWork ==
    ~loose /\ state \in {"CONFIGURED", "CONFIGURING", "DOWN", "UP"} =>
        \A w \in AttemptWorks \ Enders : pc[w][1] \notin Programming

(* A link at rest has no pending timer, and no interrupt of an attempt       *)
(* enabled that would start a work on a link that is down.                   *)
QuietAtRest ==
    ~loose /\ state \in {"CONFIGURED", "DOWN"} =>
        armed = {} /\ intrOn \cap LinkIntrs = {}

(* The timer each work of an attempt starts *)
Begins == [up_start |-> "link_up", an_up_start |-> "link_up",
           up_intr |-> "up_check", fec_settle |-> "fec_check"]

(* add_timer is never called on a timer that is still pending.               *)
NoPendingAdd ==
    ~loose => \A w \in DOMAIN Begins \cap Works :
        At(w, "begin", "none") /\ Begins[w] \in Started(Begins[w]) => Begins[w] \notin armed

(* A teardown outlives what it ends: nothing that an attempt began works,    *)
(* waits, ticks or is enabled when the attempt is over, unless it is loose.  *)
NoWorkOutlives == OffAlone /\ NoStrayWork /\ QuietAtRest /\ NoPendingAdd

(* No attempt and no teardown lasts, the link comes up or it comes down, and *)
(* every accepted up is answered by its callback.                            *)
Settles == []<>(state \notin Rising \cup Leaving) /\ []<>(due = 0)

=============================================================================
