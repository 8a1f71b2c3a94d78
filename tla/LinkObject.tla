----------------------------- MODULE LinkObject -----------------------------
(***************************************************************************)
(* The control object of one link: its references, its FEC monitor and its *)
(* deletion.  ctrl/sl_ctrl_link.c, ctrl/sl_ctrl_link_priv.c and            *)
(* ctrl/sl_ctrl_link_fec_priv.c, over a core that keeps what LinkService   *)
(* promises: it is "down", "rising", "up" or "leaving".                    *)
(*                                                                         *)
(* A caller reads the object's address from a table, takes a reference,    *)
(* works and puts the reference; the last put releases the object, in      *)
(* whatever thread it happens.  The monitor is a timer whose work samples  *)
(* the codeword counters, arms the timer again and may take the link down. *)
(*                                                                         *)
(* Two locks are held over a call that wants the other: the object's, while*)
(* the state is read, and the core's, while a fault starts.  Everything    *)
(* else under a lock is one step that needs the lock free.                 *)
(*                                                                         *)
(* The callbacks of the core run one after the other, in one thread.  Each *)
(* that ends an attempt or a link waits for the notification work of the   *)
(* group, so for the callbacks of its clients, and these may call into the *)
(* link again.  A callback that makes no call here just returns.           *)
(*                                                                         *)
(* Left out: the retries of an attempt (CtrlLink), the warn limits, and    *)
(* one of the two counts of crossed limits, which work alike.              *)
(***************************************************************************)
EXTENDS Integers, Sequences, FiniteSets, Kernel

CONSTANTS
    Clients,     \* threads that call the API of this link
    Notified,    \* the one of them, if any, that calls from its callback: inside
                 \* the group's notification work, which the core's callbacks flush
    Calls,       \* what they call
    Periods,     \* monitor periods a policy may set; 0 is off
    Chances,     \* SL_CTRL_LINK_UCW_LIMIT_MAX_CHANCES
    DownReqs,    \* SL_LINK_POLICY_OPT_LINK_DOWN_REQ as the policy may have it when
                 \* it is looked at: a new policy comes at any moment
    Faults,      \* may the link fault?
    MaxCalls     \* bound on the calls of the clients

Callbacks == {"up_cb", "fail_cb", "cancel_cb", "down_cb", "async_cb", "fault_cb"}

ASSUME ObjectClientsAssumption == Clients \cap {"mon", "core", "none"} = {}
ASSUME NotifiedAssumption ==
    Notified \subseteq Clients /\ \A c, d \in Notified : c = d
ASSUME ObjectAssumption ==
    /\ Calls \subseteq {"up", "down", "reset", "policy", "read", "del"}
    /\ Periods \subseteq Nat
    /\ Chances \in Nat /\ MaxCalls \in Nat
    /\ DownReqs \subseteq BOOLEAN /\ Faults \in BOOLEAN

Threads == Clients \cup {"mon", "core"}

States == {"DOWN", "STARTING", "UP", "UP_DOWN_REQ", "STOPPING"}

(* Calls that take a reference; del works on the one link_new left. *)
Ops == Calls \ {"del"}

Steps ==
    {"idle", "ref", "body", "init", "core", "refused", "calc", "start", "stop",
     "delete", "put", "look", "look_core", "await", "release", "unlink", "free",
     "del", "del_wait", "publish", "stopping", "flush", "settle", "complete",
     "notify", "fault_ctrl", "unlock", "off", "sample", "judge", "again", "async",
     "async_core"} \cup Callbacks

Labels == {<<s, "none">> : s \in Steps}
              \cup {<<"wait", "mon">>, <<"reset", "done">>, <<"reset", "late">>}

VARIABLES
    life,        \* "live" (in the table) or "freed"
    refs,        \* ref_cnt
    ctrl,        \* state
    core,        \* the phase of the core link; "gone" after its deletion
    asked,       \* what the teardown that was asked for will call
    doing,       \* the call each thread is in
    held,        \* who holds a lock over a call that wants the other
    completed,   \* down_complete
    stop,        \* fec_mon_timer_stop
    period,      \* fec_data.info.monitor.period_ms
    policy,      \* policy.fec_mon_period_ms
    chance,      \* fec_ucw_chance
    told,        \* the end the clients were last notified of
    raced,       \* a client did not wait for that end before its next call, two
                 \* made rival calls at once, the monitor judged a link that was
                 \* not published yet, a policy armed it on one that had left, it
                 \* armed itself after it was stopped, or the last reference was put
                 \* while the link went down
    leaked,      \* references nobody will put
    deleted,     \* sl_ctrl_link_del has put the first reference
    calls        \* calls made so far

link    == <<life, refs, ctrl, completed, deleted>>
monitor == <<stop, period, policy, chance>>
ghosts  == <<told, raced, leaked, calls>>
coreVars == <<core, asked, held>>
vars    == <<link, coreVars, doing, monitor, ghosts, queued, pc, armed, intrOn>>

(* The object's variables stay in their ranges; the monitor forgives at most *)
(* Chances bad samples in a row.                                             *)
TypeOK ==
    /\ life \in {"live", "freed"}
    /\ refs \in Nat
    /\ ctrl \in States
    /\ core \in {"down", "rising", "up", "leaving", "gone"}
    /\ asked \in {"none", "down_cb", "async_cb", "cancel_cb"}
    /\ doing \in [Threads -> Calls \cup Callbacks
                     \cup {"none", "cancel", "fault", "release", "rel_cancel",
                           "rel_down"}]
    /\ held \in [{"ctrl", "core"} -> Threads \cup {"none"}]
    /\ queued \subseteq {"mon"} /\ armed \subseteq {"mon"} /\ intrOn = {}
    /\ pc \in [Threads -> Labels]
    /\ stop \in BOOLEAN /\ period \in Periods /\ policy \in Periods
    /\ chance \in 0..Chances
    /\ told \in {"down", "up", "busy"} /\ raced \in BOOLEAN
    /\ leaked \in 0..refs /\ deleted \in BOOLEAN /\ completed \in BOOLEAN
    /\ calls \in 0..MaxCalls

(* sl_ctrl_link_new; sl_ctrl_link_policy_set has not been called yet *)
Init ==
    /\ life = "live" /\ refs = 1 /\ ctrl = "DOWN"
    /\ core = "down" /\ asked = "none"
    /\ doing = [t \in Threads |-> "none"]
    /\ held = [l \in {"ctrl", "core"} |-> "none"]
    /\ completed = FALSE /\ deleted = FALSE
    /\ stop = FALSE /\ period \in Periods /\ policy = period /\ chance = 0
    /\ told = "down" /\ raced = FALSE /\ leaked = 0 /\ calls = 0
    /\ queued = {} /\ armed = {} /\ intrOn = {}
    /\ pc = [t \in Threads |-> Idle]

Step(name) == <<name, "none">>
Is(t, step) == At(t, step, "none")
To(t, step) == Go(t, Step(step))
Free(lock) == held[lock] = "none"
Enters(t, call) == doing' = [doing EXCEPT ![t] = call]

(* The kernel's variables without pc, for the steps that leave them alone *)
K == <<queued, armed, intrOn>>

-----------------------------------------------------------------------------
(* References *)

(* Calls that a client makes one at a time *)
Rivals(op, other) ==
    \/ op = "policy" /\ other = "policy"
    \/ {op, other} \subseteq {"up", "down", "reset", "cancel", "del"}

(* The address is read from the table; the reference is taken later. *)
Call(c) ==
    /\ pc[c] = Idle /\ life = "live" /\ calls < MaxCalls
    /\ calls' = calls + 1
    /\ \E op \in Calls :
        /\ op = "del" => ~deleted /\ \A t \in Threads : doing[t] # "del"
        /\ Enters(c, op)
        /\ To(c, IF op = "del" THEN "del" ELSE "ref")
        /\ raced' = (raced \/ deleted \/ (op = "up" /\ told # "down")
                         \/ (op \in {"down", "reset"} /\ told # "up")
                         \/ (op = "del" /\ told = "busy")
                         \/ \E t \in Clients : Rivals(op, doing[t]))
        /\ told' = IF op \in {"up", "down", "reset"} THEN "busy" ELSE told
    /\ UNCHANGED <<link, coreVars, monitor, leaked, K>>

(* Mutant: the reference is taken from an object on its way out. *)
TakeRefBlind(c) ==
    /\ Is(c, "ref")
    /\ IF life = "live" THEN refs' = refs + 1 /\ To(c, "body") /\ UNCHANGED doing
                        ELSE Go(c, Idle) /\ Enters(c, "none") /\ UNCHANGED refs
    /\ UNCHANGED <<life, ctrl, completed, deleted, coreVars, monitor, ghosts, K>>

(* kref_get_unless_zero.  The count of a freed object is still zero. *)
TakeRef(c) ==
    /\ Is(c, "ref")
    /\ IF refs > 0 THEN refs' = refs + 1 /\ To(c, "body") /\ UNCHANGED doing
                   ELSE Go(c, Idle) /\ Enters(c, "none") /\ UNCHANGED refs
    /\ UNCHANGED <<life, ctrl, completed, deleted, coreVars, monitor, ghosts, K>>

Return(t) == Go(t, Idle) /\ Enters(t, "none")

(* sl_ctrl_link_put: the last one releases the object, in this thread. *)
Put(t) ==
    /\ Is(t, "put")
    /\ refs' = refs - 1
    /\ IF refs = 1 THEN To(t, "release") /\ Enters(t, "release")
                   ELSE Return(t)
    /\ UNCHANGED <<life, ctrl, completed, deleted, coreVars, monitor, ghosts, K>>

(* sl_ctrl_link_del waits for the release for a bounded time. *)
Del(c) ==
    \/ /\ Is(c, "del")
       /\ refs' = refs - 1
       /\ deleted' = TRUE
       /\ IF refs = 1 THEN To(c, "release") /\ Enters(c, "release")
                      ELSE To(c, "del_wait") /\ UNCHANGED doing
       /\ UNCHANGED <<life, ctrl, completed>>
       /\ UNCHANGED <<coreVars, monitor, ghosts, K>>
    \/ /\ Is(c, "del_wait")
       /\ Go(c, Idle) /\ Enters(c, "none")
       /\ UNCHANGED <<link, coreVars, monitor, ghosts, K>>
-----------------------------------------------------------------------------
(* The monitor, started and stopped *)

(* sl_ctrl_link_fec_mon_start: the period comes from the policy *)
MonStart(t) ==
    \/ /\ Is(t, "calc")
       /\ period' = policy
       /\ To(t, IF policy = 0 THEN "stop" ELSE "start")
       /\ UNCHANGED <<stop, armed, raced>>
    \/ /\ Is(t, "start")
       /\ stop' = FALSE
       /\ armed' = {"mon"}
       /\ raced' = (raced \/ (doing[t] = "policy" /\ ctrl \notin {"UP", "UP_DOWN_REQ"}))
       /\ To(t, IF doing[t] = "up_cb" THEN "publish" ELSE "put")
       /\ UNCHANGED period

(* Where a thread goes on after it stopped the monitor *)
AfterStop(t) ==
    Step(CASE doing[t] = "policy" -> "put"
           [] doing[t] = "up_cb"  -> "publish"
           [] doing[t] = "fault"  -> "unlock"
           [] doing[t] \in {"down_cb", "async_cb", "fault_cb"} -> "flush"
           [] OTHER -> "core")

(* Mutant: the work is not canceled behind the timer. *)
MonStopQuick(t) ==
    \/ /\ Is(t, "stop")
       /\ stop' = TRUE
       /\ Go(t, IF stop THEN AfterStop(t) ELSE Step("delete"))
       /\ UNCHANGED <<queued, armed>>
    \/ /\ Is(t, "delete")
       /\ armed' = {}
       /\ Go(t, AfterStop(t))
       /\ UNCHANGED <<queued, stop>>
    \/ /\ Waited(t, "wait", "mon")
       /\ Go(t, AfterStop(t))
       /\ UNCHANGED <<queued, armed, stop>>

(* sl_ctrl_link_fec_mon_stop and the cancel_work_sync that follows it        *)
(* everywhere.  A monitor that was stopped before keeps its timer.           *)
MonStop(t) ==
    \/ /\ Is(t, "stop")
       /\ stop' = TRUE
       /\ IF stop THEN Cancel(t, "wait", "mon") ELSE To(t, "delete") /\ UNCHANGED queued
       /\ UNCHANGED armed
    \/ /\ Is(t, "delete")
       /\ armed' = {}
       /\ Cancel(t, "wait", "mon")
       /\ UNCHANGED stop
    \/ /\ Waited(t, "wait", "mon")
       /\ Go(t, AfterStop(t))
       /\ UNCHANGED <<queued, armed, stop>>

MonStep(t) ==
    /\ \/ MonStart(t) /\ UNCHANGED queued
       \/ MonStop(t) /\ UNCHANGED <<period, raced>>
    /\ UNCHANGED <<link, coreVars, doing, policy, chance, told, leaked, calls, intrOn>>

(* sl_ctrl_link_fec_mon_timer *)
MonTimer ==
    /\ armed # {}
    /\ armed' = {}
    /\ QueueWork("mon")
    /\ UNCHANGED <<link, coreVars, doing, monitor, ghosts, pc, intrOn>>

-----------------------------------------------------------------------------
(* Link up and down: the state is taken under the lock and the core called   *)
(* after it, behind a monitor that is stopped first                          *)

LinkUp(c) ==
    /\ doing[c] = "up"
    /\ \/ /\ Is(c, "body") /\ Free("ctrl")
          /\ IF ctrl = "DOWN" THEN ctrl' = "STARTING" /\ To(c, "init")
                              ELSE To(c, "put") /\ UNCHANGED ctrl
          /\ UNCHANGED <<completed, core, told>>
       \/ /\ Is(c, "init")
          /\ completed' = FALSE
          /\ To(c, "core")
          /\ UNCHANGED <<ctrl, core, told>>
       \/ /\ Is(c, "core") /\ Free("core")
          /\ core' = IF core = "down" THEN "rising" ELSE core
          /\ To(c, IF core = "leaving" THEN "refused" ELSE "put")
          /\ UNCHANGED <<ctrl, completed, told>>
       \/ /\ Is(c, "refused") /\ Free("ctrl")
          /\ IF ctrl = "STOPPING"
             THEN ctrl' = "DOWN" /\ told' = "down" /\ To(c, "put")
             ELSE ctrl' = "STOPPING" /\ UNCHANGED <<told, pc>>
          /\ UNCHANGED <<completed, core>>
    /\ UNCHANGED <<life, refs, deleted, asked, held, doing, monitor, raced, leaked,
                   calls, K>>

(* sl_ctrl_link_down, sl_ctrl_link_reset; sl_ctrl_link_release leaves an     *)
(* attempt in its state, and waits for one that is stopping already.         *)
Stopped(t) ==
    /\ Free("ctrl")
    /\ LET release == doing[t] = "release"
           cancels == ctrl = "STARTING" /\ doing[t] # "reset" IN
       /\ \/ ctrl = "STARTING" \/ ctrl \in {"UP", "UP_DOWN_REQ"}
       /\ ctrl' = IF release /\ cancels THEN ctrl ELSE "STOPPING"
       /\ Enters(t, CASE release /\ cancels  -> "rel_cancel"
                      [] release /\ ~cancels -> "rel_down"
                      [] ~release /\ cancels -> "cancel"
                      [] OTHER               -> doing[t])
       /\ To(t, "stop")

LinkDown(c) ==
    /\ Is(c, "body") /\ doing[c] \in {"down", "reset"}
    /\ \/ Stopped(c)
       \/ /\ Free("ctrl") /\ ctrl \in {"DOWN", "STOPPING"}
          /\ To(c, "put")
          /\ UNCHANGED <<ctrl, doing>>
    /\ UNCHANGED <<life, refs, completed, deleted, coreVars, monitor, ghosts, K>>

(* sl_core_link_down, sl_core_link_cancel: taken or not, the caller goes on *)
CoreDown(t) ==
    /\ Is(t, "core") /\ doing[t] # "up" /\ Free("core")
    /\ LET cancels == doing[t] \in {"cancel", "rel_cancel"} IN
       IF core = (IF cancels THEN "rising" ELSE "up")
       THEN /\ core' = "leaving"
            /\ asked' = CASE cancels                -> "cancel_cb"
                          [] doing[t] = "async_cb" -> "async_cb"
                          [] OTHER                 -> "down_cb"
       ELSE UNCHANGED <<core, asked>>
    /\ To(t, IF doing[t] \in {"cancel", "down", "async_cb"} THEN "put" ELSE "await")
    /\ UNCHANGED <<link, held, doing, monitor, ghosts, K>>

(* Mutant: a reset does not wait. *)
AwaitNot(t) ==
    /\ Is(t, "await")
    /\ IF doing[t] = "reset" THEN Go(t, <<"reset", "done">>) ELSE To(t, "unlink")
    /\ UNCHANGED <<link, coreVars, doing, monitor, ghosts, K>>

(* Mutant: a reset waits until the link is down. *)
AwaitLong(t) ==
    /\ Is(t, "await")
    /\ IF doing[t] = "reset" THEN completed /\ Go(t, <<"reset", "done">>)
                             ELSE To(t, "unlink")
    /\ UNCHANGED <<link, coreVars, doing, monitor, ghosts, K>>

(* Both wait for down_complete, for a bounded time. *)
Await(t) ==
    /\ Is(t, "await")
    /\ IF doing[t] = "reset"
       THEN \/ completed /\ Go(t, <<"reset", "done">>)
            \/ ~completed /\ Go(t, <<"reset", "late">>)
       ELSE To(t, "unlink")
    /\ UNCHANGED <<link, coreVars, doing, monitor, ghosts, K>>

(* sl_core_link_reset *)
Reset(c) ==
    /\ pc[c][1] = "reset"
    /\ To(c, "put")
    /\ UNCHANGED <<link, coreVars, doing, monitor, ghosts, K>>

-----------------------------------------------------------------------------
(* Reading the state: the object's lock is held while the core's is taken    *)

(* Mutant: the lock is kept over the monitor's start. *)
StateGetKeeps(c) ==
    \/ /\ Is(c, "look") /\ Free("ctrl")
       /\ held' = [held EXCEPT !["ctrl"] = c]
       /\ To(c, "look_core")
    \/ /\ Is(c, "look_core") /\ Free("core")
       /\ IF doing[c] = "policy" /\ ctrl \in {"UP", "UP_DOWN_REQ"}
          THEN To(c, "calc") /\ UNCHANGED held
          ELSE To(c, "put") /\ held' = [held EXCEPT !["ctrl"] = "none"]

(* sl_ctrl_data_link_state_get, for its reader and for a new policy *)
StateGet(c) ==
    \/ /\ Is(c, "look") /\ Free("ctrl")
       /\ held' = [held EXCEPT !["ctrl"] = c]
       /\ To(c, "look_core")
    \/ /\ Is(c, "look_core") /\ Free("core")
       /\ held' = [held EXCEPT !["ctrl"] = "none"]
       /\ To(c, IF doing[c] = "policy" /\ ctrl \in {"UP", "UP_DOWN_REQ"}
                THEN "calc" ELSE "put")

PolicyOrRead(c) ==
    \/ /\ Is(c, "body") /\ doing[c] \in {"policy", "read"}
       /\ policy' \in IF doing[c] = "policy" THEN Periods ELSE {policy}
       /\ To(c, "look")
       /\ UNCHANGED <<link, coreVars, doing, stop, period, chance, ghosts, K>>
    \/ /\ StateGet(c)
       /\ UNCHANGED <<link, core, asked, doing, monitor, ghosts, K>>

-----------------------------------------------------------------------------
(* Release: bring the link down, delete the core link, free the object *)

Release(t) ==
    /\ Is(t, "release")
    /\ \/ Stopped(t) /\ UNCHANGED raced
       \/ /\ Free("ctrl") /\ ctrl \in {"DOWN", "STOPPING"}
          /\ To(t, IF ctrl = "DOWN" THEN "unlink" ELSE "await")
          /\ raced' = (raced \/ ctrl = "STOPPING")
          /\ UNCHANGED <<ctrl, doing>>
    /\ UNCHANGED <<life, refs, completed, deleted, coreVars, monitor, told, leaked,
                   calls, K>>

(* sl_core_link_del cancels the works of the core, the running one included. *)
CoreDel(t) ==
    /\ Is(t, "unlink") /\ pc["core"] = Idle
    /\ core' = "gone" /\ asked' = "none"
    /\ To(t, "free")
    /\ UNCHANGED <<link, held, doing, monitor, ghosts, K>>

FreeObject(t) ==
    /\ Is(t, "free")
    /\ life' = "freed"
    /\ Return(t)
    /\ UNCHANGED <<refs, ctrl, completed, deleted, coreVars, monitor, ghosts, K>>

-----------------------------------------------------------------------------
(* The core: attempts and teardowns end, a link that is up may fault *)

CoreEnds ==
    /\ pc["core"] = Idle /\ Free("core")
    /\ \/ /\ core = "rising"
          /\ \/ core' = "up" /\ To("core", "up_cb") /\ Enters("core", "up_cb")
             \/ core' = "down" /\ To("core", "fail_cb") /\ Enters("core", "fail_cb")
          /\ UNCHANGED <<asked, held>>
       \/ /\ core = "leaving"
          /\ core' = "down"
          /\ To("core", IF asked = "cancel_cb" THEN "fail_cb" ELSE asked)
          /\ Enters("core", asked) /\ asked' = "none"
          /\ UNCHANGED held
       \/ /\ core = "up" /\ Faults
          /\ core' = "leaving"
          /\ held' = [held EXCEPT !["core"] = "core"]
          /\ To("core", "fault_ctrl") /\ Enters("core", "fault")
          /\ UNCHANGED asked
    /\ UNCHANGED <<link, monitor, ghosts, K>>

(* sl_ctrl_link_fault_start_callback, inside the core's lock *)
Fault ==
    \/ /\ Is("core", "fault_ctrl") /\ Free("ctrl")
       /\ ctrl' = "STOPPING"
       /\ To("core", "stop")
       /\ UNCHANGED <<core, held, doing>>
    \/ /\ Is("core", "unlock")
       /\ held' = [held EXCEPT !["core"] = "none"]
       /\ To("core", "off")
       /\ UNCHANGED <<ctrl, core, doing>>
    \/ /\ Is("core", "off")
       /\ core' = "down"
       /\ To("core", "stop") /\ Enters("core", "fault_cb")
       /\ UNCHANGED <<ctrl, held>>

(* The callbacks begin: up starts the monitor, the others stop it; the       *)
(* asynchronous down alone takes a reference.                                *)
CallbackBegins ==
    /\ \/ /\ Is("core", "up_cb")
          /\ To("core", "calc")
          /\ UNCHANGED <<refs, doing>>
       \/ /\ Is("core", "fail_cb")
          /\ To("core", "stopping")
          /\ UNCHANGED <<refs, doing>>
       \/ /\ Is("core", "down_cb")
          /\ IF core = "down" THEN To("core", "stop") /\ UNCHANGED doing
                              ELSE Return("core")
          /\ UNCHANGED refs
       \/ /\ Is("core", "async_cb")
          /\ IF refs > 0
             THEN refs' = refs + 1 /\ To("core", "stop") /\ UNCHANGED doing
             ELSE Return("core") /\ UNCHANGED refs
    /\ UNCHANGED <<life, ctrl, completed, deleted, coreVars, monitor, ghosts, K>>

(* The ends of the callbacks: the notifications that are on their way, the   *)
(* state, the waiters, the notification of the end.  The work of a cancel    *)
(* calls down when it has called up.                                         *)
CallbackEnds ==
    \/ /\ Is("core", "publish") /\ Free("ctrl")
       /\ ctrl' = "UP"
       /\ To("core", "notify")
       /\ UNCHANGED <<completed, doing, told>>
    \/ /\ Is("core", "stopping") /\ Free("ctrl")
       /\ ctrl' = IF ctrl = "DOWN" THEN "DOWN" ELSE "STOPPING"
       /\ To("core", "flush")
       /\ UNCHANGED <<completed, doing, told>>
    \/ /\ Is("core", "flush") /\ \A c \in Notified : pc[c] = Idle
       /\ To("core", "settle")
       /\ UNCHANGED <<ctrl, completed, doing, told>>
    \/ /\ Is("core", "settle") /\ Free("ctrl")
       /\ ctrl' = "DOWN"
       /\ To("core", "complete")
       /\ UNCHANGED <<completed, doing, told>>
    \/ /\ Is("core", "complete")
       /\ completed' = TRUE
       /\ To("core", "notify")
       /\ UNCHANGED <<ctrl, doing, told>>
    \/ /\ Is("core", "notify")
       /\ told' = IF doing["core"] = "up_cb" THEN "up" ELSE "down"
       /\ CASE doing["core"] = "async_cb"  -> To("core", "put") /\ UNCHANGED doing
            [] doing["core"] = "cancel_cb" -> To("core", "down_cb") /\ Enters("core", "down_cb")
            [] OTHER                       -> Return("core")
       /\ UNCHANGED <<ctrl, completed>>

CoreStep ==
    \/ CoreEnds
    \/ Fault /\ UNCHANGED <<life, refs, completed, deleted, asked, monitor, ghosts, K>>
    \/ CallbackBegins
    \/ CallbackEnds /\ UNCHANGED <<life, refs, deleted, coreVars, monitor, raced,
                                   leaked, calls, K>>

-----------------------------------------------------------------------------
(* The work of the monitor: sl_ctrl_link_fec_mon_timer_work *)

(* A recovery that is running skips the sample, and the look at stop. *)
MonLook ==
    \/ /\ Take("mon")
       /\ To("mon", "sample")
       /\ UNCHANGED <<armed, raced>>
    \/ /\ Is("mon", "sample")
       /\ \/ period = 0 /\ Go("mon", Idle)
          \/ period # 0 /\ To("mon", "again")
          \/ period # 0 /\ To("mon", IF stop THEN "idle" ELSE "judge")
       /\ UNCHANGED <<queued, armed, raced>>
    \/ /\ Is("mon", "again")
       /\ armed' = {"mon"}
       /\ raced' = (raced \/ stop)
       /\ Go("mon", Idle)
       /\ UNCHANGED queued

(* Mutant: the chances are counted one too far. *)
MonJudgeSlack ==
    /\ Is("mon", "judge")
    /\ \/ chance > Chances /\ chance' = 0 /\ To("mon", "async")
       \/ /\ chance' \in {0} \cup ({chance + 1} \cap 0..(Chances + 1))
          /\ To("mon", IF period = 0 \/ stop THEN "idle" ELSE "again")

(* Mutant: a bad sample ends the work as a failed check does. *)
MonJudgeQuits ==
    /\ Is("mon", "judge")
    /\ \/ chance = Chances /\ chance' = 0 /\ To("mon", "async")
       \/ chance < Chances /\ chance' = chance + 1 /\ To("mon", "idle")
       \/ chance' = 0 /\ To("mon", IF period = 0 \/ stop THEN "idle" ELSE "again")

(* sl_ctrl_link_fec_data_check: too many bad samples in a row are the end *)
MonJudge ==
    /\ Is("mon", "judge")
    /\ \/ chance = Chances /\ chance' = 0 /\ To("mon", "async")
       \/ /\ chance' \in {0} \cup ({chance + 1} \cap 0..Chances)
          /\ To("mon", IF period = 0 \/ stop THEN "idle" ELSE "again")

(* What the policy may say: take the link down, or only ask for it. *)
MayTakeDown == FALSE \in DownReqs
MayRequest  == TRUE \in DownReqs

(* sl_ctrl_link_async_down, not forced.  A request that only asks for the    *)
(* link to go down keeps its reference.                                      *)
AsyncDown ==
    \/ /\ Is("mon", "async")
       /\ IF refs > 0 THEN refs' = refs + 1 /\ To("mon", "async_core")
                      ELSE Go("mon", Idle) /\ UNCHANGED refs
       /\ UNCHANGED <<ctrl, core, asked, leaked, raced, doing>>
    \/ /\ Is("mon", "async_core") /\ Free("ctrl")
       /\ \/ /\ ctrl = "UP" /\ MayTakeDown
             /\ ctrl' = "STOPPING"
             /\ To("mon", "core") /\ Enters("mon", "async_cb")
             /\ UNCHANGED <<leaked, raced>>
          \/ /\ ctrl = "UP_DOWN_REQ" \/ (ctrl = "UP" /\ MayRequest)
             /\ ctrl' = "UP_DOWN_REQ"
             /\ leaked' = leaked + 1
             /\ Go("mon", Idle)
             /\ UNCHANGED <<doing, raced>>
          \/ /\ ctrl \notin {"UP", "UP_DOWN_REQ"}
             /\ raced' = (raced \/ ctrl = "STARTING")
             /\ To("mon", "put")
             /\ UNCHANGED <<ctrl, leaked, doing>>
       /\ UNCHANGED <<refs, core, asked>>

MonWork ==
    \/ MonLook /\ UNCHANGED <<link, core, asked, doing, chance, told, leaked, calls>>
    \/ MonJudge /\ UNCHANGED <<link, core, asked, doing, ghosts, queued, armed>>
    \/ AsyncDown /\ UNCHANGED <<life, completed, deleted, chance, told, calls,
                                queued, armed>>

-----------------------------------------------------------------------------

ClientStep(c) ==
    \/ Call(c) \/ TakeRef(c) \/ Del(c) \/ LinkDown(c) \/ Reset(c)
    \/ LinkUp(c) /\ UNCHANGED <<asked, monitor>>
    \/ PolicyOrRead(c)

AnyThread(t) ==
    \/ Put(t) \/ MonStep(t) \/ CoreDown(t) \/ Await(t)
    \/ Release(t) \/ CoreDel(t) \/ FreeObject(t)

Next ==
    \/ \E c \in Clients : ClientStep(c)
    \/ \E t \in Threads : AnyThread(t)
    \/ CoreStep
    \/ MonTimer
    \/ MonWork /\ UNCHANGED <<held, stop, period, policy, intrOn>>

Spec == Init /\ [][Next]_vars

-----------------------------------------------------------------------------
(* Properties *)

(* The threads that hold a reference of their own *)
Holders ==
    {c \in Clients : doing[c] \in Ops \cup {"cancel"} /\ pc[c][1] # "ref"}
    \cup {t \in {"mon"} : pc[t][1] \in {"async_core", "core", "put"}}
    \cup {t \in {"core"} : doing[t] = "async_cb" /\ pc[t][1] # "async_cb"}

(* Every reference is put exactly once: the count is the first reference,    *)
(* those of the threads inside, and those a down request leaks; whoever puts *)
(* the last one releases the object.  Nobody works on a freed object: no     *)
(* thread that holds a reference and no callback of the core, which has none.*)
RefsKeepAlive ==
    /\ refs = Cardinality(Holders) + leaked + (IF deleted THEN 0 ELSE 1)
    /\ refs = 0 =>
          \/ life = "freed"
          \/ \E t \in Threads : doing[t] \in {"release", "rel_cancel", "rel_down"}
    /\ life = "freed" => Holders = {} /\ pc["core"] = Idle

(* A fault holds the core's lock and wants what a state reader, or the       *)
(* monitor on its way into the core, has.                                    *)
FaultMeets ==
    \/ Is("core", "fault_ctrl") /\ ~Free("ctrl")
    \/ /\ doing["core"] = "fault" /\ At("core", "wait", "mon")
       /\ Is("mon", "core") \/ (Is("mon", "async_core") /\ ~Free("ctrl"))

(* The last reference was put by the core's down work or by the monitor,     *)
(* which cannot wait for themselves, or inside the notification work, for    *)
(* which the down work waits that the release wants to have ended.           *)
ReleasedInside ==
    \E t \in {"core", "mon"} \cup Notified :
        doing[t] \in {"release", "rel_cancel", "rel_down"}

(* The steps that take the object's lock *)
TakesLock(t) ==
    \/ pc[t][1] \in {"refused", "look", "release", "publish", "stopping", "settle",
                     "fault_ctrl", "async_core"}
    \/ Is(t, "body") /\ doing[t] \in {"up", "down", "reset"}

(* Thread t cannot go on before u does: u holds the lock t takes, is the     *)
(* work t waits for, or calls from inside that work.                         *)
WaitsFor(t, u) ==
    \/ u = held["ctrl"] /\ TakesLock(t)
    \/ u = held["core"] /\ pc[t][1] \in {"core", "look_core"}
    \/ u = "mon" /\ At(t, "wait", "mon") /\ pc[u] # Idle
    \/ u = "core" /\ Is(t, "unlink") /\ pc[u] # Idle
    \/ u \in Notified /\ Is(t, "flush") /\ pc[u] # Idle

Waiting == {t \in Threads : \E u \in Threads : WaitsFor(t, u)}

(* These are the only ways to wait for ever, for clients whose callbacks do  *)
(* nothing but call this link and return: otherwise, of every group of       *)
(* threads that wait, one waits for nobody of the group and for nobody who   *)
(* left and kept its lock, so everybody who entered the driver comes out.    *)
EverybodyOut ==
    \/ FaultMeets
    \/ ReleasedInside
    \/ \A S \in (SUBSET Waiting) \ {{}} :
          \E t \in S : \A u \in Threads : WaitsFor(t, u) => u \notin S /\ pc[u] # Idle

(* One step of thread t *)
Goes(t) ==
    \/ t \in Clients /\ ClientStep(t)
    \/ AnyThread(t)
    \/ t = "core" /\ CoreStep
    \/ t = "mon" /\ MonWork /\ UNCHANGED <<held, stop, period, policy, intrOn>>

(* A thread inside the driver waits for nothing else: no answer of the core  *)
(* and no call that others may make or not.  The work of a teardown waits    *)
(* for a callback that is in a call, and for no call to come.                *)
NoOtherWait ==
    \A t \in Threads :
        pc[t] # Idle /\ (\A u \in Threads : ~WaitsFor(t, u)) => ENABLED Goes(t)

(* A monitor that was stopped is silent: once the one who stopped it has     *)
(* gone on, its work judges no sample and takes no link down.                *)
StoppedSilent ==
    stop /\ (\A t \in Threads : pc[t] \notin {Step("delete"), <<"wait", "mon">>})
        => pc["mon"][1] \notin {"judge", "async", "async_core", "core"}

(* And, unless calls raced, nothing of it is left when the object is freed.  *)
MonitorSilent ==
    /\ StoppedSilent
    /\ life = "freed" /\ ~raced => armed = {} /\ queued = {} /\ pc["mon"] = Idle

(* A link that stays up stays monitored, if its clients wait for the end of  *)
(* each call: the timer runs, or the work is on its way to set it again.     *)
MonitorAlive ==
    ~raced /\ ctrl = "UP" /\ core = "up" /\ ~stop
          /\ (\A t \in Clients \cup {"core"} : pc[t] = Idle)
    => armed # {} \/ queued # {} \/ pc["mon"] # Idle

(* A reset that was told that the link is down resets a link that is down.   *)
ResetsDown ==
    ~raced => \A t \in Threads : pc[t] = <<"reset", "done">> => core = "down"

=============================================================================
