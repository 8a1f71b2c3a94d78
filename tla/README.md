# The HPE Slingshot link driver in TLA+

This directory specifies the state machines of the Slingshot link driver
(`drivers/net/ethernet/hpe/sl/`, called `sl/` below), model-checks them with TLC
and proves their main invariants with TLAPS. The hard part of this driver is
not what its registers hold but who runs when: clients of the API, work items
on unordered workqueues, timers and interrupts share one state per link, each
releases the lock between deciding something and doing it, and several of them
may be about to end the same attempt. That is what the modules describe.

Contents: [the system](#the-system), [the modules](#the-modules),
[the runs](#the-runs), [fairness](#fairness), [the proofs](#the-proofs),
[findings](#findings), [what is not modelled](#what-is-not-modelled),
[the plan](#the-plan).

## The system

The driver has three layers, each with objects of its own for a device (ldev),
a group of ports (lgrp) and a link.

| Part | State it keeps | Operations | Talks to |
|---|---|---|---|
| **Core link**: `core/sl_core_link.c`, `core/hw/sl_core_hw_link.c`, `core/hw/sl_core_hw_an_up.c` | `link.state` under `data_lock`; six timers and their works; interrupts with an enable flag; `pml_rec_running` | up, down, cancel, config; the works of an attempt (media and serdes, PCS, FEC settle time, checks), of its three ends (timeout, cancel, fail), of a link that goes down, of a fault, of PML recovery, of high SER and lane degrade | answers the control layer through callbacks from inside its works |
| **Autonegotiation**: `core/hw/sl_core_hw_an*.c` | the state `AN`, pages | start, page interrupt, done | is the first half of a core attempt |
| **Core LLR**: `core/sl_core_llr.c`, `core/hw/sl_core_hw_llr.c`, `core/data/sl_core_data_llr.c` | `llr.state` under `data_lock`; two timers; loop time data | config, setup, start, stop, delete; loop time and init complete interrupts | callbacks of `ctrl/sl_ctrl_llr.c` |
| **Core MAC**: `core/sl_core_mac.c` | tx and rx on or off | start, stop | – |
| **Link control**: `ctrl/sl_ctrl_link.c`, `ctrl/sl_ctrl_link_priv.c` | the state the API shows, `is_canceled`, the attempt count, two completions, a kref | up, down, reset, async down, config, deletion; the up, down and fault callbacks with the retry | calls the core, is called back by it, queues notifications, stops the FEC monitor |
| **FEC monitor**: `ctrl/sl_ctrl_link_fec*.c` | a timer that re-arms itself, `stop` flag, counters | start, stop, check; takes the link down above a limit | link control, core |
| **Notifications**: `ctrl/sl_ctrl_lgrp_notif.c` | a fifo of bytes, a list of callbacks, `list_state` | enqueue, register, unregister, the work that sends | every part enqueues; clients are called |
| **Groups and devices**: `ctrl/sl_ctrl_lgrp.c`, `ctrl/sl_ctrl_ldev.c`, `core/sl_core_lgrp.c`, … | krefs, tables of children | create, delete, config | own links, LLRs, MACs |
| **Media**: `media/`, for a switch `media/data/switch/` | per jack: its state, the real and the fake cable with a stash, temperature, power and shift, flags of what was told; all under `data_lock`, one field at a time | scan, events of the transceiver driver (hsnxcvr), fake cables, the temperature monitor, shifts, high and low power | queues notifications, is told of registrations, takes hot links down, is asked at the start of an attempt |
| **Hardware access**: `core/hw/sl_core_hw_serdes*.c`, `..._pcs.c`, `..._sbus*.c` | registers | sequences with polls | steps of an attempt that succeed or fail |
| **Surroundings**: `sl_*.c`, `sysfs/`, `log/`, `sl_test/` | – | argument checks, text output, a debugfs front end | – |

What is hard about them:

* **Interleavings.** The workqueues are unordered; every work takes the lock,
  looks at the state, releases it and acts. Between the two anything else runs.
* **One attempt, several ends.** Success, timeout, cancel and failure race for
  an attempt. One must win, the others must notice, exactly one answer must be
  given, and `cancel_work_sync` is used among works that may wait for each other.
* **Two layers, two locks.** The control layer writes its state, then calls the
  core; the core answers from inside a work that is still tearing the attempt
  down, and the answer may start the next attempt.
* **Deletion** cancels and stops one thing at a time while each may start another.
  An object is found in a table without a reference; the last reference may be
  put in a work the release has to wait for.
* **Locks over calls.** A fault calls into the control layer with the core's lock
  held, a reader of the state calls the core with the control layer's.
* **Stale decisions.** The media code takes its lock for one field at a time: what a
  thread decides to tell, or to power down, may be over when it does it.
* **Bounded waits and queues.** The notification fifo may be full, a client's
  callback may call back into the part that calls it: every end of an attempt or a link
  waits, in `flush_work`, for the notification work and so for the callbacks of clients.
* **Reports that get lost.** The transceiver driver reports words of several events and
  the driver serves one of a word, or none if it cannot look up the jack.

What makes each part correct:

* an LLR or a link in a transient state has exactly one thread that will leave
  it, and an accepted command is answered exactly once (`OneSettler`, `OneEnd`,
  `AnsweredOnce`, `KeepsService`, `KeepsLinkService`);
* no work, timer or interrupt of an attempt outlives the attempt (`NoWorkOutlives`,
  `FreedQuiet`);
* the two layers of a link agree when nothing is going on, and a link that was
  told to come down does not come up (`Agreement`, `DownStays`, `ToldOnce`);
* a message is neither left in the fifo nor lost by one of several listeners,
  and a client that unregistered is not called (`NothingStranded`,
  `WholeAudience`, `NoCallAfterUnregister`);
* an object lives as long as somebody uses it and no longer, its parent as long as
  it does, and whoever deletes it is woken (`RefsKeepAlive`, `RefsCounted`,
  `TreeKept`, `WaitersWoken`);
* nobody waits for somebody who waits for him, or for something that may never come
  (`EverybodyOut`, `NoOtherWait`);
* the FEC monitor is alive while the link is up and silent after its stop
  (`MonitorAlive`, `MonitorSilent`);
* what a jack stores and what its group is told is true of the cable in it
  (`CableKept`, `Settled`, `ToldTruth`, `OneTold`, `ToldInTheEnd`), and a cable that
  cooled down is powered up again (`Powered`);
* whatever was begun ends (`Settles`, `NeverStuck`, `CtrlSettles`, `EverythingEnds`).

## The modules

| Module | Models | Built on |
|---|---|---|
| `Kernel` | the workqueue, `cancel_work_sync`, timers, interrupt flags: external code, as the driver uses it | – |
| `CoreLlr` | the core LLR with its control layer callbacks and its deletion | `Kernel` |
| `LlrService` | abstract: the LLR's state diagram and one callback per accepted command | – |
| `CoreLlrProofs` | theorems about `CoreLlr` | `CoreLlr` |
| `CoreLlrServiceProofs` | the answers of `CoreLlr`, and that it implements `LlrService` | `MCCoreLlr`, `CoreLlrProofs` |
| `CoreLink` | the core link with autonegotiation, timers, interrupts, faults, recovery | `Kernel` |
| `LinkService` | abstract: four phases of a link and one answer per accepted up | – |
| `CoreLinkProofs` | the end of every attempt and what is left of it, the types, and that `CoreLink` implements `LinkService` | `MCCoreLink` |
| `CtrlLink` | the control layer of a link, composed with `CoreLink` | `CoreLink` |
| `CtrlLinkProofs` | the same for the composition, the answers under every fault, and the agreement of the two layers | `MCCtrlLink`, `CoreLinkProofs` |
| `LgrpNotif` | the notification fifo, its work and the list of callbacks | – |
| `LgrpNotifProofs` | theorems about `LgrpNotif` | `LgrpNotif` |
| `LinkObject` | the control object of a link: references, FEC monitor, policy, locks, deletion, over a core that keeps `LinkService` | `Kernel` |
| `LinkObjectProofs` | the references of the control object, its types, its resets, its monitor, and who waits for whom | `LinkObject` |
| `Objects` | device, group, link and MAC: creation with its failures, tables of three layers, references, deletion of a tree | – |
| `ObjectsProofs` | the references of an object, the waking of its waiters, the tree | `Objects` |
| `MediaJack` | one jack of a switch with its cable and what its group is told | – |
| `MediaJackProofs` | the two cables of a port, what is told of them, their power, and the jack at rest | `MediaJack` |
| `MC*` | model values, refinement mappings | the module they name |

**State and code.** A `VARIABLE` is a field of the driver's structures and says
which; three kinds of variable are not: `pc` (where each thread is), bounds
(`calls`, `ups`, `msgs`, `fails`, `faults`) and history that a property needs
(`due`, `owed`, `loose`, `listening`, `told`, `stored`).

**Steps.** A *thread* is a client inside an API call or a work item that runs. A
step of a thread is one critical section of the lock together with the calls up
to the next lock, wait or sleep; so every place where another thread can come
in between two accesses of the same state is a place between two steps.
`cancel_work_sync` is two steps: it takes the work off the queue, and it
returns when the work does not run (`Kernel!Cancel`, `Kernel!Waited`). While
somebody waits in it the work cannot be queued. `queue_work` of a work that is
queued has no effect; a work item never runs twice at once.

**`CoreLlr`.** The two attempts of an LLR, `setup` and `start`, have the same
shape in the code, so each operator takes the attempt `p`. A client's call is
`LlrBegin` (the state and the busy check of `sl_core_llr_setup`/`_start`), then
`CmdStore`, `TimerBegin`, `CmdQueue` (the parts of `sl_core_hw_llr_*_cmd`), or
`LlrStop`/`LlrRelease` with `StopCmd` or `CancelCmd`; a work is `AttemptWork`,
`AttemptIntrWork` or `AttemptTimeoutWork`; deletion is `LlrDel`, one cancel at a
time in the order of `sl_core_data_llr_del` (`DelNext`). Settings that are
refused and interrupts that cannot be enabled are faults, bounded by `MaxFaults`.

**`CoreLink`.** `UpAccept`, `CancelAccept` and `DownAccept` are the commands
that take the state; the refusals and the -EALREADY answers are actions beside
them. The works of an attempt hand over by `queue_work`, a timer or an
interrupt; `TimerWork`, `IntrWork` and `CancelList` are the tables of the code
(what each queues, what each teardown cancels and in which order). A failing
step (media, serdes, PCS, FEC, an interrupt enable) is `UpFail`. `autoneg` is the
option of the last config, which may change between two attempts. `loose` notes
what the code lets outlive an attempt: the first work of an up whose attempt was over
when it queued it, or that meets another up that has its first work still to queue, the AN page interrupt, which no teardown disables, and an
interrupt enabled again on a leaving link; `NoWorkOutlives` is about everything else.

**`CtrlLink`** extends `CoreLink`: the calls of the core are the core's own
actions, and the callbacks are steps of the core's works (`Notify`,
`UpCallbackRetry`, …), because that is the thread they run in. A retry therefore
runs `UpAccept` from inside the teardown of the attempt before. `sl_ctrl_link_config_set` gives the
lock back between the look at the state and the core's configuration; both are one step of
`CtrlCall`, because what is configured decides nothing in the model. The `flush_work` of the
callbacks is left to `LinkObject`: here the notification work always ends.

**`LgrpNotif`.** A message is `MsgSize` units of a fifo of `FifoSize` units:
only so can a message be written in part, which the code does. The client's
callback returns, or tries to unregister from inside the work that calls it.

**`LinkObject`** looks at the same control layer from the other side. The core is
four phases and the callbacks it still owes (`CoreEnds`, `asked`), which is what
`LinkService` leaves of it; a core that leaves is DOWN before its callbacks run, and they run
one after the other in the one work that tears it down (after a cancel, fail and then down). In exchange the module has what `CtrlLink` leaves out:
the address that is read before the reference is taken (`Call`, `TakeRef`), the
last put that releases the object in its own thread (`Put`, `Release`,
`CoreDel`, `FreeObject`), `down_complete` (`Await`), the policy, and the monitor (`MonStart`,
`MonStop`, `MonTimer`, `MonLook`, `MonJudge`, `AsyncDown`). Only two locks are
variables: those that are held over a call that wants the other (`StateGet`, `Fault`).

Of the policy the period is a variable; whether a down is only to be requested
(`MayRequest`) is chosen when `AsyncDown` looks at it, since a new policy may come at any moment.

The callbacks of the core that end an attempt or a link wait in
`flush_work(&ctrl_lgrp->notif_work)` (step `flush` of `CallbackEnds`) for the notification work of
the group, so for its clients' callbacks. `Notified` is the client, if any, that makes its calls
from inside such a callback: there is one notification work in a group and it runs once at a time,
hence one at most. What else a callback may do outside this link is taken to return. `WaitsFor`
is who cannot go on before whom: for one of the two locks, for the monitor's work, for the core's work, or
for the callback that is flushed. `EverybodyOut` says that the waits never close but in the
ways it names: a fault that meets a reader of the state or the monitor, and a last reference that is put
inside the core's work, the monitor's, or the notification work, each of which the release waits for, directly
or through the core. `NoOtherWait` says that a thread inside the driver waits for nothing else; a flush does not
wait for calls that were not made yet.

**`Objects`.** A thread has a stack of frames, because a release deletes the
children of the object, which releases them. A creation makes its parts one after
the other (`BuildPart`); when one fails, what the code undoes is undone (`Undone`), and what it
does not undo is named (`NotUndone`). `DeleteBelow` clears the parts in the other layers and the table
in one step where the code has several, and looks at `is_configuring` in it: no property tells these orders apart. One object of each kind is in its table at a
time; a deleted one can be created again and is then another object.

**`MediaJack`** has six threads: scan, events, monitor, the user of fake
cables, a client that registers, and a link. A step is again one section under
`data_lock`, which is free between steps; `lock` says who keeps it for good, which
happens in one place (`Verify`). Temperatures are levels, attributes say whose they are.

* *Events.* hsnxcvr reports a word of events, which is any beginning of the queue (`EventServe`).
  Of a word the code serves one, the first of online, insert, remove and offline; of a word that comes
  when the jack cannot be looked up, none. A removal or an online event that goes that way is noted (`lost`).
* *The group* is looked up before `data_lock` is taken and told after it was given back, by the one
  who found it (`LookUp`, `found`). A thread that had looked before the group was made does not
  tell it what it stores or clears; if the group was told of cables in between, by its registration, that is
  noted (`unseen`). The monitor's round has the group from its beginning.
* *The headshell.* The soft reset of a jack that comes online sets and clears `is_headshell_busy` as a
  shift does (`OnlineReset`), also when the other one still keeps it busy.
* *The client* registers for the levels one after the other, unregisters by clearing the flags of
  one level after the other (`FlagsClr`), and may register again.

The shift state of a jack is left out: nothing in the module would read it.

**Ghosts that name exceptions.** Where the code lets a race through whose damage is
known, the module notices that it happened (`loose` in `CoreLink`, `raced` in
`LinkObject`, `odd` in `Objects` and `MediaJack`, each described where it is declared), and
the properties say what holds when it did not. The race stays in the model: all
the other properties hold with it.

## The runs

Each run takes two or three minutes at most. "States" is the number of distinct states.
Deadlock is checked in the runs of `CoreLlr`, `CoreLink` and `LgrpNotif`. In the
others the system may stop: clients that have used up `MaxUps` or `MaxCalls` leave an
object at rest with nothing more to do. Who hangs in `link_object` is the business of
`EverybodyOut` and `NoOtherWait`, and in `media_jack` a thread that waits for `data_lock` is
seen by the run `media_missed_remove`.

| Run | States | Shows |
|---|---|---|
| `llr_service` | 906 k | Two clients call everything in every order on one LLR (3 accepted commands, no faults): types, `AnsweredOnce`, `OneSettler`, `SetupHasData`, `FreedQuiet`, and the LLR implements `LlrService` |
| `llr_serial` | 508 k | One client, one fault, a fair scheduler: without faults `StoredWithoutFault` and `NeverStuck`; with one the model goes through all its error paths |
| `link_attempt` | 1.21 M | One client, two attempts with or without autonegotiation and through the FEC settle time, one failing step, remote faults, high SER and lane degrade: types, `OneEnd`, `NoWorkOutlives`, `KeepsLinkService` |
| `link_an_stuck` | – | violation of `Settles`, see Findings |
| `ctrl_up_async` | 68 k | Two clients bring the link up and take it down with `async_down`, retries from the callbacks, a fair scheduler: `ToldOnce`, `Agreement`, `DownStays`, `CtrlSettles`, `Settles`. That the core keeps `LinkService` under this caller is proved (`CtrlServiceKept`) |
| `ctrl_faults` | 275 k | Every call, autonegotiation, two failing steps, lane degrade, and faults that take the link down, are recovered from, or re-arm, at any moment: `AnsweredAtMostOnce` |
| `ctrl_lost_cancel` | – | violation of `DownStays`, see Findings |
| `notif_queue` | 743 k | One driver thread, two clients, a fifo of one and a half messages, a fair scheduler: all the properties of `LgrpNotif` |
| `link_object` | 2.13 M | Two clients with three calls of any kind, one of them from inside a notification callback, the core, faults and the monitor: all the properties of `LinkObject` |
| `objects` | 839 k | Two clients with five calls of any kind, two objects of each kind, all the creations that can fail: all the properties of `Objects` |
| `media_jack` | 944 k | Two events (plugging, heat, failures and lost reports, fake cables, an unregistration) at any moment of a scan, a registration, a shift and the monitor: all the properties of `MediaJack` but `RemovalNoticed` |
| `media_missed_remove` | – | violation of `RemovalNoticed`, see Findings |

**Bounds, and why they are enough.** The commands of one object are serialized
by its state: an LLR or a link accepts the next attempt only when the state of
the one before is left. What can meet is therefore an attempt and what is left
of the ones before: two attempts and the client's other call, which
`MaxCalls = 3` (setup, start, and a second setup after a stop) or
`MaxUps` provides (two, and three in `ctrl_up_async`, where two clients take them). `MaxFails = 1` and `MaxFaults = 1`: a failure ends
its attempt, so the interesting case is one at any step, together with a timer,
a cancel and a next attempt without one. `ctrl_faults` accepts one up of a client, which
the control layer may retry into what the fault left. `MaxTries = 2` has a first try, a
retry, and an end because the tries are used up. Two clients are what a race of
two calls takes; where the client count is one, the works are the other party.
In `LgrpNotif` three messages and a fifo of 3 units for messages of 2 have an
empty, a partly free and a full fifo, a message refused half way and the
message after it; two slots and two clients have a first and a last slot and a
table that is full when the second registers; `MaxPolls = 2` has a poll that
succeeds, one that is repeated, and one that gives up.
In `LinkObject` three calls are an up, a call that meets its end, and a deletion;
`Chances = 1` has a sample that is forgiven and one that is not; a period is off or on. One client is
the callback that the core flushes and the other is not, so the two are not symmetric.
In `Objects` five calls create a device and a group, use one and delete both ends, or,
from a whole tree, delete and create at every place of it.
In `MediaJack` two events are a cable that comes and goes, or one that is heated and cools
down, or one of these with a failure, a report that is lost or a fake cable; the scan, the monitor, the first registration and
the links' calls are not counted, each unregistration is, which leaves an event for what meets the second registration.
Clients are symmetric only in `objects`, which checks no liveness.

**What each property would catch** is shown by the mutants in `PROJECT.json`: for
each property of each run a version of one mapped definition with a plausible
bug (a dropped check of the state after a relock, a cancel list that misses a
work, a timer not started, …) that makes that property fail.

## Fairness

`Spec` has none and is what safety is checked on. `FairSpec` assumes, by weak
fairness of each, only what the kernel guarantees:

* a client inside a call goes on (`ClientStep`), which says nothing of whether
  a client makes calls;
* a queued work runs, and a running work goes on: the workqueues are unordered
  and not limited to fewer workers than the driver has works;
* a pending timer expires unless it is stopped;
* callbacks of clients return (`LgrpNotif`; and in `LinkObject`, where no fairness is assumed, a
  callback that is in no call of the link has returned);
* the work of the temperature monitor, which queues itself, goes on (`MonSpec`);
  scan and event threads go on (`FairSpec` of `MediaJack`).

Not assumed: that interrupts fire, that a link comes up, that a client calls
`stop` or `down`, that a poll finds the list of callbacks free. Strong fairness
is nowhere needed: once a work waits in `cancel_work_sync`, what it waits for
goes on by itself. That nobody waits in a circle is part of what the liveness
properties show.

## The proofs

The theorems of `CoreLlrProofs` (about 1770 obligations), `CoreLlrServiceProofs` (about
560), `CoreLinkProofs` (about 5200), `CtrlLinkProofs` (about 3400), `LinkObjectProofs` (about
7000), `ObjectsProofs` (about 5800), `MediaJackProofs` (about 3600) and `LgrpNotifProofs`
(about 1000) hold for every value of the constants that satisfies the named assumptions,
which only say that threads have different names, that bounds are naturals and that hot and
cold are among the temperatures; `LgrpNotif` also needs that a fifo holds at least one
message. What a theorem assumes besides is in its ASSUME and said below with the reason.

*`CoreLlr`.*

* `TypeCorrect`: `TypeOK` is inductive by itself. One lemma per part of the next-
  state relation; `LabelType` and `AttemptFacts` are what the provers need to
  know of the tables.
* `SettlersUnique`: the argument of the whole LLR. `OneSettler` counts
  threads, and a count is not inductive: it does not say which thread. So
  `SettlerInv` says: a thread that is going to write the state unconditionally
  owns it (it is at the step of the attempt whose transient state it is, `Owns`),
  two such threads are the same, and a transient state has one. Each action
  either leaves the settlers alone (`KeepInv`), makes its thread one
  in a state that has none (`TakeInv`), or writes a state that needs none
  (`ReleaseInv`); the guards of the code (each taker finds a state that is not
  transient) are what makes the second case possible. Assumed:
  `MaxFaults = 0`. With failing settings a stop may find a busy state that no
  thread works on and two stops may settle one attempt (see Findings).
* `OneSettlerAlways` brings it back to the count with the library's facts on
  the cardinality of singletons.
* `SetupHasDataAlways`, by `DataInv`: the loop time data is valid in every state that
  is past SETTING_UP, and also while the loop time work is between storing it and
  publishing SETUP. In that time the state is still one before SETUP, so no stop
  of the setup, which is what invalidates the data, can come in between.
  `MaxFaults = 0` is assumed here too.
* `AnsweredOnceAlways`, by `AnswerInv`: the answers owed for an attempt are one if the
  state is the attempt's busy state, plus one for each thread that has decided the
  attempt and not yet answered. That there are finitely many such threads is part
  of the invariant, because nothing says that there are finitely many clients. A
  step moves one thread, so `Balance` reduces each action to what the state and that
  one thread count for before and after. `MaxFaults = 0` is assumed: a setup
  whose settings are refused leaves SETTING_UP behind with no answer owed.
* `FreedQuietAlways`, by `DelInv`. Deletion cancels the sources of a work (timer, interrupt)
  before the work, so what is proved is that whoever cancels work `w` has cut off all that leads
  to it (`CutOff`), and that nothing cut off comes back: a work that could arm a timer or enable
  an interrupt is itself one of those that are canceled before it. Nothing is assumed: refused
  settings and failing enables are included.
* `StoredWithoutFaultAlways`, by `StoredInv`: an attempt whose callback is not stored is
  untouched, i.e. has no timer, interrupt, work or thread of its own that could decide it. One
  client is assumed, as in `llr_serial`: with two the property is false, because a stop of the
  other may come between the state and the store.
* `ServiceKept` states the refinement: `CoreLlr` implements `LlrService`. A
  command writes the state after its guard, so its step is an edge; an unconditional
  write is one because the writer owns the state it leaves (`SettlerInv`); and an
  answer is due because the answering thread is one of those `AnswerInv` counts.

*`CoreLink`.*

* `OneEndAlways`, by `EndInv`. `OneEnd` counts the teardowns on their way; what is
  inductive is who brings which one about. A teardown has a carrier: its work runs,
  its work is queued, or a client is between `data_lock` and `queue_work`
  (`Leads`). `LeadInv` says that a carrier's teardown is the one the state was
  promised to (`EndState`), that there are no two carriers or teardowns, and that
  a leaving link has one. A queued timeout is no carrier: it promises nothing
  until it looks at the state. Each action keeps the carrier (`KeepLead`), takes a
  link that is not leaving (`TakeLead`: cancel, down, a failing work, a timeout
  that finds a rising link), hands the teardown on (`PassLead`: the client queues
  the work, the worker takes it) or drops it (`DropLead`: DOWN is written). The
  queueing is where a teardown could be lost, as `queue_work` has no effect on a work
  that is being canceled; `NotHeld` shows it does not happen, as only a running
  teardown cancels works, and with another carrier there is none. `AnswerInv`
  counts the answers owed as for the LLR. `ConfigInv` is needed because the end of
  a configuration writes CONFIGURED without looking.
* `LinkServiceKept`: the refinement, from `EndInv`. A work other than a teardown
  stays where it is or leaves a rising link (`WorkMove`); DOWN is written by a running
  teardown only, so on a leaving link; and an answer is due because `AnswerInv` counts
  the answering work.
* `CoreTypeAlways`: every thread is at a step of the functions modelled. A work is at the end
  of its own cancel list because each list is a fixed one (`RangeInv`, `PcInv`). Whatever a
  fault leads to is included.
* `NoWorkOutlivesAlways`, by `OutliveInv`, which is `Kept` unless `loose`. `NoWorkOutlives` is about the
  moment the teardown turns the link off; what is inductive is how it gets there. `ChainInv`
  says that an attempt is in one place: a single work that is queued or runs, timer or
  interrupt carries it on, and with one there is no client about to start it; `FirstInv` when the link up timer may be pending;
  `CalmInv` that a link at rest, up, or on its way down has no attempt. `TornInv` is the argument:
  a teardown that waits for a work has canceled all those before it in its list, and they
  stay away. They do because the lists are sorted: each work of an attempt hands over to one
  of a higher `Rank`, and every cancel list goes up in `Rank`, so what is canceled first
  can only be queued again by what was canceled before it. For interrupts the same is said
  of the one place in the list from which they are off (`HasCut`). `RestInv` is about the monitors of a link
  that is down. The attempt to prove it found an up that the module let
  through: two clients that had each an accepted up and its first work still to queue, the
  first attempt being over, could have the older one queue it into the new
  attempt. The code allows it; TLC, given two clients, confirmed it, and `loose` now notes it.

Three of these assume that a fault does no more than enable its interrupt again
(`FaultPaths` is empty or `{"rearm"}`, as in the run `link_attempt`). A fault that takes
the link down writes GOING_DOWN and DOWN itself, with no teardown, and may do so over an
attempt that began in between; `AnsweredAtMostOnce`, what is left of the promise then, is proved
of the composition without assumption (`AnsweredAtMostOnceAlways`). `CoreTypeAlways` assumes nothing either.

*`CtrlLink`.*

* `CtrlOneEndAlways`, `CtrlServiceKept`: what is proved of the core alone under arbitrary
  clients holds of the composition. Each action of `CtrlLink` is an action of the core whose
  thread stands in a callback instead of being idle, or moves one thread between two labels that
  mean nothing to the core; so the lemmas of `CoreLinkProofs` are stated for any label of no
  consequence and used here again. A retry is the step with an idea: it takes a link that is at
  rest from within the teardown that brought it there, whose promise is over by then.
* `CtrlNoWorkOutlivesAlways`, from `OutliveInv` in the same way, for every call. A retry is an up that is accepted in
  a thread that is no client, so the lemmas about ups are stated for any thread. TLC went before: one
  client, all calls, two failing steps and the retry were checked beside the runs (4.5 M states).
* `AnsweredAtMostOnceAlways`, by `DebtInv`, for every call and every fault. With a fault that writes DOWN there may be
  an answer too few, so the equations of `AnswerInv` are lost; but there is never one
  too many. A debt is a rising link, a thread that has decided an attempt and will answer, or a queued work that was
  promised one; the ups that were accepted and not answered are at least as many as the debts. A step passes
  a debt on (`DebtPassed`), pays it, makes it with a new up (`DebtMade`) or loses it.
* `CtrlTypeAlways`: the ranges of the composition, the bound of the tries among them.
* `DownStaysAlways`, `ToldOnceAlways` and `AgreementAlways`, by `CtrlInv`. Neither of the three
  can be had from the two states alone, because they differ whenever an answer is under
  way. A thread *bears* an answer from the moment it is committed (a client that took the control state for an
  up or an async down, a work of the core inside a callback) until the control state is written. `BearerInv` says that there is at most one
  bearer, that the control state is what its answer will find (`Fits`), and that with no bearer
  the two layers agree (`Free`). `OwedInv` counts who is still to be told. `NoCancel` and `ConfInv` keep out
  states that only a down, a reset or a configuration of another thread bring.
  For agreement a link that rises must also have something that moves it (`RisingInv`):
  a timer, a work that is queued or runs, or a thread about to start one. All three assume that clients call up and async
  down only: with down and reset the properties are false (`ctrl_lost_cancel` shows it). The last two
  assume that there is no autonegotiation: with it a rising link may be left with nothing that
  moves it (`link_an_stuck`).

*`LinkObject`.*

* `RefsKeepAliveAlways`, by `RefInv`. `ShapeInv` is a table of the steps a client, the
  core and the monitor can be at in each call (`ClientSteps`, `CoreSteps`,
  `MonSteps`): from it follows who holds a reference at a step. `CountInv` is the
  equation, with finitely many holders although there may be infinitely many
  clients. `ReleaseInv` says that an object without references is freed or in the
  hands of one thread; the put that reaches zero makes that thread (`BeginRelease`),
  and nobody can take a reference after it because `kref_get_unless_zero` looks at the
  count. `DelInv` keeps the first reference until the one deletion. That no callback of
  the core outlives the object is not a matter of references, because the callbacks of
  up, fail, down and fault have none: `GoneInv` says that the core is deleted before the
  object is freed, and that `sl_core_link_del`, which waits for the running work, leaves
  no callback behind. `Ordinary` is a step that moves no reference, `Taken` and `Given`
  one that does. Nothing is assumed but that the threads are different.
* `StoppedSilentAlways`, the first half of `MonitorSilent`: once a stop of the monitor has
  returned there is no timer and no work until the next start. The work looks at
  `stop` once, before it judges, and arms the timer at its end; that the timer it arms after
  the stop does not survive is because the one who stops still waits in `cancel_work_sync` for
  that work, and what the timer queues meanwhile is waited for as well.
* `ObjectTypeAlways`: the ranges, in particular the callbacks that may be owed and the chances.
* `ResetsDownAlways`, `MonitorAliveAlways` and `MonitorSilentAlways`, by `MonitorInv`. All three
  say what holds as long as every client waits for the end of its calls (`raced` is false), and
  need to know where the core is when the control layer does something. `PhaseInv` has the
  eight situations core, control state and the core's thread can be in together; `LiftInv` says that
  only a link at rest is brought up, by one client; `TakeInv` that only a link that is up is taken,
  by one thread, and that whoever releases the object has found it down or has taken it;
  `RivalInv` that no two clients are in calls that exclude each other; `DownInv` what
  `down_complete` stands for. These five are `WaitInv`, and enough for resets. For the monitor
  `PeriodInv` ties the period to the policy call that changes it, `StopInv` says that a monitor that was stopped
  still works only for a thread that waits for it, `AliveInv` that a link that is up has a
  monitor that works or that somebody is stopping, and `HaltInv` that a monitor that works has a
  reason to (`Excused`: the link is up, a thread is on its way to stop it, or it takes the link down
  itself, or the callback of that down is to come or found the object let go of). The last is what makes the monitor of a freed
  link silent: no reason survives the release. `LockInv` is needed for faults, which stop the
  monitor with the core's lock held, `GoneFree` so that a deleted core is nobody's any more.
  Stating `PhaseInv` showed that the module had the core run a teardown's callbacks in another
  order, and in more than one thread, than `sl_core_hw_link_up_cancel_work` and its likes do;
  the module was corrected.

* `EverybodyOutAlways`: unless a fault meets a reader of the state or the monitor
  (`FaultMeets`), or the last reference is put inside a work the release waits for (`ReleasedInside`),
  no group of threads waits on each other and no lock is left behind. `HolderInv` says who can hold a lock: the
  object's a client that is about to ask the core for its state, the core's a fault.
  From it, `WaitedFor` has the order of the waits: a reader of the state waits only for a fault, a fault only for
  the monitor, the monitor for both. The core's work, when it flushes, waits for the client whose
  callback is in a call, and that client for these three, unless it releases the object; everybody else waits for those.
  A fault and the monitor that wait for each other are what `FaultMeets` excludes.
  `OutOfWaits` picks, of any group, the one that waits for nobody in it. Of the constants
  only that one client at most calls from its callback is used (`NotifiedAssumption`). With
  `NoOtherWait` it says that a thread inside the driver can go on or somebody it waits for can.

*`Objects`.*

* `RefsCountedAlways`, by `IInv`. The count is not inductive alone: a release that ran twice, or
  beside somebody who holds a reference, would break it, and what prevents it is spread over
  the stacks. `FrameInv` says what each frame on a stack knows of its object: a release
  and everything after it that the references are gone (`Going`), and up to the clearing of the
  table that the object is the table's entry (`Phase`). `AloneInv` says that no two frames do the
  same to an object: a release begins when the count goes from one to zero, and
  no release of the object is under way then because each knows of a count of zero. So the
  clearing takes out the object's own entry and nobody's who still relies on it. `ObjInv` says
  that an object with references is in its table, `CountInv` is the equation for objects that
  were deleted once at most; about a second deletion nothing is claimed. `StackInv` has the
  shapes of a stack (`Shaped`), from which it follows that a thread holds one reference.
  `OffChange` is a step of a deletion, `PlainStep` one that moves a call and changes no
  object, `BuildEnds` the end of a creation; nothing is assumed of threads or calls.
* `WaitersWokenAlways`, from the same invariant: an object that is freed and is not a MAC
  was completed, so a deletion that gives up has not missed its release.
* `TreeKeptAlways`, by `TreeInv` beside `IInv`. `ParentsStay` needs to know of a release in the middle of its
  children: a release holds no reference to anything, and only its place on the stack tells
  what it has dealt with. `StayOK` says that a release does not go past the place of a child
  that is in its table without a frame on top that deletes it or waits for its deletion, so that the clearing of
  the parent's own entry finds no child. `AboveOK` says that the parent of an object was published when the
  object was created and went by deletion only, `DoneOK` that what is completed has left its table, and `LeavesOK` that an
  object without references is on its way out in some thread, one that is not published in its
  creation; with nobody inside a call these two leave nothing half way. `LayersOK` is about the tables of the core and of media, which
  a release clears for its children as well as for itself: a kind is in them if it is in the table or
  a creation of it is past that part. The one creation it cannot promise this of goes on
  under a parent that was deleted meanwhile (`Doomed`), and ends as `rushed` or failing. `Calm…` are the steps that change no object.
* `ObjectsTypeAlways`, by `BoundInv`. The types contain a bound of `ref_cnt` that does not
  follow from `RefsCounted`, which says nothing of objects that were deleted twice: one reference
  for each thread inside, and one more. It is proved for finitely many clients, which is what makes
  the bound a number.

*`MediaJack`.*

* `CableKeptAlways`, by `CableInv`. What the code relies on without saying so is in
  `PortInv`: who brings the jack online carries attributes that were read of
  a cable (`CarryInv`), never those of a fake one, so only the monitor, which takes the
  attributes the port has by then, can take the one for the other; while it is about to, there
  is no fake cable unless one was inserted meanwhile (`aliased`); and during the whole of a
  round there is a real one unless a removal crossed it (`crossed`). `Plain` is a step that leaves
  the port alone, `Writes` one that does not.
* `OneToldAlways`, by `OneInv`: whoever marks a temperature goes on to take the others back
  (`OneNotif`), and nobody else moves those that are about to (`Quiet`). Where the two
  senders cross, each takes back what the other marked.
* `ToldTruthAlways`, by `ToldInv`: what was told last is the truth, or somebody is about to tell
  (`Tells`). Whoever changes the attributes is, from the change on; and what a thread is going
  to tell is true when it does, because what the other threads make of the port in between makes
  them tell after it. A thread tells only the group it found, so what is stored or cleared must have been seen to have one:
  `GroupInv` says that there is none, and nothing was told, before the scan is over, and that the scan never tells; so the one
  who can have looked too early is an event, and that is an exception (`unseen`) beside a look at the fake cable
  that was over (`mixed`).
* `PoweredAlways`, by `PowerInv`: high power is what a thread on its way to ONLINE has behind it
  (`Warm`), and what an online jack has that is COLD or that the round of the monitor found cold and has
  not said so yet (`ColdOn`, `ColdRound`), unless a shift or a stale heat cut it (`cut`).
* `SettledAlways`, by `JackInv`. `QueueInv` reads the queue of events as a promise: what was
  not served yet ends with a removal if the cable is out, and has none after the last insertion
  if it is in (`Leaving`, `Coming`, with lemmas on appending events and on serving a beginning of the queue).
  Insertions are followed by their online event, so a word that was cut in
  between says nothing wrong, and a word of which the wrong one is served is `lost`.
  `SettleInv` says who is about to find out what the queue does not tell: a thread that
  serves an event, or one of the two looks of the scan. `ApartInv` is that a
  removal has the jack for itself unless it was crossed, and `LabelInv` that nobody else brings
  jacks online or takes them off.

*`LgrpNotif`.*

* `TypeCorrect`, by `TypeInv`: the fifo is bounded only because a message is cut to
  the room there is, and what is put is a message only because what a thread
  carries from the check to the put is one (`Carries`).
* `NoCallAfterUnregisterAlways`, by `ListInv`: the entries of the list are
  clients that listen, no two slots hold the same client, a client that registers
  is not in the list yet, the work is not idle only while `list_state` is
  SENDING, and then nobody writes the list. Distinct entries are needed because
  unregistering clears the first slot that matches and only that.
* `NothingStrandedAlways` is inductive with `TypeInv`. The case with an idea:
  a message that is refused half way leaves units without queueing the work; it is
  refused because the fifo was not empty, so a work is coming already, which
  needs a fifo that holds at least one message.
* `WholeAudienceAlways`, by `AudienceInv`: at slot n of the list the work has called the
  clients in the slots before n that want the message, and the list is not written while the work is not
  idle (`ListInv`), so when it reaches the end it has called everybody.

Only model-checked:

* every liveness property (`Settles`, `NeverStuck`, `CtrlSettles`, `EverythingEnds`,
  `ToldInTheEnd`), and `NoOtherWait` of `LinkObject`, which says with `ENABLED` that a thread
  that waits for nobody has a step: fairness and `ENABLED` are outside what the installed provers do;
* of the theorems with assumptions, the cases these leave out: faults in the settings of an
  LLR (`llr_serial`), and of a link with every fault all but the number of its answers (`ctrl_faults`).

## Findings

Three runs show a statement of the repository that the code does not keep; the
entries in `PROJECT.json` quote both.

1. `link_an_stuck`: no teardown disables the autonegotiation page interrupt. A page
   of an ended attempt takes the next attempt from AN to GOING_UP before that
   one has started its timer; if the link does not come up then, nothing ends
   the attempt.
2. `ctrl_lost_cancel`: a down while STARTING cancels an attempt that the core has
   just finished; the core refuses the cancel and the up callback takes the link
   from STOPPING to UP. The down has returned an error, and the link is up.
3. `media_missed_remove`: the second look of the scan, which is there for cables that were
   pulled before the notifier was registered, clears the attributes of such a cable with
   `data_lock` held, and clearing them takes `data_lock`. The removal is never noticed.

Seen in the models and not made runs, because no statement of the repository is
against them, or because they are what an exception of a property stands for.

*LLR and notifications*

* settings that are refused leave SETTING_UP with no callback stored
  (`sl_core_llr.c:110-122`); a stop then calls a callback that was never stored, or that of an
  earlier setup (`StoredWithoutFault` is about the case without such settings);
* the notification fifo's size (2048, rounded up by `kfifo_alloc`) is not a
  multiple of the message size (152): the last message is written in part and refused,
  its beginning stays in front of the next message, which is then read torn;
* `sl_core_llr_stop` may return 0 before the timeout work it met has written
  CONFIGURED;
* the retry of a timed out LLR start is called in START_TIMEOUT, where
  `sl_core_llr_start` refuses always;
* `docs/llr.md` draws the error edges of SETTING_UP and STARTING to SETUP_STOPPING
  and STOPPING; the code takes SETUP_CANCELING and START_CANCELING;
* a callback that unregisters inside the notification work blocks the notifications
  of its group for 200 ms and gets -ETIMEDOUT; registering for media types
  announces the media to everybody who listens; unregistering what was not
  registered returns 0.

*Links*

* a fault that writes DOWN in the middle of a teardown, followed by a new up, can
  have the timeout work and the cancel work wait for each other in
  `cancel_work_sync`; with such faults only `AnsweredAtMostOnce` is claimed;
* a remote fault, a degraded lane or a high SER that is served on a leaving link may leave its
  interrupt enabled on a link that is down (`loose`);
* with a down or a reset while STARTING the control layer may rest in another state
  than the core (`Agreement`, `ToldOnce` and `CtrlSettles` are claimed for up and
  async down).

*Objects*

* a fault holds the core link's `data_lock` and takes the control link's; a reader of the state
  holds that one and takes the core's. And a fault waits in `cancel_work_sync` for the monitor, which
  takes the core's lock to bring the link down. `EverybodyOut` names these two cycles (`FaultMeets`);
* the last reference may be put by the core's down work, or by the monitor, whose
  release then waits for the work it runs in (`ReleasedInside`);
* so it is with a last reference that a client puts inside a notification callback: the release
  waits for the core's work, which waits in `flush_work` for the callback (`ReleasedInside`, too).
  A reset or a deletion inside such a callback cannot be told of the end of the link either, and comes out by its
  timeout;
* `sl_ctrl_link_async_down` keeps its reference when it only requests the down, or has done so
  before: the link is never released (`leaked`);
* the release of a MAC does not complete `del_complete`: a deletion that has to wait
  for a user always gives up after its timeout; `sl_ctrl_mac_reset` counts its success in the MAC after it has
  put its reference;
* creations of a device, a group, a link and a MAC that fail late leave what they made in
  the core or in media, so that the next creation of the object fails (`NotUndone`);
* the core's group stays when it is deleted while being configured, and its owner
  goes on as if it was gone.

*Media*

* a cable brought online by the scan and by an online event is set twice; the second
  finds it set and leaves a healthy jack in ERROR (`Settled` allows ERROR with a cable);
* a removal that is served while another thread brings the jack online leaves a jack that
  is online, or in error, without a cable (`crossed`); so does a scan that cannot read the jack (`unread`);
* and so does a report of hsnxcvr of which the removal is not served, because it comes with an insertion or the
  jack cannot be looked up; an online event that is lost leaves a jack with a cable INSERTED (`lost`).
  The comment at `switch/sl_media_data_jack.c:227` knows of the first;
* a cable whose attributes are stored, or cleared, by a thread that looked for the group before it was made is not
  told to a group that registered in the meantime (`unseen`): ADDED with the client told NOT_PRESENT last, or the reverse;
* absence may be told over a fake cable that was just inserted, and last (`mixed`), because
  the comment at `sl_media_data_jack.c:189` ("Only send notification if both real and fake
  cables are removed") is kept with a stale look at the fake one;
* a fake cable that is set between the monitor's failing high power and its
  `attr_set` becomes the real cable's stash (`aliased`): the port's own attributes are what is passed;
* a client that registers with a fake cable over no real one is told PRESENT and then NOT_PRESENT;
* a cable powered down for a heat that is over, or by a shift that failed half way, stays in
  low power although it is cold and online (`cut`);
* `is_headshell_busy` is a flag: the first that ends, of a shift and a soft reset, clears it for both, and the monitor
  then looks at a headshell that is still busy.

## What is not modelled

* *Register sequences* (serdes, PCS, SBus, firmware load): a step that succeeds or fails. Their
  functions are long lists of writes with a poll at the end, one after another in one thread.
* *Counters, causes, clocks, limits over time*: nothing that is modelled reads
  them, except the attempt count, which is.
* *Payloads*: the tag of a callback, the contents of a notification but its type,
  the pages and capabilities of autonegotiation, the EEPROM and the data base of cables.
* *Of the FEC monitor* the rates and windows and the warnings; of the two counts of
  crossed limits one is modelled.
* *Of media* the LED, lane data, fault causes, the shift state, a jack with several ports, the
  other sources of cables (`media/data/nic/`, emulation), the deletion of a group that the
  monitor still uses.
* *Of the MAC* starting and stopping: two switches under one lock.
* *The composition* of `LinkObject` with `CoreLink`, of `MediaJack` with `CoreLink`, and of either with
  `LgrpNotif`: each uses a summary of the other (`LinkService`'s phases, a media check that may fail, a queue that
  may refuse), because the products are beyond what TLC can enumerate.
* *Memory ordering* below the level of locks: fields that are read without a lock
  are read in steps of their own.
* *sysfs, log, the test module, the API's argument checks*: they decide nothing.

The modules stand for about a ninth of the lines of the repository. About a third of these lines are firmware
images and tables (`core/hw/ucode/`, the cable data base), a sixth is the text output of `sysfs/`, and
most of the rest are register sequences and the printing of names: there is no more than
a step that succeeds or fails to be said of them, and a definition per function would say it without showing anything.

## The plan

Done, in this order: `CoreLlr`, `LlrService`, `CoreLink`, `LinkService`, `CtrlLink`,
`LgrpNotif`, the proofs of `CoreLlr` and `LgrpNotif`, `LinkObject` (with the FEC monitor),
`Objects`, `MediaJack`, the proofs of `CoreLink`, of `LinkObject`, of `MediaJack` and of `Objects`,
the proofs of `CtrlLink`, the rest of the invariants of the LLR, the control object, the tree and the jack, and
last what is left of an attempt and of its answers (`NoWorkOutlives`, `AnsweredAtMostOnce`) and
who waits for whom (`EverybodyOut`).

Every safety property of the runs is now proved, but for `NoOtherWait` and the cases listed above; what is left to prove is
out of reach of the provers (liveness, `ENABLED`).

Left to model, should the code change there: the link partner query and the exchange of pages, the
limits of PML recovery, jacks with several ports.
