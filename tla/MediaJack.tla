----------------------------- MODULE MediaJack ------------------------------
(***************************************************************************)
(* One jack of a switch with one port, the cable in it, and what the       *)
(* port's group is told: media/data/switch/sl_media_data_jack.c,           *)
(* media/data/sl_media_data_jack.c, media/data/switch/*_emu.c and the      *)
(* callers in media/sl_media_jack.c and sl_media_lgrp.c.                   *)
(*                                                                         *)
(* Six threads meet in the jack: the scan of a new device, the notifier of *)
(* the transceiver driver (hsnxcvr), the temperature monitor, the user of  *)
(* fake cables, the client that registers for notifications, and a link    *)
(* that shifts the cable or powers it down.  They share the data_lock, but *)
(* hold it for one field at a time: what one of them decides is stale when *)
(* it acts.                                                                *)
(*                                                                         *)
(* The cable is an active one.  Left out: the LED, fault causes and their  *)
(* counters, the contents of the EEPROM, temperatures in degrees, the shift *)
(* state (nobody here reads it), a full notification queue (LgrpNotif), the *)
(* deletion of the group.                                                  *)
(***************************************************************************)
EXTENDS Integers, Sequences, FiniteSets

CONSTANTS
    Levels,      \* the temperatures told apart
    FakeUser,    \* a test inserts and removes fake cables
    MaxEvents    \* bound on what happens to the jack: plugging and pulling, changes
                 \* of temperature, failing reads, writes and enqueues, calls of the
                 \* fake user, the client's unregistrations

ASSUME MediaAssumption ==
    /\ FakeUser \in BOOLEAN
    /\ {"HOT", "COLD"} \subseteq Levels /\ Levels \subseteq {"HOT", "WARM", "COLD"}
    /\ MaxEvents \in Nat

Threads == {"scan", "event", "mon", "fake", "client", "link"}

VARIABLES
    plugged,     \* a cable is in the jack
    heat,        \* how warm it is
    events,      \* hsnxcvr events not served yet
    listening,   \* the notifier is registered with hsnxcvr
    state,       \* the jack's state
    status,      \* XCVR_PRESENT of the last status read
    temp,        \* temperature_state
    highPower,   \* is_high_powered
    busy,        \* is_headshell_busy
    real,        \* real_cable_status
    fake,        \* fake_cable_status
    attr,        \* media_attr: whose it is
    stash,       \* stashed_media_attr
    ready,       \* levels whose *_client_ready is set
    sent,        \* levels whose *_notif_sent is set
    group,       \* the port's group exists
    told,        \* the cable notification queued last
    found,       \* threads that store or clear attributes and found the group
    lock,        \* who holds data_lock for good
    pc,          \* the step of each thread
    prior,       \* prev_temp_state of the monitor's round
    odd,         \* unusual events that happened, see Odd
    count        \* events counted against the bound

hw     == <<plugged, heat, events, listening>>
jack   == <<state, status>>
warmth == <<temp, prior>>
power  == <<highPower, busy>>
port   == <<real, fake, attr, stash>>
flags  == <<ready, sent>>
notes  == <<group, told, found>>
vars   == <<hw, jack, warmth, power, port, flags, notes, lock, pc, odd, count>>

(* "faulty": read from the cable, with an error of its headshell; "bare":    *)
(* errors only, the cable could not be read.                                 *)
Attrs == {"none", "real", "faulty", "bare", "fake"}
Active(a) == a \in {"real", "faulty"}

Init ==
    /\ plugged \in BOOLEAN /\ heat = "COLD"
    /\ events = <<>> /\ listening = FALSE
    /\ state = "REMOVED" /\ status = FALSE
    /\ temp = "INIT" /\ prior = "INIT"
    /\ highPower = FALSE /\ busy = FALSE
    /\ real = "REMOVED" /\ fake = "REMOVED" /\ attr = "none" /\ stash = "none"
    /\ ready = {} /\ sent = {}
    /\ group = FALSE /\ told = "none" /\ found = {}
    /\ lock = "free"
    /\ pc = [t \in Threads |-> IF t = "scan" THEN <<"scan", "">> ELSE <<"idle", "">>]
    /\ odd = {}
    /\ count = 0

At(t, step) == pc[t][1] = step
About(t) == pc[t][2]
Idle(t) == At(t, "idle")
Go(t, step, about) == pc' = [pc EXCEPT ![t] = <<step, about>>]
Done(t) == Go(t, "idle", "")
Event == count < MaxEvents /\ count' = count + 1
Fail == Event
Fine == UNCHANGED count

(* What is read from the cable or written to it fails: always without one. *)
Broken == IF plugged THEN Fail ELSE Fine

(* The level after this one, for those that go through them *)
Below(k) == IF k = "HOT" /\ "WARM" \in Levels THEN "WARM" ELSE "COLD"

(* data_lock can be taken. *)
Free == lock = "free"

(* Those that bring the jack online, and where they are doing it *)
Onlining(t) == pc[t][1] \in {"online", "look", "going", "read", "power", "reset",
                             "raise", "attr", "store", "present", "finish", "fail"}

(* What the properties below except:                                        *)
(*   crossed  a removal was served while another thread was bringing the    *)
(*            jack online, or in a round of the monitor                     *)
(*   mixed    absence was told over a fake cable                            *)
(*   aliased  a fake cable was set while the monitor puts an error into the  *)
(*            attributes of the port                                         *)
(*   cut      the power went down for a heat that was over, or a shift gave *)
(*            up in low power                                               *)
(*   unread   the scan could not read whether there is a cable             *)
(*   unseen   attributes were stored or cleared by a thread that had looked *)
(*            for the group before it was made, after the group was told     *)
(*            of cables                                                      *)
(*   lost     a removal or an online event was not served                    *)
Crossing == /\ pc'["event"][1] \in {"clr", "wipe", "unsee", "absent", "gone", "removed"}
            /\ \/ Onlining("scan")' \/ pc'["scan"][1] = "verify"
               \/ pc'["mon"][1] \in {"check", "cold", "power", "error", "attr", "present"}

Mixing == /\ told' = "absent" /\ told # "absent" /\ fake = "ADDED"
          /\ pc'["fake"] = pc["fake"]

Aliasing == pc'["mon"][1] \in {"error", "attr"} /\ fake' = "ADDED"

Cutting == \/ /\ At("link", "low") /\ ~highPower'
              /\ temp # "HOT" \/ Onlining("event") \/ Onlining("scan")
                 \/ About("mon") = "COLD"
           \/ At("link", "shift") /\ Idle("link")'

Unseeing == /\ At("event", "store") \/ At("event", "wipe")
            /\ real' # real /\ "event" \notin found /\ told # "none"

(* The events that left the queue, and what of them is served *)
Losing == LET word == {events[i] : i \in 1..(Len(events) - Len(events'))} IN
          \/ "remove" \in word /\ pc'["event"][1] # "clr"
          \/ "online" \in word /\ pc'["event"][1] # "online"

Odd == odd' = odd \cup (IF Crossing THEN {"crossed"} ELSE {})
                  \cup (IF Mixing THEN {"mixed"} ELSE {})
                  \cup (IF Aliasing THEN {"aliased"} ELSE {})
                  \cup (IF Cutting THEN {"cut"} ELSE {})
                  \cup (IF pc'["scan"][1] = "blind" THEN {"unread"} ELSE {})
                  \cup (IF Unseeing THEN {"unseen"} ELSE {})
                  \cup (IF Losing THEN {"lost"} ELSE {})

(* The rest stays, and the odd is noticed. *)
Keep(others) == UNCHANGED others /\ Odd

-----------------------------------------------------------------------------
(* The jack and its cable.  hsnxcvr reports what happens once the notifier is *)
(* registered, in order.                                                      *)

Report(es) == events' = IF listening THEN events \o es ELSE events

Plug ==
    /\ Event
    /\ plugged' = ~plugged
    /\ heat' = "COLD"
    /\ Report(IF plugged THEN <<"remove">> ELSE <<"insert", "online">>)
    /\ Keep(<<listening, pc, jack, warmth, power, port, flags, notes, lock>>)

Offline ==
    /\ plugged /\ Fail
    /\ Report(<<"offline">>)
    /\ Keep(<<plugged, heat, listening, pc, jack, warmth, power, port, flags, notes, lock>>)

Heat ==
    /\ plugged /\ Event
    /\ heat' \in Levels \ {heat}
    /\ Keep(<<plugged, events, listening, pc, jack, warmth, power, port, flags, notes, lock>>)

Cable == Plug \/ Offline \/ Heat

-----------------------------------------------------------------------------
(* What the group is told about cables *)

Present == real = "ADDED" \/ fake = "ADDED"

PresentSend ==
    told' = IF Present THEN (IF fake = "ADDED" THEN "fake" ELSE "real") ELSE told

NotPresentSend ==
    told' = IF real = "REMOVED" THEN "absent" ELSE told

(* The group is looked up before the lock is taken, and told after it was    *)
(* given back.                                                               *)
LookUp(t) == found' = IF group THEN found \cup {t} ELSE found
Forget(t) == found' = found \ {t}

-----------------------------------------------------------------------------
(* sl_media_data_jack_online, for the scan and for the online event *)

Online(t) == Go(t, "online", "")

(* Another one is bringing the jack online: wait for it, 4 s at most. *)
OnlineWait(t) ==
    /\ Free /\ Fine
    /\ \/ At(t, "online") /\ Go(t, IF state = "GOING_ONLINE" THEN "look" ELSE "going", "")
       \/ At(t, "look") /\ IF state = "REMOVED" THEN Done(t)
                           ELSE \/ Go(t, "online", "")
                                \/ Go(t, "fail", "")
    /\ Keep(<<hw, jack, warmth, power, port, flags, notes, lock>>)

OnlineGoing(t) ==
    /\ At(t, "going") /\ Free
    /\ state' = "GOING_ONLINE"
    /\ Go(t, "read", "")
    /\ Fine /\ Keep(<<hw, status, warmth, power, port, flags, notes, lock>>)

(* Status and EEPROM: -EAGAIN is followed by another event, any other error  *)
(* is put into the attributes.                                               *)
OnlineRead(t) ==
    /\ At(t, "read")
    /\ status' = plugged
    /\ \/ plugged /\ Fine /\ Go(t, "power", "")
       \/ plugged /\ Fail /\ \/ Go(t, "fail", "") \/ Go(t, "attr", "bare")
       \/ ~plugged /\ Fine /\ Go(t, "attr", "bare")
    /\ Keep(<<hw, state, warmth, power, port, flags, notes, lock>>)

(* The soft reset says that the headshell is busy, and then that it is not,  *)
(* whoever else keeps it busy.                                               *)
OnlineReset(t) ==
    /\ \/ At(t, "power") /\ busy' = TRUE /\ Go(t, "reset", "")
       \/ At(t, "reset") /\ busy' = FALSE /\ Go(t, "raise", "")
    /\ Fine /\ Keep(<<hw, jack, warmth, highPower, port, flags, notes, lock>>)

OnlinePower(t) ==
    /\ At(t, "raise")
    /\ \/ plugged /\ Fine /\ highPower' = TRUE /\ Go(t, "attr", "real") /\ UNCHANGED state
       \/ /\ Broken
          /\ Free
          /\ state' = "ERROR" /\ Go(t, "attr", "faulty") /\ UNCHANGED highPower
    /\ Keep(<<hw, status, warmth, busy, port, flags, notes, lock>>)

(* sl_media_data_jack_media_attr_set *)
AttrSet(a) ==
    /\ real # "ADDED"
    /\ IF fake = "ADDED" THEN stash' = a /\ real' = "STASHED" /\ UNCHANGED attr
                         ELSE attr' = a /\ real' = "ADDED" /\ UNCHANGED stash
    /\ UNCHANGED fake

(* Where bringing the jack online goes on with its attributes stored *)
Stored(t) == Go(t, IF About(t) = "real" THEN "finish" ELSE "fail", "")

OnlineAttr(t) ==
    /\ At(t, "attr") /\ Fine
    /\ LookUp(t)
    /\ Go(t, "store", About(t))
    /\ Keep(<<hw, jack, warmth, power, port, flags, group, told, lock>>)

(* Stashed attributes are not told. *)
OnlineStore(t) ==
    /\ At(t, "store") /\ Free /\ Fine
    /\ \/ AttrSet(About(t)) /\ real' = "ADDED" /\ t \in found
             /\ Go(t, "present", About(t)) /\ UNCHANGED found
       \/ AttrSet(About(t)) /\ (real' # "ADDED" \/ t \notin found)
             /\ Stored(t) /\ Forget(t)
       \/ real = "ADDED" /\ Go(t, "fail", "") /\ Forget(t) /\ UNCHANGED port
    /\ Keep(<<hw, jack, warmth, power, flags, group, told, lock>>)

OnlinePresent(t) ==
    /\ At(t, "present") /\ Free /\ Fine
    /\ PresentSend
    /\ Stored(t) /\ Forget(t)
    /\ Keep(<<hw, jack, warmth, power, port, flags, group, lock>>)

OnlineFinish(t) ==
    /\ At(t, "finish") /\ Free /\ Fine
    /\ temp' = "COLD"
    /\ state' = "ONLINE"
    /\ Done(t)
    /\ Keep(<<hw, status, prior, highPower, busy, port, flags, notes, lock>>)

OnlineFail(t) ==
    /\ At(t, "fail") /\ Free /\ Fine
    /\ state' = "ERROR"
    /\ Done(t)
    /\ Keep(<<hw, status, warmth, power, port, flags, notes, lock>>)

OnlineStep(t) ==
    \/ OnlineWait(t) \/ OnlineGoing(t) \/ OnlineRead(t) \/ OnlineReset(t)
    \/ OnlinePower(t) \/ OnlineAttr(t) \/ OnlineStore(t) \/ OnlinePresent(t)
    \/ OnlineFinish(t) \/ OnlineFail(t)

-----------------------------------------------------------------------------
(* sl_media_data_jack_scan: before it returns nobody uses the device *)

Scanned == At("scan", "idle") /\ listening

Scan ==
    /\ At("scan", "scan")
    /\ \/ Fine /\ status' = plugged /\ IF plugged THEN Online("scan") ELSE Done("scan")
       \/ Fail /\ UNCHANGED status /\ Go("scan", "blind", "")
    /\ Keep(<<hw, state, warmth, power, port, flags, notes, lock>>)

(* The notifier hears of nothing before this, hence a second look after it. *)
Listen ==
    /\ Idle("scan") /\ ~listening /\ Fine
    /\ listening' = TRUE
    /\ Go("scan", "again", "")
    /\ Keep(<<plugged, heat, events, jack, warmth, power, port, flags, notes, lock>>)

ScanAgain ==
    /\ At("scan", "again")
    /\ \/ Fine /\ status' = plugged /\ Go("scan", "verify", "")
       \/ Fail /\ UNCHANGED status /\ Go("scan", "blind", "")
    /\ Keep(<<hw, state, warmth, power, port, flags, notes, lock>>)

(* The status could not be read, before or after the registration.  There is *)
(* no group to be told yet.                                                  *)
ScanBlind ==
    /\ At("scan", "blind") /\ Free /\ Fine
    /\ \/ AttrSet("bare")
       \/ real = "ADDED" /\ UNCHANGED port
    /\ Done("scan")
    /\ Keep(<<hw, jack, warmth, power, flags, notes, lock>>)

(* Mutant: only a removal is looked for. *)
VerifyRemoved ==
    /\ At("scan", "verify") /\ Free /\ Fine
    /\ IF ~status /\ state # "REMOVED" THEN lock' = "scan" /\ Go("scan", "relock", "")
                                       ELSE UNCHANGED lock /\ Done("scan")
    /\ Keep(<<hw, jack, warmth, power, port, flags, notes>>)

(* sl_media_data_jack_remove_verify clears the attributes under data_lock,   *)
(* and clearing them takes data_lock: the thread never leaves "relock".      *)
(* sl_media_data_jack_online_verify.                                         *)
Verify ==
    /\ At("scan", "verify") /\ Free /\ Fine
    /\ IF ~status /\ state # "REMOVED" THEN lock' = "scan" /\ Go("scan", "relock", "")
       ELSE /\ UNCHANGED lock
            /\ IF status /\ state # "ONLINE" THEN Online("scan") ELSE Done("scan")
    /\ Keep(<<hw, jack, warmth, power, port, flags, notes>>)

ScanStep == Scan \/ Listen \/ ScanAgain \/ ScanBlind \/ Verify \/ OnlineStep("scan")

-----------------------------------------------------------------------------
(* sl_media_data_jack_cable_event *)

(* hsnxcvr reports in words of several events.  Of a word one event is       *)
(* served, the first of online, insert, remove and offline; of a word that    *)
(* comes when the jack cannot be looked up, none.                            *)
EventServe ==
    /\ Idle("event")
    /\ \E n \in 1..Len(events) :
        LET word == {events[i] : i \in 1..n} IN
        /\ events' = SubSeq(events, n + 1, Len(events))
        /\ \/ Fail /\ UNCHANGED <<pc, state>>
           \/ /\ Fine
              /\ CASE "online" \in word -> Online("event") /\ UNCHANGED state
                   [] word \cap {"online", "insert"} = {} /\ "remove" \in word
                        -> Go("event", "clr", "") /\ UNCHANGED state
                   [] "online" \notin word /\ "insert" \in word
                        -> Free /\ state' = "INSERTED" /\ UNCHANGED pc
                   [] OTHER -> Free /\ state' = "ERROR" /\ UNCHANGED pc
    /\ Keep(<<plugged, heat, listening, status, warmth, power, port, flags, notes, lock>>)

(* sl_media_data_jack_media_attr_clr *)
AttrClr ==
    /\ Fine
    /\ \/ At("event", "clr") /\ LookUp("event") /\ Go("event", "wipe", "") /\ UNCHANGED port
       \/ /\ At("event", "wipe") /\ Free
          /\ attr' = IF real = "ADDED" THEN "none" ELSE attr
          /\ real' = "REMOVED"
          /\ IF real # "REMOVED" /\ "event" \in found
             THEN Go("event", "unsee", "") /\ UNCHANGED found
             ELSE Go("event", "gone", "HOT") /\ Forget("event")
          /\ UNCHANGED <<fake, stash>>
    /\ Keep(<<hw, jack, warmth, power, flags, group, told, lock>>)

(* The fake cable's status is read without the lock, ... *)
AttrClrLook ==
    /\ At("event", "unsee") /\ Fine
    /\ IF fake = "REMOVED" THEN Go("event", "absent", "") /\ UNCHANGED found
                           ELSE Go("event", "gone", "HOT") /\ Forget("event")
    /\ Keep(<<hw, jack, warmth, power, port, flags, group, told, lock>>)

(* ... and not again under it. *)
AttrClrSend ==
    /\ At("event", "absent") /\ Free /\ Fine
    /\ NotPresentSend
    /\ Go("event", "gone", "HOT") /\ Forget("event")
    /\ Keep(<<hw, jack, warmth, power, port, flags, group, lock>>)

(* The levels are forgotten one at a time. *)
EventRemoved ==
    /\ Free /\ Fine
    /\ \/ /\ At("event", "gone")
          /\ sent' = sent \ {About("event")}
          /\ IF About("event") = "COLD" THEN Go("event", "removed", "")
                                        ELSE Go("event", "gone", Below(About("event")))
          /\ UNCHANGED state
       \/ /\ At("event", "removed")
          /\ state' = "REMOVED"
          /\ Done("event")
          /\ UNCHANGED sent
    /\ Keep(<<hw, status, warmth, power, port, ready, notes, lock>>)

EventStep == EventServe \/ AttrClr \/ AttrClrLook \/ AttrClrSend \/ EventRemoved
                \/ OnlineStep("event")

-----------------------------------------------------------------------------
(* Fake cables: sl_media_jack_fake_cable_insert and _remove *)

FakeSet ==
    /\ FakeUser /\ group /\ Idle("fake") /\ Free /\ Event
    /\ fake = "REMOVED"
    /\ stash' = IF real = "ADDED" THEN attr ELSE stash
    /\ real' = IF real = "ADDED" THEN "STASHED" ELSE real
    /\ attr' = "fake" /\ fake' = "ADDED"
    /\ Go("fake", "set", "")
    /\ Keep(<<hw, jack, warmth, power, flags, notes, lock>>)

FakeSetLook ==
    /\ At("fake", "set") /\ Fine
    /\ Go("fake", IF real = "STASHED" THEN "absent" ELSE "present", "")
    /\ Keep(<<hw, jack, warmth, power, port, flags, notes, lock>>)

(* Mutant: the real cable's status is not restored with its attributes. *)
FakeClrStashed ==
    /\ Idle("fake") /\ Free /\ Event
    /\ fake = "ADDED"
    /\ attr' = IF real = "STASHED" THEN stash ELSE "none"
    /\ UNCHANGED real
    /\ fake' = "REMOVED"
    /\ Go("fake", "clr", "")
    /\ Keep(<<hw, jack, warmth, power, stash, flags, notes, lock>>)

FakeClr ==
    /\ Idle("fake") /\ Free /\ Event
    /\ fake = "ADDED"
    /\ attr' = IF real = "STASHED" THEN stash ELSE "none"
    /\ real' = IF real = "STASHED" THEN "ADDED" ELSE real
    /\ fake' = "REMOVED"
    /\ Go("fake", "clr", "")
    /\ Keep(<<hw, jack, warmth, power, stash, flags, notes, lock>>)

FakeSend ==
    /\ Free /\ Fine
    /\ \/ At("fake", "absent") /\ NotPresentSend /\ Go("fake", "present", "")
       \/ At("fake", "clr") /\ NotPresentSend /\ Go("fake", "look", "")
       \/ At("fake", "present") /\ PresentSend /\ Done("fake")
    /\ Keep(<<hw, jack, warmth, power, port, flags, group, found, lock>>)

(* Mutant: the status before the fake cable is gone is looked for. *)
FakeClrLookStashed ==
    /\ At("fake", "look") /\ Fine
    /\ IF real = "STASHED" THEN Go("fake", "present", "") ELSE Done("fake")
    /\ Keep(<<hw, jack, warmth, power, port, flags, notes, lock>>)

FakeClrLook ==
    /\ At("fake", "look") /\ Fine
    /\ IF real = "ADDED" THEN Go("fake", "present", "") ELSE Done("fake")
    /\ Keep(<<hw, jack, warmth, power, port, flags, notes, lock>>)

FakeStep == FakeSetLook \/ FakeSend \/ FakeClrLook

-----------------------------------------------------------------------------
(* Temperature notifications: sl_media_data_jack_cable_hot_notif_send and its *)
(* likes, in the monitor and in a registration                                *)

(* A registration goes through the levels. *)
After(k) == IF k = "COLD" THEN <<"idle", "registered">> ELSE <<"ready", Below(k)>>

(* The monitor goes on with its state, a registration with the next level. *)
Sent(t) == pc' = [pc EXCEPT ![t] = IF t = "mon" THEN <<"set", About(t)>> ELSE After(About(t))]

Send(t) ==
    /\ At(t, "send") /\ Free
    /\ LET k == About(t) IN
       \/ k \in ready /\ k \notin sent /\ Go(t, "mark", k) /\ Fine
       \/ k \in ready /\ k \notin sent /\ Sent(t) /\ Fail
       \/ (k \notin ready \/ k \in sent) /\ Sent(t) /\ Fine
    /\ Keep(<<hw, jack, warmth, power, port, flags, notes, lock>>)

Mark(t) ==
    /\ At(t, "mark") /\ Free /\ Fine
    /\ sent' = sent \cup {About(t)}
    /\ Go(t, "clear", About(t))
    /\ Keep(<<hw, jack, warmth, power, port, ready, notes, lock>>)

(* Mutant: the neighbours of the level are forgotten. *)
ClearNext(t) ==
    /\ At(t, "clear") /\ Free /\ Fine
    /\ sent' = sent \ (IF About(t) = "HOT" THEN {"WARM"} ELSE {"HOT"})
    /\ Sent(t)
    /\ Keep(<<hw, jack, warmth, power, port, ready, notes, lock>>)

Clear(t) ==
    /\ At(t, "clear") /\ Free /\ Fine
    /\ sent' = sent \cap {About(t)}
    /\ Sent(t)
    /\ Keep(<<hw, jack, warmth, power, port, ready, notes, lock>>)

NotifSend(t) == Send(t) \/ Mark(t) \/ Clear(t)

(* sl_media_data_jack_cable_temp_hw_check: no answer, or one too far from the *)
(* last, is UNKNOWN.                                                          *)
Reading(level) == IF level = "UNKNOWN" THEN Broken
                                       ELSE plugged /\ heat = level /\ Fine

-----------------------------------------------------------------------------
(* sl_media_data_jack_cable_monitor_temp_delayed_work *)

MonBegin ==
    /\ Scanned /\ Idle("mon") /\ Free /\ Fine
    /\ group /\ ~busy /\ Active(attr)
    /\ prior' = temp
    /\ Go("mon", "check", "")
    /\ Keep(<<hw, jack, temp, power, port, flags, notes, lock>>)

(* Mutant: a temperature is sent when it changes, and not tried again. *)
MonCheckChange ==
    /\ At("mon", "check")
    /\ \E level \in Levels \cup {"UNKNOWN"} :
        /\ Reading(level)
        /\ Go("mon", CASE level = "UNKNOWN" -> "set"
                       [] level = "COLD" /\ prior # "COLD" -> "cold"
                       [] level = prior -> "set"
                       [] OTHER -> "send", level)
    /\ Keep(<<hw, jack, warmth, power, port, flags, notes, lock>>)

MonCheck ==
    /\ At("mon", "check")
    /\ \E level \in Levels \cup {"UNKNOWN"} :
        /\ Reading(level)
        /\ Go("mon", CASE level = "UNKNOWN" -> "set"
                       [] level = "COLD" /\ prior # "COLD" -> "cold"
                       [] OTHER -> "send", level)
    /\ Keep(<<hw, jack, warmth, power, port, flags, notes, lock>>)

(* Mutant: a hot cable is expected to be warm before it is cold. *)
MonColdWarm ==
    /\ At("mon", "cold") /\ Free /\ Fine
    /\ Go("mon", IF highPower \/ prior # "WARM" THEN "send" ELSE "power", "COLD")
    /\ Keep(<<hw, jack, warmth, power, port, flags, notes, lock>>)

MonCold ==
    /\ At("mon", "cold") /\ Free /\ Fine
    /\ Go("mon", IF highPower THEN "send" ELSE "power", "COLD")
    /\ Keep(<<hw, jack, warmth, power, port, flags, notes, lock>>)

MonPower ==
    /\ At("mon", "power")
    /\ \/ plugged /\ Fine /\ highPower' = TRUE /\ Go("mon", "send", "COLD") /\ UNCHANGED state
       \/ /\ Broken
          /\ Free
          /\ state' = "ERROR"
          /\ Go("mon", "error", "COLD")
          /\ UNCHANGED highPower
    /\ Keep(<<hw, status, warmth, busy, port, flags, notes, lock>>)

(* The error joins the attributes the port has, whatever they are by now, *)
(* and these are set again; the group is there since the round began.     *)
MonError ==
    /\ Free /\ Fine
    /\ \/ /\ At("mon", "error")
          /\ attr' = (CASE attr = "real" -> "faulty" [] attr = "none" -> "bare" [] OTHER -> attr)
          /\ Go("mon", "attr", "COLD")
          /\ UNCHANGED <<real, fake, stash, told>>
       \/ /\ At("mon", "attr")
          /\ \/ AttrSet(attr)
                /\ Go("mon", IF real' = "ADDED" THEN "present" ELSE "send", "COLD")
             \/ real = "ADDED" /\ Go("mon", "send", "COLD") /\ UNCHANGED port
          /\ UNCHANGED told
       \/ /\ At("mon", "present")
          /\ PresentSend /\ Go("mon", "send", "COLD") /\ UNCHANGED port
    /\ Keep(<<hw, jack, warmth, power, flags, group, found, lock>>)

(* The links of a cable that turned hot are taken down next: see LinkOff. *)
MonSet ==
    /\ At("mon", "set") /\ Free /\ Fine
    /\ temp' = IF prior = About("mon") /\ prior # "UNKNOWN" THEN temp ELSE About("mon")
    /\ prior' = "INIT"
    /\ Done("mon")
    /\ Keep(<<hw, jack, power, port, flags, notes, lock>>)

MonStep == MonBegin \/ MonCheck \/ MonCold \/ MonPower \/ MonError \/ NotifSend("mon")
              \/ MonSet

-----------------------------------------------------------------------------
(* A client makes the group, registers for all of it and unregisters *)

NewGroup ==
    /\ Scanned /\ Idle("client") /\ ~group /\ Fine
    /\ group' = TRUE
    /\ Keep(<<hw, jack, warmth, power, port, flags, told, found, lock, pc>>)

Register ==
    /\ group /\ pc["client"] = <<"idle", "">> /\ Fine
    /\ Go("client", "present", "")
    /\ Keep(<<hw, jack, warmth, power, port, flags, notes, lock>>)

(* sl_media_lgrp_media_type_is_active sees a stashed cable, too. *)
TypeIsActive == \/ real = "ADDED" /\ Active(attr)
                \/ real = "STASHED" /\ Active(stash)

RegisterCable ==
    /\ Free /\ Fine
    /\ \/ At("client", "present") /\ PresentSend /\ Go("client", "absent", "")
       \/ At("client", "absent") /\ NotPresentSend /\ Go("client", "ready", "HOT")
    /\ Keep(<<hw, jack, warmth, power, port, flags, group, found, lock>>)

(* sl_media_lgrp_cable_hot_send and its likes *)
RegisterLevel ==
    /\ At("client", "ready") /\ Free /\ Fine
    /\ LET k == About("client") IN
       IF TypeIsActive THEN ready' = ready \cup {k} /\ Go("client", "check", k)
                       ELSE UNCHANGED ready /\ Sent("client")
    /\ Keep(<<hw, jack, warmth, power, port, sent, notes, lock>>)

RegisterCheck ==
    /\ At("client", "check")
    /\ \E level \in Levels \cup {"UNKNOWN"} :
        /\ Reading(level)
        /\ IF level = About("client") THEN Go("client", "send", level) ELSE Sent("client")
    /\ Keep(<<hw, jack, warmth, power, port, flags, notes, lock>>)

(* sl_media_lgrp_cable_temp_flags_clr: of an active cable the flags of each  *)
(* level are cleared in turn, of another one they stay.                      *)
Unregister ==
    /\ pc["client"] = <<"idle", "registered">> /\ Free /\ Event
    /\ IF TypeIsActive THEN Go("client", "unready", "HOT") ELSE Done("client")
    /\ Keep(<<hw, jack, warmth, power, port, flags, notes, lock>>)

FlagsClr ==
    /\ Free /\ Fine
    /\ LET k == About("client") IN
       \/ /\ At("client", "unready")
          /\ ready' = ready \ {k} /\ Go("client", "unsent", k) /\ UNCHANGED sent
       \/ /\ At("client", "unsent")
          /\ sent' = sent \ {k} /\ UNCHANGED ready
          /\ IF k = "COLD" THEN Done("client") ELSE Go("client", "unready", Below(k))
    /\ Keep(<<hw, jack, warmth, power, port, notes, lock>>)

ClientStep == RegisterCable \/ RegisterLevel \/ RegisterCheck \/ FlagsClr
                 \/ NotifSend("client")

-----------------------------------------------------------------------------
(* A link: it shifts the cable on its way up, and powers a hot one down *)

(* sl_media_jack_cable_downshift and _upshift, of a cable that is not shifted *)
(* yet; otherwise, and of one that is not there, only the shift state changes. *)
LinkShift ==
    /\ group /\ Idle("link") /\ Free /\ Fine
    /\ TypeIsActive /\ state = "ONLINE" /\ real # "STASHED"
    /\ busy' = TRUE
    /\ Go("link", "down", "")
    /\ Keep(<<hw, jack, warmth, highPower, port, flags, notes, lock>>)

(* The cable is configured in low power; any write may fail. *)
Shifting ==
    /\ \/ At("link", "down") /\ plugged /\ Fine
          /\ highPower' = FALSE /\ Go("link", "shift", "") /\ UNCHANGED busy
       \/ At("link", "shift") /\ plugged /\ Fine
          /\ highPower' = TRUE /\ Go("link", "done", "") /\ UNCHANGED busy
       \/ At("link", "done") /\ Free /\ Fine
          /\ busy' = FALSE /\ Done("link") /\ UNCHANGED highPower
       \/ pc["link"][1] \in {"down", "shift", "done"} /\ Free
          /\ Broken
          /\ busy' = FALSE /\ Done("link") /\ UNCHANGED highPower
    /\ Keep(<<hw, jack, warmth, port, flags, notes, lock>>)

(* sl_core_hw_link_off and the fault's link down *)
LinkOff ==
    /\ group /\ Idle("link") /\ Free /\ Fine
    /\ temp = "HOT"
    /\ Go("link", "low", "")
    /\ Keep(<<hw, jack, warmth, power, port, flags, notes, lock>>)

LowPower ==
    /\ At("link", "low")
    /\ \/ plugged /\ Fine /\ highPower' = FALSE
       \/ Broken /\ UNCHANGED highPower
    /\ Done("link")
    /\ Keep(<<hw, jack, warmth, busy, port, flags, notes, lock>>)

LinkStep == Shifting \/ LowPower

-----------------------------------------------------------------------------

ThreadStep == ScanStep \/ EventStep \/ FakeStep \/ MonStep \/ ClientStep \/ LinkStep

Calls == FakeSet \/ FakeClr \/ NewGroup \/ Register \/ Unregister \/ LinkShift \/ LinkOff

Next == Cable \/ ThreadStep \/ Calls

Spec == Init /\ [][Next]_vars

(* The monitor's work comes back every 15 s. *)
MonSpec == Spec /\ WF_vars(MonStep)

(* Whoever runs goes on. *)
FairSpec == MonSpec /\ WF_vars(ScanStep) /\ WF_vars(EventStep)

-----------------------------------------------------------------------------
(* Properties *)

(* Nobody is in the middle of anything, and no event waits. *)
AtRest == Scanned /\ events = <<>> /\ \A t \in Threads : Idle(t)

(* What the port stores of its two cables fits together: a fake cable hides  *)
(* the real one, which keeps its attributes in the stash and gets them back. *)
CableKept ==
    /\ status \in BOOLEAN
    /\ odd \subseteq {"crossed", "mixed", "aliased", "cut", "unread", "unseen", "lost"}
    /\ state \in {"REMOVED", "INSERTED", "GOING_ONLINE", "ONLINE", "ERROR"}
    /\ {attr, stash} \subseteq Attrs
    /\ temp \in Levels \cup {"INIT", "UNKNOWN"}
    /\ fake = "ADDED" => attr = "fake" /\ real # "ADDED"
    /\ real = "STASHED" => fake = "ADDED"
    /\ "aliased" \notin odd /\ real = "STASHED" => stash # "fake"
    /\ odd \cap {"crossed", "aliased"} = {} =>
          /\ real = "ADDED" => attr \in {"real", "faulty", "bare"}
          /\ real = "STASHED" => stash # "none"
          /\ real = "REMOVED" /\ fake = "REMOVED" => attr = "none"

(* When everything that happened was served, the jack knows whether there is *)
(* a cable: it is online or in error with one, and removed without; one that *)
(* is online has its attributes.  A removal that crosses another thread and  *)
(* a scan that could not read the jack are the exceptions.                   *)
Settled ==
    AtRest /\ odd \cap {"crossed", "unread", "lost"} = {} =>
        /\ plugged => state \in {"ONLINE", "ERROR"}
        /\ ~plugged => state = "REMOVED" /\ real = "REMOVED"
        /\ state = "ONLINE" => real # "REMOVED"

(* The last the group was told of cables is true: the one it has, the fake   *)
(* one first, or none.                                                       *)
ToldTruth ==
    AtRest /\ told # "none" /\ odd \cap {"mixed", "unseen"} = {} =>
        told = CASE fake = "ADDED" -> "fake"
                 [] fake = "REMOVED" /\ real = "ADDED" -> "real"
                 [] OTHER -> "absent"

(* Two senders may cross, but never leave two temperatures marked as told:   *)
(* the one that is over would not be told when it comes back.                *)
OneTold ==
    (\A t \in {"mon", "client"} : ~At(t, "clear")) => Cardinality(sent) <= 1

(* A cable that is online and cold is in high power, or its links never come *)
(* up again.                                                                 *)
Powered ==
    AtRest /\ state = "ONLINE" /\ temp = "COLD" /\ "cut" \notin odd => highPower

(* The monitor sees it the same way, and a registered client is ready. *)
Stays(k) == /\ plugged /\ heat = k /\ group /\ Active(attr) /\ ~busy /\ Free
            /\ k \in ready

(* A temperature that lasts is told in the end to the client that waits for  *)
(* it, also when a first attempt to queue the message failed.                *)
ToldInTheEnd == \A k \in Levels : <>[]Stays(k) => []<>(k \in sent)

(* What sl_media_data_jack_scan promises: a cable that was pulled in the     *)
(* window between the first look and the registration is noticed.            *)
RemovalNoticed == (Scanned \/ At("scan", "again")) /\ ~plugged ~> state = "REMOVED" \/ plugged

=============================================================================
