------------------------------ MODULE LgrpNotif ------------------------------
(***************************************************************************)
(* The notifications of one link group: ctrl/sl_ctrl_lgrp_notif.c.         *)
(*                                                                         *)
(* Threads of the driver put messages into a fifo of bytes; one work item  *)
(* takes them out and calls every registered callback.  The list of        *)
(* callbacks is read without a lock while the work sends: registering and  *)
(* unregistering wait, a bounded time, until it does not.                  *)
(*                                                                         *)
(* A message is MsgSize units of the fifo, which holds FifoSize units:     *)
(* 152 and 2048 bytes in the driver, whose kfifo_alloc rounds 8 messages   *)
(* up to a power of two.  Left out: the payload of a message but its type, *)
(* the tag of a callback, the reference counts.                            *)
(***************************************************************************)
EXTENDS Integers, Sequences, FiniteSets

CONSTANTS
    Senders,     \* threads of the driver that have something to notify
    Listeners,   \* clients, each with a callback of its own
    Types,       \* notification types
    Wanted,      \* the types each listener registers for
    Slots,       \* SL_CTRL_LGRP_NOTIF_REG_COUNT
    MaxPolls,    \* polls of list_state before a client gives up
    MsgSize,     \* sizeof(struct sl_lgrp_notif_msg)
    FifoSize,    \* size of the fifo
    MaxMsgs      \* bound on the messages put into the fifo

Callers == Senders \cup Listeners

Threads == Callers \cup {"work"}

ASSUME ThreadsAssumption == "work" \notin Callers
ASSUME WantedAssumption ==
    Wanted \in [Listeners -> SUBSET Types] /\ \A l \in Listeners : Wanted[l] # {}
ASSUME BoundsAssumption ==
    /\ {Slots, MaxPolls, MsgSize} \subseteq Nat \ {0}
    /\ MaxMsgs \in Nat
    /\ FifoSize \in Nat /\ FifoSize >= MsgSize

None == "none"

ASSUME NoneAssumption == None \notin Listeners

VARIABLES
    list_state,  \* ctrl_notif.list_state
    reg_entry,   \* ctrl_notif.reg_entry: the listener in each slot, or None
    fifo,        \* ctrl_notif.fifo: units <<message, type, number>>
    queued,      \* notif_work is on notif_workq
    pc,          \* the step each thread is at
    notif_msg,   \* the units the work took out last, and the type it reads there
    reg_idx,     \* the slot the work is at
    msgs,        \* messages tried so far
    listening,   \* registered with 0 and not unregistered with 0 since
    told         \* callbacks called for notif_msg

listVars == <<list_state, reg_entry, listening>>
workVars == <<notif_msg, reg_idx, told>>
vars == <<listVars, fifo, queued, pc, msgs, workVars>>

Idle == <<"idle", 0>>

At(t, step) == pc[t][1] = step

Go(t, label) == pc' = [pc EXCEPT ![t] = label]

Step(s) == <<s, 0>>

(* The variables stay in their ranges. *)
TypeOK ==
    /\ list_state \in {"IDLE", "SENDING"}
    /\ reg_entry \in [1..Slots -> Listeners \cup {None}]
    /\ fifo \in Seq((1..MaxMsgs) \X Types \X (1..MsgSize))
    /\ Len(fifo) <= FifoSize
    /\ queued \in BOOLEAN
    /\ DOMAIN pc = Threads
    /\ reg_idx \in 1..Slots
    /\ msgs \in 0..MaxMsgs
    /\ listening \subseteq Listeners /\ told \subseteq Listeners

Init ==
    /\ list_state = "IDLE"
    /\ reg_entry = [i \in 1..Slots |-> None]
    /\ fifo = <<>>
    /\ queued = FALSE
    /\ pc = [t \in Threads |-> Idle]
    /\ notif_msg = <<<<>>, None>>
    /\ reg_idx = 1
    /\ msgs = 0
    /\ listening = {}
    /\ told = {}

-----------------------------------------------------------------------------
(* sl_ctrl_lgrp_notif_enqueue *)

(* A full fifo refuses; one that is not full need not have room for all of   *)
(* the message.                                                              *)
EnqueueCheck(t, type) ==
    /\ msgs < MaxMsgs
    /\ Len(fifo) < FifoSize
    /\ msgs' = msgs + 1
    /\ Go(t, <<"put", <<msgs + 1, type>>>>)

Enqueue(s) ==
    /\ s \in Senders
    /\ pc[s] = Idle
    /\ \E type \in Types : EnqueueCheck(s, type)
    /\ UNCHANGED <<listVars, fifo, queued, workVars>>

(* Mutant: the message is written whatever room there is. *)
EnqueuePutAll(t) ==
    /\ At(t, "put")
    /\ LET m == pc[t][2] IN
       fifo' = fifo \o [k \in 1..MsgSize |-> <<m[1], m[2], k>>]
    /\ Go(t, Step("queue"))
    /\ UNCHANGED <<listVars, queued, msgs, workVars>>

(* kfifo_in_spinlocked writes what there is room for. *)
EnqueuePut(t) ==
    /\ At(t, "put")
    /\ LET m    == pc[t][2]
           room == FifoSize - Len(fifo)
           n    == IF room < MsgSize THEN room ELSE MsgSize
       IN  /\ fifo' = fifo \o [k \in 1..n |-> <<m[1], m[2], k>>]
           /\ Go(t, IF n < MsgSize THEN Idle ELSE Step("queue"))
    /\ UNCHANGED <<listVars, queued, msgs, workVars>>

EnqueueQueue(t) ==
    /\ At(t, "queue")
    /\ queued' = TRUE
    /\ Go(t, Idle)
    /\ UNCHANGED <<listVars, fifo, msgs, workVars>>

-----------------------------------------------------------------------------
(* sl_ctrl_lgrp_notif_callback_reg and sl_ctrl_lgrp_notif_callback_unreg *)

Register(l) ==
    /\ pc[l] = Idle /\ l \notin listening
    /\ Go(l, <<"reg_poll", 0>>)
    /\ UNCHANGED <<listVars, fifo, queued, msgs, workVars>>

Unregister(l) ==
    /\ pc[l] = Idle /\ l \in listening
    /\ Go(l, <<"unreg_poll", 0>>)
    /\ UNCHANGED <<listVars, fifo, queued, msgs, workVars>>

(* Mutant: the client polls until the list is free. *)
PollForever(t, poll, free, gaveUp) ==
    /\ At(t, poll)
    /\ Go(t, IF list_state = "IDLE" THEN free ELSE pc[t])
    /\ UNCHANGED <<listVars, fifo, queued, msgs, workVars>>

(* One look at list_state: the list is free, or the client looks again       *)
(* later, or it has looked often enough and gives up with -ETIMEDOUT.        *)
Poll(t, poll, free, gaveUp) ==
    /\ At(t, poll)
    /\ LET polls == pc[t][2] + 1 IN
       Go(t, IF list_state = "IDLE" THEN free
             ELSE IF polls >= MaxPolls THEN gaveUp ELSE <<poll, polls>>)
    /\ UNCHANGED <<listVars, fifo, queued, msgs, workVars>>

FreeSlots == {i \in 1..Slots : reg_entry[i] = None}

First(slots) == {i \in slots : \A j \in slots : i <= j}

RegisterLocked(l) ==
    /\ At(l, "reg")
    /\ IF list_state = "SENDING" \/ FreeSlots = {}
       THEN Go(l, Idle) /\ UNCHANGED <<reg_entry, listening>>
       ELSE /\ \E i \in First(FreeSlots) :
                  reg_entry' = [reg_entry EXCEPT ![i] = l]
            /\ listening' = listening \cup {l}
            /\ Go(l, IF "media" \in Wanted[l] THEN Step("announce") ELSE Idle)
    /\ UNCHANGED <<list_state, fifo, queued, msgs, workVars>>

(* sl_media_lgrp_real_cable_if_present_send and its like: the state of the   *)
(* media is notified, to all who listen, if the cable is in that state.      *)
RegisterAnnounce(l) ==
    /\ At(l, "announce")
    /\ \/ EnqueueCheck(l, "media")
       \/ Go(l, Idle) /\ UNCHANGED msgs
    /\ UNCHANGED <<listVars, fifo, queued, workVars>>

SlotsOf(l) == {i \in 1..Slots : reg_entry[i] = l}

Remove(l) ==
    /\ IF SlotsOf(l) = {} THEN UNCHANGED reg_entry
       ELSE \E i \in First(SlotsOf(l)) :
               reg_entry' = [reg_entry EXCEPT ![i] = None]
    /\ listening' = listening \ {l}

(* Mutant: list_state is not looked at again under the lock. *)
UnregisterUnchecked(l) ==
    /\ At(l, "unreg")
    /\ Remove(l)
    /\ Go(l, Idle)
    /\ UNCHANGED <<list_state, fifo, queued, msgs, workVars>>

UnregisterLocked(l) ==
    /\ At(l, "unreg")
    /\ IF list_state = "SENDING" THEN UNCHANGED <<reg_entry, listening>>
                                 ELSE Remove(l)
    /\ Go(l, Idle)
    /\ UNCHANGED <<list_state, fifo, queued, msgs, workVars>>

-----------------------------------------------------------------------------
(* sl_ctrl_lgrp_notif_work *)

WorkStart ==
    /\ queued /\ pc["work"] = Idle
    /\ queued' = FALSE
    /\ list_state' = "SENDING"
    /\ Go("work", Step("out"))
    /\ UNCHANGED <<reg_entry, listening, fifo, msgs, workVars>>

Whole(units) ==
    /\ Len(units) = MsgSize
    /\ \A k \in 1..MsgSize : units[k][1] = units[1][1] /\ units[k][3] = k

(* A message that is not whole has its type where another one has something  *)
(* else.                                                                     *)
WorkOut ==
    /\ At("work", "out")
    /\ IF Len(fifo) < MsgSize
       THEN /\ fifo' = <<>>
            /\ Go("work", Step("end"))
            /\ UNCHANGED <<notif_msg, told>>
       ELSE LET units == SubSeq(fifo, 1, MsgSize) IN
            /\ fifo' = SubSeq(fifo, MsgSize + 1, Len(fifo))
            /\ \E type \in Types \cup {None} :
                  /\ Whole(units) => type = units[1][2]
                  /\ notif_msg' = <<units, type>>
            /\ told' = {}
            /\ Go("work", Step("loop"))
    /\ reg_idx' = 1
    /\ UNCHANGED <<listVars, queued, msgs>>

Wants(i) == reg_entry[i] # None /\ notif_msg[2] \in Wanted[reg_entry[i]]

(* Mutant: the last slot is left out. *)
WorkLoopShort ==
    /\ At("work", "loop")
    /\ IF reg_idx < Slots /\ Wants(reg_idx)
       THEN told' = told \cup {reg_entry[reg_idx]} /\ Go("work", Step("in_cb"))
       ELSE UNCHANGED told /\ Go("work", Step("next"))
    /\ UNCHANGED <<listVars, fifo, queued, msgs, notif_msg, reg_idx>>

WorkLoop ==
    /\ At("work", "loop")
    /\ IF Wants(reg_idx)
       THEN told' = told \cup {reg_entry[reg_idx]} /\ Go("work", Step("in_cb"))
       ELSE UNCHANGED told /\ Go("work", Step("next"))
    /\ UNCHANGED <<listVars, fifo, queued, msgs, notif_msg, reg_idx>>

(* The callback is the client's.  It may try to unregister, which waits for  *)
(* the very work it runs in and gives up.                                    *)
WorkCallback ==
    /\ At("work", "in_cb")
    /\ Go("work", Step("next")) \/ Go("work", <<"cb_poll", 0>>)
    /\ UNCHANGED <<listVars, fifo, queued, msgs, workVars>>

WorkNext ==
    /\ At("work", "next")
    /\ IF reg_idx < Slots
       THEN reg_idx' = reg_idx + 1 /\ Go("work", Step("loop"))
       ELSE UNCHANGED reg_idx /\ Go("work", Step("check"))
    /\ UNCHANGED <<listVars, fifo, queued, msgs, notif_msg, told>>

(* Mutant: the work ends after one message. *)
WorkCheckOnce ==
    /\ At("work", "check")
    /\ Go("work", Step("end"))
    /\ UNCHANGED <<listVars, fifo, queued, msgs, workVars>>

WorkCheck ==
    /\ At("work", "check")
    /\ Go("work", Step(IF fifo = <<>> THEN "end" ELSE "out"))
    /\ UNCHANGED <<listVars, fifo, queued, msgs, workVars>>

WorkEnd ==
    /\ At("work", "end")
    /\ list_state' = "IDLE"
    /\ notif_msg' = <<<<>>, None>> /\ reg_idx' = 1 /\ told' = {}
    /\ Go("work", Idle)
    /\ UNCHANGED <<reg_entry, listening, fifo, queued, msgs>>

-----------------------------------------------------------------------------

CallerStep(t) ==
    \/ EnqueuePut(t)
    \/ EnqueueQueue(t)
    \/ Poll(t, "reg_poll", Step("reg"), Idle)
    \/ Poll(t, "unreg_poll", Step("unreg"), Idle)
    \/ t \in Listeners /\ (RegisterLocked(t) \/ RegisterAnnounce(t))
    \/ UnregisterLocked(t)

WorkStep ==
    \/ WorkStart
    \/ WorkOut
    \/ WorkLoop
    \/ WorkCallback
    \/ Poll("work", "cb_poll", Step("next"), Step("next"))
    \/ WorkNext
    \/ WorkCheck
    \/ WorkEnd

Next ==
    \/ \E s \in Senders : Enqueue(s)
    \/ \E l \in Listeners : Register(l) \/ Unregister(l)
    \/ \E t \in Callers : CallerStep(t)
    \/ WorkStep

Spec == Init /\ [][Next]_vars

(* A call that was begun and a work that is queued or runs go on; callbacks  *)
(* return.                                                                   *)
FairSpec ==
    /\ Spec
    /\ \A t \in Callers : WF_vars(CallerStep(t))
    /\ WF_vars(WorkStep)

-----------------------------------------------------------------------------
(* Properties *)

(* No message waits for a notification to come: as long as there is one in   *)
(* the fifo, the work will look at it, or the thread that put it there has   *)
(* still to queue the work.                                                  *)
NothingStranded ==
    fifo # <<>> =>
        \/ queued
        \/ pc["work"][1] \in {"out", "loop", "in_cb", "cb_poll", "next", "check"}
        \/ \E t \in Callers : At(t, "queue")

(* A client whose unregistering returned 0 is not called any more, and is    *)
(* not inside its callback: it may free what its callback uses.              *)
NoCallAfterUnregister ==
    pc["work"][1] \in {"in_cb", "cb_poll"} => reg_entry[reg_idx] \in listening

(* Every message goes to all the clients that are registered for its type.   *)
WholeAudience ==
    At("work", "check") =>
        told = {l \in listening : notif_msg[2] \in Wanted[l]}

(* Every message that is in the fifo is taken out, and registering and       *)
(* unregistering return, also when a callback unregisters inside the work    *)
(* that calls it.                                                            *)
EverythingEnds == []<>(fifo = <<>>) /\ \A l \in Listeners : []<>(pc[l] = Idle)

=============================================================================
