------------------------------- MODULE Kernel -------------------------------
(***************************************************************************)
(* The Linux services the driver's state machines stand on, as far as the  *)
(* driver uses them: an unordered workqueue (queue_work,                   *)
(* cancel_work_sync), timers (add_timer, timer_delete_sync) and interrupts *)
(* with an enable flag.  External code: modelled from how src/ calls it.   *)
(*                                                                         *)
(* A thread is a client inside an API call or a work item that runs.       *)
(* pc[t] is the step it is at and what that step is about: <<"wait", w>>   *)
(* and <<"del", w>> are inside cancel_work_sync of the work w.             *)
(***************************************************************************)

VARIABLES
    queued,      \* works pending on the workqueue
    pc,          \* the step each thread is at
    armed,       \* pending timers
    intrOn       \* enabled interrupts

Idle == <<"idle", "none">>

At(t, step, about) == pc[t] = <<step, about>>

Go(t, label) == pc' = [pc EXCEPT ![t] = label]

(* Somebody is canceling w: queue_work has no effect until it returns. *)
Held(w) == \E t \in DOMAIN pc : At(t, "wait", w) \/ At(t, "del", w)

QueueWork(w) == queued' = IF Held(w) THEN queued ELSE queued \cup {w}

(* A worker takes w; a work item never runs twice at the same time. *)
Take(w) == w \in queued /\ pc[w] = Idle /\ queued' = queued \ {w}

(* cancel_work_sync dequeues w at once and returns when w is idle. *)
Cancel(t, step, w) == Go(t, <<step, w>>) /\ queued' = queued \ {w}

Waited(t, step, w) == At(t, step, w) /\ pc[w] = Idle

=============================================================================
