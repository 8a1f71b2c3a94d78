-------------------------- MODULE LinkObjectProofs --------------------------
(***************************************************************************)
(* Theorems about LinkObject, for any clients, calls, policies and bounds: *)
(* its references are counted exactly, one thread releases the object, and *)
(* nobody who holds a reference, nor a callback of the core, outlives it.  *)
(* When clients wait for the end of each call, a reset finds the link down *)
(* and the FEC monitor runs as long as the link is up and no longer. Nobody*)
(* waits for ever but in the cycles LinkObject names.                      *)
(***************************************************************************)
EXTENDS LinkObject, FiniteSetTheorems, TLAPS

(* Where a thread may be in each of its calls *)
StopSteps == {"stop", "delete", "wait", "core"}

ClientSteps ==
    [none       |-> {"idle"},
     up         |-> {"ref", "body", "init", "core", "refused", "put"},
     down       |-> {"ref", "body", "put"} \cup StopSteps,
     reset      |-> {"ref", "body", "await", "reset", "put"} \cup StopSteps,
     cancel     |-> {"put"} \cup StopSteps,
     policy     |-> {"ref", "body", "look", "look_core", "calc", "start", "put",
                     "stop", "delete", "wait"},
     read       |-> {"ref", "body", "look", "look_core", "put"},
     del        |-> {"del", "del_wait"},
     release    |-> {"release", "await", "unlink", "free"},
     rel_cancel |-> {"await", "unlink", "free"} \cup StopSteps,
     rel_down   |-> {"await", "unlink", "free"} \cup StopSteps]

CoreSteps ==
    [none       |-> {"idle"},
     up_cb      |-> {"up_cb", "calc", "start", "stop", "delete", "wait", "publish",
                     "notify"},
     fail_cb    |-> {"fail_cb", "stopping", "flush", "settle", "complete", "notify"},
     cancel_cb  |-> {"fail_cb", "stopping", "flush", "settle", "complete", "notify"},
     down_cb    |-> {"down_cb", "stop", "delete", "wait", "flush", "settle",
                     "complete", "notify"},
     async_cb   |-> {"async_cb", "stop", "delete", "wait", "flush", "settle",
                     "complete", "notify", "put"},
     fault_cb   |-> {"stop", "delete", "wait", "flush", "settle", "complete",
                     "notify"},
     fault      |-> {"fault_ctrl", "stop", "delete", "wait", "unlock", "off"},
     release    |-> {"release", "await", "unlink"},
     rel_cancel |-> {"await", "unlink"} \cup StopSteps,
     rel_down   |-> {"await", "unlink"} \cup StopSteps]

(* A monitor that releases the object waits for itself and goes no further. *)
MonSteps ==
    [none       |-> {"idle", "sample", "again", "judge", "async", "async_core",
                     "put"},
     async_cb   |-> {"core", "put"},
     release    |-> {"release", "await", "unlink", "free"},
     rel_cancel |-> {"stop", "delete", "wait"},
     rel_down   |-> {"stop", "delete", "wait"}]

(* The calls that take a reference *)
Refs == {"up", "down", "reset", "policy", "read"}

FitsClient(step, call) ==
    /\ call \in DOMAIN ClientSteps
    /\ step \in ClientSteps[call]
    /\ call \in Refs => call \in Ops

Fits(t, step, call) ==
    /\ t = "core" => call \in DOMAIN CoreSteps /\ step \in CoreSteps[call]
    /\ t = "mon"  => call \in DOMAIN MonSteps /\ step \in MonSteps[call]
    /\ t \in Clients => FitsClient(step, call)

(* A thread at a step of a call that holds a reference, or that releases *)
Holds(t, step, call) ==
    \/ t \in Clients /\ call \in Ops \cup {"cancel"} /\ step # "ref"
    \/ t = "mon" /\ step \in {"async_core", "core", "put"}
    \/ t = "core" /\ call = "async_cb" /\ step # "async_cb"

Releases(call) == call \in {"release", "rel_cancel", "rel_down"}

ShapeInv ==
    /\ pc = [t \in Threads |-> pc[t]]
    /\ doing = [t \in Threads |-> doing[t]]
    /\ \A t \in Threads : Fits(t, pc[t][1], doing[t])

(* The count is the holders', the leaked and the first reference. *)
CountInv ==
    /\ IsFiniteSet(Holders)
    /\ leaked \in Nat /\ deleted \in BOOLEAN
    /\ refs = Cardinality(Holders) + leaked + (IF deleted THEN 0 ELSE 1)

(* An object without references is freed, or one thread releases it. *)
ReleaseInv ==
    /\ life \in {"live", "freed"}
    /\ life = "freed" => refs = 0
    /\ \A t \in Threads : Releases(doing[t]) => refs = 0 /\ life = "live"
    /\ \A t, u \in Threads : Releases(doing[t]) /\ Releases(doing[u]) => t = u
    /\ refs = 0 /\ life = "live" => \E t \in Threads : Releases(doing[t])

(* One client deletes, and the first reference is there until it does. *)
DelInv ==
    /\ \A t \in Threads : pc[t][1] = "del" => ~deleted
    /\ \A t, u \in Threads : doing[t] = "del" /\ doing[u] = "del" => t = u

AskedSet == {"none", "down_cb", "async_cb", "cancel_cb"}

(* A core that leaves faults or owes callbacks, a deleted one has none       *)
(* running or to come, and an object is freed after its core is deleted.     *)
GoneInv ==
    /\ asked \in AskedSet
    /\ core = "leaving" => asked # "none" \/ doing["core"] = "fault"
    /\ core = "gone" => pc["core"] = Idle /\ asked = "none"
    /\ \A t \in Threads : pc[t][1] = "free" => core = "gone"
    /\ life = "freed" => core = "gone"

RefInv == ShapeInv /\ CountInv /\ ReleaseInv /\ DelInv /\ GoneInv

-----------------------------------------------------------------------------
(* What a step that moves one thread means for the parts of RefInv *)

(* What keeps a core that leaves in debt *)
OwesStep(t, d) ==
    core' = "leaving" =>
        \/ asked' # "none"
        \/ t = "core" /\ d = "fault"
        \/ core = "leaving" /\ asked' = asked /\ (t = "core" => doing[t] # "fault")

LEMMA ThreadFacts ==
    /\ \A t \in Threads : t \in Clients \/ t = "mon" \/ t = "core"
    /\ Clients \subseteq Threads /\ "mon" \in Threads /\ "core" \in Threads
    /\ "mon" \notin Clients /\ "core" \notin Clients
  BY ObjectClientsAssumption DEF Threads

LEMMA LabelFacts ==
    /\ Idle[1] = "idle" /\ \A n : Step(n)[1] = n
    /\ \A t, n, x : At(t, n, x) => pc[t][1] = n
    /\ \A t, n : Is(t, n) => pc[t][1] = n
    /\ \A t, n : To(t, n) => Go(t, Step(n))
  BY DEF Idle, Step, At, Is, To

LEMMA Moved ==
    ASSUME ShapeInv, NEW t \in Threads, NEW l, NEW d, Go(t, l), Enters(t, d)
    PROVE  /\ pc'[t] = l /\ doing'[t] = d
           /\ \A u \in Threads : u # t => pc'[u] = pc[u] /\ doing'[u] = doing[u]
           /\ pc' = [u \in Threads |-> pc'[u]]
           /\ doing' = [u \in Threads |-> doing'[u]]
  BY DEF ShapeInv, Go, Enters

LEMMA Stays ==
    ASSUME ShapeInv, NEW t \in Threads, UNCHANGED doing
    PROVE  Enters(t, doing[t])
  BY DEF ShapeInv, Enters

LEMMA ShapeStep ==
    ASSUME ShapeInv, NEW t \in Threads, NEW l, NEW d, Go(t, l), Enters(t, d),
           Fits(t, l[1], d)
    PROVE  ShapeInv'
  <1>1. \A u \in Threads : Fits(u, pc'[u][1], doing'[u])
    BY Moved DEF ShapeInv
  <1> QED
    BY <1>1, Moved DEF ShapeInv, Fits

LEMMA HoldersFacts ==
    /\ Holders = {t \in Threads : Holds(t, pc[t][1], doing[t])}
    /\ Holders' = {t \in Threads : Holds(t, pc'[t][1], doing'[t])}
  BY ThreadFacts DEF Holders, Holds

LEMMA HoldersStep ==
    ASSUME ShapeInv, NEW t \in Threads, NEW l, NEW d, Go(t, l), Enters(t, d)
    PROVE  /\ t \in Holders <=> Holds(t, pc[t][1], doing[t])
           /\ Holders' = IF Holds(t, l[1], d) THEN Holders \cup {t}
                                              ELSE Holders \ {t}
  <1>1. t \in Holders <=> Holds(t, pc[t][1], doing[t])
    BY HoldersFacts
  <1>2. \A u : u \in Holders' <=> u \in Threads /\ Holds(u, pc'[u][1], doing'[u])
    BY HoldersFacts
  <1>3. \A u : u \in Holders <=> u \in Threads /\ Holds(u, pc[u][1], doing[u])
    BY HoldersFacts
  <1>4. \A u : u # t => (u \in Holders' <=> u \in Holders)
    BY <1>2, <1>3, Moved
  <1>5. t \in Holders' <=> Holds(t, l[1], d)
    BY <1>2, Moved
  <1> QED
    BY <1>1, <1>4, <1>5

LEMMA CountFacts ==
    ASSUME CountInv
    PROVE  /\ Cardinality(Holders) \in Nat /\ refs \in Nat /\ leaked \in Nat
           /\ Holders # {} => refs > 0
           /\ ~deleted => refs > 0
  <1>1. Cardinality(Holders) \in Nat
    BY FS_CardinalityType DEF CountInv
  <1>2. Holders # {} => Cardinality(Holders) # 0
    BY FS_EmptySet DEF CountInv
  <1> QED
    BY <1>1, <1>2 DEF CountInv

LEMMA KeepCount ==
    ASSUME ShapeInv, CountInv, NEW t \in Threads, NEW l, NEW d,
           Go(t, l), Enters(t, d),
           Holds(t, l[1], d) <=> Holds(t, pc[t][1], doing[t]),
           UNCHANGED <<refs, leaked, deleted>>
    PROVE  CountInv'
  <1>1. Holders' = Holders
    BY HoldersStep
  <1> QED
    BY <1>1 DEF CountInv

LEMMA KeepRelease ==
    ASSUME ShapeInv, ReleaseInv, NEW t \in Threads, NEW l, NEW d,
           Go(t, l), Enters(t, d), Releases(d) <=> Releases(doing[t]),
           UNCHANGED life, refs' = refs \/ (refs > 0 /\ refs' > 0)
    PROVE  ReleaseInv'
  <1>1. \A u \in Threads : Releases(doing'[u]) <=> Releases(doing[u])
    BY Moved
  <1>2. CASE refs' = refs
    BY <1>1, <1>2 DEF ReleaseInv, Releases
  <1>3. CASE refs > 0 /\ refs' > 0
    BY <1>1, <1>3 DEF ReleaseInv, Releases
  <1> QED
    BY <1>2, <1>3

LEMMA KeepDel ==
    ASSUME ShapeInv, DelInv, NEW t \in Threads, NEW l, NEW d,
           Go(t, l), Enters(t, d), l[1] # "del", d = "del" => doing[t] = "del",
           deleted' = deleted
    PROVE  DelInv'
  BY Moved DEF DelInv

LEMMA KeepGone ==
    ASSUME ShapeInv, GoneInv, NEW t \in Threads, NEW l, NEW d,
           Go(t, l), Enters(t, d), UNCHANGED life,
           pc[t][1] # "idle" \/ t # "core" \/ core # "gone",
           core = "gone" => core' = "gone" /\ asked' = asked,
           core' = "gone" => core = "gone",
           asked' \in AskedSet, OwesStep(t, d), l[1] # "free"
    PROVE  GoneInv'
  <1>1. core = "gone" => t # "core"
    BY LabelFacts DEF GoneInv
  <1>2. core' = "gone" => pc'["core"] = Idle /\ asked' = "none"
    BY <1>1, Moved, ThreadFacts DEF GoneInv
  <1>3. \A u \in Threads : pc'[u][1] = "free" => core' = "gone"
    BY Moved DEF GoneInv
  <1>4. core' = "leaving" => asked' # "none" \/ doing'["core"] = "fault"
    BY Moved, ThreadFacts DEF GoneInv, OwesStep
  <1> QED
    BY <1>2, <1>3, <1>4 DEF GoneInv

(* A step that moves no reference *)
LEMMA Ordinary ==
    ASSUME RefInv, NEW t \in Threads, NEW l, NEW d, Go(t, l), Enters(t, d),
           Fits(t, l[1], d), l[1] # "del", d = "del" => doing[t] = "del",
           Holds(t, l[1], d) <=> Holds(t, pc[t][1], doing[t]),
           Releases(d) <=> Releases(doing[t]),
           UNCHANGED <<life, refs, leaked, deleted>>,
           pc[t][1] # "idle" \/ t # "core" \/ core # "gone",
           core = "gone" => core' = "gone" /\ asked' = asked,
           core' = "gone" => core = "gone",
           asked' \in AskedSet, OwesStep(t, d), l[1] # "free"
    PROVE  RefInv'
  BY ShapeStep, KeepCount, KeepRelease, KeepDel, KeepGone DEF RefInv

(* A step inside a call *)
LEMMA Within ==
    ASSUME RefInv, NEW t \in Threads, NEW l, Go(t, l),
           Fits(t, l[1], doing[t]), l[1] \notin {"del", "free"},
           Holds(t, l[1], doing[t]) <=> Holds(t, pc[t][1], doing[t]),
           pc[t][1] # "idle" \/ t # "core",
           UNCHANGED <<life, refs, leaked, deleted, core, asked, doing>>
    PROVE  RefInv'
  <1>1. Enters(t, doing[t])
    BY Stays DEF RefInv
  <1>2. asked' \in AskedSet /\ OwesStep(t, doing[t])
    BY DEF RefInv, GoneInv, OwesStep
  <1> QED
    BY <1>1, <1>2, Ordinary

-----------------------------------------------------------------------------
(* References *)

LEMMA ClientFits ==
    ASSUME RefInv, NEW c \in Clients
    PROVE  /\ c \in Threads /\ c # "core" /\ c # "mon"
           /\ FitsClient(pc[c][1], doing[c])
           /\ \A n, d : Fits(c, n, d) <=> FitsClient(n, d)
           /\ \A n, d : Holds(c, n, d) <=> d \in Ops \cup {"cancel"} /\ n # "ref"
  <1>1. c \in Threads /\ c # "core" /\ c # "mon"
    BY ThreadFacts
  <1>2. Fits(c, pc[c][1], doing[c])
    BY <1>1 DEF RefInv, ShapeInv
  <1>3. \A n, d : Fits(c, n, d) <=> FitsClient(n, d)
    BY <1>1 DEF Fits
  <1>4. \A n, d : Holds(c, n, d) <=> d \in Ops \cup {"cancel"} /\ n # "ref"
    BY <1>1 DEF Holds
  <1>5. FitsClient(pc[c][1], doing[c])
    BY <1>2, <1>3
  <1> QED
    BY <1>1, <1>3, <1>4, <1>5

LEMMA OpsFacts ==
    /\ Ops \subseteq Refs
    /\ \A d \in Ops \cup {"cancel", "none", "del"} : ~Releases(d)
    /\ "none" \notin Ops /\ "del" \notin Ops /\ "cancel" \notin Ops
    /\ "release" \notin Ops /\ "rel_cancel" \notin Ops /\ "rel_down" \notin Ops
  BY ObjectAssumption DEF Ops, Refs, Releases

LEMMA OfCall ==
    ASSUME RefInv, NEW c \in Clients, Call(c)
    PROVE  RefInv'
  <1>1. pc[c][1] = "idle" /\ c \in Threads /\ c # "core"
    BY LabelFacts, ClientFits DEF Call
  <1>2. doing[c] = "none"
    BY <1>1, ClientFits DEF FitsClient, ClientSteps, StopSteps
  <1>3. PICK op \in Calls :
           /\ op = "del" => ~deleted /\ \A t \in Threads : doing[t] # "del"
           /\ Enters(c, op)
           /\ To(c, IF op = "del" THEN "del" ELSE "ref")
    BY DEF Call
  <1>4. UNCHANGED <<life, refs, leaked, deleted, core, asked>>
    BY DEF Call, link, coreVars
  <1>5. asked' \in AskedSet /\ \A d : OwesStep(c, d)
    BY <1>1, <1>4 DEF RefInv, GoneInv, OwesStep
  <1>6. ~Holds(c, pc[c][1], doing[c])
    BY <1>2, ClientFits, OpsFacts
  <1>7. CASE op # "del"
    <2>1. op \in Ops /\ Go(c, Step("ref"))
      BY <1>3, <1>7, LabelFacts DEF Ops
    <2>2. Fits(c, "ref", op) /\ ~Holds(c, "ref", op)
      BY <2>1, ClientFits, OpsFacts DEF FitsClient, ClientSteps, Refs
    <2>3. Releases(op) <=> Releases(doing[c])
      BY <1>2, <2>1, OpsFacts
    <2> QED
      BY <1>1, <1>3, <1>4, <1>5, <1>6, <1>7, <2>1, <2>2, <2>3, LabelFacts, Ordinary
  <1>8. CASE op = "del"
    <2>1. Go(c, Step("del")) /\ Enters(c, "del")
      BY <1>3, <1>8, LabelFacts
    <2>2. Fits(c, "del", "del") /\ ~Holds(c, "del", "del")
      BY ClientFits, OpsFacts DEF FitsClient, ClientSteps, Refs
    <2>3. Releases("del") <=> Releases(doing[c])
      BY <1>2, OpsFacts
    <2>4. ShapeInv' /\ CountInv' /\ ReleaseInv'
      BY <1>1, <1>4, <1>6, <2>1, <2>2, <2>3, LabelFacts, ShapeStep, KeepCount,
         KeepRelease DEF RefInv
    <2>5. GoneInv'
      BY <1>1, <1>4, <1>5, <2>1, LabelFacts, KeepGone DEF RefInv
    <2>6. DelInv'
      BY <1>1, <1>3, <1>4, <1>8, <2>1, Moved DEF RefInv, DelInv
    <2> QED
      BY <2>4, <2>5, <2>6 DEF RefInv
  <1> QED
    BY <1>7, <1>8

(* kref_get_unless_zero *)
LEMMA Taken ==
    ASSUME RefInv, NEW t \in Threads, NEW l, Go(t, l),
           Fits(t, l[1], doing[t]), l[1] \notin {"del", "free"},
           Holds(t, l[1], doing[t]), ~Holds(t, pc[t][1], doing[t]),
           pc[t][1] # "idle" \/ t # "core", refs > 0, refs' = refs + 1,
           UNCHANGED <<life, leaked, deleted, core, asked, doing>>
    PROVE  RefInv'
  <1>1. Enters(t, doing[t])
    BY Stays DEF RefInv
  <1>2. asked' \in AskedSet /\ OwesStep(t, doing[t])
    BY DEF RefInv, GoneInv, OwesStep
  <1>3. t \notin Holders /\ Holders' = Holders \cup {t}
    BY <1>1, HoldersStep DEF RefInv
  <1>4. CountInv'
    <2>1. IsFiniteSet(Holders') /\ Cardinality(Holders') = Cardinality(Holders) + 1
      BY <1>3, FS_AddElement DEF RefInv, CountInv
    <2> QED
      BY <2>1, CountFacts DEF RefInv, CountInv
  <1>5. ReleaseInv'
    <2>1. refs' > 0
      BY CountFacts DEF RefInv
    <2> QED
      BY <1>1, <2>1, KeepRelease DEF RefInv
  <1> QED
    BY <1>1, <1>2, <1>4, <1>5, ShapeStep, KeepDel, KeepGone DEF RefInv

LEMMA OfTakeRef ==
    ASSUME RefInv, NEW c \in Clients, TakeRef(c)
    PROVE  RefInv'
  <1>1. /\ pc[c][1] = "ref" /\ c \in Threads /\ c # "core"
        /\ UNCHANGED <<life, leaked, deleted, core, asked>>
    BY LabelFacts, ClientFits DEF TakeRef, coreVars, ghosts
  <1>2. doing[c] \in Ops
    BY <1>1, ClientFits DEF FitsClient, ClientSteps, StopSteps, Refs
  <1>3. ~Holds(c, pc[c][1], doing[c])
    BY <1>1, ClientFits
  <1>4. CASE refs > 0
    <2>1. Go(c, Step("body")) /\ refs' = refs + 1 /\ UNCHANGED doing
      BY <1>4, LabelFacts DEF TakeRef
    <2>2. Fits(c, "body", doing[c])
      BY <1>1, <1>2, ClientFits, OpsFacts DEF FitsClient, ClientSteps, StopSteps, Refs
    <2>3. Holds(c, "body", doing[c])
      BY <1>2, ClientFits
    <2> QED
      BY <1>1, <1>3, <1>4, <2>1, <2>2, <2>3, LabelFacts, Taken
  <1>5. CASE ~(refs > 0)
    <2>1. Go(c, Idle) /\ Enters(c, "none") /\ UNCHANGED refs
      BY <1>5 DEF TakeRef
    <2>2. Fits(c, "idle", "none") /\ ~Holds(c, "idle", "none")
      BY ClientFits, OpsFacts DEF FitsClient, ClientSteps, Refs
    <2>3. Releases("none") <=> Releases(doing[c])
      BY <1>2, OpsFacts
    <2>4. asked' \in AskedSet /\ OwesStep(c, "none")
      BY <1>1 DEF RefInv, GoneInv, OwesStep
    <2> QED
      BY <1>1, <1>3, <2>1, <2>2, <2>3, <2>4, LabelFacts, Ordinary
  <1> QED
    BY <1>4, <1>5

LEMMA CoreFits ==
    /\ "core" \in Threads
    /\ \A n, d : Fits("core", n, d) <=> d \in DOMAIN CoreSteps /\ n \in CoreSteps[d]
    /\ \A n, d : Holds("core", n, d) <=> d = "async_cb" /\ n # "async_cb"
    /\ RefInv => /\ doing["core"] \in DOMAIN CoreSteps
                 /\ pc["core"][1] \in CoreSteps[doing["core"]]
  <1>1. \A n, d : Fits("core", n, d) <=> d \in DOMAIN CoreSteps /\ n \in CoreSteps[d]
    BY ThreadFacts DEF Fits
  <1>2. \A n, d : Holds("core", n, d) <=> d = "async_cb" /\ n # "async_cb"
    BY ThreadFacts DEF Holds
  <1> QED
    BY <1>1, <1>2, ThreadFacts DEF RefInv, ShapeInv

LEMMA MonFits ==
    /\ "mon" \in Threads /\ "mon" # "core"
    /\ \A n, d : Fits("mon", n, d) <=> d \in DOMAIN MonSteps /\ n \in MonSteps[d]
    /\ \A n, d : Holds("mon", n, d) <=> n \in {"async_core", "core", "put"}
    /\ RefInv => /\ doing["mon"] \in DOMAIN MonSteps
                 /\ pc["mon"][1] \in MonSteps[doing["mon"]]
  <1>1. \A n, d : Fits("mon", n, d) <=> d \in DOMAIN MonSteps /\ n \in MonSteps[d]
    BY ThreadFacts DEF Fits
  <1>2. \A n, d : Holds("mon", n, d) <=> n \in {"async_core", "core", "put"}
    BY ThreadFacts DEF Holds
  <1> QED
    BY <1>1, <1>2, ThreadFacts DEF RefInv, ShapeInv

(* Where a thread is that has come out of its call *)
Out(t, l, d) ==
    /\ Go(t, l) /\ Enters(t, d)
    /\ Fits(t, l[1], d) /\ ~Holds(t, l[1], d) /\ ~Releases(d)
    /\ l[1] \notin {"del", "free"} /\ d # "del"

LEMMA Returned ==
    ASSUME RefInv, NEW t \in Threads, Return(t)
    PROVE  Out(t, Idle, "none")
  <1>1. Fits(t, "idle", "none") /\ ~Holds(t, "idle", "none") /\ ~Releases("none")
    <2>1. CASE t \in Clients
      BY <2>1, ClientFits, OpsFacts DEF FitsClient, ClientSteps, Refs
    <2>2. CASE t = "core"
      BY <2>2, CoreFits, OpsFacts DEF CoreSteps
    <2>3. CASE t = "mon"
      BY <2>3, MonFits, OpsFacts DEF MonSteps
    <2> QED
      BY <2>1, <2>2, <2>3, ThreadFacts
  <1> QED
    BY <1>1, LabelFacts DEF Out, Return

LEMMA BeginRelease ==
    ASSUME ShapeInv, ReleaseInv, NEW t \in Threads, NEW l, NEW d,
           Go(t, l), Enters(t, d), Releases(d), refs # 0, refs' = 0,
           UNCHANGED life
    PROVE  ReleaseInv'
  <1>1. life = "live" /\ \A u \in Threads : ~Releases(doing[u])
    BY DEF ReleaseInv
  <1>2. \A u \in Threads : Releases(doing'[u]) <=> u = t
    BY <1>1, Moved
  <1> QED
    BY <1>1, <1>2 DEF ReleaseInv, Releases

LEMMA Given ==
    ASSUME RefInv, NEW t \in Threads, NEW l, NEW d, Go(t, l), Enters(t, d),
           Fits(t, l[1], d), l[1] \notin {"del", "free"}, d # "del",
           Holds(t, pc[t][1], doing[t]), ~Holds(t, l[1], d),
           refs' = refs - 1, UNCHANGED <<life, leaked, deleted, core, asked>>,
           ~Releases(doing[t]), Releases(d) <=> refs = 1, pc[t][1] # "idle"
    PROVE  RefInv'
  <1>1. t \in Holders /\ Holders' = Holders \ {t}
    BY HoldersStep DEF RefInv
  <1>2. refs \in Nat /\ refs > 0
    BY <1>1, CountFacts DEF RefInv
  <1>3. CountInv'
    <2>1. IsFiniteSet(Holders') /\ Cardinality(Holders') = Cardinality(Holders) - 1
      BY <1>1, FS_RemoveElement DEF RefInv, CountInv
    <2> QED
      BY <2>1, CountFacts DEF RefInv, CountInv
  <1>4. ReleaseInv'
    <2>1. CASE refs = 1
      BY <1>2, <2>1, BeginRelease DEF RefInv
    <2>2. CASE refs # 1
      <3>1. refs > 0 /\ refs' > 0
        BY <1>2, <2>2
      <3> QED
        BY <2>2, <3>1, KeepRelease DEF RefInv
    <2> QED
      BY <2>1, <2>2
  <1>5. asked' \in AskedSet /\ OwesStep(t, d)
    BY ThreadFacts DEF RefInv, GoneInv, OwesStep, Holds
  <1> QED
    BY <1>3, <1>4, <1>5, ShapeStep, KeepDel, KeepGone DEF RefInv

LEMMA OfPut ==
    ASSUME RefInv, NEW t \in Threads, Put(t)
    PROVE  RefInv'
  <1>1. /\ pc[t][1] = "put" /\ refs' = refs - 1
        /\ UNCHANGED <<life, leaked, deleted, core, asked>>
    BY LabelFacts DEF Put, coreVars, ghosts
  <1>2. /\ Holds(t, pc[t][1], doing[t]) /\ ~Releases(doing[t])
        /\ Fits(t, "release", "release") /\ ~Holds(t, "release", "release")
    <2>1. CASE t \in Clients
      <3>1. doing[t] \in Ops \cup {"cancel"}
        BY <1>1, <2>1, ClientFits DEF FitsClient, ClientSteps, StopSteps, Refs
      <3> QED
        BY <1>1, <2>1, <3>1, ClientFits, OpsFacts DEF FitsClient, ClientSteps, Refs
    <2>2. CASE t = "core"
      BY <1>1, <2>2, CoreFits DEF CoreSteps, StopSteps, Releases
    <2>3. CASE t = "mon"
      BY <1>1, <2>3, MonFits DEF MonSteps, Releases
    <2> QED
      BY <2>1, <2>2, <2>3, ThreadFacts
  <1>3. CASE refs = 1
    <2>1. Go(t, Step("release")) /\ Enters(t, "release")
      BY <1>3, LabelFacts DEF Put
    <2>2. Releases("release")
      BY DEF Releases
    <2> QED
      BY <1>1, <1>2, <1>3, <2>1, <2>2, LabelFacts, Given
  <1>4. CASE refs # 1
    <2>1. Return(t)
      BY <1>4 DEF Put
    <2>2. Out(t, Idle, "none")
      BY <2>1, Returned
    <2> QED
      BY <1>1, <1>2, <1>4, <2>2, Given DEF Out
  <1> QED
    BY <1>3, <1>4

LEMMA OfDel ==
    ASSUME RefInv, NEW c \in Clients, Del(c)
    PROVE  RefInv'
  <1>1. c \in Threads /\ c # "core" /\ UNCHANGED <<life, leaked, core, asked>>
    BY ClientFits DEF Del, link, coreVars, ghosts
  <1>2. asked' \in AskedSet /\ \A d : OwesStep(c, d)
    BY <1>1 DEF RefInv, GoneInv, OwesStep
  <1>3. CASE /\ Is(c, "del") /\ refs' = refs - 1 /\ deleted' = TRUE
             /\ IF refs = 1 THEN To(c, "release") /\ Enters(c, "release")
                            ELSE To(c, "del_wait") /\ UNCHANGED doing
    <2> DEFINE d == IF refs = 1 THEN "release" ELSE doing[c]
               l == Step(IF refs = 1 THEN "release" ELSE "del_wait")
    <2>1. pc[c][1] = "del"
      BY <1>3, LabelFacts
    <2>2. doing[c] = "del"
      BY <2>1, ClientFits DEF FitsClient, ClientSteps, StopSteps
    <2>3. Go(c, l) /\ Enters(c, d)
      BY <1>1, <1>3, LabelFacts, Stays DEF RefInv
    <2>4. l[1] = IF refs = 1 THEN "release" ELSE "del_wait"
      BY LabelFacts
    <2>5. d = IF refs = 1 THEN "release" ELSE "del"
      BY <2>2
    <2> HIDE DEF d, l
    <2>6. ~deleted /\ refs > 0 /\ refs \in Nat
      BY <1>1, <2>1, CountFacts DEF RefInv, DelInv
    <2>7. /\ Fits(c, l[1], d) /\ ~Holds(c, l[1], d)
          /\ ~Holds(c, pc[c][1], doing[c])
      BY <2>1, <2>2, <2>4, <2>5, ClientFits, OpsFacts
         DEF FitsClient, ClientSteps, Refs
    <2>8. ShapeInv'
      BY <1>1, <2>3, <2>7, ShapeStep DEF RefInv
    <2>9. CountInv'
      <3>1. Holders' = Holders
        BY <1>1, <2>3, <2>7, HoldersStep DEF RefInv
      <3> QED
        BY <1>1, <1>3, <2>6, <3>1, CountFacts DEF RefInv, CountInv
    <2>10. ReleaseInv'
      <3>1. CASE refs = 1
        <4>1. Releases(d) /\ refs # 0 /\ refs' = 0
          BY <1>3, <2>5, <3>1 DEF Releases
        <4> QED
          BY <1>1, <2>3, <4>1, BeginRelease DEF RefInv
      <3>2. CASE refs # 1
        <4>1. refs > 0 /\ refs' > 0
          BY <1>3, <2>6, <3>2
        <4>2. Releases(d) <=> Releases(doing[c])
          BY <2>2, <2>5, <3>2
        <4> QED
          BY <1>1, <2>3, <4>1, <4>2, KeepRelease DEF RefInv
      <3> QED
        BY <3>1, <3>2
    <2>11. DelInv'
      <3>1. \A u \in Threads : pc'[u][1] # "del"
        <4> SUFFICES ASSUME NEW u \in Threads, pc'[u][1] = "del"
                     PROVE  FALSE
          OBVIOUS
        <4>1. u # c
          BY <1>1, <2>3, <2>4, Moved DEF RefInv
        <4>2. pc[u][1] = "del" /\ doing[u] # "del"
          BY <1>1, <2>2, <2>3, <4>1, Moved DEF RefInv, DelInv
        <4>3. CASE u \in Clients
          BY <4>2, <4>3, ClientFits DEF FitsClient, ClientSteps, StopSteps
        <4>4. CASE u = "core"
          BY <4>2, <4>4, CoreFits DEF CoreSteps, StopSteps
        <4>5. CASE u = "mon"
          BY <4>2, <4>5, MonFits DEF MonSteps, StopSteps
        <4> QED
          BY <4>3, <4>4, <4>5, ThreadFacts
      <3>2. \A u \in Threads : doing'[u] = "del" => doing[u] = "del"
        BY <1>1, <2>2, <2>3, Moved DEF RefInv
      <3> QED
        BY <3>1, <3>2 DEF RefInv, DelInv
    <2>12. GoneInv'
      BY <1>1, <1>2, <2>1, <2>3, <2>4, KeepGone DEF RefInv
    <2> QED
      BY <2>8, <2>9, <2>10, <2>11, <2>12 DEF RefInv
  <1>4. CASE /\ Is(c, "del_wait") /\ Go(c, Idle) /\ Enters(c, "none")
             /\ UNCHANGED <<link, coreVars, monitor, ghosts, K>>
    <2>1. pc[c][1] = "del_wait" /\ UNCHANGED <<refs, deleted>>
      BY <1>4, LabelFacts DEF link
    <2>2. doing[c] = "del"
      BY <2>1, ClientFits DEF FitsClient, ClientSteps, StopSteps
    <2>3. /\ Fits(c, "idle", "none") /\ ~Holds(c, "idle", "none")
          /\ ~Holds(c, pc[c][1], doing[c])
          /\ Releases("none") <=> Releases(doing[c])
      BY <2>2, ClientFits, OpsFacts DEF FitsClient, ClientSteps, Refs
    <2> QED
      BY <1>1, <1>2, <1>4, <2>1, <2>3, LabelFacts, Ordinary
  <1> QED
    BY <1>3, <1>4 DEF Del

-----------------------------------------------------------------------------
(* The monitor, started and stopped *)

LEMMA OfMonStep ==
    ASSUME RefInv, NEW t \in Threads, MonStep(t)
    PROVE  RefInv'
  <1>1. UNCHANGED <<life, refs, leaked, deleted, core, asked, doing>>
    BY DEF MonStep, link, coreVars
  <1>2. CASE pc[t][1] = "calc" /\ (To(t, "stop") \/ To(t, "start"))
    <2>1. Fits(t, "stop", doing[t]) /\ Fits(t, "start", doing[t])
      <3>1. CASE t \in Clients
        BY <1>2, <3>1, ClientFits DEF FitsClient, ClientSteps, StopSteps
      <3>2. CASE t = "core"
        BY <1>2, <3>2, CoreFits DEF CoreSteps, StopSteps
      <3>3. CASE t = "mon"
        BY <1>2, <3>3, MonFits DEF MonSteps
      <3> QED
        BY <3>1, <3>2, <3>3, ThreadFacts
    <2>2. \A n \in {"stop", "start"} :
             Holds(t, n, doing[t]) <=> Holds(t, pc[t][1], doing[t])
      BY <1>2 DEF Holds
    <2> QED
      BY <1>1, <1>2, <2>1, <2>2, LabelFacts, Within
  <1>3. CASE /\ pc[t][1] = "start"
             /\ To(t, IF doing[t] = "up_cb" THEN "publish" ELSE "put")
    <2>1. /\ doing[t] = "up_cb" => Fits(t, "publish", doing[t])
          /\ doing[t] # "up_cb" => Fits(t, "put", doing[t])
      <3>1. CASE t \in Clients
        BY <1>3, <3>1, ClientFits DEF FitsClient, ClientSteps, StopSteps
      <3>2. CASE t = "core"
        BY <1>3, <3>2, CoreFits DEF CoreSteps, StopSteps
      <3>3. CASE t = "mon"
        BY <1>3, <3>3, MonFits DEF MonSteps
      <3> QED
        BY <3>1, <3>2, <3>3, ThreadFacts
    <2>2. t # "mon"
      BY <1>3, MonFits DEF MonSteps
    <2>3. \A n \in {"publish", "put"} :
             Holds(t, n, doing[t]) <=> Holds(t, pc[t][1], doing[t])
      BY <1>3, <2>2 DEF Holds
    <2> QED
      BY <1>1, <1>3, <2>1, <2>3, LabelFacts, Within
  <1>4. CASE /\ pc[t][1] \in {"stop", "delete"}
             /\ Go(t, <<"wait", "mon">>) \/ To(t, "delete")
    <2>1. Fits(t, "wait", doing[t]) /\ Fits(t, "delete", doing[t])
      <3>1. CASE t \in Clients
        BY <1>4, <3>1, ClientFits DEF FitsClient, ClientSteps, StopSteps
      <3>2. CASE t = "core"
        BY <1>4, <3>2, CoreFits DEF CoreSteps, StopSteps
      <3>3. CASE t = "mon"
        BY <1>4, <3>3, MonFits DEF MonSteps
      <3> QED
        BY <3>1, <3>2, <3>3, ThreadFacts
    <2>2. \A n \in {"wait", "delete"} :
             Holds(t, n, doing[t]) <=> Holds(t, pc[t][1], doing[t])
      BY <1>4 DEF Holds
    <2>3. CASE Go(t, <<"wait", "mon">>)
      <3>1. <<"wait", "mon">>[1] = "wait"
        OBVIOUS
      <3> QED
        BY <1>1, <1>4, <2>1, <2>2, <2>3, <3>1, Within
    <2>4. CASE To(t, "delete")
      BY <1>1, <1>4, <2>1, <2>2, <2>4, LabelFacts, Within
    <2> QED
      BY <1>4, <2>3, <2>4
  <1>5. CASE pc[t][1] = "wait" /\ pc["mon"] = Idle /\ Go(t, AfterStop(t))
    <2> DEFINE n == AfterStop(t)[1]
    <2>1. t # "mon" /\ AfterStop(t)[1] = n
      BY <1>5, LabelFacts
    <2>2. n = CASE doing[t] = "policy" -> "put"
                [] doing[t] = "up_cb"  -> "publish"
                [] doing[t] = "fault"  -> "unlock"
                [] doing[t] \in {"down_cb", "async_cb", "fault_cb"} -> "flush"
                [] OTHER -> "core"
      BY LabelFacts DEF AfterStop
    <2> HIDE DEF n
    <2>3. Fits(t, n, doing[t])
      <3>1. CASE t \in Clients
        BY <1>5, <2>2, <3>1, ClientFits DEF FitsClient, ClientSteps, StopSteps
      <3>2. CASE t = "core"
        BY <1>5, <2>2, <3>2, CoreFits DEF CoreSteps, StopSteps
      <3> QED
        BY <2>1, <3>1, <3>2, ThreadFacts
    <2>4. n \in {"put", "publish", "unlock", "flush", "core"}
      BY <2>2
    <2>5. Holds(t, n, doing[t]) <=> Holds(t, pc[t][1], doing[t])
      BY <1>5, <2>1, <2>4 DEF Holds
    <2> QED
      BY <1>1, <1>5, <2>1, <2>3, <2>4, <2>5, Within
  <1>6. CASE MonStart(t)
    BY <1>2, <1>3, <1>6, LabelFacts DEF MonStart
  <1>7. CASE MonStop(t)
    BY <1>4, <1>5, <1>7, LabelFacts DEF MonStop, Cancel, Waited
  <1> QED
    BY <1>6, <1>7 DEF MonStep

-----------------------------------------------------------------------------
(* Link up and down, and the state that is read *)

LEMMA OfLinkUp ==
    ASSUME RefInv, NEW c \in Clients, LinkUp(c), UNCHANGED asked
    PROVE  RefInv'
  <1>1. /\ doing[c] = "up" /\ c \in Threads /\ c # "core"
        /\ UNCHANGED <<life, refs, leaked, deleted, doing>>
    BY ClientFits DEF LinkUp
  <1>2. \/ /\ pc[c][1] \in {"body", "init", "core", "refused"}
           /\ To(c, "init") \/ To(c, "put") \/ To(c, "core") \/ To(c, "refused")
        \/ pc[c][1] = "refused" /\ UNCHANGED pc
    BY LabelFacts DEF LinkUp
  <1>3. core = "gone" <=> core' = "gone"
    BY DEF LinkUp
  <1>4. asked' \in AskedSet /\ OwesStep(c, "up")
    BY <1>1 DEF LinkUp, RefInv, GoneInv, OwesStep
  <1>5. Enters(c, "up")
    BY <1>1, Stays DEF RefInv
  <1>6. CASE UNCHANGED pc
    <2>1. Go(c, pc[c])
      BY <1>1, <1>6 DEF RefInv, ShapeInv, Go
    <2>2. pc[c][1] \in {"body", "init", "core", "refused"}
      BY <1>2
    <2>3. Fits(c, pc[c][1], "up")
      BY <1>1 DEF RefInv, ShapeInv
    <2> QED
      BY <1>1, <1>3, <1>4, <1>5, <2>1, <2>2, <2>3, Ordinary
  <1>7. ASSUME NEW n \in {"init", "put", "core", "refused"}, To(c, n),
               pc[c][1] \in {"body", "init", "core", "refused"}
        PROVE  RefInv'
    <2>1. Fits(c, n, "up")
      BY <1>1, <1>7, ClientFits DEF FitsClient, ClientSteps
    <2>2. Holds(c, n, "up") <=> Holds(c, pc[c][1], doing[c])
      BY <1>1, <1>7, ClientFits
    <2> QED
      BY <1>1, <1>3, <1>4, <1>5, <1>7, <2>1, <2>2, LabelFacts, Ordinary
  <1> QED
    BY <1>2, <1>6, <1>7

(* Where sl_ctrl_link_down, reset and release go on *)
LEMMA OfStopped ==
    ASSUME RefInv, NEW t \in Threads, Stopped(t),
           \/ t \in Clients /\ pc[t][1] = "body" /\ doing[t] \in {"down", "reset"}
           \/ pc[t][1] = "release",
           UNCHANGED <<life, refs, leaked, deleted, core, asked>>
    PROVE  RefInv'
  <1>1. PICK d : /\ Enters(t, d) /\ To(t, "stop")
                 /\ \/ doing[t] = "release" /\ d \in {"rel_cancel", "rel_down"}
                    \/ doing[t] # "release" /\ d \in {"cancel", doing[t]}
    <2> DEFINE release == doing[t] = "release"
               cancels == ctrl = "STARTING" /\ doing[t] # "reset"
               d == CASE release /\ cancels  -> "rel_cancel"
                      [] release /\ ~cancels -> "rel_down"
                      [] ~release /\ cancels -> "cancel"
                      [] OTHER               -> doing[t]
    <2>1. Enters(t, d) /\ To(t, "stop")
      BY DEF Stopped
    <2>2. \/ release /\ d \in {"rel_cancel", "rel_down"}
          \/ ~release /\ d \in {"cancel", doing[t]}
      OBVIOUS
    <2> QED
      BY <2>1, <2>2
  <1>2. asked' \in AskedSet
    BY DEF RefInv, GoneInv
  <1>3. CASE pc[t][1] = "release"
    <2>1. /\ doing[t] = "release" /\ Fits(t, "stop", d)
          /\ Holds(t, "stop", d) <=> Holds(t, pc[t][1], doing[t])
      <3>1. CASE t \in Clients
        <4>1. doing[t] = "release"
          BY <1>3, <3>1, ClientFits DEF FitsClient, ClientSteps, StopSteps
        <4> QED
          BY <1>1, <1>3, <3>1, <4>1, ClientFits, OpsFacts
             DEF FitsClient, ClientSteps, StopSteps, Refs
      <3>2. CASE t = "core"
        <4>1. doing[t] = "release"
          BY <1>3, <3>2, CoreFits DEF CoreSteps, StopSteps
        <4> QED
          BY <1>1, <1>3, <3>2, <4>1, CoreFits DEF CoreSteps, StopSteps
      <3>3. CASE t = "mon"
        <4>1. doing[t] = "release"
          BY <1>3, <3>3, MonFits DEF MonSteps
        <4> QED
          BY <1>1, <1>3, <3>3, <4>1, MonFits DEF MonSteps
      <3> QED
        BY <3>1, <3>2, <3>3, ThreadFacts
    <2>2. Releases(d) <=> Releases(doing[t])
      BY <1>1, <2>1 DEF Releases
    <2>3. d # "del" /\ OwesStep(t, d)
      BY <1>1, <2>1 DEF OwesStep
    <2> QED
      BY <1>1, <1>2, <1>3, <2>1, <2>2, <2>3, LabelFacts, Ordinary
  <1>4. CASE t \in Clients /\ pc[t][1] = "body" /\ doing[t] \in {"down", "reset"}
    <2>1. d \in {"cancel", "down", "reset"} /\ (d # "cancel" => d = doing[t])
      BY <1>1, <1>4
    <2>2. /\ Fits(t, "stop", d) /\ Holds(t, "stop", d)
          /\ Holds(t, pc[t][1], doing[t])
      BY <1>4, <2>1, ClientFits DEF FitsClient, ClientSteps, StopSteps, Refs
    <2>3. (Releases(d) <=> Releases(doing[t])) /\ OwesStep(t, d)
      BY <1>4, <2>1 DEF Releases, OwesStep
    <2> QED
      BY <1>1, <1>2, <1>4, <2>1, <2>2, <2>3, LabelFacts, Ordinary
  <1> QED
    BY <1>3, <1>4

LEMMA OfLinkDown ==
    ASSUME RefInv, NEW c \in Clients, LinkDown(c)
    PROVE  RefInv'
  <1>1. /\ pc[c][1] = "body" /\ doing[c] \in {"down", "reset"} /\ c \in Threads
        /\ UNCHANGED <<life, refs, leaked, deleted, core, asked>>
    BY LabelFacts, ClientFits DEF LinkDown, coreVars, ghosts
  <1>2. CASE Stopped(c)
    BY <1>1, <1>2, OfStopped
  <1>3. CASE To(c, "put") /\ UNCHANGED doing
    <2>1. Fits(c, "put", doing[c])
      BY <1>1, ClientFits DEF FitsClient, ClientSteps, StopSteps
    <2>2. Holds(c, "put", doing[c]) <=> Holds(c, pc[c][1], doing[c])
      BY <1>1, ClientFits
    <2> QED
      BY <1>1, <1>3, <2>1, <2>2, LabelFacts, Within
  <1> QED
    BY <1>2, <1>3 DEF LinkDown

LEMMA OfCoreDown ==
    ASSUME RefInv, NEW t \in Threads, CoreDown(t)
    PROVE  RefInv'
  <1> DEFINE n == IF doing[t] \in {"cancel", "down", "async_cb"} THEN "put" ELSE "await"
  <1>1. /\ pc[t][1] = "core" /\ doing[t] # "up" /\ Go(t, Step(n)) /\ Step(n)[1] = n
        /\ UNCHANGED <<life, refs, leaked, deleted, doing>>
    BY LabelFacts DEF CoreDown, link, ghosts
  <1>2. core = "gone" => core' = "gone" /\ asked' = asked
    BY DEF CoreDown
  <1>3. core' = "gone" => core = "gone"
    BY DEF CoreDown
  <1>4. asked' \in AskedSet /\ OwesStep(t, doing[t])
    <2>1. asked' \in AskedSet
      BY DEF CoreDown, RefInv, GoneInv, AskedSet
    <2>2. core' = "leaving" => asked' # "none" \/ UNCHANGED <<core, asked>>
      BY DEF CoreDown
    <2> QED
      BY <2>1, <2>2 DEF OwesStep
  <1>5. n \in {"put", "await"} /\ (n = "put" <=> doing[t] \in {"cancel", "down", "async_cb"})
    OBVIOUS
  <1> HIDE DEF n
  <1>6. Enters(t, doing[t])
    BY <1>1, Stays DEF RefInv
  <1>7. Fits(t, n, doing[t]) /\ (Holds(t, n, doing[t]) <=> Holds(t, pc[t][1], doing[t]))
    <2>1. CASE t \in Clients
      BY <1>1, <1>5, <2>1, ClientFits DEF FitsClient, ClientSteps, StopSteps
    <2>2. CASE t = "core"
      BY <1>1, <1>5, <2>2, CoreFits DEF CoreSteps, StopSteps
    <2>3. CASE t = "mon"
      BY <1>1, <1>5, <2>3, MonFits DEF MonSteps
    <2> QED
      BY <2>1, <2>2, <2>3, ThreadFacts
  <1> QED
    BY <1>1, <1>2, <1>3, <1>4, <1>5, <1>6, <1>7, Ordinary

LEMMA OfAwait ==
    ASSUME RefInv, NEW t \in Threads, Await(t)
    PROVE  RefInv'
  <1>1. /\ pc[t][1] = "await"
        /\ UNCHANGED <<life, refs, leaked, deleted, core, asked, doing>>
    BY LabelFacts DEF Await, link, coreVars, ghosts
  <1>2. PICK l : /\ Go(t, l)
                 /\ l[1] = IF doing[t] = "reset" THEN "reset" ELSE "unlink"
    BY LabelFacts DEF Await
  <1>3. /\ Fits(t, l[1], doing[t])
        /\ Holds(t, l[1], doing[t]) <=> Holds(t, pc[t][1], doing[t])
    <2>1. CASE t \in Clients
      BY <1>1, <1>2, <2>1, ClientFits DEF FitsClient, ClientSteps, StopSteps
    <2>2. CASE t = "core"
      BY <1>1, <1>2, <2>2, CoreFits DEF CoreSteps, StopSteps
    <2>3. CASE t = "mon"
      BY <1>1, <1>2, <2>3, MonFits DEF MonSteps
    <2> QED
      BY <2>1, <2>2, <2>3, ThreadFacts
  <1> QED
    BY <1>1, <1>2, <1>3, Within

LEMMA OfReset ==
    ASSUME RefInv, NEW c \in Clients, Reset(c)
    PROVE  RefInv'
  <1>1. /\ pc[c][1] = "reset" /\ c \in Threads
        /\ UNCHANGED <<life, refs, leaked, deleted, core, asked, doing>>
    BY ClientFits DEF Reset, link, coreVars, ghosts
  <1>2. Go(c, Step("put")) /\ Step("put")[1] = "put"
    BY LabelFacts DEF Reset
  <1>3. /\ Fits(c, "put", doing[c])
        /\ Holds(c, "put", doing[c]) <=> Holds(c, pc[c][1], doing[c])
    BY <1>1, ClientFits DEF FitsClient, ClientSteps, StopSteps
  <1> QED
    BY <1>1, <1>2, <1>3, Within

LEMMA OfPolicyOrRead ==
    ASSUME RefInv, NEW c \in Clients, PolicyOrRead(c)
    PROVE  RefInv'
  <1>1. /\ c \in Threads
        /\ UNCHANGED <<life, refs, leaked, deleted, core, asked, doing>>
    BY ClientFits DEF PolicyOrRead, StateGet, link, coreVars, ghosts
  <1>2. PICK n : /\ Go(c, Step(n)) /\ Step(n)[1] = n
                 /\ \/ /\ pc[c][1] = "body" /\ doing[c] \in {"policy", "read"}
                       /\ n = "look"
                    \/ pc[c][1] = "look" /\ n = "look_core"
                    \/ /\ pc[c][1] = "look_core" /\ n \in {"calc", "put"}
                       /\ n = "calc" => doing[c] = "policy"
    BY LabelFacts DEF PolicyOrRead, StateGet
  <1>3. /\ Fits(c, n, doing[c])
        /\ Holds(c, n, doing[c]) <=> Holds(c, pc[c][1], doing[c])
    BY <1>2, ClientFits DEF FitsClient, ClientSteps, StopSteps
  <1>4. n \notin {"del", "free"} /\ pc[c][1] # "idle"
    BY <1>2
  <1> QED
    BY <1>1, <1>2, <1>3, <1>4, Within

-----------------------------------------------------------------------------
(* Release *)

LEMMA OfRelease ==
    ASSUME RefInv, NEW t \in Threads, Release(t)
    PROVE  RefInv'
  <1>1. /\ pc[t][1] = "release"
        /\ UNCHANGED <<life, refs, leaked, deleted, core, asked>>
    BY LabelFacts DEF Release, coreVars
  <1>2. CASE Stopped(t)
    BY <1>1, <1>2, OfStopped
  <1>3. CASE To(t, IF ctrl = "DOWN" THEN "unlink" ELSE "await") /\ UNCHANGED doing
    <2>1. PICK n \in {"unlink", "await"} : Go(t, Step(n)) /\ Step(n)[1] = n
      BY <1>3, LabelFacts
    <2>2. Fits(t, n, doing[t]) /\ (Holds(t, n, doing[t]) <=> Holds(t, pc[t][1], doing[t]))
      <3>1. CASE t \in Clients
        BY <1>1, <2>1, <3>1, ClientFits DEF FitsClient, ClientSteps, StopSteps
      <3>2. CASE t = "core"
        BY <1>1, <2>1, <3>2, CoreFits DEF CoreSteps, StopSteps
      <3>3. CASE t = "mon"
        BY <1>1, <2>1, <3>3, MonFits DEF MonSteps
      <3> QED
        BY <3>1, <3>2, <3>3, ThreadFacts
    <2> QED
      BY <1>1, <1>3, <2>1, <2>2, Within
  <1> QED
    BY <1>2, <1>3 DEF Release

LEMMA OfCoreDel ==
    ASSUME RefInv, NEW t \in Threads, CoreDel(t)
    PROVE  RefInv'
  <1>1. /\ pc[t][1] = "unlink" /\ pc["core"] = Idle /\ core' = "gone" /\ asked' = "none"
        /\ Go(t, Step("free")) /\ Step("free")[1] = "free"
        /\ UNCHANGED <<life, refs, leaked, deleted, doing>>
    BY LabelFacts DEF CoreDel, link, ghosts
  <1>2. t # "core"
    BY <1>1, LabelFacts
  <1>3. Enters(t, doing[t])
    BY <1>1, Stays DEF RefInv
  <1>4. /\ Fits(t, "free", doing[t]) /\ doing[t] # "del"
        /\ Holds(t, "free", doing[t]) <=> Holds(t, pc[t][1], doing[t])
    <2>1. CASE t \in Clients
      BY <1>1, <2>1, ClientFits DEF FitsClient, ClientSteps, StopSteps
    <2>2. CASE t = "mon"
      BY <1>1, <2>2, MonFits DEF MonSteps
    <2> QED
      BY <1>2, <2>1, <2>2, ThreadFacts
  <1>5. ShapeInv' /\ CountInv' /\ ReleaseInv' /\ DelInv'
    BY <1>1, <1>3, <1>4, ShapeStep, KeepCount, KeepRelease, KeepDel DEF RefInv
  <1>6. GoneInv'
    <2>1. pc'["core"] = Idle
      BY <1>1, <1>2, <1>3, ThreadFacts, Moved DEF RefInv
    <2> QED
      BY <1>1, <2>1 DEF GoneInv, AskedSet
  <1> QED
    BY <1>5, <1>6 DEF RefInv

LEMMA OfFreeObject ==
    ASSUME RefInv, NEW t \in Threads, FreeObject(t)
    PROVE  RefInv'
  <1>1. /\ pc[t][1] = "free" /\ life' = "freed" /\ Return(t)
        /\ UNCHANGED <<refs, leaked, deleted, core, asked>>
    BY LabelFacts DEF FreeObject, coreVars, ghosts
  <1>2. core = "gone" /\ t # "core"
    <2>1. core = "gone"
      BY <1>1 DEF RefInv, GoneInv
    <2> QED
      BY <1>1, <2>1, LabelFacts DEF RefInv, GoneInv
  <1>3. Out(t, Idle, "none")
    BY <1>1, Returned
  <1>5. Releases(doing[t]) /\ ~Holds(t, pc[t][1], doing[t])
    <2>1. CASE t \in Clients
      <3>1. Releases(doing[t])
        BY <1>1, <2>1, ClientFits DEF FitsClient, ClientSteps, StopSteps, Releases
      <3> QED
        BY <2>1, <3>1, ClientFits, OpsFacts
    <2>2. CASE t = "mon"
      BY <1>1, <2>2, MonFits DEF MonSteps, Releases
    <2> QED
      BY <1>2, <2>1, <2>2, ThreadFacts
  <1>6. ShapeInv' /\ CountInv' /\ DelInv'
    BY <1>1, <1>3, <1>5, ShapeStep, KeepCount, KeepDel DEF RefInv, Out
  <1>7. ReleaseInv'
    <2>1. refs = 0 /\ \A u \in Threads : Releases(doing[u]) => u = t
      BY <1>5 DEF RefInv, ReleaseInv
    <2>2. \A u \in Threads : ~Releases(doing'[u])
      BY <1>3, <2>1, Moved DEF RefInv, Out
    <2> QED
      BY <1>1, <2>1, <2>2 DEF ReleaseInv
  <1>8. GoneInv'
    <2>1. pc'["core"] = Idle /\ asked' = "none"
      BY <1>1, <1>2, <1>3, ThreadFacts, Moved DEF RefInv, GoneInv, Out
    <2> QED
      BY <1>1, <1>2, <2>1 DEF GoneInv, AskedSet
  <1> QED
    BY <1>6, <1>7, <1>8 DEF RefInv

-----------------------------------------------------------------------------
(* The core *)

LEMMA OfCoreEnds ==
    ASSUME RefInv, CoreEnds
    PROVE  RefInv'
  <1>1. /\ pc["core"][1] = "idle" /\ core \in {"rising", "leaving", "up"}
        /\ core' \in {"up", "down", "leaving"}
        /\ UNCHANGED <<life, refs, leaked, deleted>>
    BY LabelFacts DEF CoreEnds, link, ghosts
  <1>2. /\ doing["core"] = "none" /\ ~Releases("none")
        /\ ~Holds("core", pc["core"][1], doing["core"])
    BY <1>1, CoreFits DEF CoreSteps, StopSteps, Releases
  <1>3. core # "gone" /\ core' # "gone"
    BY <1>1
  <1>4. CASE /\ core = "leaving" /\ core' = "down" /\ asked' = "none"
             /\ To("core", IF asked = "cancel_cb" THEN "fail_cb" ELSE asked)
             /\ Enters("core", asked)
    <2>1. PICK n : To("core", n) /\ n = IF asked = "cancel_cb" THEN "fail_cb" ELSE asked
      BY <1>4
    <2>2. asked \in {"down_cb", "async_cb", "cancel_cb"}
      BY <1>2, <1>4 DEF RefInv, GoneInv, AskedSet
    <2>3. Fits("core", n, asked) /\ ~Holds("core", n, asked) /\ ~Releases(asked)
      BY <2>1, <2>2, CoreFits DEF CoreSteps, Releases
    <2>4. asked' \in AskedSet /\ OwesStep("core", asked)
      BY <1>4 DEF AskedSet, OwesStep
    <2>5. asked # "del" /\ n \notin {"del", "free"}
      BY <2>1, <2>2
    <2> QED
      BY <1>1, <1>2, <1>3, <1>4, <2>1, <2>3, <2>4, <2>5, CoreFits, LabelFacts, Ordinary
  <1>5. ASSUME NEW n \in {"up_cb", "fail_cb", "fault_ctrl"}, To("core", n),
               NEW d \in {"up_cb", "fail_cb", "fault"}, Enters("core", d),
               n = "fault_ctrl" => d = "fault", n # "fault_ctrl" => d = n,
               core' = "leaving" => d = "fault", UNCHANGED asked
        PROVE  RefInv'
    <2>1. Fits("core", n, d) /\ ~Holds("core", n, d) /\ ~Releases(d)
      BY <1>5, CoreFits DEF CoreSteps, Releases
    <2>2. asked' \in AskedSet /\ OwesStep("core", d)
      BY <1>5 DEF RefInv, GoneInv, OwesStep
    <2> QED
      BY <1>1, <1>2, <1>3, <1>5, <2>1, <2>2, CoreFits, LabelFacts, Ordinary
  <1>6. CASE /\ To("core", "up_cb") /\ Enters("core", "up_cb") /\ core' = "up"
             /\ UNCHANGED asked
    BY <1>5, <1>6
  <1>7. CASE /\ To("core", "fail_cb") /\ Enters("core", "fail_cb") /\ core' = "down"
             /\ UNCHANGED asked
    BY <1>5, <1>7
  <1>8. CASE To("core", "fault_ctrl") /\ Enters("core", "fault") /\ UNCHANGED asked
    BY <1>5, <1>8
  <1> QED
    BY <1>4, <1>6, <1>7, <1>8 DEF CoreEnds

(* A callback goes on inside its call. *)
LEMMA CoreWithin ==
    ASSUME RefInv, NEW n, To("core", n), pc["core"][1] # "idle",
           n \in CoreSteps[doing["core"]], n \notin {"del", "free", "async_cb"},
           pc["core"][1] # "async_cb",
           UNCHANGED <<life, refs, leaked, deleted, core, asked, doing>>
    PROVE  RefInv'
  <1>1. Fits("core", n, doing["core"])
    BY CoreFits
  <1>2. Holds("core", n, doing["core"]) <=> Holds("core", pc["core"][1], doing["core"])
    BY CoreFits
  <1> QED
    BY <1>1, <1>2, CoreFits, LabelFacts, Within

(* It is over. *)
LEMMA CoreOut ==
    ASSUME RefInv, Return("core"), pc["core"][1] # "idle",
           ~Holds("core", pc["core"][1], doing["core"]), ~Releases(doing["core"]),
           doing["core"] # "fault",
           UNCHANGED <<life, refs, leaked, deleted, core, asked>>
    PROVE  RefInv'
  <1>1. Out("core", Idle, "none")
    BY CoreFits, Returned
  <1>2. asked' \in AskedSet /\ OwesStep("core", "none")
    BY DEF RefInv, GoneInv, OwesStep
  <1> QED
    BY <1>1, <1>2, CoreFits, Ordinary DEF Out

LEMMA OfFault ==
    ASSUME RefInv, Fault, UNCHANGED <<life, refs, leaked, deleted, asked>>
    PROVE  RefInv'
  <1>1. pc["core"][1] \in {"fault_ctrl", "unlock", "off"}
    BY LabelFacts DEF Fault
  <1>2. doing["core"] = "fault"
    BY <1>1, CoreFits DEF CoreSteps, StopSteps
  <1>3. CASE To("core", "stop") /\ UNCHANGED <<core, doing>>
    BY <1>1, <1>2, <1>3, CoreWithin DEF CoreSteps
  <1>4. CASE To("core", "off") /\ UNCHANGED <<core, doing>>
    BY <1>1, <1>2, <1>4, CoreWithin DEF CoreSteps
  <1>5. CASE core' = "down" /\ To("core", "stop") /\ Enters("core", "fault_cb")
    <2>1. /\ Fits("core", "stop", "fault_cb") /\ ~Holds("core", "stop", "fault_cb")
          /\ ~Holds("core", pc["core"][1], doing["core"])
          /\ Releases("fault_cb") <=> Releases(doing["core"])
      BY <1>1, <1>2, CoreFits DEF CoreSteps, StopSteps, Releases
    <2>2. core # "gone" /\ core' # "gone"
      BY <1>1, <1>5, LabelFacts DEF RefInv, GoneInv
    <2>3. asked' \in AskedSet /\ OwesStep("core", "fault_cb")
      BY <1>5 DEF RefInv, GoneInv, OwesStep
    <2> QED
      BY <1>1, <1>5, <2>1, <2>2, <2>3, CoreFits, LabelFacts, Ordinary
  <1> QED
    BY <1>3, <1>4, <1>5 DEF Fault

LEMMA OfCallbackBegins ==
    ASSUME RefInv, CallbackBegins
    PROVE  RefInv'
  <1>1. UNCHANGED <<life, leaked, deleted, core, asked>>
    BY DEF CallbackBegins, coreVars, ghosts
  <1>2. CASE Is("core", "up_cb") /\ To("core", "calc") /\ UNCHANGED <<refs, doing>>
    <2>1. pc["core"][1] = "up_cb"
      BY <1>2, LabelFacts
    <2>2. doing["core"] = "up_cb"
      BY <2>1, CoreFits DEF CoreSteps, StopSteps
    <2> QED
      BY <1>1, <1>2, <2>1, <2>2, CoreWithin DEF CoreSteps
  <1>3. CASE /\ Is("core", "fail_cb") /\ To("core", "stopping")
             /\ UNCHANGED <<refs, doing>>
    <2>1. pc["core"][1] = "fail_cb"
      BY <1>3, LabelFacts
    <2>2. doing["core"] \in {"fail_cb", "cancel_cb"}
      BY <2>1, CoreFits DEF CoreSteps, StopSteps
    <2> QED
      BY <1>1, <1>3, <2>1, <2>2, CoreWithin DEF CoreSteps
  <1>4. CASE /\ Is("core", "down_cb") /\ UNCHANGED refs
             /\ \/ To("core", "stop") /\ UNCHANGED doing
                \/ Return("core")
    <2>1. pc["core"][1] = "down_cb"
      BY <1>4, LabelFacts
    <2>2. doing["core"] = "down_cb"
      BY <2>1, CoreFits DEF CoreSteps, StopSteps
    <2>3. CASE To("core", "stop") /\ UNCHANGED doing
      BY <1>1, <1>4, <2>1, <2>2, <2>3, CoreWithin DEF CoreSteps
    <2>4. CASE Return("core")
      <3>1. ~Holds("core", pc["core"][1], doing["core"]) /\ ~Releases(doing["core"])
        BY <2>2, CoreFits DEF Releases
      <3> QED
        BY <1>1, <1>4, <2>1, <2>2, <2>4, <3>1, CoreOut
    <2> QED
      BY <1>4, <2>3, <2>4
  <1>5. CASE /\ Is("core", "async_cb")
             /\ IF refs > 0
                THEN refs' = refs + 1 /\ To("core", "stop") /\ UNCHANGED doing
                ELSE Return("core") /\ UNCHANGED refs
    <2>1. pc["core"][1] = "async_cb"
      BY <1>5, LabelFacts
    <2>2. doing["core"] = "async_cb" /\ ~Holds("core", pc["core"][1], doing["core"])
      BY <2>1, CoreFits DEF CoreSteps, StopSteps
    <2>3. CASE refs > 0
      <3>1. Fits("core", "stop", doing["core"]) /\ Holds("core", "stop", doing["core"])
        BY <2>2, CoreFits DEF CoreSteps
      <3> QED
        BY <1>1, <1>5, <2>1, <2>2, <2>3, <3>1, CoreFits, LabelFacts, Taken
    <2>4. CASE ~(refs > 0)
      <3>1. ~Releases(doing["core"])
        BY <2>2 DEF Releases
      <3> QED
        BY <1>1, <1>5, <2>1, <2>2, <2>4, <3>1, CoreOut
    <2> QED
      BY <2>3, <2>4
  <1> QED
    BY <1>2, <1>3, <1>4, <1>5 DEF CallbackBegins

LEMMA OfCallbackEnds ==
    ASSUME RefInv, CallbackEnds, UNCHANGED <<life, refs, leaked, deleted, core, asked>>
    PROVE  RefInv'
  <1>1. CASE Is("core", "publish") /\ To("core", "notify") /\ UNCHANGED doing
    <2>1. pc["core"][1] = "publish"
      BY <1>1, LabelFacts
    <2>2. "notify" \in CoreSteps[doing["core"]]
      BY <2>1, CoreFits DEF CoreSteps, StopSteps
    <2> QED
      BY <1>1, <2>1, <2>2, CoreWithin
  <1>2. CASE Is("core", "stopping") /\ To("core", "flush") /\ UNCHANGED doing
    <2>1. pc["core"][1] = "stopping"
      BY <1>2, LabelFacts
    <2>2. "flush" \in CoreSteps[doing["core"]]
      BY <2>1, CoreFits DEF CoreSteps, StopSteps
    <2> QED
      BY <1>2, <2>1, <2>2, CoreWithin
  <1>9. CASE Is("core", "flush") /\ To("core", "settle") /\ UNCHANGED doing
    <2>1. pc["core"][1] = "flush"
      BY <1>9, LabelFacts
    <2>2. "settle" \in CoreSteps[doing["core"]]
      BY <2>1, CoreFits DEF CoreSteps, StopSteps
    <2> QED
      BY <1>9, <2>1, <2>2, CoreWithin
  <1>3. CASE Is("core", "settle") /\ To("core", "complete") /\ UNCHANGED doing
    <2>1. pc["core"][1] = "settle"
      BY <1>3, LabelFacts
    <2>2. "complete" \in CoreSteps[doing["core"]]
      BY <2>1, CoreFits DEF CoreSteps, StopSteps
    <2> QED
      BY <1>3, <2>1, <2>2, CoreWithin
  <1>4. CASE Is("core", "complete") /\ To("core", "notify") /\ UNCHANGED doing
    <2>1. pc["core"][1] = "complete"
      BY <1>4, LabelFacts
    <2>2. "notify" \in CoreSteps[doing["core"]]
      BY <2>1, CoreFits DEF CoreSteps, StopSteps
    <2> QED
      BY <1>4, <2>1, <2>2, CoreWithin
  <1>5. ASSUME Is("core", "notify")
        PROVE  pc["core"][1] = "notify" /\ ~Releases(doing["core"])
               /\ doing["core"] # "fault"
    <2>1. pc["core"][1] = "notify"
      BY <1>5, LabelFacts
    <2> QED
      BY <2>1, CoreFits DEF CoreSteps, StopSteps, Releases
  <1>6. CASE Is("core", "notify") /\ doing["core"] = "async_cb"
             /\ To("core", "put") /\ UNCHANGED doing
    BY <1>5, <1>6, CoreWithin DEF CoreSteps
  <1>7. CASE Is("core", "notify") /\ doing["core"] = "cancel_cb"
             /\ To("core", "down_cb") /\ Enters("core", "down_cb")
    <2>1. /\ Fits("core", "down_cb", "down_cb") /\ ~Holds("core", "down_cb", "down_cb")
          /\ ~Releases("down_cb") /\ ~Holds("core", pc["core"][1], doing["core"])
      BY <1>7, CoreFits DEF CoreSteps, Releases
    <2>2. asked' \in AskedSet /\ OwesStep("core", "down_cb")
      BY <1>7 DEF RefInv, GoneInv, OwesStep
    <2> QED
      BY <1>5, <1>7, <2>1, <2>2, CoreFits, LabelFacts, Ordinary
  <1>8. CASE Is("core", "notify") /\ doing["core"] \notin {"async_cb", "cancel_cb"}
             /\ Return("core")
    BY <1>5, <1>8, CoreFits, CoreOut
  <1> QED
    BY <1>1, <1>2, <1>3, <1>4, <1>6, <1>7, <1>8, <1>9 DEF CallbackEnds

-----------------------------------------------------------------------------
(* The monitor *)

(* A step that moves no thread *)
LEMMA Still ==
    ASSUME RefInv, UNCHANGED <<pc, doing, life, refs, leaked, deleted, core, asked>>
    PROVE  RefInv'
  <1>1. Holders' = Holders
    BY DEF Holders
  <1> QED
    BY <1>1 DEF RefInv, ShapeInv, CountInv, ReleaseInv, DelInv, GoneInv

(* The monitor goes on with what it holds. *)
LEMMA MonWithin ==
    ASSUME RefInv, NEW n, Go("mon", Step(n)), n \in MonSteps[doing["mon"]],
           n \notin {"del", "free"},
           n \in {"async_core", "core", "put"}
               <=> pc["mon"][1] \in {"async_core", "core", "put"},
           UNCHANGED <<life, refs, leaked, deleted, core, asked, doing>>
    PROVE  RefInv'
  <1>1. Fits("mon", n, doing["mon"])
    BY MonFits
  <1>2. Holds("mon", n, doing["mon"]) <=> Holds("mon", pc["mon"][1], doing["mon"])
    BY MonFits
  <1> QED
    BY <1>1, <1>2, MonFits, LabelFacts, Within

(* sl_ctrl_link_async_down leaves its reference behind. *)
LEMMA Leaked ==
    ASSUME RefInv, pc["mon"][1] = "async_core", Go("mon", Idle), leaked' = leaked + 1,
           UNCHANGED <<life, refs, deleted, core, asked, doing>>
    PROVE  RefInv'
  <1>1. Enters("mon", doing["mon"])
    BY MonFits, Stays DEF RefInv
  <1>2. doing["mon"] = "none"
    BY MonFits DEF MonSteps
  <1>3. Fits("mon", Idle[1], doing["mon"]) /\ ~Holds("mon", Idle[1], doing["mon"])
    BY <1>2, MonFits, LabelFacts DEF MonSteps
  <1>4. "mon" \in Holders /\ Holders' = Holders \ {"mon"}
    <2>1. Holds("mon", pc["mon"][1], doing["mon"])
      BY MonFits
    <2> QED
      BY <1>1, <1>3, <2>1, MonFits, HoldersStep DEF RefInv
  <1>5. CountInv'
    <2>1. IsFiniteSet(Holders') /\ Cardinality(Holders') = Cardinality(Holders) - 1
      BY <1>4, FS_RemoveElement DEF RefInv, CountInv
    <2> QED
      BY <2>1, CountFacts DEF RefInv, CountInv
  <1>6. asked' \in AskedSet /\ OwesStep("mon", doing["mon"])
    BY MonFits DEF RefInv, GoneInv, OwesStep
  <1>7. ShapeInv' /\ ReleaseInv'
    BY <1>1, <1>3, MonFits, ShapeStep, KeepRelease DEF RefInv
  <1>8. DelInv' /\ GoneInv'
    BY <1>1, <1>2, <1>6, MonFits, LabelFacts, KeepDel, KeepGone DEF RefInv
  <1> QED
    BY <1>5, <1>7, <1>8 DEF RefInv

LEMMA OfAsyncDown ==
    ASSUME RefInv, AsyncDown, UNCHANGED <<life, deleted>>
    PROVE  RefInv'
  <1>1. UNCHANGED <<core, asked>>
    BY DEF AsyncDown
  <1>2. CASE /\ Is("mon", "async")
             /\ IF refs > 0 THEN refs' = refs + 1 /\ To("mon", "async_core")
                            ELSE Go("mon", Idle) /\ UNCHANGED refs
             /\ UNCHANGED <<leaked, doing>>
    <2>1. pc["mon"][1] = "async"
      BY <1>2, LabelFacts
    <2>2. doing["mon"] = "none"
      BY <2>1, MonFits DEF MonSteps
    <2>3. CASE refs > 0
      <3>1. /\ Fits("mon", "async_core", doing["mon"])
            /\ Holds("mon", "async_core", doing["mon"])
            /\ ~Holds("mon", pc["mon"][1], doing["mon"])
        BY <2>1, <2>2, MonFits DEF MonSteps
      <3> QED
        BY <1>1, <1>2, <2>3, <3>1, MonFits, LabelFacts, Taken
    <2>4. CASE ~(refs > 0)
      <3>1. Go("mon", Step("idle"))
        BY <1>2, <2>4 DEF Step, Idle
      <3> QED
        BY <1>1, <1>2, <2>1, <2>2, <2>4, <3>1, MonWithin DEF MonSteps
    <2> QED
      BY <2>3, <2>4
  <1>3. CASE Is("mon", "async_core") /\ UNCHANGED refs
    <2>1. pc["mon"][1] = "async_core"
      BY <1>3, LabelFacts
    <2>2. doing["mon"] = "none"
      BY <2>1, MonFits DEF MonSteps
    <2>3. CASE To("mon", "core") /\ Enters("mon", "async_cb") /\ UNCHANGED leaked
      <3>1. /\ Fits("mon", "core", "async_cb") /\ Holds("mon", "core", "async_cb")
            /\ Holds("mon", pc["mon"][1], doing["mon"])
            /\ Releases("async_cb") <=> Releases(doing["mon"])
        BY <2>1, <2>2, MonFits DEF MonSteps, Releases
      <3>2. asked' \in AskedSet /\ OwesStep("mon", "async_cb")
        BY <1>1, MonFits DEF RefInv, GoneInv, OwesStep
      <3> QED
        BY <1>1, <1>3, <2>3, <3>1, <3>2, MonFits, LabelFacts, Ordinary
    <2>4. CASE leaked' = leaked + 1 /\ Go("mon", Idle) /\ UNCHANGED doing
      BY <1>1, <1>3, <2>1, <2>4, Leaked
    <2>5. CASE To("mon", "put") /\ UNCHANGED <<leaked, doing>>
      BY <1>1, <1>3, <2>1, <2>2, <2>5, LabelFacts, MonWithin DEF MonSteps
    <2> QED
      BY <1>3, <2>3, <2>4, <2>5 DEF AsyncDown, Is, At
  <1> QED
    BY <1>2, <1>3 DEF AsyncDown

LEMMA OfMonWork ==
    ASSUME RefInv, MonWork
    PROVE  RefInv'
  <1>1. CASE MonLook /\ UNCHANGED <<link, core, asked, doing, leaked>>
    <2>1. UNCHANGED <<life, refs, leaked, deleted, core, asked, doing>>
      BY <1>1 DEF link
    <2>2. PICK n \in {"idle", "sample", "again", "judge"} : Go("mon", Step(n))
      BY <1>1, LabelFacts DEF MonLook, To, Idle, Step
    <2>3. pc["mon"][1] \in {"idle", "sample", "again"}
      BY <1>1, LabelFacts DEF MonLook, Take
    <2>4. doing["mon"] = "none"
      BY <2>3, MonFits DEF MonSteps
    <2> QED
      BY <2>1, <2>2, <2>3, <2>4, MonWithin DEF MonSteps
  <1>2. CASE MonJudge /\ UNCHANGED <<link, core, asked, doing, ghosts>>
    <2>1. UNCHANGED <<life, refs, leaked, deleted, core, asked, doing>>
      BY <1>2 DEF link, ghosts
    <2>2. PICK n \in {"idle", "async", "again"} : Go("mon", Step(n))
      BY <1>2, LabelFacts DEF MonJudge, To
    <2>3. pc["mon"][1] = "judge"
      BY <1>2, LabelFacts DEF MonJudge
    <2>4. doing["mon"] = "none"
      BY <2>3, MonFits DEF MonSteps
    <2> QED
      BY <2>1, <2>2, <2>3, <2>4, MonWithin DEF MonSteps
  <1>3. CASE AsyncDown /\ UNCHANGED <<life, deleted>>
    BY <1>3, OfAsyncDown
  <1> QED
    BY <1>1, <1>2, <1>3 DEF MonWork

-----------------------------------------------------------------------------
(* The theorem *)

LEMMA OfInit ==
    ASSUME Init
    PROVE  RefInv
  <1>1. \A t \in Threads : pc[t] = Idle /\ doing[t] = "none"
    BY DEF Init
  <1>2. \A t \in Threads : /\ Fits(t, "idle", "none") /\ ~Holds(t, "idle", "none")
    BY ThreadFacts, OpsFacts
       DEF Fits, FitsClient, ClientSteps, CoreSteps, MonSteps, Refs, Holds
  <1>3. ShapeInv
    BY <1>1, <1>2, LabelFacts DEF Init, ShapeInv
  <1>4. Holders = {}
    BY <1>1, <1>2, LabelFacts, HoldersFacts
  <1>5. CountInv
    <2>1. IsFiniteSet(Holders) /\ Cardinality(Holders) = 0
      BY <1>4, FS_EmptySet
    <2>2. refs = 1 /\ leaked = 0 /\ deleted = FALSE
      BY DEF Init
    <2>3. refs = Cardinality(Holders) + leaked + (IF deleted THEN 0 ELSE 1)
      BY <2>1, <2>2
    <2>4. leaked \in Nat /\ deleted \in BOOLEAN
      BY <2>2
    <2> QED
      BY <2>1, <2>3, <2>4 DEF CountInv
  <1>6. ReleaseInv /\ DelInv
    BY <1>1, LabelFacts DEF Init, ReleaseInv, DelInv, Releases
  <1>7. GoneInv
    BY <1>1, LabelFacts DEF Init, GoneInv, AskedSet
  <1> QED
    BY <1>3, <1>5, <1>6, <1>7 DEF RefInv

LEMMA OfNext ==
    ASSUME RefInv, [Next]_vars
    PROVE  RefInv'
  <1>1. ASSUME NEW c \in Clients, ClientStep(c) PROVE RefInv'
    BY <1>1, OfCall, OfTakeRef, OfDel, OfLinkDown, OfReset, OfLinkUp, OfPolicyOrRead
       DEF ClientStep
  <1>2. ASSUME NEW t \in Threads, AnyThread(t) PROVE RefInv'
    BY <1>2, OfPut, OfMonStep, OfCoreDown, OfAwait, OfRelease, OfCoreDel, OfFreeObject
       DEF AnyThread
  <1>3. CASE CoreStep
    <2>1. CASE Fault /\ UNCHANGED <<life, refs, completed, deleted, asked, monitor,
                                    ghosts, K>>
      BY <2>1, OfFault DEF ghosts
    <2>2. CASE CallbackEnds /\ UNCHANGED <<life, refs, deleted, coreVars, monitor,
                                           raced, leaked, calls, K>>
      BY <2>2, OfCallbackEnds DEF coreVars
    <2> QED
      BY <1>3, <2>1, <2>2, OfCoreEnds, OfCallbackBegins DEF CoreStep
  <1>4. CASE MonTimer
    BY <1>4, Still DEF MonTimer, link, coreVars, ghosts
  <1>5. CASE MonWork
    BY <1>5, OfMonWork
  <1>6. CASE UNCHANGED vars
    BY <1>6, Still DEF vars, link, coreVars, ghosts
  <1> QED
    BY <1>1, <1>2, <1>3, <1>4, <1>5, <1>6 DEF Next

LEMMA RefsKept ==
    ASSUME RefInv
    PROVE  RefsKeepAlive
  <1>1. refs = 0 /\ life # "freed" =>
          \E t \in Threads : doing[t] \in {"release", "rel_cancel", "rel_down"}
    BY DEF RefInv, ReleaseInv, Releases
  <1>2. life = "freed" => Holders = {} /\ pc["core"] = Idle
    <2>1. Holders # {} => refs > 0
      BY CountFacts DEF RefInv
    <2> QED
      BY <2>1 DEF RefInv, ReleaseInv, GoneInv
  <1> QED
    BY <1>1, <1>2 DEF RefsKeepAlive, RefInv, CountInv

(* Every reference of a link object is put exactly once, whatever calls of   *)
(* sl_ctrl_link_put and kref_get_unless_zero meet; the thread that puts the  *)
(* last one releases the object, and sl_ctrl_link_release frees it when no   *)
(* thread holds a reference and no callback of the core runs.                *)
THEOREM RefsKeepAliveAlways == Spec => []RefsKeepAlive
  <1>1. Init => RefInv
    BY OfInit
  <1>2. RefInv /\ [Next]_vars => RefInv'
    BY OfNext
  <1>3. RefInv => RefsKeepAlive
    BY RefsKept
  <1> QED
    BY <1>1, <1>2, <1>3, PTL DEF Spec

-----------------------------------------------------------------------------
(* The monitor after its stop *)

Judging == {"judge", "async", "async_core", "core"}
Stopping(t) == pc[t] \in {Step("delete"), <<"wait", "mon">>}

(* A thread that is not stopping the monitor moves, and is not the monitor   *)
(* that begins to judge after its stop.                                      *)
LEMMA SilentMove ==
    ASSUME ShapeInv, StoppedSilent, NEW t \in Threads, NEW l, Go(t, l), ~Stopping(t),
           t = "mon" /\ l[1] \in Judging => ~stop \/ pc["mon"][1] \in Judging,
           UNCHANGED stop
    PROVE  StoppedSilent'
  <1>1. \A u \in Threads : pc'[u] = IF u = t THEN l ELSE pc[u]
    BY DEF ShapeInv, Go
  <1>2. SUFFICES ASSUME stop, \A u \in Threads : ~Stopping(u)', pc'["mon"][1] \in Judging
                 PROVE  FALSE
    BY DEF StoppedSilent, Stopping, Judging
  <1>3. \A u \in Threads : ~Stopping(u)
    BY <1>1, <1>2 DEF Stopping
  <1>4. pc["mon"][1] \in Judging
    BY <1>1, <1>2, ThreadFacts
  <1> QED
    BY <1>2, <1>3, <1>4 DEF StoppedSilent, Stopping, Judging

LEMMA NotStopping ==
    ASSUME NEW t, pc[t][1] \notin {"delete", "wait"}
    PROVE  ~Stopping(t)
  BY DEF Stopping, Step

LEMMA SilentStill ==
    ASSUME StoppedSilent, UNCHANGED <<pc, stop>>
    PROVE  StoppedSilent'
  BY DEF StoppedSilent

LEMMA SilentOfMonStep ==
    ASSUME RefInv, StoppedSilent, NEW t \in Threads, MonStep(t)
    PROVE  StoppedSilent'
  <1>1. ShapeInv /\ \A l : Go(t, l) => pc'[t] = l
    BY DEF RefInv, ShapeInv, Go
  <1>2. CASE MonStart(t)
    <2>1. CASE Is(t, "calc") /\ To(t, IF policy = 0 THEN "stop" ELSE "start")
      <3>1. PICK n \in {"stop", "start"} : Go(t, Step(n)) /\ Step(n)[1] = n
        BY <2>1, LabelFacts
      <3>2. UNCHANGED stop /\ ~Stopping(t)
        BY <1>2, <2>1, LabelFacts, NotStopping DEF MonStart, Is, At
      <3> QED
        BY <1>1, <3>1, <3>2, SilentMove DEF Judging
    <2>2. CASE stop' = FALSE
      BY <2>2 DEF StoppedSilent
    <2> QED
      BY <1>2, <2>1, <2>2 DEF MonStart
  <1>3. CASE MonStop(t)
    <2>1. CASE Go(t, <<"wait", "mon">>) \/ Go(t, Step("delete"))
      BY <1>1, <2>1 DEF StoppedSilent
    <2>2. CASE pc[t][1] = "wait" /\ pc["mon"] = Idle /\ Go(t, AfterStop(t))
      <3>1. t # "mon" /\ pc'["mon"] = Idle
        BY <1>1, <2>2, ThreadFacts, LabelFacts DEF ShapeInv, Go
      <3> QED
        BY <3>1, LabelFacts DEF StoppedSilent
    <2> QED
      BY <1>3, <2>1, <2>2, LabelFacts DEF MonStop, Cancel, Waited
  <1> QED
    BY <1>2, <1>3 DEF MonStep

(* Nobody else writes stop, and no other step leads the monitor to judge. *)
LEMMA SilentOfAny ==
    ASSUME RefInv, StoppedSilent, NEW t \in Threads, AnyThread(t)
    PROVE  StoppedSilent'
  <1>1. CASE MonStep(t)
    BY <1>1, SilentOfMonStep
  <1>2. CASE Put(t) \/ FreeObject(t)
    <2>1. pc[t][1] \in {"put", "free"} /\ UNCHANGED stop
      BY <1>2, LabelFacts DEF Put, FreeObject, monitor
    <2>2. PICK l : Go(t, l) /\ (t = "mon" => l[1] \in {"release", "idle"})
      BY <1>2, LabelFacts, MonFits DEF Put, FreeObject, Return
    <2> QED
      BY <2>1, <2>2, NotStopping, SilentMove DEF RefInv, Judging
  <1>3. CASE CoreDown(t) \/ Await(t) \/ CoreDel(t)
    <2>1. pc[t][1] \in {"core", "await", "unlink"} /\ UNCHANGED stop
      BY <1>3, LabelFacts DEF CoreDown, Await, CoreDel, monitor
    <2>2. PICK l : Go(t, l) /\ l[1] \in {"put", "await", "reset", "unlink", "free"}
      BY <1>3, LabelFacts DEF CoreDown, Await, CoreDel
    <2> QED
      BY <2>1, <2>2, NotStopping, SilentMove DEF RefInv, Judging
  <1>4. CASE Release(t)
    <2>1. pc[t][1] = "release" /\ UNCHANGED stop
      BY <1>4, LabelFacts DEF Release, monitor
    <2>2. PICK l : Go(t, l) /\ l[1] \in {"stop", "unlink", "await"}
      BY <1>4, LabelFacts DEF Release, Stopped
    <2> QED
      BY <2>1, <2>2, NotStopping, SilentMove DEF RefInv, Judging
  <1> QED
    BY <1>1, <1>2, <1>3, <1>4 DEF AnyThread

LEMMA SilentOfClient ==
    ASSUME RefInv, StoppedSilent, NEW c \in Clients, ClientStep(c)
    PROVE  StoppedSilent'
  <1>1. c \in Threads /\ c # "mon" /\ ShapeInv
    BY ClientFits DEF RefInv
  <1>2. UNCHANGED stop
    BY DEF ClientStep, Call, TakeRef, Del, LinkDown, Reset, PolicyOrRead, monitor
  <1>3. \/ /\ \E l : Go(c, l)
           /\ pc[c][1] \notin {"delete", "wait"}
        \/ UNCHANGED pc
    <2>1. CASE Call(c) \/ TakeRef(c) \/ Del(c) \/ Reset(c)
      BY <2>1, LabelFacts DEF Call, TakeRef, Del, Reset
    <2>2. CASE LinkDown(c) \/ PolicyOrRead(c)
      BY <2>2, LabelFacts DEF LinkDown, Stopped, PolicyOrRead, StateGet
    <2>3. CASE LinkUp(c)
      BY <2>3, LabelFacts DEF LinkUp
    <2> QED
      BY <2>1, <2>2, <2>3 DEF ClientStep
  <1> QED
    BY <1>1, <1>2, <1>3, NotStopping, SilentMove, SilentStill

LEMMA SilentOfCore ==
    ASSUME RefInv, StoppedSilent, CoreStep
    PROVE  StoppedSilent'
  <1>1. UNCHANGED stop
    BY DEF CoreStep, CoreEnds, CallbackBegins, monitor
  <1>2. /\ \E l : Go("core", l)
        /\ pc["core"][1] \notin {"delete", "wait"}
    <2>1. CASE CoreEnds \/ Fault
      BY <2>1, LabelFacts DEF CoreEnds, Fault, Return
    <2>2. CASE CallbackBegins \/ CallbackEnds
      BY <2>2, LabelFacts DEF CallbackBegins, CallbackEnds, Return
    <2> QED
      BY <2>1, <2>2 DEF CoreStep
  <1> QED
    BY <1>1, <1>2, CoreFits, MonFits, NotStopping, SilentMove DEF RefInv

(* The work looks at stop once, before it judges. *)
LEMMA SilentOfMon ==
    ASSUME RefInv, StoppedSilent, MonWork, UNCHANGED stop
    PROVE  StoppedSilent'
  <1>1. pc["mon"][1] \notin {"delete", "wait"}
    BY LabelFacts DEF MonWork, MonLook, Take, MonJudge, AsyncDown
  <1>2. PICK l : /\ Go("mon", l)
                 /\ \/ l[1] \notin Judging
                    \/ ~stop
                    \/ pc["mon"][1] \in Judging
    <2>1. CASE MonLook
      BY <2>1, LabelFacts DEF MonLook, To, Judging
    <2>2. CASE MonJudge \/ AsyncDown
      BY <2>2, LabelFacts DEF MonJudge, AsyncDown, Judging
    <2> QED
      BY <2>1, <2>2 DEF MonWork
  <1> QED
    BY <1>1, <1>2, MonFits, NotStopping, SilentMove DEF RefInv

LEMMA SilentOfNext ==
    ASSUME RefInv, StoppedSilent, [Next]_vars
    PROVE  StoppedSilent'
  <1>1. CASE \E c \in Clients : ClientStep(c)
    BY <1>1, SilentOfClient
  <1>2. CASE \E t \in Threads : AnyThread(t)
    BY <1>2, SilentOfAny
  <1>3. CASE MonTimer
    BY <1>3, SilentStill DEF MonTimer, monitor
  <1>4. CASE UNCHANGED vars
    BY <1>4, SilentStill DEF vars, monitor
  <1> QED
    BY <1>1, <1>2, <1>3, <1>4, SilentOfCore, SilentOfMon DEF Next

(* A monitor that was stopped takes no link down: when the thread that       *)
(* stopped it has gone on past cancel_work_sync, sl_ctrl_link_fec_mon_timer_ *)
(* work is not judging a sample nor on its way into sl_ctrl_link_async_down, *)
(* whoever else starts, stops or releases at the same time.                  *)
THEOREM StoppedSilentAlways == Spec => []StoppedSilent
  <1>1. Init => StoppedSilent
    BY DEF Init, StoppedSilent
  <1>2. Init => RefInv
    BY OfInit
  <1>3. RefInv /\ StoppedSilent /\ [Next]_vars => RefInv' /\ StoppedSilent'
    BY OfNext, SilentOfNext
  <1> QED
    BY <1>1, <1>2, <1>3, PTL DEF Spec
-----------------------------------------------------------------------------
(* The ranges of the variables *)

DoingSet == Calls \cup Callbacks \cup {"none", "cancel", "fault", "release",
                                       "rel_cancel", "rel_down"}

MovesInv == doing \in [Threads -> DoingSet] /\ pc \in [Threads -> Labels]

RangesInv ==
    /\ ctrl \in States
    /\ core \in {"down", "rising", "up", "leaving", "gone"}
    /\ held \in [{"ctrl", "core"} -> Threads \cup {"none"}]
    /\ queued \subseteq {"mon"} /\ armed \subseteq {"mon"} /\ intrOn = {}
    /\ stop \in BOOLEAN /\ completed \in BOOLEAN /\ raced \in BOOLEAN
    /\ period \in Periods /\ policy \in Periods
    /\ chance \in 0..Chances
    /\ told \in {"down", "up", "busy"}
    /\ calls \in 0..MaxCalls

TypeInv == MovesInv /\ RangesInv

LEMMA LabelSet ==
    /\ \A n \in Steps : Step(n) \in Labels
    /\ Idle \in Labels /\ <<"wait", "mon">> \in Labels
    /\ <<"reset", "done">> \in Labels /\ <<"reset", "late">> \in Labels
  BY DEF Labels, Step, Idle, Steps

LEMMA MovesStep ==
    ASSUME MovesInv, NEW t \in Threads,
           UNCHANGED pc \/ \E l \in Labels : Go(t, l),
           UNCHANGED doing \/ \E d \in DoingSet : Enters(t, d)
    PROVE  MovesInv'
  BY DEF MovesInv, Go, Enters

(* Where a thread returns to *)
LEMMA ReturnRange ==
    ASSUME NEW t \in Threads, Return(t)
    PROVE  /\ \E l \in Labels : Go(t, l)
           /\ \E d \in DoingSet : Enters(t, d)
  BY LabelSet DEF Return, DoingSet

LEMMA MovesOfMonStep ==
    ASSUME MovesInv, NEW t \in Threads, MonStep(t)
    PROVE  MovesInv'
  <1>1. UNCHANGED doing
    BY DEF MonStep
  <1>2. AfterStop(t) \in Labels
    <2>1. PICK n \in {"put", "publish", "unlock", "flush", "core"} : AfterStop(t) = Step(n)
      BY DEF AfterStop
    <2> QED
      BY <2>1, LabelSet DEF Steps
  <1>3. CASE MonStart(t)
    <2>1. PICK n \in {"stop", "start", "publish", "put"} : To(t, n)
      BY <1>3 DEF MonStart
    <2>2. Step(n) \in Labels
      BY LabelSet DEF Steps
    <2> QED
      BY <1>1, <2>1, <2>2, MovesStep DEF To
  <1>4. CASE MonStop(t)
    <2>1. \/ Go(t, <<"wait", "mon">>) \/ Go(t, AfterStop(t))
          \/ Go(t, Step("delete"))
      BY <1>4 DEF MonStop, Cancel, To
    <2>2. Step("delete") \in Labels
      BY LabelSet DEF Steps
    <2> QED
      BY <1>1, <1>2, <2>1, <2>2, LabelSet, MovesStep
  <1> QED
    BY <1>3, <1>4 DEF MonStep

LEMMA MovesOfAny ==
    ASSUME MovesInv, NEW t \in Threads, AnyThread(t)
    PROVE  MovesInv'
  <1>1. CASE Put(t) \/ FreeObject(t)
    <2>1. CASE Return(t)
      BY <2>1, ReturnRange, MovesStep
    <2>2. CASE To(t, "release") /\ Enters(t, "release")
      <3>1. Step("release") \in Labels /\ "release" \in DoingSet
        BY LabelSet DEF Steps, DoingSet
      <3> QED
        BY <2>2, <3>1, MovesStep DEF To
    <2> QED
      BY <1>1, <2>1, <2>2 DEF Put, FreeObject
  <1>2. CASE CoreDown(t) \/ Await(t) \/ CoreDel(t)
    <2>1. \/ \E n \in {"put", "await", "unlink", "free"} : Go(t, Step(n))
          \/ Go(t, <<"reset", "done">>) \/ Go(t, <<"reset", "late">>)
      BY <1>2 DEF CoreDown, Await, CoreDel, To
    <2>2. \A n \in {"put", "await", "unlink", "free"} : Step(n) \in Labels
      BY LabelSet DEF Steps
    <2>3. UNCHANGED doing
      BY <1>2 DEF CoreDown, Await, CoreDel
    <2> QED
      BY <2>1, <2>2, <2>3, LabelSet, MovesStep
  <1>3. CASE Release(t)
    <2>1. \E n \in {"stop", "unlink", "await"} : Go(t, Step(n))
      BY <1>3 DEF Release, Stopped, To
    <2>2. \A n \in {"stop", "unlink", "await"} : Step(n) \in Labels
      BY LabelSet DEF Steps
    <2>3. doing[t] \in DoingSet
      BY DEF MovesInv
    <2>4. UNCHANGED doing \/ \E d \in DoingSet : Enters(t, d)
      BY <1>3, <2>3 DEF Release, Stopped, DoingSet
    <2> QED
      BY <2>1, <2>2, <2>4, MovesStep
  <1> QED
    BY <1>1, <1>2, <1>3, MovesOfMonStep DEF AnyThread

LEMMA MovesOfClient ==
    ASSUME MovesInv, NEW c \in Clients, ClientStep(c)
    PROVE  MovesInv'
  <1>1. c \in Threads /\ doing[c] \in DoingSet
    BY ThreadFacts DEF MovesInv
  <1> DEFINE Ends == {"del", "ref", "body", "idle", "release", "del_wait", "stop",
                      "put", "init", "core", "refused", "look", "look_core", "calc"}
  <1>2. \A n \in Ends : Step(n) \in Labels
    BY LabelSet DEF Steps
  <1>3. \/ \E n \in Ends : Go(c, Step(n))
        \/ UNCHANGED pc
    <2>1. CASE Call(c) \/ TakeRef(c) \/ Del(c) \/ Reset(c)
      BY <2>1 DEF Call, TakeRef, Del, Reset, To, Idle, Step
    <2>2. CASE LinkDown(c) \/ PolicyOrRead(c)
      BY <2>2 DEF LinkDown, Stopped, PolicyOrRead, StateGet, To
    <2>3. CASE LinkUp(c)
      BY <2>3 DEF LinkUp, To
    <2> QED
      BY <2>1, <2>2, <2>3 DEF ClientStep
  <1> HIDE DEF Ends
  <1>4. UNCHANGED doing \/ \E d \in DoingSet : Enters(c, d)
    <2>1. CASE Call(c) \/ TakeRef(c) \/ Del(c) \/ Reset(c)
      BY <2>1 DEF Call, TakeRef, Del, Reset, DoingSet
    <2>2. CASE LinkDown(c) \/ PolicyOrRead(c)
      BY <1>1, <2>2 DEF LinkDown, Stopped, PolicyOrRead, DoingSet
    <2>3. CASE LinkUp(c)
      BY <2>3 DEF LinkUp
    <2> QED
      BY <2>1, <2>2, <2>3 DEF ClientStep
  <1> QED
    BY <1>1, <1>2, <1>3, <1>4, MovesStep

LEMMA MovesOfCore ==
    ASSUME RefInv, MovesInv, CoreStep
    PROVE  MovesInv'
  <1>1. "core" \in Threads
    BY ThreadFacts
  <1>2. CASE Return("core")
    BY <1>1, <1>2, ReturnRange, MovesStep
  <1> DEFINE Turns == {"up_cb", "fail_cb", "cancel_cb", "down_cb", "async_cb", "fault",
                       "fault_cb"}
             Ends == {"up_cb", "fail_cb", "down_cb", "async_cb", "fault_ctrl", "stop",
                      "off", "calc", "stopping", "notify", "flush", "settle", "complete",
                      "put"}
  <1>3. /\ \A n \in Ends : Step(n) \in Labels
        /\ \A d \in Turns : d \in DoingSet
    BY LabelSet DEF Steps, Callbacks, DoingSet
  <1>4. CASE /\ \E n \in Ends : Go("core", Step(n))
             /\ UNCHANGED doing \/ \E d \in Turns : Enters("core", d)
    BY <1>1, <1>3, <1>4, MovesStep
  <1>5. \/ Return("core")
        \/ /\ \E n \in Ends : Go("core", Step(n))
           /\ UNCHANGED doing \/ \E d \in Turns : Enters("core", d)
    <2>1. CASE CoreEnds
      <3>1. CASE /\ core = "leaving"
                 /\ To("core", IF asked = "cancel_cb" THEN "fail_cb" ELSE asked)
                 /\ Enters("core", asked)
        <4>1. asked \in {"down_cb", "async_cb", "cancel_cb"}
          <5>1. pc["core"][1] = "idle"
            BY <2>1, LabelFacts DEF CoreEnds
          <5>2. doing["core"] # "fault"
            BY <5>1, CoreFits DEF CoreSteps, StopSteps
          <5> QED
            BY <3>1, <5>2 DEF RefInv, GoneInv, AskedSet
        <4> QED
          BY <3>1, <4>1 DEF To
      <3> QED
        BY <2>1, <3>1 DEF CoreEnds, To
    <2>2. CASE Fault
      BY <2>2 DEF Fault, To
    <2>3. CASE CallbackBegins
      BY <2>3 DEF CallbackBegins, To
    <2>4. CASE CallbackEnds
      BY <2>4 DEF CallbackEnds, To
    <2> QED
      BY <2>1, <2>2, <2>3, <2>4 DEF CoreStep
  <1> QED
    BY <1>2, <1>4, <1>5

LEMMA MovesOfMon ==
    ASSUME MovesInv, MonWork
    PROVE  MovesInv'
  <1> DEFINE Ends == {"sample", "again", "judge", "idle", "async", "async_core",
                      "core", "put"}
  <1>1. \A n \in Ends : Step(n) \in Labels
    BY LabelSet DEF Steps
  <1>2. \E n \in Ends : Go("mon", Step(n))
    <2>1. CASE MonLook
      BY <2>1 DEF MonLook, To, Step, Idle
    <2>2. CASE MonJudge
      BY <2>2 DEF MonJudge, To
    <2>3. CASE AsyncDown
      BY <2>3 DEF AsyncDown, To, Step, Idle
    <2> QED
      BY <2>1, <2>2, <2>3 DEF MonWork
  <1>3. UNCHANGED doing \/ Enters("mon", "async_cb")
    BY DEF MonWork, AsyncDown
  <1>4. "async_cb" \in DoingSet /\ "mon" \in Threads
    BY ThreadFacts DEF DoingSet, Callbacks
  <1> QED
    BY <1>1, <1>2, <1>3, <1>4, MovesStep

LEMMA MovesOfNext ==
    ASSUME RefInv, MovesInv, [Next]_vars
    PROVE  MovesInv'
  <1>1. CASE UNCHANGED <<pc, doing>>
    BY <1>1 DEF MovesInv
  <1> QED
    BY <1>1, MovesOfClient, MovesOfAny, MovesOfCore, MovesOfMon
       DEF Next, MonTimer, vars

LEMMA RangesOfAny ==
    ASSUME RangesInv, NEW t \in Threads, AnyThread(t)
    PROVE  RangesInv'
  <1>1. CASE MonStep(t)
    BY <1>1 DEF MonStep, MonStart, MonStop, Cancel, RangesInv, link, coreVars
  <1>2. CASE Put(t) \/ Await(t) \/ FreeObject(t) \/ CoreDel(t)
    BY <1>2 DEF Put, Await, FreeObject, CoreDel, RangesInv, link, coreVars, monitor,
                ghosts, K
  <1>3. CASE CoreDown(t)
    BY <1>3 DEF CoreDown, RangesInv, link, monitor, ghosts, K
  <1>4. CASE Release(t)
    BY <1>4 DEF Release, Stopped, RangesInv, States, coreVars, monitor, K
  <1> QED
    BY <1>1, <1>2, <1>3, <1>4 DEF AnyThread

LEMMA RangesOfClient ==
    ASSUME RangesInv, NEW c \in Clients, ClientStep(c)
    PROVE  RangesInv'
  <1>1. c \in Threads
    BY ThreadFacts
  <1>2. CASE Call(c)
    <2>1. PICK op \in Calls :
             /\ raced' = (raced \/ deleted \/ (op = "up" /\ told # "down")
                            \/ (op \in {"down", "reset"} /\ told # "up")
                            \/ (op = "del" /\ told = "busy")
                            \/ \E t \in Clients : Rivals(op, doing[t]))
             /\ told' = IF op \in {"up", "down", "reset"} THEN "busy" ELSE told
      BY <1>2 DEF Call
    <2>2. raced' \in BOOLEAN
      BY <2>1, Zenon
    <2>3. told' \in {"down", "up", "busy"}
      BY <2>1 DEF RangesInv
    <2>4. calls' \in 0..MaxCalls
      BY <1>2, ObjectAssumption DEF Call, RangesInv
    <2> QED
      BY <1>2, <2>2, <2>3, <2>4 DEF Call, RangesInv, link, coreVars, monitor, K
  <1>3. CASE TakeRef(c) \/ Del(c) \/ Reset(c)
    BY <1>3 DEF TakeRef, Del, Reset, RangesInv, link, coreVars, monitor, ghosts, K
  <1>4. CASE LinkDown(c)
    BY <1>4 DEF LinkDown, Stopped, RangesInv, States, coreVars, monitor, ghosts, K
  <1>5. CASE LinkUp(c) /\ UNCHANGED monitor
    <2>1. ctrl' \in {ctrl, "STARTING", "DOWN", "STOPPING"}
      BY <1>5 DEF LinkUp
    <2>2. completed' \in {completed, FALSE}
      BY <1>5 DEF LinkUp
    <2>3. core' \in {core, "rising"} /\ told' \in {told, "down"}
      BY <1>5 DEF LinkUp
    <2>4. UNCHANGED <<held, monitor, raced, calls, K>>
      BY <1>5 DEF LinkUp
    <2>5. completed' \in BOOLEAN
      BY <2>2 DEF RangesInv
    <2> QED
      BY <2>1, <2>3, <2>4, <2>5 DEF RangesInv, States, monitor, K
  <1>6. CASE PolicyOrRead(c)
    <2>1. policy' \in Periods
      BY <1>6 DEF PolicyOrRead, RangesInv, monitor
    <2>2. held' \in [{"ctrl", "core"} -> Threads \cup {"none"}]
      BY <1>1, <1>6 DEF PolicyOrRead, StateGet, RangesInv, coreVars
    <2>3. UNCHANGED <<link, core, ghosts, K, stop, period, chance>>
      BY <1>6 DEF PolicyOrRead, coreVars, monitor
    <2> QED
      BY <2>1, <2>2, <2>3 DEF RangesInv, link, ghosts, K
  <1> QED
    BY <1>2, <1>3, <1>4, <1>5, <1>6 DEF ClientStep

LEMMA RangesOfCore ==
    ASSUME RangesInv, CoreStep
    PROVE  RangesInv'
  <1>1. "core" \in Threads
    BY ThreadFacts
  <1>2. CASE CoreEnds
    BY <1>1, <1>2 DEF CoreEnds, Return, RangesInv, link, monitor, ghosts, K
  <1>3. CASE Fault /\ UNCHANGED <<completed, monitor, ghosts, K>>
    BY <1>1, <1>3 DEF Fault, RangesInv, States, monitor, ghosts, K
  <1>4. CASE CallbackBegins
    BY <1>4 DEF CallbackBegins, RangesInv, coreVars, monitor, ghosts, K
  <1>5. CASE CallbackEnds /\ UNCHANGED <<coreVars, monitor, raced, calls, K>>
    BY <1>5 DEF CallbackEnds, RangesInv, States, coreVars, monitor, K
  <1> QED
    BY <1>2, <1>3, <1>4, <1>5 DEF CoreStep

LEMMA RangesOfMon ==
    ASSUME RangesInv, MonWork, UNCHANGED <<held, stop, period, policy, intrOn>>
    PROVE  RangesInv'
  <1>1. CASE MonLook /\ UNCHANGED <<link, core, chance, told, calls>>
    BY <1>1 DEF MonLook, Take, RangesInv, link
  <1>2. CASE MonJudge /\ UNCHANGED <<link, core, ghosts, queued, armed>>
    <2>1. chance' \in 0..Chances
      BY <1>2, ObjectAssumption DEF MonJudge, RangesInv
    <2> QED
      BY <1>2, <2>1 DEF RangesInv, link, ghosts
  <1>3. CASE AsyncDown /\ UNCHANGED <<completed, chance, told, calls, queued, armed>>
    BY <1>3 DEF AsyncDown, RangesInv, States
  <1> QED
    BY <1>1, <1>2, <1>3 DEF MonWork

LEMMA RangesOfNext ==
    ASSUME RangesInv, [Next]_vars
    PROVE  RangesInv'
  <1>1. CASE MonTimer
    BY <1>1 DEF MonTimer, QueueWork, RangesInv, link, coreVars, monitor, ghosts
  <1>2. CASE UNCHANGED vars
    BY <1>2 DEF vars, RangesInv, link, coreVars, monitor, ghosts
  <1> QED
    BY <1>1, <1>2, RangesOfClient, RangesOfAny, RangesOfCore, RangesOfMon DEF Next

LEMMA TypeOfInit ==
    ASSUME Init
    PROVE  TypeInv
  <1>1. MovesInv
    BY LabelSet DEF Init, MovesInv, DoingSet
  <1>2. stop \in BOOLEAN /\ completed \in BOOLEAN /\ raced \in BOOLEAN
    BY DEF Init
  <1>3. held \in [{"ctrl", "core"} -> Threads \cup {"none"}]
    BY DEF Init
  <1>4. 0 \in 0..Chances /\ 0 \in 0..MaxCalls
    BY ObjectAssumption
  <1>5. RangesInv
    BY <1>2, <1>3, <1>4 DEF Init, RangesInv, States
  <1> QED
    BY <1>1, <1>5 DEF TypeInv

LEMMA TypeOfNext ==
    ASSUME RefInv, TypeInv, [Next]_vars
    PROVE  TypeInv'
  BY MovesOfNext, RangesOfNext DEF TypeInv

(* For any clients, calls, policies and limits: what sl_ctrl_link_new sets   *)
(* up stays in its ranges; the core owes one of three kinds of callbacks,     *)
(* bad samples are never forgiven more often than                            *)
(* SL_CTRL_LINK_UCW_LIMIT_MAX_CHANCES, and no more references are leaked     *)
(* than there are.                                                           *)
THEOREM ObjectTypeAlways == Spec => []TypeOK
  <1>1. Init => TypeInv
    BY TypeOfInit
  <1>2. Init => RefInv
    BY OfInit
  <1>3. RefInv /\ TypeInv /\ [Next]_vars => RefInv' /\ TypeInv'
    BY OfNext, TypeOfNext
  <1>4. RefInv /\ TypeInv => TypeOK
    <2> SUFFICES ASSUME RefInv, TypeInv PROVE TypeOK
      OBVIOUS
    <2>1. refs \in Nat /\ leaked \in 0..refs
      <3>1. Cardinality(Holders) \in Nat /\ refs \in Nat /\ leaked \in Nat
        BY CountFacts DEF RefInv
      <3>2. leaked <= refs
        BY <3>1 DEF RefInv, CountInv
      <3> QED
        BY <3>1, <3>2
    <2>2. life \in {"live", "freed"} /\ deleted \in BOOLEAN
      BY DEF RefInv, ReleaseInv, CountInv
    <2>3. asked \in {"none", "down_cb", "async_cb", "cancel_cb"}
      BY DEF RefInv, GoneInv, AskedSet
    <2>4. /\ doing \in [Threads -> Calls \cup Callbacks
                              \cup {"none", "cancel", "fault", "release",
                                    "rel_cancel", "rel_down"}]
          /\ pc \in [Threads -> Labels]
      BY DEF TypeInv, MovesInv, DoingSet
    <2> QED
      BY <2>1, <2>2, <2>3, <2>4 DEF TypeOK, TypeInv, RangesInv
  <1> QED
    BY <1>1, <1>2, <1>3, <1>4, PTL DEF Spec

-----------------------------------------------------------------------------
(* The moves of the threads *)

(* Thread t goes to the step n of the call d. *)
Moves(t, n, d) ==
    /\ pc'[t][1] = n /\ doing'[t] = d
    /\ \A u \in Threads : u # t => pc'[u] = pc[u] /\ doing'[u] = doing[u]

LEMMA MovesTo ==
    ASSUME RefInv, NEW t \in Threads, NEW l, NEW d, Go(t, l), Enters(t, d)
    PROVE  Moves(t, l[1], d)
  BY Moved DEF RefInv, Moves

LEMMA MovesOn ==
    ASSUME RefInv, NEW t \in Threads, NEW l, Go(t, l), UNCHANGED doing
    PROVE  Moves(t, l[1], doing[t])
  BY MovesTo, Stays DEF RefInv

(* A step named in the program *)
LEMMA Names ==
    ASSUME RefInv, NEW t \in Threads, NEW n
    PROVE  /\ \A d : To(t, n) /\ Enters(t, d) => Moves(t, n, d)
           /\ To(t, n) /\ UNCHANGED doing => Moves(t, n, doing[t])
           /\ Return(t) => Moves(t, "idle", "none")
  BY MovesTo, MovesOn, LabelFacts DEF To, Return

(* What the driver has of the link, beside its monitor *)
linkVars == <<core, ctrl, asked, completed, told, deleted, life>>

(* Where the other calls are while a thread stands at a step *)
LEMMA StepFacts ==
    ASSUME RefInv, NEW t \in Threads
    PROVE  /\ pc[t][1] = "ref" => t \in Clients /\ doing[t] \in Refs
           /\ pc[t][1] = "del" => t \in Clients /\ doing[t] = "del"
           /\ pc[t][1] = "idle" => doing[t] = "none"
           /\ pc[t][1] \in {"release", "unlink", "free"} => Releases(doing[t])
           /\ pc[t][1] = "release" => doing[t] = "release"
           /\ pc[t][1] = "core" /\ doing[t] # "up" =>
                 \/ doing[t] \in {"down", "reset", "cancel", "rel_cancel", "rel_down"}
                 \/ t = "mon" /\ doing[t] = "async_cb"
           /\ pc[t][1] = "calc" => doing[t] \in {"policy", "up_cb"}
           /\ pc[t][1] = "start" => doing[t] \in {"policy", "up_cb"}
           /\ pc[t][1] \in {"stop", "delete", "wait"} =>
                 doing[t] \in {"down", "reset", "cancel", "policy", "rel_cancel",
                               "rel_down", "up_cb", "down_cb", "async_cb", "fault_cb",
                               "fault"}
           /\ doing[t] = "up" => t \in Clients
           /\ doing[t] = "policy" => t \in Clients
           /\ doing[t] \in {"down", "reset", "cancel"} => t \in Clients
           /\ doing[t] \in {"up_cb", "down_cb", "fault_cb", "fault"} => t = "core"
           /\ doing[t] = "async_cb" => t \in {"core", "mon"}
           /\ doing[t] \in {"none", "cancel", "up", "up_cb", "fail_cb", "cancel_cb",
                            "down_cb", "async_cb", "fault_cb", "fault", "policy", "read",
                            "del", "down", "reset"} => ~Releases(doing[t])
  <1>1. CASE t \in Clients
    <2>1. FitsClient(pc[t][1], doing[t]) /\ t # "core" /\ t # "mon"
      BY <1>1, ClientFits
    <2> QED
      BY <1>1, <2>1 DEF FitsClient, ClientSteps, StopSteps, Refs, Releases
  <1>2. CASE t = "core"
    <2>1. /\ doing[t] \in DOMAIN CoreSteps /\ pc[t][1] \in CoreSteps[doing[t]]
          /\ t \notin Clients
      BY <1>2, CoreFits, ThreadFacts
    <2> QED
      BY <1>2, <2>1 DEF CoreSteps, StopSteps, Refs, Releases
  <1>3. CASE t = "mon"
    <2>1. /\ doing[t] \in DOMAIN MonSteps /\ pc[t][1] \in MonSteps[doing[t]]
          /\ t \notin Clients
      BY <1>3, MonFits, ThreadFacts
    <2> QED
      BY <1>3, <2>1 DEF MonSteps, Refs, Releases
  <1> QED
    BY <1>1, <1>2, <1>3, ThreadFacts

-----------------------------------------------------------------------------
(* The link of clients that wait for the end of each call *)

(* Between two callbacks, or about to put the reference of the last one *)
CoreQuiet ==
    \/ doing["core"] = "none" \/ Releases(doing["core"])
    \/ doing["core"] = "async_cb" /\ pc["core"][1] = "put"

Published == doing["core"] = "up_cb" /\ pc["core"][1] = "notify"
CoreFree == doing["core"] = "none" \/ Published

(* What the two states and the callbacks of the core may be together *)
Resting == core \in {"down", "gone"} /\ CoreQuiet
              /\ ctrl \in {"DOWN", "STARTING", "STOPPING"}
Rising == core = "rising" /\ CoreQuiet /\ ctrl = "STARTING"
Risen == core = "up" /\ doing["core"] = "up_cb" /\ ~Published /\ ctrl = "STARTING"
Standing == core = "up" /\ CoreFree /\ ctrl \in {"UP", "UP_DOWN_REQ", "STOPPING"}
Leaving == core = "leaving" /\ CoreFree /\ ctrl = "STOPPING"
Faulting ==
    /\ core = "leaving" /\ doing["core"] = "fault"
    /\ \/ ctrl = "STOPPING"
       \/ pc["core"][1] = "fault_ctrl" /\ ctrl \in {"UP", "UP_DOWN_REQ"}
Failing ==
    /\ core = "down" /\ doing["core"] = "fail_cb"
    /\ pc["core"][1] \in {"fail_cb", "stopping"} => ctrl = "STARTING"
    /\ pc["core"][1] \in {"flush", "settle"} => ctrl = "STOPPING"
    /\ pc["core"][1] \in {"complete", "notify"} => ctrl = "DOWN"
Fallen ==
    /\ core = "down" /\ doing["core"] \in {"down_cb", "async_cb", "fault_cb"}
    /\ pc["core"][1] # "put"
    /\ ctrl = IF pc["core"][1] \in {"complete", "notify"} THEN "DOWN" ELSE "STOPPING"

PhaseInv ==
    /\ \/ Resting \/ Rising \/ Risen \/ Standing
       \/ Leaving \/ Faulting \/ Failing \/ Fallen
    /\ asked \in IF Leaving THEN {"down_cb", "async_cb"} ELSE {"none"}

(* A client on its way to bring the link up *)
Lifting(n, d) == d = "up" /\ n \notin {"idle", "put"}

(* A thread that took a link that was up, and has not told the core yet *)
Taking(t, n, d) ==
    \/ d \in {"down", "reset", "rel_down"} /\ n \in StopSteps
    \/ t = "mon" /\ n = "core"
Takes(t) == Taking(t, pc[t][1], doing[t])

(* Only a link that rests is brought up, by one client. *)
LiftInv ==
    /\ told = "down" => Resting /\ ctrl = "DOWN"
    /\ \A c \in Clients : Lifting(pc[c][1], doing[c]) =>
          /\ Resting /\ told = "busy" /\ ~deleted /\ pc[c][1] # "refused"
          /\ ctrl = IF pc[c][1] \in {"ref", "body"} THEN "DOWN" ELSE "STARTING"
          /\ pc[c][1] = "core" => ~completed
    /\ ctrl = "STARTING" =>
          /\ told = "busy" /\ ~deleted
          /\ \A c \in Clients : doing[c] \notin {"down", "reset", "cancel", "del"}

(* Only a link that is up is taken, by one thread; a thread that releases    *)
(* the object has found it down, or taken it.                                *)
TakeInv ==
    /\ \A t \in Threads : doing[t] \notin {"cancel", "rel_cancel"}
    /\ \A t \in Threads : Takes(t) => ctrl \in {"STOPPING", "DOWN"}
    /\ \A t, u \in Threads : Takes(t) /\ Takes(u) => t = u
    /\ pc["mon"][1] = "core" =>
          core = "up" \/ (Faulting /\ pc["core"][1] \notin {"unlock", "off"})
    /\ \A t \in Threads : Releases(doing[t]) /\ pc[t][1] # "release"
          => ctrl \in {"DOWN", "STOPPING"}
    /\ life = "freed" => ctrl \in {"DOWN", "STOPPING"}

RivalInv == \A c, d \in Clients : Rivals(doing[c], doing[d]) => c = d

DownInv ==
    /\ completed => core \in {"down", "gone"}
    /\ \A t \in Threads : pc[t] = <<"reset", "done">> => core = "down"

WaitInv == PhaseInv /\ LiftInv /\ TakeInv /\ RivalInv /\ DownInv

(* A step of a thread that is not the core: the phases keep their meaning *)
LEMMA PhaseSame ==
    ASSUME NEW t \in Threads, t # "core", NEW n, NEW d, Moves(t, n, d),
           UNCHANGED <<core, ctrl>>
    PROVE  /\ Resting' <=> Resting
           /\ Leaving' <=> Leaving
           /\ Faulting' <=> Faulting
           /\ pc'["core"] = pc["core"] /\ doing'["core"] = doing["core"]
           /\ PhaseInv /\ UNCHANGED asked => PhaseInv'
  <1>1. pc'["core"] = pc["core"] /\ doing'["core"] = doing["core"]
    BY ThreadFacts DEF Moves
  <1>2. /\ Resting' <=> Resting
        /\ Rising' <=> Rising
        /\ Risen' <=> Risen
        /\ Standing' <=> Standing
    BY <1>1 DEF Resting, Rising, Risen, Standing, CoreQuiet, CoreFree, Published
  <1>3. /\ Leaving' <=> Leaving
        /\ Faulting' <=> Faulting
        /\ Failing' <=> Failing
        /\ Fallen' <=> Fallen
    BY <1>1 DEF Leaving, Faulting, Failing, Fallen, CoreFree, Published
  <1> QED
    BY <1>1, <1>2, <1>3 DEF PhaseInv

(* A step that begins nothing: no lift, no taking and no release *)
Calm(t, n, d) ==
    /\ d \in {doing[t], "none", "release"}
    /\ Lifting(n, d) =>
          /\ Lifting(pc[t][1], doing[t]) /\ n \notin {"core", "refused"}
          /\ n \in {"ref", "body"} <=> pc[t][1] \in {"ref", "body"}
    /\ Taking(t, n, d) => Takes(t)
    /\ t = "mon" /\ n = "core" => pc[t][1] = "core"
    /\ Releases(d) /\ n # "release" =>
          \/ Releases(doing[t]) /\ pc[t][1] # "release"
          \/ ctrl \in {"DOWN", "STOPPING"}
    /\ pc'[t] = <<"reset", "done">> => pc[t] = <<"reset", "done">> \/ core = "down"

LEMMA RivalKept ==
    ASSUME RivalInv, NEW t \in Threads, NEW n, NEW d, Moves(t, n, d),
           d \in {doing[t], "none", "release", "rel_down", "async_cb"}
    PROVE  RivalInv'
  <1>1. \A c \in Clients : \/ doing'[c] = doing[c]
                           \/ doing'[c] \in {"none", "release", "rel_down", "async_cb"}
    BY ThreadFacts DEF Moves
  <1>2. \A x : /\ ~Rivals("none", x) /\ ~Rivals(x, "none")
               /\ ~Rivals("release", x) /\ ~Rivals(x, "release")
               /\ ~Rivals("rel_down", x) /\ ~Rivals(x, "rel_down")
               /\ ~Rivals("async_cb", x) /\ ~Rivals(x, "async_cb")
    BY DEF Rivals
  <1> QED
    BY <1>1, <1>2 DEF RivalInv

LEMMA WaitOfCalm ==
    ASSUME WaitInv, NEW t \in Threads, t # "core", NEW n, NEW d, Moves(t, n, d),
           Calm(t, n, d), UNCHANGED <<core, ctrl, asked, completed, told, deleted>>,
           life' = "freed" => life = "freed" \/ ctrl \in {"DOWN", "STOPPING"}
    PROVE  WaitInv'
  <1>1. PhaseInv' /\ RivalInv'
    BY PhaseSame, RivalKept DEF WaitInv, Calm
  <1>2. LiftInv'
    <2>1. \A c \in Clients : Lifting(pc'[c][1], doing'[c]) =>
             /\ Lifting(pc[c][1], doing[c]) /\ pc'[c][1] # "refused"
             /\ pc'[c][1] \in {"ref", "body"} <=> pc[c][1] \in {"ref", "body"}
             /\ pc'[c][1] = "core" => pc[c][1] = "core"
      BY ThreadFacts DEF Moves, Calm, WaitInv, LiftInv
    <2>2. \A c \in Clients : doing'[c] \in {"down", "reset", "cancel", "del"}
                               => doing'[c] = doing[c]
      BY ThreadFacts DEF Moves, Calm
    <2> QED
      BY <2>1, <2>2, PhaseSame DEF WaitInv, LiftInv
  <1>3. TakeInv'
    <2>1. \A u \in Threads : Takes(u)' => Takes(u)
      BY DEF Moves, Calm, Takes
    <2>2. \A u \in Threads : doing'[u] \notin {"cancel", "rel_cancel"}
      BY DEF Moves, Calm, WaitInv, TakeInv
    <2>3. pc'["mon"][1] = "core" => pc["mon"][1] = "core"
      BY ThreadFacts DEF Moves, Calm
    <2>4. \A u \in Threads : Releases(doing'[u]) /\ pc'[u][1] # "release"
             => ctrl \in {"DOWN", "STOPPING"}
      BY DEF Moves, Calm, WaitInv, TakeInv
    <2> QED
      BY <2>1, <2>2, <2>3, <2>4, PhaseSame DEF WaitInv, TakeInv
  <1>4. DownInv'
    BY DEF Moves, Calm, WaitInv, DownInv
  <1> QED
    BY <1>1, <1>2, <1>3, <1>4 DEF WaitInv

-----------------------------------------------------------------------------
(* The steps of the clients *)

LEMMA HoldsLive ==
    ASSUME RefInv, NEW t \in Threads, Holds(t, pc[t][1], doing[t])
    PROVE  /\ refs > 0 /\ life = "live"
           /\ \A u \in Threads : ~Releases(doing[u])
  <1>1. refs > 0
    BY HoldersFacts, CountFacts DEF RefInv
  <1> QED
    BY <1>1, CountFacts DEF RefInv, ReleaseInv

LEMMA FirstLive ==
    ASSUME RefInv, ~deleted
    PROVE  /\ refs > 0 /\ life = "live"
           /\ \A u \in Threads : ~Releases(doing[u])
  BY CountFacts DEF RefInv, ReleaseInv

LEMMA ClientHolds ==
    ASSUME RefInv, NEW c \in Clients,
           doing[c] \in Refs \cup {"cancel"}, pc[c][1] # "ref"
    PROVE  Holds(c, pc[c][1], doing[c])
  BY ClientFits DEF FitsClient

LEMMA RivalFacts ==
    /\ \A x, y : Rivals(x, y) <=> Rivals(y, x)
    /\ \A x, y \in {"up", "down", "reset", "cancel", "del"} : Rivals(x, y)
    /\ Rivals("policy", "policy")
    /\ \A x : ~Rivals("none", x) /\ ~Rivals("read", x)
    /\ \A x, y : Rivals(x, y) => \/ x = "policy" /\ y = "policy"
                                 \/ {x, y} \subseteq {"up", "down", "reset", "cancel", "del"}
  BY DEF Rivals

LEMMA WaitOfCall ==
    ASSUME RefInv, WaitInv, NEW c \in Clients, Call(c), ~raced'
    PROVE  WaitInv'
  <1>1. PICK op \in Calls :
           /\ Enters(c, op)
           /\ To(c, IF op = "del" THEN "del" ELSE "ref")
           /\ raced' = (raced \/ deleted \/ (op = "up" /\ told # "down")
                         \/ (op \in {"down", "reset"} /\ told # "up")
                         \/ (op = "del" /\ told = "busy")
                         \/ \E t \in Clients : Rivals(op, doing[t]))
           /\ told' = IF op \in {"up", "down", "reset"} THEN "busy" ELSE told
    BY DEF Call
  <1>2. /\ ~deleted /\ (op = "up" => told = "down")
        /\ op \in {"down", "reset"} => told = "up"
        /\ op = "del" => told # "busy"
        /\ \A t \in Clients : ~Rivals(op, doing[t])
    <2> HIDE DEF WaitInv
    <2> QED
      BY <1>1, Zenon
  <1>3. c \in Threads /\ c # "core" /\ c # "mon" /\ pc[c][1] = "idle" /\ doing[c] = "none"
    BY ClientFits, StepFacts, LabelFacts DEF Call
  <1> DEFINE n == IF op = "del" THEN "del" ELSE "ref"
  <1>4. Moves(c, n, op)
    BY <1>1, <1>3, Names
  <1>5. n \in {"del", "ref"} /\ op \in {"up", "down", "reset", "policy", "read", "del"}
    BY ObjectAssumption
  <1> HIDE DEF n
  <1>6. UNCHANGED <<core, ctrl, asked, completed, deleted, life>>
    BY DEF Call, link, coreVars
  <1>7. PhaseInv' /\ (Resting' <=> Resting) /\ (Faulting' <=> Faulting)
    BY <1>3, <1>4, <1>6, PhaseSame DEF WaitInv
  <1>8. LiftInv'
    <2>1. told' = "down" => Resting' /\ ctrl' = "DOWN"
      BY <1>1, <1>6, <1>7 DEF WaitInv, LiftInv
    <2>2. ASSUME NEW u \in Clients, Lifting(pc'[u][1], doing'[u])
          PROVE  /\ Resting' /\ told' = "busy" /\ ~deleted' /\ pc'[u][1] # "refused"
                 /\ ctrl' = IF pc'[u][1] \in {"ref", "body"} THEN "DOWN" ELSE "STARTING"
                 /\ pc'[u][1] = "core" => ~completed'
      <3>1. CASE u = c
        <4>1. op = "up" /\ pc'[c][1] = "ref"
          BY <1>1, <1>3, <1>4, <2>2, <3>1, LabelFacts DEF Moves, Lifting, n
        <4> QED
          BY <1>1, <1>2, <1>6, <1>7, <3>1, <4>1 DEF WaitInv, LiftInv
      <3>2. CASE u # c
        <4>1. pc'[u] = pc[u] /\ doing'[u] = doing[u]
          BY <1>4, <3>2, ThreadFacts DEF Moves
        <4> QED
          BY <1>1, <1>6, <1>7, <2>2, <4>1 DEF WaitInv, LiftInv
      <3> QED
        BY <3>1, <3>2
    <2>3. ctrl' = "STARTING" =>
            /\ told' = "busy" /\ ~deleted'
            /\ \A u \in Clients : doing'[u] \notin {"down", "reset", "cancel", "del"}
      BY <1>1, <1>2, <1>4, <1>5, <1>6, ThreadFacts DEF WaitInv, LiftInv, Moves
    <2> QED
      BY <2>1, <2>2, <2>3 DEF LiftInv
  <1>9. TakeInv'
    <2>1. \A u \in Threads : Takes(u)' => Takes(u)
      BY <1>3, <1>4, <1>5 DEF Moves, Takes, Taking, StopSteps
    <2>2. \A u \in Threads : doing'[u] \notin {"cancel", "rel_cancel"}
      BY <1>4, <1>5 DEF Moves, WaitInv, TakeInv
    <2>3. pc'["mon"] = pc["mon"] /\ pc'["core"] = pc["core"]
      BY <1>3, <1>4, ThreadFacts DEF Moves
    <2>4. \A u \in Threads : Releases(doing'[u]) => doing'[u] = doing[u] /\ pc'[u] = pc[u]
      BY <1>4, <1>5 DEF Moves, Releases
    <2> QED
      BY <1>6, <1>7, <2>1, <2>2, <2>3, <2>4 DEF WaitInv, TakeInv
  <1>10. RivalInv'
    BY <1>2, <1>4, RivalFacts, ThreadFacts DEF WaitInv, RivalInv, Moves
  <1>11. DownInv'
    <2>1. \A u \in Threads : pc'[u] = <<"reset", "done">> => pc[u] = <<"reset", "done">>
      BY <1>4, <1>5 DEF Moves
    <2> QED
      BY <1>6, <2>1 DEF WaitInv, DownInv
  <1> QED
    BY <1>7, <1>8, <1>9, <1>10, <1>11 DEF WaitInv

(* The steps of a client that only move it *)
LEMMA WaitOfClientCalm ==
    ASSUME RefInv, WaitInv, NEW c \in Clients, TakeRef(c) \/ Reset(c) \/ PolicyOrRead(c)
    PROVE  WaitInv'
  <1>1. c \in Threads /\ c # "core" /\ c # "mon"
    BY ClientFits
  <1>2. UNCHANGED linkVars
    BY DEF TakeRef, Reset, PolicyOrRead, link, coreVars, ghosts, linkVars
  <1>3. PICK n, d : /\ Moves(c, n, d) /\ d \in {doing[c], "none"}
                    /\ \/ pc[c][1] = "ref" /\ n = "body" /\ d = doing[c]
                       \/ pc[c][1] = "ref" /\ n = "idle" /\ d = "none"
                       \/ pc[c][1] = "reset" /\ n = "put"
                       \/ pc[c][1] \in {"body", "look", "look_core"}
                             /\ n \in {"look", "look_core", "calc", "put"}
                             /\ doing[c] # "up"
    <2>1. CASE TakeRef(c)
      BY <1>1, <2>1, Names, MovesTo, LabelFacts DEF TakeRef
    <2>2. CASE Reset(c)
      BY <1>1, <2>2, Names, LabelFacts DEF Reset
    <2>3. CASE PolicyOrRead(c)
      <3>1. /\ pc[c][1] \in {"body", "look", "look_core"} /\ UNCHANGED doing
            /\ pc[c][1] = "body" => doing[c] # "up"
        BY <2>3, LabelFacts DEF PolicyOrRead, StateGet
      <3>2. doing[c] # "up"
        BY <3>1, ClientFits DEF FitsClient, ClientSteps
      <3>3. PICK n \in {"look", "look_core", "calc", "put"} : To(c, n)
        BY <2>3 DEF PolicyOrRead, StateGet
      <3> QED
        BY <1>1, <3>1, <3>2, <3>3, Names
    <2> QED
      BY <2>1, <2>2, <2>3
  <1>4. Calm(c, n, d)
    <2>1. pc'[c] = <<"reset", "done">> => FALSE
      BY <1>3 DEF Moves
    <2> QED
      BY <1>1, <1>3, <2>1, OpsFacts DEF Calm, Lifting, Taking, Takes, StopSteps, Releases
  <1> QED
    BY <1>1, <1>2, <1>3, <1>4, WaitOfCalm DEF linkVars

LEMMA WaitOfDel ==
    ASSUME RefInv, WaitInv, NEW c \in Clients, Del(c)
    PROVE  WaitInv'
  <1>1. c \in Threads /\ c # "core" /\ c # "mon"
    BY ClientFits
  <1>2. UNCHANGED <<core, ctrl, asked, completed, told, life>>
    BY DEF Del, link, coreVars, ghosts
  <1>3. PICK n, d : /\ Moves(c, n, d) /\ n \in {"release", "del_wait", "idle"}
                    /\ d \in {"release", "none", doing[c]}
                    /\ pc[c][1] \in {"del", "del_wait"}
    BY <1>1, Names, MovesTo, LabelFacts DEF Del
  <1>4. doing[c] = "del"
    BY <1>3, ClientFits DEF FitsClient, ClientSteps, StopSteps
  <1>5. Calm(c, n, d)
    <2>1. pc'[c] = <<"reset", "done">> => FALSE
      BY <1>3 DEF Moves
    <2>2. d = "release" => n = "release"
      BY <1>1, <1>3, <1>4, Names, MovesTo, LabelFacts DEF Del, Moves
    <2> QED
      BY <1>1, <1>3, <1>4, <2>1, <2>2 DEF Calm, Lifting, Taking, Takes, StopSteps, Releases
  <1>6. CASE UNCHANGED deleted
    BY <1>1, <1>2, <1>3, <1>5, <1>6, WaitOfCalm
  <1>7. CASE deleted' = TRUE
    <2>1. \A u \in Clients : ~Lifting(pc[u][1], doing[u])
      BY <1>4, RivalFacts DEF WaitInv, RivalInv, Lifting
    <2>2. ctrl # "STARTING"
      BY <1>4 DEF WaitInv, LiftInv
    <2>3. PhaseInv' /\ RivalInv' /\ (Resting' <=> Resting) /\ (Faulting' <=> Faulting)
      BY <1>1, <1>2, <1>3, PhaseSame, RivalKept DEF WaitInv
    <2>4. \A u \in Clients : ~Lifting(pc'[u][1], doing'[u])
      BY <1>3, <1>4, <2>1, ThreadFacts DEF Moves, Lifting
    <2>5. LiftInv'
      BY <1>2, <2>2, <2>3, <2>4 DEF WaitInv, LiftInv
    <2>6. TakeInv'
      <3>1. \A u \in Threads : Takes(u)' => Takes(u)
        BY <1>3, <1>5 DEF Moves, Calm, Takes
      <3>2. pc'["mon"] = pc["mon"] /\ pc'["core"] = pc["core"]
        BY <1>1, <1>3, ThreadFacts DEF Moves
      <3>3. \A u \in Threads : doing'[u] \notin {"cancel", "rel_cancel"}
        BY <1>3, <1>4 DEF Moves, WaitInv, TakeInv
      <3>4. \A u \in Threads : Releases(doing'[u]) /\ pc'[u][1] # "release"
              => (Releases(doing[u]) /\ pc[u][1] # "release") \/ ctrl \in {"DOWN", "STOPPING"}
        BY <1>3, <1>5 DEF Moves, Calm
      <3> QED
        BY <1>2, <2>3, <3>1, <3>2, <3>3, <3>4 DEF WaitInv, TakeInv
    <2>7. DownInv'
      BY <1>2, <1>3, <1>5 DEF Moves, Calm, WaitInv, DownInv
    <2> QED
      BY <2>3, <2>5, <2>6, <2>7 DEF WaitInv
  <1> QED
    BY <1>6, <1>7 DEF Del, link

(* A link that rests is brought up: by its one client, while nobody has      *)
(* taken it or releases the object.                                          *)
LEMMA LiftFacts ==
    ASSUME RefInv, WaitInv, NEW c \in Clients, doing[c] = "up",
           pc[c][1] \in {"body", "init", "core", "refused"}
    PROVE  /\ Resting /\ told = "busy" /\ ~deleted /\ asked = "none"
           /\ pc[c][1] # "refused" /\ pc["mon"][1] # "core"
           /\ ctrl = IF pc[c][1] = "body" THEN "DOWN" ELSE "STARTING"
           /\ \A t \in Threads : ~Takes(t) /\ ~Releases(doing[t])
           /\ \A u \in Clients : doing[u] \in {"up", "down", "reset", "cancel", "del"}
                                    => u = c
           /\ \A t \in Threads : pc[t] # <<"reset", "done">>
           /\ pc[c][1] = "core" => ~completed
           /\ life = "live"
  <1>1. Lifting(pc[c][1], doing[c])
    BY DEF Lifting
  <1>2. Holds(c, pc[c][1], doing[c])
    BY ClientHolds DEF Refs
  <1>3. life = "live" /\ \A u \in Threads : ~Releases(doing[u])
    BY <1>2, ClientFits, HoldsLive
  <1>4. Resting /\ core \in {"down", "gone"}
    BY <1>1 DEF WaitInv, LiftInv, Resting
  <1>5. pc["mon"][1] # "core"
    BY <1>4 DEF WaitInv, TakeInv, Faulting
  <1>6. \A u \in Clients : doing[u] \in {"up", "down", "reset", "cancel", "del"} => u = c
    BY RivalFacts DEF WaitInv, RivalInv
  <1>7. \A t \in Threads : ~Takes(t)
    <2>1. \A t \in Threads : doing[t] = "rel_down" => FALSE
      BY <1>3 DEF Releases
    <2>2. \A t \in Threads : doing[t] \notin {"down", "reset"}
      BY <1>6, StepFacts
    <2> QED
      BY <1>5, <2>1, <2>2 DEF Takes, Taking
  <1>8. \A t \in Threads : pc[t] # <<"reset", "done">>
    <2> SUFFICES ASSUME NEW t \in Threads, pc[t] = <<"reset", "done">> PROVE FALSE
      OBVIOUS
    <2>1. pc[t][1] = "reset"
      OBVIOUS
    <2>2. CASE t \in Clients
      BY <1>6, <2>1, <2>2, ClientFits DEF FitsClient, ClientSteps, StopSteps
    <2>3. CASE t = "core"
      BY <2>1, <2>3, CoreFits DEF CoreSteps, StopSteps
    <2>4. CASE t = "mon"
      BY <2>1, <2>4, MonFits DEF MonSteps
    <2> QED
      BY <2>2, <2>3, <2>4, ThreadFacts
  <1>9. asked = "none"
    BY <1>4 DEF WaitInv, PhaseInv, Leaving
  <1> QED
    BY <1>1, <1>3, <1>4, <1>5, <1>6, <1>7, <1>8, <1>9 DEF WaitInv, LiftInv

LEMMA WaitOfLinkUp ==
    ASSUME RefInv, WaitInv, NEW c \in Clients, LinkUp(c), UNCHANGED asked
    PROVE  WaitInv'
  <1>1. /\ c \in Threads /\ c # "core" /\ c # "mon" /\ doing[c] = "up"
        /\ UNCHANGED <<life, deleted, doing>>
    BY ClientFits DEF LinkUp
  <1>2. pc[c][1] \in {"body", "init", "core", "refused"}
    BY LabelFacts DEF LinkUp
  <1>3. pc[c][1] # "refused" /\ core # "leaving"
    BY <1>1, <1>2, LiftFacts DEF Resting
  <1>4. PICK n \in {"init", "core", "put"} :
          /\ Moves(c, n, "up") /\ UNCHANGED told
          /\ \/ /\ pc[c][1] = "body" /\ n = "init" /\ ctrl' = "STARTING"
                /\ UNCHANGED <<completed, core>>
             \/ /\ pc[c][1] = "init" /\ n = "core" /\ completed' = FALSE
                /\ UNCHANGED <<ctrl, core>>
             \/ /\ pc[c][1] = "core" /\ n = "put" /\ UNCHANGED <<ctrl, completed>>
                /\ core' = IF core = "down" THEN "rising" ELSE core
    <2>1. ctrl = IF pc[c][1] = "body" THEN "DOWN" ELSE "STARTING"
      BY <1>1, <1>2, LiftFacts
    <2>2. PICK n \in {"init", "core", "put"} :
          /\ To(c, n) /\ UNCHANGED told
          /\ \/ /\ pc[c][1] = "body" /\ n = "init" /\ ctrl' = "STARTING"
                /\ UNCHANGED <<completed, core>>
             \/ /\ pc[c][1] = "init" /\ n = "core" /\ completed' = FALSE
                /\ UNCHANGED <<ctrl, core>>
             \/ /\ pc[c][1] = "core" /\ n = "put" /\ UNCHANGED <<ctrl, completed>>
                /\ core' = IF core = "down" THEN "rising" ELSE core
      BY <1>3, <2>1, LabelFacts DEF LinkUp
    <2> QED
      BY <1>1, <2>2, Names
  <1>5. /\ pc'["core"] = pc["core"] /\ doing'["core"] = doing["core"]
        /\ pc'["mon"] = pc["mon"]
    BY <1>1, <1>4, ThreadFacts DEF Moves
  <1>6. /\ Resting /\ told = "busy" /\ ~deleted /\ asked = "none" /\ pc["mon"][1] # "core"
        /\ ctrl = IF pc[c][1] = "body" THEN "DOWN" ELSE "STARTING"
        /\ \A t \in Threads : ~Takes(t) /\ ~Releases(doing[t])
        /\ \A u \in Clients : doing[u] \in {"up", "down", "reset", "cancel", "del"}
                                 => u = c
        /\ \A t \in Threads : pc[t] # <<"reset", "done">>
        /\ pc[c][1] = "core" => ~completed
        /\ life = "live"
    BY <1>1, <1>2, LiftFacts
  <1>7. PhaseInv' /\ (n # "put" => Resting')
    <2>1. ctrl' = "STARTING"
      BY <1>4, <1>6
    <2>2. core' # "leaving" /\ (core' \in {"down", "gone"} => Resting')
      BY <1>4, <1>5, <1>6, <2>1 DEF Resting, CoreQuiet
    <2>3. core' = "rising" => Rising'
      BY <1>4, <1>5, <1>6, <2>1 DEF Resting, Rising, CoreQuiet
    <2>4. core' \in {"down", "gone", "rising"} /\ (n # "put" => core' # "rising")
      BY <1>4, <1>6 DEF Resting
    <2> QED
      BY <1>6, <2>2, <2>3, <2>4 DEF PhaseInv, Leaving
  <1>8. LiftInv'
    <2>1. \A u \in Clients : Lifting(pc'[u][1], doing'[u]) => u = c
      BY <1>1, <1>6 DEF Lifting
    <2>2. \A u \in Clients : doing'[u] \notin {"down", "reset", "cancel", "del"}
      BY <1>1, <1>6
    <2>3. told' = "busy" /\ ~deleted' /\ ctrl' = "STARTING"
      BY <1>1, <1>4, <1>6
    <2>4. Lifting(pc'[c][1], doing'[c]) =>
             /\ Resting' /\ pc'[c][1] \in {"init", "core"}
             /\ pc'[c][1] = "core" => ~completed'
      BY <1>4, <1>7 DEF Moves, Lifting
    <2> QED
      BY <2>1, <2>2, <2>3, <2>4 DEF LiftInv
  <1>9. TakeInv'
    <2>1. \A u \in Threads : ~Takes(u)'
      BY <1>1, <1>4, <1>6 DEF Moves, Takes, Taking
    <2> QED
      BY <1>1, <1>5, <1>6, <2>1 DEF WaitInv, TakeInv
  <1>10. RivalInv'
    BY <1>1 DEF WaitInv, RivalInv
  <1>11. DownInv'
    <2>1. \A u \in Threads : pc'[u] # <<"reset", "done">>
      BY <1>4, <1>6 DEF Moves
    <2>2. completed' => core' \in {"down", "gone"}
      BY <1>4, <1>6 DEF WaitInv, DownInv, Resting
    <2> QED
      BY <2>1, <2>2 DEF DownInv
  <1> QED
    BY <1>7, <1>8, <1>9, <1>10, <1>11 DEF WaitInv

-----------------------------------------------------------------------------
(* A link that is up is taken *)

LEMMA UpFacts ==
    ASSUME RefInv, WaitInv, ctrl \in {"UP", "UP_DOWN_REQ"}
    PROVE  /\ Standing \/ (Faulting /\ pc["core"][1] = "fault_ctrl")
           /\ asked = "none" /\ told # "down" /\ life = "live"
           /\ \A t \in Threads : ~Takes(t)
           /\ \A t \in Threads : Releases(doing[t]) => pc[t][1] = "release"
           /\ \A c \in Clients : ~Lifting(pc[c][1], doing[c])
           /\ doing["core"] \in {"none", "up_cb", "fault"}
  <1>1. Standing \/ (Faulting /\ pc["core"][1] = "fault_ctrl")
    BY CoreFits DEF WaitInv, PhaseInv, Resting, Rising, Risen, Leaving, Faulting, Failing,
                    Fallen, CoreSteps, StopSteps
  <1>2. asked = "none"
    BY <1>1 DEF WaitInv, PhaseInv, Standing, Faulting, Leaving, CoreFree, Published
  <1>3. doing["core"] \in {"none", "up_cb", "fault"}
    BY <1>1 DEF Standing, Faulting, CoreFree, Published
  <1>4. life = "live"
    BY DEF RefInv, ReleaseInv, WaitInv, TakeInv
  <1>5. told # "down" /\ \A c \in Clients : ~Lifting(pc[c][1], doing[c])
    BY DEF WaitInv, LiftInv
  <1> QED
    BY <1>1, <1>2, <1>3, <1>4, <1>5 DEF WaitInv, TakeInv

LEMMA WaitOfTaking ==
    ASSUME RefInv, WaitInv, NEW t \in Threads, t # "core", NEW n, NEW d,
           ctrl \in {"UP", "UP_DOWN_REQ"}, ctrl' = "STOPPING",
           Moves(t, n, d), Taking(t, n, d),
           \/ d \in {doing[t], "rel_down"} /\ n = "stop"
           \/ t = "mon" /\ n = "core" /\ d = "async_cb",
           UNCHANGED <<core, asked, completed, told, deleted, life>>
    PROVE  WaitInv'
  <1>1. /\ Standing \/ (Faulting /\ pc["core"][1] = "fault_ctrl")
        /\ asked = "none" /\ told # "down" /\ life = "live"
        /\ \A u \in Threads : ~Takes(u)
        /\ \A c \in Clients : ~Lifting(pc[c][1], doing[c])
    BY UpFacts
  <1>2. pc'["core"] = pc["core"] /\ doing'["core"] = doing["core"]
    BY ThreadFacts DEF Moves
  <1>3. Standing' \/ (Faulting' /\ pc'["core"][1] = "fault_ctrl")
    BY <1>1, <1>2 DEF Standing, Faulting, CoreFree, Published
  <1>4. PhaseInv'
    BY <1>1, <1>3 DEF PhaseInv, Standing, Faulting, Leaving, CoreFree, Published
  <1>5. LiftInv'
    <2>1. \A c \in Clients : ~Lifting(pc'[c][1], doing'[c])
      BY <1>1, ThreadFacts DEF Moves, Lifting, Taking
    <2> QED
      BY <1>1, <2>1 DEF LiftInv
  <1>6. TakeInv'
    <2>1. \A u \in Threads : Takes(u)' => u = t
      BY <1>1 DEF Moves, Takes
    <2>2. \A u \in Threads : doing'[u] \notin {"cancel", "rel_cancel"}
      BY DEF Moves, WaitInv, TakeInv
    <2>3. pc'["mon"][1] = "core" => core' = "up" \/ (Faulting' /\ pc'["core"][1] = "fault_ctrl")
      BY <1>3 DEF Standing
    <2> QED
      BY <2>1, <2>2, <2>3 DEF TakeInv
  <1>7. RivalInv'
    BY RivalKept DEF WaitInv
  <1>8. DownInv'
    <2>1. \A u \in Threads : pc'[u] = <<"reset", "done">> => pc[u] = <<"reset", "done">>
      BY DEF Moves
    <2> QED
      BY <2>1 DEF WaitInv, DownInv
  <1> QED
    BY <1>4, <1>5, <1>6, <1>7, <1>8 DEF WaitInv

(* sl_ctrl_link_down, sl_ctrl_link_reset and sl_ctrl_link_release do not find *)
(* an attempt: those who make it wait for its end.                            *)
LEMMA StoppedUp ==
    ASSUME RefInv, WaitInv, NEW t \in Threads, Stopped(t),
           \/ t \in Clients /\ pc[t][1] = "body" /\ doing[t] \in {"down", "reset"}
           \/ pc[t][1] = "release"
    PROVE  /\ ctrl \in {"UP", "UP_DOWN_REQ"} /\ ctrl' = "STOPPING" /\ t # "core"
           /\ \E d \in {doing[t], "rel_down"} : Moves(t, "stop", d) /\ Taking(t, "stop", d)
                 /\ (d = "rel_down" => pc[t][1] = "release")
  <1>1. pc[t][1] = "release" => Releases(doing[t]) /\ doing[t] = "release"
    BY StepFacts
  <1>2. ctrl # "STARTING"
    <2>1. CASE pc[t][1] = "release"
      <3>1. deleted
        BY <1>1, <2>1, FirstLive
      <3> QED
        BY <3>1 DEF WaitInv, LiftInv
    <2>2. CASE t \in Clients /\ doing[t] \in {"down", "reset"}
      BY <2>2 DEF WaitInv, LiftInv
    <2> QED
      BY <2>1, <2>2
  <1>3. ctrl \in {"UP", "UP_DOWN_REQ"} /\ ctrl' = "STOPPING"
    BY <1>2 DEF Stopped
  <1>4. t # "core"
    <2>1. doing["core"] \in {"none", "up_cb", "fault"}
      BY <1>3, UpFacts
    <2> QED
      BY <1>1, <2>1, ThreadFacts DEF Releases
  <1>5. PICK d \in {doing[t], "rel_down"} :
           /\ Enters(t, d) /\ To(t, "stop")
           /\ d = IF doing[t] = "release" THEN "rel_down" ELSE doing[t]
    BY <1>2 DEF Stopped
  <1>6. Moves(t, "stop", d)
    BY <1>5, Names
  <1>7. Taking(t, "stop", d) /\ (d = "rel_down" => pc[t][1] = "release")
    BY <1>1, <1>5 DEF Taking, StopSteps
  <1> QED
    BY <1>3, <1>4, <1>6, <1>7

LEMMA WaitOfLinkDown ==
    ASSUME RefInv, WaitInv, NEW c \in Clients, LinkDown(c)
    PROVE  WaitInv'
  <1>1. /\ c \in Threads /\ c # "core" /\ c # "mon"
        /\ pc[c][1] = "body" /\ doing[c] \in {"down", "reset"}
        /\ UNCHANGED <<core, asked, completed, told, deleted, life>>
    BY ClientFits, LabelFacts DEF LinkDown, coreVars, ghosts
  <1>2. CASE Stopped(c)
    BY <1>1, <1>2, StoppedUp, WaitOfTaking
  <1>3. CASE To(c, "put") /\ UNCHANGED <<ctrl, doing>>
    <2>1. Moves(c, "put", doing[c])
      BY <1>1, <1>3, Names
    <2>2. Calm(c, "put", doing[c])
      BY <1>1, <2>1 DEF Moves, Calm, Lifting, Taking, Takes, StopSteps, Releases
    <2> QED
      BY <1>1, <1>3, <2>1, <2>2, WaitOfCalm
  <1> QED
    BY <1>2, <1>3 DEF LinkDown

LEMMA WaitOfClient ==
    ASSUME RefInv, WaitInv, NEW c \in Clients, ClientStep(c), ~raced'
    PROVE  WaitInv'
  BY WaitOfCall, WaitOfClientCalm, WaitOfDel, WaitOfLinkUp, WaitOfLinkDown DEF ClientStep

-----------------------------------------------------------------------------
(* The steps of the core *)

LEMMA WaitOfCore ==
    ASSUME RefInv, WaitInv, NEW n, NEW d, Moves("core", n, d), n # "reset",
           d \notin {"cancel", "rel_cancel"}, Taking("core", n, d) => Takes("core"),
           Releases(d) /\ n # "release" => ctrl' \in {"DOWN", "STOPPING"},
           PhaseInv',
           \/ ~Resting /\ (told' = "down" => told = "down" \/ (Resting' /\ ctrl' = "DOWN"))
           \/ Resting /\ Resting' /\ UNCHANGED <<ctrl, told, completed>>,
           ctrl' = ctrl \/ ctrl' \in {"STOPPING", "DOWN"}
               \/ (ctrl = "STARTING" /\ ctrl' = "UP"),
           ctrl' = "STARTING" => told' = told,
           pc["mon"][1] = "core" =>
               core' = "up" \/ (Faulting' /\ n \notin {"unlock", "off"}),
           completed' => core' \in {"down", "gone"},
           core = "down" => core' = "down",
           UNCHANGED <<deleted, life>>
    PROVE  WaitInv'
  <1>1. \A u \in Threads : u # "core" => pc'[u] = pc[u] /\ doing'[u] = doing[u]
    BY DEF Moves
  <1>2. \A c \in Clients : pc'[c] = pc[c] /\ doing'[c] = doing[c]
    BY <1>1, ThreadFacts
  <1>3. pc'["mon"] = pc["mon"] /\ pc'["core"][1] = n /\ doing'["core"] = d
    BY <1>1, ThreadFacts DEF Moves
  <1>4. LiftInv'
    <2>1. told' = "down" => Resting' /\ ctrl' = "DOWN"
      BY DEF WaitInv, LiftInv
    <2>2. \A c \in Clients : Lifting(pc[c][1], doing[c]) =>
             Resting /\ Resting' /\ UNCHANGED <<ctrl, told, completed>>
      BY DEF WaitInv, LiftInv
    <2>3. \A c \in Clients : Lifting(pc'[c][1], doing'[c]) =>
          /\ Resting' /\ told' = "busy" /\ ~deleted' /\ pc'[c][1] # "refused"
          /\ ctrl' = IF pc'[c][1] \in {"ref", "body"} THEN "DOWN" ELSE "STARTING"
          /\ pc'[c][1] = "core" => ~completed'
      BY <1>2, <2>2 DEF WaitInv, LiftInv
    <2>4. ctrl' = "STARTING" =>
            /\ told' = "busy" /\ ~deleted'
            /\ \A c \in Clients : doing'[c] \notin {"down", "reset", "cancel", "del"}
      BY <1>2 DEF WaitInv, LiftInv
    <2> QED
      BY <2>1, <2>3, <2>4 DEF LiftInv
  <1>5. TakeInv'
    <2>1. \A t \in Threads : Takes(t)' => Takes(t)
      BY <1>1, <1>3, ThreadFacts DEF Takes
    <2>2. \A t \in Threads : doing'[t] \notin {"cancel", "rel_cancel"}
      BY <1>1, <1>3 DEF WaitInv, TakeInv
    <2>3. \A t \in Threads : Releases(doing'[t]) /\ pc'[t][1] # "release" =>
             \/ Releases(doing[t]) /\ pc[t][1] # "release"
             \/ ctrl' \in {"DOWN", "STOPPING"}
      BY <1>1, <1>3
    <2> QED
      BY <1>3, <2>1, <2>2, <2>3 DEF WaitInv, TakeInv
  <1>6. RivalInv'
    BY <1>2 DEF WaitInv, RivalInv
  <1>7. DownInv'
    <2>1. pc'["core"] # <<"reset", "done">>
      BY <1>3
    <2> QED
      BY <1>1, <2>1 DEF WaitInv, DownInv
  <1> QED
    BY <1>4, <1>5, <1>6, <1>7 DEF WaitInv

(* A callback goes on: the core, the link and what the clients know stay. *)
LEMMA WaitOfCoreOn ==
    ASSUME RefInv, WaitInv, NEW n, NEW d, Moves("core", n, d), n # "reset",
           d \notin {"cancel", "rel_cancel"}, Taking("core", n, d) => Takes("core"),
           Releases(d) /\ n # "release" => ctrl' \in {"DOWN", "STOPPING"},
           UNCHANGED linkVars, PhaseInv', Resting => Resting',
           pc["mon"][1] = "core" /\ core # "up" =>
               Faulting' /\ n \notin {"unlock", "off"}
    PROVE  WaitInv'
  <1>1. /\ UNCHANGED <<core, ctrl, told, completed, deleted, life>>
        /\ completed => core \in {"down", "gone"}
    BY DEF linkVars, WaitInv, DownInv
  <1> QED
    BY <1>1, WaitOfCore

LEMMA WaitOfCoreEnds ==
    ASSUME RefInv, WaitInv, CoreEnds
    PROVE  WaitInv'
  <1>1. /\ "core" \in Threads /\ pc["core"][1] = "idle" /\ doing["core"] = "none"
        /\ UNCHANGED <<ctrl, completed, told, deleted, life>>
    BY ThreadFacts, StepFacts, LabelFacts DEF CoreEnds, link, ghosts
  <1>2. CASE /\ core = "rising" /\ core' = "up" /\ UNCHANGED asked
             /\ To("core", "up_cb") /\ Enters("core", "up_cb")
    <2>1. Moves("core", "up_cb", "up_cb") /\ pc'["core"][1] = "up_cb"
             /\ doing'["core"] = "up_cb"
      BY <1>1, <1>2, Names DEF Moves
    <2>2. Rising
      BY <1>2 DEF WaitInv, PhaseInv, Resting, Risen, Standing, Leaving, Faulting,
                  Failing, Fallen
    <2>3. asked = "none" /\ ~Resting /\ ~completed /\ pc["mon"][1] # "core"
      BY <1>2, <2>2 DEF WaitInv, PhaseInv, Leaving, Resting, DownInv, TakeInv, Faulting
    <2>4. Risen' /\ ~Leaving'
      BY <1>1, <1>2, <2>1, <2>2 DEF Risen, Rising, Published, Leaving
    <2>5. PhaseInv'
      BY <1>2, <2>3, <2>4 DEF PhaseInv
    <2> QED
      BY <1>1, <1>2, <2>1, <2>3, <2>5, WaitOfCore DEF Taking, StopSteps, Releases
  <1>3. CASE /\ core = "rising" /\ core' = "down" /\ UNCHANGED asked
             /\ To("core", "fail_cb") /\ Enters("core", "fail_cb")
    <2>1. Moves("core", "fail_cb", "fail_cb") /\ pc'["core"][1] = "fail_cb"
             /\ doing'["core"] = "fail_cb"
      BY <1>1, <1>3, Names DEF Moves
    <2>2. Rising
      BY <1>3 DEF WaitInv, PhaseInv, Resting, Risen, Standing, Leaving, Faulting,
                  Failing, Fallen
    <2>3. asked = "none" /\ ~Resting /\ ~completed /\ pc["mon"][1] # "core"
      BY <1>3, <2>2 DEF WaitInv, PhaseInv, Leaving, Resting, DownInv, TakeInv, Faulting
    <2>4. Failing' /\ ~Leaving'
      BY <1>1, <1>3, <2>1, <2>2 DEF Failing, Rising, Leaving
    <2>5. PhaseInv'
      BY <1>3, <2>3, <2>4 DEF PhaseInv
    <2> QED
      BY <1>1, <1>3, <2>1, <2>3, <2>5, WaitOfCore DEF Taking, StopSteps, Releases
  <1>4. CASE /\ core = "leaving" /\ core' = "down" /\ asked' = "none"
             /\ To("core", IF asked = "cancel_cb" THEN "fail_cb" ELSE asked)
             /\ Enters("core", asked)
    <2>1. Leaving
      BY <1>1, <1>4 DEF WaitInv, PhaseInv, Resting, Rising, Risen, Standing, Faulting,
                        Failing, Fallen
    <2>2. asked \in {"down_cb", "async_cb"}
      BY <2>1 DEF WaitInv, PhaseInv
    <2>3. Moves("core", asked, asked) /\ pc'["core"][1] = asked /\ doing'["core"] = asked
      BY <1>1, <1>4, <2>2, Names DEF Moves
    <2>4. ~Resting /\ pc["mon"][1] # "core"
      BY <1>1, <1>4 DEF WaitInv, Resting, TakeInv, Faulting
    <2>5. Fallen' /\ ~Leaving'
      BY <1>1, <1>4, <2>1, <2>2, <2>3 DEF Fallen, Leaving
    <2>6. PhaseInv'
      BY <1>4, <2>5 DEF PhaseInv
    <2> QED
      BY <1>1, <1>4, <2>2, <2>3, <2>4, <2>6, WaitOfCore DEF Taking, StopSteps, Releases
  <1>5. CASE /\ core = "up" /\ core' = "leaving" /\ UNCHANGED asked
             /\ To("core", "fault_ctrl") /\ Enters("core", "fault")
    <2>1. Moves("core", "fault_ctrl", "fault") /\ pc'["core"][1] = "fault_ctrl"
             /\ doing'["core"] = "fault"
      BY <1>1, <1>5, Names DEF Moves
    <2>2. Standing
      BY <1>1, <1>5 DEF WaitInv, PhaseInv, Resting, Rising, Risen, Leaving, Faulting,
                        Failing, Fallen
    <2>3. asked = "none" /\ ~Resting /\ ~completed
      BY <1>5, <2>2 DEF WaitInv, PhaseInv, Leaving, Resting, DownInv
    <2>4. Faulting' /\ ~Leaving'
      BY <1>1, <1>5, <2>1, <2>2 DEF Faulting, Standing, Leaving, CoreFree, Published
    <2>5. PhaseInv'
      BY <1>5, <2>3, <2>4 DEF PhaseInv
    <2> QED
      BY <1>1, <1>5, <2>1, <2>3, <2>4, <2>5, WaitOfCore DEF Taking, StopSteps, Releases
  <1> QED
    BY <1>2, <1>3, <1>4, <1>5 DEF CoreEnds

(* The call the core is in tells the phase. *)
LEMMA PhaseOf ==
    ASSUME RefInv, WaitInv
    PROVE  /\ doing["core"] = "up_cb" /\ pc["core"][1] # "notify" => Risen
           /\ doing["core"] = "up_cb" /\ pc["core"][1] = "notify" => Standing \/ Leaving
           /\ doing["core"] = "fail_cb" => Failing
           /\ doing["core"] = "fault" => Faulting
           /\ doing["core"] \in {"down_cb", "fault_cb"} => Fallen
           /\ doing["core"] = "async_cb" /\ pc["core"][1] # "put" => Fallen
           /\ doing["core"] = "async_cb" /\ pc["core"][1] = "put" => Resting \/ Rising
           /\ Releases(doing["core"]) => Resting \/ Rising
           /\ doing["core"] # "cancel_cb"
           /\ Resting \/ Rising => CoreQuiet
  <1>1. CASE Resting \/ Rising
    <2>1. CoreQuiet
      BY <1>1 DEF Resting, Rising
    <2>2. \/ doing["core"] = "none" \/ Releases(doing["core"])
          \/ doing["core"] = "async_cb" /\ pc["core"][1] = "put"
      BY <2>1 DEF CoreQuiet
    <2> QED
      BY <1>1, <2>1, <2>2 DEF Releases
  <1>2. CASE ~(Resting \/ Rising)
    <2>1. Risen \/ Standing \/ Leaving \/ Faulting \/ Failing \/ Fallen
      BY <1>2 DEF WaitInv, PhaseInv
    <2> QED
      BY <1>2, <2>1 DEF Risen, Standing, Leaving, Faulting, Failing, Fallen, CoreFree,
                        Published, Releases
  <1> QED
    BY <1>1, <1>2

LEMMA NotLeaving ==
    ASSUME WaitInv, ~Leaving
    PROVE  asked = "none"
  BY DEF WaitInv, PhaseInv

LEMMA WaitOfFault ==
    ASSUME RefInv, WaitInv, Fault, UNCHANGED <<life, completed, deleted, asked, told>>
    PROVE  WaitInv'
  <1>1. "core" \in Threads /\ pc["core"][1] \in {"fault_ctrl", "unlock", "off"}
    BY ThreadFacts, LabelFacts DEF Fault
  <1>2. doing["core"] = "fault"
    BY <1>1, CoreFits DEF CoreSteps, StopSteps
  <1>3. Faulting /\ ~Leaving /\ ~Resting /\ core = "leaving" /\ ~completed
    BY <1>2, PhaseOf DEF Faulting, Leaving, Resting, CoreFree, Published, CoreQuiet,
                         Releases, WaitInv, DownInv
  <1>4. asked = "none"
    BY <1>3, NotLeaving
  <1>5. CASE /\ ctrl' = "STOPPING" /\ To("core", "stop") /\ UNCHANGED <<core, doing>>
    <2>1. Moves("core", "stop", "fault") /\ doing'["core"] = "fault"
      BY <1>1, <1>2, <1>5, Names DEF Moves
    <2>2. Faulting' /\ ~Leaving'
      BY <1>3, <1>5, <2>1 DEF Faulting, Leaving, CoreFree, Published
    <2>3. PhaseInv'
      BY <1>4, <2>2 DEF PhaseInv
    <2> QED
      BY <1>3, <1>5, <2>1, <2>2, <2>3, WaitOfCore DEF Taking, Releases
  <1>6. CASE Is("core", "unlock") /\ To("core", "off") /\ UNCHANGED <<ctrl, core, doing>>
    <2>1. Moves("core", "off", "fault") /\ doing'["core"] = "fault"
      BY <1>1, <1>2, <1>6, Names DEF Moves
    <2>2. ctrl = "STOPPING" /\ pc["mon"][1] # "core"
      BY <1>3, <1>6, LabelFacts DEF Faulting, WaitInv, TakeInv
    <2>3. Faulting' /\ ~Leaving'
      BY <1>3, <1>6, <2>1, <2>2 DEF Faulting, Leaving, CoreFree, Published
    <2>4. PhaseInv'
      BY <1>4, <2>3 DEF PhaseInv
    <2> QED
      BY <1>3, <1>6, <2>1, <2>2, <2>4, WaitOfCore DEF Taking, Releases
  <1>7. CASE /\ Is("core", "off") /\ core' = "down"
             /\ To("core", "stop") /\ Enters("core", "fault_cb") /\ UNCHANGED ctrl
    <2>1. /\ Moves("core", "stop", "fault_cb") /\ doing'["core"] = "fault_cb"
          /\ pc'["core"][1] = "stop"
      BY <1>1, <1>7, Names DEF Moves
    <2>2. ctrl = "STOPPING" /\ pc["mon"][1] # "core"
      BY <1>3, <1>7, LabelFacts DEF Faulting, WaitInv, TakeInv
    <2>3. Fallen' /\ ~Leaving'
      BY <1>7, <2>1, <2>2 DEF Fallen, Leaving
    <2>4. PhaseInv'
      BY <1>4, <2>3 DEF PhaseInv
    <2> QED
      BY <1>3, <1>7, <2>1, <2>2, <2>4, WaitOfCore DEF Taking, Releases
  <1> QED
    BY <1>5, <1>6, <1>7 DEF Fault

(* A callback on the core's own thread, over a core that is up or down *)
LEMMA WaitOfCallback ==
    ASSUME RefInv, WaitInv, NEW n, NEW d, Moves("core", n, d),
           d \in Callbacks \cup {"none"}, n # "reset",
           UNCHANGED <<core, asked, deleted, life>>,
           Risen \/ Standing \/ Leaving \/ Failing \/ Fallen,
           told' = "down" => told = "down" \/ (Resting' /\ ctrl' = "DOWN"),
           ctrl' = ctrl \/ ctrl' \in {"STOPPING", "DOWN"}
               \/ (ctrl = "STARTING" /\ ctrl' = "UP"),
           ctrl' = "STARTING" => told' = told,
           completed' => completed \/ core = "down",
           Leaving' <=> Leaving,
           \/ Resting' \/ Risen' \/ Standing' \/ Leaving' \/ Failing' \/ Fallen'
    PROVE  WaitInv'
  <1>1. ~Resting
    BY DEF Risen, Standing, Leaving, Failing, Fallen, Resting, CoreQuiet, CoreFree,
           Published, Releases
  <1>2. PhaseInv'
    BY DEF WaitInv, PhaseInv
  <1>3. pc["mon"][1] = "core" => core' = "up"
    <2>1. ~Faulting
      BY DEF Risen, Standing, Leaving, Failing, Fallen, Faulting, CoreFree, Published
    <2> QED
      BY <2>1 DEF WaitInv, TakeInv
  <1>4. completed' => core' \in {"down", "gone"}
    BY DEF WaitInv, DownInv
  <1>5. ~Taking("core", n, d) /\ ~Releases(d) /\ d \notin {"cancel", "rel_cancel"}
    BY ThreadFacts DEF Taking, Releases, Callbacks
  <1> QED
    BY <1>1, <1>2, <1>3, <1>4, <1>5, WaitOfCore

LEMMA WaitOfCallbackBegins ==
    ASSUME RefInv, WaitInv, CallbackBegins
    PROVE  WaitInv'
  <1>1. /\ "core" \in Threads
        /\ UNCHANGED <<core, ctrl, asked, completed, told, deleted, life>>
    BY ThreadFacts DEF CallbackBegins, coreVars, ghosts
  <1>2. CASE Is("core", "up_cb") /\ To("core", "calc") /\ UNCHANGED doing
    <2>1. pc["core"][1] = "up_cb" /\ doing["core"] = "up_cb"
      BY <1>2, LabelFacts, CoreFits DEF CoreSteps, StopSteps
    <2>2. /\ Moves("core", "calc", "up_cb") /\ pc'["core"][1] = "calc"
          /\ doing'["core"] = "up_cb"
      BY <1>1, <1>2, <2>1, Names DEF Moves
    <2>3. Risen
      BY <2>1, PhaseOf
    <2>4. Risen' /\ ~Leaving /\ ~Leaving'
      BY <1>1, <2>2, <2>3 DEF Risen, Published, Leaving
    <2> QED
      BY <1>1, <2>2, <2>3, <2>4, WaitOfCallback DEF Callbacks
  <1>3. CASE Is("core", "fail_cb") /\ To("core", "stopping") /\ UNCHANGED doing
    <2>1. pc["core"][1] = "fail_cb" /\ doing["core"] \in {"fail_cb", "cancel_cb"}
      BY <1>3, LabelFacts, CoreFits DEF CoreSteps, StopSteps
    <2>2. Failing /\ doing["core"] = "fail_cb"
      BY <2>1, PhaseOf
    <2>3. /\ Moves("core", "stopping", "fail_cb") /\ pc'["core"][1] = "stopping"
          /\ doing'["core"] = "fail_cb"
      BY <1>1, <1>3, <2>2, Names DEF Moves
    <2>4. Failing' /\ ~Leaving /\ ~Leaving'
      BY <1>1, <2>1, <2>2, <2>3 DEF Failing, Leaving
    <2> QED
      BY <1>1, <2>2, <2>3, <2>4, WaitOfCallback DEF Callbacks
  <1>4. CASE /\ Is("core", "down_cb")
             /\ IF core = "down" THEN To("core", "stop") /\ UNCHANGED doing
                                 ELSE Return("core")
    <2>1. pc["core"][1] = "down_cb" /\ doing["core"] = "down_cb"
      BY <1>4, LabelFacts, CoreFits DEF CoreSteps, StopSteps
    <2>2. Fallen /\ core = "down"
      BY <2>1, PhaseOf DEF Fallen
    <2>3. /\ Moves("core", "stop", "down_cb") /\ pc'["core"][1] = "stop"
          /\ doing'["core"] = "down_cb"
      BY <1>1, <1>4, <2>1, <2>2, Names DEF Moves
    <2>4. Fallen' /\ ~Leaving /\ ~Leaving'
      BY <1>1, <2>1, <2>2, <2>3 DEF Fallen, Leaving
    <2> QED
      BY <1>1, <2>2, <2>3, <2>4, WaitOfCallback DEF Callbacks
  <1>5. CASE Is("core", "async_cb")
    <2>1. pc["core"][1] = "async_cb" /\ doing["core"] = "async_cb"
      BY <1>5, LabelFacts, CoreFits DEF CoreSteps, StopSteps
    <2>2. Fallen /\ core = "down" /\ ctrl = "STOPPING"
      BY <2>1, PhaseOf DEF Fallen
    <2>3. CASE To("core", "stop") /\ UNCHANGED doing
      <3>1. /\ Moves("core", "stop", "async_cb") /\ pc'["core"][1] = "stop"
            /\ doing'["core"] = "async_cb"
        BY <1>1, <2>1, <2>3, Names DEF Moves
      <3>2. Fallen' /\ ~Leaving /\ ~Leaving'
        BY <1>1, <2>1, <2>2, <3>1 DEF Fallen, Leaving
      <3> QED
        BY <1>1, <2>2, <3>1, <3>2, WaitOfCallback DEF Callbacks
    <2>4. CASE Return("core")
      <3>1. /\ Moves("core", "idle", "none") /\ pc'["core"][1] = "idle"
            /\ doing'["core"] = "none"
        BY <1>1, <2>4, Names DEF Moves
      <3>2. Resting' /\ ~Leaving /\ ~Leaving'
        BY <1>1, <2>2, <3>1 DEF Resting, CoreQuiet, Leaving
      <3> QED
        BY <1>1, <2>2, <3>1, <3>2, WaitOfCallback
    <2> QED
      BY <1>5, <2>3, <2>4, LabelFacts DEF CallbackBegins, Is, At
  <1> QED
    BY <1>2, <1>3, <1>4, <1>5 DEF CallbackBegins

LEMMA WaitOfCallbackEnds ==
    ASSUME RefInv, WaitInv, CallbackEnds, UNCHANGED <<life, deleted, core, asked>>
    PROVE  WaitInv'
  <1>1. "core" \in Threads
    BY ThreadFacts
  <1>2. CASE Is("core", "publish") /\ ctrl' = "UP" /\ To("core", "notify")
             /\ UNCHANGED <<completed, doing, told>>
    <2>1. pc["core"][1] = "publish" /\ doing["core"] = "up_cb"
      BY <1>2, LabelFacts, CoreFits DEF CoreSteps, StopSteps
    <2>2. Risen
      BY <2>1, PhaseOf
    <2>3. /\ Moves("core", "notify", "up_cb") /\ pc'["core"][1] = "notify"
          /\ doing'["core"] = "up_cb"
      BY <1>1, <1>2, <2>1, Names DEF Moves
    <2>4. Standing' /\ ~Leaving /\ ~Leaving'
      BY <1>2, <2>2, <2>3 DEF Risen, Standing, Leaving, CoreFree, Published
    <2>5. ctrl = "STARTING" /\ told # "down"
      BY <2>2 DEF Risen, WaitInv, LiftInv
    <2> QED
      BY <1>2, <2>2, <2>3, <2>4, <2>5, WaitOfCallback DEF Callbacks
  <1>3. CASE Is("core", "stopping") /\ To("core", "flush")
             /\ ctrl' = (IF ctrl = "DOWN" THEN "DOWN" ELSE "STOPPING")
             /\ UNCHANGED <<completed, doing, told>>
    <2>1. pc["core"][1] = "stopping" /\ doing["core"] \in {"fail_cb", "cancel_cb"}
      BY <1>3, LabelFacts, CoreFits DEF CoreSteps, StopSteps
    <2>2. Failing /\ doing["core"] = "fail_cb"
      BY <2>1, PhaseOf
    <2>3. /\ Moves("core", "flush", "fail_cb") /\ pc'["core"][1] = "flush"
          /\ doing'["core"] = "fail_cb"
      BY <1>1, <1>3, <2>2, Names DEF Moves
    <2>4. Failing' /\ ~Leaving /\ ~Leaving' /\ ctrl' = "STOPPING"
      BY <1>3, <2>1, <2>2, <2>3 DEF Failing, Leaving
    <2>5. ctrl = "STARTING" /\ told # "down"
      BY <2>1, <2>2 DEF Failing, WaitInv, LiftInv
    <2> QED
      BY <1>3, <2>2, <2>3, <2>4, <2>5, WaitOfCallback DEF Callbacks
  <1>7. CASE Is("core", "flush") /\ To("core", "settle")
             /\ UNCHANGED <<ctrl, completed, doing, told>>
    <2>1. pc["core"][1] = "flush"
          /\ doing["core"] \in {"fail_cb", "cancel_cb", "down_cb", "async_cb", "fault_cb"}
      BY <1>7, LabelFacts, CoreFits DEF CoreSteps, StopSteps
    <2>2. /\ doing["core"] # "cancel_cb"
          /\ doing["core"] = "fail_cb" => Failing
          /\ doing["core"] # "fail_cb" => Fallen
      BY <2>1, PhaseOf
    <2>3. /\ Moves("core", "settle", doing["core"]) /\ pc'["core"][1] = "settle"
          /\ doing'["core"] = doing["core"]
      BY <1>1, <1>7, Names DEF Moves
    <2>4. ~Leaving /\ ~Leaving' /\ ctrl = "STOPPING"
      BY <1>7, <2>1, <2>2, <2>3 DEF Failing, Fallen, Leaving
    <2>5. Failing' \/ Fallen'
      BY <1>7, <2>1, <2>2, <2>3 DEF Failing, Fallen
    <2> QED
      BY <1>7, <2>1, <2>2, <2>3, <2>4, <2>5, WaitOfCallback DEF Callbacks
  <1>4. CASE Is("core", "settle") /\ To("core", "complete") /\ ctrl' = "DOWN"
             /\ UNCHANGED <<completed, doing, told>>
    <2>1. pc["core"][1] = "settle"
          /\ doing["core"] \in {"fail_cb", "cancel_cb", "down_cb", "async_cb", "fault_cb"}
      BY <1>4, LabelFacts, CoreFits DEF CoreSteps, StopSteps
    <2>2. /\ doing["core"] # "cancel_cb"
          /\ doing["core"] = "fail_cb" => Failing
          /\ doing["core"] # "fail_cb" => Fallen
      BY <2>1, PhaseOf
    <2>3. /\ Moves("core", "complete", doing["core"]) /\ pc'["core"][1] = "complete"
          /\ doing'["core"] = doing["core"]
      BY <1>1, <1>4, Names DEF Moves
    <2>4. ~Leaving /\ ~Leaving' /\ told # "down"
      BY <1>4, <2>1, <2>2, <2>3 DEF Failing, Fallen, Leaving, WaitInv, LiftInv
    <2>5. Failing' \/ Fallen'
      BY <1>4, <2>1, <2>2, <2>3 DEF Failing, Fallen
    <2> QED
      BY <1>4, <2>1, <2>2, <2>3, <2>4, <2>5, WaitOfCallback DEF Callbacks
  <1>5. CASE Is("core", "complete") /\ To("core", "notify") /\ completed' = TRUE
             /\ UNCHANGED <<ctrl, doing, told>>
    <2>1. pc["core"][1] = "complete"
          /\ doing["core"] \in {"fail_cb", "cancel_cb", "down_cb", "async_cb", "fault_cb"}
      BY <1>5, LabelFacts, CoreFits DEF CoreSteps, StopSteps
    <2>2. /\ doing["core"] # "cancel_cb"
          /\ doing["core"] = "fail_cb" => Failing
          /\ doing["core"] # "fail_cb" => Fallen
      BY <2>1, PhaseOf
    <2>3. /\ Moves("core", "notify", doing["core"]) /\ pc'["core"][1] = "notify"
          /\ doing'["core"] = doing["core"]
      BY <1>1, <1>5, Names DEF Moves
    <2>4. ~Leaving /\ ~Leaving' /\ core = "down"
      BY <1>5, <2>1, <2>2, <2>3 DEF Failing, Fallen, Leaving
    <2>5. Failing' \/ Fallen'
      BY <1>5, <2>1, <2>2, <2>3 DEF Failing, Fallen
    <2> QED
      BY <1>5, <2>1, <2>2, <2>3, <2>4, <2>5, WaitOfCallback DEF Callbacks
  <1>6. CASE Is("core", "notify") /\ UNCHANGED <<ctrl, completed>>
    <2>1. pc["core"][1] = "notify" /\ doing["core"] # "cancel_cb"
          /\ doing["core"] \in {"up_cb", "fail_cb", "cancel_cb", "down_cb", "async_cb",
                                "fault_cb"}
      BY <1>6, LabelFacts, CoreFits, PhaseOf DEF CoreSteps, StopSteps
    <2>2. told' = IF doing["core"] = "up_cb" THEN "up" ELSE "down"
      BY <2>1 DEF CallbackEnds, Is, At
    <2>3. CASE doing["core"] = "up_cb"
      <3>1. Return("core")
        BY <2>1, <2>3 DEF CallbackEnds, Is, At
      <3>2. /\ Moves("core", "idle", "none") /\ pc'["core"][1] = "idle"
            /\ doing'["core"] = "none"
        BY <1>1, <3>1, Names DEF Moves
      <3>3. Standing \/ Leaving
        BY <2>1, <2>3, PhaseOf
      <3>4. /\ Leaving' <=> Leaving
            /\ Standing' \/ Leaving'
            /\ ctrl # "STARTING"
        BY <1>6, <2>1, <2>3, <3>2, <3>3 DEF Standing, Leaving, CoreFree, Published
      <3> QED
        BY <1>6, <2>2, <2>3, <3>2, <3>3, <3>4, WaitOfCallback
    <2>4. CASE doing["core"] = "async_cb"
      <3>1. To("core", "put") /\ UNCHANGED doing
        BY <2>1, <2>4 DEF CallbackEnds, Is, At
      <3>2. /\ Moves("core", "put", "async_cb") /\ pc'["core"][1] = "put"
            /\ doing'["core"] = "async_cb"
        BY <1>1, <2>4, <3>1, Names DEF Moves
      <3>3. Fallen
        BY <2>1, <2>4, PhaseOf
      <3>4. Resting' /\ ctrl' = "DOWN" /\ ~Leaving /\ ~Leaving' /\ ctrl # "STARTING"
            /\ core = "down"
        BY <1>6, <2>1, <3>2, <3>3 DEF Fallen, Resting, CoreQuiet, Leaving
      <3> QED
        BY <1>6, <2>2, <2>4, <3>2, <3>3, <3>4, WaitOfCallback DEF Callbacks
    <2>5. CASE doing["core"] \in {"fail_cb", "down_cb", "fault_cb"}
      <3>1. Return("core")
        BY <2>1, <2>5 DEF CallbackEnds, Is, At
      <3>2. /\ Moves("core", "idle", "none") /\ pc'["core"][1] = "idle"
            /\ doing'["core"] = "none"
        BY <1>1, <3>1, Names DEF Moves
      <3>3. Failing \/ Fallen
        BY <2>1, <2>5, PhaseOf
      <3>4. Resting' /\ ctrl' = "DOWN" /\ ~Leaving /\ ~Leaving' /\ ctrl # "STARTING"
            /\ core = "down"
        BY <1>6, <2>1, <2>5, <3>2, <3>3 DEF Failing, Fallen, Resting, CoreQuiet, Leaving
      <3> QED
        BY <1>6, <2>2, <2>5, <3>2, <3>3, <3>4, WaitOfCallback
    <2> QED
      BY <2>1, <2>3, <2>4, <2>5
  <1> QED
    BY <1>2, <1>3, <1>4, <1>5, <1>6, <1>7 DEF CallbackEnds

-----------------------------------------------------------------------------
(* The steps any thread may be at *)

(* Nothing gives a reference of an object that has none. *)
LEMMA ZeroKept ==
    ASSUME RefInv, Next, refs = 0
    PROVE  refs' = 0
  <1>1. \A t \in Threads : ~Holds(t, pc[t][1], doing[t])
    BY HoldsLive
  <1>2. deleted
    BY FirstLive
  <1>3. ASSUME NEW t \in Threads, Put(t)
        PROVE  FALSE
    <2>1. pc[t][1] = "put"
      BY <1>3, LabelFacts DEF Put
    <2>2. CASE t \in Clients
      <3>1. doing[t] \in Refs \cup {"cancel"}
        BY <2>1, <2>2, ClientFits DEF FitsClient, ClientSteps, StopSteps, Refs
      <3> QED
        BY <1>1, <2>1, <2>2, <3>1, ClientHolds
    <2>3. CASE t = "core"
      <3>1. doing[t] = "async_cb"
        BY <2>1, <2>3, CoreFits DEF CoreSteps, StopSteps
      <3> QED
        BY <1>1, <2>1, <2>3, <3>1, CoreFits
    <2>4. CASE t = "mon"
      BY <1>1, <2>1, <2>4, MonFits
    <2> QED
      BY <2>2, <2>3, <2>4, ThreadFacts
  <1>4. ASSUME NEW t \in Threads, AnyThread(t)
        PROVE  refs' = refs
    BY <1>3, <1>4 DEF AnyThread, MonStep, CoreDown, Await, Release, CoreDel, FreeObject, link
  <1>5. ASSUME NEW c \in Clients, Del(c)
        PROVE  refs' = refs
    <2>1. pc[c][1] # "del"
      BY <1>2, ClientFits DEF RefInv, DelInv
    <2> QED
      BY <1>5, <2>1, LabelFacts DEF Del, link
  <1>6. ASSUME NEW c \in Clients, ClientStep(c)
        PROVE  refs' = refs
    BY <1>5, <1>6 DEF ClientStep, Call, TakeRef, LinkDown, Reset, LinkUp, PolicyOrRead, link
  <1>7. CASE CoreStep
    BY <1>7 DEF CoreStep, CoreEnds, CallbackBegins, link
  <1>8. CASE MonTimer
    BY <1>8 DEF MonTimer, link
  <1>9. CASE MonWork
    BY <1>9 DEF MonWork, AsyncDown, link
  <1> QED
    BY <1>4, <1>6, <1>7, <1>8, <1>9 DEF Next

(* A core is deleted by the one who put the last reference. *)
GoneFree == core = "gone" => refs = 0

LEMMA GoneFreeKept ==
    ASSUME RefInv, GoneFree, Next
    PROVE  GoneFree'
  <1>1. CASE core = "gone"
    BY <1>1, ZeroKept DEF GoneFree
  <1>2. ASSUME NEW t \in Threads, AnyThread(t), core' = "gone", core # "gone"
        PROVE  refs' = 0
    <2>1. CoreDel(t)
      BY <1>2 DEF AnyThread, Put, MonStep, CoreDown, Await, Release, FreeObject, coreVars
    <2>2. pc[t][1] = "unlink"
      BY <2>1, LabelFacts DEF CoreDel
    <2>3. refs = 0
      BY <2>2, StepFacts DEF RefInv, ReleaseInv
    <2> QED
      BY <2>1, <2>3 DEF CoreDel, link
  <1>3. ASSUME core' = "gone", core # "gone", ~ \E t \in Threads : AnyThread(t)
        PROVE  FALSE
    <2>1. ASSUME NEW c \in Clients, ClientStep(c)
          PROVE  FALSE
      BY <1>3, <2>1 DEF ClientStep, Call, TakeRef, Del, LinkDown, Reset, LinkUp, PolicyOrRead,
                   coreVars
    <2>2. CASE CoreStep
      BY <1>3, <2>2 DEF CoreStep, CoreEnds, Fault, CallbackBegins, coreVars
    <2>3. CASE MonTimer \/ MonWork
      BY <1>3, <2>3 DEF MonTimer, MonWork, AsyncDown, coreVars
    <2> QED
      BY <1>3, <2>1, <2>2, <2>3 DEF Next
  <1> QED
    BY <1>1, <1>2, <1>3 DEF GoneFree

(* A core that is quiet, and stays it *)
LEMMA WaitOfQuiet ==
    ASSUME RefInv, WaitInv, NEW n, NEW d, Moves("core", n, d), n # "reset",
           d \notin {"cancel", "rel_cancel"}, Taking("core", n, d) => Takes("core"),
           Releases(d) /\ n # "release" => ctrl \in {"DOWN", "STOPPING"},
           UNCHANGED linkVars, UNCHANGED asked, Resting \/ Rising,
           \/ d = "none" \/ Releases(d)
           \/ d = "async_cb" /\ n = "put"
    PROVE  WaitInv'
  <1>1. pc'["core"][1] = n /\ doing'["core"] = d
    BY ThreadFacts DEF Moves
  <1>2. UNCHANGED <<core, ctrl>>
    BY DEF linkVars
  <1>3. CoreQuiet'
    BY <1>1 DEF CoreQuiet
  <1>4. (Resting' <=> Resting) /\ (Rising' <=> Rising)
    BY <1>2, <1>3, PhaseOf DEF Resting, Rising
  <1>5. core # "leaving"
    BY DEF Resting, Rising
  <1>6. ~Leaving /\ ~Leaving'
    BY <1>2, <1>5 DEF Leaving
  <1>7. PhaseInv'
    BY <1>4, <1>6, NotLeaving DEF PhaseInv
  <1>8. pc["mon"][1] = "core" => core = "up"
    BY <1>5 DEF WaitInv, TakeInv, Faulting
  <1> QED
    BY <1>2, <1>4, <1>7, <1>8, WaitOfCoreOn

LEMMA WaitOfPut ==
    ASSUME RefInv, WaitInv, NEW t \in Threads, Put(t)
    PROVE  WaitInv'
  <1>1. UNCHANGED <<core, ctrl, asked, completed, told, deleted, life>>
    BY DEF Put, coreVars, ghosts
  <1>2. PICK n, d : /\ Moves(t, n, d)
                    /\ (n = "release" /\ d = "release") \/ (n = "idle" /\ d = "none")
    BY Names DEF Put
  <1>3. pc[t][1] = "put"
    BY LabelFacts DEF Put
  <1>4. CASE t = "core"
    <2>1. doing["core"] = "async_cb"
      BY <1>3, <1>4, CoreFits DEF CoreSteps, StopSteps
    <2>2. Resting \/ Rising
      BY <1>3, <1>4, <2>1, PhaseOf
    <2> QED
      BY <1>1, <1>2, <1>4, <2>2, WaitOfQuiet DEF Taking, Releases, linkVars
  <1>5. CASE t # "core"
    <2>1. pc'[t] # <<"reset", "done">>
      BY <1>2 DEF Moves
    <2>2. Calm(t, n, d)
      BY <1>2, <2>1 DEF Calm, Lifting, Taking, Releases
    <2> QED
      BY <1>1, <1>2, <1>5, <2>2, WaitOfCalm
  <1> QED
    BY <1>4, <1>5

LEMMA MonStepMoves ==
    ASSUME RefInv, NEW t \in Threads, MonStep(t)
    PROVE  \E n : /\ Moves(t, n, doing[t])
                  /\ pc[t][1] \in {"calc", "start"} => n \in {"stop", "start", "publish", "put"}
                  /\ pc[t][1] \in {"stop", "delete", "wait"} =>
                        \/ n \in {"delete", "wait"}
                        \/ /\ n \in {"put", "publish", "unlock", "flush", "core"}
                           /\ Step(n) = AfterStop(t) /\ t # "mon" /\ pc["mon"] = Idle
                  /\ pc[t][1] \in {"calc", "start", "stop", "delete", "wait"}
  <1>1. UNCHANGED doing
    BY DEF MonStep
  <1>2. PICK a \in {"put", "publish", "unlock", "flush", "core"} : AfterStop(t) = Step(a)
    BY DEF AfterStop
  <1>3. CASE MonStart(t)
    <2>1. PICK n \in {"stop", "start", "publish", "put"} : To(t, n)
      BY <1>3 DEF MonStart
    <2>2. Moves(t, n, doing[t])
      BY <1>1, <2>1, Names
    <2>3. pc[t][1] \in {"calc", "start"}
      BY <1>3, LabelFacts DEF MonStart
    <2> QED
      BY <2>1, <2>2, <2>3
  <1>4. CASE MonStop(t)
    <2>1. pc[t][1] \in {"stop", "delete", "wait"}
      BY <1>4, LabelFacts DEF MonStop, Waited
    <2>2. CASE To(t, "delete") \/ Go(t, <<"wait", "mon">>)
      <3>1. \E n \in {"delete", "wait"} : Moves(t, n, doing[t])
        BY <1>1, <2>2, Names, MovesOn
      <3> QED
        BY <2>1, <3>1
    <2>3. CASE Waited(t, "wait", "mon") /\ Go(t, AfterStop(t))
      <3>1. Moves(t, a, doing[t])
        BY <1>1, <1>2, <2>3, Names DEF To
      <3>2. pc["mon"] = Idle /\ t # "mon"
        BY <2>3 DEF Waited, At, Idle
      <3> QED
        BY <1>2, <2>1, <3>1, <3>2
    <2> QED
      BY <1>4, <2>2, <2>3 DEF MonStop, Cancel
  <1> QED
    BY <1>3, <1>4 DEF MonStep

LEMMA WaitOfMonStep ==
    ASSUME RefInv, WaitInv, NEW t \in Threads, MonStep(t)
    PROVE  WaitInv'
  <1>1. UNCHANGED <<core, ctrl, asked, completed, told, deleted, life>>
    BY DEF MonStep, link, coreVars
  <1>2. PICK n : /\ Moves(t, n, doing[t])
                 /\ pc[t][1] \in {"calc", "start"} => n \in {"stop", "start", "publish", "put"}
                 /\ pc[t][1] \in {"stop", "delete", "wait"} =>
                       \/ n \in {"delete", "wait"}
                       \/ /\ n \in {"put", "publish", "unlock", "flush", "core"}
                          /\ Step(n) = AfterStop(t) /\ t # "mon" /\ pc["mon"] = Idle
                 /\ pc[t][1] \in {"calc", "start", "stop", "delete", "wait"}
    BY MonStepMoves
  <1>3. doing[t] \notin {"up", "cancel", "rel_cancel", "fail_cb", "none", "release"}
    BY <1>2, StepFacts DEF WaitInv, TakeInv
  <1>4. Taking(t, n, doing[t]) => Takes(t)
    BY <1>2, StepFacts DEF Taking, Takes, StopSteps
  <1>5. CASE t # "core"
    <2>1. pc'[t] # <<"reset", "done">>
      BY <1>2 DEF Moves
    <2>2. Calm(t, n, doing[t])
      BY <1>2, <1>3, <1>4, <2>1 DEF Calm, Lifting
    <2> QED
      BY <1>1, <1>2, <1>5, <2>2, WaitOfCalm
  <1>6. CASE t = "core"
    <2> DEFINE d == doing["core"]
    <2>1. pc'["core"][1] = n /\ doing'["core"] = d /\ doing["core"] = d
      BY <1>2, <1>6, ThreadFacts DEF Moves
    <2>2. \/ d = "up_cb" \/ d = "fault" \/ Releases(d)
          \/ d \in {"down_cb", "async_cb", "fault_cb"}
      BY <1>2, <1>6, StepFacts, ThreadFacts DEF Releases
    <2>3. n \notin {"notify", "reset", "release"} /\ UNCHANGED linkVars
      BY <1>1, <1>2 DEF linkVars
    <2> HIDE DEF d
    <2>4. CASE d = "up_cb"
      <3>1. Risen
        BY <1>2, <1>6, <2>1, <2>4, PhaseOf
      <3>2. Risen' /\ ~Leaving' /\ ~Leaving /\ ~Resting /\ core = "up"
        BY <1>1, <2>1, <2>3, <2>4, <3>1 DEF Risen, Published, Leaving, Resting
      <3>3. PhaseInv'
        BY <1>1, <3>2, NotLeaving DEF PhaseInv
      <3> QED
        BY <1>2, <1>4, <1>6, <2>1, <2>3, <2>4, <3>2, <3>3, WaitOfCoreOn DEF Releases
    <2>5. CASE d = "fault"
      <3>1. Faulting /\ pc["core"][1] # "fault_ctrl"
        BY <1>2, <1>6, <2>1, <2>5, PhaseOf
      <3>2. Faulting' /\ ~Leaving' /\ ~Leaving /\ ~Resting /\ core = "leaving"
        BY <1>1, <2>1, <2>5, <3>1 DEF Faulting, CoreFree, Published, Leaving, Resting
      <3>3. PhaseInv'
        BY <1>1, <3>2, NotLeaving DEF PhaseInv
      <3>4. pc["mon"][1] = "core" => n \notin {"unlock", "off"}
        BY <1>2, <1>6, LabelFacts
      <3> QED
        BY <1>2, <1>4, <1>6, <2>1, <2>3, <2>5, <3>2, <3>3, <3>4, WaitOfCoreOn DEF Releases
    <2>6. CASE d \in {"down_cb", "async_cb", "fault_cb"}
      <3>1. Fallen /\ pc["core"][1] \notin {"complete", "notify"}
        BY <1>2, <1>6, <2>1, <2>6, PhaseOf
      <3>2. n \in {"delete", "wait", "flush"}
        BY <1>2, <1>6, <2>1, <2>6, StepFacts DEF AfterStop, Step
      <3>3. Fallen' /\ ~Leaving' /\ ~Leaving /\ ~Resting
        BY <1>1, <2>1, <2>6, <3>1, <3>2 DEF Fallen, Leaving, Resting, CoreQuiet, Releases
      <3>4. PhaseInv'
        BY <1>1, <3>3, NotLeaving DEF PhaseInv
      <3>5. pc["mon"][1] # "core"
        BY <3>1 DEF Fallen, WaitInv, TakeInv, Faulting
      <3> QED
        BY <1>2, <1>4, <1>6, <2>1, <2>3, <2>6, <3>3, <3>4, <3>5, WaitOfCoreOn DEF Releases
    <2>7. CASE Releases(d)
      <3>1. Resting \/ Rising
        BY <2>1, <2>7, PhaseOf
      <3>2. ctrl \in {"DOWN", "STOPPING"}
        BY <1>2, <1>6, <2>1, <2>7 DEF WaitInv, TakeInv
      <3> QED
        BY <1>1, <1>2, <1>3, <1>4, <1>6, <2>1, <2>3, <2>7, <3>1, <3>2, WaitOfQuiet
    <2> QED
      BY <2>2, <2>4, <2>5, <2>6, <2>7
  <1> QED
    BY <1>5, <1>6

LEMMA WaitOfAwait ==
    ASSUME RefInv, WaitInv, GoneFree, NEW t \in Threads, Await(t)
    PROVE  WaitInv'
  <1>1. UNCHANGED <<core, ctrl, asked, completed, told, deleted, life, doing>>
    BY DEF Await, link, coreVars, ghosts
  <1>2. pc[t][1] = "await"
    BY LabelFacts DEF Await
  <1>3. PICK n : /\ Moves(t, n, doing[t])
                 /\ doing[t] = "reset" => n = "reset"
                 /\ doing[t] # "reset" => n = "unlink"
    BY <1>1, Names, MovesOn DEF Await
  <1>4. doing[t] \in {"reset", "release", "rel_cancel", "rel_down"}
    <2>1. CASE t \in Clients
      BY <1>2, <2>1, ClientFits DEF FitsClient, ClientSteps, StopSteps
    <2>2. CASE t = "core"
      BY <1>2, <2>2, CoreFits DEF CoreSteps, StopSteps
    <2>3. CASE t = "mon"
      BY <1>2, <2>3, MonFits DEF MonSteps
    <2> QED
      BY <2>1, <2>2, <2>3, ThreadFacts
  <1>5. doing[t] # "rel_cancel"
    BY DEF WaitInv, TakeInv
  <1>6. CASE t = "core"
    <2>1. doing["core"] # "reset" /\ Releases(doing["core"])
      BY <1>4, <1>6, StepFacts, ThreadFacts DEF Releases
    <2>2. ctrl \in {"DOWN", "STOPPING"}
      BY <1>2, <1>6, <2>1 DEF WaitInv, TakeInv
    <2> QED
      BY <1>1, <1>3, <1>4, <1>5, <1>6, <2>1, <2>2, PhaseOf, WaitOfQuiet
         DEF Taking, StopSteps, linkVars
  <1>7. CASE t # "core"
    <2>1. pc'[t] = <<"reset", "done">> => core = "down"
      <3>1. CASE doing[t] = "reset"
        <4>1. t \in Clients
          BY <3>1, StepFacts
        <4>2. refs > 0
          BY <1>2, <3>1, <4>1, ClientHolds, HoldsLive DEF Refs
        <4>3. pc'[t] = <<"reset", "done">> => completed
          <5>1. ~completed => Go(t, <<"reset", "late">>)
            BY <3>1 DEF Await
          <5>2. ~completed => pc'[t] = <<"reset", "late">>
            BY <5>1, <1>1, Stays, Moved DEF RefInv
          <5>3. <<"reset", "late">> # <<"reset", "done">>
            OBVIOUS
          <5> QED
            BY <5>2, <5>3
        <4> QED
          BY <4>2, <4>3 DEF WaitInv, DownInv, GoneFree
      <3>2. CASE doing[t] # "reset"
        BY <1>3, <3>2 DEF Moves
      <3> QED
        BY <3>1, <3>2
    <2>2. Calm(t, n, doing[t])
      BY <1>2, <1>3, <1>4, <2>1 DEF Calm, Lifting, Taking, StopSteps
    <2> QED
      BY <1>1, <1>3, <1>7, <2>2, WaitOfCalm
  <1> QED
    BY <1>6, <1>7

LEMMA WaitOfRelease ==
    ASSUME RefInv, WaitInv, NEW t \in Threads, Release(t), ~raced'
    PROVE  WaitInv'
  <1>1. UNCHANGED <<core, asked, completed, told, deleted, life>>
    BY DEF Release, coreVars
  <1>2. pc[t][1] = "release"
    BY LabelFacts DEF Release
  <1>3. doing[t] = "release" /\ Releases(doing[t])
    BY <1>2, StepFacts DEF Releases
  <1>4. CASE Stopped(t)
    <2>1. /\ ctrl \in {"UP", "UP_DOWN_REQ"} /\ ctrl' = "STOPPING" /\ t # "core"
          /\ \E d \in {doing[t], "rel_down"} : Moves(t, "stop", d) /\ Taking(t, "stop", d)
      BY <1>2, <1>4, StoppedUp
    <2> QED
      BY <1>1, <2>1, WaitOfTaking
  <1>5. CASE ctrl = "DOWN" /\ To(t, "unlink") /\ UNCHANGED <<ctrl, doing>>
    <2>1. Moves(t, "unlink", "release")
      BY <1>3, <1>5, Names
    <2>2. CASE t = "core"
      <3>1. Resting \/ Rising
        BY <1>3, <2>2, PhaseOf
      <3> QED
        BY <1>1, <1>3, <1>5, <2>1, <2>2, <3>1, WaitOfQuiet DEF Taking, linkVars
    <2>3. CASE t # "core"
      <3>1. pc'[t] # <<"reset", "done">>
        BY <2>1 DEF Moves
      <3>2. Calm(t, "unlink", "release")
        BY <1>3, <1>5, <3>1 DEF Calm, Lifting, Taking
      <3> QED
        BY <1>1, <1>5, <2>1, <2>3, <3>2, WaitOfCalm
    <2> QED
      BY <2>2, <2>3
  <1>6. \/ Stopped(t)
        \/ ctrl = "DOWN" /\ To(t, "unlink") /\ UNCHANGED <<ctrl, doing>>
    <2>1. CASE ctrl = "STOPPING" /\ raced' = (raced \/ ctrl = "STOPPING")
      BY <2>1
    <2> QED
      BY <2>1 DEF Release
  <1> QED
    BY <1>4, <1>5, <1>6

LEMMA WaitOfCoreDel ==
    ASSUME RefInv, WaitInv, NEW t \in Threads, CoreDel(t)
    PROVE  WaitInv'
  <1>1. /\ UNCHANGED <<ctrl, completed, told, deleted, life, doing>>
        /\ core' = "gone" /\ asked' = "none" /\ pc["core"][1] = "idle"
        /\ pc[t][1] = "unlink"
    BY LabelFacts DEF CoreDel, link, ghosts
  <1>2. t # "core" /\ Releases(doing[t]) /\ ctrl \in {"DOWN", "STOPPING"}
    BY <1>1, StepFacts DEF WaitInv, TakeInv
  <1>3. Moves(t, "free", doing[t])
    BY <1>1, Names DEF CoreDel
  <1>4. \A u \in Threads : ~Holds(u, pc[u][1], doing[u])
    BY <1>2, HoldsLive
  <1>5. Resting' /\ ~Leaving'
    <2>1. doing'["core"] = "none"
      BY <1>1, StepFacts, ThreadFacts
    <2> QED
      BY <1>1, <1>2, <2>1 DEF Resting, CoreQuiet, Leaving
  <1>6. PhaseInv'
    BY <1>1, <1>5 DEF PhaseInv
  <1>7. LiftInv'
    <2>1. \A c \in Clients : Lifting(pc'[c][1], doing'[c]) => pc[c][1] = "ref" /\ pc'[c] = pc[c]
      <3>1. \A c \in Clients : c # t /\ Lifting(pc[c][1], doing[c]) => pc[c][1] = "ref"
        BY <1>4, ClientHolds, ThreadFacts DEF Lifting, Refs
      <3>2. doing[t] # "up"
        BY <1>2 DEF Releases
      <3> QED
        BY <1>3, <3>1, <3>2, ThreadFacts DEF Moves, Lifting
    <2> QED
      BY <1>1, <1>2, <1>5, <2>1 DEF WaitInv, LiftInv
  <1>8. TakeInv'
    <2>1. \A u \in Threads : Takes(u)' => Takes(u)
      BY <1>3 DEF Moves, Takes, Taking, StopSteps
    <2>2. pc'["mon"][1] # "core"
      BY <1>3, <1>4, MonFits DEF Moves
    <2> QED
      BY <1>1, <1>2, <2>1, <2>2 DEF WaitInv, TakeInv
  <1>9. RivalInv' /\ DownInv'
    <2>1. \A u \in Threads : pc'[u] # <<"reset", "done">>
      <3>1. \A u \in Threads : pc[u] # <<"reset", "done">>
        <4>1. SUFFICES ASSUME NEW u \in Threads, pc[u] = <<"reset", "done">>
                       PROVE  FALSE
          OBVIOUS
        <4>2. pc[u][1] = "reset"
          BY <4>1
        <4>3. u \in Clients
          BY <4>2, ThreadFacts, CoreFits, MonFits DEF CoreSteps, MonSteps, StopSteps
        <4>4. doing[u] = "reset"
          BY <4>2, <4>3, ClientFits DEF FitsClient, ClientSteps, StopSteps
        <4> QED
          BY <1>4, <4>2, <4>3, <4>4, ClientHolds, ThreadFacts DEF Refs
      <3> QED
        BY <1>3, <3>1 DEF Moves
    <2> QED
      BY <1>1, <1>3, <2>1, RivalKept DEF WaitInv, DownInv
  <1> QED
    BY <1>6, <1>7, <1>8, <1>9 DEF WaitInv

LEMMA WaitOfFreeObject ==
    ASSUME RefInv, WaitInv, NEW t \in Threads, FreeObject(t)
    PROVE  WaitInv'
  <1>1. /\ UNCHANGED <<core, ctrl, asked, completed, told, deleted>>
        /\ pc[t][1] = "free"
    BY LabelFacts DEF FreeObject, coreVars, ghosts
  <1>2. ctrl \in {"DOWN", "STOPPING"}
    BY <1>1, StepFacts DEF WaitInv, TakeInv
  <1>3. t # "core"
    BY <1>1, LabelFacts DEF RefInv, GoneInv
  <1>4. Moves(t, "idle", "none")
    BY Names DEF FreeObject
  <1>5. pc'[t] # <<"reset", "done">>
    BY <1>4 DEF Moves
  <1>6. Calm(t, "idle", "none")
    BY <1>5 DEF Calm, Lifting, Taking, Releases
  <1> QED
    BY <1>1, <1>2, <1>3, <1>4, <1>6, WaitOfCalm

LEMMA WaitOfCoreDown ==
    ASSUME RefInv, WaitInv, NEW t \in Threads, CoreDown(t)
    PROVE  WaitInv'
  <1>1. /\ UNCHANGED <<ctrl, completed, told, deleted, life, doing>>
        /\ pc[t][1] = "core" /\ doing[t] # "up"
    BY LabelFacts DEF CoreDown, link, ghosts
  <1>2. /\ doing[t] \in {"down", "reset", "rel_down"} \/ (t = "mon" /\ doing[t] = "async_cb")
        /\ Takes(t)
    BY <1>1, StepFacts DEF WaitInv, TakeInv, Takes, Taking, StopSteps
  <1>3. PICK n \in {"put", "await"} : Moves(t, n, doing[t])
    BY <1>1, Names DEF CoreDown
  <1>4. Calm(t, n, doing[t])
    <2>1. pc'[t] # <<"reset", "done">>
      BY <1>3 DEF Moves
    <2> QED
      BY <1>1, <1>2, <1>3, <2>1 DEF Calm, Lifting, Taking, StopSteps
  <1>5. CASE UNCHANGED <<core, asked>> /\ t # "core"
    BY <1>1, <1>3, <1>4, <1>5, WaitOfCalm
  <1>6. CASE t = "core"
    <2>1. Releases(doing["core"]) /\ doing["core"] = "rel_down" /\ (Resting \/ Rising)
      BY <1>2, <1>6, StepFacts, ThreadFacts, PhaseOf DEF Releases
    <2>2. UNCHANGED <<core, asked>>
      BY <1>6, <2>1 DEF CoreDown, Resting, Rising
    <2>3. ctrl \in {"DOWN", "STOPPING"}
      BY <1>1, <1>6, <2>1 DEF WaitInv, TakeInv
    <2> QED
      BY <1>1, <1>3, <1>6, <2>1, <2>2, <2>3, WaitOfQuiet DEF Taking, StopSteps, linkVars
  <1>7. CASE core = "up" /\ core' = "leaving" /\ asked' \in {"down_cb", "async_cb"}
             /\ t # "core"
    <2>1. Standing /\ ctrl = "STOPPING"
      BY <1>2, <1>7 DEF WaitInv, PhaseInv, TakeInv, Resting, Rising, Risen, Standing, Leaving,
                        Faulting, Failing, Fallen
    <2>2. Leaving'
      <3>1. pc'["core"] = pc["core"] /\ doing'["core"] = doing["core"]
        BY <1>3, <1>7, ThreadFacts DEF Moves
      <3> QED
        BY <1>1, <1>7, <2>1, <3>1 DEF Leaving, Standing, CoreFree, Published
    <2>3. PhaseInv'
      BY <1>7, <2>2 DEF PhaseInv
    <2>4. ~Resting
      BY <1>7 DEF Resting
    <2>5. LiftInv'
      <3>1. \A c \in Clients : ~Lifting(pc'[c][1], doing'[c])
        BY <1>3, <1>4, <2>4, ThreadFacts DEF Moves, Calm, WaitInv, LiftInv
      <3> QED
        BY <1>1, <2>1, <2>4, <3>1 DEF WaitInv, LiftInv
    <2>6. TakeInv'
      <3>1. \A u \in Threads : Takes(u)' => Takes(u)
        BY <1>3, <1>4 DEF Moves, Calm, Takes
      <3>2. pc'["mon"][1] # "core"
        <4>1. CASE t = "mon"
          BY <1>3, <4>1 DEF Moves
        <4>2. CASE t # "mon"
          <5>1. ~Takes("mon")
            BY <1>2, <4>2, ThreadFacts DEF WaitInv, TakeInv
          <5> QED
            BY <1>3, <4>2, <5>1, ThreadFacts DEF Moves, Takes, Taking
        <4> QED
          BY <4>1, <4>2
      <3>3. \A u \in Threads : Releases(doing'[u]) /\ pc'[u][1] # "release"
              => ctrl \in {"DOWN", "STOPPING"}
        BY <2>1
      <3> QED
        BY <1>1, <3>1, <3>2, <3>3 DEF WaitInv, TakeInv
    <2>7. RivalInv' /\ DownInv'
      <3>1. ~completed /\ \A u \in Threads : pc[u] # <<"reset", "done">>
        BY <1>7 DEF WaitInv, DownInv
      <3>2. \A u \in Threads : pc'[u] # <<"reset", "done">>
        BY <1>3, <3>1 DEF Moves
      <3> QED
        BY <1>1, <1>3, <3>1, <3>2, RivalKept DEF WaitInv, DownInv
    <2> QED
      BY <2>3, <2>5, <2>6, <2>7 DEF WaitInv
  <1>8. \/ UNCHANGED <<core, asked>>
        \/ core = "up" /\ core' = "leaving" /\ asked' \in {"down_cb", "async_cb"}
    <2>1. doing[t] \notin {"cancel", "rel_cancel"}
      BY <1>2
    <2> QED
      BY <2>1 DEF CoreDown
  <1> QED
    BY <1>5, <1>6, <1>7, <1>8

LEMMA WaitOfAny ==
    ASSUME RefInv, WaitInv, GoneFree, NEW t \in Threads, AnyThread(t), ~raced'
    PROVE  WaitInv'
  BY WaitOfPut, WaitOfMonStep, WaitOfCoreDown, WaitOfAwait, WaitOfRelease, WaitOfCoreDel,
     WaitOfFreeObject DEF AnyThread

-----------------------------------------------------------------------------
(* The steps of the monitor *)

LEMMA MonFree ==
    ASSUME RefInv, pc["mon"][1] \in {"idle", "sample", "again", "judge", "async",
                                     "async_core"}
    PROVE  doing["mon"] = "none"
  BY MonFits DEF MonSteps

LEMMA WaitOfMonCalm ==
    ASSUME RefInv, WaitInv, NEW n, Go("mon", Step(n)), n \notin {"core", "reset"},
           pc["mon"][1] \in {"idle", "sample", "again", "judge", "async", "async_core"},
           UNCHANGED doing,
           UNCHANGED <<core, ctrl, asked, completed, told, deleted, life>>
    PROVE  WaitInv'
  <1>1. doing["mon"] = "none"
    BY MonFree
  <1>2. Moves("mon", n, "none") /\ "mon" \in Threads /\ "mon" # "core"
    BY <1>1, MonFits, Names DEF To
  <1>3. pc'["mon"] # <<"reset", "done">>
    BY <1>2 DEF Moves
  <1>4. Calm("mon", n, "none")
    BY <1>1, <1>2, <1>3 DEF Calm, Lifting, Taking, Releases
  <1> QED
    BY <1>2, <1>4, WaitOfCalm

LEMMA WaitOfRequest ==
    ASSUME RefInv, WaitInv, pc["mon"][1] = "async_core", Go("mon", Idle), UNCHANGED doing,
           ctrl \in {"UP", "UP_DOWN_REQ"}, ctrl' = "UP_DOWN_REQ",
           UNCHANGED <<core, asked, completed, told, deleted, life>>
    PROVE  WaitInv'
  <1>1. doing["mon"] = "none" /\ "mon" \in Threads /\ "mon" # "core"
    BY MonFree, MonFits
  <1>2. Moves("mon", "idle", "none")
    BY <1>1, MovesOn, LabelFacts
  <1>3. /\ Standing \/ (Faulting /\ pc["core"][1] = "fault_ctrl")
        /\ asked = "none" /\ told # "down" /\ life = "live"
        /\ \A t \in Threads : ~Takes(t)
        /\ \A t \in Threads : Releases(doing[t]) => pc[t][1] = "release"
        /\ \A c \in Clients : ~Lifting(pc[c][1], doing[c])
    BY UpFacts
  <1>4. /\ pc'["core"] = pc["core"] /\ doing'["core"] = doing["core"]
        /\ \A c \in Clients : pc'[c] = pc[c] /\ doing'[c] = doing[c]
        /\ \A t \in Threads : \/ pc'[t] = pc[t] /\ doing'[t] = doing[t]
                              \/ t = "mon" /\ pc'[t][1] = "idle" /\ doing'[t] = "none"
    BY <1>1, <1>2, ThreadFacts DEF Moves
  <1>5. PhaseInv'
    <2>1. ~Leaving /\ ~Leaving'
      BY <1>3, <1>4 DEF Leaving, Standing, Faulting, CoreFree, Published
    <2>2. Standing' \/ Faulting'
      BY <1>3, <1>4 DEF Standing, Faulting, CoreFree, Published
    <2> QED
      BY <1>3, <2>1, <2>2 DEF PhaseInv
  <1>6. LiftInv'
    BY <1>3, <1>4 DEF LiftInv
  <1>7. TakeInv'
    <2>1. \A t \in Threads : ~Takes(t)' /\ doing'[t] \notin {"cancel", "rel_cancel"}
      BY <1>3, <1>4 DEF Takes, Taking, WaitInv, TakeInv
    <2>2. \A t \in Threads : Releases(doing'[t]) => pc'[t][1] = "release"
      BY <1>3, <1>4 DEF Releases
    <2>3. pc'["mon"][1] # "core"
      BY <1>1, <1>2 DEF Moves
    <2> QED
      BY <1>3, <2>1, <2>2, <2>3 DEF TakeInv
  <1>8. RivalInv' /\ DownInv'
    <2>1. RivalInv'
      BY <1>4 DEF WaitInv, RivalInv
    <2>2. DownInv'
      BY <1>4 DEF WaitInv, DownInv
    <2> QED
      BY <2>1, <2>2
  <1> QED
    BY <1>5, <1>6, <1>7, <1>8 DEF WaitInv

LEMMA WaitOfMonWork ==
    ASSUME RefInv, WaitInv, MonWork
    PROVE  WaitInv'
  <1>1. CASE MonLook /\ UNCHANGED <<link, core, asked, doing, told>>
    <2>1. UNCHANGED <<core, ctrl, asked, completed, told, deleted, life, doing>>
      BY <1>1 DEF link
    <2>2. /\ pc["mon"][1] \in {"idle", "sample", "again"}
          /\ \E n \in {"sample", "idle", "again", "judge"} : Go("mon", Step(n))
      BY <1>1, LabelFacts DEF MonLook, Take, To, Idle, Step
    <2> QED
      BY <2>1, <2>2, WaitOfMonCalm
  <1>2. CASE MonJudge /\ UNCHANGED <<link, core, asked, doing, told>>
    <2>1. UNCHANGED <<core, ctrl, asked, completed, told, deleted, life, doing>>
      BY <1>2 DEF link
    <2>2. /\ pc["mon"][1] = "judge"
          /\ \E n \in {"async", "idle", "again"} : Go("mon", Step(n))
      BY <1>2, LabelFacts DEF MonJudge, To
    <2> QED
      BY <2>1, <2>2, WaitOfMonCalm
  <1>3. CASE AsyncDown /\ UNCHANGED <<life, completed, deleted, told>>
    <2>1. UNCHANGED <<core, asked>> /\ pc["mon"][1] \in {"async", "async_core"}
      BY <1>3, LabelFacts DEF AsyncDown
    <2>2. CASE /\ \E n \in {"async_core", "idle", "put"} : Go("mon", Step(n))
               /\ UNCHANGED <<ctrl, doing>>
      BY <1>3, <2>1, <2>2, WaitOfMonCalm
    <2>3. CASE /\ ctrl = "UP" /\ ctrl' = "STOPPING"
               /\ To("mon", "core") /\ Enters("mon", "async_cb")
      <3>1. Moves("mon", "core", "async_cb") /\ "mon" \in Threads /\ "mon" # "core"
        BY <2>3, MonFits, Names
      <3> QED
        BY <1>3, <2>1, <2>3, <3>1, WaitOfTaking DEF Taking
    <2>4. CASE /\ ctrl \in {"UP", "UP_DOWN_REQ"} /\ ctrl' = "UP_DOWN_REQ"
               /\ Go("mon", Idle) /\ UNCHANGED doing /\ Is("mon", "async_core")
      BY <1>3, <2>1, <2>4, WaitOfRequest, LabelFacts
    <2> QED
      BY <1>3, <2>2, <2>3, <2>4 DEF AsyncDown, To, Idle, Step
  <1> QED
    BY <1>1, <1>2, <1>3 DEF MonWork, ghosts

-----------------------------------------------------------------------------

(* Calls that raced have raced. *)
LEMMA RacedKept ==
    ASSUME Next, raced
    PROVE  raced'
  <1>1. ASSUME NEW c \in Clients, ClientStep(c)
        PROVE  raced'
    BY <1>1 DEF ClientStep, Call, TakeRef, Del, LinkDown, Reset, LinkUp, PolicyOrRead, ghosts
  <1>2. ASSUME NEW t \in Threads, AnyThread(t)
        PROVE  raced'
    BY <1>2 DEF AnyThread, Put, MonStep, MonStart, CoreDown, Await, Release, CoreDel,
                FreeObject, ghosts
  <1>3. CASE CoreStep
    BY <1>3 DEF CoreStep, CoreEnds, CallbackBegins, ghosts
  <1>4. CASE MonTimer
    BY <1>4 DEF MonTimer, ghosts
  <1>5. CASE MonWork
    BY <1>5 DEF MonWork, MonLook, AsyncDown, ghosts
  <1> QED
    BY <1>1, <1>2, <1>3, <1>4, <1>5 DEF Next

LEMMA WaitStill ==
    ASSUME WaitInv, UNCHANGED <<link, core, asked, doing, told, pc>>
    PROVE  WaitInv'
  <1>1. UNCHANGED <<core, ctrl, asked, completed, told, deleted, life, doing, pc>>
    BY DEF link
  <1>2. PhaseInv' /\ (Resting' <=> Resting) /\ (Faulting' <=> Faulting)
    BY <1>1 DEF WaitInv, PhaseInv, Resting, Rising, Risen, Standing, Leaving, Faulting,
                Failing, Fallen, CoreQuiet, CoreFree, Published
  <1>3. LiftInv' /\ RivalInv' /\ DownInv'
    BY <1>1, <1>2 DEF WaitInv, LiftInv, RivalInv, DownInv
  <1>4. TakeInv'
    BY <1>1, <1>2 DEF WaitInv, TakeInv, Takes
  <1> QED
    BY <1>2, <1>3, <1>4 DEF WaitInv

LEMMA WaitOfNext ==
    ASSUME RefInv, GoneFree, WaitInv, Next, ~raced'
    PROVE  WaitInv'
  <1>1. CASE CoreStep
    BY <1>1, WaitOfCoreEnds, WaitOfFault, WaitOfCallbackBegins, WaitOfCallbackEnds
       DEF CoreStep, ghosts, coreVars
  <1>2. CASE MonTimer
    BY <1>2, WaitStill DEF MonTimer, ghosts, coreVars
  <1> QED
    BY <1>1, <1>2, WaitOfClient, WaitOfAny, WaitOfMonWork DEF Next

LEMMA WaitOfInit ==
    ASSUME Init
    PROVE  WaitInv
  <1>1. /\ \A t \in Threads : doing[t] = "none" /\ pc[t] = Idle
        /\ core = "down" /\ ctrl = "DOWN" /\ asked = "none" /\ told = "down"
        /\ deleted = FALSE /\ completed = FALSE /\ life = "live"
    BY DEF Init
  <1>2. "core" \in Threads /\ "mon" \in Threads /\ Clients \subseteq Threads
    BY ThreadFacts
  <1>3. Resting /\ ~Leaving
    BY <1>1, <1>2 DEF Resting, CoreQuiet, Leaving
  <1>4. PhaseInv
    BY <1>1, <1>3 DEF PhaseInv
  <1>5. LiftInv /\ RivalInv
    BY <1>1, <1>2, <1>3 DEF LiftInv, Lifting, RivalInv, Rivals
  <1>6. TakeInv
    <2>1. \A t \in Threads : pc[t][1] = "idle" /\ ~Takes(t) /\ ~Releases(doing[t])
      BY <1>1, LabelFacts DEF Takes, Taking, Releases
    <2> QED
      BY <1>1, <1>2, <2>1 DEF TakeInv
  <1>7. DownInv
    BY <1>1 DEF DownInv, Idle
  <1> QED
    BY <1>4, <1>5, <1>6, <1>7 DEF WaitInv

-----------------------------------------------------------------------------

WaitsInv == RefInv /\ GoneFree /\ (~raced => WaitInv)

LEMMA WaitsOfNext ==
    ASSUME WaitsInv, [Next]_vars
    PROVE  WaitsInv'
  <1>1. CASE Next
    BY <1>1, OfNext, GoneFreeKept, RacedKept, WaitOfNext DEF WaitsInv
  <1>2. CASE UNCHANGED vars
    <2>1. WaitInv => WaitInv'
      BY <1>2, WaitStill DEF vars, coreVars, ghosts
    <2> QED
      BY <1>2, <2>1, OfNext DEF WaitsInv, GoneFree, vars, link, coreVars, ghosts
  <1> QED
    BY <1>1, <1>2

(* ResetsDown: a reset that was told that the link is down resets a link     *)
(* that is down, when the clients wait for the end of each call.  What the   *)
(* reset reads is set by the last callback of a teardown, and a core that    *)
(* rests is brought up by one client, which clears it first.                 *)
THEOREM ResetsDownAlways == Spec => []ResetsDown
  <1>1. Init => WaitsInv
    BY OfInit, WaitOfInit DEF WaitsInv, Init, GoneFree
  <1>2. WaitsInv /\ [Next]_vars => WaitsInv'
    BY WaitsOfNext
  <1>3. WaitsInv => ResetsDown
    BY DEF WaitsInv, ResetsDown, WaitInv, DownInv
  <1> QED
    BY <1>1, <1>2, <1>3, PTL DEF Spec

-----------------------------------------------------------------------------
(* The core's lock while a fault starts *)

(* A fault keeps the core's lock until its callback is done. *)
LockInv ==
    doing["core"] = "fault" /\ pc["core"][1] # "off" => held["core"] = "core"

(* Another thread moves, and leaves the core's lock as it is. *)
LEMMA LockOfOthers ==
    ASSUME LockInv, held'["core"] = held["core"],
           pc'["core"] = pc["core"] /\ doing'["core"] = doing["core"]
    PROVE  LockInv'
  BY DEF LockInv

LEMMA AnyMoves ==
    ASSUME RefInv, NEW t \in Threads, AnyThread(t)
    PROVE  \A u \in Threads : u # t => pc'[u] = pc[u] /\ doing'[u] = doing[u]
  <1>1. CASE MonStep(t)
    BY <1>1, MonStepMoves DEF Moves
  <1>2. CASE Put(t) \/ FreeObject(t)
    <2>1. Moves(t, "release", "release") \/ Moves(t, "idle", "none")
      BY <1>2, Names DEF Put, FreeObject
    <2> QED
      BY <2>1 DEF Moves
  <1>3. CASE CoreDown(t) \/ Await(t) \/ CoreDel(t)
    <2>1. UNCHANGED doing /\ \E l : Go(t, l)
      BY <1>3 DEF CoreDown, Await, CoreDel, To
    <2> QED
      BY <2>1, MovesOn DEF Moves
  <1>4. CASE Release(t)
    <2>1. \E l : Go(t, l)
      BY <1>4 DEF Release, Stopped, To
    <2>2. UNCHANGED doing \/ \E d : Enters(t, d)
      BY <1>4 DEF Release, Stopped
    <2> QED
      BY <2>1, <2>2, MovesOn, MovesTo DEF Moves
  <1> QED
    BY <1>1, <1>2, <1>3, <1>4 DEF AnyThread

LEMMA ClientMoves ==
    ASSUME RefInv, NEW c \in Clients, ClientStep(c)
    PROVE  \A u \in Threads : u # c => pc'[u] = pc[u] /\ doing'[u] = doing[u]
  <1>1. c \in Threads
    BY ThreadFacts
  <1>2. UNCHANGED pc \/ \E l : Go(c, l)
    <2>1. CASE Call(c) \/ TakeRef(c) \/ Del(c) \/ Reset(c)
      BY <2>1 DEF Call, TakeRef, Del, Reset, To
    <2>2. CASE LinkDown(c) \/ PolicyOrRead(c)
      BY <2>2 DEF LinkDown, Stopped, PolicyOrRead, StateGet, To
    <2>3. CASE LinkUp(c)
      BY <2>3 DEF LinkUp, To
    <2> QED
      BY <2>1, <2>2, <2>3 DEF ClientStep
  <1>3. UNCHANGED doing \/ \E d : Enters(c, d)
    <2>1. CASE Call(c) \/ TakeRef(c) \/ Del(c) \/ Reset(c)
      BY <2>1 DEF Call, TakeRef, Del, Reset
    <2>2. CASE LinkDown(c) \/ PolicyOrRead(c) \/ LinkUp(c)
      BY <2>2 DEF LinkDown, Stopped, PolicyOrRead, LinkUp
    <2> QED
      BY <2>1, <2>2 DEF ClientStep
  <1>4. UNCHANGED pc => UNCHANGED doing
    <2>1. CASE LinkUp(c)
      BY <2>1 DEF LinkUp
    <2>2. CASE Call(c) \/ TakeRef(c) \/ Del(c)
      <3>1. \E l : Go(c, l) /\ l[1] # pc[c][1]
        BY <2>2, LabelFacts DEF Call, TakeRef, Del
      <3> QED
        BY <3>1, <1>1 DEF Go, RefInv, ShapeInv
    <2>3. CASE Reset(c) \/ PolicyOrRead(c)
      BY <2>3 DEF Reset, PolicyOrRead
    <2>4. CASE LinkDown(c)
      <3>1. UNCHANGED doing \/ (To(c, "stop") /\ pc[c][1] = "body")
        BY <2>4, LabelFacts DEF LinkDown, Stopped
      <3>2. \A l : Go(c, l) => pc'[c] = l
        BY <1>1 DEF Go, RefInv, ShapeInv
      <3> QED
        BY <3>1, <3>2, LabelFacts
    <2> QED
      BY <2>1, <2>2, <2>3, <2>4, <1>3 DEF ClientStep
  <1> QED
    BY <1>1, <1>2, <1>3, <1>4, MovesOn, MovesTo DEF Moves

LEMMA LockOfCore ==
    ASSUME RefInv, LockInv, CoreStep,
           held \in [{"ctrl", "core"} -> Threads \cup {"none"}]
    PROVE  LockInv'
  <1>1. "core" \in Threads
    BY ThreadFacts
  <1>2. CASE CoreEnds
    <2>1. CASE held' = [held EXCEPT !["core"] = "core"]
      BY <2>1 DEF LockInv
    <2>2. CASE /\ core = "rising" /\ UNCHANGED held
               /\ Enters("core", "up_cb") \/ Enters("core", "fail_cb")
      <3>1. doing'["core"] # "fault"
        BY <1>1, <2>2 DEF Enters, RefInv, ShapeInv
      <3> QED
        BY <3>1 DEF LockInv
    <2>3. CASE core = "leaving" /\ Enters("core", asked)
      <3>1. doing'["core"] = asked
        BY <1>1, <2>3 DEF Enters, RefInv, ShapeInv
      <3>2. asked # "fault"
        BY DEF RefInv, GoneInv, AskedSet
      <3> QED
        BY <3>1, <3>2 DEF LockInv
    <2> QED
      BY <1>2, <2>1, <2>2, <2>3 DEF CoreEnds
  <1>3. CASE Fault
    <2>1. CASE Is("core", "fault_ctrl") /\ UNCHANGED <<held, doing>>
      BY <2>1, LabelFacts DEF LockInv
    <2>2. CASE To("core", "off")
      <3>1. pc'["core"][1] = "off"
        BY <1>1, <2>2, LabelFacts DEF RefInv, ShapeInv, To, Go
      <3> QED
        BY <3>1 DEF LockInv
    <2>3. CASE Enters("core", "fault_cb")
      <3>1. doing'["core"] = "fault_cb"
        BY <1>1, <2>3 DEF Enters, RefInv, ShapeInv
      <3> QED
        BY <3>1 DEF LockInv
    <2> QED
      BY <1>3, <2>1, <2>2, <2>3 DEF Fault
  <1>4. CASE CallbackBegins
    <2>1. doing["core"] # "fault"
      BY <1>4, CoreFits, LabelFacts DEF CallbackBegins, CoreSteps, StopSteps
    <2>2. UNCHANGED doing \/ Enters("core", "none")
      BY <1>4 DEF CallbackBegins, Return
    <2>3. doing'["core"] # "fault"
      BY <1>1, <2>1, <2>2 DEF Enters, RefInv, ShapeInv
    <2> QED
      BY <2>3 DEF LockInv
  <1>5. CASE CallbackEnds
    <2>1. doing["core"] # "fault"
      BY <1>5, CoreFits, LabelFacts DEF CallbackEnds, CoreSteps, StopSteps
    <2>2. UNCHANGED doing \/ Enters("core", "none") \/ Enters("core", "down_cb")
      BY <1>5 DEF CallbackEnds, Return
    <2>3. doing'["core"] # "fault"
      BY <1>1, <2>1, <2>2 DEF Enters, RefInv, ShapeInv
    <2> QED
      BY <2>3 DEF LockInv
  <1> QED
    BY <1>2, <1>3, <1>4, <1>5 DEF CoreStep

LEMMA LockOfNext ==
    ASSUME RefInv, TypeInv, LockInv, Next
    PROVE  LockInv'
  <1>1. held \in [{"ctrl", "core"} -> Threads \cup {"none"}]
    BY DEF TypeInv, RangesInv
  <1>2. ASSUME NEW c \in Clients, ClientStep(c)
        PROVE  LockInv'
    <2>1. pc'["core"] = pc["core"] /\ doing'["core"] = doing["core"]
      BY <1>2, ClientMoves, ThreadFacts
    <2>2. held'["core"] = held["core"]
      <3>1. CASE PolicyOrRead(c)
        BY <1>1, <3>1 DEF PolicyOrRead, StateGet, coreVars
      <3>2. CASE Call(c) \/ TakeRef(c) \/ Del(c) \/ LinkDown(c) \/ Reset(c) \/ LinkUp(c)
        BY <3>2 DEF Call, TakeRef, Del, LinkDown, Reset, LinkUp, coreVars
      <3> QED
        BY <1>2, <3>1, <3>2 DEF ClientStep
    <2> QED
      BY <2>1, <2>2, LockOfOthers
  <1>3. ASSUME NEW t \in Threads, AnyThread(t)
        PROVE  LockInv'
    <2>1. held' = held
      BY <1>3 DEF AnyThread, Put, MonStep, CoreDown, Await, Release, CoreDel, FreeObject,
                  coreVars
    <2>2. CASE t # "core"
      BY <1>3, <2>1, <2>2, AnyMoves, ThreadFacts, LockOfOthers
    <2>3. CASE t = "core" /\ doing["core"] = "fault"
      <3>1. pc["core"][1] # "off" /\ doing' = doing
        <4>1. pc["core"][1] \in {"fault_ctrl", "stop", "delete", "wait", "unlock", "off"}
          BY <2>3, CoreFits DEF CoreSteps, StopSteps
        <4>2. MonStep("core")
          BY <1>3, <2>3, <4>1, LabelFacts DEF AnyThread, Put, CoreDown, Await, Release,
                                              CoreDel, FreeObject
        <4> QED
          BY <4>1, <4>2, MonStepMoves, ThreadFacts DEF MonStep
      <3> QED
        BY <2>1, <2>3, <3>1 DEF LockInv
    <2>4. CASE t = "core" /\ doing["core"] # "fault"
      <3>1. doing'["core"] # "fault"
        <4>1. \/ doing' = doing
              \/ \E d \in {"release", "none", "rel_cancel", "rel_down", "cancel"} : Enters(t, d)
          <5>1. CASE Put(t) \/ FreeObject(t)
            BY <5>1 DEF Put, FreeObject, Return
          <5>2. CASE MonStep(t) \/ CoreDown(t) \/ Await(t) \/ CoreDel(t)
            BY <5>2 DEF MonStep, CoreDown, Await, CoreDel
          <5>3. CASE Release(t)
            <6>1. pc[t][1] = "release"
              BY <5>3, LabelFacts DEF Release
            <6>2. doing[t] = "release"
              BY <6>1, StepFacts
            <6> QED
              BY <5>3, <6>2 DEF Release, Stopped
          <5> QED
            BY <1>3, <5>1, <5>2, <5>3 DEF AnyThread
        <4> QED
          BY <2>4, <4>1 DEF Enters, RefInv, ShapeInv
      <3> QED
        BY <3>1 DEF LockInv
    <2> QED
      BY <2>2, <2>3, <2>4
  <1>4. CASE CoreStep
    BY <1>1, <1>4, LockOfCore
  <1>5. CASE MonTimer
    BY <1>5, LockOfOthers DEF MonTimer, coreVars
  <1>6. CASE MonWork /\ UNCHANGED held
    <2>1. \E l : Go("mon", l)
      BY <1>6 DEF MonWork, MonLook, MonJudge, AsyncDown, To
    <2>2. UNCHANGED doing \/ Enters("mon", "async_cb")
      BY <1>6 DEF MonWork, AsyncDown
    <2>3. pc'["core"] = pc["core"] /\ doing'["core"] = doing["core"]
      BY <2>1, <2>2, MovesOn, MovesTo, ThreadFacts, MonFits DEF Moves
    <2> QED
      BY <1>6, <2>3, LockOfOthers
  <1> QED
    BY <1>2, <1>3, <1>4, <1>5, <1>6 DEF Next

-----------------------------------------------------------------------------
(* The monitor of a link of clients that wait *)

Samples == {"sample", "again", "judge", "async", "async_core"}
Stands(name) == \E t \in Threads : pc[t][1] = name

(* The timer runs, or the work is on its way to set it again, or to end. *)
Working == armed # {} \/ queued # {} \/ pc["mon"][1] \in Samples

(* Whoever releases the object has not looked at the state. *)
EarlyRelease == \A t \in Threads : Releases(doing[t]) => pc[t][1] = "release"

(* The reasons for which the monitor works: the link is up; somebody is about *)
(* to stop it; the monitor itself, or the callback of its request, takes the  *)
(* link down; or that callback found an object without references.            *)
Watching == ctrl \in {"UP", "UP_DOWN_REQ"} \/ pc["core"][1] = "publish"
Requested == (asked = "async_cb" \/ pc["core"][1] = "async_cb") /\ EarlyRelease
Refused == /\ refs = 0 /\ life = "live" /\ ctrl = "STOPPING"
           /\ Resting /\ asked = "none" /\ EarlyRelease
Excused == Watching \/ Stands("stop") \/ pc["mon"][1] = "core" \/ Requested \/ Refused

(* A monitor is started with a period, and stopped by a policy without one. *)
PeriodInv ==
    /\ \A c \in Clients : doing[c] = "policy" =>
          /\ pc[c][1] = "start" => policy # 0 /\ period = policy
          /\ pc[c][1] \in {"stop", "delete", "wait"} => policy = 0
    /\ pc["core"][1] = "start" =>
          /\ period # 0
          /\ \A c \in Clients : doing[c] = "policy"
                /\ pc[c][1] \in {"calc", "start", "stop", "delete", "wait"}
                => policy # 0
    /\ ~stop /\ period = 0 => ~Working \/ Stands("stop")

(* A monitor that was stopped works for those who wait for its end only. *)
StopInv ==
    /\ Stands("delete") \/ Stands("wait") => stop
    /\ armed # {} /\ stop => Stands("delete")
    /\ Stands("wait") => queued = {}
    /\ stop => \/ Stands("delete") \/ Stands("wait")
               \/ armed = {} /\ queued = {} /\ pc["mon"] = Idle

(* A link that is up has a monitor that works, unless it was stopped, and a  *)
(* monitor works for a reason.                                               *)
AliveInv ==
    (ctrl = "UP" \/ pc["core"][1] = "publish") /\ ~stop
        => Working \/ Stands("stop") \/ refs = 0
HaltInv == ~stop /\ Working => Excused

MonInv == PeriodInv /\ StopInv /\ AliveInv /\ HaltInv

(* The labels of the steps *)
LEMMA Labelled ==
    ASSUME TypeInv, NEW t \in Threads
    PROVE  /\ pc[t][1] = "idle" => pc[t] = Idle
           /\ pc[t][1] = "wait" => pc[t] = <<"wait", "mon">>
           /\ pc[t] # <<"del", "mon">>
           /\ queued \in {{}, {"mon"}} /\ armed \in {{}, {"mon"}}
  <1>1. pc[t] \in Labels /\ queued \subseteq {"mon"} /\ armed \subseteq {"mon"}
    BY DEF TypeInv, MovesInv, RangesInv
  <1>2. \/ \E s \in Steps : pc[t] = <<s, "none">>
        \/ pc[t] \in {<<"wait", "mon">>, <<"reset", "done">>, <<"reset", "late">>}
    BY <1>1 DEF Labels
  <1>3. "wait" \notin Steps
    BY DEF Steps, Callbacks
  <1>4. \A s : <<s, "none">>[1] = s /\ <<s, "none">> # <<"del", "mon">>
    OBVIOUS
  <1>5. /\ pc[t][1] = "idle" => pc[t] = Idle
        /\ pc[t][1] = "wait" => pc[t] = <<"wait", "mon">>
    BY <1>2, <1>3, <1>4 DEF Idle
  <1>6. pc[t] # <<"del", "mon">>
    BY <1>2, <1>4
  <1>7. queued \in {{}, {"mon"}} /\ armed \in {{}, {"mon"}}
    BY <1>1
  <1> QED
    BY <1>5, <1>6, <1>7

Quiet(n) == n \notin Samples \cup {"core", "idle"}

(* A thread moves that neither starts nor stops the monitor, and is not its  *)
(* work.                                                                     *)
LEMMA MonFrame ==
    ASSUME MonInv, NEW t \in Threads, NEW n, NEW d, Moves(t, n, d),
           UNCHANGED <<stop, period, armed, queued>>,
           \/ UNCHANGED policy
           \/ \A c \in Clients : doing'[c] = "policy" => pc'[c][1] = "look",
           pc[t][1] \notin {"stop", "delete", "wait"},
           n \notin {"start", "delete", "wait", "publish"},
           d = "policy" => n # "stop" /\ (n = "calc" => pc["core"][1] # "start"),
           t = "mon" => Quiet(pc[t][1]) /\ n \notin Samples,
           ctrl' = "UP" => ctrl = "UP" \/ pc["core"][1] = "publish",
           refs = 0 => refs' = 0,
           Excused => Excused'
    PROVE  MonInv'
  <1>1. /\ pc'[t][1] = n /\ doing'[t] = d
        /\ \A u \in Threads : u # t => pc'[u] = pc[u] /\ doing'[u] = doing[u]
        /\ "core" \in Threads /\ "mon" \in Threads /\ Clients \subseteq Threads
    BY ThreadFacts DEF Moves
  <1>2. /\ Stands("stop") => Stands("stop")'
        /\ Stands("delete")' <=> Stands("delete")
        /\ Stands("wait")' <=> Stands("wait")
    BY <1>1 DEF Stands
  <1>3. Working' <=> Working
    BY <1>1 DEF Working, Quiet
  <1>4. pc'["core"][1] = "start" => pc["core"][1] = "start"
    BY <1>1
  <1>5. pc'["core"][1] = "publish" => pc["core"][1] = "publish"
    BY <1>1
  <1>6. PeriodInv'
    <2>1. ASSUME NEW c \in Clients, doing'[c] = "policy"
          PROVE  /\ pc'[c][1] = "start" => doing[c] = "policy" /\ pc[c][1] = "start"
                 /\ pc'[c][1] \in {"stop", "delete", "wait"} =>
                       doing[c] = "policy" /\ pc[c][1] \in {"stop", "delete", "wait"}
                 /\ pc'[c][1] = "calc" =>
                       \/ doing[c] = "policy" /\ pc[c][1] = "calc"
                       \/ pc["core"][1] # "start"
      BY <1>1, <2>1
    <2>2. ~stop' /\ period' = 0 => ~Working' \/ Stands("stop")'
      BY <1>2, <1>3 DEF MonInv, PeriodInv
    <2>3. CASE UNCHANGED policy
      BY <1>4, <2>1, <2>2, <2>3 DEF MonInv, PeriodInv
    <2>4. CASE \A c \in Clients : doing'[c] = "policy" => pc'[c][1] = "look"
      BY <1>4, <2>2, <2>4 DEF MonInv, PeriodInv
    <2> QED
      BY <2>3, <2>4
  <1>7. StopInv'
    <2>1. t # "mon" => pc'["mon"] = pc["mon"]
      BY <1>1
    <2>2. t = "mon" => pc["mon"] # Idle
      BY LabelFacts DEF Quiet
    <2> QED
      BY <1>2, <2>1, <2>2 DEF MonInv, StopInv
  <1>8. AliveInv'
    BY <1>2, <1>3, <1>5 DEF MonInv, AliveInv
  <1>9. HaltInv'
    BY <1>3 DEF MonInv, HaltInv
  <1> QED
    BY <1>6, <1>7, <1>8, <1>9 DEF MonInv

(* A thread moves on that is not the core, nor the work on its way into it,  *)
(* and does not come to release the object.                                  *)
LEMMA ExcuseOfCalm ==
    ASSUME NEW t \in Threads, t # "core", NEW n, NEW d, Moves(t, n, d),
           UNCHANGED <<core, ctrl, asked>>,
           t = "mon" => pc[t][1] # "core",
           pc[t][1] # "stop",
           refs = 0 => refs' = 0,
           \/ ~EarlyRelease \/ ~(Requested \/ Refused)
           \/ (Releases(d) => n = "release") /\ UNCHANGED life,
           Excused
    PROVE  Excused'
  <1>1. /\ pc'[t][1] = n /\ doing'[t] = d
        /\ \A u \in Threads : u # t => pc'[u] = pc[u] /\ doing'[u] = doing[u]
        /\ "core" \in Threads /\ "mon" \in Threads
    BY ThreadFacts DEF Moves
  <1>2. (Resting' <=> Resting) /\ pc'["core"] = pc["core"]
    BY PhaseSame
  <1>3. Stands("stop") => Stands("stop")'
    BY <1>1 DEF Stands
  <1>4. Watching => Watching'
    BY <1>2 DEF Watching
  <1>5. pc["mon"][1] = "core" => pc'["mon"][1] = "core"
    BY <1>1
  <1>6. CASE ~EarlyRelease \/ ~(Requested \/ Refused)
    BY <1>3, <1>4, <1>5, <1>6 DEF Excused, Requested, Refused
  <1>7. CASE (Releases(d) => n = "release") /\ UNCHANGED life
    <2>1. EarlyRelease => EarlyRelease'
      BY <1>1, <1>7 DEF EarlyRelease
    <2>2. Requested => Requested'
      BY <1>2, <2>1 DEF Requested
    <2>3. Refused => Refused'
      BY <1>2, <1>7, <2>1 DEF Refused
    <2> QED
      BY <1>3, <1>4, <1>5, <2>2, <2>3 DEF Excused
  <1> QED
    BY <1>6, <1>7

(* Such a step, over a link that stays as it is *)
LEMMA MonOfCalm ==
    ASSUME MonInv, NEW t \in Threads, t # "core", NEW n, NEW d, Moves(t, n, d),
           UNCHANGED <<core, ctrl, asked, stop, period, armed, queued>>,
           \/ UNCHANGED policy
           \/ \A c \in Clients : doing'[c] = "policy" => pc'[c][1] = "look",
           pc[t][1] \notin {"stop", "delete", "wait"},
           n \notin {"start", "delete", "wait", "publish"},
           d = "policy" => n # "stop" /\ (n = "calc" => pc["core"][1] # "start"),
           t = "mon" => Quiet(pc[t][1]) /\ n \notin Samples,
           refs = 0 => refs' = 0,
           \/ ~EarlyRelease \/ ~(Requested \/ Refused)
           \/ (Releases(d) => n = "release") /\ UNCHANGED life
    PROVE  MonInv'
  <1>1. t = "mon" => pc[t][1] # "core"
    BY DEF Quiet
  <1>2. Excused => Excused'
    BY <1>1, ExcuseOfCalm
  <1> QED
    BY <1>2, MonFrame

(* Where the core is tells what it does. *)
LEMMA CoreAt ==
    ASSUME RefInv, WaitInv
    PROVE  /\ pc["core"][1] \in {"up_cb", "calc", "start", "publish"} => Risen
           /\ pc["core"][1] = "async_cb" =>
                 doing["core"] = "async_cb" /\ Fallen /\ ctrl = "STOPPING"
           /\ Resting => pc["core"][1] \notin {"start", "publish", "async_cb"}
           /\ Resting => asked = "none"
           /\ ctrl = "UP" => pc["core"][1] \notin {"start", "publish", "async_cb"}
           /\ ctrl = "UP_DOWN_REQ" => pc["core"][1] \notin {"start", "publish", "async_cb"}
           /\ Requested => ctrl = "STOPPING"
           /\ pc["core"][1] = "publish" => ctrl = "STARTING"
  <1>1. pc["core"][1] \in {"up_cb", "calc", "start", "publish"} => Risen
    <2>1. pc["core"][1] \in {"up_cb", "calc", "start", "publish"} => doing["core"] = "up_cb"
      BY CoreFits DEF CoreSteps, StopSteps
    <2> QED
      BY <2>1, PhaseOf
  <1>2. pc["core"][1] = "async_cb" =>
           doing["core"] = "async_cb" /\ Fallen /\ ctrl = "STOPPING"
    <2>1. pc["core"][1] = "async_cb" => doing["core"] = "async_cb"
      BY CoreFits DEF CoreSteps, StopSteps
    <2> QED
      BY <2>1, PhaseOf DEF Fallen
  <1>3. asked = "async_cb" => Leaving
    BY NotLeaving
  <1>4. Resting => ~Risen /\ ~Fallen /\ ~Leaving
    <2>1. Resting => core # "up" /\ core # "leaving" /\ CoreQuiet
      BY DEF Resting
    <2>2. Fallen => ~CoreQuiet
      BY DEF Fallen, CoreQuiet, Releases
    <2> QED
      BY <2>1, <2>2 DEF Risen, Leaving
  <1>5. Risen => ctrl = "STARTING"
    BY DEF Risen
  <1>6. Leaving => ctrl = "STOPPING"
    BY DEF Leaving
  <1>7. Requested => asked = "async_cb" \/ pc["core"][1] = "async_cb"
    BY DEF Requested
  <1> QED
    BY <1>1, <1>2, <1>3, <1>4, <1>5, <1>6, <1>7, NotLeaving

LEMMA MonOfClientCalm ==
    ASSUME RefInv, WaitInv, MonInv, NEW c \in Clients, refs = 0 => refs' = 0,
           Call(c) \/ TakeRef(c) \/ Del(c) \/ Reset(c)
    PROVE  MonInv'
  <1>1. c \in Threads /\ c # "core" /\ c # "mon"
    BY ClientFits
  <1>2. UNCHANGED <<core, ctrl, asked, stop, period, policy, armed, queued, life>>
    BY DEF Call, TakeRef, Del, Reset, link, coreVars, monitor, K
  <1>3. pc[c][1] \in {"idle", "ref", "del", "del_wait", "reset"}
    BY LabelFacts DEF Call, TakeRef, Del, Reset
  <1>4. CASE Call(c)
    <2>1. PICK op \in Calls : Enters(c, op) /\ To(c, IF op = "del" THEN "del" ELSE "ref")
      BY <1>4 DEF Call
    <2>2. PICK n \in {"del", "ref"} : Moves(c, n, op)
      BY <1>1, <2>1, Names
    <2>3. ~Releases(op)
      BY ObjectAssumption DEF Releases
    <2> QED
      BY <1>1, <1>2, <1>3, <2>2, <2>3, MonOfCalm
  <1>5. CASE TakeRef(c)
    <2>1. doing[c] \in Refs
      BY <1>1, <1>5, StepFacts, LabelFacts DEF TakeRef
    <2>2. PICK n \in {"body", "idle"}, d \in {doing[c], "none"} : Moves(c, n, d)
      BY <1>1, <1>5, Names, MovesTo, LabelFacts DEF TakeRef
    <2>3. ~Releases(d)
      BY <2>1, <2>2 DEF Releases, Refs
    <2> QED
      BY <1>1, <1>2, <1>3, <2>2, <2>3, MonOfCalm
  <1>6. CASE Del(c)
    <2>1. doing[c] = "del"
      BY <1>6, ClientFits, LabelFacts DEF Del, FitsClient, ClientSteps, StopSteps
    <2>2. \/ Moves(c, "release", "release") \/ Moves(c, "del_wait", "del")
          \/ Moves(c, "idle", "none")
      BY <1>1, <1>6, <2>1, Names, MovesTo, LabelFacts DEF Del
    <2>3. ~Releases("del") /\ ~Releases("none")
      BY DEF Releases
    <2> QED
      BY <1>1, <1>2, <1>3, <2>2, <2>3, MonOfCalm
  <1>7. CASE Reset(c)
    <2>1. doing[c] = "reset"
      BY <1>7, ClientFits DEF Reset, FitsClient, ClientSteps, StopSteps
    <2>2. Moves(c, "put", "reset")
      BY <1>1, <1>7, <2>1, Names DEF Reset
    <2> QED
      BY <1>1, <1>2, <1>3, <2>2, MonOfCalm DEF Releases
  <1> QED
    BY <1>4, <1>5, <1>6, <1>7

LEMMA MonOfPolicyOrRead ==
    ASSUME RefInv, WaitInv, MonInv, NEW c \in Clients, PolicyOrRead(c),
           refs = 0 => refs' = 0
    PROVE  MonInv'
  <1>1. c \in Threads /\ c # "core" /\ c # "mon"
    BY ClientFits
  <1>2. UNCHANGED <<core, ctrl, asked, stop, period, armed, queued, life, doing>>
    BY DEF PolicyOrRead, link, coreVars, monitor, K
  <1>3. /\ pc[c][1] \in {"body", "look", "look_core"}
        /\ doing[c] \in {"policy", "read"}
    <2>1. pc[c][1] \in {"look", "look_core"} => doing[c] \in {"policy", "read"}
      BY ClientFits DEF FitsClient, ClientSteps, StopSteps
    <2> QED
      BY <2>1, LabelFacts DEF PolicyOrRead, StateGet
  <1>4. ~Releases(doing[c])
    BY <1>3 DEF Releases
  <1>5. CASE Is(c, "body") /\ To(c, "look")
             /\ policy' \in (IF doing[c] = "policy" THEN Periods ELSE {policy})
    <2>1. Moves(c, "look", doing[c])
      BY <1>1, <1>2, <1>5, Names
    <2>2. doing[c] = "policy" => \A u \in Clients : doing'[u] = "policy" => pc'[u][1] = "look"
      BY <2>1, RivalFacts, ThreadFacts DEF Moves, WaitInv, RivalInv
    <2> QED
      BY <1>1, <1>2, <1>3, <1>4, <1>5, <2>1, <2>2, MonOfCalm
  <1>6. CASE StateGet(c) /\ UNCHANGED policy
    <2>1. PICK n \in {"look_core", "calc", "put"} :
             /\ Moves(c, n, doing[c])
             /\ n = "calc" => ctrl \in {"UP", "UP_DOWN_REQ"}
      BY <1>1, <1>2, <1>6, Names DEF StateGet
    <2>2. n = "calc" => pc["core"][1] # "start"
      BY <2>1, CoreAt
    <2> QED
      BY <1>1, <1>2, <1>3, <1>4, <1>6, <2>1, <2>2, MonOfCalm
  <1> QED
    BY <1>5, <1>6 DEF PolicyOrRead, monitor

LEMMA MonOfLinkUp ==
    ASSUME RefInv, WaitInv, MonInv, NEW c \in Clients, LinkUp(c), UNCHANGED <<asked, monitor>>
    PROVE  MonInv'
  <1>1. c \in Threads /\ c # "core" /\ c # "mon" /\ doing[c] = "up"
        /\ pc[c][1] \in {"body", "init", "core", "refused"}
    BY ClientFits, LabelFacts DEF LinkUp
  <1>2. UNCHANGED <<refs, stop, period, policy, armed, queued, life, doing>>
    BY DEF LinkUp, monitor, K
  <1>3. /\ Resting /\ asked = "none" /\ pc[c][1] # "refused" /\ pc["mon"][1] # "core"
        /\ ctrl \in {"DOWN", "STARTING"}
    BY <1>1, LiftFacts
  <1>4. PICK n \in {"init", "put", "core", "refused"} : Moves(c, n, "up")
    BY <1>1, <1>2, <1>3, Names, LabelFacts DEF LinkUp
  <1>5. Excused => Stands("stop")
    BY <1>3, CoreAt DEF Excused, Watching, Requested, Refused
  <1>6. Stands("stop") => Stands("stop")'
    BY <1>1, <1>4 DEF Stands, Moves
  <1>7. ctrl' # "UP"
    BY <1>3 DEF LinkUp
  <1>8. Excused => Excused'
    BY <1>5, <1>6 DEF Excused
  <1> QED
    BY <1>1, <1>2, <1>4, <1>7, <1>8, MonFrame

LEMMA MonOfLinkDown ==
    ASSUME RefInv, WaitInv, MonInv, NEW c \in Clients, LinkDown(c), refs = 0 => refs' = 0
    PROVE  MonInv'
  <1>1. c \in Threads /\ c # "core" /\ c # "mon" /\ doing[c] \in {"down", "reset"}
        /\ pc[c][1] = "body"
    BY ClientFits, LabelFacts DEF LinkDown
  <1>2. UNCHANGED <<core, asked, stop, period, policy, armed, queued, life>>
    BY DEF LinkDown, coreVars, monitor, K
  <1>3. CASE Stopped(c)
    <2>1. PICK d \in {doing[c], "rel_down"} :
             Moves(c, "stop", d) /\ (d = "rel_down" => pc[c][1] = "release")
      BY <1>1, <1>3, StoppedUp
    <2>2. ctrl' = "STOPPING"
      BY <1>1, <1>3, StoppedUp
    <2>3. Excused'
      BY <1>1, <2>1 DEF Moves, Excused, Stands
    <2> QED
      BY <1>1, <1>2, <2>1, <2>2, <2>3, MonFrame
  <1>4. CASE To(c, "put") /\ UNCHANGED <<ctrl, doing>>
    <2>1. Moves(c, "put", doing[c])
      BY <1>1, <1>4, Names
    <2> QED
      BY <1>1, <1>2, <1>4, <2>1, MonOfCalm DEF Releases
  <1> QED
    BY <1>3, <1>4 DEF LinkDown

LEMMA MonOfClient ==
    ASSUME RefInv, WaitInv, MonInv, NEW c \in Clients, ClientStep(c), refs = 0 => refs' = 0
    PROVE  MonInv'
  BY MonOfClientCalm, MonOfPolicyOrRead, MonOfLinkUp, MonOfLinkDown DEF ClientStep

(* The core's thread, when it is about to put a reference or to release *)
LEMMA MonOfQuiet ==
    ASSUME RefInv, WaitInv, MonInv, NEW n, NEW d, Moves("core", n, d),
           UNCHANGED <<core, ctrl, asked, life, stop, period, policy, armed, queued>>,
           Resting \/ Rising, d = "none" \/ Releases(d),
           pc["core"][1] \notin {"stop", "delete", "wait"},
           n \notin {"start", "delete", "wait", "publish"},
           refs = 0 => refs' = 0,
           \/ ~EarlyRelease \/ ~(Requested \/ Refused)
           \/ Releases(d) => n = "release"
    PROVE  MonInv'
  <1>1. /\ pc'["core"][1] = n /\ doing'["core"] = d
        /\ \A u \in Threads : u # "core" => pc'[u] = pc[u] /\ doing'[u] = doing[u]
        /\ "core" \in Threads /\ "mon" \in Threads /\ "core" # "mon"
    BY ThreadFacts, MonFits DEF Moves
  <1>2. Resting' <=> Resting
    <2>1. CoreQuiet'
      BY <1>1 DEF CoreQuiet
    <2> QED
      BY <2>1, PhaseOf DEF Resting
  <1>3. Stands("stop") => Stands("stop")'
    BY <1>1 DEF Stands
  <1>4. pc["core"][1] \notin {"publish", "async_cb"}
    BY CoreAt DEF Resting, Rising, Risen, Fallen
  <1>5. Watching => Watching'
    BY <1>4 DEF Watching
  <1>6. pc["mon"][1] = "core" => pc'["mon"][1] = "core"
    BY <1>1
  <1>7. Excused => Excused'
    <2>1. CASE ~EarlyRelease \/ ~(Requested \/ Refused)
      BY <1>3, <1>5, <1>6, <2>1 DEF Excused, Requested, Refused
    <2>2. CASE Releases(d) => n = "release"
      <3>1. EarlyRelease => EarlyRelease'
        BY <1>1, <2>2 DEF EarlyRelease
      <3>2. Requested => Requested'
        BY <1>4, <3>1 DEF Requested
      <3>3. Refused => Refused'
        BY <1>2, <3>1 DEF Refused
      <3> QED
        BY <1>3, <1>5, <1>6, <3>2, <3>3 DEF Excused
    <2> QED
      BY <2>1, <2>2
  <1>8. d # "policy"
    BY DEF Releases
  <1> QED
    BY <1>1, <1>7, <1>8, MonFrame

LEMMA MonOfPut ==
    ASSUME RefInv, WaitInv, MonInv, NEW t \in Threads, Put(t), refs = 0 => refs' = 0
    PROVE  MonInv'
  <1>1. UNCHANGED <<core, ctrl, asked, life, stop, period, policy, armed, queued>>
    BY DEF Put, coreVars, monitor, K
  <1>2. PICK n, d : /\ Moves(t, n, d)
                    /\ (n = "release" /\ d = "release") \/ (n = "idle" /\ d = "none")
    BY Names DEF Put
  <1>3. pc[t][1] = "put"
    BY LabelFacts DEF Put
  <1>4. CASE t = "core"
    <2>1. doing["core"] = "async_cb"
      BY <1>3, <1>4, CoreFits DEF CoreSteps, StopSteps
    <2>2. Resting \/ Rising
      BY <1>3, <1>4, <2>1, PhaseOf
    <2> QED
      BY <1>1, <1>2, <1>3, <1>4, <2>2, MonOfQuiet DEF Releases
  <1>5. CASE t # "core"
    BY <1>1, <1>2, <1>3, <1>5, MonOfCalm DEF Quiet, Samples, Releases
  <1> QED
    BY <1>4, <1>5

LEMMA MonOfAwait ==
    ASSUME RefInv, WaitInv, MonInv, NEW t \in Threads, Await(t)
    PROVE  MonInv'
  <1>1. UNCHANGED <<core, ctrl, asked, life, stop, period, policy, armed, queued, refs, doing>>
    BY DEF Await, link, coreVars, monitor, K
  <1>2. pc[t][1] = "await"
    BY LabelFacts DEF Await
  <1>3. PICK n \in {"reset", "unlink"} : Moves(t, n, doing[t])
    BY <1>1, Names, MovesOn DEF Await
  <1>4. doing[t] \in {"reset", "release", "rel_cancel", "rel_down"}
    <2>1. CASE t \in Clients
      BY <1>2, <2>1, ClientFits DEF FitsClient, ClientSteps, StopSteps
    <2>2. CASE t = "core"
      BY <1>2, <2>2, CoreFits DEF CoreSteps, StopSteps
    <2>3. CASE t = "mon"
      BY <1>2, <2>3, MonFits DEF MonSteps
    <2> QED
      BY <2>1, <2>2, <2>3, ThreadFacts
  <1>5. ~Releases(doing[t]) \/ ~EarlyRelease
    BY <1>2 DEF EarlyRelease
  <1>6. CASE t = "core"
    <2>1. Releases(doing["core"])
      BY <1>4, <1>6, StepFacts, ThreadFacts DEF Releases
    <2>2. Resting \/ Rising
      BY <2>1, PhaseOf
    <2> QED
      BY <1>1, <1>2, <1>3, <1>5, <1>6, <2>1, <2>2, MonOfQuiet
  <1>7. CASE t # "core"
    BY <1>1, <1>2, <1>3, <1>4, <1>5, <1>7, MonOfCalm DEF Quiet, Samples
  <1> QED
    BY <1>6, <1>7

LEMMA MonOfRelease ==
    ASSUME RefInv, WaitInv, MonInv, NEW t \in Threads, Release(t), ~raced'
    PROVE  MonInv'
  <1>1. UNCHANGED <<core, asked, life, refs, stop, period, policy, armed, queued>>
    BY DEF Release, coreVars, monitor, K
  <1>2. pc[t][1] = "release"
    BY LabelFacts DEF Release
  <1>3. doing[t] = "release" /\ Releases(doing[t])
    BY <1>2, StepFacts DEF Releases
  <1>4. CASE Stopped(t)
    <2>1. PICK d \in {doing[t], "rel_down"} : Moves(t, "stop", d)
      BY <1>2, <1>4, StoppedUp
    <2>2. ctrl' = "STOPPING"
      BY <1>2, <1>4, StoppedUp
    <2>3. Excused'
      BY <2>1 DEF Moves, Excused, Stands
    <2> QED
      BY <1>1, <1>2, <1>3, <2>1, <2>2, <2>3, MonFrame DEF Quiet, Samples
  <1>5. CASE ctrl = "DOWN" /\ To(t, "unlink") /\ UNCHANGED <<ctrl, doing>>
    <2>1. Moves(t, "unlink", "release")
      BY <1>3, <1>5, Names
    <2>2. ~(Requested \/ Refused)
      BY <1>5, CoreAt DEF Refused
    <2>3. CASE t = "core"
      <3>1. Resting \/ Rising
        BY <1>3, <2>3, PhaseOf
      <3> QED
        BY <1>1, <1>2, <1>3, <1>5, <2>1, <2>2, <2>3, <3>1, MonOfQuiet
    <2>4. CASE t # "core"
      BY <1>1, <1>2, <1>5, <2>1, <2>2, <2>4, MonOfCalm DEF Quiet, Samples
    <2> QED
      BY <2>3, <2>4
  <1>6. \/ Stopped(t)
        \/ ctrl = "DOWN" /\ To(t, "unlink") /\ UNCHANGED <<ctrl, doing>>
    <2>1. CASE ctrl = "STOPPING" /\ raced' = (raced \/ ctrl = "STOPPING")
      BY <2>1
    <2> QED
      BY <2>1 DEF Release
  <1> QED
    BY <1>4, <1>5, <1>6

LEMMA MonOfCoreDel ==
    ASSUME RefInv, WaitInv, MonInv, NEW t \in Threads, CoreDel(t)
    PROVE  MonInv'
  <1>1. /\ UNCHANGED <<ctrl, life, refs, stop, period, policy, armed, queued, doing>>
        /\ pc["core"][1] = "idle" /\ pc[t][1] = "unlink"
    BY LabelFacts DEF CoreDel, link, monitor, K
  <1>2. Releases(doing[t]) /\ ctrl \in {"DOWN", "STOPPING"} /\ ~EarlyRelease
    BY <1>1, StepFacts DEF WaitInv, TakeInv, EarlyRelease
  <1>3. Moves(t, "free", doing[t])
    BY <1>1, Names DEF CoreDel
  <1>4. pc["mon"][1] # "core"
    BY <1>2, HoldsLive, MonFits
  <1>5. Excused => Stands("stop")
    BY <1>1, <1>2, <1>4 DEF Excused, Watching, Requested, Refused
  <1>6. Stands("stop") => Stands("stop")'
    BY <1>1, <1>3 DEF Stands, Moves
  <1>7. Excused => Excused'
    BY <1>5, <1>6 DEF Excused
  <1>8. doing[t] # "policy"
    BY <1>2 DEF Releases
  <1> QED
    BY <1>1, <1>3, <1>7, <1>8, MonFrame DEF Quiet, Samples

LEMMA MonOfFreeObject ==
    ASSUME RefInv, WaitInv, MonInv, NEW t \in Threads, FreeObject(t)
    PROVE  MonInv'
  <1>1. /\ UNCHANGED <<core, ctrl, asked, refs, stop, period, policy, armed, queued>>
        /\ pc[t][1] = "free"
    BY LabelFacts DEF FreeObject, coreVars, monitor, K
  <1>2. t # "core"
    BY <1>1, LabelFacts DEF RefInv, GoneInv
  <1>3. ~EarlyRelease
    BY <1>1, StepFacts DEF EarlyRelease
  <1>4. Moves(t, "idle", "none")
    BY Names DEF FreeObject
  <1> QED
    BY <1>1, <1>2, <1>3, <1>4, MonOfCalm DEF Quiet, Samples

(* The monitor takes the link down through a core that was told, and a fault *)
(* does not let it in.                                                       *)
LEMMA MonOfCoreDown ==
    ASSUME RefInv, WaitInv, LockInv, MonInv, NEW t \in Threads, CoreDown(t)
    PROVE  MonInv'
  <1>1. /\ UNCHANGED <<ctrl, life, refs, stop, period, policy, armed, queued, doing>>
        /\ pc[t][1] = "core" /\ doing[t] # "up" /\ held["core"] = "none"
    BY LabelFacts DEF CoreDown, link, monitor, K, Free
  <1>2. /\ doing[t] \in {"down", "reset", "rel_down"} \/ (t = "mon" /\ doing[t] = "async_cb")
        /\ Takes(t)
    BY <1>1, StepFacts DEF WaitInv, TakeInv, Takes, Taking, StopSteps
  <1>3. PICK n \in {"put", "await"} : Moves(t, n, doing[t])
    BY <1>1, Names DEF CoreDown
  <1>4. doing[t] \notin {"cancel", "rel_cancel"} /\ (t = "mon" => doing[t] = "async_cb")
    <2>1. t = "mon" => doing[t] = "async_cb"
      BY <1>1, MonFits DEF MonSteps
    <2> QED
      BY <1>2, <2>1
  <1>5. Stands("stop") => Stands("stop")'
    BY <1>1, <1>3 DEF Stands, Moves
  <1>6. CASE t = "core"
    <2>1. Releases(doing["core"]) /\ (Resting \/ Rising) /\ ~EarlyRelease
      BY <1>1, <1>2, <1>6, StepFacts, ThreadFacts, PhaseOf DEF Releases, EarlyRelease
    <2>2. UNCHANGED <<core, asked>>
      BY <1>4, <1>6, <2>1 DEF CoreDown, Resting, Rising
    <2> QED
      BY <1>1, <1>3, <1>6, <2>1, <2>2, MonOfQuiet
  <1>7. CASE t \notin {"core", "mon"} /\ UNCHANGED <<core, asked>>
    <2>1. ~EarlyRelease \/ ~Releases(doing[t])
      BY <1>1 DEF EarlyRelease
    <2> QED
      BY <1>1, <1>2, <1>3, <1>7, <2>1, MonOfCalm
  <1>8. CASE t \notin {"core", "mon"} /\ core = "up"
    <2>1. pc["mon"][1] # "core"
      <3>1. ~Takes("mon")
        BY <1>2, <1>8, ThreadFacts DEF WaitInv, TakeInv
      <3> QED
        BY <3>1 DEF Takes, Taking
    <2>2. Standing /\ ctrl = "STOPPING"
      BY <1>2, <1>8 DEF WaitInv, PhaseInv, TakeInv, Resting, Rising, Risen, Standing, Leaving,
                        Faulting, Failing, Fallen
    <2>3. asked = "none" /\ pc["core"][1] \notin {"publish", "async_cb"} /\ ~Resting
      BY <1>8, <2>2, CoreAt, NotLeaving DEF Leaving, Risen, Fallen, Resting
    <2>4. Excused => Stands("stop")
      BY <2>1, <2>2, <2>3 DEF Excused, Watching, Requested, Refused
    <2>5. Excused => Excused'
      BY <1>5, <2>4 DEF Excused
    <2> QED
      BY <1>1, <1>2, <1>3, <1>8, <2>5, MonFrame
  <1>9. CASE t = "mon"
    <2>1. core = "up"
      <3>1. ~(Faulting /\ pc["core"][1] \notin {"unlock", "off"})
        BY <1>1 DEF LockInv, Faulting
      <3> QED
        BY <1>1, <1>9, <3>1 DEF WaitInv, TakeInv
    <2>2. asked' = "async_cb" /\ ctrl \in {"STOPPING", "DOWN"}
      <3>1. doing["mon"] = "async_cb"
        BY <1>4, <1>9
      <3>2. asked' = "async_cb"
        BY <1>9, <2>1, <3>1 DEF CoreDown
      <3>3. ctrl \in {"STOPPING", "DOWN"}
        BY <1>2, <1>9 DEF WaitInv, TakeInv
      <3> QED
        BY <3>2, <3>3
    <2>3. \A u \in Threads : ~Releases(doing[u])
      BY <1>1, <1>9, HoldsLive, MonFits
    <2>4. Requested'
      BY <1>1, <2>2, <2>3 DEF Requested, EarlyRelease
    <2>5. Excused'
      BY <2>4 DEF Excused
    <2>6. /\ pc'["mon"][1] = n /\ doing'["mon"] = "async_cb"
          /\ \A u \in Threads : u # "mon" => pc'[u] = pc[u] /\ doing'[u] = doing[u]
          /\ "mon" \in Threads /\ "core" \in Threads /\ "core" # "mon" /\ "mon" \notin Clients
      BY <1>3, <1>4, <1>9, ThreadFacts, MonFits DEF Moves
    <2>7. /\ Stands("delete")' <=> Stands("delete")
          /\ Stands("wait")' <=> Stands("wait")
          /\ Working' <=> Working
      BY <1>1, <1>9, <2>6 DEF Stands, Working, Samples
    <2>8. PeriodInv'
      <3>1. \A c \in Clients : pc'[c] = pc[c] /\ doing'[c] = doing[c]
        BY <2>6, ThreadFacts
      <3> QED
        BY <1>1, <1>5, <2>6, <2>7, <3>1 DEF MonInv, PeriodInv
    <2>9. StopInv'
      <3>1. pc["mon"] # Idle
        BY <1>1, <1>9, LabelFacts
      <3> QED
        BY <1>1, <2>7, <3>1 DEF MonInv, StopInv
    <2>10. AliveInv'
      <3>1. pc'["core"][1] # "publish" /\ ctrl' # "UP"
        BY <1>1, <2>1, <2>2, <2>6, CoreAt
      <3> QED
        BY <3>1 DEF AliveInv
    <2>11. HaltInv'
      BY <2>5 DEF HaltInv
    <2> QED
      BY <2>8, <2>9, <2>10, <2>11 DEF MonInv
  <1>10. core = "up" \/ UNCHANGED <<core, asked>>
    BY <1>4 DEF CoreDown
  <1> QED
    BY <1>6, <1>7, <1>8, <1>9, <1>10

-----------------------------------------------------------------------------
(* The monitor and the callbacks of the core *)

LEMMA MonOfCore ==
    ASSUME MonInv, NEW n, NEW d, Moves("core", n, d), d # "policy",
           UNCHANGED <<stop, period, policy, armed, queued>>,
           pc["core"][1] \notin {"stop", "delete", "wait"},
           n \notin {"start", "delete", "wait", "publish"},
           ctrl' = "UP" => ctrl = "UP" \/ pc["core"][1] = "publish",
           refs = 0 => refs' = 0,
           \/ n = "stop"
           \/ /\ Watching => Watching'
              /\ Requested => Requested' \/ Refused'
              /\ ~Refused
    PROVE  MonInv'
  <1>1. /\ pc'["core"][1] = n /\ doing'["core"] = d
        /\ \A u \in Threads : u # "core" => pc'[u] = pc[u] /\ doing'[u] = doing[u]
        /\ "core" \in Threads /\ "mon" \in Threads /\ "core" # "mon"
    BY ThreadFacts, MonFits DEF Moves
  <1>2. Stands("stop") \/ n = "stop" => Stands("stop")'
    BY <1>1 DEF Stands
  <1>3. pc["mon"][1] = "core" => pc'["mon"][1] = "core"
    BY <1>1
  <1>4. Excused => Excused'
    BY <1>2, <1>3 DEF Excused
  <1> QED
    BY <1>1, <1>4, MonFrame

LEMMA EarlyKept ==
    ASSUME NEW n, NEW d, Moves("core", n, d), ~Releases(d)
    PROVE  EarlyRelease => EarlyRelease'
  BY DEF Moves, EarlyRelease

LEMMA MonOfCoreEnds ==
    ASSUME RefInv, WaitInv, MonInv, CoreEnds
    PROVE  MonInv'
  <1>1. /\ "core" \in Threads /\ pc["core"][1] = "idle" /\ doing["core"] = "none"
        /\ UNCHANGED <<ctrl, refs, stop, period, policy, armed, queued>>
    BY ThreadFacts, StepFacts, LabelFacts DEF CoreEnds, link, monitor, K
  <1>2. CASE /\ core = "rising" /\ UNCHANGED asked
             /\ \/ To("core", "up_cb") /\ Enters("core", "up_cb")
                \/ To("core", "fail_cb") /\ Enters("core", "fail_cb")
    <2>1. PICK n \in {"up_cb", "fail_cb"} : Moves("core", n, n)
      BY <1>1, <1>2, Names
    <2>2. Rising
      BY <1>2 DEF WaitInv, PhaseInv, Resting, Risen, Standing, Leaving, Faulting,
                  Failing, Fallen
    <2>3. ctrl = "STARTING"
      BY <2>2 DEF Rising
    <2>4. ~Watching /\ ~Requested /\ ~Refused
      BY <1>1, <2>3, CoreAt DEF Watching, Refused
    <2> QED
      BY <1>1, <2>1, <2>4, MonOfCore
  <1>3. CASE /\ core = "leaving" /\ core' = "down" /\ asked' = "none"
             /\ To("core", IF asked = "cancel_cb" THEN "fail_cb" ELSE asked)
             /\ Enters("core", asked)
    <2>1. Leaving
      BY <1>1, <1>3 DEF WaitInv, PhaseInv, Resting, Rising, Risen, Standing, Faulting,
                        Failing, Fallen
    <2>2. asked \in {"down_cb", "async_cb"} /\ ctrl = "STOPPING"
      BY <2>1 DEF WaitInv, PhaseInv, Leaving
    <2>3. Moves("core", asked, asked) /\ pc'["core"][1] = asked
      BY <1>1, <1>3, <2>2, Names DEF Moves
    <2>4. ~Watching /\ ~Refused
      BY <1>1, <1>3, <2>2 DEF Watching, Refused, Resting
    <2>5. Requested => Requested'
      <3>1. ~Releases(asked)
        BY <2>2 DEF Releases
      <3>2. EarlyRelease => EarlyRelease'
        BY <2>3, <3>1, EarlyKept
      <3> QED
        BY <1>1, <2>3, <3>2 DEF Requested
    <2> QED
      BY <1>1, <2>2, <2>3, <2>4, <2>5, MonOfCore
  <1>4. CASE /\ core = "up" /\ UNCHANGED asked
             /\ To("core", "fault_ctrl") /\ Enters("core", "fault")
    <2>1. Moves("core", "fault_ctrl", "fault")
      BY <1>1, <1>4, Names
    <2>2. ~Leaving /\ ~Resting
      BY <1>4 DEF Leaving, Resting
    <2>3. ~Requested /\ ~Refused
      BY <1>1, <2>2, NotLeaving DEF Requested, Refused
    <2>4. Watching => Watching'
      BY <1>1 DEF Watching
    <2> QED
      BY <1>1, <2>1, <2>3, <2>4, MonOfCore
  <1> QED
    BY <1>2, <1>3, <1>4 DEF CoreEnds

LEMMA MonOfFault ==
    ASSUME RefInv, WaitInv, MonInv, Fault, UNCHANGED <<refs, asked, monitor, K>>
    PROVE  MonInv'
  <1>1. /\ "core" \in Threads /\ pc["core"][1] \in {"fault_ctrl", "unlock", "off"}
        /\ UNCHANGED <<refs, asked, stop, period, policy, armed, queued>>
    BY ThreadFacts, LabelFacts DEF Fault, monitor, K
  <1>2. doing["core"] = "fault"
    BY <1>1, CoreFits DEF CoreSteps, StopSteps
  <1>3. Faulting
    BY <1>2, PhaseOf
  <1>4. ctrl' # "UP" \/ ctrl' = ctrl
    BY DEF Fault
  <1>5. CASE To("core", "stop")
    <2>1. \E d \in {"fault", "fault_cb"} : Moves("core", "stop", d)
      BY <1>1, <1>2, <1>5, LabelFacts, Names, MovesTo DEF Fault
    <2> QED
      BY <1>1, <1>4, <2>1, MonOfCore
  <1>6. CASE Is("core", "unlock") /\ To("core", "off") /\ UNCHANGED <<ctrl, doing>>
    <2>1. Moves("core", "off", "fault")
      BY <1>1, <1>2, <1>6, Names
    <2>2. ctrl = "STOPPING" /\ ~Resting /\ ~Leaving
      BY <1>3, <1>6, LabelFacts DEF Faulting, Resting, Leaving, CoreFree, Published
    <2>3. ~Watching /\ ~Requested /\ ~Refused
      BY <1>1, <2>2, NotLeaving DEF Watching, Requested, Refused
    <2> QED
      BY <1>1, <1>6, <2>1, <2>3, MonOfCore
  <1> QED
    BY <1>5, <1>6 DEF Fault

LEMMA MonOfCallbackBegins ==
    ASSUME RefInv, WaitInv, MonInv, CallbackBegins, refs = 0 => refs' = 0
    PROVE  MonInv'
  <1>1. /\ "core" \in Threads
        /\ UNCHANGED <<core, ctrl, asked, life, stop, period, policy, armed, queued>>
    BY ThreadFacts DEF CallbackBegins, coreVars, monitor, K
  <1>2. CASE Is("core", "up_cb") /\ To("core", "calc") /\ UNCHANGED doing
    <2>1. pc["core"][1] = "up_cb" /\ doing["core"] = "up_cb"
      BY <1>2, LabelFacts, CoreFits DEF CoreSteps, StopSteps
    <2>2. Moves("core", "calc", "up_cb")
      BY <1>1, <1>2, <2>1, Names
    <2>3. ctrl = "STARTING"
      BY <2>1, PhaseOf DEF Risen
    <2>4. ~Watching /\ ~Requested /\ ~Refused
      BY <2>1, <2>3, CoreAt DEF Watching, Refused
    <2> QED
      BY <1>1, <2>1, <2>2, <2>4, MonOfCore
  <1>3. CASE Is("core", "fail_cb") /\ To("core", "stopping") /\ UNCHANGED doing
    <2>1. pc["core"][1] = "fail_cb" /\ doing["core"] \in {"fail_cb", "cancel_cb"}
      BY <1>3, LabelFacts, CoreFits DEF CoreSteps, StopSteps
    <2>2. Failing /\ doing["core"] = "fail_cb"
      BY <2>1, PhaseOf
    <2>3. Moves("core", "stopping", "fail_cb")
      BY <1>1, <1>3, <2>2, Names
    <2>4. ctrl = "STARTING"
      BY <2>1, <2>2 DEF Failing
    <2>5. ~Watching /\ ~Requested /\ ~Refused
      BY <2>1, <2>4, CoreAt DEF Watching, Refused
    <2> QED
      BY <1>1, <2>1, <2>3, <2>5, MonOfCore
  <1>4. CASE /\ Is("core", "down_cb")
             /\ IF core = "down" THEN To("core", "stop") /\ UNCHANGED doing
                                 ELSE Return("core")
    <2>1. pc["core"][1] = "down_cb" /\ doing["core"] = "down_cb"
      BY <1>4, LabelFacts, CoreFits DEF CoreSteps, StopSteps
    <2>2. core = "down"
      BY <2>1, PhaseOf DEF Fallen
    <2>3. Moves("core", "stop", "down_cb")
      BY <1>1, <1>4, <2>1, <2>2, Names
    <2> QED
      BY <1>1, <2>1, <2>3, MonOfCore
  <1>5. CASE Is("core", "async_cb")
    <2>1. pc["core"][1] = "async_cb" /\ doing["core"] = "async_cb"
      BY <1>5, LabelFacts, CoreFits DEF CoreSteps, StopSteps
    <2>2. CASE To("core", "stop") /\ UNCHANGED doing
      <3>1. Moves("core", "stop", "async_cb")
        BY <1>1, <2>1, <2>2, Names
      <3> QED
        BY <1>1, <2>1, <3>1, MonOfCore
    <2>3. CASE Return("core") /\ ~(refs > 0) /\ UNCHANGED refs
      <3>1. /\ Moves("core", "idle", "none") /\ pc'["core"][1] = "idle"
            /\ doing'["core"] = "none"
        BY <1>1, <2>3, Names DEF Moves
      <3>2. Fallen /\ core = "down" /\ ctrl = "STOPPING" /\ ~Leaving /\ ~Resting
        BY <2>1, PhaseOf DEF Fallen, Leaving, Resting, CoreQuiet, Releases
      <3>3. asked = "none"
        BY <3>2, NotLeaving
      <3>4. life = "live" /\ refs = 0
        <4>1. pc["core"] # Idle
          BY <2>1, LabelFacts
        <4>2. life = "live"
          BY <4>1 DEF RefInv, GoneInv, ReleaseInv
        <4>3. refs \in Nat
          BY CountFacts DEF RefInv
        <4> QED
          BY <2>3, <4>2, <4>3
      <3>5. Resting'
        BY <1>1, <3>1, <3>2 DEF Resting, CoreQuiet
      <3>6. Requested => Refused'
        <4>1. EarlyRelease => EarlyRelease'
          BY <3>1, EarlyKept DEF Releases
        <4> QED
          BY <1>1, <2>3, <3>2, <3>3, <3>4, <3>5, <4>1 DEF Requested, Refused
      <3>7. ~Watching /\ ~Refused
        BY <2>1, <3>2 DEF Watching, Refused
      <3> QED
        BY <1>1, <2>1, <3>1, <3>6, <3>7, MonOfCore
    <2> QED
      BY <1>5, <2>2, <2>3, LabelFacts DEF CallbackBegins, Is, At
  <1> QED
    BY <1>2, <1>3, <1>4, <1>5 DEF CallbackBegins

LEMMA MonOfCallbackEnds ==
    ASSUME RefInv, WaitInv, MonInv, CallbackEnds,
           UNCHANGED <<life, refs, core, asked, monitor, K>>
    PROVE  MonInv'
  <1>1. /\ "core" \in Threads
        /\ UNCHANGED <<life, refs, core, asked, stop, period, policy, armed, queued>>
    BY ThreadFacts DEF monitor, K
  <1>2. CASE Is("core", "publish") /\ ctrl' = "UP" /\ To("core", "notify") /\ UNCHANGED doing
    <2>1. pc["core"][1] = "publish" /\ doing["core"] = "up_cb"
      BY <1>2, LabelFacts, CoreFits DEF CoreSteps, StopSteps
    <2>2. Moves("core", "notify", "up_cb")
      BY <1>1, <1>2, <2>1, Names
    <2>3. ctrl = "STARTING"
      BY <2>1, CoreAt
    <2>4. Watching' /\ ~Requested /\ ~Refused
      BY <1>2, <2>3, CoreAt DEF Watching, Refused
    <2> QED
      BY <1>1, <2>1, <2>2, <2>4, MonOfCore
  <1>3. CASE /\ pc["core"][1] \in {"stopping", "flush", "settle", "complete"} /\ ctrl' # "UP"
             /\ \E n \in {"flush", "settle", "complete", "notify"} : To("core", n)
             /\ UNCHANGED doing
    <2>1. pc["core"][1] \in {"stopping", "flush", "settle", "complete"}
          /\ doing["core"] \in {"fail_cb", "cancel_cb", "down_cb", "async_cb", "fault_cb"}
      BY <1>3, CoreFits DEF CoreSteps, StopSteps
    <2>2. PICK n \in {"flush", "settle", "complete", "notify"} : Moves("core", n, doing["core"])
      BY <1>1, <1>3, Names
    <2>3. Failing \/ Fallen
      BY <2>1, PhaseOf
    <2>4. ctrl \notin {"UP", "UP_DOWN_REQ"} /\ ~Leaving /\ ~Resting
      BY <2>1, <2>3 DEF Failing, Fallen, Leaving, Resting, CoreQuiet, Releases
    <2>5. ~Watching /\ ~Requested /\ ~Refused
      BY <2>1, <2>4, NotLeaving DEF Watching, Requested, Refused
    <2> QED
      BY <1>1, <1>3, <2>1, <2>2, <2>5, MonOfCore
  <1>4. CASE Is("core", "notify") /\ UNCHANGED ctrl
    <2>1. pc["core"][1] = "notify" /\ doing["core"] # "cancel_cb"
          /\ doing["core"] \in {"up_cb", "fail_cb", "cancel_cb", "down_cb", "async_cb",
                                "fault_cb"}
      BY <1>4, LabelFacts, CoreFits, PhaseOf DEF CoreSteps, StopSteps
    <2>2. \/ Return("core")
          \/ doing["core"] = "async_cb" /\ To("core", "put") /\ UNCHANGED doing
      BY <2>1 DEF CallbackEnds, Is, At
    <2>3. PICK n \in {"idle", "put"}, d \in {"none", "async_cb"} : Moves("core", n, d)
      BY <1>1, <2>2, Names
    <2>4. Watching => Watching'
      BY <1>4, <2>1 DEF Watching
    <2>5. Requested => Requested'
      <3>1. EarlyRelease => EarlyRelease'
        BY <2>3, EarlyKept DEF Releases
      <3> QED
        BY <1>1, <2>1, <3>1 DEF Requested
    <2>6. ~Refused
      BY <2>1 DEF Refused, Resting, CoreQuiet, Releases
    <2> QED
      BY <1>1, <1>4, <2>1, <2>3, <2>4, <2>5, <2>6, MonOfCore
  <1>5. \/ Is("core", "publish") /\ ctrl' = "UP" /\ To("core", "notify") /\ UNCHANGED doing
        \/ /\ pc["core"][1] \in {"stopping", "flush", "settle", "complete"}
           /\ ctrl' # "UP" \/ (UNCHANGED ctrl /\ pc["core"][1] \in {"flush", "complete"})
           /\ \E n \in {"flush", "settle", "complete", "notify"} : To("core", n)
           /\ UNCHANGED doing
        \/ Is("core", "notify") /\ UNCHANGED ctrl
    <2> HIDE DEF MonInv, WaitInv, RefInv
    <2> QED
      BY LabelFacts DEF CallbackEnds
  <1>6. pc["core"][1] \in {"flush", "complete"} => ctrl # "UP"
    <2>1. pc["core"][1] \in {"flush", "complete"} =>
            doing["core"] \in {"fail_cb", "cancel_cb", "down_cb", "async_cb", "fault_cb"}
      BY CoreFits DEF CoreSteps, StopSteps
    <2> QED
      BY <2>1, PhaseOf DEF Failing, Fallen
  <1> QED
    BY <1>2, <1>3, <1>4, <1>5, <1>6

-----------------------------------------------------------------------------
(* Starting and stopping the monitor *)

(* What stands where, when one thread moves *)
LEMMA StandsMove ==
    ASSUME NEW t \in Threads, NEW n, NEW d, Moves(t, n, d)
    PROVE  /\ Stands(n)'
           /\ \A m : m # n => (Stands(m)' => Stands(m))
           /\ \A m : m # pc[t][1] => (Stands(m) => Stands(m)')
  BY DEF Moves, Stands

(* Nobody stops the monitor while it is started. *)
LEMMA NobodyStops ==
    ASSUME RefInv, WaitInv, MonInv, NEW t \in Threads, pc[t][1] = "start",
           doing[t] = "policy" => ctrl \in {"UP", "UP_DOWN_REQ"}
    PROVE  ~Stands("delete") /\ ~Stands("wait")
  <1>1. SUFFICES ASSUME NEW u \in Threads, pc[u][1] \in {"delete", "wait"}
                 PROVE  FALSE
    BY DEF Stands
  <1>2. doing[t] \in {"policy", "up_cb"}
    BY StepFacts
  <1>3. doing[t] = "up_cb" => t = "core" /\ Risen
    BY StepFacts, CoreAt
  <1>4. doing[t] = "policy" => t \in Clients
    BY StepFacts
  <1>5. ctrl \in {"UP", "UP_DOWN_REQ", "STARTING"}
    BY <1>2, <1>3 DEF Risen
  <1>6. ~Takes(u)
    BY <1>5 DEF WaitInv, TakeInv
  <1>7. doing[u] \notin {"down", "reset", "rel_down", "cancel", "rel_cancel"}
    BY <1>1, <1>6 DEF Takes, Taking, StopSteps, WaitInv, TakeInv
  <1>8. doing[u] \in {"policy", "up_cb", "down_cb", "async_cb", "fault_cb", "fault"}
    BY <1>1, <1>7, StepFacts
  <1>9. CASE doing[u] = "policy"
    <2>1. u \in Clients
      BY <1>9, StepFacts
    <2>2. policy = 0
      BY <1>1, <1>9, <2>1 DEF MonInv, PeriodInv
    <2>3. CASE doing[t] = "policy"
      <3>1. u = t
        BY <1>4, <1>9, <2>1, <2>3, RivalFacts DEF WaitInv, RivalInv
      <3> QED
        BY <1>1, <3>1
    <2>4. CASE doing[t] = "up_cb"
      BY <1>1, <1>3, <1>9, <2>1, <2>2, <2>4 DEF MonInv, PeriodInv
    <2> QED
      BY <1>2, <2>3, <2>4
  <1>10. CASE doing[u] # "policy"
    <2>1. u # "mon"
      <3>1. u = "mon" => doing[u] \in {"release", "rel_cancel", "rel_down"}
        BY <1>1, MonFits DEF MonSteps
      <3> QED
        BY <1>8, <3>1
    <2>2. u = "core"
      BY <1>8, <1>10, <2>1, StepFacts
    <2>3. CASE doing[t] = "up_cb"
      BY <1>1, <1>3, <2>2, <2>3
    <2>4. CASE doing[t] = "policy"
      <3>1. Standing \/ (Faulting /\ pc["core"][1] = "fault_ctrl")
        BY <2>4, UpFacts
      <3>2. doing["core"] # "none"
        BY <1>8, <2>2
      <3> QED
        BY <1>1, <2>2, <3>1, <3>2 DEF Standing, CoreFree, Published
    <2> QED
      BY <1>2, <2>3, <2>4
  <1> QED
    BY <1>9, <1>10

LEMMA MonOfMonStart ==
    ASSUME RefInv, WaitInv, MonInv, NEW t \in Threads, MonStart(t), ~raced',
           UNCHANGED <<ctrl, core, asked, life, refs, doing, policy, queued>>
    PROVE  MonInv'
  <1>1. pc[t][1] \in {"calc", "start"} /\ doing[t] \in {"policy", "up_cb"}
    BY StepFacts, LabelFacts DEF MonStart
  <1>2. /\ doing[t] = "policy" => t \in Clients
        /\ doing[t] = "up_cb" => t = "core"
        /\ t # "mon" /\ "mon" \in Threads /\ "core" \in Threads /\ "core" \notin Clients
    <2>1. t = "mon" => doing[t] \notin {"policy", "up_cb"}
      BY MonFits DEF MonSteps
    <2> QED
      BY <1>1, <2>1, StepFacts, ThreadFacts
  <1>3. \A c \in Clients : doing[c] = "policy" /\ doing[t] = "policy" => c = t
    BY <1>2, RivalFacts DEF WaitInv, RivalInv
  <1>4. CASE /\ pc[t][1] = "calc" /\ period' = policy /\ UNCHANGED <<stop, armed>>
             /\ To(t, IF policy = 0 THEN "stop" ELSE "start")
    <2> DEFINE n == IF policy = 0 THEN "stop" ELSE "start"
    <2>1. Moves(t, n, doing[t])
      BY <1>4, Names
    <2>2. n = (IF policy = 0 THEN "stop" ELSE "start") /\ n \in {"stop", "start"}
      OBVIOUS
    <2> HIDE DEF n
    <2>3. /\ pc'[t][1] = n /\ doing'[t] = doing[t]
          /\ \A u \in Threads : u # t => pc'[u] = pc[u] /\ doing'[u] = doing[u]
      BY <2>1 DEF Moves
    <2>4. /\ Stands("stop") => Stands("stop")'
          /\ Stands("delete")' <=> Stands("delete")
          /\ Stands("wait")' <=> Stands("wait")
          /\ policy = 0 => Stands("stop")'
      BY <1>4, <2>1, <2>2, StandsMove
    <2>5. (Working' <=> Working) /\ pc'["mon"] = pc["mon"]
      BY <1>2, <1>4, <2>3 DEF Working
    <2>6. PeriodInv'
      <3>1. \A c \in Clients : doing'[c] = "policy" =>
              /\ pc'[c][1] = "start" => policy # 0
              /\ pc'[c][1] \in {"stop", "delete", "wait"} => policy = 0
        BY <2>2, <2>3, ThreadFacts DEF MonInv, PeriodInv
      <3>2. pc'["core"][1] = "start" => policy # 0
        <4>1. CASE t = "core"
          BY <2>2, <2>3, <4>1
        <4>2. CASE t # "core"
          BY <1>1, <1>2, <1>4, <2>3, <4>2 DEF MonInv, PeriodInv
        <4> QED
          BY <4>1, <4>2
      <3>3. ~stop' /\ period' = 0 => Stands("stop")'
        BY <1>4, <2>4
      <3> QED
        BY <1>4, <3>1, <3>2, <3>3 DEF PeriodInv
    <2>7. StopInv'
      BY <1>4, <2>4, <2>5 DEF MonInv, StopInv
    <2>8. pc'["core"][1] = "publish" => pc["core"][1] = "publish"
      BY <1>2, <2>2, <2>3
    <2>9. AliveInv'
      BY <1>4, <2>4, <2>5, <2>8 DEF MonInv, AliveInv
    <2>10. Excused => Excused'
      <3>1. Watching => Watching'
        BY <1>2, <1>4, <2>3 DEF Watching
      <3>2. Requested => Requested'
        <4>1. EarlyRelease => EarlyRelease'
          BY <1>1, <2>3 DEF EarlyRelease, Releases
        <4>2. pc["core"][1] = "async_cb" => pc'["core"][1] = "async_cb"
          BY <1>2, <1>4, <2>3
        <4> QED
          BY <4>1, <4>2 DEF Requested
      <3>3. Refused => Refused'
        <4>1. EarlyRelease => EarlyRelease'
          BY <1>1, <2>3 DEF EarlyRelease, Releases
        <4>2. Resting => t # "core"
          BY <1>4, CoreAt DEF Risen, Resting
        <4>3. t # "core" => (Resting' <=> Resting)
          BY <2>1, PhaseSame
        <4> QED
          BY <4>1, <4>2, <4>3 DEF Refused
      <3> QED
        BY <2>4, <2>5, <3>1, <3>2, <3>3 DEF Excused
    <2>11. HaltInv'
      BY <1>4, <2>5, <2>10 DEF MonInv, HaltInv
    <2> QED
      BY <2>6, <2>7, <2>9, <2>11 DEF MonInv
  <1>5. CASE /\ pc[t][1] = "start" /\ stop' = FALSE /\ armed' = {"mon"} /\ UNCHANGED period
             /\ doing[t] = "policy" => ctrl \in {"UP", "UP_DOWN_REQ"}
             /\ To(t, IF doing[t] = "up_cb" THEN "publish" ELSE "put")
    <2>1. PICK n \in {"publish", "put"} : /\ Moves(t, n, doing[t])
                                          /\ n = "publish" <=> doing[t] = "up_cb"
      BY <1>1, <1>5, Names
    <2>2. /\ pc'[t][1] = n /\ doing'[t] = doing[t]
          /\ \A u \in Threads : u # t => pc'[u] = pc[u] /\ doing'[u] = doing[u]
      BY <2>1 DEF Moves
    <2>3. ~Stands("delete")' /\ ~Stands("wait")'
      BY <1>5, <2>1, NobodyStops, StandsMove
    <2>4. Working' /\ armed' # {}
      BY <1>5 DEF Working
    <2>5. period # 0
      <3>1. CASE doing[t] = "policy"
        BY <1>2, <1>5, <3>1 DEF MonInv, PeriodInv
      <3>2. CASE doing[t] = "up_cb"
        BY <1>2, <1>5, <3>2 DEF MonInv, PeriodInv
      <3> QED
        BY <1>1, <3>1, <3>2
    <2>6. pc'["core"][1] # "start"
      <3>1. CASE doing[t] = "policy"
        BY <1>2, <1>5, <2>2, <3>1, CoreAt
      <3>2. CASE doing[t] = "up_cb"
        BY <1>2, <2>1, <2>2, <3>2
      <3> QED
        BY <1>1, <3>1, <3>2
    <2>7. PeriodInv'
      <3>1. \A c \in Clients : doing'[c] = "policy" =>
              /\ pc'[c][1] = "start" => pc[c][1] = "start" /\ doing[c] = "policy"
              /\ pc'[c][1] \in {"stop", "delete", "wait"} =>
                   pc[c][1] \in {"stop", "delete", "wait"} /\ doing[c] = "policy"
        BY <2>2, ThreadFacts
      <3> QED
        BY <1>5, <2>5, <2>6, <3>1 DEF MonInv, PeriodInv
    <2>8. StopInv'
      BY <1>5, <2>3 DEF StopInv
    <2>9. AliveInv'
      BY <2>4 DEF AliveInv
    <2>10. HaltInv'
      <3>1. Watching'
        <4>1. doing[t] = "up_cb" => pc'["core"][1] = "publish"
          BY <1>2, <2>1, <2>2
        <4> QED
          BY <1>1, <1>5, <4>1 DEF Watching
      <3> QED
        BY <3>1 DEF HaltInv, Excused
    <2> QED
      BY <2>7, <2>8, <2>9, <2>10 DEF MonInv
  <1>6. pc[t][1] = "start" /\ stop' = FALSE =>
           (doing[t] = "policy" => ctrl \in {"UP", "UP_DOWN_REQ"}) \/ ~MonStart(t) \/ pc[t][1] = "calc"
    <2>1. Is(t, "calc") => pc[t][1] = "calc"
      BY LabelFacts
    <2>2. raced' = (raced \/ (doing[t] = "policy" /\ ctrl \notin {"UP", "UP_DOWN_REQ"}))
            => (doing[t] = "policy" => ctrl \in {"UP", "UP_DOWN_REQ"})
      <3> HIDE DEF MonInv, WaitInv, RefInv
      <3> QED
        BY Zenon
    <2> QED
      BY <2>1, <2>2 DEF MonStart
  <1> QED
    BY <1>4, <1>5, <1>6, LabelFacts DEF MonStart

LEMMA MonOfMonStop ==
    ASSUME RefInv, TypeInv, WaitInv, MonInv, NEW t \in Threads, MonStop(t),
           UNCHANGED <<ctrl, core, asked, life, refs, doing, policy, period>>
    PROVE  MonInv'
  <1>1. /\ pc[t][1] \in {"stop", "delete", "wait"} /\ queued \in {{}, {"mon"}}
        /\ stop \in BOOLEAN
    BY LabelFacts, Labelled DEF MonStop, Waited, TypeInv, RangesInv
  <1>2. PICK n : /\ Moves(t, n, doing[t])
                 /\ \/ n \in {"delete", "wait"}
                    \/ /\ n \in {"put", "publish", "unlock", "flush", "core"}
                       /\ Step(n) = AfterStop(t) /\ t # "mon" /\ pc["mon"] = Idle
    <2>1. MonStop(t) => \E n : /\ Moves(t, n, doing[t])
                 /\ \/ n \in {"delete", "wait"}
                    \/ /\ n \in {"put", "publish", "unlock", "flush", "core"}
                       /\ Step(n) = AfterStop(t) /\ t # "mon" /\ pc["mon"] = Idle
      <3>1. CASE To(t, "delete") \/ Go(t, <<"wait", "mon">>)
        <4>1. \E n \in {"delete", "wait"} : Moves(t, n, doing[t])
          BY <3>1, Names, MovesOn
        <4> QED
          BY <4>1
      <3>2. CASE Waited(t, "wait", "mon") /\ Go(t, AfterStop(t))
        <4>1. PICK a \in {"put", "publish", "unlock", "flush", "core"} : AfterStop(t) = Step(a)
          BY DEF AfterStop
        <4>2. Moves(t, a, doing[t])
          BY <3>2, <4>1, Names DEF To
        <4>3. pc["mon"] = Idle /\ t # "mon"
          BY <3>2 DEF Waited, At, Idle
        <4> QED
          BY <4>1, <4>2, <4>3
      <3> QED
        BY <3>1, <3>2 DEF MonStop, Cancel
    <2> QED
      BY <2>1
  <1>3. /\ pc'[t][1] = n /\ doing'[t] = doing[t]
        /\ \A u \in Threads : u # t => pc'[u] = pc[u] /\ doing'[u] = doing[u]
        /\ "core" \in Threads /\ "mon" \in Threads
    BY <1>2, ThreadFacts DEF Moves
  <1>4. stop' = TRUE
    <2>1. pc[t][1] # "stop" => Stands("delete") \/ Stands("wait")
      BY <1>1 DEF Stands
    <2>2. pc[t][1] # "stop" => stop
      BY <2>1 DEF MonInv, StopInv
    <2> QED
      BY <1>1, <2>2, LabelFacts DEF MonStop, Waited
  <1>5. PeriodInv'
    <2>1. \A c \in Clients : doing'[c] = "policy" =>
            /\ pc'[c][1] = "start" => pc[c][1] = "start" /\ doing[c] = "policy"
            /\ pc'[c][1] \in {"stop", "delete", "wait"} =>
                 pc[c][1] \in {"stop", "delete", "wait"} /\ doing[c] = "policy"
            /\ pc'[c][1] = "calc" => pc[c][1] = "calc" /\ doing[c] = "policy"
      BY <1>1, <1>2, <1>3, ThreadFacts
    <2>2. pc'["core"][1] = "start" => pc["core"][1] = "start"
      BY <1>2, <1>3
    <2> QED
      BY <1>4, <2>1, <2>2 DEF MonInv, PeriodInv
  <1>6. StopInv'
    <2>1. CASE pc[t][1] = "stop" /\ ~stop
      <3>1. To(t, "delete") /\ UNCHANGED <<queued, armed>>
        BY <2>1, LabelFacts DEF MonStop, Waited
      <3>2. Moves(t, "delete", doing[t])
        BY <3>1, Names
      <3>3. Stands("delete")' /\ (Stands("wait")' => Stands("wait"))
        BY <3>2, StandsMove
      <3> QED
        BY <1>4, <3>1, <3>3 DEF MonInv, StopInv
    <2>2. CASE pc[t][1] = "stop" /\ stop
      <3>1. Go(t, <<"wait", "mon">>) /\ queued' = queued \ {"mon"} /\ UNCHANGED armed
        BY <2>2, LabelFacts DEF MonStop, Waited, Cancel
      <3>2. Moves(t, "wait", doing[t])
        BY <3>1, MovesOn
      <3>3. Stands("wait")' /\ (Stands("delete") => Stands("delete")')
        BY <2>2, <3>2, StandsMove
      <3>4. queued' = {}
        BY <1>1, <3>1
      <3> QED
        BY <1>4, <2>2, <3>1, <3>3, <3>4 DEF MonInv, StopInv
    <2>3. CASE pc[t][1] = "delete"
      <3>1. Go(t, <<"wait", "mon">>) /\ queued' = queued \ {"mon"} /\ armed' = {}
        BY <2>3, LabelFacts DEF MonStop, Waited, Cancel
      <3>2. Moves(t, "wait", doing[t])
        BY <3>1, MovesOn
      <3>3. Stands("wait")'
        BY <3>2, StandsMove
      <3>4. queued' = {}
        BY <1>1, <3>1
      <3> QED
        BY <1>4, <3>1, <3>3, <3>4 DEF StopInv
    <2>4. CASE pc[t][1] = "wait"
      <3>1. /\ Waited(t, "wait", "mon") /\ Go(t, AfterStop(t))
            /\ UNCHANGED <<queued, armed>>
        BY <2>4, LabelFacts DEF MonStop, Waited
      <3>2. pc["mon"] = Idle /\ t # "mon"
        BY <3>1 DEF Waited, At, Idle
      <3>3. queued = {} /\ stop
        BY <2>4 DEF MonInv, StopInv, Stands
      <3>4. Stands("delete") => Stands("delete")'
        BY <1>2, <2>4, StandsMove
      <3>5. pc'["mon"] = pc["mon"]
        BY <1>3, <3>2
      <3> QED
        BY <1>4, <3>1, <3>2, <3>3, <3>4, <3>5 DEF MonInv, StopInv
    <2> QED
      BY <1>1, <2>1, <2>2, <2>3, <2>4
  <1>7. AliveInv' /\ HaltInv'
    BY <1>4 DEF AliveInv, HaltInv
  <1> QED
    BY <1>5, <1>6, <1>7 DEF MonInv

LEMMA MonOfMonStep ==
    ASSUME RefInv, TypeInv, WaitInv, MonInv, NEW t \in Threads, MonStep(t), ~raced'
    PROVE  MonInv'
  <1>1. UNCHANGED <<ctrl, core, asked, life, refs, doing, policy>>
    BY DEF MonStep, link, coreVars
  <1>2. CASE MonStart(t) /\ UNCHANGED queued
    BY <1>1, <1>2, MonOfMonStart
  <1>3. CASE MonStop(t) /\ UNCHANGED period
    BY <1>1, <1>3, MonOfMonStop
  <1> QED
    BY <1>2, <1>3 DEF MonStep

LEMMA MonOfAny ==
    ASSUME RefInv, TypeInv, WaitInv, LockInv, MonInv, NEW t \in Threads, AnyThread(t),
           ~raced', refs = 0 => refs' = 0
    PROVE  MonInv'
  BY MonOfPut, MonOfMonStep, MonOfCoreDown, MonOfAwait, MonOfRelease, MonOfCoreDel,
     MonOfFreeObject DEF AnyThread

-----------------------------------------------------------------------------
(* The timer and the work *)

LEMMA MonOfMonTimer ==
    ASSUME RefInv, TypeInv, MonInv, MonTimer
    PROVE  MonInv'
  <1>1. /\ UNCHANGED <<ctrl, core, asked, life, refs, doing, policy, period, stop, pc>>
        /\ armed # {} /\ armed' = {} /\ QueueWork("mon")
    BY DEF MonTimer, link, coreVars, monitor
  <1>2. "mon" \in Threads /\ queued \in {{}, {"mon"}}
    BY ThreadFacts, Labelled
  <1>3. /\ Stands("stop")' <=> Stands("stop")
        /\ Stands("delete")' <=> Stands("delete")
        /\ Stands("wait")' <=> Stands("wait")
    BY <1>1 DEF Stands
  <1>4. Working
    BY <1>1 DEF Working
  <1>5. Excused' <=> Excused
    <2>1. (Resting' <=> Resting) /\ (EarlyRelease' <=> EarlyRelease)
      BY <1>1 DEF Resting, CoreQuiet, EarlyRelease
    <2>2. (Watching' <=> Watching) /\ (Requested' <=> Requested) /\ (Refused' <=> Refused)
      BY <1>1, <2>1 DEF Watching, Requested, Refused
    <2> QED
      BY <1>1, <1>3, <2>2 DEF Excused
  <1>6. DOMAIN pc = Threads
    BY DEF RefInv, ShapeInv
  <1>7. Held("mon") <=> Stands("wait")
    <2>1. \A t \in Threads : At(t, "wait", "mon") <=> pc[t][1] = "wait"
      BY Labelled DEF At
    <2>2. \A t \in Threads : ~At(t, "del", "mon")
      BY Labelled DEF At
    <2> QED
      BY <1>6, <2>1, <2>2 DEF Held, Stands
  <1>8. CASE stop
    <2>1. Stands("delete")
      BY <1>1, <1>8 DEF MonInv, StopInv
    <2>2. Stands("wait") => queued' = {}
      BY <1>1, <1>7 DEF QueueWork, MonInv, StopInv
    <2>3. StopInv'
      BY <1>1, <1>3, <1>8, <2>1, <2>2 DEF StopInv
    <2>4. PeriodInv' /\ AliveInv' /\ HaltInv'
      BY <1>1, <1>8 DEF MonInv, PeriodInv, AliveInv, HaltInv
    <2> QED
      BY <2>3, <2>4 DEF MonInv
  <1>9. CASE ~stop
    <2>1. ~Stands("wait") /\ ~Stands("delete")
      BY <1>9 DEF MonInv, StopInv
    <2>2. Working' /\ queued' # {}
      BY <1>1, <1>7, <2>1 DEF QueueWork, Working
    <2>3. PeriodInv'
      BY <1>1, <1>3, <1>4 DEF MonInv, PeriodInv
    <2>4. StopInv'
      BY <1>1, <1>3, <1>9, <2>1 DEF StopInv
    <2>5. AliveInv' /\ HaltInv'
      BY <1>1, <1>4, <1>5, <1>9, <2>2 DEF MonInv, AliveInv, HaltInv
    <2> QED
      BY <2>3, <2>4, <2>5 DEF MonInv
  <1> QED
    BY <1>8, <1>9

(* The monitor's work goes on, or ends for a reason. *)
LEMMA MonOwn ==
    ASSUME MonInv, TypeInv, NEW n, NEW d, Moves("mon", n, d), d # "policy",
           pc["mon"][1] \in Samples \/ "mon" \in queued,
           pc["mon"][1] \in Samples \cup {"idle"},
           n \notin {"start", "stop", "delete", "wait"},
           UNCHANGED <<stop, period, policy>>,
           queued' \in {queued, {}}, armed' = armed \/ ~stop,
           (ctrl' = "UP" \/ pc["core"][1] = "publish") /\ ~stop
               => Working' \/ Stands("stop") \/ refs' = 0,
           ~stop /\ Working' /\ Excused => Excused'
    PROVE  MonInv'
  <1>1. /\ pc'["mon"][1] = n /\ doing'["mon"] = d
        /\ \A u \in Threads : u # "mon" => pc'[u] = pc[u] /\ doing'[u] = doing[u]
        /\ "core" \in Threads /\ "mon" \in Threads /\ "core" # "mon"
        /\ \A c \in Clients : pc'[c] = pc[c] /\ doing'[c] = doing[c]
    BY ThreadFacts, MonFits DEF Moves
  <1>2. Working
    BY DEF Working
  <1>3. pc["mon"][1] \notin {"stop", "delete", "wait"}
    BY DEF Samples
  <1>4. /\ Stands("stop")' <=> Stands("stop")
        /\ Stands("delete")' <=> Stands("delete")
        /\ Stands("wait")' <=> Stands("wait")
    BY <1>1, <1>3 DEF Stands
  <1>5. PeriodInv'
    BY <1>1, <1>2, <1>4 DEF MonInv, PeriodInv
  <1>6. StopInv'
    <2>1. pc["mon"] # Idle \/ queued # {}
      BY LabelFacts DEF Samples
    <2>2. stop => armed' = armed
      OBVIOUS
    <2>3. Stands("wait") => queued' = {}
      BY DEF MonInv, StopInv
    <2> QED
      BY <1>4, <2>1, <2>2, <2>3 DEF MonInv, StopInv
  <1>7. AliveInv' /\ HaltInv'
    BY <1>1, <1>2, <1>4 DEF MonInv, AliveInv, HaltInv
  <1> QED
    BY <1>5, <1>6, <1>7 DEF MonInv

(* It leaves the link as it is. *)
LEMMA MonOwnCalm ==
    ASSUME RefInv, TypeInv, MonInv, NEW n, Go("mon", Step(n)), UNCHANGED doing,
           pc["mon"][1] \in Samples \/ "mon" \in queued,
           pc["mon"][1] \in Samples \cup {"idle"},
           n \notin {"start", "stop", "delete", "wait", "core"},
           UNCHANGED <<core, ctrl, asked, life, stop, period, policy>>,
           refs = 0 => refs' = 0,
           queued' \in {queued, {}}, armed' = armed \/ ~stop,
           \/ n \in Samples \/ armed' # {} \/ refs' = 0 \/ stop \/ period = 0
           \/ ctrl # "UP" /\ pc["core"][1] # "publish"
    PROVE  MonInv'
  <1>1. doing["mon"] = "none" /\ "mon" \in Threads /\ "mon" # "core"
    BY MonFree, MonFits DEF Samples
  <1>2. Moves("mon", n, "none")
    BY <1>1, Names DEF To
  <1>3. pc["mon"][1] # "core" /\ pc["mon"][1] # "stop"
    BY DEF Samples
  <1>4. Excused => Excused'
    BY <1>1, <1>2, <1>3, ExcuseOfCalm DEF Releases
  <1>5. Working
    BY DEF Working
  <1>6. (ctrl' = "UP" \/ pc["core"][1] = "publish") /\ ~stop
           => Working' \/ Stands("stop") \/ refs' = 0
    <2>1. n \in Samples \/ armed' # {} => Working'
      BY <1>1, <1>2 DEF Working, Moves
    <2>2. period = 0 /\ ~stop => Stands("stop")
      BY <1>5 DEF MonInv, PeriodInv
    <2> QED
      BY <2>1, <2>2
  <1> QED
    BY <1>2, <1>4, <1>6, MonOwn

LEMMA MonOfMonWork ==
    ASSUME RefInv, TypeInv, WaitInv, MonInv, MonWork, UNCHANGED <<stop, period, policy>>,
           ~raced', refs = 0 => refs' = 0
    PROVE  MonInv'
  <1>1. CASE MonLook /\ UNCHANGED <<link, core, asked, doing>>
    <2>1. UNCHANGED <<core, ctrl, asked, life, refs, doing>>
      BY <1>1 DEF link
    <2>2. queued \in {{}, {"mon"}}
      BY Labelled, MonFits
    <2>3. CASE Take("mon") /\ To("mon", "sample") /\ UNCHANGED armed
      <3>1. "mon" \in queued /\ pc["mon"][1] = "idle" /\ queued' = queued \ {"mon"}
        BY <2>3, LabelFacts DEF Take
      <3>2. queued' = {}
        BY <2>2, <3>1
      <3> QED
        BY <2>1, <2>3, <3>1, <3>2, MonOwnCalm DEF To, Samples
    <2>4. CASE /\ Is("mon", "sample") /\ UNCHANGED <<queued, armed>>
               /\ \/ period = 0 /\ Go("mon", Idle)
                  \/ period # 0 /\ To("mon", "again")
                  \/ period # 0 /\ To("mon", IF stop THEN "idle" ELSE "judge")
      <3>1. pc["mon"][1] = "sample"
        BY <2>4, LabelFacts
      <3>2. \E n \in {"idle", "again", "judge"} : /\ Go("mon", Step(n))
                                                  /\ n = "idle" => stop \/ period = 0
        BY <2>4 DEF To, Idle, Step
      <3> QED
        BY <2>1, <2>4, <3>1, <3>2, MonOwnCalm DEF Samples
    <2>5. CASE Is("mon", "again") /\ armed' = {"mon"} /\ Go("mon", Idle) /\ UNCHANGED queued
               /\ raced' = (raced \/ stop)
      <3>1. ~stop
        <4> HIDE DEF MonInv, WaitInv, RefInv
        <4> QED
          BY <2>5, Zenon
      <3>2. Go("mon", Step("idle")) /\ pc["mon"][1] = "again"
        BY <2>5, LabelFacts DEF Idle, Step
      <3> QED
        BY <2>1, <2>5, <3>1, <3>2, MonOwnCalm DEF Samples
    <2> QED
      BY <1>1, <2>3, <2>4, <2>5 DEF MonLook
  <1>2. CASE MonJudge /\ UNCHANGED <<link, core, asked, doing, queued, armed>>
    <2>1. UNCHANGED <<core, ctrl, asked, life, refs, doing>>
      BY <1>2 DEF link
    <2>2. /\ pc["mon"][1] = "judge"
          /\ \E n \in {"idle", "again", "async"} : /\ Go("mon", Step(n))
                                                   /\ n = "idle" => stop \/ period = 0
      BY <1>2, LabelFacts DEF MonJudge, To
    <2> QED
      BY <1>2, <2>1, <2>2, MonOwnCalm DEF Samples
  <1>3. CASE AsyncDown /\ UNCHANGED <<life, queued, armed>>
    <2>1. UNCHANGED <<core, asked>> /\ pc["mon"][1] \in {"async", "async_core"}
      BY <1>3, LabelFacts DEF AsyncDown
    <2>2. "mon" \in Threads /\ "core" \in Threads /\ "mon" # "core"
      BY MonFits, ThreadFacts
    <2>3. CASE /\ Is("mon", "async") /\ UNCHANGED <<ctrl, doing>>
               /\ IF refs > 0 THEN refs' = refs + 1 /\ To("mon", "async_core")
                              ELSE Go("mon", Idle) /\ UNCHANGED refs
      <3>1. \E n \in {"idle", "async_core"} : Go("mon", Step(n)) /\ (n = "idle" => refs' = 0)
        <4>1. refs \in Nat
          BY CountFacts DEF RefInv
        <4> QED
          BY <2>3, <4>1 DEF To, Idle, Step
      <3> QED
        BY <1>3, <2>1, <2>3, <3>1, MonOwnCalm DEF Samples
    <2>4. CASE /\ ctrl = "UP" /\ ctrl' = "STOPPING"
               /\ To("mon", "core") /\ Enters("mon", "async_cb")
      <3>1. Moves("mon", "core", "async_cb")
        BY <2>2, <2>4, Names
      <3>2. Excused'
        BY <2>2, <3>1 DEF Moves, Excused
      <3>3. ctrl' # "UP" /\ pc["core"][1] # "publish"
        BY <2>4, CoreAt
      <3> QED
        BY <1>3, <2>1, <3>1, <3>2, <3>3, MonOwn DEF Samples
    <2>5. CASE /\ ctrl \in {"UP", "UP_DOWN_REQ"} /\ ctrl' = "UP_DOWN_REQ"
               /\ Go("mon", Idle) /\ UNCHANGED doing /\ Is("mon", "async_core")
      <3>1. doing["mon"] = "none"
        BY <2>1, MonFree
      <3>2. Moves("mon", "idle", "none")
        BY <2>2, <2>5, <3>1, MovesOn, LabelFacts
      <3>3. Excused'
        BY <2>5 DEF Excused, Watching
      <3>4. ctrl' # "UP" /\ pc["core"][1] # "publish"
        BY <2>5, CoreAt
      <3> QED
        BY <1>3, <2>1, <3>2, <3>3, <3>4, MonOwn DEF Samples
    <2>6. CASE /\ Is("mon", "async_core") /\ ctrl \notin {"UP", "UP_DOWN_REQ"}
               /\ raced' = (raced \/ ctrl = "STARTING")
               /\ To("mon", "put") /\ UNCHANGED <<ctrl, doing, refs>>
      <3>1. ctrl # "STARTING"
        <4> HIDE DEF MonInv, WaitInv, RefInv
        <4> QED
          BY <2>6, Zenon
      <3>2. ctrl # "UP" /\ pc["core"][1] # "publish"
        BY <2>6, <3>1, CoreAt
      <3> QED
        BY <1>3, <2>1, <2>6, <3>2, MonOwnCalm DEF Samples, To
    <2> QED
      BY <1>3, <2>3, <2>4, <2>5, <2>6 DEF AsyncDown
  <1> QED
    BY <1>1, <1>2, <1>3 DEF MonWork

LEMMA MonOfNext ==
    ASSUME RefInv, TypeInv, LockInv, WaitInv, MonInv, Next, ~raced'
    PROVE  MonInv'
  <1>1. refs = 0 => refs' = 0
    BY ZeroKept
  <1>2. CASE CoreStep
    <2>1. CASE Fault /\ UNCHANGED <<refs, asked, monitor, K>>
      BY <2>1, MonOfFault
    <2>2. CASE CallbackEnds /\ UNCHANGED <<life, refs, coreVars, monitor, K>>
      BY <2>2, MonOfCallbackEnds DEF coreVars
    <2> QED
      BY <1>1, <1>2, <2>1, <2>2, MonOfCoreEnds, MonOfCallbackBegins DEF CoreStep
  <1> QED
    BY <1>1, <1>2, MonOfClient, MonOfAny, MonOfMonTimer, MonOfMonWork DEF Next

LEMMA MonStill ==
    ASSUME MonInv, UNCHANGED vars
    PROVE  MonInv'
  <1>1. UNCHANGED <<ctrl, core, asked, life, refs, doing, policy, period, stop, pc, armed,
                    queued>>
    BY DEF vars, link, coreVars, monitor
  <1>2. /\ Stands("stop")' <=> Stands("stop")
        /\ Stands("delete")' <=> Stands("delete")
        /\ Stands("wait")' <=> Stands("wait")
        /\ Working' <=> Working
    BY <1>1 DEF Stands, Working
  <1>3. (Resting' <=> Resting) /\ (EarlyRelease' <=> EarlyRelease)
    BY <1>1 DEF Resting, CoreQuiet, EarlyRelease
  <1>4. Excused' <=> Excused
    BY <1>1, <1>2, <1>3 DEF Excused, Watching, Requested, Refused
  <1> QED
    BY <1>1, <1>2, <1>4 DEF MonInv, PeriodInv, StopInv, AliveInv, HaltInv

LEMMA MonOfInit ==
    ASSUME Init
    PROVE  MonInv /\ LockInv
  <1>1. /\ \A t \in Threads : doing[t] = "none" /\ pc[t] = Idle
        /\ stop = FALSE /\ armed = {} /\ queued = {} /\ ctrl = "DOWN"
    BY DEF Init
  <1>2. "core" \in Threads /\ "mon" \in Threads /\ Clients \subseteq Threads
    BY ThreadFacts
  <1>3. /\ \A t \in Threads : pc[t][1] = "idle"
        /\ ~Stands("delete") /\ ~Stands("wait")
    BY <1>1, LabelFacts DEF Stands
  <1>4. ~Working
    BY <1>1, <1>2, <1>3 DEF Working, Samples
  <1>5. PeriodInv /\ LockInv
    BY <1>1, <1>2, <1>4 DEF PeriodInv, LockInv, Idle
  <1>6. StopInv /\ AliveInv /\ HaltInv
    BY <1>1, <1>2, <1>3, <1>4 DEF StopInv, AliveInv, HaltInv, Idle
  <1> QED
    BY <1>5, <1>6 DEF MonInv

-----------------------------------------------------------------------------

MonitorInv ==
    /\ RefInv /\ TypeInv /\ GoneFree /\ LockInv
    /\ ~raced => WaitInv /\ MonInv

LEMMA MonitorOfNext ==
    ASSUME MonitorInv, [Next]_vars
    PROVE  MonitorInv'
  <1>1. CASE Next
    <2>1. RefInv' /\ TypeInv' /\ GoneFree' /\ LockInv'
      BY <1>1, OfNext, TypeOfNext, GoneFreeKept, LockOfNext DEF MonitorInv
    <2>2. ~raced' => WaitInv' /\ MonInv'
      BY <1>1, RacedKept, WaitOfNext, MonOfNext DEF MonitorInv
    <2> QED
      BY <2>1, <2>2 DEF MonitorInv
  <1>2. CASE UNCHANGED vars
    <2>1. RefInv' /\ TypeInv'
      BY OfNext, TypeOfNext DEF MonitorInv
    <2>2. WaitInv => WaitInv'
      BY <1>2, WaitStill DEF vars, coreVars, ghosts
    <2>3. MonInv => MonInv'
      BY <1>2, MonStill
    <2>4. GoneFree' /\ LockInv' /\ (raced' <=> raced)
      BY <1>2 DEF MonitorInv, GoneFree, LockInv, vars, link, coreVars, ghosts
    <2> QED
      BY <2>1, <2>2, <2>3, <2>4 DEF MonitorInv
  <1> QED
    BY <1>1, <1>2

LEMMA MonitorOfInit ==
    ASSUME Init
    PROVE  MonitorInv
  <1>1. core # "gone"
    BY DEF Init
  <1> QED
    BY <1>1, OfInit, TypeOfInit, WaitOfInit, MonOfInit DEF MonitorInv, GoneFree

(* Nobody stands inside the driver of a freed object. *)
LEMMA FreedFacts ==
    ASSUME MonitorInv, life = "freed"
    PROVE  /\ ~Stands("stop") /\ ~Stands("delete") /\ ~Stands("wait")
           /\ pc["core"] = Idle /\ asked = "none"
           /\ pc["mon"][1] \in Samples \ {"async_core"} \/ pc["mon"] = Idle
  <1>1. /\ refs = 0 /\ pc["core"] = Idle /\ asked = "none"
        /\ \A t \in Threads : ~Releases(doing[t])
    BY DEF MonitorInv, RefInv, ReleaseInv, GoneInv
  <1>2. \A t \in Threads : ~Holds(t, pc[t][1], doing[t])
    BY <1>1, HoldsLive DEF MonitorInv
  <1>3. ASSUME NEW t \in Threads, pc[t][1] \in {"stop", "delete", "wait"}
        PROVE  FALSE
    <2>1. CASE t \in Clients
      <3>1. doing[t] \in Refs \cup {"cancel"} \/ Releases(doing[t])
        BY <1>3, <2>1, ClientFits
           DEF FitsClient, ClientSteps, StopSteps, Refs, Releases, MonitorInv
      <3> QED
        BY <1>1, <1>2, <1>3, <2>1, <3>1, ClientHolds DEF MonitorInv
    <2>2. CASE t = "core"
      BY <1>1, <1>3, <2>2, LabelFacts
    <2>3. CASE t = "mon"
      <3>1. Releases(doing[t])
        BY <1>3, <2>3, MonFits DEF MonSteps, Releases, MonitorInv
      <3> QED
        BY <1>1, <3>1
    <2> QED
      BY <2>1, <2>2, <2>3, ThreadFacts
  <1>4. pc["mon"][1] \in Samples \ {"async_core"} \/ pc["mon"] = Idle
    <2>1. pc["mon"][1] \notin {"async_core", "core", "put"} /\ ~Releases(doing["mon"])
      BY <1>1, <1>2, MonFits
    <2>2. pc["mon"][1] \in {"idle", "sample", "again", "judge", "async"}
      BY <2>1, MonFits DEF MonSteps, Releases, MonitorInv
    <2>3. pc["mon"][1] = "idle" => pc["mon"] = Idle
      BY Labelled, MonFits DEF MonitorInv
    <2> QED
      BY <2>2, <2>3 DEF Samples
  <1> QED
    BY <1>1, <1>3, <1>4 DEF Stands

(* MonitorAlive: for any clients, calls, policies and limits, a link whose   *)
(* clients wait for the end of each call, that is up and whose monitor was   *)
(* not stopped has its timer armed, or the work of it on its way to arm it.  *)
(* A period of 0 goes with somebody who is about to stop the monitor, and a  *)
(* monitor is started only when nobody is stopping it.                       *)
THEOREM MonitorAliveAlways == Spec => []MonitorAlive
  <1>1. Init => MonitorInv
    BY MonitorOfInit
  <1>2. MonitorInv /\ [Next]_vars => MonitorInv'
    BY MonitorOfNext
  <1>3. MonitorInv => MonitorAlive
    <2>1. SUFFICES ASSUME MonitorInv, ~raced, ctrl = "UP", core = "up", ~stop,
                          \A t \in Clients \cup {"core"} : pc[t] = Idle
                   PROVE  armed # {} \/ queued # {} \/ pc["mon"] # Idle
      BY DEF MonitorAlive
    <2>2. Working \/ Stands("stop") \/ refs = 0
      BY <2>1 DEF MonitorInv, MonInv, AliveInv
    <2>3. CASE Working
      BY <2>3, LabelFacts DEF Working, Samples
    <2>4. CASE Stands("stop")
      BY <2>1, <2>4, ThreadFacts, LabelFacts DEF Stands
    <2>5. CASE refs = 0
      <3>1. life = "live"
        BY <2>1 DEF MonitorInv, RefInv, GoneInv, ReleaseInv
      <3>2. PICK t \in Threads : Releases(doing[t])
        BY <2>1, <2>5, <3>1 DEF MonitorInv, RefInv, ReleaseInv
      <3>3. pc[t] # Idle
        <4>1. doing[t] # "none"
          BY <3>2 DEF Releases
        <4> QED
          BY <2>1, <4>1, StepFacts, LabelFacts DEF MonitorInv
      <3> QED
        BY <2>1, <3>3, ThreadFacts
    <2> QED
      BY <2>2, <2>3, <2>4, <2>5
  <1> QED
    BY <1>1, <1>2, <1>3, PTL DEF Spec

(* MonitorSilent: for any clients, calls, policies and limits, a monitor     *)
(* that was stopped judges nothing, and when the object of clients that wait *)
(* is freed there is neither a timer nor a work of it left.  Whoever takes   *)
(* the link down stops the monitor before anybody lets the object go, and    *)
(* nobody starts it on a link that has left.                                 *)
THEOREM MonitorSilentAlways == Spec => []MonitorSilent
  <1>1. Init => MonitorInv
    BY MonitorOfInit
  <1>2. MonitorInv /\ [Next]_vars => MonitorInv'
    BY MonitorOfNext
  <1>3. MonitorInv /\ StoppedSilent => MonitorSilent
    <2>1. SUFFICES ASSUME MonitorInv, life = "freed", ~raced
                   PROVE  armed = {} /\ queued = {} /\ pc["mon"] = Idle
      BY DEF MonitorSilent
    <2>2. /\ ~Stands("stop") /\ ~Stands("delete") /\ ~Stands("wait")
          /\ pc["core"] = Idle /\ asked = "none"
          /\ pc["mon"][1] \in Samples \ {"async_core"} \/ pc["mon"] = Idle
      BY <2>1, FreedFacts
    <2>3. CASE stop
      BY <2>1, <2>2, <2>3 DEF MonitorInv, MonInv, StopInv
    <2>4. CASE ~stop
      <3>1. ctrl \in {"DOWN", "STOPPING"}
        BY <2>1 DEF MonitorInv, WaitInv, TakeInv
      <3>2. ~Excused
        <4>1. ~Watching /\ ~Requested
          BY <2>2, <3>1, LabelFacts DEF Watching, Requested
        <4>2. ~Refused
          BY <2>1 DEF Refused
        <4>3. pc["mon"][1] # "core"
          BY <2>2, LabelFacts DEF Samples
        <4> QED
          BY <2>2, <4>1, <4>2, <4>3 DEF Excused
      <3>3. ~Working
        BY <2>1, <2>4, <3>2 DEF MonitorInv, MonInv, HaltInv
      <3> QED
        BY <2>2, <3>3 DEF Working
    <2> QED
      BY <2>3, <2>4
  <1>4. Spec => []StoppedSilent
    BY StoppedSilentAlways
  <1> QED
    BY <1>1, <1>2, <1>3, <1>4, PTL DEF Spec

-----------------------------------------------------------------------------
(* Who waits for whom *)

(* The locks have holders that are inside: the object's a reader of the      *)
(* state, the core's a fault that has not called the control layer yet.      *)
HolderInv ==
    /\ held["ctrl"] # "none" =>
          held["ctrl"] \in Clients /\ pc[held["ctrl"]][1] = "look_core"
    /\ held["core"] # "none" =>
          held["core"] = "core" /\ doing["core"] = "fault" /\ pc["core"][1] # "off"

(* A step that leaves the locks alone *)
LEMMA HolderSame ==
    ASSUME HolderInv, held' = held,
           \A c \in Clients : pc[c][1] = "look_core" => pc'[c] = pc[c],
           doing["core"] = "fault" /\ pc["core"][1] # "off" =>
              doing'["core"] = "fault" /\ pc'["core"][1] # "off"
    PROVE  HolderInv'
  BY DEF HolderInv

LEMMA HolderOfClient ==
    ASSUME RefInv, HolderInv, NEW c \in Clients, ClientStep(c),
           held \in [{"ctrl", "core"} -> Threads \cup {"none"}]
    PROVE  HolderInv'
  <1>0. /\ c \in Threads /\ c # "core" /\ "core" \in Threads /\ Clients \subseteq Threads
        /\ \A u \in Threads : u # c => pc'[u] = pc[u] /\ doing'[u] = doing[u]
    BY ThreadFacts, ClientMoves
  <1>1. CASE PolicyOrRead(c) /\ StateGet(c)
    <2>1. CASE Is(c, "look")
      <3>1. /\ held'["ctrl"] = c /\ held'["core"] = held["core"] /\ pc'[c][1] = "look_core"
        BY <1>0, <1>1, <2>1, LabelFacts DEF StateGet, Is, At, Step, To, Go, RefInv, ShapeInv
      <3> QED
        BY <1>0, <3>1 DEF HolderInv
    <2>2. CASE Is(c, "look_core")
      <3>1. held'["ctrl"] = "none" /\ held'["core"] = held["core"]
        BY <1>1, <2>2, LabelFacts DEF StateGet, Is, At
      <3> QED
        BY <1>0, <3>1 DEF HolderInv
    <2> QED
      BY <1>1, <2>1, <2>2 DEF StateGet
  <1>2. CASE PolicyOrRead(c) /\ ~StateGet(c)
    <2>1. held' = held /\ pc[c][1] # "look_core"
      BY <1>2, LabelFacts DEF PolicyOrRead, coreVars
    <2> QED
      BY <1>0, <2>1, HolderSame
  <1>3. CASE Call(c) \/ TakeRef(c) \/ Del(c) \/ LinkDown(c) \/ Reset(c) \/ LinkUp(c)
    <2>1. held' = held
      BY <1>3 DEF Call, TakeRef, Del, LinkDown, Reset, LinkUp, coreVars
    <2>2. pc[c][1] # "look_core"
      BY <1>3, LabelFacts DEF Call, TakeRef, Del, LinkDown, Reset, LinkUp
    <2> QED
      BY <1>0, <2>1, <2>2, HolderSame
  <1> QED
    BY <1>1, <1>2, <1>3 DEF ClientStep

LEMMA HolderOfAny ==
    ASSUME RefInv, HolderInv, NEW t \in Threads, AnyThread(t)
    PROVE  HolderInv'
  <1>0. /\ "core" \in Threads /\ Clients \subseteq Threads
        /\ \A u \in Threads : u # t => pc'[u] = pc[u] /\ doing'[u] = doing[u]
    BY ThreadFacts, AnyMoves
  <1>1. held' = held
    BY DEF AnyThread, Put, MonStep, CoreDown, Await, Release, CoreDel, FreeObject, coreVars
  <1>2. pc[t][1] # "look_core"
    <2>1. CASE MonStep(t)
      BY <2>1, MonStepMoves
    <2>2. CASE ~MonStep(t)
      BY <2>2, LabelFacts DEF AnyThread, Put, CoreDown, Await, Release, CoreDel, FreeObject
    <2> QED
      BY <2>1, <2>2
  <1>3. ASSUME t = "core", doing["core"] = "fault", pc["core"][1] # "off"
        PROVE  doing'["core"] = "fault" /\ pc'["core"][1] # "off"
    <2>1. pc["core"][1] \in {"fault_ctrl", "stop", "delete", "wait", "unlock", "off"}
      BY <1>3, CoreFits DEF CoreSteps, StopSteps
    <2>2. MonStep("core")
      BY <1>3, <2>1, LabelFacts DEF AnyThread, Put, CoreDown, Await, Release, CoreDel,
                                    FreeObject
    <2>3. PICK n : Moves("core", n, doing["core"]) /\
                   (pc["core"][1] \in {"stop", "delete", "wait"} =>
                      n \in {"delete", "wait", "put", "publish", "unlock", "flush", "core"})
                   /\ pc["core"][1] \in {"calc", "start", "stop", "delete", "wait"}
      BY <1>0, <2>2, MonStepMoves
    <2> QED
      BY <1>3, <2>1, <2>3 DEF Moves
  <1>4. \A c \in Clients : pc[c][1] = "look_core" => pc'[c] = pc[c]
    BY <1>0, <1>2
  <1> QED
    BY <1>0, <1>1, <1>3, <1>4, HolderSame

LEMMA HolderOfCore ==
    ASSUME RefInv, HolderInv, CoreStep,
           held \in [{"ctrl", "core"} -> Threads \cup {"none"}]
    PROVE  HolderInv'
  <1>0. "core" \in Threads /\ Clients \subseteq Threads /\ "core" \notin Clients
    BY ThreadFacts
  <1>1. \A c \in Clients : pc'[c] = pc[c]
    <2>1. \E l : Go("core", l)
      BY DEF CoreStep, CoreEnds, Fault, CallbackBegins, CallbackEnds, Return, To
    <2> QED
      BY <1>0, <2>1 DEF Go, RefInv, ShapeInv
  <1>2. CASE CoreEnds
    <2>1. pc["core"][1] = "idle" /\ doing["core"] # "fault" /\ held["core"] = "none"
      BY <1>0, <1>2, StepFacts, LabelFacts DEF CoreEnds, HolderInv, Free
    <2>2. CASE held' = [held EXCEPT !["core"] = "core"] /\ To("core", "fault_ctrl")
               /\ Enters("core", "fault")
      <3>1. Moves("core", "fault_ctrl", "fault")
        BY <1>0, <2>2, Names
      <3>2. held'["core"] = "core" /\ held'["ctrl"] = held["ctrl"]
        BY <2>2
      <3> QED
        BY <1>1, <3>1, <3>2 DEF Moves, HolderInv
    <2>3. CASE held' = held
      BY <1>1, <2>1, <2>3, HolderSame
    <2> QED
      BY <1>2, <2>2, <2>3 DEF CoreEnds
  <1>3. CASE Fault
    <2>1. CASE /\ Is("core", "fault_ctrl") /\ UNCHANGED <<held, doing>>
               /\ To("core", "stop")
      <3>1. Moves("core", "stop", doing["core"])
        BY <1>0, <2>1, Names
      <3> QED
        BY <1>1, <2>1, <3>1, HolderSame DEF Moves
    <2>2. CASE held' = [held EXCEPT !["core"] = "none"]
      <3>1. held'["core"] = "none" /\ held'["ctrl"] = held["ctrl"]
        BY <2>2
      <3> QED
        BY <1>1, <3>1 DEF HolderInv
    <2>3. CASE Is("core", "off") /\ UNCHANGED held
      BY <1>1, <2>3, LabelFacts, HolderSame
    <2> QED
      BY <1>3, <2>1, <2>2, <2>3 DEF Fault
  <1>4. CASE held' = held /\ (CallbackBegins \/ CallbackEnds)
    <2>1. doing["core"] # "fault"
      BY <1>4, CoreFits, LabelFacts DEF CallbackBegins, CallbackEnds, CoreSteps, StopSteps
    <2> QED
      BY <1>1, <1>4, <2>1, HolderSame
  <1>5. CallbackBegins => held' = held
    BY DEF CallbackBegins, coreVars
  <1> QED
    BY <1>2, <1>3, <1>4, <1>5 DEF CoreStep, coreVars

LEMMA HolderOfNext ==
    ASSUME RefInv, TypeInv, HolderInv, [Next]_vars
    PROVE  HolderInv'
  <1>1. held \in [{"ctrl", "core"} -> Threads \cup {"none"}]
    BY DEF TypeInv, RangesInv
  <1>2. CASE MonTimer \/ UNCHANGED vars
    <2>1. UNCHANGED <<held, pc, doing>>
      BY <1>2 DEF MonTimer, coreVars, vars
    <2> QED
      BY <2>1, HolderSame
  <1>3. CASE MonWork /\ UNCHANGED <<held, stop, period, policy, intrOn>>
    <2>1. \E l : Go("mon", l)
      BY <1>3 DEF MonWork, MonLook, MonJudge, AsyncDown, To
    <2>2. UNCHANGED doing \/ Enters("mon", "async_cb")
      BY <1>3 DEF MonWork, AsyncDown
    <2>3. \A u \in Threads : u # "mon" => pc'[u] = pc[u] /\ doing'[u] = doing[u]
      BY <2>1, <2>2, MovesOn, MovesTo, ThreadFacts DEF Moves
    <2>4. \A c \in Clients \cup {"core"} : pc'[c] = pc[c] /\ doing'[c] = doing[c]
      BY <2>3, ThreadFacts, MonFits
    <2> QED
      BY <1>3, <2>4, HolderSame
  <1> QED
    BY <1>1, <1>2, <1>3, HolderOfClient, HolderOfAny, HolderOfCore DEF Next

LEMMA HolderOfInit ==
    ASSUME Init
    PROVE  HolderInv
  BY DEF Init, HolderInv

(* Whom a thread waits for, when a fault meets nobody and no callback is the *)
(* last to leave: a reader of the state, the core's thread, the monitor or,  *)
(* the core's thread alone, the client that calls from its callback.  A      *)
(* reader waits for a fault, a fault for the monitor, the monitor for both,  *)
(* the client of the callback for all three but for a core that waits for it.*)
LEMMA WaitedFor ==
    ASSUME RefInv, TypeInv, HolderInv, ~FaultMeets, ~ReleasedInside,
           NEW t \in Threads, NEW u \in Threads, WaitsFor(t, u)
    PROVE  /\ pc[u] # Idle
           /\ u \in {held["ctrl"], "core", "mon"} \cup Notified /\ u # t
           /\ t # "core" => u \in {held["ctrl"], "core", "mon"}
           /\ t = held["ctrl"] => u = "core" /\ doing["core"] = "fault"
           /\ t \in {"mon"} \cup Notified /\ u = "core" => doing["core"] = "fault"
           /\ t = "core" /\ doing["core"] = "fault" => u = "mon"
           /\ t = "mon" /\ doing["core"] = "fault" => ~WaitsFor("core", "mon")
  <1>0. /\ \A v \in Threads : v # "none"
        /\ "core" \notin Clients /\ "mon" \notin Clients /\ "core" # "mon"
        /\ "mon" \in Threads /\ "core" \in Threads
    BY ThreadFacts, ObjectClientsAssumption DEF Threads
  <1>1. /\ \A v \in Threads : pc[v] = Idle => pc[v][1] = "idle"
        /\ \A v, s, x : At(v, s, x) => pc[v][1] = s
        /\ \A v, s : Is(v, s) => pc[v][1] = s
    BY LabelFacts
  <1>a. \A v \in Threads :
           /\ pc[v][1] = "fault_ctrl" => Is(v, "fault_ctrl")
           /\ pc[v][1] = "async_core" => Is(v, "async_core")
           /\ pc[v][1] = "core" => Is(v, "core")
    <2>1. \A v \in Threads : pc[v] \in Labels
      BY DEF TypeInv, MovesInv
    <2> QED
      BY <2>1 DEF Labels, Is, At
  <1>2. /\ doing["core"] \notin {"release", "rel_cancel", "rel_down"}
        /\ doing["mon"] \notin {"release", "rel_cancel", "rel_down"}
    BY DEF ReleasedInside
  <1>3. /\ pc["mon"][1] \in {"idle", "sample", "again", "judge", "async", "async_core",
                             "put", "core"}
        /\ pc["core"][1] \notin {"core", "look_core", "unlink"}
    <2>1. doing["mon"] \in DOMAIN MonSteps /\ pc["mon"][1] \in MonSteps[doing["mon"]]
      BY MonFits
    <2>2. /\ doing["core"] \in DOMAIN CoreSteps
          /\ pc["core"][1] \in CoreSteps[doing["core"]]
      BY CoreFits
    <2>3. pc["mon"][1] \in {"idle", "sample", "again", "judge", "async", "async_core",
                            "put", "core"}
      BY <1>2, <2>1 DEF MonSteps
    <2>4. CASE doing["core"] \in {"down_cb", "async_cb", "fault_cb", "fault", "none", "up_cb",
                                  "fail_cb", "cancel_cb"}
      BY <2>2, <2>3, <2>4 DEF CoreSteps
    <2> QED
      BY <1>2, <2>2, <2>4 DEF CoreSteps
  <1>4. doing["core"] = "fault" =>
           pc["core"][1] \in {"fault_ctrl", "stop", "delete", "wait", "unlock", "off"}
    BY CoreFits DEF CoreSteps
  <1>5. /\ held["ctrl"] # "none" =>
               held["ctrl"] \in Clients /\ pc[held["ctrl"]][1] = "look_core"
        /\ held["core"] # "none" => held["core"] = "core" /\ doing["core"] = "fault"
    BY DEF HolderInv
  <1>6. WaitsFor("core", "mon") /\ doing["core"] = "fault" => At("core", "wait", "mon")
    BY <1>0, <1>1, <1>3, <1>5, NotifiedAssumption DEF WaitsFor
  <1>b. \A c \in Clients :
           /\ pc[c][1] # "flush"
           /\ pc[c][1] = "unlink" => c \notin Notified
    <2>1. \A c \in Clients : pc[c][1] = "unlink" =>
             doing[c] \in {"release", "rel_cancel", "rel_down"}
      BY ClientFits DEF FitsClient, ClientSteps, StopSteps
    <2>2. \A c \in Notified : doing[c] \notin {"release", "rel_cancel", "rel_down"}
      BY DEF ReleasedInside
    <2>3. \A c \in Clients : pc[c][1] # "flush"
      BY ClientFits DEF FitsClient, ClientSteps, StopSteps
    <2> QED
      BY <2>1, <2>2, <2>3
  <1>7. CASE TakesLock(t) /\ held["ctrl"] = u
    <2>1. pc[t][1] \in {"refused", "look", "release", "publish", "stopping", "settle",
                        "fault_ctrl", "async_core", "body"}
      BY <1>1, <1>7 DEF TakesLock
    <2>2. u \in Clients /\ pc[u][1] = "look_core" /\ u # "core" /\ u # "mon"
      BY <1>0, <1>5, <1>7
    <2>3. pc[u] # Idle /\ u # t
      BY <1>1, <2>1, <2>2
    <2>4. ~(t = "core" /\ doing["core"] = "fault")
      <3>1. SUFFICES ASSUME t = "core", doing["core"] = "fault"
                     PROVE  FALSE
        OBVIOUS
      <3>2. pc["core"][1] = "fault_ctrl"
        BY <1>4, <2>1, <3>1
      <3>3. Is("core", "fault_ctrl")
        BY <1>0, <1>a, <3>2
      <3> QED
        BY <1>0, <1>7, <3>3 DEF FaultMeets, Free
    <2>5. t = "mon" /\ doing["core"] = "fault" => ~WaitsFor("core", "mon")
      <3>1. SUFFICES ASSUME t = "mon", doing["core"] = "fault", WaitsFor("core", "mon")
                     PROVE  FALSE
        OBVIOUS
      <3>2. pc["mon"][1] = "async_core"
        BY <1>3, <2>1, <3>1
      <3>3. Is("mon", "async_core")
        BY <1>0, <1>a, <3>2
      <3> QED
        BY <1>0, <1>6, <1>7, <3>1, <3>3 DEF FaultMeets, Free
    <2> QED
      BY <1>7, <2>2, <2>3, <2>4, <2>5
  <1>8. CASE pc[t][1] \in {"core", "look_core"} /\ held["core"] = u
    <2>1. u = "core" /\ doing["core"] = "fault" /\ t # "core" /\ pc["core"] # Idle
      BY <1>0, <1>1, <1>3, <1>4, <1>5, <1>8
    <2>2. t = "mon" => ~WaitsFor("core", "mon")
      <3>1. SUFFICES ASSUME t = "mon", WaitsFor("core", "mon")
                     PROVE  FALSE
        OBVIOUS
      <3>2. Is("mon", "core")
        BY <1>0, <1>3, <1>8, <1>a, <3>1
      <3> QED
        BY <1>6, <2>1, <3>1, <3>2 DEF FaultMeets
    <2> QED
      BY <2>1, <2>2
  <1>9. CASE At(t, "wait", "mon") /\ u = "mon" /\ pc[u] # Idle
    BY <1>0, <1>1, <1>3, <1>5, <1>9
  <1>10. CASE Is(t, "unlink") /\ u = "core" /\ pc[u] # Idle
    <2>1. t \notin Notified
      BY <1>1, <1>b, <1>10, NotifiedAssumption
    <2> QED
      BY <1>0, <1>1, <1>3, <1>5, <1>10, <2>1
  <1>11. CASE Is(t, "flush") /\ u \in Notified /\ pc[u] # Idle
    <2>1. t = "core" /\ doing["core"] # "fault"
      BY <1>1, <1>3, <1>4, <1>b, <1>11, ThreadFacts
    <2> QED
      BY <1>0, <1>5, <1>11, <2>1, NotifiedAssumption
  <1> QED
    BY <1>7, <1>8, <1>9, <1>10, <1>11 DEF WaitsFor

LEMMA OutOfWaits ==
    ASSUME RefInv, TypeInv, HolderInv
    PROVE  EverybodyOut
  <1>1. SUFFICES ASSUME ~FaultMeets, ~ReleasedInside,
                        NEW S \in SUBSET Threads, S # {}
                 PROVE  \E t \in S : \A u \in Threads :
                           WaitsFor(t, u) => u \notin S /\ pc[u] # Idle
    BY DEF EverybodyOut, Waiting
  <1>2. \A t, u \in Threads : WaitsFor(t, u) =>
           /\ pc[u] # Idle
           /\ u \in {held["ctrl"], "core", "mon"} \cup Notified /\ u # t
           /\ t # "core" => u \in {held["ctrl"], "core", "mon"}
           /\ t = held["ctrl"] => u = "core" /\ doing["core"] = "fault"
           /\ t \in {"mon"} \cup Notified /\ u = "core" => doing["core"] = "fault"
           /\ t = "core" /\ doing["core"] = "fault" => u = "mon"
           /\ t = "mon" /\ doing["core"] = "fault" => ~WaitsFor("core", "mon")
    BY <1>1, WaitedFor
  <1>3. "core" \in Threads /\ "mon" \in Threads /\ "core" # "mon"
    BY ThreadFacts, MonFits
  <1>4. SUFFICES \E t \in S : \A u \in S : ~WaitsFor(t, u)
    BY <1>2
  <1>5. CASE "core" \in S /\ doing["core"] = "fault"
    <2>1. CASE "mon" \in S /\ WaitsFor("core", "mon")
      <3>1. \A u \in S : ~WaitsFor("mon", u)
        BY <1>2, <1>3, <1>5, <2>1
      <3> QED
        BY <2>1, <3>1
    <2>2. CASE ~("mon" \in S /\ WaitsFor("core", "mon"))
      <3>1. \A u \in S : ~WaitsFor("core", u)
        BY <1>2, <1>3, <1>5, <2>2
      <3> QED
        BY <1>5, <3>1
    <2> QED
      BY <2>1, <2>2
  <1>6. CASE "core" \notin S \/ doing["core"] # "fault"
    <2>1. CASE held["ctrl"] \in S
      <3>1. \A u \in S : ~WaitsFor(held["ctrl"], u)
        BY <1>2, <1>6, <2>1
      <3> QED
        BY <2>1, <3>1
    <2>2. CASE held["ctrl"] \notin S /\ "mon" \in S
      <3>1. \A u \in S : ~WaitsFor("mon", u)
        BY <1>2, <1>3, <1>6, <2>2
      <3> QED
        BY <2>2, <3>1
    <2>3. CASE held["ctrl"] \notin S /\ "mon" \notin S /\ S \cap Notified # {}
      <3>1. PICK c \in S : c \in Notified
        BY <2>3
      <3>2. c # "core"
        BY <3>1, ThreadFacts, NotifiedAssumption
      <3>3. \A u \in S : ~WaitsFor(c, u)
        BY <1>2, <1>3, <1>6, <2>3, <3>1, <3>2
      <3> QED
        BY <3>1, <3>3
    <2>4. CASE S \cap ({held["ctrl"], "mon"} \cup Notified) = {} /\ "core" \in S
      <3>1. \A u \in S : ~WaitsFor("core", u)
        BY <1>2, <1>3, <2>4
      <3> QED
        BY <2>4, <3>1
    <2>5. CASE S \cap {held["ctrl"], "mon", "core"} = {}
      BY <1>1, <1>2, <2>5
    <2> QED
      BY <2>1, <2>2, <2>3, <2>4, <2>5
  <1> QED
    BY <1>5, <1>6

(* Nobody waits for ever: unless a fault meets a reader of the state or the  *)
(* monitor, or a callback of the core, the monitor or a client's own         *)
(* callback puts the last reference and so comes to wait for itself, no      *)
(* group of threads waits on each other, and no lock is left behind: a       *)
(* teardown that flushes the notifications too gets by, whatever their       *)
(* client calls from its callback.  ctrl/sl_ctrl_link.c,                     *)
(* ctrl/sl_ctrl_link_priv.c, ctrl/sl_ctrl_link_fec_priv.c.                   *)
THEOREM EverybodyOutAlways == Spec => []EverybodyOut
  <1> DEFINE IInv == RefInv /\ TypeInv /\ HolderInv
  <1>1. Init => IInv
    BY OfInit, TypeOfInit, HolderOfInit
  <1>2. IInv /\ [Next]_vars => IInv'
    BY OfNext, TypeOfNext, HolderOfNext
  <1>3. IInv => EverybodyOut
    BY OutOfWaits
  <1> QED
    BY <1>1, <1>2, <1>3, PTL DEF Spec

=============================================================================
