-------------------------- MODULE CoreLinkProofs --------------------------
(***************************************************************************)
(* Theorems about CoreLink, for any clients, options and bounds: the types *)
(* of its variables; and, as long as a fault does no more than enable its  *)
(* interrupt again, that every attempt has one end, that every accepted up *)
(* is answered once, that the link keeps LinkService and that nothing of   *)
(* an attempt works, waits or ticks when it is over (NoWorkOutlives).      *)
(*                                                                         *)
(* The last rests on Kept, as long as nothing is loose: an attempt is in   *)
(* one place at a time, a queued or running work, a timer or an interrupt  *)
(* (ChainInv), its link up timer starts once (FirstInv), a link at rest,   *)
(* up or on its way down has none (CalmInv) and nothing watches a link at  *)
(* rest (RestInv), and a teardown has canceled all that its list names     *)
(* before the work it waits for (TornInv).  Rank orders the works as every *)
(* cancel list does, whatever works the link has.                          *)
(*                                                                         *)
(* The lemmas about EndInv and Kept allow the threads the steps of         *)
(* CtrlLink too: CtrlLinkProofs shows with them what its callers and       *)
(* callbacks keep.                                                         *)
(***************************************************************************)
EXTENDS MCCoreLink, FiniteSetTheorems, SequenceTheorems, TLAPS

Ends == {"up_timeout", "up_cancel", "up_fail", "down"}

(* The state each teardown leaves *)
EndState == [up_timeout |-> "TIMEOUT", up_cancel |-> "CANCELING",
             up_fail |-> "GOING_DOWN", down |-> "GOING_DOWN"]

(* What brings a teardown about: its work runs, its work is queued (a queued *)
(* timeout promises nothing), or a client is about to queue it.              *)
Run == <<"run", "none">>
Queue == <<"queued", "none">>
Carriers == {Run, Queue} \cup ({"call"} \X Clients)

Leads(s, t) ==
    \/ s = Run /\ pc[t][1] \in {"wait", "off"}
    \/ s = Queue /\ t # "up_timeout" /\ t \in queued
    \/ \E c \in Clients : s = <<"call", c>> /\ pc[c] = <<"queue", t>>

(* A leaving link is led out of its state by one teardown, in one way, and a *)
(* link that is not leaving by none.                                         *)
LeadInv ==
    /\ \A s \in Carriers, t \in Ends : Leads(s, t) => state = EndState[t]
    /\ \A s1, s2 \in Carriers, t1, t2 \in Ends :
          Leads(s1, t1) /\ Leads(s2, t2) => s1 = s2 /\ t1 = t2
    /\ state \in Leaving => \E s \in Carriers, t \in Ends : Leads(s, t)

(* CONFIGURING belongs to the one client that configures. *)
ConfigInv ==
    /\ \A c \in Clients : At(c, "config", "none") => state = "CONFIGURING"
    /\ \A c, d \in Clients :
          At(c, "config", "none") /\ At(d, "config", "none") => c = d

Answering == {w \in Works : pc[w][1] = "up_cb"}

EnderLeads == \E s \in Carriers, t \in Enders : Leads(s, t)

Owed == (IF state \in Rising THEN 1 ELSE 0) + (IF EnderLeads THEN 1 ELSE 0)

(* Nothing says that the works are finitely many but the works themselves. *)
AnswerInv ==
    /\ IsFiniteSet(Answering)
    /\ due = Owed + Cardinality(Answering)

(* The steps of the caller and of its callbacks, which CtrlLink takes in the *)
(* threads of the core                                                       *)
CallerLabels == {Step(s) : s \in {"up_begin", "up_core", "up_refuse", "up_refused",
                                  "cancel", "down", "async"}}
CallbackSteps == {"up_cmd", "up_fail", "retry", "stopping", "settle", "notify"}

ClientLabels == {Idle, Step("up_cmd"), Step("config"),
                 <<"queue", "up_cancel">>, <<"queue", "down">>} \cup CallerLabels

(* Where a work may be *)
WorkSteps(w) ==
    CASE w = "fault" -> {"idle", "rearm"}
      [] w \in Ends  -> {"idle", "wait", "off", "up_cb", "down_cb"} \cup CallbackSteps
      [] OTHER       -> {"idle", "begin", "serdes", "decide", "after_an", "off",
                         "check", "enable", "publish", "rearm", "up_cb"}
                            \cup CallbackSteps

ShapeInv ==
    /\ pc = [t \in Threads |-> pc[t]]
    /\ \A c \in Clients : pc[c] \in ClientLabels
    /\ \A w \in Works : pc[w][1] \in WorkSteps(w)

EndInv == ShapeInv /\ LeadInv /\ ConfigInv /\ AnswerInv

-----------------------------------------------------------------------------
(* What the provers need to know of the constants *)

LEMMA WorkFacts ==
    /\ Ends \subseteq Works /\ Enders \subseteq Ends /\ "fault" \in Works
    /\ Ends \ Enders = {"down"}
    /\ DOMAIN CancelList = Ends
    /\ Works \subseteq Threads /\ Clients \subseteq Threads
    /\ Clients \cap Works = {}
    /\ "fault" \notin Ends \cup Monitors
    /\ Monitors \cap Ends = {}
    /\ \A t \in Threads : t \in Clients \/ t \in Works
  BY LinkClientsAssumption, LinkOptionsAssumption
     DEF Ends, Enders, Works, CancelList, Threads

LEMMA StateFacts ==
    /\ \A t \in Ends : EndState[t] \in Leaving
    /\ Rising \cap Leaving = {}
    /\ {"UNCONFIGURED", "CONFIGURING", "CONFIGURED", "DOWN", "UP"}
           \cap (Rising \cup Leaving) = {}
  BY DEF Ends, EndState, Rising, Leaving

LEMMA Others ==
    ASSUME ShapeInv, NEW t \in Threads, NEW l, Go(t, l)
    PROVE  /\ pc'[t] = l
           /\ \A u \in Threads : u # t => pc'[u] = pc[u]
           /\ pc' = [u \in Threads |-> pc'[u]]
  BY DEF ShapeInv, Go

(* A link that is not leaving is led nowhere. *)
LEMMA NoLead ==
    ASSUME LeadInv, state \notin Leaving
    PROVE  \A s \in Carriers, t \in Ends : ~Leads(s, t)
  BY StateFacts DEF LeadInv

(* Nobody cancels a work of a link that is not leaving. *)
LEMMA NotHeld ==
    ASSUME ShapeInv, LeadInv, NEW w
    PROVE  /\ Held(w) => \E t \in Ends : Leads(Run, t)
           /\ state \notin Leaving => ~Held(w)
  <1>1. ASSUME Held(w)
        PROVE  \E t \in Ends : Leads(Run, t)
    <2>1. PICK t \in Threads : At(t, "wait", w) \/ At(t, "del", w)
      BY <1>1 DEF Held, ShapeInv
    <2>2. pc[t][1] \in {"wait", "del"}
      BY <2>1 DEF At
    <2>3. t \notin Clients
      BY <2>2 DEF ShapeInv, ClientLabels, CallerLabels, Idle, Step
    <2>4. t \in Works /\ pc[t][1] \in WorkSteps(t)
      BY <2>3, WorkFacts DEF ShapeInv
    <2>5. t \in Ends /\ pc[t][1] = "wait"
      BY <2>2, <2>4 DEF WorkSteps, CallbackSteps
    <2> QED
      BY <2>5 DEF Leads
  <1> QED
    BY <1>1, NoLead DEF Carriers

-----------------------------------------------------------------------------
(* How a step may change who leads the link, each with its effect on the     *)
(* answers owed                                                              *)

LEMMA EnderFacts ==
    ASSUME LeadInv, NEW s \in Carriers, NEW t \in Ends, Leads(s, t)
    PROVE  EnderLeads <=> t \in Enders
  BY WorkFacts DEF LeadInv, EnderLeads

LEMMA KeepLead ==
    ASSUME LeadInv,
           \A s \in Carriers, t \in Ends : Leads(s, t)' <=> Leads(s, t),
           \/ state' = state
           \/ state \notin Leaving /\ state' \notin Leaving
    PROVE  LeadInv' /\ (EnderLeads' <=> EnderLeads)
  <1>1. EnderLeads' <=> EnderLeads
    BY WorkFacts DEF EnderLeads
  <1>2. LeadInv'
    <2>1. CASE state' = state
      BY <2>1 DEF LeadInv
    <2>2. CASE state \notin Leaving /\ state' \notin Leaving
      BY <2>2, NoLead DEF LeadInv
    <2> QED
      BY <2>1, <2>2
  <1> QED
    BY <1>1, <1>2

(* Somebody takes the link. *)
LEMMA TakeLead ==
    ASSUME LeadInv, state \notin Leaving,
           NEW s0 \in Carriers, NEW t0 \in Ends, state' = EndState[t0],
           \A s \in Carriers, t \in Ends :
              Leads(s, t)' <=> Leads(s, t) \/ (s = s0 /\ t = t0)
    PROVE  LeadInv' /\ ~EnderLeads /\ (EnderLeads' <=> t0 \in Enders)
  <1>1. \A s \in Carriers, t \in Ends : Leads(s, t)' <=> s = s0 /\ t = t0
    BY NoLead
  <1>2. LeadInv'
    BY <1>1 DEF LeadInv
  <1>3. ~EnderLeads
    BY NoLead, WorkFacts DEF EnderLeads
  <1> QED
    BY <1>1, <1>2, <1>3, WorkFacts DEF EnderLeads

(* The teardown gets from one carrier to another. *)
LEMMA PassLead ==
    ASSUME LeadInv, NEW s0 \in Carriers, NEW s1 \in Carriers, NEW t0 \in Ends,
           Leads(s0, t0), state' = state,
           \A s \in Carriers, t \in Ends : Leads(s, t)' <=> s = s1 /\ t = t0
    PROVE  LeadInv' /\ (EnderLeads' <=> EnderLeads)
  <1>1. LeadInv'
    BY DEF LeadInv
  <1>2. EnderLeads <=> t0 \in Enders
    BY EnderFacts
  <1> QED
    BY <1>1, <1>2, WorkFacts DEF EnderLeads

(* The teardown is over. *)
LEMMA DropLead ==
    ASSUME LeadInv, NEW s0 \in Carriers, NEW t0 \in Ends, Leads(s0, t0),
           state' \notin Leaving,
           \A s \in Carriers, t \in Ends : ~Leads(s, t)'
    PROVE  LeadInv' /\ (EnderLeads <=> t0 \in Enders) /\ ~EnderLeads'
  BY EnderFacts, WorkFacts DEF LeadInv, EnderLeads

-----------------------------------------------------------------------------
(* A step moves one thread: what that means for the parts of EndInv *)

(* A thread at such a label does not lead. *)
Leadless(t, l) == l[1] \notin {"wait", "queue"} /\ (l[1] = "off" => t \notin Ends)

(* Nor does it configure or answer. *)
Plain(t, l) == Leadless(t, l) /\ l[1] \notin {"config", "up_cb"}

Promising == {"up_cancel", "up_fail", "down"}

LEMMA LeadSame ==
    ASSUME ShapeInv, NEW t0 \in Threads, NEW l, Go(t0, l),
           Leadless(t0, pc[t0]), Leadless(t0, l)
    PROVE  /\ \A t \in Ends :
                 pc'[t][1] \in {"wait", "off"} <=> pc[t][1] \in {"wait", "off"}
           /\ \A c \in Clients : \A w :
                 pc'[c] = <<"queue", w>> <=> pc[c] = <<"queue", w>>
           /\ queued' \cap Promising = queued \cap Promising =>
                 \A s \in Carriers, t \in Ends : Leads(s, t)' <=> Leads(s, t)
  <1>1. ASSUME NEW t \in Ends
        PROVE  pc'[t][1] \in {"wait", "off"} <=> pc[t][1] \in {"wait", "off"}
    BY <1>1, Others, WorkFacts DEF Leadless
  <1>2. ASSUME NEW c \in Clients, NEW w
        PROVE  pc'[c] = <<"queue", w>> <=> pc[c] = <<"queue", w>>
    <2>1. CASE c = t0
      BY <2>1, Others DEF Leadless
    <2>2. CASE c # t0
      BY <2>2, Others, WorkFacts
    <2> QED
      BY <2>1, <2>2
  <1>3. ASSUME queued' \cap Promising = queued \cap Promising,
               NEW t \in Ends, t # "up_timeout"
        PROVE  t \in queued' <=> t \in queued
    BY <1>3 DEF Ends, Promising
  <1>4. ASSUME queued' \cap Promising = queued \cap Promising
        PROVE  \A s \in Carriers, t \in Ends : Leads(s, t)' <=> Leads(s, t)
    BY <1>1, <1>2, <1>3, <1>4 DEF Leads
  <1> QED
    BY <1>1, <1>2, <1>4

LEMMA ConfigSame ==
    ASSUME ShapeInv, NEW t0 \in Threads, NEW l, Go(t0, l),
           pc[t0][1] # "config", l[1] # "config"
    PROVE  \A c \in Clients : At(c, "config", "none")' <=> At(c, "config", "none")
  <1> SUFFICES ASSUME NEW c \in Clients
               PROVE  pc'[c] = <<"config", "none">> <=> pc[c] = <<"config", "none">>
    BY DEF At
  <1>1. CASE c = t0
    BY <1>1, Others
  <1>2. CASE c # t0
    BY <1>2, Others, WorkFacts
  <1> QED
    BY <1>1, <1>2

LEMMA AnsweringSame ==
    ASSUME ShapeInv, NEW t0 \in Threads, NEW l, Go(t0, l),
           pc[t0][1] # "up_cb", l[1] # "up_cb"
    PROVE  Answering' = Answering
  BY Others, WorkFacts DEF Answering

-----------------------------------------------------------------------------
(* Steps of which there are many *)

(* A label a thread may have *)
Allowed(t, l) ==
    /\ t \in Clients => l \in ClientLabels
    /\ t \in Works => l[1] \in WorkSteps(t)

LEMMA ShapeStep ==
    ASSUME ShapeInv, NEW t \in Threads, NEW l, Go(t, l), Allowed(t, l)
    PROVE  ShapeInv'
  <1>1. pc' = [u \in Threads |-> pc'[u]]
    BY Others
  <1>2. \A c \in Clients : pc'[c] \in ClientLabels
    BY Others, WorkFacts DEF ShapeInv, Allowed
  <1>3. \A w \in Works : pc'[w][1] \in WorkSteps(w)
    BY Others, WorkFacts DEF ShapeInv, Allowed
  <1> QED
    BY <1>1, <1>2, <1>3 DEF ShapeInv

LEMMA AnswerSame ==
    ASSUME AnswerInv, Answering' = Answering, due' = due + Owed' - Owed
    PROVE  AnswerInv'
  <1>1. Owed \in Int /\ Owed' \in Int
    BY DEF Owed
  <1>2. Cardinality(Answering) \in Nat
    BY FS_CardinalityType DEF AnswerInv
  <1> QED
    BY <1>1, <1>2 DEF AnswerInv

(* A step between plain labels that promises nothing *)
LEMMA PlainStep ==
    ASSUME EndInv, NEW t \in Threads, NEW l, Go(t, l),
           Plain(t, pc[t]), Plain(t, l), Allowed(t, l),
           queued' \cap Promising = queued \cap Promising, due' = due,
           state' = state \/ (state \in Rising /\ state' \in Rising)
    PROVE  EndInv'
  <1>1. ShapeInv'
    BY ShapeStep DEF EndInv
  <1>2. /\ \A s \in Carriers, u \in Ends : Leads(s, u)' <=> Leads(s, u)
        /\ Answering' = Answering
        /\ \A c \in Clients :
              At(c, "config", "none")' <=> At(c, "config", "none")
    BY LeadSame, ConfigSame, AnsweringSame DEF EndInv, Plain
  <1>3. LeadInv' /\ (EnderLeads' <=> EnderLeads)
    BY <1>2, KeepLead, StateFacts DEF EndInv
  <1>4. ConfigInv'
    BY <1>2, StateFacts DEF EndInv, ConfigInv
  <1>5. Owed' = Owed /\ Owed \in Int
    BY <1>3, StateFacts DEF Owed
  <1>6. due \in Int
    BY <1>5, FS_CardinalityType DEF EndInv, AnswerInv
  <1> QED
    BY <1>1, <1>2, <1>3, <1>4, <1>5, <1>6, AnswerSame DEF EndInv

(* A step between plain labels that ends an attempt with sl_core_link_up_fail *)
LEMMA UpFailStep ==
    ASSUME EndInv, NEW t \in Threads, NEW l, Go(t, l),
           Plain(t, pc[t]), Plain(t, l), Allowed(t, l), UpFail, due' = due
    PROVE  EndInv'
  <1>1. CASE state \notin Rising
    BY <1>1, PlainStep DEF UpFail
  <1>2. CASE state \in Rising
    <2>1. /\ state' = "GOING_DOWN" /\ queued' = queued \cup {"up_fail"}
          /\ state \notin Leaving
      BY <1>2, NotHeld, StateFacts DEF UpFail, QueueWork, EndInv
    <2>2. ShapeInv'
      BY ShapeStep DEF EndInv
    <2>3. /\ \A u \in Ends :
                pc'[u][1] \in {"wait", "off"} <=> pc[u][1] \in {"wait", "off"}
          /\ \A c \in Clients : \A w :
                pc'[c] = <<"queue", w>> <=> pc[c] = <<"queue", w>>
      BY LeadSame DEF EndInv, Plain
    <2>5. \A s \in Carriers, u \in Ends :
             Leads(s, u)' <=> Leads(s, u) \/ (s = Queue /\ u = "up_fail")
      BY <2>1, <2>3 DEF Leads, Queue, Run
    <2>6. LeadInv' /\ ~EnderLeads /\ EnderLeads'
      <3>1. /\ Queue \in Carriers /\ "up_fail" \in Ends /\ "up_fail" \in Enders
            /\ state' = EndState["up_fail"]
        BY <2>1 DEF Carriers, Ends, Enders, EndState
      <3> QED
        BY <2>1, <2>5, <3>1, TakeLead DEF EndInv
    <2>7. Answering' = Answering
      BY AnsweringSame DEF Plain, EndInv
    <2>8. ConfigInv'
      <3>1. \A c \in Clients : ~At(c, "config", "none")
        BY <1>2, StateFacts DEF ConfigInv, EndInv
      <3>2. \A c \in Clients : ~At(c, "config", "none")'
        BY <3>1, ConfigSame DEF Plain, EndInv
      <3> QED
        BY <3>2 DEF ConfigInv
    <2>9. Owed = 1 /\ Owed' = 1
      BY <1>2, <2>1, <2>6, StateFacts DEF Owed, Rising
    <2>10. due \in Int
      BY <2>9, FS_CardinalityType DEF EndInv, AnswerInv
    <2> QED
      BY <2>2, <2>6, <2>7, <2>8, <2>9, <2>10, AnswerSame DEF EndInv
  <1> QED
    BY <1>1, <1>2

(* A step that moves no thread, such as that of a timer or an interrupt *)
LEMMA StillStep ==
    ASSUME EndInv, UNCHANGED <<state, pc, due>>,
           queued' \cap Promising = queued \cap Promising
    PROVE  EndInv'
  <1>1. \A t \in Ends : t # "up_timeout" => (t \in queued' <=> t \in queued)
    BY DEF Ends, Promising
  <1>2. \A s \in Carriers, t \in Ends : Leads(s, t)' <=> Leads(s, t)
    BY <1>1 DEF Leads
  <1>3. LeadInv' /\ (EnderLeads' <=> EnderLeads)
    BY <1>2, KeepLead DEF EndInv
  <1>4. ShapeInv' /\ ConfigInv' /\ Answering' = Answering
    BY DEF EndInv, ShapeInv, ConfigInv, At, Answering
  <1>5. AnswerInv'
    BY <1>3, <1>4 DEF EndInv, AnswerInv, Owed
  <1> QED
    BY <1>3, <1>4, <1>5 DEF EndInv

-----------------------------------------------------------------------------
(* The clients *)

LEMMA ClientFacts ==
    ASSUME ShapeInv, NEW c \in Clients
    PROVE  /\ c \in Threads /\ c \notin Works /\ c \notin Ends
           /\ \A l \in ClientLabels : Allowed(c, l)
           /\ \A l \in {Idle, Step("up_cmd")} \cup CallerLabels : Plain(c, l)
           /\ <<"call", c>> \in Carriers
  BY WorkFacts DEF Allowed, Plain, Leadless, Idle, Step, CallerLabels, Carriers

(* sl_core_link_cancel and sl_core_link_down take the link. *)
LEMMA EndOfTake ==
    ASSUME EndInv, NEW c \in Clients, Plain(c, pc[c]),
           NEW t0 \in {"up_cancel", "down"}, Go(c, <<"queue", t0>>),
           state \notin Leaving, state' = EndState[t0], state # "CONFIGURING",
           state \in Rising <=> t0 = "up_cancel",
           queued' = queued, due' = due
    PROVE  EndInv'
  <1> DEFINE l == <<"queue", t0>>
  <1>0. /\ c \in Threads /\ Go(c, l) /\ l[1] = "queue" /\ l[2] = t0
        /\ pc[c][1] \notin {"queue", "config", "up_cb"}
    <2>1. c \in Threads
      BY WorkFacts
    <2>2. l[1] = "queue" /\ l[2] = t0 /\ Go(c, l)
      OBVIOUS
    <2>3. pc[c][1] \notin {"queue", "config", "up_cb"}
      BY DEF Plain, Leadless
    <2> QED
      BY <2>1, <2>2, <2>3
  <1> HIDE DEF l
  <1>1. t0 \in Ends /\ (t0 \in Enders <=> t0 = "up_cancel")
    BY DEF Ends, Enders
  <1>2. ShapeInv'
    <2>1. <<"queue", t0>> \in ClientLabels
      BY DEF ClientLabels
    <2> QED
      BY <2>1, ClientFacts, ShapeStep DEF EndInv
  <1>3. \A t \in Ends : pc'[t][1] \in {"wait", "off"} <=> pc[t][1] \in {"wait", "off"}
    BY Others, ClientFacts, WorkFacts DEF EndInv
  <1>4. \A d \in Clients : \A w :
           pc'[d] = <<"queue", w>> <=> pc[d] = <<"queue", w>> \/ (d = c /\ w = t0)
    <2> SUFFICES ASSUME NEW d \in Clients, NEW w
                 PROVE  pc'[d] = <<"queue", w>>
                           <=> pc[d] = <<"queue", w>> \/ (d = c /\ w = t0)
      OBVIOUS
    <2>1. CASE d = c
      <3>1. pc'[c] = <<"queue", t0>> /\ pc[c] # <<"queue", w>>
        BY <1>0, Others DEF EndInv, l
      <3> QED
        BY <2>1, <3>1
    <2>2. CASE d # c
      BY <1>0, <2>2, Others, WorkFacts DEF EndInv
    <2> QED
      BY <2>1, <2>2
  <1>5. \A s \in Carriers, t \in Ends :
           Leads(s, t)' <=> Leads(s, t) \/ (s = <<"call", c>> /\ t = t0)
    BY <1>3, <1>4 DEF Leads
  <1>6. LeadInv' /\ ~EnderLeads /\ (EnderLeads' <=> t0 \in Enders)
    BY <1>1, <1>5, ClientFacts, TakeLead DEF EndInv
  <1>7. Answering' = Answering /\ ConfigInv'
    <2>1. Answering' = Answering
      BY <1>0, AnsweringSame DEF EndInv
    <2>2. \A d \in Clients : ~At(d, "config", "none")
      BY DEF EndInv, ConfigInv
    <2>3. \A d \in Clients : ~At(d, "config", "none")'
      BY <1>0, <2>2, ConfigSame DEF EndInv
    <2> QED
      BY <2>1, <2>3 DEF ConfigInv
  <1>8. Owed' = Owed /\ Owed \in Int
    BY <1>1, <1>6, StateFacts DEF Owed
  <1>9. due \in Int
    BY <1>8, FS_CardinalityType DEF EndInv, AnswerInv
  <1> QED
    BY <1>2, <1>6, <1>7, <1>8, <1>9, AnswerSame DEF EndInv

(* A step of a client that starts or ends what leads nowhere *)
LEMMA EndOfMove ==
    ASSUME EndInv, NEW c \in Clients, NEW l \in ClientLabels, Go(c, l),
           pc[c] \in {Idle, Step("config")},
           l \in {Idle, Step("up_cmd"), Step("config")},
           state \notin Leaving, state' \notin Leaving, state \notin Rising,
           queued' = queued,
           due' = due + (IF state' \in Rising THEN 1 ELSE 0),
           pc[c] = Step("config") \/ state # "CONFIGURING",
           l = Step("config") <=> state' = "CONFIGURING"
    PROVE  EndInv'
  <1>1. ShapeInv'
    BY ClientFacts, ShapeStep DEF EndInv
  <1>2. Leadless(c, pc[c]) /\ Leadless(c, l)
    BY ClientFacts DEF Leadless, Idle, Step, EndInv
  <1>3. LeadInv' /\ (EnderLeads' <=> EnderLeads)
    BY <1>2, LeadSame, KeepLead, ClientFacts DEF EndInv
  <1>4. Answering' = Answering
    <2>1. pc[c][1] # "up_cb" /\ l[1] # "up_cb"
      BY DEF Idle, Step
    <2> QED
      BY <2>1, WorkFacts, AnsweringSame DEF EndInv
  <1>5. ConfigInv'
    <2>1. \A d \in Clients : d # c => ~At(d, "config", "none")
      BY DEF EndInv, ConfigInv, At, Step
    <2>2. \A d \in Clients : d # c => ~At(d, "config", "none")'
      BY <2>1, ClientFacts, Others, WorkFacts DEF EndInv, At
    <2>3. At(c, "config", "none")' => state' = "CONFIGURING"
      BY ClientFacts, Others DEF EndInv, At, Step
    <2> QED
      BY <2>2, <2>3 DEF ConfigInv
  <1>6. Owed' = Owed + (IF state' \in Rising THEN 1 ELSE 0) /\ Owed \in Int
    BY <1>3 DEF Owed
  <1>7. due \in Int
    BY <1>6, FS_CardinalityType DEF EndInv, AnswerInv
  <1> QED
    BY <1>1, <1>3, <1>4, <1>5, <1>6, <1>7, AnswerSame DEF EndInv

(* sl_core_link_up takes the link, for a client or from a callback. *)
LEMMA EndOfAccept ==
    ASSUME EndInv, NEW t \in Threads, Plain(t, pc[t]), Allowed(t, Step("up_cmd")),
           UpAccept(t)
    PROVE  EndInv'
  <1> DEFINE l == Step("up_cmd")
  <1>1. /\ Go(t, l) /\ l[1] = "up_cmd" /\ Allowed(t, l)
        /\ state \notin Leaving \cup Rising \cup {"CONFIGURING"}
        /\ state' \in Rising /\ state' \notin Leaving
        /\ queued' = queued /\ due' = due + 1
    BY DEF UpAccept, Rising, Leaving, Step, kernel
  <1> HIDE DEF l
  <1>2. ShapeInv'
    BY <1>1, ShapeStep DEF EndInv
  <1>3. Leadless(t, pc[t]) /\ Leadless(t, l) /\ pc[t][1] \notin {"config", "up_cb"}
    BY <1>1 DEF Plain, Leadless
  <1>4. \A s \in Carriers, u \in Ends : Leads(s, u)' <=> Leads(s, u)
    BY <1>1, <1>3, LeadSame DEF EndInv
  <1>5. LeadInv' /\ (EnderLeads' <=> EnderLeads)
    BY <1>1, <1>4, KeepLead DEF EndInv
  <1>6. Answering' = Answering
    BY <1>1, <1>3, AnsweringSame DEF EndInv
  <1>7. ConfigInv'
    <2>1. \A d \in Clients : ~At(d, "config", "none")
      BY <1>1 DEF EndInv, ConfigInv
    <2>2. \A d \in Clients : ~At(d, "config", "none")'
      BY <1>1, <1>3, <2>1, ConfigSame DEF EndInv
    <2> QED
      BY <2>2 DEF ConfigInv
  <1>8. Owed' = Owed + 1 /\ Owed \in Int
    BY <1>1, <1>5 DEF Owed
  <1>9. due \in Int
    BY <1>8, FS_CardinalityType DEF EndInv, AnswerInv
  <1> QED
    BY <1>1, <1>2, <1>5, <1>6, <1>7, <1>8, <1>9, AnswerSame DEF EndInv

LEMMA EndOfCall ==
    ASSUME EndInv, NEW c \in Clients, ClientCall(c)
    PROVE  EndInv'
  <1>0. pc[c] = Idle /\ Plain(c, Idle)
    BY ClientFacts DEF ClientCall, ConfigSet, EndInv
  <1>1. CASE UpAccept(c)
    <2>1. Plain(c, pc[c]) /\ Allowed(c, Step("up_cmd")) /\ c \in Threads
      BY <1>0, ClientFacts DEF ClientLabels, EndInv
    <2> QED
      BY <1>1, <2>1, EndOfAccept
  <1>2. CASE CancelAccept(c) /\ UNCHANGED <<kernel, link, ghosts>>
    <2>1. /\ state \notin Leaving \cup {"CONFIGURING"}
          /\ state' = EndState["up_cancel"] /\ state \in Rising
      BY <1>2 DEF CancelAccept, Rising, Leaving, EndState
    <2> QED
      BY <1>0, <1>2, <2>1, EndOfTake DEF CancelAccept, ClientCall, kernel, ghosts
  <1>3. CASE DownAccept(c) /\ UNCHANGED <<kernel, link, ghosts>>
    <2>1. /\ state \notin Leaving \cup {"CONFIGURING"}
          /\ state' = EndState["down"] /\ state \notin Rising
      BY <1>3 DEF DownAccept, Rising, Leaving, EndState
    <2> QED
      BY <1>0, <1>3, <2>1, EndOfTake DEF DownAccept, ClientCall, kernel, ghosts
  <1>4. CASE ConfigSet(c)
    <2>1. /\ state \notin Leaving \cup Rising \cup {"CONFIGURING"}
          /\ state' \notin Leaving \cup Rising /\ state' = "CONFIGURING"
      BY <1>4 DEF ConfigSet, Rising, Leaving
    <2>2. Step("config") \in ClientLabels /\ due \in Int
      BY FS_CardinalityType DEF ClientLabels, EndInv, AnswerInv, Owed
    <2> QED
      BY <1>4, <2>1, <2>2, EndOfMove DEF ConfigSet, kernel, ghosts
  <1> QED
    BY <1>1, <1>2, <1>3, <1>4 DEF ClientCall

LEMMA EndOfUpCmd ==
    ASSUME EndInv, NEW t \in Threads, NEW l, Plain(t, l), Allowed(t, l), UpCmd(t, l)
    PROVE  EndInv'
  <1>1. Plain(t, pc[t]) /\ Go(t, l) /\ due' = due
    BY DEF UpCmd, At, Plain, Leadless
  <1>2. CASE UNCHANGED state /\ QueueWork(IF autoneg THEN "an_up_start" ELSE "up_start")
    <2>1. queued' \cap Promising = queued \cap Promising
      BY <1>2 DEF QueueWork, Promising
    <2> QED
      BY <1>1, <1>2, <2>1, PlainStep
  <1>3. CASE UpFail
    BY <1>1, <1>3, UpFailStep
  <1> QED
    BY <1>2, <1>3 DEF UpCmd

LEMMA EndOfQueueEnd ==
    ASSUME EndInv, NEW c \in Clients, QueueEnd(c)
    PROVE  EndInv'
  <1>1. PICK w \in {"up_cancel", "down"} :
           pc[c] = <<"queue", w>> /\ QueueWork(w)
    BY DEF QueueEnd, At
  <1>2. w \in Ends /\ w # "up_timeout" /\ <<"call", c>> \in Carriers
        /\ Queue \in Carriers /\ Run \in Carriers
        /\ <<"call", c>> # Run /\ <<"call", c>> # Queue
    BY DEF Ends, Carriers, Run, Queue
  <1>3. Leads(<<"call", c>>, w)
    BY <1>1 DEF Leads
  <1>4. \A s \in Carriers, t \in Ends : Leads(s, t) => s = <<"call", c>> /\ t = w
    BY <1>2, <1>3 DEF EndInv, LeadInv
  <1>5. queued' = queued \cup {w}
    <2>1. ~Held(w)
      BY <1>2, <1>4, NotHeld DEF EndInv
    <2> QED
      BY <1>1, <2>1 DEF QueueWork
  <1>6. /\ c \in Threads /\ Go(c, Idle) /\ Idle[1] = "idle" /\ pc[c][1] = "queue"
        /\ state' = state /\ due' = due
    BY <1>1, WorkFacts DEF QueueEnd, Idle, ghosts
  <1>7. \A s \in Carriers, t \in Ends : Leads(s, t)' <=> s = Queue /\ t = w
    <2>1. \A t \in Ends : pc'[t][1] \notin {"wait", "off"}
      <3> SUFFICES ASSUME NEW t \in Ends
                   PROVE  pc'[t][1] \notin {"wait", "off"}
        OBVIOUS
      <3>1. pc'[t] = pc[t]
        BY <1>6, Others, WorkFacts DEF EndInv
      <3>2. ~Leads(Run, t)
        BY <1>2, <1>4
      <3> QED
        BY <3>1, <3>2 DEF Leads
    <2>2. \A t \in Ends : t # "up_timeout" => (t \in queued' <=> t = w)
      <3> SUFFICES ASSUME NEW t \in Ends, t # "up_timeout"
                   PROVE  t \in queued' <=> t = w
        OBVIOUS
      <3>1. ~Leads(Queue, t)
        BY <1>2, <1>4
      <3> QED
        BY <1>5, <3>1 DEF Leads
    <2>3. \A t \in Ends, d \in Clients : pc'[d] # <<"queue", t>>
      <3> SUFFICES ASSUME NEW t \in Ends, NEW d \in Clients, d # c
                   PROVE  pc'[d] # <<"queue", t>>
        BY <1>6, Others DEF EndInv
      <3>1. pc'[d] = pc[d]
        BY <1>6, Others, WorkFacts DEF EndInv
      <3>2. <<"call", d>> \in Carriers /\ <<"call", d>> # <<"call", c>>
        BY DEF Carriers
      <3>3. ~Leads(<<"call", d>>, t)
        BY <1>4, <3>2
      <3> QED
        BY <3>1, <3>3 DEF Leads
    <2>4. Queue # Run /\ \A d \in Clients : Queue # <<"call", d>>
      BY DEF Queue, Run
    <2> QED
      BY <1>2, <2>1, <2>2, <2>3, <2>4 DEF Leads
  <1>8. LeadInv' /\ (EnderLeads' <=> EnderLeads)
    BY <1>2, <1>3, <1>6, <1>7, PassLead DEF EndInv
  <1>9. ShapeInv'
    BY <1>6, ShapeStep DEF EndInv, Allowed, ClientLabels, WorkSteps, QueueEnd
  <1>10. ConfigInv'
    <2>1. \A d \in Clients : At(d, "config", "none")' <=> At(d, "config", "none")
      BY <1>6, ConfigSame DEF EndInv
    <2> QED
      BY <1>6, <2>1 DEF EndInv, ConfigInv
  <1>11. Answering' = Answering
    BY <1>6, AnsweringSame DEF EndInv
  <1>12. Owed' = Owed /\ Owed \in Int
    BY <1>6, <1>8 DEF Owed
  <1>13. due \in Int
    BY <1>12, FS_CardinalityType DEF EndInv, AnswerInv
  <1> QED
    BY <1>6, <1>8, <1>9, <1>10, <1>11, <1>12, <1>13, AnswerSame DEF EndInv

LEMMA EndOfClientStep ==
    ASSUME EndInv, NEW c \in Clients, ClientStep(c)
    PROVE  EndInv'
  <1>1. CASE ConfigEnd(c)
    <2>1. pc[c] = Step("config") /\ state = "CONFIGURING"
      BY <1>1 DEF ConfigEnd, At, Step, EndInv, ConfigInv
    <2>2. /\ state \notin Leaving \cup Rising
          /\ state' \notin Leaving \cup Rising /\ state' # "CONFIGURING"
      BY <1>1, <2>1 DEF ConfigEnd, Rising, Leaving
    <2>3. Idle \in ClientLabels /\ Idle # Step("config") /\ due \in Int
      BY FS_CardinalityType
         DEF ClientLabels, Idle, Step, EndInv, AnswerInv, Owed
    <2> QED
      BY <1>1, <2>1, <2>2, <2>3, EndOfMove DEF ConfigEnd, kernel, ghosts
  <1>2. CASE UpCmd(c, Idle)
    <2>1. Plain(c, Idle) /\ Allowed(c, Idle) /\ c \in Threads
      BY ClientFacts DEF ClientLabels, EndInv
    <2> QED
      BY <1>2, <2>1, EndOfUpCmd
  <1> QED
    BY <1>1, <1>2, EndOfQueueEnd DEF ClientStep

-----------------------------------------------------------------------------
(* The works of an attempt and of the interrupts *)

UpWorks == {"an_up_start", "an_up", "an_up_done", "up_start", "up", "up_intr",
            "fec_settle", "up_check", "fec_check"} \cap Works

UpSteps == {"idle", "begin", "serdes", "decide", "after_an", "off", "check",
            "enable", "publish", "rearm"}

LEMMA UpWorkFacts ==
    ASSUME NEW w \in UpWorks \cup Monitors
    PROVE  /\ w \in Works /\ w \in Threads /\ w \notin Ends /\ w \notin Clients
           /\ w # "fault" /\ w \notin Promising
           /\ \A l : l[1] \in UpSteps => Plain(w, l) /\ Allowed(w, l)
  <1>1. /\ w \in Works /\ w \in Threads /\ w \notin Ends /\ w \notin Clients
        /\ w # "fault" /\ w \notin Promising
    BY WorkFacts, LinkOptionsAssumption DEF UpWorks, Ends, Works, Promising
  <1>2. UpSteps \subseteq WorkSteps(w)
    BY <1>1 DEF WorkSteps, UpSteps
  <1> QED
    BY <1>1, <1>2 DEF Plain, Leadless, Allowed, UpSteps

(* Steps of such a work, to another label of an attempt *)
LEMMA UpWorkStep ==
    ASSUME EndInv, NEW w \in UpWorks \cup Monitors, NEW l, Go(w, l),
           pc[w][1] \in UpSteps, l[1] \in UpSteps,
           queued' \cap Promising = queued \cap Promising, due' = due,
           state' = state \/ (state \in Rising /\ state' \in Rising)
    PROVE  EndInv'
  BY UpWorkFacts, PlainStep

LEMMA UpWorkFails ==
    ASSUME EndInv, NEW w \in UpWorks, NEW l, Go(w, l),
           pc[w][1] \in UpSteps, l[1] \in UpSteps, UpFail, due' = due
    PROVE  EndInv'
  BY UpWorkFacts, UpFailStep

LEMMA EndOfFailUp ==
    ASSUME EndInv, NEW w \in UpWorks, NEW tm, pc[w][1] \in UpSteps, FailUp(w, tm)
    PROVE  EndInv'
  BY UpWorkFails DEF FailUp, UpSteps, Idle

LEMMA EndOfEnter ==
    ASSUME EndInv, NEW w \in UpWorks, NEW states, NEW l, NEW tm,
           l[1] \in UpSteps, Enter(w, states, l, tm)
    PROVE  EndInv'
  <1>1. /\ pc[w][1] \in UpSteps /\ Idle[1] \in UpSteps
        /\ due' = due /\ state' = state
        /\ Go(w, l) \/ Go(w, Idle)
    BY DEF Enter, Take, UpSteps, Idle, ghosts
  <1>2. queued' \cap Promising = queued \cap Promising
    BY UpWorkFacts DEF Enter, Take
  <1> QED
    BY <1>1, <1>2, UpWorkStep

LEMMA QueueSame ==
    ASSUME NEW w, w \notin Promising, QueueWork(w)
    PROVE  queued' \cap Promising = queued \cap Promising
  BY DEF QueueWork

LEMMA Heads ==
    /\ Idle[1] = "idle" /\ \A n : Step(n)[1] = n
    /\ {"begin", "serdes", "decide", "after_an", "off", "check", "enable",
        "publish", "rearm", "idle"} \subseteq UpSteps
    /\ \A t, n, x : At(t, n, x) => pc[t][1] = n
  BY DEF Idle, Step, UpSteps, At

LEMMA NotPromising ==
    {"an_up_start", "an_up", "an_up_done", "up_start", "up", "up_intr",
     "up_timeout", "fec_settle", "up_check", "fec_check"} \cap Promising = {}
  BY DEF Promising

LEMMA EndOfAnUpStart ==
    ASSUME EndInv, "an_up_start" \in UpWorks, AnUpStartWork
    PROVE  EndInv'
  <1> DEFINE w == "an_up_start"
  <1>1. CASE Enter(w, {"AN"}, Step("begin"), {})
    BY <1>1, Heads, EndOfEnter
  <1>2. CASE /\ At(w, "begin", "none")
             /\ QueueWork("an_up") /\ Go(w, Idle) /\ UNCHANGED <<state, fails>>
             /\ UNCHANGED <<intrOn, link, loose, due, ups>>
    BY <1>2, Heads, NotPromising, QueueSame, UpWorkStep
  <1>3. CASE /\ At(w, "begin", "none")
             /\ Go(w, Step("after_an")) /\ UNCHANGED <<state, queued, fails>>
             /\ UNCHANGED <<intrOn, link, loose, due, ups>>
    BY <1>3, Heads, UpWorkStep
  <1>4. CASE At(w, "after_an", "none") /\ FailUp(w, {}) /\ UNCHANGED intrOn
    BY <1>4, Heads, EndOfFailUp
  <1> QED
    BY <1>1, <1>2, <1>3, <1>4 DEF AnUpStartWork

LEMMA EndOfAnUp ==
    ASSUME EndInv, "an_up" \in UpWorks, AnUpWork
    PROVE  EndInv'
  <1> DEFINE w == "an_up"
  <1>1. CASE Enter(w, {"AN"}, Step("serdes"), {})
    BY <1>1, Heads, EndOfEnter
  <1>2. CASE /\ At(w, "serdes", "none")
             /\ Go(w, Idle)
             /\ UNCHANGED <<state, queued, armed, link, ghosts>>
    BY <1>2, Heads, UpWorkStep DEF ghosts
  <1>3. CASE At(w, "serdes", "none") /\ FailUp(w, {})
    BY <1>3, Heads, EndOfFailUp
  <1> QED
    BY <1>1, <1>2, <1>3 DEF AnUpWork

LEMMA EndOfAnUpDone ==
    ASSUME EndInv, "an_up_done" \in UpWorks, AnUpDoneWork
    PROVE  EndInv'
  <1> DEFINE w == "an_up_done"
  <1>1. CASE Enter(w, {"AN"}, Step("decide"), {})
    BY <1>1, Heads, EndOfEnter
  <1>2. CASE /\ At(w, "decide", "none")
             /\ Go(w, Idle) \/ Go(w, Step("after_an"))
             /\ UNCHANGED <<state, queued, armed, link, ghosts>>
    BY <1>2, Heads, UpWorkStep DEF ghosts
  <1>3. CASE At(w, "decide", "none") /\ FailUp(w, {}) /\ UNCHANGED intrOn
    BY <1>3, Heads, EndOfFailUp
  <1> QED
    BY <1>1, <1>2, <1>3 DEF AnUpDoneWork

LEMMA EndOfUpAfterAn ==
    ASSUME EndInv, NEW w \in UpWorks, UpAfterAnStart(w)
    PROVE  EndInv'
  <1>1. CASE /\ At(w, "after_an", "none") /\ state = "AN"
             /\ state' = "GOING_UP" /\ Go(w, Step("off"))
             /\ UNCHANGED <<queued, intrOn, link, ghosts>>
    BY <1>1, Heads, UpWorkStep DEF ghosts, Rising
  <1>2. CASE /\ At(w, "after_an", "none") /\ Go(w, Idle) /\ UNCHANGED state
             /\ UNCHANGED <<queued, intrOn, link, ghosts>>
    BY <1>2, Heads, UpWorkStep DEF ghosts
  <1>3. CASE /\ At(w, "off", "none") /\ QueueWork("up") /\ Go(w, Idle)
             /\ UNCHANGED <<state, armed, link, ghosts>>
    BY <1>3, Heads, NotPromising, QueueSame, UpWorkStep DEF ghosts
  <1>4. CASE At(w, "off", "none") /\ FailUp(w, {"link_up"})
    BY <1>4, Heads, EndOfFailUp
  <1> QED
    BY <1>1, <1>2, <1>3, <1>4 DEF UpAfterAnStart

LEMMA EndOfUpStart ==
    ASSUME EndInv, "up_start" \in UpWorks, UpStartWork
    PROVE  EndInv'
  <1> DEFINE w == "up_start"
  <1>1. CASE Enter(w, {"GOING_UP"}, Step("begin"), {})
    BY <1>1, Heads, EndOfEnter
  <1>2. CASE /\ At(w, "begin", "none")
             /\ Go(w, Step("off"))
             /\ UNCHANGED <<state, queued, intrOn, link, ghosts>>
    BY <1>2, Heads, UpWorkStep DEF ghosts
  <1>3. CASE At(w, "begin", "none") /\ FailUp(w, {}) /\ UNCHANGED intrOn
    BY <1>3, Heads, EndOfFailUp
  <1>4. CASE /\ At(w, "off", "none")
             /\ QueueWork("up") \/ UNCHANGED queued
             /\ Go(w, Idle)
             /\ UNCHANGED <<state, link, ghosts>>
    BY <1>4, Heads, NotPromising, QueueSame, UpWorkStep DEF ghosts
  <1> QED
    BY <1>1, <1>2, <1>3, <1>4 DEF UpStartWork

LEMMA EndOfUp ==
    ASSUME EndInv, "up" \in UpWorks, UpWork
    PROVE  EndInv'
  <1> DEFINE w == "up"
  <1>1. CASE Enter(w, Rising, Step("serdes"), {"link_up"})
    BY <1>1, Heads, EndOfEnter
  <1>2. CASE /\ At(w, "serdes", "none")
             /\ Go(w, Idle)
             /\ UNCHANGED <<state, queued, armed, link, ghosts>>
    BY <1>2, Heads, UpWorkStep DEF ghosts
  <1>3. CASE At(w, "serdes", "none") /\ FailUp(w, {"link_up"}) /\ UNCHANGED intrOn
    BY <1>3, Heads, EndOfFailUp
  <1> QED
    BY <1>1, <1>2, <1>3 DEF UpWork

LEMMA EndOfBegin ==
    ASSUME EndInv, NEW w \in UpWorks, NEW tm, BeginWork(w, tm)
    PROVE  EndInv'
  <1>1. CASE Enter(w, Rising, Step("begin"), {"link_up"})
    BY <1>1, Heads, EndOfEnter
  <1>2. CASE /\ At(w, "begin", "none")
             /\ Go(w, Idle)
             /\ UNCHANGED <<state, queued, intrOn, link, ghosts>>
    BY <1>2, Heads, UpWorkStep DEF ghosts
  <1> QED
    BY <1>1, <1>2 DEF BeginWork

LEMMA EndOfCheck ==
    ASSUME EndInv, NEW w \in UpWorks, CheckWork(w)
    PROVE  EndInv'
  <1>1. CASE Enter(w, Rising, Step("check"), {"link_up"})
    BY <1>1, Heads, EndOfEnter
  <1>2. CASE /\ At(w, "check", "none")
             /\ Go(w, Idle)
             /\ UNCHANGED <<state, queued, intrOn, link, ghosts>>
    BY <1>2, Heads, UpWorkStep DEF ghosts
  <1>3. CASE /\ At(w, "check", "none")
             /\ UpAld
             /\ Go(w, Step("enable"))
             /\ UNCHANGED <<link, loose, due, ups>>
    <2>1. UNCHANGED <<state, queued>> \/ UpFail
      BY <1>3 DEF UpAld
    <2> QED
      BY <1>3, <2>1, Heads, UpWorkStep, UpWorkFails
  <1>4. CASE At(w, "check", "none") /\ FailUp(w, {"link_up"}) /\ UNCHANGED intrOn
    BY <1>4, Heads, EndOfFailUp
  <1> QED
    BY <1>1, <1>2, <1>3, <1>4 DEF CheckWork

-----------------------------------------------------------------------------
(* Answers that begin and end *)

LEMMA BeginAnswer ==
    ASSUME ShapeInv, AnswerInv, NEW w \in Works, NEW l, Go(w, l),
           pc[w][1] # "up_cb", l[1] = "up_cb", due' = due,
           Owed' = Owed - 1
    PROVE  AnswerInv'
  <1>1. w \in Threads /\ w \notin Answering
    BY WorkFacts DEF Answering
  <1>2. Answering' = Answering \cup {w}
    BY <1>1, Others, WorkFacts DEF Answering
  <1>3. /\ IsFiniteSet(Answering')
        /\ Cardinality(Answering') = Cardinality(Answering) + 1
    BY <1>1, <1>2, FS_AddElement DEF AnswerInv
  <1>4. Owed \in Int /\ Cardinality(Answering) \in Nat
    BY FS_CardinalityType DEF Owed, AnswerInv
  <1> QED
    BY <1>3, <1>4 DEF AnswerInv

LEMMA EndAnswer ==
    ASSUME ShapeInv, AnswerInv, NEW w \in Works, NEW l, Go(w, l),
           pc[w][1] = "up_cb", l[1] # "up_cb", due' = due - 1,
           Owed' = Owed
    PROVE  AnswerInv'
  <1>1. w \in Threads /\ w \in Answering
    BY WorkFacts DEF Answering
  <1>2. Answering' = Answering \ {w}
    BY <1>1, Others, WorkFacts DEF Answering
  <1>3. /\ IsFiniteSet(Answering')
        /\ Cardinality(Answering') = Cardinality(Answering) - 1
    BY <1>1, <1>2, FS_RemoveElement DEF AnswerInv
  <1>4. Owed \in Int /\ Cardinality(Answering) \in Nat
    BY FS_CardinalityType DEF Owed, AnswerInv
  <1> QED
    BY <1>3, <1>4 DEF AnswerInv

(* sl_core_hw_link_up_success: the link is up, and its attempt is answered. *)
LEMMA EndOfPublish ==
    ASSUME EndInv, NEW w \in UpWorks, At(w, "publish", "none"),
           state = "GOING_UP", state' = "UP", Go(w, <<"up_cb", "up">>),
           queued' = queued, due' = due
    PROVE  EndInv'
  <1> DEFINE l == <<"up_cb", "up">>
  <1>1. /\ w \in Works /\ w \in Threads /\ w \notin Ends /\ w # "fault"
        /\ w \notin Clients
    BY UpWorkFacts
  <1>2. pc[w][1] = "publish" /\ l[1] = "up_cb" /\ Go(w, l)
    BY DEF At
  <1> HIDE DEF l
  <1>3. Leadless(w, pc[w]) /\ Leadless(w, l)
    BY <1>2 DEF Leadless
  <1>4. ShapeInv'
    <2>1. Allowed(w, l)
      BY <1>1, <1>2 DEF Allowed, WorkSteps
    <2> QED
      BY <1>1, <1>2, <2>1, ShapeStep DEF EndInv
  <1>5. \A s \in Carriers, t \in Ends : Leads(s, t)' <=> Leads(s, t)
    BY <1>1, <1>2, <1>3, LeadSame DEF EndInv
  <1>6. state \notin Leaving /\ state' \notin Leaving
    BY DEF Leaving
  <1>7. LeadInv' /\ (EnderLeads' <=> EnderLeads)
    BY <1>5, <1>6, KeepLead DEF EndInv
  <1>8. ConfigInv'
    <2>1. \A c \in Clients : ~At(c, "config", "none")
      BY DEF EndInv, ConfigInv
    <2>2. \A c \in Clients : ~At(c, "config", "none")'
      BY <1>1, <1>2, <2>1, ConfigSame DEF EndInv
    <2> QED
      BY <2>2 DEF ConfigInv
  <1>9. Owed' = Owed - 1
    BY <1>7 DEF Owed, Rising
  <1>10. AnswerInv'
    BY <1>1, <1>2, <1>9, BeginAnswer DEF EndInv
  <1> QED
    BY <1>4, <1>7, <1>8, <1>10 DEF EndInv

LEMMA EndOfSuccess ==
    ASSUME EndInv, NEW w \in UpWorks, UpSuccess(w)
    PROVE  EndInv'
  <1>1. CASE /\ At(w, "enable", "none") /\ Go(w, Step("publish"))
             /\ UNCHANGED <<state, queued, armed, link, ghosts>>
    BY <1>1, Heads, UpWorkStep DEF ghosts
  <1>2. CASE At(w, "enable", "none") /\ FailUp(w, {})
    BY <1>2, Heads, EndOfFailUp
  <1>3. CASE /\ At(w, "publish", "none") /\ state = "GOING_UP"
             /\ state' = "UP" /\ Go(w, <<"up_cb", "up">>)
             /\ UNCHANGED <<kernel, link, ghosts>>
    BY <1>3, EndOfPublish DEF kernel, ghosts
  <1>4. CASE /\ At(w, "publish", "none") /\ Go(w, Idle) /\ UNCHANGED state
             /\ UNCHANGED <<kernel, link, ghosts>>
    BY <1>4, Heads, UpWorkStep DEF kernel, ghosts
  <1> QED
    BY <1>1, <1>2, <1>3, <1>4 DEF UpSuccess

-----------------------------------------------------------------------------
(* The teardowns *)

LEMMA OnlyLead ==
    ASSUME LeadInv, NEW s0 \in Carriers, NEW t0 \in Ends, Leads(s0, t0)
    PROVE  /\ \A s \in Carriers, t \in Ends : Leads(s, t) => s = s0 /\ t = t0
           /\ state = EndState[t0] /\ state \in Leaving
           /\ state \notin Rising /\ state # "CONFIGURING"
  <1>1. \A s \in Carriers, t \in Ends : Leads(s, t) => s = s0 /\ t = t0
    BY DEF LeadInv
  <1>2. state = EndState[t0] /\ state \in Leaving
    BY StateFacts DEF LeadInv
  <1> QED
    BY <1>1, <1>2 DEF Leaving, Rising

LEMMA CarrierFacts ==
    /\ Run \in Carriers /\ Queue \in Carriers /\ Run # Queue
    /\ \A c \in Clients : /\ <<"call", c>> \in Carriers
                          /\ <<"call", c>> # Run /\ <<"call", c>> # Queue
  BY DEF Carriers, Run, Queue

(* Nobody else leads a link whose teardown moves. *)
LEMMA NobodyElse ==
    ASSUME ShapeInv, NEW t \in Ends, NEW l, Go(t, l), queued' \subseteq queued,
           NEW s0 \in {Run, Queue}, s0 = Run \/ t \notin queued',
           \A s \in Carriers, u \in Ends : Leads(s, u) => s = s0 /\ u = t
    PROVE  \A s \in Carriers, u \in Ends :
              Leads(s, u)' <=> s = Run /\ u = t /\ l[1] \in {"wait", "off"}
  <1>1. \A u \in Ends : u # t => pc'[u][1] \notin {"wait", "off"}
    <2> SUFFICES ASSUME NEW u \in Ends, u # t
                 PROVE  pc'[u][1] \notin {"wait", "off"}
      OBVIOUS
    <2>1. pc'[u] = pc[u]
      BY Others, WorkFacts
    <2>2. ~Leads(Run, u)
      BY CarrierFacts
    <2> QED
      BY <2>1, <2>2 DEF Leads
  <1>2. \A u \in Ends : u # "up_timeout" => u \notin queued'
    <2> SUFFICES ASSUME NEW u \in Ends, u # "up_timeout", u \in queued'
                 PROVE  FALSE
      OBVIOUS
    <2>1. Leads(Queue, u)
      BY DEF Leads
    <2> QED
      BY <2>1, CarrierFacts
  <1>3. \A u \in Ends, d \in Clients : pc'[d] # <<"queue", u>>
    <2> SUFFICES ASSUME NEW u \in Ends, NEW d \in Clients
                 PROVE  pc'[d] # <<"queue", u>>
      OBVIOUS
    <2>1. pc'[d] = pc[d]
      BY Others, WorkFacts
    <2>2. ~Leads(<<"call", d>>, u)
      BY CarrierFacts
    <2> QED
      BY <2>1, <2>2 DEF Leads
  <1>4. pc'[t] = l
    BY Others, WorkFacts
  <1> QED
    BY <1>1, <1>2, <1>3, <1>4, CarrierFacts DEF Leads

LEMMA EndOfClaim ==
    ASSUME EndInv, NEW t \in Ends, pc[t] = Idle, NEW l, Go(t, l),
           l[1] = "wait", t \in queued, t \notin queued', queued' \subseteq queued,
           state \in Claims[t],
           state' = IF t = "up_timeout" THEN "TIMEOUT" ELSE state,
           due' = due
    PROVE  EndInv'
  <1>1. t \in Threads /\ t \in Works /\ t \notin Clients /\ t # "fault"
    BY WorkFacts
  <1>2. ShapeInv'
    <2>1. Allowed(t, l)
      BY <1>1 DEF Allowed, WorkSteps
    <2> QED
      BY <1>1, <2>1, ShapeStep DEF EndInv
  <1>3. Answering' = Answering
    BY <1>1, AnsweringSame, Heads DEF EndInv
  <1>4. state # "CONFIGURING"
    BY DEF Claims, Ends, Rising
  <1>5. ConfigInv'
    <2>1. \A c \in Clients : ~At(c, "config", "none")
      BY <1>4 DEF EndInv, ConfigInv
    <2>2. \A c \in Clients : ~At(c, "config", "none")'
      BY <1>1, <2>1, ConfigSame, Heads DEF EndInv
    <2> QED
      BY <2>2 DEF ConfigInv
  <1>6. LeadInv' /\ Owed' = Owed /\ Owed \in Int
    <2>1. CASE t = "up_timeout"
      <3>1. state \in Rising /\ state \notin Leaving /\ state' = EndState[t]
        BY <2>1, StateFacts DEF Claims, EndState
      <3>2. \A s \in Carriers, u \in Ends : ~Leads(s, u)
        BY <3>1, NoLead DEF EndInv
      <3>3. \A s \in Carriers, u \in Ends :
               Leads(s, u)' <=> Leads(s, u) \/ (s = Run /\ u = t)
        BY <3>2, NobodyElse DEF EndInv
      <3>4. LeadInv' /\ ~EnderLeads /\ (EnderLeads' <=> t \in Enders)
        BY <3>1, <3>3, CarrierFacts, TakeLead DEF EndInv
      <3>5. t \in Enders /\ state' \notin Rising
        BY <2>1 DEF Enders, Rising
      <3> QED
        BY <3>1, <3>4, <3>5 DEF Owed
    <2>2. CASE t # "up_timeout"
      <3>1. Leads(Queue, t)
        BY <2>2 DEF Leads
      <3>2. \A s \in Carriers, u \in Ends : Leads(s, u) => s = Queue /\ u = t
        BY <3>1, CarrierFacts, OnlyLead DEF EndInv
      <3>3. \A s \in Carriers, u \in Ends : Leads(s, u)' <=> s = Run /\ u = t
        BY <3>2, NobodyElse DEF EndInv
      <3>4. LeadInv' /\ (EnderLeads' <=> EnderLeads)
        BY <2>2, <3>1, <3>3, CarrierFacts, PassLead DEF EndInv
      <3> QED
        BY <2>2, <3>4 DEF Owed
    <2> QED
      BY <2>1, <2>2
  <1>7. AnswerInv'
    <2>1. due \in Int
      BY <1>6, FS_CardinalityType DEF EndInv, AnswerInv
    <2> QED
      BY <1>3, <1>6, <2>1, AnswerSame DEF EndInv
  <1> QED
    BY <1>2, <1>5, <1>6, <1>7 DEF EndInv

LEMMA EndOfTeardownStart ==
    ASSUME EndInv, NEW t \in Ends, TeardownStart(t)
    PROVE  EndInv'
  <1>1. CASE state \in Claims[t]
    <2> DEFINE l == <<"wait", CancelList[t][1]>>
    <2>1. /\ Go(t, l) /\ queued' = queued \ {t, CancelList[t][1]}
          /\ state' = IF t = "up_timeout" THEN "TIMEOUT" ELSE state
          /\ t \in queued /\ pc[t] = Idle /\ due' = due
      BY <1>1 DEF TeardownStart, ghosts
    <2>2. l[1] = "wait"
      OBVIOUS
    <2> HIDE DEF l
    <2> QED
      BY <1>1, <2>1, <2>2, EndOfClaim
  <1>2. CASE state \notin Claims[t]
    <2>1. /\ Go(t, Idle) /\ queued' = queued \ {t} /\ state' = state
          /\ t \in queued /\ pc[t] = Idle /\ due' = due
      BY <1>2 DEF TeardownStart, ghosts
    <2>2. t = "up_timeout"
      <3> SUFFICES ASSUME t # "up_timeout"
                   PROVE  FALSE
        OBVIOUS
      <3>1. Leads(Queue, t)
        BY <2>1 DEF Leads
      <3>2. state = EndState[t]
        BY <3>1, CarrierFacts, OnlyLead DEF EndInv
      <3> QED
        BY <1>2, <3>2 DEF Claims, EndState, Ends
    <2>3. queued' \cap Promising = queued \cap Promising
      BY <2>1, <2>2 DEF Promising
    <2>4. Plain(t, Idle) /\ Allowed(t, Idle) /\ t \in Threads
      BY WorkFacts DEF Plain, Leadless, Allowed, WorkSteps, Idle
    <2> QED
      BY <2>1, <2>3, <2>4, PlainStep
  <1> QED
    BY <1>1, <1>2

LEMMA EndOfTeardownGoesOn ==
    ASSUME EndInv, NEW t \in Ends, pc[t][1] = "wait", NEW l, Go(t, l),
           l[1] \in {"wait", "off"}, queued' \subseteq queued,
           state' = state, due' = due
    PROVE  EndInv'
  <1>1. t \in Threads /\ t \in Works /\ t \notin Clients /\ t # "fault"
    BY WorkFacts
  <1>2. ShapeInv'
    <2>1. Allowed(t, l)
      BY <1>1 DEF Allowed, WorkSteps
    <2> QED
      BY <1>1, <2>1, ShapeStep DEF EndInv
  <1>3. Answering' = Answering
    BY <1>1, AnsweringSame DEF EndInv
  <1>4. ConfigInv'
    <2>1. \A c \in Clients : At(c, "config", "none")' <=> At(c, "config", "none")
      BY <1>1, ConfigSame DEF EndInv
    <2> QED
      BY <2>1 DEF EndInv, ConfigInv
  <1>5. Leads(Run, t)
    BY DEF Leads
  <1>6. \A s \in Carriers, u \in Ends : Leads(s, u) => s = Run /\ u = t
    BY <1>5, CarrierFacts, OnlyLead DEF EndInv
  <1>7. \A s \in Carriers, u \in Ends : Leads(s, u)' <=> s = Run /\ u = t
    BY <1>6, NobodyElse DEF EndInv
  <1>8. LeadInv' /\ (EnderLeads' <=> EnderLeads)
    BY <1>5, <1>7, CarrierFacts, PassLead DEF EndInv
  <1>9. Owed' = Owed /\ Owed \in Int
    BY <1>8 DEF Owed
  <1>10. due \in Int
    BY <1>9, FS_CardinalityType DEF EndInv, AnswerInv
  <1> QED
    BY <1>2, <1>3, <1>4, <1>8, <1>9, <1>10, AnswerSame DEF EndInv

LEMMA EndOfTeardownWait ==
    ASSUME EndInv, NEW t \in Ends, TeardownWait(t)
    PROVE  EndInv'
  <1>1. PICK w \in DOMAIN Following[t] :
           /\ Waited(t, "wait", w)
           /\ \/ Go(t, Step("off")) /\ UNCHANGED queued
              \/ Cancel(t, "wait", Following[t][w])
    BY DEF TeardownWait
  <1>2. pc[t][1] = "wait" /\ state' = state /\ due' = due
    BY <1>1 DEF Waited, At, TeardownWait, ghosts
  <1>3. CASE Go(t, Step("off")) /\ UNCHANGED queued
    BY <1>2, <1>3, Heads, EndOfTeardownGoesOn
  <1>4. CASE Cancel(t, "wait", Following[t][w])
    <2> DEFINE l == <<"wait", Following[t][w]>>
    <2>1. Go(t, l) /\ queued' \subseteq queued
      BY <1>4 DEF Cancel
    <2>2. l[1] = "wait"
      OBVIOUS
    <2> HIDE DEF l
    <2> QED
      BY <1>2, <2>1, <2>2, EndOfTeardownGoesOn
  <1> QED
    BY <1>1, <1>3, <1>4

LEMMA EndOfTeardownEnd ==
    ASSUME EndInv, NEW t \in Ends, TeardownEnd(t)
    PROVE  EndInv'
  <1> DEFINE l == IF t = "down" THEN Step("down_cb") ELSE <<"up_cb", "read">>
  <1>1. /\ pc[t][1] = "off" /\ Go(t, l) /\ state' = "DOWN"
        /\ queued' = queued /\ due' = due
    BY DEF TeardownEnd, At, kernel
  <1>2. l[1] = IF t = "down" THEN "down_cb" ELSE "up_cb"
    BY DEF Step
  <1> HIDE DEF l
  <1>3. t \in Threads /\ t \in Works /\ t \notin Clients /\ t # "fault"
    BY WorkFacts
  <1>4. ShapeInv'
    <2>1. Allowed(t, l)
      BY <1>2, <1>3 DEF Allowed, WorkSteps
    <2> QED
      BY <1>1, <1>3, <2>1, ShapeStep DEF EndInv
  <1>5. Leads(Run, t)
    BY <1>1 DEF Leads
  <1>6. /\ \A s \in Carriers, u \in Ends : Leads(s, u) => s = Run /\ u = t
        /\ state \notin Rising /\ state # "CONFIGURING"
    BY <1>5, CarrierFacts, OnlyLead DEF EndInv
  <1>7. \A s \in Carriers, u \in Ends : ~Leads(s, u)'
    BY <1>1, <1>2, <1>6, NobodyElse DEF EndInv
  <1>8. LeadInv' /\ (EnderLeads <=> t \in Enders) /\ ~EnderLeads'
    <2>1. state' \notin Leaving
      BY <1>1 DEF Leaving
    <2> QED
      BY <1>5, <1>7, <2>1, CarrierFacts, DropLead DEF EndInv
  <1>9. ConfigInv'
    <2>1. \A c \in Clients : ~At(c, "config", "none")
      BY <1>6 DEF EndInv, ConfigInv
    <2>2. \A c \in Clients : ~At(c, "config", "none")'
      BY <1>1, <1>2, <1>3, <2>1, ConfigSame DEF EndInv
    <2> QED
      BY <2>2 DEF ConfigInv
  <1>10. AnswerInv'
    <2>1. state' \notin Rising
      BY <1>1 DEF Rising
    <2>2. CASE t = "down"
      <3>1. Owed = 0 /\ Owed' = 0
        BY <1>6, <1>8, <2>1, <2>2 DEF Owed, Enders
      <3>2. Answering' = Answering
        BY <1>1, <1>2, <1>3, <2>2, AnsweringSame DEF EndInv
      <3>3. due \in Int
        BY <3>1, FS_CardinalityType DEF EndInv, AnswerInv
      <3> QED
        BY <1>1, <3>1, <3>2, <3>3, AnswerSame DEF EndInv
    <2>3. CASE t # "down"
      <3>1. Owed' = Owed - 1
        BY <1>6, <1>8, <2>1, <2>3, WorkFacts DEF Owed
      <3> QED
        BY <1>1, <1>2, <1>3, <2>3, <3>1, BeginAnswer DEF EndInv
    <2> QED
      BY <2>2, <2>3
  <1> QED
    BY <1>4, <1>8, <1>9, <1>10 DEF EndInv

-----------------------------------------------------------------------------
(* The interrupts that watch the link, the callbacks, timers and interrupts *)

LEMMA EndOfMonitorTake ==
    ASSUME EndInv, NEW w \in Monitors, MonitorTake(w)
    PROVE  EndInv'
  <1>1. /\ pc[w][1] \in UpSteps /\ due' = due /\ state' = state
        /\ Go(w, Step("rearm")) \/ Go(w, Idle)
    BY Heads DEF MonitorTake, Take, ghosts
  <1>2. queued' \cap Promising = queued \cap Promising
    BY UpWorkFacts DEF MonitorTake, Take
  <1> QED
    BY <1>1, <1>2, Heads, UpWorkStep

LEMMA FaultFacts ==
    /\ \A n \in {"idle", "rearm"} :
          Plain("fault", Step(n)) /\ Allowed("fault", Step(n))
    /\ Idle = Step("idle") /\ "fault" \in Works /\ "fault" \in Threads
    /\ "fault" \notin Promising
  BY WorkFacts DEF Plain, Leadless, Allowed, WorkSteps, Idle, Step, Promising

LEMMA EndOfRearm ==
    ASSUME EndInv, NEW w \in Monitors \cup {"fault"}, Rearm(w)
    PROVE  EndInv'
  <1>1. /\ pc[w] = Step("rearm") /\ Go(w, Idle)
        /\ due' = due /\ state' = state /\ queued' = queued
    BY DEF Rearm, At, Step
  <1>2. CASE w \in Monitors
    BY <1>1, <1>2, Heads, UpWorkStep
  <1>3. CASE w = "fault"
    BY <1>1, <1>3, FaultFacts, PlainStep
  <1> QED
    BY <1>2, <1>3

LEMMA EndOfFaultTake ==
    ASSUME EndInv, FaultPaths \subseteq {"rearm"}, FaultTake
    PROVE  EndInv'
  <1>1. /\ pc["fault"] = Step("idle") /\ Go("fault", Step("rearm"))
        /\ due' = due /\ state' = state /\ queued' = queued \ {"fault"}
    BY FaultFacts DEF FaultTake, Take, ghosts
  <1>2. queued' \cap Promising = queued \cap Promising
    BY <1>1, FaultFacts
  <1> QED
    BY <1>1, <1>2, FaultFacts, PlainStep

(* The up callback was called. *)
LEMMA EndOfAnswer ==
    ASSUME EndInv, NEW t \in Works, pc[t][1] = "up_cb", NEW l, Go(t, l),
           Plain(t, l), Allowed(t, l), queued' = queued, state' = state,
           due' = due - 1
    PROVE  EndInv'
  <1>1. t \in Threads
    BY WorkFacts
  <1>2. ShapeInv'
    BY <1>1, ShapeStep DEF EndInv
  <1>3. Leadless(t, pc[t]) /\ Leadless(t, l) /\ l[1] \notin {"config", "up_cb"}
    BY DEF Plain, Leadless
  <1>4. \A s \in Carriers, u \in Ends : Leads(s, u)' <=> Leads(s, u)
    BY <1>1, <1>3, LeadSame DEF EndInv
  <1>5. LeadInv' /\ (EnderLeads' <=> EnderLeads)
    BY <1>4, KeepLead DEF EndInv
  <1>6. ConfigInv'
    <2>1. \A c \in Clients : At(c, "config", "none")' <=> At(c, "config", "none")
      BY <1>1, <1>3, ConfigSame DEF EndInv
    <2> QED
      BY <2>1 DEF EndInv, ConfigInv
  <1>7. AnswerInv'
    <2>1. Owed' = Owed
      BY <1>5 DEF Owed
    <2> QED
      BY <1>3, <2>1, EndAnswer DEF EndInv
  <1> QED
    BY <1>2, <1>5, <1>6, <1>7 DEF EndInv

LEMMA AfterFacts ==
    ASSUME NEW t \in Works
    PROVE  Plain(t, AfterUpCallback(t)) /\ Allowed(t, AfterUpCallback(t))
  <1>1. CASE t = "up_cancel"
    BY <1>1, WorkFacts DEF AfterUpCallback, Plain, Leadless, Allowed, WorkSteps, Ends, Step
  <1>2. CASE t # "up_cancel"
    BY <1>2, WorkFacts DEF AfterUpCallback, Plain, Leadless, Allowed, WorkSteps, Idle
  <1> QED
    BY <1>1, <1>2

LEMMA EndOfCallback ==
    ASSUME EndInv, NEW t \in Works, Callback(t)
    PROVE  EndInv'
  <1>1. t \in Threads /\ t \notin Clients /\ pc[t][1] \in WorkSteps(t)
    BY WorkFacts DEF EndInv, ShapeInv
  <1>2. ~FaultStart(t)
    BY <1>1 DEF FaultStart, At, WorkSteps, CallbackSteps
  <1>3. CASE /\ pc[t][1] = "up_cb" /\ due' = due - 1
             /\ Go(t, AfterUpCallback(t))
             /\ UNCHANGED <<state, kernel, link, loose, ups, fails>>
    BY <1>3, AfterFacts, EndOfAnswer DEF kernel
  <1>4. CASE /\ pc[t] \in {Step("down_cb"), Step("fault_cb")} /\ Go(t, Idle)
             /\ UNCHANGED due
             /\ UNCHANGED <<state, kernel, link, loose, ups, fails>>
    <2>1. Plain(t, pc[t]) /\ Plain(t, Idle)
      BY <1>4 DEF Plain, Leadless, Step, Idle
    <2>2. Allowed(t, Idle)
      BY <1>1 DEF Allowed, WorkSteps, Idle
    <2> QED
      BY <1>1, <1>4, <2>1, <2>2, PlainStep DEF kernel
  <1> QED
    BY <1>2, <1>3, <1>4 DEF Callback, CallbackReturns

LEMMA EndOfTimer ==
    ASSUME EndInv, NEW tm \in DOMAIN TimerWork, TimerExpire(tm)
    PROVE  EndInv'
  <1>1. TimerWork[tm] \notin Promising
    BY DEF TimerWork, Promising
  <1> QED
    BY <1>1, QueueSame, StillStep DEF TimerExpire, ghosts

LEMMA EndOfIntr ==
    ASSUME EndInv, NEW i \in DOMAIN IntrWork, IntrFire(i)
    PROVE  EndInv'
  <1>1. IntrWork[i] \in {"up_intr", "an_up_done", "fault"} \cup Monitors
    BY DEF IntrWork
  <1>2. IntrWork[i] \notin Promising
    BY <1>1, LinkOptionsAssumption DEF Promising
  <1> QED
    BY <1>2, QueueSame, StillStep DEF IntrFire

-----------------------------------------------------------------------------
(* The invariant and what it means *)

LEMMA EndOfFaultWork ==
    ASSUME EndInv, FaultPaths \subseteq {"rearm"}, NEW t \in FaultWorks,
           FaultWork(t) \/ Rearm(t) \/ FaultLinkDown(t)
    PROVE  EndInv'
  <1>1. t = "fault"
    BY LinkOptionsAssumption
       DEF FaultWorks, Works, AnWorks, SettleWorks, PollWorks, Enders
  <1>2. ~FaultLinkDown(t)
    BY <1>1, WorkFacts DEF FaultLinkDown, At, EndInv, ShapeInv, WorkSteps
  <1>3. ~FaultRecover
    BY DEF FaultRecover
  <1> QED
    BY <1>1, <1>2, <1>3, EndOfFaultTake, EndOfRearm DEF FaultWork

LEMMA EndOfLinkWork ==
    ASSUME EndInv, FaultPaths \subseteq {"rearm"}, NEW t \in Works, LinkWork(t)
    PROVE  EndInv'
  <1>1. t \in {"an_up_start", "an_up", "an_up_done", "up_start", "up", "up_intr",
               "fec_settle", "up_check", "fec_check"} => t \in UpWorks
    BY DEF UpWorks
  <1>2. CASE t = "an_up_start" /\ AnUpStartWork
    BY <1>1, <1>2, EndOfAnUpStart
  <1>3. CASE t = "an_up" /\ AnUpWork
    BY <1>1, <1>3, EndOfAnUp
  <1>4. CASE t = "an_up_done" /\ AnUpDoneWork
    BY <1>1, <1>4, EndOfAnUpDone
  <1>5. CASE t \in {"an_up_start", "an_up_done"} /\ UpAfterAnStart(t)
    BY <1>1, <1>5, EndOfUpAfterAn
  <1>6. CASE t = "up_start" /\ UpStartWork
    BY <1>1, <1>6, EndOfUpStart
  <1>7. CASE t = "up" /\ UpWork
    BY <1>1, <1>7, EndOfUp
  <1>8. CASE t = "up_intr" /\ BeginWork(t, "up_check")
    BY <1>1, <1>8, EndOfBegin
  <1>9. CASE t = "fec_settle" /\ BeginWork(t, "fec_check")
    BY <1>1, <1>9, EndOfBegin
  <1>10. CASE t \in {"up_check", "fec_check"} /\ (CheckWork(t) \/ UpSuccess(t))
    BY <1>1, <1>10, EndOfCheck, EndOfSuccess
  <1>11. CASE t \in DOMAIN CancelList /\ Teardown(t)
    BY <1>11, WorkFacts, EndOfTeardownStart, EndOfTeardownWait, EndOfTeardownEnd
       DEF Teardown
  <1>12. CASE t \in Monitors /\ (MonitorTake(t) \/ Rearm(t))
    BY <1>12, EndOfMonitorTake, EndOfRearm
  <1>13. CASE t \in FaultWorks /\ (FaultWork(t) \/ Rearm(t) \/ FaultLinkDown(t))
    BY <1>13, EndOfFaultWork
  <1> QED
    BY <1>2, <1>3, <1>4, <1>5, <1>6, <1>7, <1>8, <1>9, <1>10, <1>11, <1>12, <1>13
       DEF LinkWork

LEMMA EndOfNext ==
    ASSUME EndInv, FaultPaths \subseteq {"rearm"}, [Next]_vars
    PROVE  EndInv'
  <1>1. CASE \E c \in Clients : ClientCall(c) \/ ClientStep(c)
    BY <1>1, EndOfCall, EndOfClientStep
  <1>2. CASE \E t \in Works : WorkStep(t)
    BY <1>2, EndOfLinkWork, EndOfCallback DEF WorkStep
  <1>3. CASE \E tm \in DOMAIN TimerWork : TimerExpire(tm)
    BY <1>3, EndOfTimer
  <1>4. CASE \E i \in DOMAIN IntrWork : IntrFire(i)
    BY <1>4, EndOfIntr
  <1>5. CASE UNCHANGED vars
    BY <1>5, StillStep DEF vars
  <1> QED
    BY <1>1, <1>2, <1>3, <1>4, <1>5 DEF Next

LEMMA EndOfInit ==
    ASSUME Init
    PROVE  EndInv
  <1>1. /\ \A t \in Threads : pc[t] = Idle /\ pc[t][1] = "idle"
        /\ queued = {} /\ due = 0
        /\ state \notin Leaving /\ state \notin Rising
    BY DEF Init, Idle, Leaving, Rising
  <1>2. ShapeInv
    <2>1. pc = [t \in Threads |-> pc[t]]
      BY DEF Init
    <2>2. \A c \in Clients : pc[c] \in ClientLabels
      BY <1>1, WorkFacts DEF ClientLabels
    <2>3. \A w \in Works : pc[w][1] \in WorkSteps(w)
      BY <1>1, WorkFacts DEF WorkSteps
    <2> QED
      BY <2>1, <2>2, <2>3 DEF ShapeInv
  <1>3. \A s \in Carriers, t \in Ends : ~Leads(s, t)
    BY <1>1, WorkFacts DEF Leads, Idle
  <1>4. LeadInv
    BY <1>1, <1>3 DEF LeadInv
  <1>5. ConfigInv
    BY <1>1, WorkFacts DEF ConfigInv, At, Idle
  <1>6. AnswerInv
    <2>1. Answering = {}
      BY <1>1, WorkFacts DEF Answering
    <2>2. Owed = 0
      BY <1>1, <1>3, WorkFacts DEF Owed, EnderLeads
    <2> QED
      BY <1>1, <2>1, <2>2, FS_EmptySet DEF AnswerInv
  <1> QED
    BY <1>2, <1>4, <1>5, <1>6 DEF EndInv

LEMMA ComingLeads ==
    ASSUME LeadInv, NEW t \in Ends
    PROVE  Coming(t) <=> \E s \in Carriers : Leads(s, t)
  <1>1. Leads(Queue, t) => state \in Claims[t]
    <2> SUFFICES ASSUME Leads(Queue, t)
                 PROVE  state \in Claims[t]
      OBVIOUS
    <2>1. state = EndState[t] /\ t # "up_timeout"
      BY CarrierFacts, OnlyLead DEF Leads, Queue, Run
    <2> QED
      BY <2>1 DEF Claims, EndState, Ends
  <1>2. ASSUME Coming(t)
        PROVE  \E s \in Carriers : Leads(s, t)
    <2>1. CASE pc[t][1] \in {"wait", "off"}
      BY <2>1, CarrierFacts DEF Leads
    <2>2. CASE t # "up_timeout" /\ t \in queued /\ state \in Claims[t]
      BY <2>2, CarrierFacts DEF Leads
    <2>3. CASE \E c \in Clients : At(c, "queue", t)
      BY <2>3, CarrierFacts DEF Leads, At
    <2> QED
      BY <1>2, <2>1, <2>2, <2>3 DEF Coming
  <1>3. ASSUME NEW s \in Carriers, Leads(s, t)
        PROVE  Coming(t)
    <2>1. CASE pc[t][1] \in {"wait", "off"}
      BY <2>1 DEF Coming
    <2>2. CASE s = Queue /\ t # "up_timeout" /\ t \in queued
      BY <1>1, <1>3, <2>2 DEF Coming
    <2>3. CASE \E c \in Clients : pc[c] = <<"queue", t>>
      BY <2>3 DEF Coming, At
    <2> QED
      BY <1>3, <2>1, <2>2, <2>3 DEF Leads
  <1> QED
    BY <1>2, <1>3

LEMMA EndMeaning ==
    ASSUME EndInv
    PROVE  OneEnd
  <1>1. OneTeardown
    <2> DEFINE S == {t \in DOMAIN CancelList : Coming(t)}
    <2>1. S = {t \in Ends : \E s \in Carriers : Leads(s, t)}
      BY WorkFacts, ComingLeads DEF EndInv
    <2>2. CASE state \in Leaving
      <3>1. PICK s0 \in Carriers, t0 \in Ends : Leads(s0, t0)
        BY <2>2 DEF EndInv, LeadInv
      <3>2. S = {t0}
        BY <2>1, <3>1, OnlyLead DEF EndInv
      <3> HIDE DEF S
      <3>3. Cardinality(S) = 1
        BY <3>2, FS_Singleton
      <3> QED
        BY <2>2, <3>3 DEF OneTeardown, S
    <2>3. CASE state \notin Leaving
      <3>1. S = {}
        BY <2>1, <2>3, NoLead DEF EndInv
      <3> HIDE DEF S
      <3>2. Cardinality(S) = 0
        BY <3>1, FS_EmptySet
      <3> QED
        BY <2>3, <3>2 DEF OneTeardown, S
    <2> QED
      BY <2>2, <2>3
  <1>2. AnsweredOnce
    <2> DEFINE E == {t \in Enders : Coming(t)}
    <2>1. E = {t \in Enders : \E s \in Carriers : Leads(s, t)}
      BY WorkFacts, ComingLeads DEF EndInv
    <2>2. Cardinality(E) = IF EnderLeads THEN 1 ELSE 0
      <3>1. CASE EnderLeads
        <4>1. PICK s0 \in Carriers, t0 \in Enders : Leads(s0, t0)
          BY <3>1 DEF EnderLeads
        <4>2. E = {t0}
          BY <2>1, <4>1, OnlyLead, WorkFacts DEF EndInv
        <4> HIDE DEF E
        <4> QED
          BY <3>1, <4>2, FS_Singleton
      <3>2. CASE ~EnderLeads
        <4>1. E = {}
          BY <2>1, <3>2 DEF EnderLeads
        <4> HIDE DEF E
        <4> QED
          BY <3>2, <4>1, FS_EmptySet
      <3> QED
        BY <3>1, <3>2
    <2> HIDE DEF E
    <2>3. due = (IF state \in Rising THEN 1 ELSE 0)
                    + Cardinality(E) + Cardinality(Answering)
      BY <2>2 DEF EndInv, AnswerInv, Owed
    <2> QED
      BY <2>3 DEF AnsweredOnce, E, Answering
  <1> QED
    BY <1>1, <1>2 DEF OneEnd

(* Where a fault only enables its interrupt again, every leaving link has    *)
(* exactly one teardown on its way and any other link none, and every        *)
(* accepted up is owed exactly one up callback: the races of the timeout,    *)
(* the cancel, the failing works and the success for data_lock               *)
(* (sl_core_link_cancel, sl_core_link_up_fail,                               *)
(* sl_core_hw_link_up_timeout_work, sl_core_hw_link_up_success) each have    *)
(* one winner, for any number of clients, ups and failing steps.             *)
THEOREM OneEndAlways ==
    ASSUME FaultPaths \subseteq {"rearm"}
    PROVE  Spec => []OneEnd
  <1>1. Init => EndInv
    BY EndOfInit
  <1>2. EndInv /\ [Next]_vars => EndInv'
    BY EndOfNext
  <1>3. EndInv => OneEnd
    BY EndMeaning
  <1> QED
    BY <1>1, <1>2, <1>3, PTL DEF Spec

-----------------------------------------------------------------------------
(* The link as the service it promises *)

RestStates == {"UNCONFIGURED", "CONFIGURING", "CONFIGURED", "DOWN"}

(* What a step of a work that is no teardown may do to the link *)
WorkMove ==
    /\ due' = due
    /\ \/ state' = state
       \/ state \in Rising /\ state' \in Rising \cup {"UP"} \cup Leaving

LEMMA PhaseFacts ==
    /\ state \in Rising  <=> Phase = "rising"
    /\ state \in Leaving <=> Phase = "leaving"
    /\ state = "UP"      <=> Phase = "up"
    /\ state \in RestStates   => Phase = "down"
    /\ state' = state => Phase' = Phase
  BY DEF Phase, Rising, Leaving, RestStates

LEMMA PhaseFactsNext ==
    /\ state' \in Rising  <=> Phase' = "rising"
    /\ state' \in Leaving <=> Phase' = "leaving"
    /\ state' = "UP"      <=> Phase' = "up"
    /\ state' \in RestStates   => Phase' = "down"
  BY DEF Phase, Rising, Leaving, RestStates

LEMMA ServiceMoves ==
    ASSUME WorkMove
    PROVE  [Service!Next]_(Service!vars)
  <1>1. CASE state' = state \/ state' \in Rising
    <2>1. Phase' = Phase /\ due' = due
      BY <1>1, PhaseFacts, PhaseFactsNext DEF WorkMove
    <2> QED
      BY <2>1 DEF Service!vars
  <1>2. CASE state \in Rising /\ state' = "UP"
    <2>1. Phase = "rising" /\ Phase' = "up" /\ due' = due
      BY <1>2, PhaseFacts, PhaseFactsNext DEF WorkMove
    <2> QED
      BY <2>1 DEF Service!Next, Service!Move
  <1>3. CASE state \in Rising /\ state' \in Leaving
    <2>1. Phase = "rising" /\ Phase' = "leaving" /\ due' = due
      BY <1>3, PhaseFacts, PhaseFactsNext DEF WorkMove
    <2> QED
      BY <2>1 DEF Service!Next, Service!Move
  <1> QED
    BY <1>1, <1>2, <1>3 DEF WorkMove

LEMMA FailMoves ==
    ASSUME NEW w, NEW tm, FailUp(w, tm)
    PROVE  WorkMove
  BY DEF FailUp, UpFail, WorkMove, Leaving

LEMMA EnterMoves ==
    ASSUME NEW w, NEW states, NEW l, NEW tm, Enter(w, states, l, tm)
    PROVE  WorkMove
  BY DEF Enter, ghosts, WorkMove

(* No work but a teardown leads a link from one phase to another that an     *)
(* attempt does not have.                                                    *)
LEMMA MovesOfWork ==
    ASSUME EndInv, FaultPaths \subseteq {"rearm"}, NEW t \in Works, LinkWork(t)
    PROVE  WorkMove \/ (t \in Ends /\ Teardown(t))
  <1>1. CASE AnUpStartWork
    BY <1>1, FailMoves, EnterMoves DEF AnUpStartWork, WorkMove
  <1>2. CASE AnUpWork
    BY <1>2, FailMoves, EnterMoves DEF AnUpWork, WorkMove, ghosts
  <1>3. CASE AnUpDoneWork
    BY <1>3, FailMoves, EnterMoves DEF AnUpDoneWork, WorkMove, ghosts
  <1>4. CASE UpAfterAnStart(t)
    BY <1>4, FailMoves DEF UpAfterAnStart, WorkMove, ghosts, Rising
  <1>5. CASE UpStartWork
    BY <1>5, FailMoves, EnterMoves DEF UpStartWork, WorkMove, ghosts
  <1>6. CASE UpWork
    BY <1>6, FailMoves, EnterMoves DEF UpWork, WorkMove, ghosts
  <1>7. ASSUME NEW tm, BeginWork(t, tm)
        PROVE  WorkMove
    BY <1>7, EnterMoves DEF BeginWork, WorkMove, ghosts
  <1>8. CASE CheckWork(t)
    <2>1. UpAld => UNCHANGED state \/ (state \in Rising /\ state' \in Leaving)
      BY DEF UpAld, UpFail, Leaving
    <2> QED
      BY <1>8, <2>1, FailMoves, EnterMoves DEF CheckWork, WorkMove, ghosts
  <1>9. CASE UpSuccess(t)
    BY <1>9, FailMoves DEF UpSuccess, WorkMove, ghosts, Rising
  <1>10. CASE MonitorTake(t) \/ Rearm(t)
    BY <1>10 DEF MonitorTake, Rearm, WorkMove, ghosts
  <1>11. CASE t \in FaultWorks /\ (FaultWork(t) \/ FaultLinkDown(t))
    <2>1. t = "fault"
      BY <1>11, LinkOptionsAssumption
         DEF FaultWorks, Works, AnWorks, SettleWorks, PollWorks, Enders
    <2>2. ~FaultLinkDown(t)
      BY <2>1, WorkFacts DEF FaultLinkDown, At, EndInv, ShapeInv, WorkSteps
    <2>3. ~FaultRecover
      BY DEF FaultRecover
    <2> QED
      BY <1>11, <2>1, <2>2, <2>3 DEF FaultWork, FaultTake, WorkMove, ghosts
  <1> QED
    BY <1>1, <1>2, <1>3, <1>4, <1>5, <1>6, <1>7, <1>8, <1>9, <1>10, <1>11,
       WorkFacts DEF LinkWork

LEMMA MovesOfTeardown ==
    ASSUME EndInv, NEW t \in Ends, Teardown(t)
    PROVE  [Service!Next]_(Service!vars)
  <1>1. CASE TeardownStart(t)
    <2>1. WorkMove
      BY <1>1 DEF TeardownStart, Claims, WorkMove, Leaving, ghosts
    <2> QED
      BY <2>1, ServiceMoves
  <1>2. CASE TeardownWait(t)
    <2>1. WorkMove
      BY <1>2 DEF TeardownWait, WorkMove, ghosts
    <2> QED
      BY <2>1, ServiceMoves
  <1>3. CASE TeardownEnd(t)
    <2>1. Leads(Run, t) /\ state' = "DOWN" /\ due' = due
      BY <1>3 DEF TeardownEnd, At, Leads
    <2>2. state \in Leaving
      BY <2>1, CarrierFacts, OnlyLead DEF EndInv
    <2>3. Phase = "leaving" /\ Phase' = "down"
      BY <2>1, <2>2, PhaseFacts, PhaseFactsNext DEF RestStates
    <2> QED
      BY <2>1, <2>3 DEF Service!Next, Service!Move
  <1> QED
    BY <1>1, <1>2, <1>3 DEF Teardown

LEMMA MovesOfCallback ==
    ASSUME EndInv, NEW t \in Works, Callback(t)
    PROVE  [Service!Next]_(Service!vars)
  <1>1. ~FaultStart(t)
    BY WorkFacts DEF FaultStart, At, EndInv, ShapeInv, WorkSteps, CallbackSteps
  <1>2. state' = state
    BY <1>1 DEF Callback, CallbackReturns
  <1>3. Phase' = Phase
    BY <1>2, PhaseFacts
  <1>4. CASE pc[t][1] = "up_cb" /\ due' = due - 1
    <2>1. t \in Answering
      BY <1>4 DEF Answering
    <2>2. Cardinality(Answering) \in Nat /\ Cardinality(Answering) # 0
      BY <2>1, FS_EmptySet, FS_CardinalityType DEF EndInv, AnswerInv
    <2>3. due > IF state \in Rising THEN 1 ELSE 0
      BY <2>2 DEF EndInv, AnswerInv, Owed
    <2>4. due > IF Phase = "rising" THEN 1 ELSE 0
      BY <2>3, PhaseFacts
    <2> QED
      BY <1>3, <1>4, <2>4 DEF Service!Next, Service!Answer
  <1>5. CASE due' = due
    BY <1>3, <1>5 DEF Service!vars
  <1> QED
    BY <1>1, <1>4, <1>5 DEF Callback, CallbackReturns

LEMMA MovesOfClient ==
    ASSUME EndInv, NEW c \in Clients, ClientCall(c) \/ ClientStep(c)
    PROVE  [Service!Next]_(Service!vars)
  <1>1. CASE UpAccept(c)
    <2>1. state \in RestStates /\ state' \in Rising /\ due' = due + 1
      BY <1>1 DEF UpAccept, RestStates, Rising
    <2>2. Phase = "down" /\ Phase' = "rising"
      BY <2>1, PhaseFacts, PhaseFactsNext
    <2> QED
      BY <2>1, <2>2 DEF Service!Next, Service!Accept
  <1>2. CASE (CancelAccept(c) \/ DownAccept(c)) /\ UNCHANGED ghosts
    <2>1. /\ state \in Rising \/ state = "UP"
          /\ state' \in Leaving /\ due' = due
      BY <1>2 DEF CancelAccept, DownAccept, Leaving, ghosts
    <2>2. /\ Phase = "rising" \/ Phase = "up"
          /\ Phase' = "leaving"
      BY <2>1, PhaseFacts, PhaseFactsNext
    <2> QED
      BY <2>1, <2>2 DEF Service!Next, Service!Move
  <1>3. CASE ConfigSet(c) \/ ConfigEnd(c)
    <2>1. state \in RestStates /\ state' \in RestStates /\ due' = due
      BY <1>3 DEF ConfigSet, ConfigEnd, EndInv, ConfigInv, RestStates, ghosts
    <2>2. Phase = "down" /\ Phase' = "down"
      BY <2>1, PhaseFacts, PhaseFactsNext
    <2> QED
      BY <2>1, <2>2 DEF Service!vars
  <1>4. CASE UpCmd(c, Idle) \/ QueueEnd(c)
    <2>1. WorkMove
      BY <1>4 DEF UpCmd, UpFail, QueueEnd, WorkMove, Leaving, ghosts
    <2> QED
      BY <2>1, ServiceMoves
  <1> QED
    BY <1>1, <1>2, <1>3, <1>4 DEF ClientCall, ClientStep

LEMMA MovesOfNext ==
    ASSUME EndInv, FaultPaths \subseteq {"rearm"}, [Next]_vars
    PROVE  [Service!Next]_(Service!vars)
  <1>1. CASE \E c \in Clients : ClientCall(c) \/ ClientStep(c)
    BY <1>1, MovesOfClient
  <1>2. CASE \E t \in Works : WorkStep(t)
    BY <1>2, MovesOfWork, MovesOfTeardown, MovesOfCallback, ServiceMoves
       DEF WorkStep
  <1>3. CASE \/ \E tm \in DOMAIN TimerWork : TimerExpire(tm)
             \/ \E i \in DOMAIN IntrWork : IntrFire(i)
             \/ UNCHANGED vars
    <2>1. WorkMove
      BY <1>3 DEF TimerExpire, IntrFire, vars, WorkMove, ghosts
    <2> QED
      BY <2>1, ServiceMoves
  <1> QED
    BY <1>1, <1>2, <1>3 DEF Next

(* Under the same assumption the core link implements LinkService: a link    *)
(* goes up only through an attempt, comes to rest only through a teardown    *)
(* (sl_core_hw_link_up_success, the four teardown works), and answers every  *)
(* accepted up once and not before its attempt is decided.                   *)
THEOREM LinkServiceKept ==
    ASSUME FaultPaths \subseteq {"rearm"}
    PROVE  Spec => KeepsLinkService
  <1>1. Init => Service!Init
    <2>1. Init => state \in RestStates /\ due = 0
      BY DEF Init, RestStates
    <2> QED
      BY <2>1, PhaseFacts DEF Service!Init
  <1>2. Init => EndInv
    BY EndOfInit
  <1>3. EndInv /\ [Next]_vars => EndInv'
    BY EndOfNext
  <1>4. EndInv /\ [Next]_vars => [Service!Next]_(Service!vars)
    BY MovesOfNext
  <1> QED
    BY <1>1, <1>2, <1>3, <1>4, PTL DEF Spec, KeepsLinkService, Service!Spec

-----------------------------------------------------------------------------
(* The ranges of the variables.  What a link does not have is neither queued *)
(* nor armed nor enabled.                                                    *)

Timers == {"link_up", "up_check", "high_power"}
              \cup (IF Settle THEN {"fec_settle", "fec_check"} ELSE {})

Intrs == LinkIntrs \cup (IF TRUE \in Autoneg THEN {"an_page"} ELSE {})

RangeInv ==
    /\ state \in States
    /\ queued \subseteq Works
    /\ armed \subseteq Timers /\ intrOn \subseteq Intrs
    /\ recovering \in BOOLEAN /\ autoneg \in Autoneg
    /\ loose \in BOOLEAN /\ due \in Int /\ ups \in Nat /\ fails \in 0..MaxFails

(* A step of t, to one of the labels of the core *)
Steps(t) == (\E l \in Labels : Go(t, l)) \/ UNCHANGED pc

LEMMA LabelFacts ==
    /\ Idle \in Labels
    /\ \A s \in {"idle", "up_cmd", "config", "begin", "serdes", "decide", "after_an",
                 "off", "check", "enable", "publish", "rearm", "poll", "fault_start",
                 "fault_cb", "down_cb"} : Step(s) \in Labels
    /\ \A s \in {"up", "read"} : <<"up_cb", s>> \in Labels
    /\ \A w \in {"up_cancel", "down"} : <<"queue", w>> \in Labels
    /\ \A w \in Works : <<"wait", w>> \in Labels
  BY DEF Labels, Idle, Step

LEMMA QueueRange ==
    ASSUME RangeInv, NEW w \in Works, QueueWork(w)
    PROVE  queued' \subseteq Works
  BY DEF RangeInv, QueueWork

LEMMA UpFailRange ==
    ASSUME RangeInv, UpFail
    PROVE  state' \in States /\ queued' \subseteq Works
  <1>1. "up_fail" \in Works
    BY DEF Works, Enders
  <1> QED
    BY <1>1, QueueRange DEF UpFail, RangeInv, States, Leaving

LEMMA FailureRange ==
    ASSUME RangeInv, Failure
    PROVE  fails' \in 0..MaxFails
  BY LinkBoundsAssumption DEF RangeInv, Failure

(* The lists of a teardown *)
LEMMA CatWorks ==
    ASSUME NEW s \in Seq(Works), NEW u \in Seq(Works)
    PROVE  s \o u \in Seq(Works) /\ Len(s \o u) = Len(s) + Len(u)
  OBVIOUS

LEMMA ListWorks ==
    ASSUME NEW t \in Ends
    PROVE  CancelList[t] \in Seq(Works) /\ Len(CancelList[t]) > 0
  <1>1. \A w : Existing(w) \in Seq(Works)
    BY DEF Existing
  <1>2. {"fault", "up_start", "up", "up_check", "up_fail", "up_cancel", "up_timeout",
         "up_intr"} \subseteq Works
    BY DEF Works, Enders
  <1>3. WatchWorks \in Seq(Works) /\ Len(WatchWorks) > 0
    <2>1. <<"fault">> \in Seq(Works) /\ Len(<<"fault">>) = 1
      BY <1>2
    <2> DEFINE a == Existing("high_ser") \o Existing("llr_max") \o Existing("llr_starved")
    <2>2. a \in Seq(Works)
      BY <1>1, CatWorks
    <2> HIDE DEF a
    <2>3. a \o <<"fault">> \in Seq(Works) /\ Len(a \o <<"fault">>) > 0
      BY <2>1, <2>2, CatWorks
    <2> DEFINE b == a \o <<"fault">>
    <2> HIDE DEF b
    <2>4. b \in Seq(Works) /\ Len(b) > 0
      BY <2>3 DEF b
    <2>5. /\ b \o Existing("pml_poll") \in Seq(Works)
          /\ Len(b \o Existing("pml_poll")) > 0
      BY <1>1, <2>4, CatWorks
    <2>6. WatchWorks = (b \o Existing("pml_poll")) \o Existing("lane_degrade")
      BY DEF WatchWorks, a, b
    <2> QED
      BY <1>1, <2>5, <2>6, CatWorks
  <1>4. StartWorks \in Seq(Works) /\ CheckWorks \in Seq(Works)
    <2>1. <<"up_start", "up">> \in Seq(Works) /\ <<"up_check">> \in Seq(Works)
      BY <1>2
    <2> QED
      BY <1>1, <2>1, CatWorks DEF StartWorks, CheckWorks
  <1>5. CASE t = "down"
    BY <1>3, <1>5 DEF CancelList
  <1>6. ASSUME NEW a \in Seq(Works)
        PROVE  a \o WatchWorks \in Seq(Works) /\ Len(a \o WatchWorks) > 0
    BY <1>3, <1>6, CatWorks
  <1>7. CASE t = "up_timeout"
    <2>1. <<"up_fail", "up_cancel", "up_intr">> \in Seq(Works)
      BY <1>2
    <2>2. StartWorks \o CheckWorks \o <<"up_fail", "up_cancel", "up_intr">> \in Seq(Works)
      BY <1>4, <2>1, CatWorks
    <2> QED
      BY <1>6, <1>7, <2>2 DEF CancelList
  <1>8. CASE t = "up_cancel"
    <2>1. <<"up_timeout">> \in Seq(Works) /\ <<"up_fail", "up_intr">> \in Seq(Works)
      BY <1>2
    <2>2. StartWorks \o <<"up_timeout">> \o CheckWorks \o <<"up_fail", "up_intr">> \in Seq(Works)
      BY <1>4, <2>1, CatWorks
    <2> QED
      BY <1>6, <1>8, <2>2 DEF CancelList
  <1>9. CASE t = "up_fail"
    <2>1. <<"up_timeout">> \in Seq(Works) /\ <<"up_cancel", "up_intr">> \in Seq(Works)
      BY <1>2
    <2>2. StartWorks \o <<"up_timeout">> \o CheckWorks \o <<"up_cancel", "up_intr">> \in Seq(Works)
      BY <1>4, <2>1, CatWorks
    <2> QED
      BY <1>6, <1>9, <2>2 DEF CancelList
  <1> QED
    BY <1>5, <1>7, <1>8, <1>9 DEF Ends

LEMMA NextInList ==
    ASSUME NEW t \in Ends, NEW w \in DOMAIN Following[t]
    PROVE  Following[t][w] \in Works \cup {"none"}
  <1> DEFINE list == CancelList[t]
             last(i) == IF i = Len(list) THEN "none" ELSE list[i + 1]
  <1>1. list \in Seq(Works)
    BY ListWorks
  <1>2. Following[t] = [v \in {list[i] : i \in DOMAIN list} |->
                          last(CHOOSE i \in DOMAIN list : list[i] = v)]
    BY WorkFacts DEF Following
  <1> HIDE DEF list
  <1>3. w \in {list[i] : i \in DOMAIN list}
    BY <1>2
  <1>4. PICK i \in DOMAIN list : i = CHOOSE j \in DOMAIN list : list[j] = w
    BY <1>3
  <1>5. Following[t][w] = last(i)
    BY <1>2, <1>3, <1>4
  <1> QED
    BY <1>1, <1>5

LEMMA FirstInList ==
    ASSUME NEW t \in Ends
    PROVE  CancelList[t][1] \in Works
  BY ListWorks

-----------------------------------------------------------------------------
(* The steps keep the ranges. *)

LEMMA WorkNames ==
    /\ {"up_start", "up", "up_intr", "up_check", "up_timeout", "up_cancel", "up_fail",
        "down", "fault"} \cup Monitors \subseteq Works
    /\ TRUE \in Autoneg <=> "an_up_start" \in Works
    /\ TRUE \in Autoneg <=> "an_up" \in Works
    /\ TRUE \in Autoneg <=> "an_up_done" \in Works
    /\ Settle <=> "fec_settle" \in Works
    /\ Settle <=> "fec_check" \in Works
    /\ "recover" \in FaultPaths <=> "pml_poll" \in Works
  BY LinkOptionsAssumption DEF Works, AnWorks, SettleWorks, PollWorks, Enders

LEMMA WatchRange ==
    /\ LinkIntrs \subseteq Intrs
    /\ \A i : SuccessIntrs[i] \in Intrs \/ i \notin DOMAIN SuccessIntrs
  <1>1. LinkIntrs \subseteq Intrs
    BY DEF Intrs
  <1>2. "fault" \in LinkIntrs /\ Monitors \subseteq LinkIntrs
    BY DEF LinkIntrs, WatchIntrs
  <1>3. ASSUME NEW w \in {"high_ser", "llr_max", "llr_starved"}
        PROVE  Existing(w) \in Seq(LinkIntrs)
    <2>1. w \in Works => w \in Monitors
      BY DEF Works, AnWorks, SettleWorks, PollWorks, Enders
    <2> QED
      BY <1>2, <2>1 DEF Existing
  <1>4. <<"fault">> \in Seq(LinkIntrs)
    BY <1>2
  <1>5. /\ Existing("high_ser") \in Seq(LinkIntrs) /\ Existing("llr_max") \in Seq(LinkIntrs)
        /\ Existing("llr_starved") \in Seq(LinkIntrs)
    BY <1>3
  <1>6. SuccessIntrs \in Seq(LinkIntrs)
    BY <1>4, <1>5 DEF SuccessIntrs
  <1> QED
    BY <1>1, <1>6

LEMMA TimerRange ==
    ASSUME RangeInv, NEW tm \in Timers
    PROVE  Started(tm) \subseteq Timers
  BY DEF RangeInv, Started

LEMMA RangeOfFailUp ==
    ASSUME RangeInv, NEW w, NEW tm, FailUp(w, tm), intrOn' \subseteq Intrs
    PROVE  RangeInv' /\ Steps(w)
  <1>1. state' \in States /\ queued' \subseteq Works /\ fails' \in 0..MaxFails
    BY UpFailRange, FailureRange DEF FailUp
  <1>2. armed' \subseteq Timers /\ UNCHANGED <<recovering, autoneg, loose, due, ups>>
    BY DEF FailUp, RangeInv, link
  <1>3. Steps(w)
    BY LabelFacts DEF FailUp, Steps
  <1> QED
    BY <1>1, <1>2, <1>3 DEF RangeInv

LEMMA RangeOfEnter ==
    ASSUME RangeInv, NEW w, NEW states, NEW l \in Labels, NEW tm, Enter(w, states, l, tm)
    PROVE  RangeInv' /\ Steps(w)
  <1>1. /\ queued' \subseteq Works /\ armed' \subseteq Timers
        /\ UNCHANGED <<state, intrOn, recovering, autoneg, loose, due, ups, fails>>
    BY DEF Enter, Take, RangeInv, link, ghosts
  <1>2. Steps(w)
    BY LabelFacts DEF Enter, Steps
  <1> QED
    BY <1>1, <1>2 DEF RangeInv

(* A step of an attempt: it may queue one more work, start a timer, enable    *)
(* interrupts.                                                               *)
LEMMA RangeOfStep ==
    ASSUME RangeInv, NEW t, NEW l \in Labels, Go(t, l),
           queued' = queued \/ \E w \in Works : QueueWork(w),
           armed' \subseteq Timers, intrOn' \subseteq Intrs,
           state' \in States, fails' = fails, loose' \in BOOLEAN,
           UNCHANGED <<recovering, autoneg, due, ups>>
    PROVE  RangeInv' /\ Steps(t)
  <1>1. queued' \subseteq Works
    BY QueueRange DEF RangeInv
  <1> QED
    BY <1>1 DEF RangeInv, Steps

LEMMA RangeOfAttempt ==
    ASSUME RangeInv, NEW t \in Works,
           \/ t = "an_up_start" /\ AnUpStartWork
           \/ t = "an_up" /\ AnUpWork
           \/ t = "an_up_done" /\ AnUpDoneWork
           \/ t \in {"an_up_start", "an_up_done"} /\ UpAfterAnStart(t)
           \/ t = "up_start" /\ UpStartWork
           \/ t = "up" /\ UpWork
    PROVE  RangeInv' /\ Steps(t)
  <1>1. /\ state \in States /\ armed \subseteq Timers /\ intrOn \subseteq Intrs
        /\ loose \in BOOLEAN /\ "link_up" \in Timers /\ "high_power" \in Timers
        /\ "GOING_UP" \in States
    BY DEF RangeInv, Timers, States, Rising
  <1>2. Started("link_up") \subseteq Timers /\ Started("high_power") \subseteq Timers
    BY <1>1, TimerRange
  <1>3. TRUE \in Autoneg => "an_page" \in Intrs
    BY DEF Intrs
  <1>4. "link_up" \in Intrs
    BY WatchRange DEF LinkIntrs
  <1>5. CASE t = "an_up_start" /\ AnUpStartWork
    <2>1. CASE Enter("an_up_start", {"AN"}, Step("begin"), {})
      BY <1>5, <2>1, LabelFacts, RangeOfEnter
    <2>2. CASE /\ armed' = Started("link_up")
               /\ \/ QueueWork("an_up") /\ Go(t, Idle) /\ UNCHANGED <<state, fails>>
                  \/ Go(t, Step("after_an")) /\ UNCHANGED <<state, queued, fails>>
               /\ UNCHANGED <<intrOn, link, loose, due, ups>>
      <3>1. "an_up" \in Works
        BY <1>5, WorkNames
      <3>2. /\ queued' = queued \/ QueueWork("an_up")
            /\ Go(t, Idle) \/ Go(t, Step("after_an"))
            /\ UNCHANGED <<state, fails, intrOn, recovering, autoneg, loose, due, ups>>
        BY <2>2 DEF link
      <3> QED
        BY <1>1, <1>2, <2>2, <3>1, <3>2, LabelFacts, RangeOfStep
    <2>3. CASE FailUp("an_up_start", {}) /\ UNCHANGED intrOn
      BY <1>1, <1>5, <2>3, RangeOfFailUp
    <2> QED
      BY <1>5, <2>1, <2>2, <2>3 DEF AnUpStartWork
  <1>6. CASE t = "an_up" /\ AnUpWork
    <2>1. CASE Enter("an_up", {"AN"}, Step("serdes"), {})
      BY <1>6, <2>1, LabelFacts, RangeOfEnter
    <2>2. CASE /\ intrOn' = intrOn \cup {"an_page"} /\ Go(t, Idle)
               /\ UNCHANGED <<state, queued, armed, link, ghosts>>
      <3>1. intrOn' \subseteq Intrs
        BY <1>1, <1>3, <1>6, <2>2, WorkNames
      <3>2. UNCHANGED <<state, queued, armed, fails, recovering, autoneg, loose, due, ups>>
        BY <2>2 DEF link, ghosts
      <3> QED
        BY <1>1, <2>2, <3>1, <3>2, LabelFacts, RangeOfStep
    <2>3. CASE FailUp("an_up", {}) /\ intrOn' = intrOn \ {"an_page"}
      <3>1. intrOn' \subseteq Intrs
        BY <1>1, <2>3
      <3> QED
        BY <1>6, <2>3, <3>1, RangeOfFailUp
    <2> QED
      BY <1>6, <2>1, <2>2, <2>3 DEF AnUpWork
  <1>7. CASE t = "an_up_done" /\ AnUpDoneWork
    <2>1. CASE Enter("an_up_done", {"AN"}, Step("decide"), {})
      BY <1>7, <2>1, LabelFacts, RangeOfEnter
    <2>2. CASE /\ \/ intrOn' = intrOn \cup {"an_page"} /\ Go(t, Idle)
                  \/ Go(t, Step("after_an")) /\ UNCHANGED intrOn
               /\ UNCHANGED <<state, queued, armed, link, ghosts>>
      <3>1. intrOn' \subseteq Intrs
        BY <1>1, <1>3, <1>7, <2>2, WorkNames
      <3>2. UNCHANGED <<state, queued, armed, fails, recovering, autoneg, loose, due, ups>>
        BY <2>2 DEF link, ghosts
      <3> QED
        BY <1>1, <2>2, <3>1, <3>2, LabelFacts, RangeOfStep
    <2>3. CASE FailUp("an_up_done", {}) /\ UNCHANGED intrOn
      BY <1>1, <1>7, <2>3, RangeOfFailUp
    <2> QED
      BY <1>7, <2>1, <2>2, <2>3 DEF AnUpDoneWork
  <1>8. CASE UpAfterAnStart(t)
    <2>1. CASE /\ \/ state' = "GOING_UP" /\ Go(t, Step("off")) /\ UNCHANGED armed
                  \/ armed' = armed \ {"link_up"} /\ Go(t, Idle) /\ UNCHANGED state
               /\ UNCHANGED <<queued, intrOn, link, ghosts>>
      <3>1. /\ armed' \subseteq Timers /\ state' \in States
            /\ UNCHANGED <<queued, intrOn, fails, recovering, autoneg, loose, due, ups>>
        BY <1>1, <2>1 DEF link, ghosts
      <3> QED
        BY <1>1, <2>1, <3>1, LabelFacts, RangeOfStep
    <2>2. CASE /\ intrOn' = intrOn \ LinkIntrs /\ QueueWork("up") /\ Go(t, Idle)
               /\ UNCHANGED <<state, armed, link, ghosts>>
      <3>1. /\ intrOn' \subseteq Intrs /\ "up" \in Works
            /\ UNCHANGED <<state, armed, fails, recovering, autoneg, loose, due, ups>>
        BY <1>1, <2>2, WorkNames DEF link, ghosts
      <3> QED
        BY <1>1, <2>2, <3>1, LabelFacts, RangeOfStep
    <2>3. CASE FailUp(t, {"link_up"}) /\ UNCHANGED intrOn
      BY <1>1, <2>3, RangeOfFailUp
    <2> QED
      BY <1>8, <2>1, <2>2, <2>3 DEF UpAfterAnStart
  <1>9. CASE t = "up_start" /\ UpStartWork
    <2>1. CASE Enter("up_start", {"GOING_UP"}, Step("begin"), {})
      BY <1>9, <2>1, LabelFacts, RangeOfEnter
    <2>2. CASE /\ armed' = Started("link_up") /\ Go(t, Step("off"))
               /\ UNCHANGED <<state, queued, intrOn, link, ghosts>>
      <3>1. UNCHANGED <<state, queued, intrOn, fails, recovering, autoneg, loose, due, ups>>
        BY <2>2 DEF link, ghosts
      <3> QED
        BY <1>1, <1>2, <2>2, <3>1, LabelFacts, RangeOfStep
    <2>3. CASE FailUp("up_start", {}) /\ UNCHANGED intrOn
      BY <1>1, <1>9, <2>3, RangeOfFailUp
    <2>4. CASE /\ intrOn' = intrOn \ LinkIntrs
               /\ \/ QueueWork("up") /\ UNCHANGED armed
                  \/ armed' = Started("high_power") /\ UNCHANGED queued
               /\ Go(t, Idle)
               /\ UNCHANGED <<state, link, ghosts>>
      <3>1. /\ intrOn' \subseteq Intrs /\ "up" \in Works /\ armed' \subseteq Timers
            /\ queued' = queued \/ QueueWork("up")
            /\ UNCHANGED <<state, fails, recovering, autoneg, loose, due, ups>>
        BY <1>1, <1>2, <2>4, WorkNames DEF link, ghosts
      <3> QED
        BY <1>1, <2>4, <3>1, LabelFacts, RangeOfStep
    <2> QED
      BY <1>9, <2>1, <2>2, <2>3, <2>4 DEF UpStartWork
  <1>10. CASE t = "up" /\ UpWork
    <2>1. CASE Enter("up", Rising, Step("serdes"), {"link_up"})
      BY <1>10, <2>1, LabelFacts, RangeOfEnter
    <2>2. CASE /\ intrOn' = intrOn \cup {"link_up"} /\ Go(t, Idle)
               /\ UNCHANGED <<state, queued, armed, link, ghosts>>
      <3>1. /\ intrOn' \subseteq Intrs
            /\ UNCHANGED <<state, queued, armed, fails, recovering, autoneg, loose, due, ups>>
        BY <1>1, <1>4, <2>2 DEF link, ghosts
      <3> QED
        BY <1>1, <2>2, <3>1, LabelFacts, RangeOfStep
    <2>3. CASE FailUp("up", {"link_up"}) /\ UNCHANGED intrOn
      BY <1>1, <1>10, <2>3, RangeOfFailUp
    <2> QED
      BY <1>10, <2>1, <2>2, <2>3 DEF UpWork
  <1> QED
    BY <1>5, <1>6, <1>7, <1>8, <1>9, <1>10

LEMMA RangeOfCheck ==
    ASSUME RangeInv, NEW t \in Works,
           \/ t = "up_intr" /\ BeginWork(t, "up_check")
           \/ t = "fec_settle" /\ BeginWork(t, "fec_check")
           \/ t \in {"up_check", "fec_check"} /\ (CheckWork(t) \/ UpSuccess(t))
    PROVE  RangeInv' /\ Steps(t)
  <1>1. /\ state \in States /\ armed \subseteq Timers /\ intrOn \subseteq Intrs
        /\ loose \in BOOLEAN /\ "UP" \in States
    BY DEF RangeInv, States
  <1>2. ASSUME NEW tm \in Timers, BeginWork(t, tm)
        PROVE  RangeInv' /\ Steps(t)
    <2>1. CASE Enter(t, Rising, Step("begin"), {"link_up"})
      BY <2>1, LabelFacts, RangeOfEnter
    <2>2. CASE /\ armed' = Started(tm) /\ Go(t, Idle)
               /\ UNCHANGED <<state, queued, intrOn, link, ghosts>>
      <3>1. /\ armed' \subseteq Timers
            /\ UNCHANGED <<state, queued, intrOn, fails, recovering, autoneg, loose, due, ups>>
        BY <1>2, <2>2, TimerRange DEF link, ghosts
      <3> QED
        BY <1>1, <2>2, <3>1, LabelFacts, RangeOfStep
    <2> QED
      BY <1>2, <2>1, <2>2 DEF BeginWork
  <1>3. "up_check" \in Timers /\ (t = "fec_settle" => "fec_check" \in Timers)
    BY WorkNames DEF Timers
  <1>4. CASE CheckWork(t)
    <2>1. CASE Enter(t, Rising, Step("check"), {"link_up"})
      BY <2>1, LabelFacts, RangeOfEnter
    <2>2. CASE /\ Settle /\ armed' = Started("fec_settle") /\ Go(t, Idle)
               /\ UNCHANGED <<state, queued, intrOn, link, ghosts>>
      <3>1. "fec_settle" \in Timers
        BY <2>2 DEF Timers
      <3>2. /\ armed' \subseteq Timers
            /\ UNCHANGED <<state, queued, intrOn, fails, recovering, autoneg, loose, due, ups>>
        BY <2>2, <3>1, TimerRange DEF link, ghosts
      <3> QED
        BY <1>1, <2>2, <3>2, LabelFacts, RangeOfStep
    <2>3. CASE /\ UpAld /\ armed' = armed \ {"link_up"} /\ Go(t, Step("enable"))
               /\ UNCHANGED <<link, loose, due, ups>>
      <3>1. intrOn' \subseteq Intrs
        <4>1. "lane_degrade" \in Monitors => "lane_degrade" \in Intrs
          BY WatchRange DEF LinkIntrs, WatchIntrs
        <4> QED
          BY <1>1, <2>3, <4>1 DEF UpAld
      <3>2. state' \in States /\ queued' \subseteq Works
        BY <1>1, <2>3, UpFailRange DEF UpAld, RangeInv
      <3>3. fails' \in 0..MaxFails
        BY <2>3, FailureRange DEF UpAld, RangeInv
      <3>4. armed' \subseteq Timers /\ UNCHANGED <<recovering, autoneg, loose, due, ups>>
        BY <1>1, <2>3 DEF link
      <3>5. Steps(t)
        BY <2>3, LabelFacts DEF Steps
      <3> QED
        BY <3>1, <3>2, <3>3, <3>4, <3>5 DEF RangeInv
    <2>4. CASE FailUp(t, {"link_up"}) /\ UNCHANGED intrOn
      BY <1>1, <2>4, RangeOfFailUp
    <2> QED
      BY <1>4, <2>1, <2>2, <2>3, <2>4 DEF CheckWork
  <1>5. CASE UpSuccess(t)
    <2>1. CASE /\ intrOn' = intrOn \cup {SuccessIntrs[i] : i \in DOMAIN SuccessIntrs}
               /\ Go(t, Step("publish"))
               /\ UNCHANGED <<state, queued, armed, link, ghosts>>
      <3>1. intrOn' \subseteq Intrs
        BY <1>1, <2>1, WatchRange
      <3>2. UNCHANGED <<state, queued, armed, fails, recovering, autoneg, loose, due, ups>>
        BY <2>1 DEF link, ghosts
      <3> QED
        BY <1>1, <2>1, <3>1, <3>2, LabelFacts, RangeOfStep
    <2>2. CASE /\ \E n \in 1..Len(SuccessIntrs) :
                    intrOn' = intrOn \cup {SuccessIntrs[i] : i \in 1..(n - 1)}
               /\ FailUp(t, {})
      <3>1. PICK n \in 1..Len(SuccessIntrs) :
               intrOn' = intrOn \cup {SuccessIntrs[i] : i \in 1..(n - 1)}
        BY <2>2
      <3>2. \A i \in 1..(n - 1) : i \in DOMAIN SuccessIntrs
        <4>1. SuccessIntrs \in Seq(Works)
          BY WorkNames DEF SuccessIntrs, Existing
        <4> QED
          BY <4>1
      <3>3. intrOn' \subseteq Intrs
        BY <1>1, <3>1, <3>2, WatchRange
      <3> QED
        BY <2>2, <3>3, RangeOfFailUp
    <2>3. CASE /\ \/ state' = "UP" /\ Go(t, <<"up_cb", "up">>)
                  \/ Go(t, Idle) /\ UNCHANGED state
               /\ UNCHANGED <<kernel, link, ghosts>>
      <3>1. state' \in States
        BY <1>1, <2>3
      <3>2. UNCHANGED <<queued, armed, intrOn, fails, recovering, autoneg, loose, due, ups>>
        BY <2>3 DEF kernel, link, ghosts
      <3> QED
        BY <1>1, <2>3, <3>1, <3>2, LabelFacts, RangeOfStep
    <2> QED
      BY <1>5, <2>1, <2>2, <2>3 DEF UpSuccess
  <1> QED
    BY <1>2, <1>3, <1>4, <1>5

LEMMA RangeOfTeardown ==
    ASSUME RangeInv, NEW t \in Ends, Teardown(t)
    PROVE  RangeInv' /\ Steps(t)
  <1>1. /\ state \in States /\ armed \subseteq Timers /\ intrOn \subseteq Intrs
        /\ queued \subseteq Works /\ loose \in BOOLEAN
        /\ "DOWN" \in States /\ "TIMEOUT" \in States
    BY DEF RangeInv, States, Leaving
  <1>2. CASE TeardownStart(t)
    <2>1. /\ state' \in States /\ armed' \subseteq Timers /\ intrOn' \subseteq Intrs
          /\ queued' \subseteq Works
          /\ UNCHANGED <<fails, recovering, autoneg, loose, due, ups>>
      BY <1>1, <1>2 DEF TeardownStart, link, ghosts
    <2>2. Steps(t)
      <3>1. Go(t, <<"wait", CancelList[t][1]>>) \/ Go(t, Idle)
        BY <1>2 DEF TeardownStart
      <3> QED
        BY <3>1, FirstInList, LabelFacts DEF Steps
    <2> QED
      BY <2>1, <2>2 DEF RangeInv
  <1>3. CASE TeardownWait(t)
    <2>1. PICK w \in DOMAIN Following[t] :
             IF Following[t][w] = "none"
             THEN Go(t, Step("off")) /\ UNCHANGED <<queued, intrOn>>
             ELSE /\ Cancel(t, "wait", Following[t][w])
                  /\ intrOn' = IF Following[t][w] = "up_intr" THEN intrOn \ LinkIntrs
                                                              ELSE intrOn
      BY <1>3 DEF TeardownWait
    <2>2. queued' \subseteq Works /\ intrOn' \subseteq Intrs
      BY <1>1, <2>1 DEF Cancel
    <2>3. Steps(t)
      BY <2>1, NextInList, LabelFacts DEF Cancel, Steps
    <2>4. UNCHANGED <<state, armed, fails, recovering, autoneg, loose, due, ups>>
      BY <1>3 DEF TeardownWait, link, ghosts
    <2> QED
      BY <1>1, <2>2, <2>3, <2>4 DEF RangeInv
  <1>4. CASE TeardownEnd(t)
    <2>1. state' = "DOWN" /\ loose' \in BOOLEAN
      BY <1>1, <1>4 DEF TeardownEnd
    <2>2. UNCHANGED <<queued, armed, intrOn, fails, recovering, autoneg, due, ups>>
      BY <1>4 DEF TeardownEnd, kernel, link
    <2>3. Steps(t)
      BY <1>4, LabelFacts DEF TeardownEnd, Steps
    <2> QED
      BY <1>1, <2>1, <2>2, <2>3 DEF RangeInv
  <1> QED
    BY <1>2, <1>3, <1>4 DEF Teardown

LEMMA RangeOfWatch ==
    ASSUME RangeInv, NEW t \in Works,
           \/ t \in Monitors /\ (MonitorTake(t) \/ Rearm(t))
           \/ t \in FaultWorks /\ (FaultWork(t) \/ Rearm(t) \/ FaultLinkDown(t))
    PROVE  RangeInv' /\ Steps(t)
  <1>1. /\ state \in States /\ armed \subseteq Timers /\ intrOn \subseteq Intrs
        /\ queued \subseteq Works /\ loose \in BOOLEAN /\ "DOWN" \in States
    BY DEF RangeInv, States
  <1>2. "fault" \in Intrs /\ Monitors \subseteq Intrs
    BY WatchRange DEF LinkIntrs, WatchIntrs
  <1>3. CASE MonitorTake(t)
    <2>1. /\ queued' \subseteq Works
          /\ UNCHANGED <<state, armed, intrOn, fails, recovering, autoneg, loose, due, ups>>
      BY <1>1, <1>3 DEF MonitorTake, Take, link, ghosts
    <2>2. Steps(t)
      BY <1>3, LabelFacts DEF MonitorTake, Steps
    <2> QED
      BY <2>1, <2>2 DEF RangeInv
  <1>4. CASE Rearm(t)
    <2>1. (IF t = "pml_poll" THEN "fault" ELSE t) \in Intrs
      BY <1>2 DEF FaultWorks
    <2>2. intrOn' \subseteq Intrs /\ loose' \in BOOLEAN
      BY <1>1, <1>4, <2>1 DEF Rearm
    <2>3. UNCHANGED <<state, queued, armed, fails, recovering, autoneg, due, ups>>
      BY <1>4 DEF Rearm, link
    <2>4. Steps(t)
      BY <1>4, LabelFacts DEF Rearm, Steps
    <2> QED
      BY <2>2, <2>3, <2>4 DEF RangeInv
  <1>5. CASE t = "fault" /\ FaultTake
    <2>1. /\ queued' \subseteq Works
          /\ UNCHANGED <<state, armed, intrOn, fails, recovering, autoneg, loose, due, ups>>
      BY <1>1, <1>5 DEF FaultTake, Take, link, ghosts
    <2>2. Steps(t)
      BY <1>5, LabelFacts DEF FaultTake, Steps
    <2> QED
      BY <2>1, <2>2 DEF RangeInv
  <1>6. CASE t = "fault" /\ FaultRecover
    <2>1. "pml_poll" \in Works
      BY <1>6, WorkNames DEF FaultRecover
    <2>2. queued' \subseteq Works /\ recovering' \in BOOLEAN /\ autoneg' = autoneg
      BY <1>1, <1>6, <2>1 DEF FaultRecover, RangeInv, link
    <2>3. UNCHANGED <<state, armed, intrOn, fails, loose, due, ups>>
      BY <1>6 DEF FaultRecover, ghosts
    <2>4. Steps(t)
      BY <1>6, LabelFacts DEF FaultRecover, Steps
    <2> QED
      BY <2>2, <2>3, <2>4 DEF RangeInv
  <1>7. CASE t = "pml_poll" /\ PmlRecPollWork
    <2>1. /\ queued' \subseteq Works /\ recovering' \in BOOLEAN
          /\ UNCHANGED <<state, armed, intrOn, fails, autoneg, loose, due, ups>>
      BY <1>1, <1>7 DEF PmlRecPollWork, Take, RangeInv, kernel, link, ghosts
    <2>2. Steps(t)
      BY <1>7, LabelFacts DEF PmlRecPollWork, Steps
    <2> QED
      BY <2>1, <2>2 DEF RangeInv
  <1>8. CASE FaultLinkDown(t)
    <2>1. /\ state' = "DOWN"
          /\ UNCHANGED <<queued, armed, intrOn, fails, recovering, autoneg, loose, due, ups>>
      BY <1>8 DEF FaultLinkDown, kernel, link, ghosts
    <2>2. Steps(t)
      BY <1>8, LabelFacts DEF FaultLinkDown, Steps
    <2> QED
      BY <1>1, <2>1, <2>2 DEF RangeInv
  <1> QED
    BY <1>3, <1>4, <1>5, <1>6, <1>7, <1>8 DEF FaultWork

LEMMA RangeOfLinkWork ==
    ASSUME RangeInv, NEW t \in Works, LinkWork(t)
    PROVE  RangeInv' /\ Steps(t)
  BY RangeOfAttempt, RangeOfCheck, RangeOfTeardown, RangeOfWatch, WorkFacts DEF LinkWork

LEMMA RangeOfFaultStart ==
    ASSUME RangeInv, NEW t, FaultStart(t)
    PROVE  RangeInv' /\ Steps(t)
  <1>1. /\ state' \in States /\ intrOn' \subseteq Intrs
        /\ UNCHANGED <<queued, armed, fails, recovering, autoneg, loose, due, ups>>
    BY DEF FaultStart, RangeInv, States, Leaving, link, ghosts
  <1>2. Steps(t)
    BY LabelFacts DEF FaultStart, Steps
  <1> QED
    BY <1>1, <1>2 DEF RangeInv

LEMMA RangeOfTimer ==
    ASSUME RangeInv, NEW tm \in DOMAIN TimerWork, TimerExpire(tm)
    PROVE  RangeInv' /\ UNCHANGED pc
  <1>1. tm \in Timers
    BY DEF TimerExpire, RangeInv
  <1>2. TimerWork[tm] \in Works
    BY <1>1, WorkNames DEF Timers, TimerWork
  <1>3. queued' \subseteq Works
    BY <1>2, QueueRange DEF TimerExpire
  <1>4. /\ armed' \subseteq Timers
        /\ UNCHANGED <<state, pc, intrOn, recovering, autoneg, loose, due, ups, fails>>
    BY DEF TimerExpire, RangeInv, link, ghosts
  <1> QED
    BY <1>3, <1>4 DEF RangeInv

LEMMA RangeOfIntr ==
    ASSUME RangeInv, NEW i \in DOMAIN IntrWork, IntrFire(i)
    PROVE  RangeInv' /\ UNCHANGED pc
  <1>1. i \in Intrs
    BY DEF IntrFire, RangeInv
  <1>2. IntrWork[i] \in Works
    <2>1. CASE i = "link_up" \/ i = "an_page"
      BY <1>1, <2>1, WorkNames, LinkOptionsAssumption
         DEF Intrs, LinkIntrs, WatchIntrs, IntrWork
    <2>2. CASE i \notin {"link_up", "an_page"}
      <3>1. IntrWork[i] = i
        BY <2>2 DEF IntrWork
      <3>2. i \in Monitors \cup {"fault"}
        BY <1>1, <2>2 DEF Intrs, LinkIntrs, WatchIntrs
      <3> QED
        BY <3>1, <3>2, WorkNames
    <2> QED
      BY <2>1, <2>2
  <1>3. queued' \subseteq Works
    BY <1>2, QueueRange DEF IntrFire
  <1>4. /\ intrOn' \subseteq Intrs /\ loose' \in BOOLEAN
        /\ UNCHANGED <<state, pc, armed, recovering, autoneg, due, ups, fails>>
    BY DEF IntrFire, RangeInv, link
  <1> QED
    BY <1>3, <1>4 DEF RangeInv

(* The calls, for a client or from a callback *)
LEMMA RangeOfAccept ==
    ASSUME RangeInv, NEW t, UpAccept(t)
    PROVE  RangeInv' /\ Steps(t)
  <1>1. /\ state' \in States /\ due' \in Int /\ ups' \in Nat
        /\ UNCHANGED <<queued, armed, intrOn, recovering, autoneg, loose, fails>>
    BY DEF UpAccept, RangeInv, States, Rising, kernel, link
  <1>2. Steps(t)
    BY LabelFacts DEF UpAccept, Steps
  <1> QED
    BY <1>1, <1>2 DEF RangeInv

LEMMA RangeOfTake ==
    ASSUME RangeInv, NEW t, CancelAccept(t) \/ DownAccept(t),
           UNCHANGED <<kernel, link, ghosts>>
    PROVE  RangeInv' /\ Steps(t)
  <1>1. /\ state' \in States
        /\ UNCHANGED <<queued, armed, intrOn, recovering, autoneg, loose, due, ups, fails>>
    BY DEF CancelAccept, DownAccept, States, Leaving, kernel, link, ghosts
  <1>2. Steps(t)
    BY LabelFacts DEF CancelAccept, DownAccept, Steps
  <1> QED
    BY <1>1, <1>2 DEF RangeInv

LEMMA RangeOfUpCmd ==
    ASSUME RangeInv, NEW t, NEW l, UpCmd(t, l)
    PROVE  RangeInv'
  <1>1. UNCHANGED <<armed, intrOn, recovering, autoneg, due, ups>>
    BY DEF UpCmd, link
  <1>2. CASE /\ QueueWork(IF autoneg THEN "an_up_start" ELSE "up_start")
             /\ loose' \in BOOLEAN
             /\ UNCHANGED <<state, fails>>
    <2>1. (IF autoneg THEN "an_up_start" ELSE "up_start") \in Works
      BY WorkNames DEF RangeInv
    <2>2. queued' \subseteq Works
      BY <1>2, <2>1, QueueRange DEF RangeInv
    <2> QED
      BY <1>1, <1>2, <2>2 DEF RangeInv
  <1>3. CASE Failure /\ UpFail /\ UNCHANGED loose
    BY <1>1, <1>3, UpFailRange, FailureRange DEF RangeInv
  <1>4. \A x \in BOOLEAN : (loose \/ x) \in BOOLEAN
    BY DEF RangeInv
  <1> QED
    BY <1>2, <1>3, <1>4 DEF UpCmd

LEMMA RangeOfClient ==
    ASSUME RangeInv, NEW c \in Clients, ConfigSet(c) \/ ConfigEnd(c) \/ QueueEnd(c)
    PROVE  RangeInv' /\ Steps(c)
  <1>1. CASE ConfigSet(c) \/ ConfigEnd(c)
    <2>1. /\ state' \in States /\ autoneg' \in Autoneg
          /\ UNCHANGED <<queued, armed, intrOn, recovering, loose, due, ups, fails>>
      BY <1>1 DEF ConfigSet, ConfigEnd, RangeInv, States, kernel, link, ghosts
    <2>2. Steps(c)
      BY <1>1, LabelFacts DEF ConfigSet, ConfigEnd, Steps
    <2> QED
      BY <2>1, <2>2 DEF RangeInv
  <1>2. CASE QueueEnd(c)
    <2>1. queued' \subseteq Works
      BY <1>2, WorkNames, QueueRange DEF QueueEnd
    <2>2. UNCHANGED <<state, armed, intrOn, recovering, autoneg, loose, due, ups, fails>>
      BY <1>2 DEF QueueEnd, link, ghosts
    <2>3. Steps(c)
      BY <1>2, LabelFacts DEF QueueEnd, Steps
    <2> QED
      BY <2>1, <2>2, <2>3 DEF RangeInv
  <1> QED
    BY <1>1, <1>2

LEMMA RangeOfCallback ==
    ASSUME RangeInv, NEW t \in Works, Callback(t)
    PROVE  RangeInv' /\ Steps(t)
  <1>1. CASE CallbackReturns(t)
    <2>1. /\ due' \in Int
          /\ UNCHANGED <<state, queued, armed, intrOn, recovering, autoneg, loose, ups,
                         fails>>
      BY <1>1 DEF CallbackReturns, RangeInv, kernel, link
    <2>2. Steps(t)
      BY <1>1, LabelFacts DEF CallbackReturns, AfterUpCallback, Steps
    <2> QED
      BY <2>1, <2>2 DEF RangeInv
  <1> QED
    BY <1>1, RangeOfFaultStart DEF Callback

(* The labels: a step of the core leads to one of them. *)
PcInv == pc \in [Threads -> Labels]

LEMMA LabelStep ==
    ASSUME PcInv, NEW t, Steps(t)
    PROVE  PcInv'
  BY DEF PcInv, Steps, Go

LEMMA TypeOfNext ==
    ASSUME RangeInv, PcInv, [Next]_vars
    PROVE  RangeInv' /\ PcInv'
  <1>1. ASSUME NEW c \in Clients, ClientCall(c)
        PROVE  RangeInv' /\ PcInv'
    BY <1>1, RangeOfAccept, RangeOfTake, RangeOfClient, LabelStep DEF ClientCall
  <1>2. ASSUME NEW c \in Clients, ClientStep(c)
        PROVE  RangeInv' /\ PcInv'
    <2>1. CASE UpCmd(c, Idle)
      <3>1. Steps(c)
        BY <2>1, LabelFacts DEF UpCmd, Steps
      <3> QED
        BY <2>1, <3>1, RangeOfUpCmd, LabelStep
    <2> QED
      BY <1>2, <2>1, RangeOfClient, LabelStep DEF ClientStep
  <1>3. ASSUME NEW t \in Works, WorkStep(t)
        PROVE  RangeInv' /\ PcInv'
    BY <1>3, RangeOfLinkWork, RangeOfCallback, LabelStep DEF WorkStep
  <1>4. ASSUME NEW tm \in DOMAIN TimerWork, TimerExpire(tm)
        PROVE  RangeInv' /\ PcInv'
    BY <1>4, RangeOfTimer DEF PcInv
  <1>5. ASSUME NEW i \in DOMAIN IntrWork, IntrFire(i)
        PROVE  RangeInv' /\ PcInv'
    BY <1>5, RangeOfIntr DEF PcInv
  <1>6. CASE UNCHANGED vars
    BY <1>6 DEF vars, RangeInv, PcInv
  <1> QED
    BY <1>1, <1>2, <1>3, <1>4, <1>5, <1>6 DEF Next

LEMMA RangeOfInit ==
    ASSUME Init
    PROVE  RangeInv /\ PcInv
  <1>1. RangeInv
    <2>1. fails \in 0..MaxFails
      BY LinkBoundsAssumption DEF Init
    <2>2. state \in States /\ autoneg \in Autoneg /\ due \in Int /\ ups \in Nat
      BY DEF Init, States
    <2> QED
      BY <2>1, <2>2 DEF Init, RangeInv
  <1>2. PcInv
    BY LabelFacts DEF Init, PcInv
  <1> QED
    BY <1>1, <1>2

(* Every variable of the link stays in its range (TypeOK), whatever a fault  *)
(* leads to: a thread is at a step of the functions modelled, and no timer,  *)
(* interrupt or work is used that the link was not given.                    *)
THEOREM CoreTypeAlways ==
    Spec => []TypeOK
  <1>1. RangeInv /\ PcInv => TypeOK
    <2>1. Timers \subseteq DOMAIN TimerWork /\ Intrs \subseteq DOMAIN IntrWork
      BY DEF Timers, TimerWork, Intrs, IntrWork, LinkIntrs, WatchIntrs
    <2> QED
      BY <2>1 DEF RangeInv, PcInv, TypeOK
  <1> QED
    BY <1>1, RangeOfInit, TypeOfNext, PTL DEF Spec

-----------------------------------------------------------------------------
(* Nothing outlives an attempt.  A teardown cancels the works of its list in *)
(* the order of this rank, and each work hands over to one of a higher rank. *)

Rank == [an_up_start |-> 1, an_up |-> 2, an_up_done |-> 3, up_start |-> 4, up |-> 5,
         up_timeout |-> 6, up_check |-> 7, fec_settle |-> 8, fec_check |-> 9,
         up_fail |-> 10, up_cancel |-> 11, up_intr |-> 12, high_ser |-> 13,
         llr_max |-> 14, llr_starved |-> 15, fault |-> 16, pml_poll |-> 17,
         lane_degrade |-> 18]

Elems(s) == {s[i] : i \in DOMAIN s}

Listed(t) == Elems(CancelList[t])

(* The list is in the order of the ranks, which are in lo + 1 .. hi. *)
InOrder(s, lo, hi) ==
    /\ s \in Seq(DOMAIN Rank)
    /\ \A i \in 1..Len(s) : lo < Rank[s[i]] /\ Rank[s[i]] <= hi
    /\ \A i, j \in 1..Len(s) : i < j => Rank[s[i]] < Rank[s[j]]

LEMMA RankNat == \A w \in DOMAIN Rank : Rank[w] \in 1..18
  BY DEF Rank

LEMMA CatOrder ==
    ASSUME NEW s, NEW u, NEW a \in Nat, NEW b \in Nat, NEW c \in Nat, NEW d \in Nat,
           InOrder(s, a, b), InOrder(u, c, d), b <= c, a <= c, b <= d
    PROVE  InOrder(s \o u, a, d) /\ Elems(s \o u) = Elems(s) \cup Elems(u)
  <1> DEFINE z == s \o u
             m == Len(s)
  <1>0. s \in Seq(DOMAIN Rank) /\ u \in Seq(DOMAIN Rank)
    BY DEF InOrder
  <1>1. /\ z \in Seq(DOMAIN Rank) /\ Len(z) = m + Len(u) /\ m \in Nat /\ Len(u) \in Nat
        /\ DOMAIN z = 1..Len(z) /\ DOMAIN s = 1..m /\ DOMAIN u = 1..Len(u)
    BY <1>0
  <1>2. /\ \A i \in 1..m : z[i] = s[i]
        /\ \A i \in 1..Len(z) : i > m => z[i] = u[i - m] /\ i - m \in 1..Len(u)
        /\ \A i \in 1..Len(u) : z[i + m] = u[i] /\ i + m \in 1..Len(z)
    BY <1>0, <1>1
  <1> HIDE DEF z, m
  <1>3. /\ \A i \in 1..m : Rank[s[i]] \in Nat /\ a < Rank[s[i]] /\ Rank[s[i]] <= b
        /\ \A i \in 1..Len(u) : Rank[u[i]] \in Nat /\ c < Rank[u[i]] /\ Rank[u[i]] <= d
    <2>1. /\ \A i \in 1..m : s[i] \in DOMAIN Rank
          /\ \A i \in 1..Len(u) : u[i] \in DOMAIN Rank
      BY <1>0, <1>1
    <2>2. /\ \A i \in 1..m : a < Rank[s[i]] /\ Rank[s[i]] <= b
          /\ \A i \in 1..Len(u) : c < Rank[u[i]] /\ Rank[u[i]] <= d
      BY DEF InOrder, m
    <2>3. \A w \in DOMAIN Rank : Rank[w] \in Nat
      BY RankNat
    <2> QED
      BY <2>1, <2>2, <2>3
  <1>4. ASSUME NEW i \in 1..Len(z)
        PROVE  a < Rank[z[i]] /\ Rank[z[i]] <= d
    <2>1. CASE i <= m
      <3>1. i \in 1..m
        BY <2>1, <1>1
      <3> QED
        BY <3>1, <1>2, <1>3
    <2>2. CASE i > m
      <3>1. z[i] = u[i - m] /\ i - m \in 1..Len(u)
        BY <2>2, <1>2
      <3> QED
        BY <3>1, <1>3
    <2> QED
      BY <2>1, <2>2, <1>1
  <1>5. ASSUME NEW i \in 1..Len(z), NEW j \in 1..Len(z), i < j
        PROVE  Rank[z[i]] < Rank[z[j]]
    <2>1. CASE j <= m
      <3>1. i \in 1..m /\ j \in 1..m
        BY <1>5, <2>1, <1>1
      <3> QED
        BY <3>1, <1>2, <1>5 DEF InOrder, m
    <2>2. CASE i > m
      <3>1. /\ z[i] = u[i - m] /\ i - m \in 1..Len(u)
            /\ z[j] = u[j - m] /\ j - m \in 1..Len(u)
            /\ i - m < j - m
        BY <1>5, <2>2, <1>1, <1>2
      <3> QED
        BY <3>1 DEF InOrder
    <2>3. CASE i <= m /\ j > m
      <3>1. i \in 1..m /\ z[i] = s[i]
        BY <2>3, <1>1, <1>2
      <3>2. j - m \in 1..Len(u) /\ z[j] = u[j - m]
        BY <2>3, <1>2
      <3> QED
        BY <3>1, <3>2, <1>3
    <2> QED
      BY <2>1, <2>2, <2>3, <1>1
  <1>6. Elems(z) = Elems(s) \cup Elems(u)
    <2>1. Elems(z) \subseteq Elems(s) \cup Elems(u)
      <3> SUFFICES ASSUME NEW i \in 1..Len(z)
                   PROVE  z[i] \in Elems(s) \cup Elems(u)
        BY <1>1 DEF Elems
      <3>1. CASE i <= m
        <4>1. i \in 1..m /\ z[i] = s[i]
          BY <3>1, <1>1, <1>2
        <4> QED
          BY <4>1, <1>1 DEF Elems
      <3>2. CASE i > m
        BY <3>2, <1>1, <1>2 DEF Elems
      <3> QED
        BY <3>1, <3>2, <1>1
    <2>2. Elems(s) \subseteq Elems(z)
      <3> SUFFICES ASSUME NEW i \in 1..m
                   PROVE  s[i] \in Elems(z)
        BY <1>1 DEF Elems
      <3>1. i \in DOMAIN z
        BY <1>1
      <3> QED
        BY <3>1, <1>2 DEF Elems
    <2>3. Elems(u) \subseteq Elems(z)
      BY <1>1, <1>2 DEF Elems
    <2> QED
      BY <2>1, <2>2, <2>3
  <1> QED
    BY <1>1, <1>4, <1>5, <1>6 DEF InOrder, z

LEMMA OneInOrder ==
    ASSUME NEW w \in DOMAIN Rank, NEW s \in {<<>>, <<w>>}
    PROVE  InOrder(s, Rank[w] - 1, Rank[w]) /\ Elems(s) = (IF s = <<>> THEN {} ELSE {w})
  <1>1. CASE s = <<>>
    BY <1>1 DEF InOrder, Elems
  <1>2. CASE s = <<w>>
    <2>1. s \in Seq(DOMAIN Rank) /\ Len(s) = 1 /\ s[1] = w /\ DOMAIN s = {1} /\ s # <<>>
      BY <1>2
    <2>2. Rank[w] \in Nat
      BY RankNat
    <2> QED
      BY <2>1, <2>2 DEF InOrder, Elems
  <1> QED
    BY <1>1, <1>2

LEMMA ExistingOrder ==
    ASSUME NEW w \in DOMAIN Rank
    PROVE  InOrder(Existing(w), Rank[w] - 1, Rank[w]) /\ Elems(Existing(w)) = {w} \cap Works
  <1>1. Existing(w) \in {<<>>, <<w>>} /\ (Existing(w) = <<>> <=> w \notin Works)
    BY DEF Existing
  <1> QED
    BY <1>1, OneInOrder

LEMMA SingleOrder ==
    ASSUME NEW w \in DOMAIN Rank
    PROVE  InOrder(<<w>>, Rank[w] - 1, Rank[w]) /\ Elems(<<w>>) = {w}
  BY OneInOrder

LEMMA PairOrder ==
    ASSUME NEW v \in DOMAIN Rank, NEW w \in DOMAIN Rank, Rank[v] < Rank[w]
    PROVE  InOrder(<<v, w>>, Rank[v] - 1, Rank[w]) /\ Elems(<<v, w>>) = {v, w}
  <1>1. /\ <<v, w>> \in Seq(DOMAIN Rank) /\ Len(<<v, w>>) = 2 /\ DOMAIN <<v, w>> = {1, 2}
        /\ <<v, w>>[1] = v /\ <<v, w>>[2] = w
    OBVIOUS
  <1>2. Rank[v] \in Nat /\ Rank[w] \in Nat
    BY RankNat
  <1> DEFINE s == <<v, w>>
  <1> HIDE DEF s
  <1>3. /\ s \in Seq(DOMAIN Rank) /\ Len(s) = 2 /\ DOMAIN s = {1, 2} /\ s[1] = v /\ s[2] = w
    BY <1>1 DEF s
  <1>4. InOrder(s, Rank[v] - 1, Rank[w])
    BY <1>2, <1>3 DEF InOrder
  <1>5. Elems(s) = {v, w}
    BY <1>3 DEF Elems
  <1> QED
    BY <1>4, <1>5 DEF s

LEMMA TripleOrder ==
    ASSUME NEW v \in DOMAIN Rank, NEW w \in DOMAIN Rank, NEW x \in DOMAIN Rank,
           Rank[v] < Rank[w], Rank[w] < Rank[x]
    PROVE  InOrder(<<v, w, x>>, Rank[v] - 1, Rank[x]) /\ Elems(<<v, w, x>>) = {v, w, x}
  <1> DEFINE s == <<v, w, x>>
  <1>1. /\ s \in Seq(DOMAIN Rank) /\ Len(s) = 3 /\ DOMAIN s = {1, 2, 3}
        /\ s[1] = v /\ s[2] = w /\ s[3] = x
    OBVIOUS
  <1>2. Rank[v] \in Nat /\ Rank[w] \in Nat /\ Rank[x] \in Nat
    BY RankNat
  <1> HIDE DEF s
  <1>3. InOrder(s, Rank[v] - 1, Rank[x])
    BY <1>1, <1>2 DEF InOrder
  <1>4. Elems(s) = {v, w, x}
    BY <1>1 DEF Elems
  <1> QED
    BY <1>3, <1>4 DEF s

(* A list may be put between wider bounds. *)
LEMMA WiderOrder ==
    ASSUME NEW s, NEW a \in Nat, NEW b \in Nat, NEW c \in Nat, NEW d \in Nat,
           InOrder(s, b, c), a <= b, c <= d
    PROVE  InOrder(s, a, d)
  <1>1. s \in Seq(DOMAIN Rank) /\ DOMAIN s = 1..Len(s)
    BY DEF InOrder
  <1>2. \A i \in 1..Len(s) : Rank[s[i]] \in Nat /\ b < Rank[s[i]] /\ Rank[s[i]] <= c
    <2>1. \A i \in 1..Len(s) : s[i] \in DOMAIN Rank
      BY <1>1
    <2>2. \A w \in DOMAIN Rank : Rank[w] \in Nat
      BY RankNat
    <2> QED
      BY <2>1, <2>2 DEF InOrder
  <1>3. \A i \in 1..Len(s) : a < Rank[s[i]] /\ Rank[s[i]] <= d
    BY <1>2
  <1> QED
    BY <1>3 DEF InOrder

LEMMA RankOf ==
    /\ Rank["an_up_start"] = 1 /\ Rank["an_up"] = 2 /\ Rank["an_up_done"] = 3
    /\ Rank["up_start"] = 4 /\ Rank["up"] = 5 /\ Rank["up_timeout"] = 6
    /\ Rank["up_check"] = 7 /\ Rank["fec_settle"] = 8 /\ Rank["fec_check"] = 9
    /\ Rank["up_fail"] = 10 /\ Rank["up_cancel"] = 11 /\ Rank["up_intr"] = 12
    /\ Rank["high_ser"] = 13 /\ Rank["llr_max"] = 14 /\ Rank["llr_starved"] = 15
    /\ Rank["fault"] = 16 /\ Rank["pml_poll"] = 17 /\ Rank["lane_degrade"] = 18
    /\ DOMAIN Rank = {"an_up_start", "an_up", "an_up_done", "up_start", "up", "up_timeout",
                      "up_check", "fec_settle", "fec_check", "up_fail", "up_cancel",
                      "up_intr", "high_ser", "llr_max", "llr_starved", "fault",
                      "pml_poll", "lane_degrade"}
  BY DEF Rank

LEMMA WatchOrder ==
    /\ InOrder(WatchWorks, 12, 18)
    /\ Elems(WatchWorks) = {"fault"} \cup
          ({"high_ser", "llr_max", "llr_starved", "pml_poll", "lane_degrade"} \cap Works)
  <1>1. /\ InOrder(Existing("high_ser"), 12, 13)
        /\ InOrder(Existing("llr_max"), 13, 14)
        /\ InOrder(Existing("llr_starved"), 14, 15)
        /\ InOrder(Existing("pml_poll"), 16, 17)
        /\ InOrder(Existing("lane_degrade"), 17, 18)
        /\ \A w \in {"high_ser", "llr_max", "llr_starved", "pml_poll", "lane_degrade"} :
              Elems(Existing(w)) = {w} \cap Works
    <2>1. \A w \in DOMAIN Rank : InOrder(Existing(w), Rank[w] - 1, Rank[w])
                                 /\ Elems(Existing(w)) = {w} \cap Works
      BY ExistingOrder
    <2>2. /\ Rank["high_ser"] - 1 = 12 /\ Rank["llr_max"] - 1 = 13
          /\ Rank["llr_starved"] - 1 = 14 /\ Rank["pml_poll"] - 1 = 16
          /\ Rank["lane_degrade"] - 1 = 17
      BY RankOf
    <2> QED
      BY <2>1, <2>2, RankOf
  <1>2. InOrder(<<"fault">>, 15, 16) /\ Elems(<<"fault">>) = {"fault"}
    BY SingleOrder, RankOf
  <1> DEFINE a == Existing("high_ser") \o Existing("llr_max")
             b == a \o Existing("llr_starved")
             c == b \o <<"fault">>
             d == c \o Existing("pml_poll")
  <1>3. InOrder(a, 12, 14) /\ Elems(a) = Elems(Existing("high_ser")) \cup Elems(Existing("llr_max"))
    BY <1>1, CatOrder
  <1>4. InOrder(b, 12, 15) /\ Elems(b) = Elems(a) \cup Elems(Existing("llr_starved"))
    BY <1>1, <1>3, CatOrder
  <1>5. InOrder(c, 12, 16) /\ Elems(c) = Elems(b) \cup {"fault"}
    BY <1>2, <1>4, CatOrder
  <1>6. InOrder(d, 12, 17) /\ Elems(d) = Elems(c) \cup Elems(Existing("pml_poll"))
    BY <1>1, <1>5, CatOrder
  <1>7. /\ InOrder(d \o Existing("lane_degrade"), 12, 18)
        /\ Elems(d \o Existing("lane_degrade")) = Elems(d) \cup Elems(Existing("lane_degrade"))
    BY <1>1, <1>6, CatOrder
  <1>8. WatchWorks = d \o Existing("lane_degrade")
    BY DEF WatchWorks
  <1> HIDE DEF a, b, c, d
  <1> QED
    BY <1>1, <1>3, <1>4, <1>5, <1>6, <1>7, <1>8

LEMMA StartOrder ==
    /\ InOrder(StartWorks, 0, 5)
    /\ Elems(StartWorks) = {"up_start", "up"} \cup
                              ({"an_up_start", "an_up", "an_up_done"} \cap Works)
  <1>1. /\ InOrder(Existing("an_up_start"), 0, 1)
        /\ InOrder(Existing("an_up"), 1, 2)
        /\ InOrder(Existing("an_up_done"), 2, 3)
        /\ \A w \in {"an_up_start", "an_up", "an_up_done"} :
              Elems(Existing(w)) = {w} \cap Works
    <2>1. \A w \in DOMAIN Rank : InOrder(Existing(w), Rank[w] - 1, Rank[w])
                                 /\ Elems(Existing(w)) = {w} \cap Works
      BY ExistingOrder
    <2>2. /\ Rank["an_up_start"] - 1 = 0 /\ Rank["an_up"] - 1 = 1
          /\ Rank["an_up_done"] - 1 = 2
      BY RankOf
    <2> QED
      BY <2>1, <2>2, RankOf
  <1>2. InOrder(<<"up_start", "up">>, 3, 5) /\ Elems(<<"up_start", "up">>) = {"up_start", "up"}
    BY PairOrder, RankOf
  <1> DEFINE a == Existing("an_up_start") \o Existing("an_up")
             b == a \o Existing("an_up_done")
  <1>3. InOrder(a, 0, 2) /\ Elems(a) = Elems(Existing("an_up_start")) \cup Elems(Existing("an_up"))
    BY <1>1, CatOrder
  <1>4. InOrder(b, 0, 3) /\ Elems(b) = Elems(a) \cup Elems(Existing("an_up_done"))
    BY <1>1, <1>3, CatOrder
  <1>5. /\ InOrder(b \o <<"up_start", "up">>, 0, 5)
        /\ Elems(b \o <<"up_start", "up">>) = Elems(b) \cup {"up_start", "up"}
    BY <1>2, <1>4, CatOrder
  <1>6. StartWorks = b \o <<"up_start", "up">>
    BY DEF StartWorks
  <1> HIDE DEF a, b
  <1> QED
    BY <1>1, <1>3, <1>4, <1>5, <1>6

LEMMA CheckOrder ==
    /\ InOrder(CheckWorks, 6, 9)
    /\ Elems(CheckWorks) = {"up_check"} \cup ({"fec_settle", "fec_check"} \cap Works)
  <1>1. /\ InOrder(Existing("fec_settle"), 7, 8)
        /\ InOrder(Existing("fec_check"), 8, 9)
        /\ \A w \in {"fec_settle", "fec_check"} : Elems(Existing(w)) = {w} \cap Works
    <2>1. \A w \in DOMAIN Rank : InOrder(Existing(w), Rank[w] - 1, Rank[w])
                                 /\ Elems(Existing(w)) = {w} \cap Works
      BY ExistingOrder
    <2>2. Rank["fec_settle"] - 1 = 7 /\ Rank["fec_check"] - 1 = 8
      BY RankOf
    <2> QED
      BY <2>1, <2>2, RankOf
  <1>2. InOrder(<<"up_check">>, 6, 7) /\ Elems(<<"up_check">>) = {"up_check"}
    BY SingleOrder, RankOf
  <1> DEFINE a == <<"up_check">> \o Existing("fec_settle")
  <1>3. InOrder(a, 6, 8) /\ Elems(a) = {"up_check"} \cup Elems(Existing("fec_settle"))
    BY <1>1, <1>2, CatOrder
  <1>4. /\ InOrder(a \o Existing("fec_check"), 6, 9)
        /\ Elems(a \o Existing("fec_check")) = Elems(a) \cup Elems(Existing("fec_check"))
    BY <1>1, <1>3, CatOrder
  <1>5. CheckWorks = a \o Existing("fec_check")
    BY DEF CheckWorks
  <1> HIDE DEF a
  <1> QED
    BY <1>1, <1>3, <1>4, <1>5

LEMMA ListOrder ==
    ASSUME NEW t \in Ends
    PROVE  /\ InOrder(CancelList[t], IF t = "down" THEN 12 ELSE 0, 18)
           /\ Listed(t) = Elems(WatchWorks) \cup
                 (IF t = "down" THEN {}
                  ELSE (Elems(StartWorks) \cup Elems(CheckWorks) \cup {"up_intr"} \cup Enders)
                          \ {t})
  <1>1. CASE t = "down"
    BY <1>1, WatchOrder DEF CancelList, Listed
  <1>2. CASE t = "up_timeout"
    <2> DEFINE a == StartWorks \o CheckWorks
               e == <<"up_fail", "up_cancel", "up_intr">>
               b == a \o e
    <2>1. InOrder(a, 0, 9) /\ Elems(a) = Elems(StartWorks) \cup Elems(CheckWorks)
      BY StartOrder, CheckOrder, CatOrder
    <2>2. InOrder(e, 9, 12) /\ Elems(e) = {"up_fail", "up_cancel", "up_intr"}
      <3>1. /\ "up_fail" \in DOMAIN Rank /\ "up_cancel" \in DOMAIN Rank
            /\ "up_intr" \in DOMAIN Rank
            /\ Rank["up_fail"] = 10 /\ Rank["up_cancel"] = 11 /\ Rank["up_intr"] = 12
        BY RankOf
      <3>2. /\ InOrder(e, Rank["up_fail"] - 1, Rank["up_intr"])
            /\ Elems(e) = {"up_fail", "up_cancel", "up_intr"}
        BY <3>1, TripleOrder
      <3> QED
        BY <3>1, <3>2
    <2>3. InOrder(b, 0, 12) /\ Elems(b) = Elems(a) \cup Elems(e)
      BY <2>1, <2>2, CatOrder
    <2>4. /\ InOrder(b \o WatchWorks, 0, 18)
          /\ Elems(b \o WatchWorks) = Elems(b) \cup Elems(WatchWorks)
      BY <2>3, WatchOrder, CatOrder
    <2>6. CancelList[t] = b \o WatchWorks
      BY <1>2 DEF CancelList
    <2>7. Elems(StartWorks) \cap Enders = {} /\ Elems(CheckWorks) \cap Enders = {}
      BY StartOrder, CheckOrder DEF Enders
    <2> HIDE DEF a, b, e
    <2>8. Listed(t) = Elems(WatchWorks) \cup
             (Elems(StartWorks) \cup Elems(CheckWorks) \cup {"up_fail", "up_cancel", "up_intr"})
      BY <2>1, <2>2, <2>3, <2>4, <2>6 DEF Listed
    <2> QED
      BY <1>2, <2>4, <2>6, <2>7, <2>8 DEF Enders
  <1>3. CASE t \in {"up_cancel", "up_fail"}
    <2>v. PICK v \in {"up_cancel", "up_fail"} : v # t
      OBVIOUS
    <2> DEFINE a == StartWorks \o <<"up_timeout">>
               b == a \o CheckWorks
               e == <<v, "up_intr">>
               c == b \o e
    <2>0. InOrder(<<"up_timeout">>, 5, 6) /\ Elems(<<"up_timeout">>) = {"up_timeout"}
      BY SingleOrder, RankOf
    <2>1. InOrder(a, 0, 6) /\ Elems(a) = Elems(StartWorks) \cup {"up_timeout"}
      BY <2>0, StartOrder, CatOrder
    <2>2. InOrder(b, 0, 9) /\ Elems(b) = Elems(a) \cup Elems(CheckWorks)
      BY <2>1, CheckOrder, CatOrder
    <2>3. InOrder(e, 9, 12) /\ Elems(e) = {v, "up_intr"}
      <3>1. /\ v \in DOMAIN Rank /\ "up_intr" \in DOMAIN Rank /\ Rank[v] \in {10, 11}
            /\ Rank["up_intr"] = 12
        BY RankOf
      <3>2. InOrder(e, Rank[v] - 1, 12) /\ Elems(e) = {v, "up_intr"}
        BY <3>1, PairOrder
      <3> HIDE DEF e
      <3> QED
        BY <3>1, <3>2, WiderOrder
    <2>4. InOrder(c, 0, 12) /\ Elems(c) = Elems(b) \cup Elems(e)
      BY <2>2, <2>3, CatOrder
    <2>5. /\ InOrder(c \o WatchWorks, 0, 18)
          /\ Elems(c \o WatchWorks) = Elems(c) \cup Elems(WatchWorks)
      BY <2>4, WatchOrder, CatOrder
    <2>6. CancelList[t] = c \o WatchWorks
      BY <1>3, <2>v DEF CancelList
    <2>7. Elems(StartWorks) \cap Enders = {} /\ Elems(CheckWorks) \cap Enders = {}
      BY StartOrder, CheckOrder DEF Enders
    <2> HIDE DEF a, b, c, e
    <2>8. Listed(t) = Elems(WatchWorks) \cup
             (Elems(StartWorks) \cup Elems(CheckWorks) \cup {"up_timeout", v, "up_intr"})
      BY <2>1, <2>2, <2>3, <2>4, <2>5, <2>6 DEF Listed
    <2> QED
      BY <1>3, <2>v, <2>5, <2>6, <2>7, <2>8 DEF Enders
  <1> QED
    BY <1>1, <1>2, <1>3 DEF Ends

Chain == AttemptWorks \ Enders
Watches == Works \ (AttemptWorks \cup {"down"})

(* What a teardown cancels *)
LEMMA ListedFacts ==
    /\ \A t \in Ends : Watches \subseteq Listed(t)
    /\ \A t \in Enders : AttemptWorks \ {t} \subseteq Listed(t)
    /\ Listed("down") \subseteq Watches
    /\ \A w \in Watches : Rank[w] > 12 /\ Rank[w] \in Nat
    /\ \A w \in Works \ {"down"} : Rank[w] \in Nat
    /\ \A t \in Ends : Listed(t) \subseteq Works \ {"down"}
  <1>1. Works \ {"down"} \subseteq DOMAIN Rank
    BY LinkOptionsAssumption, RankOf DEF Works, AnWorks, SettleWorks, PollWorks, Enders
  <1>2. \A w \in Works \ {"down"} : Rank[w] \in Nat
    <2>1. \A w \in DOMAIN Rank : Rank[w] \in Nat
      BY RankNat
    <2> QED
      BY <1>1, <2>1
  <1>3. Watches = Monitors \cup {"fault"} \cup ({"pml_poll"} \cap Works)
    BY LinkOptionsAssumption
       DEF Watches, AttemptWorks, Works, AnWorks, SettleWorks, PollWorks, Enders
  <1>4. /\ Watches = Elems(WatchWorks)
        /\ {"high_ser", "llr_max", "llr_starved", "lane_degrade"} \cap Works = Monitors
    <2>1. {"high_ser", "llr_max", "llr_starved", "lane_degrade"} \cap Works = Monitors
      BY LinkOptionsAssumption DEF Works, AnWorks, SettleWorks, PollWorks, Enders
    <2> QED
      BY <1>3, <2>1, WatchOrder
  <1>5. \A w \in Watches : Rank[w] > 12
    BY <1>3, RankOf, LinkOptionsAssumption
  <1>6. AttemptWorks = Elems(StartWorks) \cup Elems(CheckWorks) \cup {"up_intr"} \cup Enders
    <2>1. AttemptWorks = ({"an_up_start", "an_up", "an_up_done", "fec_settle", "fec_check"}
                             \cap Works)
                         \cup {"up_start", "up", "up_intr", "up_check"} \cup Enders
      BY LinkOptionsAssumption
         DEF AttemptWorks, Works, AnWorks, SettleWorks, PollWorks, Enders
    <2> QED
      BY <2>1, StartOrder, CheckOrder
  <1>7. \A t \in Ends : Listed(t) = Watches \cup (IF t = "down" THEN {} ELSE AttemptWorks \ {t})
    BY <1>4, <1>6, ListOrder
  <1>8. /\ Watches \subseteq Works \ {"down"}
        /\ AttemptWorks \subseteq Works \ {"down"}
    BY DEF Watches, AttemptWorks
  <1> QED
    BY <1>1, <1>2, <1>5, <1>7, <1>8, WorkFacts DEF Ends, Enders

LEMMA FirstRank ==
    ASSUME NEW t \in Ends
    PROVE  /\ CancelList[t][1] \in Listed(t)
           /\ \A x \in Listed(t) : Rank[CancelList[t][1]] <= Rank[x]
           /\ t \in Enders => Rank[CancelList[t][1]] < Rank["up_intr"]
  <1> DEFINE list == CancelList[t]
  <1>0. list \in Seq(Works) /\ Len(list) > 0
    BY ListWorks
  <1>1. DOMAIN list = 1..Len(list) /\ 1 \in DOMAIN list /\ Len(list) \in Nat
    BY <1>0
  <1>2. \A i \in DOMAIN list : list[i] \in Works /\ Rank[list[i]] \in Nat
    <2>1. \A i \in DOMAIN list : list[i] \in Listed(t)
      BY DEF Listed, Elems
    <2> QED
      BY <2>1, ListedFacts
  <1>3. list[1] \in Listed(t)
    BY <1>1 DEF Listed, Elems
  <1>4. \A i, j \in DOMAIN list : i < j => Rank[list[i]] < Rank[list[j]]
    BY <1>1, ListOrder DEF InOrder
  <1> HIDE DEF list
  <1>5. \A x \in Listed(t) : Rank[list[1]] <= Rank[x]
    <2> SUFFICES ASSUME NEW i \in DOMAIN list
                 PROVE  Rank[list[1]] <= Rank[list[i]]
      BY DEF Listed, Elems, list
    <2>1. CASE i = 1
      BY <2>1, <1>2, <1>1
    <2>2. CASE i # 1
      <3>1. 1 < i
        BY <2>2, <1>1
      <3> QED
        BY <3>1, <1>1, <1>2, <1>4
    <2> QED
      BY <2>1, <2>2
  <1>6. ASSUME t \in Enders
        PROVE  Rank[list[1]] < Rank["up_intr"]
    <2>1. "up" \in Listed(t)
      BY <1>6, ListedFacts, WorkNames, LinkOptionsAssumption DEF AttemptWorks, Enders
    <2> QED
      BY <2>1, <1>5, <1>1, <1>2, RankOf
  <1> QED
    BY <1>3, <1>5, <1>6 DEF list

(* Between a work of a list and the one that follows it there is no other. *)
LEMMA NextRank ==
    ASSUME NEW t \in Ends, NEW w \in DOMAIN Following[t]
    PROVE  /\ w \in Listed(t)
           /\ Following[t][w] = "none" =>
                 \A x \in Listed(t) : x = w \/ Rank[x] < Rank[w]
           /\ Following[t][w] # "none" =>
                 /\ Following[t][w] \in Listed(t)
                 /\ Rank[w] < Rank[Following[t][w]]
                 /\ \A x \in Listed(t) : \/ x = w \/ Rank[x] < Rank[w]
                                         \/ x = Following[t][w]
                                         \/ Rank[Following[t][w]] < Rank[x]
  <1> DEFINE list == CancelList[t]
             last(i) == IF i = Len(list) THEN "none" ELSE list[i + 1]
  <1>0. list \in Seq(Works) /\ Len(list) > 0
    BY ListWorks
  <1>1. DOMAIN list = 1..Len(list) /\ Len(list) \in Nat
    BY <1>0
  <1>2. \A i \in DOMAIN list : list[i] \in Works /\ Rank[list[i]] \in Nat
    <2>1. \A i \in DOMAIN list : list[i] \in Listed(t)
      BY DEF Listed, Elems
    <2> QED
      BY <2>1, ListedFacts
  <1>3. \A i, j \in DOMAIN list : i < j => Rank[list[i]] < Rank[list[j]]
    BY <1>1, ListOrder DEF InOrder
  <1>4. Following[t] = [v \in {list[i] : i \in DOMAIN list} |->
                          last(CHOOSE i \in DOMAIN list : list[i] = v)]
    BY WorkFacts DEF Following
  <1>5. Listed(t) = {list[i] : i \in DOMAIN list}
    BY DEF Listed, Elems
  <1>n. \A x \in Works : x # "none"
    BY LinkOptionsAssumption DEF Works, AnWorks, SettleWorks, PollWorks, Enders
  <1> HIDE DEF list
  <1>6. w \in Listed(t)
    BY <1>4, <1>5
  <1>7. PICK i \in DOMAIN list : i = (CHOOSE j \in DOMAIN list : list[j] = w) /\ list[i] = w
    BY <1>5, <1>6
  <1>8. Following[t][w] = last(i)
    BY <1>4, <1>5, <1>6, <1>7
  <1>9. CASE i = Len(list)
    <2>1. Following[t][w] = "none"
      BY <1>8, <1>9
    <2>2. ASSUME NEW x \in Listed(t)
          PROVE  x = w \/ Rank[x] < Rank[w]
      <3>1. PICK j \in DOMAIN list : x = list[j]
        BY <1>5
      <3>2. j = i \/ j < i
        BY <1>1, <1>9
      <3> QED
        BY <3>1, <3>2, <1>3, <1>7
    <2> QED
      BY <1>6, <2>1, <2>2
  <1>10. CASE i # Len(list)
    <2>1. i + 1 \in DOMAIN list /\ i < i + 1
      BY <1>1, <1>10
    <2>2. Following[t][w] = list[i + 1]
      BY <1>8, <1>10
    <2>3. Following[t][w] # "none" /\ Following[t][w] \in Listed(t)
      BY <1>2, <1>5, <1>n, <2>1, <2>2
    <2>4. Rank[w] < Rank[Following[t][w]]
      BY <1>3, <1>7, <2>1, <2>2
    <2>5. ASSUME NEW x \in Listed(t)
          PROVE  \/ x = w \/ Rank[x] < Rank[w]
                 \/ x = Following[t][w] \/ Rank[Following[t][w]] < Rank[x]
      <3>1. PICK j \in DOMAIN list : x = list[j]
        BY <1>5
      <3>2. j = i \/ j < i \/ j = i + 1 \/ i + 1 < j
        BY <1>1
      <3> QED
        BY <3>1, <3>2, <1>3, <1>7, <2>1, <2>2
    <2> QED
      BY <1>6, <2>3, <2>4, <2>5
  <1> QED
    BY <1>9, <1>10

-----------------------------------------------------------------------------
(* An attempt is in one place at a time: a work of it is queued or running,  *)
(* a timer ticks for the next one, or an interrupt will queue it.            *)

RunHeads == {"begin", "serdes", "decide", "after_an", "off", "check", "enable", "publish"}

Runs(w) == pc[w][1] \in RunHeads

MoveIntrs == {"link_up", "an_page"}

Moving ==
    ({"queued"} \X (queued \cap Chain))
    \cup ({"run"} \X {w \in Chain : Runs(w)})
    \cup ({"timer"} \X (armed \ {"link_up"}))
    \cup ({"intr"} \X (intrOn \cap MoveIntrs))

(* An up was accepted and has not queued its first work. *)
Calling == {t \in Threads : pc[t] = Step("up_cmd")}

ChainInv ==
    /\ \A x, y \in Moving : x = y
    /\ Moving # {} => Calling = {}

(* The link up timer is started by the first work of an attempt, and deleted *)
(* by the last one before it enables the interrupts.                         *)
Firsts == {"an_up_start", "up_start"}

FirstInv == "link_up" \in armed =>
    /\ Calling = {}
    /\ \A w \in Firsts \cap Chain : w \notin queued /\ pc[w][1] # "begin"
    /\ \A w \in Chain : pc[w][1] \notin {"enable", "publish"}

(* A link at rest, up or on its way down has no attempt. *)
Calm == Moving = {} /\ armed = {}

DownLeads == \E s \in Carriers : Leads(s, "down")

CalmInv == state \in RestStates \cup {"UP"} \/ DownLeads => Calm

(* A teardown has canceled what is in its list before the work it waits for. *)
Past(t, x) ==
    /\ x \in Listed(t)
    /\ \/ pc[t][1] = "off"
       \/ \E w \in Listed(t) : At(t, "wait", w) /\ Rank[x] < Rank[w]

Canceled(t) ==
    \A x \in Works : /\ Past(t, x) => x \notin queued /\ pc[x] = Idle
                     /\ At(t, "wait", x) => x \notin queued

(* It disables the interrupts when it comes to the work of the first of them *)
(* (the way down before it comes to any), and stops the timers at once.      *)
HasCut(t) ==
    \/ pc[t][1] = "off"
    \/ \E w \in Listed(t) : At(t, "wait", w) /\ Rank["up_intr"] <= Rank[w]

Torn(t) ==
    /\ Canceled(t)
    /\ HasCut(t) => intrOn \cap LinkIntrs = {}
    /\ t \in Enders /\ Leads(Run, t) => armed = {}

TornInv == \A t \in Ends : Torn(t)

(* Nothing watches a link that is down. *)
RestInv == state \in RestStates =>
    /\ intrOn \cap WatchIntrs = {}
    /\ \A w \in Watches : w \notin queued /\ pc[w] = Idle

Kept == ChainInv /\ FirstInv /\ CalmInv /\ TornInv /\ RestInv

OutliveInv == loose \/ Kept

-----------------------------------------------------------------------------

LEMMA MovingOf ==
    /\ \A w : <<"queued", w>> \in Moving <=> w \in queued \cap Chain
    /\ \A w : <<"run", w>> \in Moving <=> w \in Chain /\ Runs(w)
    /\ \A w : <<"timer", w>> \in Moving <=> w \in armed \ {"link_up"}
    /\ \A w : <<"intr", w>> \in Moving <=> w \in intrOn \cap MoveIntrs
    /\ \A x \in Moving : \E w : \/ x = <<"queued", w>> \/ x = <<"run", w>>
                                \/ x = <<"timer", w>> \/ x = <<"intr", w>>
  BY DEF Moving

LEMMA MovingNext ==
    /\ \A w : <<"queued", w>> \in Moving' <=> w \in queued' \cap Chain
    /\ \A w : <<"run", w>> \in Moving' <=> w \in Chain /\ Runs(w)'
    /\ \A w : <<"timer", w>> \in Moving' <=> w \in armed' \ {"link_up"}
    /\ \A w : <<"intr", w>> \in Moving' <=> w \in intrOn' \cap MoveIntrs
    /\ \A x \in Moving' : \E w : \/ x = <<"queued", w>> \/ x = <<"run", w>>
                                 \/ x = <<"timer", w>> \/ x = <<"intr", w>>
  BY DEF Moving, Runs

(* The only place of an attempt *)
LEMMA MovingOnly ==
    ASSUME ChainInv, NEW k, NEW w, <<k, w>> \in Moving
    PROVE  /\ Calling = {}
           /\ \A v \in queued \cap Chain : k = "queued" /\ v = w
           /\ \A v \in Chain : Runs(v) => k = "run" /\ v = w
           /\ \A v \in armed : v = "link_up" \/ (k = "timer" /\ v = w)
           /\ \A v \in intrOn \cap MoveIntrs : k = "intr" /\ v = w
  <1>1. Calling = {} /\ \A x \in Moving : x = <<k, w>>
    BY DEF ChainInv
  <1>2. \A n, v : <<n, v>> \in Moving => n = k /\ v = w
    BY <1>1
  <1>3. \A v \in queued \cap Chain : k = "queued" /\ v = w
    BY <1>2, MovingOf
  <1>4. \A v \in Chain : Runs(v) => k = "run" /\ v = w
    BY <1>2, MovingOf
  <1>5. \A v \in armed : v = "link_up" \/ (k = "timer" /\ v = w)
    BY <1>2, MovingOf
  <1>6. \A v \in intrOn \cap MoveIntrs : k = "intr" /\ v = w
    BY <1>2, MovingOf
  <1> QED
    BY <1>1, <1>3, <1>4, <1>5, <1>6

(* Works of an attempt are no others. *)
LEMMA ChainFacts ==
    /\ Chain \subseteq Works /\ Chain \cap Ends = {} /\ Watches \subseteq Works
    /\ Chain \cap Watches = {} /\ Watches \cap Ends = {}
    /\ \A t \in Threads : t \in Chain \/ t \in Ends \/ t \in Watches \/ t \in Clients
    /\ \A t \in Enders : Chain \subseteq Listed(t)
    /\ Chain \cap Listed("down") = {}
    /\ Chain \cap Clients = {} /\ Watches \cap Clients = {}
  <1>1. Chain \subseteq AttemptWorks /\ AttemptWorks \subseteq Works /\ "down" \notin AttemptWorks
    BY DEF Chain, AttemptWorks
  <1>2. Enders \subseteq Works /\ Enders \subseteq AttemptWorks
    BY WorkNames, LinkOptionsAssumption DEF Enders, AttemptWorks
  <1>3. Ends = Enders \cup {"down"}
    BY WorkFacts
  <1> QED
    BY <1>1, <1>2, <1>3, WorkFacts, ListedFacts DEF Chain, Watches

-----------------------------------------------------------------------------
(* What a step does to the parts *)

LEMMA TearFacts ==
    ASSUME NEW t \in Ends
    PROVE  /\ Leads(Run, t) <=> pc[t][1] \in {"wait", "off"}
           /\ HasCut(t) => Leads(Run, t)
           /\ \A x : Past(t, x) => Leads(Run, t)
           /\ \A x : At(t, "wait", x) => Leads(Run, t)
           /\ \A x : Past(t, x) => x \in Works
  <1>1. Leads(Run, t) <=> pc[t][1] \in {"wait", "off"}
    BY DEF Leads, Run, Queue
  <1>2. \A x : At(t, "wait", x) => pc[t][1] = "wait"
    BY DEF At
  <1>3. \A x : Past(t, x) => x \in Works
    BY ListedFacts DEF Past
  <1> QED
    BY <1>1, <1>2, <1>3 DEF HasCut, Past

LEMMA TearNext ==
    ASSUME NEW t \in Ends
    PROVE  /\ Leads(Run, t)' <=> pc'[t][1] \in {"wait", "off"}
           /\ pc'[t][1] \notin {"wait", "off"} => Torn(t)'
  <1>1. Leads(Run, t)' <=> pc'[t][1] \in {"wait", "off"}
    BY DEF Leads, Run, Queue
  <1>2. ASSUME pc'[t][1] \notin {"wait", "off"}
        PROVE  Torn(t)'
    <2>1. \A x : ~At(t, "wait", x)'
      BY <1>2 DEF At
    <2>2. \A x : ~Past(t, x)'
      BY <1>2, <2>1 DEF Past
    <2>3. ~HasCut(t)'
      BY <1>2, <2>1 DEF HasCut
    <2> QED
      BY <1>1, <1>2, <2>1, <2>2, <2>3 DEF Torn, Canceled
  <1> QED
    BY <1>1, <1>2

(* A teardown that does not move *)
LEMMA TornSame ==
    ASSUME NEW t \in Ends, Torn(t), pc'[t] = pc[t],
           \A x \in queued' \ queued : ~Past(t, x) /\ ~At(t, "wait", x),
           \A x \in Works : pc'[x] = pc[x] \/ pc'[x] = Idle \/ ~Past(t, x),
           HasCut(t) => intrOn' \cap LinkIntrs \subseteq intrOn,
           t \in Enders /\ Leads(Run, t) => armed' \subseteq armed
    PROVE  Torn(t)'
  <1>1. \A x : At(t, "wait", x)' <=> At(t, "wait", x)
    BY DEF At
  <1>2. \A x : Past(t, x)' <=> Past(t, x)
    BY <1>1 DEF Past
  <1>3. HasCut(t)' <=> HasCut(t)
    BY <1>1 DEF HasCut
  <1>4. Leads(Run, t)' <=> Leads(Run, t)
    BY TearFacts, TearNext
  <1>5. Canceled(t)'
    <2> SUFFICES ASSUME NEW x \in Works
                 PROVE  /\ Past(t, x)' => x \notin queued' /\ pc'[x] = Idle
                        /\ At(t, "wait", x)' => x \notin queued'
      BY DEF Canceled
    <2> QED
      BY <1>1, <1>2 DEF Torn, Canceled
  <1>6. HasCut(t)' => (intrOn \cap LinkIntrs = {})'
    BY <1>3 DEF Torn
  <1>7. t \in Enders /\ Leads(Run, t)' => armed' = {}
    BY <1>4 DEF Torn
  <1> QED
    BY <1>5, <1>6, <1>7 DEF Torn

(* The ways to lead the link down, and the threads about to queue a first    *)
(* work, where a step moves one thread                                       *)
LEMMA DownLeadsFacts ==
    /\ DownLeads => state = "GOING_DOWN" \/ ~LeadInv
    /\ DownLeads <=> \/ pc["down"][1] \in {"wait", "off"} \/ "down" \in queued
                     \/ \E c \in Clients : pc[c] = <<"queue", "down">>
    /\ DownLeads' <=> \/ pc'["down"][1] \in {"wait", "off"} \/ "down" \in queued'
                      \/ \E c \in Clients : pc'[c] = <<"queue", "down">>
  <1>1. "down" \in Ends /\ EndState["down"] = "GOING_DOWN"
    BY DEF Ends, EndState
  <1>2. DownLeads <=> \/ pc["down"][1] \in {"wait", "off"} \/ "down" \in queued
                      \/ \E c \in Clients : pc[c] = <<"queue", "down">>
    BY CarrierFacts DEF DownLeads, Leads, Carriers
  <1>3. DownLeads' <=> \/ pc'["down"][1] \in {"wait", "off"} \/ "down" \in queued'
                       \/ \E c \in Clients : pc'[c] = <<"queue", "down">>
    BY CarrierFacts DEF DownLeads, Leads, Carriers
  <1> QED
    BY <1>1, <1>2, <1>3 DEF DownLeads, LeadInv

(* A step of t to l *)
LEMMA KeptMoves ==
    ASSUME ShapeInv, NEW t \in Threads, NEW l, Go(t, l)
    PROVE  /\ pc'[t] = l /\ \A u \in Threads : u # t => pc'[u] = pc[u]
           /\ \A w \in Chain : w # t => (Runs(w)' <=> Runs(w))
           /\ t \in Chain => (Runs(t)' <=> l[1] \in RunHeads)
           /\ l # Step("up_cmd") => Calling' \subseteq Calling \ {t}
           /\ Calling' \subseteq Calling \cup {t}
           /\ t # "down" /\ l # <<"queue", "down">> =>
                 (DownLeads' => DownLeads \/ "down" \in queued' \ queued)
  <1>1. pc'[t] = l /\ \A u \in Threads : u # t => pc'[u] = pc[u]
    BY Others
  <1>2. Calling' = {u \in Threads : pc'[u] = Step("up_cmd")}
    BY DEF Calling
  <1>3. /\ \A w \in Chain : w # t => (Runs(w)' <=> Runs(w))
        /\ t \in Chain => (Runs(t)' <=> l[1] \in RunHeads)
    BY <1>1, ChainFacts, WorkFacts DEF Runs
  <1>4. ASSUME t # "down", l # <<"queue", "down">>, DownLeads'
        PROVE  DownLeads \/ "down" \in queued' \ queued
    <2>1. CASE pc'["down"][1] \in {"wait", "off"}
      BY <1>1, <1>4, <2>1, DownLeadsFacts, WorkFacts, WorkNames
    <2>2. CASE "down" \in queued'
      BY <2>2, DownLeadsFacts
    <2>3. ASSUME NEW c \in Clients, pc'[c] = <<"queue", "down">>
          PROVE  DownLeads
      BY <1>1, <1>4, <2>3, DownLeadsFacts, WorkFacts
    <2> QED
      BY <1>4, <2>1, <2>2, <2>3, DownLeadsFacts
  <1>5. /\ l # Step("up_cmd") => Calling' \subseteq Calling \ {t}
        /\ Calling' \subseteq Calling \cup {t}
    BY <1>1, <1>2 DEF Calling
  <1> QED
    BY <1>1, <1>3, <1>4, <1>5

(* A step that moves no attempt and no teardown: it takes away at most. *)
LEMMA FrameStep ==
    ASSUME EndInv, Kept, NEW t \in Threads, NEW l, Go(t, l),
           queued' \subseteq queued, armed' \subseteq armed, intrOn' \subseteq intrOn,
           t \in Chain => l[1] \notin RunHeads,
           t \in Ends => l[1] \notin {"wait", "off"},
           t \in Works => l = Idle \/ pc[t] # Idle,
           l # Step("up_cmd") \/ Calm,
           state' \in RestStates \cup {"UP"} \/ (t \in Clients /\ l = <<"queue", "down">>) =>
              Calm \/ state \in RestStates \cup {"UP"} \/ DownLeads,
           state' \in RestStates => state \in RestStates
    PROVE  Kept'
  <1>0. ShapeInv
    BY DEF EndInv
  <1>1. /\ pc'[t] = l /\ \A u \in Threads : u # t => pc'[u] = pc[u]
        /\ \A w \in Chain : Runs(w)' => Runs(w)
    BY <1>0, KeptMoves
  <1>2. Moving' \subseteq Moving
    BY <1>1, MovingOf, MovingNext
  <1>3. Calm => Calm'
    BY <1>2 DEF Calm
  <1>4. ChainInv'
    BY <1>0, <1>2, KeptMoves DEF Kept, ChainInv, Calm
  <1>5. FirstInv'
    <2> SUFFICES ASSUME "link_up" \in armed'
                 PROVE  /\ Calling' = {}
                        /\ \A w \in Firsts \cap Chain : w \notin queued' /\ pc'[w][1] # "begin"
                        /\ \A w \in Chain : pc'[w][1] \notin {"enable", "publish"}
      BY DEF FirstInv
    <2>1. /\ Calling = {} /\ ~Calm
          /\ \A w \in Firsts \cap Chain : w \notin queued /\ pc[w][1] # "begin"
          /\ \A w \in Chain : pc[w][1] \notin {"enable", "publish"}
      BY DEF Kept, FirstInv, Calm
    <2>2. Calling' = {}
      BY <1>0, <2>1, KeptMoves
    <2>3. \A w \in Chain : pc'[w] = pc[w] \/ (w = t /\ pc'[w][1] \notin RunHeads)
      BY <1>1, ChainFacts, WorkFacts
    <2> QED
      BY <2>1, <2>2, <2>3 DEF RunHeads
  <1>6. CalmInv'
    <2> SUFFICES ASSUME state' \in RestStates \cup {"UP"} \/ DownLeads'
                 PROVE  Calm
      BY <1>3 DEF CalmInv
    <2>1. CASE state' \in RestStates \cup {"UP"}
      BY <2>1 DEF Kept, CalmInv
    <2>2. CASE DownLeads'
      <3>1. CASE t = "down"
        <4>1. pc'["down"][1] \notin {"wait", "off"}
          BY <1>1, <3>1, WorkFacts
        <4>2. \A c \in Clients : pc'[c] = pc[c]
          BY <1>1, <3>1, WorkFacts, WorkNames
        <4>3. DownLeads
          BY <2>2, <4>1, <4>2, DownLeadsFacts
        <4> QED
          BY <4>3 DEF Kept, CalmInv
      <3>2. CASE t # "down" /\ l # <<"queue", "down">>
        BY <1>0, <2>2, <3>2, KeptMoves DEF Kept, CalmInv
      <3>3. CASE t \in Clients /\ l = <<"queue", "down">>
        BY <3>3 DEF Kept, CalmInv
      <3>4. CASE t \in Works /\ t # "down" /\ l = <<"queue", "down">>
        <4>1. \A c \in Clients : pc'[c] = pc[c]
          BY <1>1, <3>4, WorkFacts
        <4>2. pc'["down"] = pc["down"]
          BY <1>1, <3>4, WorkFacts
        <4>3. DownLeads
          BY <2>2, <4>1, <4>2, DownLeadsFacts
        <4> QED
          BY <4>3 DEF Kept, CalmInv
      <3> QED
        BY <3>1, <3>2, <3>3, <3>4, WorkFacts
    <2> QED
      BY <2>1, <2>2
  <1>7. TornInv'
    <2> SUFFICES ASSUME NEW u \in Ends
                 PROVE  Torn(u)'
      BY DEF TornInv
    <2>1. CASE u = t
      BY <1>1, <2>1, TearNext
    <2>2. CASE u # t
      <3>1. pc'[u] = pc[u] /\ Torn(u)
        BY <1>1, <2>2, WorkFacts DEF Kept, TornInv
      <3>2. \A x \in Works : pc'[x] = pc[x] \/ pc'[x] = Idle \/ ~Past(u, x)
        <4>1. \A x \in Works : x # t => pc'[x] = pc[x]
          BY <1>1, WorkFacts
        <4>2. t \in Works => l = Idle \/ ~Past(u, t)
          BY <3>1 DEF Torn, Canceled
        <4> QED
          BY <1>1, <4>1, <4>2
      <3> QED
        BY <3>1, <3>2, TornSame
    <2> QED
      BY <2>1, <2>2
  <1>8. RestInv'
    <2> SUFFICES ASSUME state' \in RestStates
                 PROVE  /\ intrOn' \cap WatchIntrs = {}
                        /\ \A w \in Watches : w \notin queued' /\ pc'[w] = Idle
      BY DEF RestInv
    <2>1. /\ intrOn \cap WatchIntrs = {}
          /\ \A w \in Watches : w \notin queued /\ pc[w] = Idle
      BY DEF Kept, RestInv
    <2>2. \A w \in Watches : pc'[w] = pc[w] \/ pc'[w] = Idle
      BY <1>1, <2>1, ChainFacts, WorkFacts
    <2> QED
      BY <2>1, <2>2
  <1> QED
    BY <1>4, <1>5, <1>6, <1>7, <1>8 DEF Kept

-----------------------------------------------------------------------------
(* The steps of an attempt: the work goes on, or it hands over to a work, a  *)
(* timer or an interrupt.                                                    *)

LinkUpTimer == {"link_up"}

HandsOver(l) ==
    \/ /\ \A v \in queued' \ queued : v \notin Chain
       /\ armed' \subseteq armed \cup LinkUpTimer
       /\ intrOn' \cap MoveIntrs \subseteq intrOn
    \/ /\ l = Idle
       /\ \E v : queued' \subseteq queued \cup {v}
       /\ armed' \subseteq armed \cup LinkUpTimer
       /\ intrOn' \cap MoveIntrs \subseteq intrOn
    \/ /\ l = Idle
       /\ queued' \subseteq queued
       /\ \E tm : armed' \subseteq armed \cup {tm}
       /\ intrOn' \cap MoveIntrs \subseteq intrOn
    \/ /\ l = Idle
       /\ queued' \subseteq queued
       /\ armed' \subseteq armed \cup LinkUpTimer
       /\ \E i : intrOn' \cap MoveIntrs \subseteq intrOn \cup {i}

(* Where the attempt was, nothing else was. *)
LEMMA MovingAlone ==
    ASSUME Kept, NEW w \in Chain, w \in queued \/ Runs(w)
    PROVE  /\ Calling = {} /\ queued \cap Chain \subseteq {w}
           /\ armed \subseteq LinkUpTimer /\ intrOn \cap MoveIntrs = {}
           /\ \A v \in Chain : v # w => ~Runs(v)
           /\ ~(w \in queued /\ Runs(w))
           /\ state \notin RestStates \cup {"UP"} /\ ~DownLeads
           /\ \A t \in Ends : ~Past(t, w) /\ (t \in Enders => pc[t][1] # "off")
  <1>1. PICK k \in {"queued", "run"} : <<k, w>> \in Moving
    BY MovingOf
  <1>2. /\ Calling = {} /\ \A v \in queued \cap Chain : k = "queued" /\ v = w
        /\ \A v \in Chain : Runs(v) => k = "run" /\ v = w
        /\ \A v \in armed : v = "link_up"
        /\ intrOn \cap MoveIntrs = {}
    BY <1>1, MovingOnly DEF Kept
  <1>3. ~Calm
    BY <1>1 DEF Calm
  <1>4. ASSUME NEW t \in Ends
        PROVE  ~Past(t, w) /\ (t \in Enders => pc[t][1] # "off")
    <2>1. ~Past(t, w)
      <3>1. Canceled(t) /\ w \in Works
        BY ChainFacts DEF Kept, TornInv, Torn
      <3>2. Past(t, w) => w \notin queued /\ pc[w] = Idle
        BY <3>1 DEF Canceled
      <3> QED
        BY <3>2, Heads DEF Runs, RunHeads
    <2>2. ASSUME t \in Enders, pc[t][1] = "off"
          PROVE  FALSE
      BY <2>1, <2>2, ChainFacts DEF Past
    <2> QED
      BY <2>1, <2>2
  <1> QED
    BY <1>2, <1>3, <1>4 DEF Kept, CalmInv, LinkUpTimer

LEMMA ChainOfStep ==
    ASSUME EndInv, Kept, NEW w \in Chain, w \in queued \/ Runs(w),
           NEW l, Go(w, l), l # Step("up_cmd"),
           w \in queued => w \notin queued', HandsOver(l)
    PROVE  ChainInv' /\ Calling' = {}
  <1>0. w \in Threads /\ ShapeInv
    BY ChainFacts, WorkFacts DEF EndInv
  <1>1. /\ Calling = {} /\ queued \cap Chain \subseteq {w}
        /\ armed \subseteq LinkUpTimer /\ intrOn \cap MoveIntrs = {}
        /\ \A v \in Chain : v # w => ~Runs(v)
        /\ ~(w \in queued /\ Runs(w))
    BY MovingAlone
  <1>2. Calling' = {}
    BY <1>0, <1>1, KeptMoves
  <1>3. /\ \A v \in Chain : Runs(v)' => v = w /\ l[1] \in RunHeads
        /\ l = Idle => l[1] \notin RunHeads
    BY <1>0, <1>1, KeptMoves, Heads DEF RunHeads
  <1>4. queued \cap queued' \cap Chain = {}
    BY <1>1
  <1>5. ASSUME NEW k, NEW v, <<k, v>> \in Moving', NEW j, NEW u, <<j, u>> \in Moving'
        PROVE  k = j /\ v = u
    <2>1. CASE /\ \A x \in queued' \ queued : x \notin Chain
               /\ armed' \subseteq armed \cup LinkUpTimer
               /\ intrOn' \cap MoveIntrs \subseteq intrOn
      <3>1. /\ queued' \cap Chain = {} /\ armed' \ {"link_up"} = {}
            /\ intrOn' \cap MoveIntrs = {}
        BY <1>1, <1>4, <2>1 DEF LinkUpTimer
      <3>2. \A n, x : <<n, x>> \in Moving' => n = "run" /\ x = w
        BY <1>3, <3>1, MovingNext
      <3> QED
        BY <1>5, <3>2
    <2>2. ASSUME l = Idle, NEW q, queued' \subseteq queued \cup {q},
                 armed' \subseteq armed \cup LinkUpTimer,
                 intrOn' \cap MoveIntrs \subseteq intrOn
          PROVE  k = j /\ v = u
      <3>1. /\ queued' \cap Chain \subseteq {q} /\ armed' \ {"link_up"} = {}
            /\ intrOn' \cap MoveIntrs = {}
        BY <1>1, <1>4, <2>2 DEF LinkUpTimer
      <3>2. \A n, x : <<n, x>> \in Moving' => n = "queued" /\ x = q
        BY <1>3, <2>2, <3>1, MovingNext
      <3> QED
        BY <1>5, <3>2
    <2>3. ASSUME l = Idle, queued' \subseteq queued,
                 NEW tm, armed' \subseteq armed \cup {tm},
                 intrOn' \cap MoveIntrs \subseteq intrOn
          PROVE  k = j /\ v = u
      <3>1. /\ queued' \cap Chain = {} /\ armed' \ {"link_up"} \subseteq {tm}
            /\ intrOn' \cap MoveIntrs = {}
        BY <1>1, <1>4, <2>3 DEF LinkUpTimer
      <3>2. \A n, x : <<n, x>> \in Moving' => n = "timer" /\ x = tm
        BY <1>3, <2>3, <3>1, MovingNext
      <3> QED
        BY <1>5, <3>2
    <2>4. ASSUME l = Idle, queued' \subseteq queued,
                 armed' \subseteq armed \cup LinkUpTimer,
                 NEW i, intrOn' \cap MoveIntrs \subseteq intrOn \cup {i}
          PROVE  k = j /\ v = u
      <3>1. /\ queued' \cap Chain = {} /\ armed' \ {"link_up"} = {}
            /\ intrOn' \cap MoveIntrs \subseteq {i}
        BY <1>1, <1>4, <2>4 DEF LinkUpTimer
      <3>2. \A n, x : <<n, x>> \in Moving' => n = "intr" /\ x = i
        BY <1>3, <2>4, <3>1, MovingNext
      <3> QED
        BY <1>5, <3>2
    <2> QED
      BY <2>1, <2>2, <2>3, <2>4 DEF HandsOver
  <1>6. \A x, y \in Moving' : x = y
    <2> SUFFICES ASSUME NEW x \in Moving', NEW y \in Moving'
                 PROVE  x = y
      OBVIOUS
    <2>1. PICK k, v : x = <<k, v>>
      BY MovingNext
    <2>2. PICK j, u : y = <<j, u>>
      BY MovingNext
    <2> QED
      BY <1>5, <2>1, <2>2
  <1> QED
    BY <1>2, <1>6 DEF ChainInv

LEMMA ChainStep ==
    ASSUME EndInv, Kept, NEW w \in Chain, w \in queued \/ Runs(w),
           NEW l, Go(w, l), l[1] \in RunHeads \cup {"idle", "up_cb"},
           w \in queued => w \notin queued', HandsOver(l),
           \A v \in queued' \ queued :
              /\ v \notin Firsts /\ v # "down" /\ ~Held(v)
              /\ state \in Rising \/ (v \in Chain /\ Rank[w] < Rank[v]),
           armed' \subseteq armed \/ state \notin Leaving,
           intrOn' \cap LinkIntrs \subseteq intrOn \/ Rank[w] < Rank["up_intr"],
           "link_up" \in armed' \ armed =>
              w \in Firsts /\ Runs(w) /\ l[1] \notin {"begin", "enable", "publish"},
           l[1] = "begin" /\ w \in Firsts => w \in queued,
           l[1] \in {"enable", "publish"} =>
              "link_up" \notin armed' \/ pc[w][1] \in {"enable", "publish"},
           \/ state' \notin RestStates \cup {"UP"}
           \/ state' = "UP" /\ pc[w][1] = "publish" /\ l[1] = "up_cb" /\ UNCHANGED kernel
    PROVE  Kept'
  <1>0. w \in Threads /\ ShapeInv /\ LeadInv /\ w \notin Ends /\ w \in Works
    BY ChainFacts, WorkFacts DEF EndInv
  <1>1. /\ queued \cap Chain \subseteq {w}
        /\ armed \subseteq LinkUpTimer /\ intrOn \cap MoveIntrs = {}
        /\ \A v \in Chain : v # w => ~Runs(v)
        /\ ~(w \in queued /\ Runs(w))
        /\ ~DownLeads
        /\ \A t \in Ends : ~Past(t, w) /\ (t \in Enders => pc[t][1] # "off")
    BY MovingAlone
  <1>2. l # Step("up_cmd") /\ l # <<"queue", "down">>
    BY Heads DEF RunHeads
  <1>3. ChainInv' /\ Calling' = {}
    BY <1>2, ChainOfStep
  <1>4. /\ pc'[w] = l /\ \A u \in Threads : u # w => pc'[u] = pc[u]
        /\ \A v \in Chain : v # w => ~Runs(v)'
    BY <1>0, <1>1, KeptMoves
  <1>5. FirstInv'
    <2> SUFFICES ASSUME "link_up" \in armed'
                 PROVE  /\ \A v \in Firsts \cap Chain : v \notin queued' /\ pc'[v][1] # "begin"
                        /\ \A v \in Chain : pc'[v][1] \notin {"enable", "publish"}
      BY <1>3 DEF FirstInv
    <2>1. \A v \in Chain : v # w => pc'[v][1] \notin {"begin", "enable", "publish"}
      BY <1>4 DEF Runs, RunHeads
    <2>2. CASE "link_up" \in armed
      <3>1. /\ \A v \in Firsts \cap Chain : v \notin queued /\ pc[v][1] # "begin"
            /\ \A v \in Chain : pc[v][1] \notin {"enable", "publish"}
        BY <2>2 DEF Kept, FirstInv
      <3> QED
        BY <1>4, <2>1, <3>1
    <2>3. CASE "link_up" \notin armed
      BY <1>1, <1>4, <2>1, <2>3
    <2> QED
      BY <2>2, <2>3
  <1>6. CalmInv'
    <2>1. ~DownLeads'
      BY <1>0, <1>1, <1>2, KeptMoves DEF Ends
    <2>2. CASE state' = "UP" /\ pc[w][1] = "publish" /\ l[1] = "up_cb" /\ UNCHANGED kernel
      <3>1. Runs(w) /\ w \notin queued /\ "link_up" \notin armed
        BY <1>1, <2>2 DEF Runs, RunHeads, Kept, FirstInv
      <3>2. queued' \cap Chain = {} /\ armed' = {} /\ intrOn' \cap MoveIntrs = {}
        BY <1>1, <2>2, <3>1 DEF kernel, LinkUpTimer
      <3>3. \A v \in Chain : ~Runs(v)'
        BY <1>4, <2>2 DEF Runs, RunHeads
      <3> QED
        BY <3>2, <3>3, MovingNext DEF CalmInv, Calm
    <2> QED
      BY <2>1, <2>2 DEF CalmInv
  <1>7. TornInv'
    <2> SUFFICES ASSUME NEW u \in Ends
                 PROVE  Torn(u)'
      BY DEF TornInv
    <2>1. pc'[u] = pc[u] /\ Torn(u) /\ u \in Threads
      BY <1>0, <1>4, WorkFacts DEF Kept, TornInv
    <2>2. /\ Leads(Run, u) => u \in Enders /\ state \in Leaving /\ state \notin Rising
          /\ u \in Enders => w \in Listed(u)
      <3>1. Leads(Run, u) => state \in Leaving /\ state \notin Rising
        BY <1>0, OnlyLead, CarrierFacts
      <3>2. Leads(Run, u) => u # "down"
        BY <1>1, CarrierFacts DEF DownLeads
      <3> QED
        BY <3>1, <3>2, WorkFacts, ChainFacts
    <2>3. ASSUME NEW x \in Works \ {"down"}, Rank[w] < Rank[x], u \in Enders
          PROVE  /\ ~Past(u, x)
                 /\ \A v \in Listed(u) : At(u, "wait", v) => Rank[v] < Rank[x]
      <3>1. \A v \in Listed(u) : Rank[v] \in Nat
        BY ListedFacts
      <3>2. Rank[w] \in Nat /\ Rank[x] \in Nat
        BY <1>0, ListedFacts, WorkFacts DEF Ends
      <3>3. ASSUME NEW v \in Listed(u), At(u, "wait", v)
            PROVE  Rank[v] < Rank[x]
        <4>1. ~(Rank[w] < Rank[v])
          BY <1>1, <2>2, <2>3, <3>3 DEF Past
        <4> QED
          BY <2>3, <3>1, <3>2, <4>1
      <3>4. ~Past(u, x)
        BY <1>1, <2>3, <3>1, <3>2, <3>3 DEF Past
      <3> QED
        BY <3>3, <3>4
    <2>4. ASSUME NEW x \in queued' \ queued
          PROVE  ~Past(u, x) /\ ~At(u, "wait", x)
      <3>1. ~At(u, "wait", x)
        BY <1>0, <2>1 DEF Held, ShapeInv
      <3>2. ~Past(u, x)
        <4>1. CASE state \in Rising
          BY <2>2, <4>1, TearFacts
        <4>2. CASE x \in Chain /\ Rank[w] < Rank[x]
          BY <2>2, <2>3, <4>2, ChainFacts, TearFacts
        <4> QED
          BY <4>1, <4>2
      <3> QED
        BY <3>1, <3>2
    <2>5. \A x \in Works : pc'[x] = pc[x] \/ pc'[x] = Idle \/ ~Past(u, x)
      BY <1>1, <1>4, WorkFacts
    <2>6. HasCut(u) => intrOn' \cap LinkIntrs \subseteq intrOn
      <3> SUFFICES ASSUME HasCut(u), Rank[w] < Rank["up_intr"]
                   PROVE  FALSE
        OBVIOUS
      <3>1. u \in Enders
        BY <2>2, TearFacts
      <3>2. "up_intr" \in Works \ {"down"}
        BY WorkNames
      <3>3. \A v \in Listed(u) : At(u, "wait", v) => Rank[v] < Rank["up_intr"]
        BY <2>3, <3>1, <3>2
      <3>4. \A v \in Listed(u) : Rank[v] \in Nat
        BY ListedFacts
      <3> QED
        BY <1>1, <3>1, <3>3, <3>4, RankOf DEF HasCut
    <2>7. u \in Enders /\ Leads(Run, u) => armed' \subseteq armed
      BY <2>2
    <2> QED
      BY <2>1, <2>4, <2>5, <2>6, <2>7, TornSame
  <1>8. RestInv'
    BY DEF RestInv, RestStates
  <1> QED
    BY <1>3, <1>5, <1>6, <1>7, <1>8 DEF Kept

LEMMA QueueNew ==
    /\ \A v : QueueWork(v) => /\ queued' \subseteq queued \cup {v}
                              /\ \A x \in queued' \ queued : x = v /\ ~Held(x)
    /\ UpFail => /\ \A x \in queued' \ queued : x = "up_fail" /\ ~Held(x) /\ state \in Rising
                 /\ queued \subseteq queued'
                 /\ state' = state \/ state' = "GOING_DOWN"
    /\ "up_fail" \notin Chain /\ "up_fail" \notin Firsts /\ "up_fail" # "down"
    /\ "GOING_DOWN" \notin RestStates \cup {"UP"}
    /\ Idle[1] = "idle" /\ "idle" \notin RunHeads
    /\ \A x : Step(x)[1] = x
    /\ Idle = Step("idle")
  BY Heads DEF QueueWork, UpFail, Chain, Enders, Firsts, RestStates, RunHeads, Idle, Step

(* A step of a running work that neither ends nor hands over *)
LEMMA ChainGoes ==
    ASSUME EndInv, Kept, NEW w \in Chain, Runs(w), NEW l, Go(w, l),
           l[1] \in (RunHeads \cup {"idle", "up_cb"}) \ {"begin", "enable", "publish"},
           queued' = queued, armed' \subseteq armed,
           intrOn' \cap MoveIntrs \subseteq intrOn,
           intrOn' \cap LinkIntrs \subseteq intrOn \/ Rank[w] < Rank["up_intr"],
           state' = state \/ state' = "GOING_UP"
    PROVE  Kept'
  <1>1. state' \notin RestStates \cup {"UP"}
    BY MovingAlone DEF RestStates
  <1>2. HandsOver(l) /\ ~(w \in queued)
    BY MovingAlone DEF HandsOver
  <1> QED
    BY <1>1, <1>2, ChainStep

LEMMA KeptOfEnter ==
    ASSUME EndInv, Kept, NEW w \in Chain, NEW states, NEW tm,
           NEW s \in {"begin", "serdes", "decide", "check"}, Enter(w, states, Step(s), tm)
    PROVE  Kept'
  <1>1. /\ w \in queued /\ queued' = queued \ {w} /\ armed' \subseteq armed
        /\ intrOn' = intrOn /\ state' = state
    BY DEF Enter, Take
  <1>2. PICK l : Go(w, l) /\ (l = Step(s) \/ l = Step("idle"))
    BY QueueNew DEF Enter
  <1>3. l[1] \in {"begin", "serdes", "decide", "check", "idle"}
    BY <1>2, QueueNew
  <1>4. HandsOver(l)
    BY <1>1 DEF HandsOver
  <1>5. state \notin RestStates \cup {"UP"}
    BY <1>1, MovingAlone
  <1> QED
    BY <1>1, <1>2, <1>3, <1>4, <1>5, ChainStep DEF RunHeads

(* A step of an attempt fails. *)
LEMMA KeptOfFail ==
    ASSUME EndInv, Kept, NEW w \in Chain, Runs(w), NEW l, Go(w, l),
           l = Idle \/ (l = Step("enable") /\ "link_up" \notin armed'),
           UpFail, armed' \subseteq armed,
           intrOn' \cap MoveIntrs \subseteq intrOn,
           intrOn' \cap LinkIntrs \subseteq intrOn \/ Rank[w] < Rank["up_intr"]
    PROVE  Kept'
  <1>1. /\ \A x \in queued' \ queued : x = "up_fail" /\ ~Held(x) /\ state \in Rising
        /\ state' = state \/ state' = "GOING_DOWN"
    BY QueueNew
  <1>2. w \notin queued /\ state' \notin RestStates \cup {"UP"}
    BY <1>1, MovingAlone, QueueNew
  <1>3. HandsOver(l)
    BY <1>1, QueueNew DEF HandsOver
  <1>4. l[1] \in {"idle", "enable"} /\ (l[1] = "enable" => "link_up" \notin armed')
    BY QueueNew
  <1> QED
    BY <1>1, <1>2, <1>3, <1>4, ChainStep, QueueNew DEF RunHeads

LEMMA KeptOfFailUp ==
    ASSUME EndInv, Kept, NEW w \in Chain, Runs(w), NEW tm, FailUp(w, tm),
           intrOn' \cap MoveIntrs \subseteq intrOn,
           intrOn' \cap LinkIntrs \subseteq intrOn \/ Rank[w] < Rank["up_intr"]
    PROVE  Kept'
  BY KeptOfFail DEF FailUp

(* The ways to hand over *)
LEMMA KeptOfQueue ==
    ASSUME EndInv, Kept, NEW w \in Chain, Runs(w), NEW v \in Chain, v \notin Firsts,
           Rank[w] < Rank[v], QueueWork(v), Go(w, Idle),
           armed' \subseteq armed \/ (armed' = Started("link_up") /\ w \in Firsts),
           intrOn' \subseteq intrOn, state' = state
    PROVE  Kept'
  <1>1. /\ queued' \subseteq queued \cup {v}
        /\ \A x \in queued' \ queued : x = v /\ ~Held(x)
    BY QueueNew
  <1>2. w \notin queued /\ state' \notin RestStates \cup {"UP"}
    BY MovingAlone
  <1>3. /\ armed' \subseteq armed \cup LinkUpTimer
        /\ armed' \subseteq armed \/ state \notin Leaving
        /\ "link_up" \in armed' \ armed => w \in Firsts
    BY DEF Started, LinkUpTimer
  <1>4. HandsOver(Idle)
    BY <1>1, <1>3 DEF HandsOver
  <1>5. v # "down"
    BY ChainFacts DEF Ends
  <1> QED
    BY <1>1, <1>2, <1>3, <1>4, <1>5, ChainStep, QueueNew

LEMMA KeptOfTimer ==
    ASSUME EndInv, Kept, NEW w \in Chain, Runs(w), NEW tm, tm # "link_up",
           armed' = Started(tm), Go(w, Idle),
           queued' = queued, intrOn' \subseteq intrOn, state' = state
    PROVE  Kept'
  <1>1. w \notin queued /\ state' \notin RestStates \cup {"UP"}
    BY MovingAlone
  <1>2. /\ armed' \subseteq armed \cup {tm}
        /\ armed' \subseteq armed \/ state \notin Leaving
        /\ "link_up" \notin armed' \ armed
    BY DEF Started
  <1>3. HandsOver(Idle)
    <2>1. \E x : armed' \subseteq armed \cup {x}
      BY <1>2
    <2>2. queued' \subseteq queued /\ intrOn' \cap MoveIntrs \subseteq intrOn
      OBVIOUS
    <2> QED
      BY <2>1, <2>2 DEF HandsOver
  <1> QED
    BY <1>1, <1>2, <1>3, ChainStep, QueueNew

LEMMA KeptOfEnable ==
    ASSUME EndInv, Kept, NEW w \in Chain, Runs(w), NEW i,
           intrOn' = intrOn \cup {i}, Go(w, Idle),
           i \notin LinkIntrs \/ Rank[w] < Rank["up_intr"],
           queued' = queued, armed' = armed, state' = state
    PROVE  Kept'
  <1>1. w \notin queued /\ state' \notin RestStates \cup {"UP"}
    BY MovingAlone
  <1>2. HandsOver(Idle)
    BY DEF HandsOver
  <1>3. intrOn' \cap LinkIntrs \subseteq intrOn \/ Rank[w] < Rank["up_intr"]
    OBVIOUS
  <1> QED
    BY <1>1, <1>2, <1>3, ChainStep, QueueNew

LEMMA ChainNames ==
    /\ \A w \in {"an_up_start", "an_up", "an_up_done", "up_start", "up", "up_intr",
                 "up_check", "fec_settle", "fec_check"} \cap Works : w \in Chain
    /\ "up" \in Chain /\ ("an_up_start" \in Works => "an_up" \in Chain)
    /\ \A x, n : At(x, n, "none") /\ n \in RunHeads => Runs(x)
    /\ {"begin", "serdes", "decide", "after_an", "off", "check", "enable", "publish"} = RunHeads
    /\ \A x, n, m : At(x, n, m) => pc[x][1] = n
    /\ WatchIntrs \cap MoveIntrs = {} /\ WatchIntrs \subseteq LinkIntrs
    /\ "an_page" \notin LinkIntrs
  <1>1. \A w \in {"an_up_start", "an_up", "an_up_done", "up_start", "up", "up_intr",
                 "up_check", "fec_settle", "fec_check"} \cap Works : w \in Chain
    BY LinkOptionsAssumption DEF Chain, AttemptWorks, Enders
  <1>2. "an_up_start" \in Works => "an_up" \in Works
    BY WorkNames
  <1>3. /\ WatchIntrs \cap MoveIntrs = {} /\ WatchIntrs \subseteq LinkIntrs
        /\ "an_page" \notin LinkIntrs
    BY LinkOptionsAssumption DEF WatchIntrs, MoveIntrs, LinkIntrs
  <1> QED
    BY <1>1, <1>2, <1>3, WorkNames DEF Runs, RunHeads, At

LEMMA KeptOfAnUpStart ==
    ASSUME EndInv, Kept, "an_up_start" \in Works, AnUpStartWork
    PROVE  Kept'
  <1> DEFINE w == "an_up_start"
  <1>0. w \in Chain
    BY ChainNames
  <1>1. CASE Enter(w, {"AN"}, Step("begin"), {})
    BY <1>0, <1>1, KeptOfEnter
  <1>2. CASE /\ At(w, "begin", "none")
             /\ armed' = Started("link_up")
             /\ \/ QueueWork("an_up") /\ Go(w, Idle) /\ UNCHANGED <<state, fails>>
                \/ Go(w, Step("after_an")) /\ UNCHANGED <<state, queued, fails>>
             /\ UNCHANGED <<intrOn, link, loose, due, ups>>
    <2>0. Runs(w)
      BY <1>2, ChainNames
    <2>1. CASE QueueWork("an_up") /\ Go(w, Idle) /\ UNCHANGED state
      <3>1. "an_up" \in Chain /\ "an_up" \notin Firsts /\ Rank[w] < Rank["an_up"] /\ w \in Firsts
        BY ChainNames, RankOf DEF Firsts
      <3> QED
        BY <1>0, <1>2, <2>0, <2>1, <3>1, KeptOfQueue
    <2>2. CASE Go(w, Step("after_an")) /\ UNCHANGED <<state, queued>>
      <3>1. /\ armed' \subseteq armed \cup LinkUpTimer
            /\ armed' \subseteq armed \/ state \notin Leaving
        BY <1>2 DEF Started, LinkUpTimer
      <3>2. HandsOver(Step("after_an"))
        BY <1>2, <2>2, <3>1 DEF HandsOver
      <3>3. /\ w \notin queued /\ state' \notin RestStates \cup {"UP"} /\ w \in Firsts
            /\ intrOn' \cap LinkIntrs \subseteq intrOn
        BY <1>0, <1>2, <2>0, <2>2, MovingAlone DEF Firsts
      <3>4. Step("after_an")[1] = "after_an"
        BY QueueNew
      <3> QED
        BY <1>0, <2>0, <2>2, <3>1, <3>2, <3>3, <3>4, ChainStep DEF RunHeads
    <2> QED
      BY <1>2, <2>1, <2>2
  <1>3. CASE At(w, "after_an", "none") /\ FailUp(w, {}) /\ UNCHANGED intrOn
    BY <1>0, <1>3, ChainNames, KeptOfFailUp DEF RunHeads
  <1> QED
    BY <1>1, <1>2, <1>3 DEF AnUpStartWork

LEMMA KeptOfAnUp ==
    ASSUME EndInv, Kept, "an_up" \in Works, AnUpWork
    PROVE  Kept'
  <1> DEFINE w == "an_up"
  <1>0. w \in Chain
    BY ChainNames
  <1>1. CASE Enter(w, {"AN"}, Step("serdes"), {})
    BY <1>0, <1>1, KeptOfEnter
  <1>2. CASE /\ At(w, "serdes", "none") /\ intrOn' = intrOn \cup {"an_page"} /\ Go(w, Idle)
             /\ UNCHANGED <<state, queued, armed, link, ghosts>>
    <2>1. Runs(w)
      BY <1>2, ChainNames
    <2> QED
      BY <1>0, <1>2, <2>1, ChainNames, KeptOfEnable
  <1>3. CASE At(w, "serdes", "none") /\ FailUp(w, {}) /\ intrOn' = intrOn \ {"an_page"}
    <2>1. Runs(w)
      BY <1>3, ChainNames
    <2> QED
      BY <1>0, <1>3, <2>1, KeptOfFailUp
  <1> QED
    BY <1>1, <1>2, <1>3 DEF AnUpWork

LEMMA KeptOfAnUpDone ==
    ASSUME EndInv, Kept, "an_up_done" \in Works, AnUpDoneWork
    PROVE  Kept'
  <1> DEFINE w == "an_up_done"
  <1>0. w \in Chain
    BY ChainNames
  <1>1. CASE Enter(w, {"AN"}, Step("decide"), {})
    BY <1>0, <1>1, KeptOfEnter
  <1>2. CASE /\ At(w, "decide", "none") /\ intrOn' = intrOn \cup {"an_page"} /\ Go(w, Idle)
             /\ UNCHANGED <<state, queued, armed, link, ghosts>>
    <2>1. Runs(w)
      BY <1>2, ChainNames
    <2> QED
      BY <1>0, <1>2, <2>1, ChainNames, KeptOfEnable
  <1>3. CASE /\ At(w, "decide", "none") /\ Go(w, Step("after_an")) /\ UNCHANGED intrOn
             /\ UNCHANGED <<state, queued, armed, link, ghosts>>
    <2>1. Runs(w) /\ Step("after_an")[1] = "after_an"
      BY <1>3, ChainNames, QueueNew
    <2> QED
      BY <1>0, <1>3, <2>1, ChainGoes DEF RunHeads
  <1>4. CASE At(w, "decide", "none") /\ FailUp(w, {}) /\ UNCHANGED intrOn
    <2>1. Runs(w)
      BY <1>4, ChainNames
    <2> QED
      BY <1>0, <1>4, <2>1, KeptOfFailUp
  <1> QED
    BY <1>1, <1>2, <1>3, <1>4 DEF AnUpDoneWork

LEMMA KeptOfUpAfterAn ==
    ASSUME EndInv, Kept, NEW w \in {"an_up_start", "an_up_done"} \cap Works, UpAfterAnStart(w)
    PROVE  Kept'
  <1>0. w \in Chain /\ Rank[w] < Rank["up"] /\ "up" \in Chain /\ "up" \notin Firsts
    BY ChainNames, RankOf DEF Firsts
  <1>1. CASE /\ At(w, "after_an", "none")
             /\ IF state = "AN"
                THEN state' = "GOING_UP" /\ Go(w, Step("off")) /\ UNCHANGED armed
                ELSE armed' = armed \ {"link_up"} /\ Go(w, Idle) /\ UNCHANGED state
             /\ UNCHANGED <<queued, intrOn, link, ghosts>>
    <2>1. Runs(w) /\ Step("off")[1] = "off" /\ Idle[1] = "idle"
      BY <1>1, ChainNames, QueueNew
    <2>2. PICK l \in {Step("off"), Idle} : Go(w, l)
      BY <1>1
    <2> QED
      BY <1>0, <1>1, <2>1, <2>2, ChainGoes DEF RunHeads
  <1>2. CASE /\ At(w, "off", "none")
             /\ intrOn' = intrOn \ LinkIntrs /\ QueueWork("up") /\ Go(w, Idle)
             /\ UNCHANGED <<state, armed, link, ghosts>>
    <2>1. Runs(w)
      BY <1>2, ChainNames
    <2> QED
      BY <1>0, <1>2, <2>1, KeptOfQueue
  <1>3. CASE At(w, "off", "none") /\ FailUp(w, {"link_up"}) /\ UNCHANGED intrOn
    <2>1. Runs(w)
      BY <1>3, ChainNames
    <2> QED
      BY <1>0, <1>3, <2>1, KeptOfFailUp
  <1> QED
    BY <1>1, <1>2, <1>3 DEF UpAfterAnStart

LEMMA KeptOfUpStart ==
    ASSUME EndInv, Kept, UpStartWork
    PROVE  Kept'
  <1> DEFINE w == "up_start"
  <1>0. /\ w \in Chain /\ Rank[w] < Rank["up"] /\ "up" \in Chain /\ "up" \notin Firsts
        /\ w \in Firsts
    BY ChainNames, RankOf, WorkNames DEF Firsts
  <1>1. CASE Enter(w, {"GOING_UP"}, Step("begin"), {})
    BY <1>0, <1>1, KeptOfEnter
  <1>2. CASE /\ At(w, "begin", "none") /\ armed' = Started("link_up") /\ Go(w, Step("off"))
             /\ UNCHANGED <<state, queued, intrOn, link, ghosts>>
    <2>0. Runs(w)
      BY <1>2, ChainNames
    <2>1. /\ armed' \subseteq armed \cup LinkUpTimer
          /\ armed' \subseteq armed \/ state \notin Leaving
      BY <1>2 DEF Started, LinkUpTimer
    <2>2. HandsOver(Step("off"))
      BY <1>2, <2>1 DEF HandsOver
    <2>3. /\ w \notin queued /\ state' \notin RestStates \cup {"UP"}
          /\ intrOn' \cap LinkIntrs \subseteq intrOn
      BY <1>0, <1>2, <2>0, MovingAlone
    <2>4. Step("off")[1] = "off"
      BY QueueNew
    <2> QED
      BY <1>0, <1>2, <2>0, <2>1, <2>2, <2>3, <2>4, ChainStep DEF RunHeads
  <1>3. CASE At(w, "begin", "none") /\ FailUp(w, {}) /\ UNCHANGED intrOn
    <2>1. Runs(w)
      BY <1>3, ChainNames
    <2> QED
      BY <1>0, <1>3, <2>1, KeptOfFailUp
  <1>4. CASE /\ At(w, "off", "none") /\ intrOn' = intrOn \ LinkIntrs
             /\ \/ QueueWork("up") /\ UNCHANGED armed
                \/ armed' = Started("high_power") /\ UNCHANGED queued
             /\ Go(w, Idle) /\ UNCHANGED <<state, link, ghosts>>
    <2>1. Runs(w)
      BY <1>4, ChainNames
    <2>2. CASE QueueWork("up") /\ UNCHANGED armed
      BY <1>0, <1>4, <2>1, <2>2, KeptOfQueue
    <2>3. CASE armed' = Started("high_power") /\ UNCHANGED queued
      BY <1>0, <1>4, <2>1, <2>3, KeptOfTimer
    <2> QED
      BY <1>4, <2>2, <2>3
  <1> QED
    BY <1>1, <1>2, <1>3, <1>4 DEF UpStartWork

LEMMA KeptOfUp ==
    ASSUME EndInv, Kept, UpWork
    PROVE  Kept'
  <1> DEFINE w == "up"
  <1>0. w \in Chain /\ Rank[w] < Rank["up_intr"]
    BY ChainNames, RankOf
  <1>1. CASE Enter(w, Rising, Step("serdes"), {"link_up"})
    BY <1>0, <1>1, KeptOfEnter
  <1>2. CASE /\ At(w, "serdes", "none") /\ intrOn' = intrOn \cup {"link_up"} /\ Go(w, Idle)
             /\ UNCHANGED <<state, queued, armed, link, ghosts>>
    <2>1. Runs(w)
      BY <1>2, ChainNames
    <2> QED
      BY <1>0, <1>2, <2>1, KeptOfEnable
  <1>3. CASE At(w, "serdes", "none") /\ FailUp(w, {"link_up"}) /\ UNCHANGED intrOn
    <2>1. Runs(w)
      BY <1>3, ChainNames
    <2> QED
      BY <1>0, <1>3, <2>1, KeptOfFailUp
  <1> QED
    BY <1>1, <1>2, <1>3 DEF UpWork

LEMMA KeptOfBegin ==
    ASSUME EndInv, Kept, NEW w \in Chain, NEW tm, tm # "link_up", BeginWork(w, tm)
    PROVE  Kept'
  <1>1. CASE Enter(w, Rising, Step("begin"), {"link_up"})
    BY <1>1, KeptOfEnter
  <1>2. CASE /\ At(w, "begin", "none") /\ armed' = Started(tm) /\ Go(w, Idle)
             /\ UNCHANGED <<state, queued, intrOn, link, ghosts>>
    <2>1. Runs(w)
      BY <1>2, ChainNames
    <2> QED
      BY <1>2, <2>1, KeptOfTimer
  <1> QED
    BY <1>1, <1>2 DEF BeginWork

(* The interrupts of a link that is up are among those that watch it. *)
LEMMA SuccessWatch ==
    /\ \A i \in DOMAIN SuccessIntrs : SuccessIntrs[i] \in WatchIntrs
    /\ DOMAIN SuccessIntrs = 1..Len(SuccessIntrs) /\ Len(SuccessIntrs) \in Nat
  <1>1. ASSUME NEW w \in {"high_ser", "llr_max", "llr_starved"}
        PROVE  Existing(w) \in Seq(WatchIntrs)
    <2>1. w \in Works => w \in WatchIntrs
      BY DEF Works, AnWorks, SettleWorks, PollWorks, Enders, WatchIntrs
    <2> QED
      BY <2>1 DEF Existing
  <1>2. <<"fault">> \in Seq(WatchIntrs)
    BY DEF WatchIntrs
  <1>3. /\ Existing("high_ser") \in Seq(WatchIntrs) /\ Existing("llr_max") \in Seq(WatchIntrs)
        /\ Existing("llr_starved") \in Seq(WatchIntrs)
    BY <1>1
  <1>4. SuccessIntrs \in Seq(WatchIntrs)
    BY <1>2, <1>3 DEF SuccessIntrs
  <1> QED
    BY <1>4

LEMMA KeptOfCheck ==
    ASSUME EndInv, Kept, NEW w \in {"up_check", "fec_check"} \cap Works, CheckWork(w)
    PROVE  Kept'
  <1>0. w \in Chain /\ Rank[w] < Rank["up_intr"]
    BY ChainNames, RankOf
  <1>1. CASE Enter(w, Rising, Step("check"), {"link_up"})
    BY <1>0, <1>1, KeptOfEnter
  <1>2. CASE /\ At(w, "check", "none") /\ armed' = Started("fec_settle") /\ Go(w, Idle)
             /\ UNCHANGED <<state, queued, intrOn, link, ghosts>>
    <2>1. Runs(w)
      BY <1>2, ChainNames
    <2>2. "fec_settle" # "link_up"
      OBVIOUS
    <2> QED
      BY <1>0, <1>2, <2>1, <2>2, KeptOfTimer
  <1>3. CASE /\ At(w, "check", "none") /\ UpAld /\ armed' = armed \ {"link_up"}
             /\ Go(w, Step("enable"))
             /\ UNCHANGED <<link, loose, due, ups>>
    <2>1. Runs(w) /\ Step("enable")[1] = "enable" /\ "enable" \in RunHeads
      BY <1>3, ChainNames, QueueNew
    <2>2. CASE intrOn' \subseteq intrOn \cup {"lane_degrade"} /\ UNCHANGED <<state, queued>>
      <3>1. intrOn' \cap MoveIntrs \subseteq intrOn
        BY <2>2 DEF MoveIntrs
      <3>2. HandsOver(Step("enable"))
        BY <1>3, <2>2, <3>1 DEF HandsOver
      <3>3. w \notin queued /\ state' \notin RestStates \cup {"UP"}
        BY <1>0, <2>1, <2>2, MovingAlone
      <3> QED
        BY <1>0, <1>3, <2>1, <2>2, <3>2, <3>3, ChainStep
    <2>3. CASE UpFail /\ UNCHANGED intrOn
      BY <1>0, <1>3, <2>1, <2>3, KeptOfFail
    <2> QED
      BY <1>3, <2>2, <2>3 DEF UpAld
  <1>4. CASE At(w, "check", "none") /\ FailUp(w, {"link_up"}) /\ UNCHANGED intrOn
    <2>1. Runs(w)
      BY <1>4, ChainNames
    <2> QED
      BY <1>0, <1>4, <2>1, KeptOfFailUp
  <1> QED
    BY <1>1, <1>2, <1>3, <1>4 DEF CheckWork

LEMMA KeptOfSuccess ==
    ASSUME EndInv, Kept, NEW w \in {"up_check", "fec_check"} \cap Works, UpSuccess(w)
    PROVE  Kept'
  <1>0. w \in Chain /\ Rank[w] < Rank["up_intr"]
    BY ChainNames, RankOf
  <1>n. /\ Step("publish")[1] = "publish" /\ "publish" \in RunHeads /\ Idle[1] = "idle"
        /\ <<"up_cb", "up">>[1] = "up_cb" /\ "up_cb" \notin RunHeads
    BY QueueNew, ChainNames DEF RunHeads
  <1>1. CASE /\ At(w, "enable", "none")
             /\ intrOn' = intrOn \cup {SuccessIntrs[i] : i \in DOMAIN SuccessIntrs}
             /\ Go(w, Step("publish"))
             /\ UNCHANGED <<state, queued, armed, link, ghosts>>
    <2>1. Runs(w) /\ pc[w][1] = "enable"
      BY <1>1, ChainNames
    <2>2. intrOn' \cap MoveIntrs \subseteq intrOn
      BY <1>1, SuccessWatch, ChainNames
    <2>3. HandsOver(Step("publish"))
      BY <1>1, <2>2 DEF HandsOver
    <2>4. w \notin queued /\ state' \notin RestStates \cup {"UP"}
      BY <1>0, <1>1, <2>1, MovingAlone
    <2> QED
      BY <1>0, <1>n, <1>1, <2>1, <2>3, <2>4, ChainStep
  <1>2. CASE /\ At(w, "enable", "none")
             /\ \E n \in 1..Len(SuccessIntrs) :
                   intrOn' = intrOn \cup {SuccessIntrs[i] : i \in 1..(n - 1)}
             /\ FailUp(w, {})
    <2>1. Runs(w)
      BY <1>2, ChainNames
    <2>2. PICK n \in 1..Len(SuccessIntrs) :
             intrOn' = intrOn \cup {SuccessIntrs[i] : i \in 1..(n - 1)}
      BY <1>2
    <2>3. 1..(n - 1) \subseteq DOMAIN SuccessIntrs
      BY SuccessWatch
    <2>4. intrOn' \cap MoveIntrs \subseteq intrOn
      BY <2>2, <2>3, SuccessWatch, ChainNames
    <2> QED
      BY <1>0, <1>2, <2>1, <2>4, KeptOfFailUp
  <1>3. CASE /\ At(w, "publish", "none") /\ state = "GOING_UP"
             /\ state' = "UP" /\ Go(w, <<"up_cb", "up">>) /\ UNCHANGED <<kernel, link, ghosts>>
    <2>1. Runs(w) /\ pc[w][1] = "publish" /\ UNCHANGED <<queued, armed, intrOn>>
      BY <1>3, ChainNames DEF kernel
    <2>2. HandsOver(<<"up_cb", "up">>)
      BY <2>1 DEF HandsOver
    <2>3. w \notin queued
      BY <1>0, <2>1, MovingAlone
    <2> QED
      BY <1>0, <1>n, <1>3, <2>1, <2>2, <2>3, ChainStep
  <1>4. CASE /\ At(w, "publish", "none") /\ Go(w, Idle) /\ UNCHANGED state
             /\ UNCHANGED <<kernel, link, ghosts>>
    <2>1. Runs(w) /\ UNCHANGED <<queued, armed, intrOn>>
      BY <1>4, ChainNames DEF kernel
    <2>2. Idle[1] \in (RunHeads \cup {"idle", "up_cb"}) \ {"begin", "enable", "publish"}
      BY <1>n
    <2> QED
      BY <1>0, <1>4, <2>1, <2>2, ChainGoes
  <1> QED
    BY <1>1, <1>2, <1>3, <1>4 DEF UpSuccess

-----------------------------------------------------------------------------
(* The works that watch the link, and the teardowns *)

LEMMA WatchStep ==
    ASSUME EndInv, Kept, NEW w \in Watches, w \in queued \/ pc[w] # Idle,
           NEW l \in {Idle, Step("rearm")}, Go(w, l),
           queued' \subseteq queued, armed' = armed, state' = state,
           intrOn' \cap MoveIntrs \subseteq intrOn,
           intrOn' \cap LinkIntrs \subseteq intrOn \/ state \notin Leaving
    PROVE  Kept'
  <1>0. /\ ShapeInv /\ LeadInv /\ w \in Threads /\ w \in Works /\ w \notin Ends /\ w \notin Chain
        /\ w \notin Clients
    BY ChainFacts, WorkFacts DEF EndInv
  <1>1. l # Step("up_cmd") /\ l # <<"queue", "down">>
    BY Heads
  <1>2. /\ pc'[w] = l /\ \A u \in Threads : u # w => pc'[u] = pc[u]
        /\ \A v \in Chain : Runs(v)' <=> Runs(v)
        /\ Calling' \subseteq Calling
        /\ DownLeads' => DownLeads
    BY <1>0, <1>1, KeptMoves DEF Ends
  <1>3. Moving' \subseteq Moving
    BY <1>2, MovingOf, MovingNext
  <1>4. ChainInv'
    BY <1>2, <1>3 DEF Kept, ChainInv
  <1>5. \A v \in Chain : pc'[v] = pc[v]
    BY <1>0, <1>2, ChainFacts, WorkFacts
  <1>6. FirstInv'
    BY <1>2, <1>5 DEF Kept, FirstInv
  <1>7. CalmInv'
    <2> SUFFICES ASSUME state' \in RestStates \cup {"UP"} \/ DownLeads'
                 PROVE  Calm'
      BY DEF CalmInv
    <2>1. Calm
      BY <1>2 DEF Kept, CalmInv
    <2> QED
      BY <1>3, <2>1 DEF Calm
  <1>8. TornInv'
    <2> SUFFICES ASSUME NEW u \in Ends
                 PROVE  Torn(u)'
      BY DEF TornInv
    <2>1. pc'[u] = pc[u] /\ Torn(u)
      BY <1>0, <1>2, WorkFacts DEF Kept, TornInv
    <2>2. ~Past(u, w)
      BY <1>0, <2>1 DEF Torn, Canceled
    <2>3. \A x \in Works : pc'[x] = pc[x] \/ pc'[x] = Idle \/ ~Past(u, x)
      BY <1>2, <2>2, WorkFacts
    <2>4. HasCut(u) => intrOn' \cap LinkIntrs \subseteq intrOn
      <3>1. HasCut(u) => state \in Leaving
        BY <1>0, TearFacts, CarrierFacts, OnlyLead
      <3> QED
        BY <3>1
    <2> QED
      BY <2>1, <2>3, <2>4, TornSame
  <1>9. RestInv'
    BY DEF Kept, RestInv
  <1> QED
    BY <1>4, <1>6, <1>7, <1>8, <1>9 DEF Kept

LEMMA WatchNames ==
    /\ Monitors \subseteq Watches /\ "fault" \in Watches
    /\ Monitors \cap MoveIntrs = {} /\ "fault" \notin MoveIntrs
  BY WorkNames, LinkOptionsAssumption
     DEF Watches, AttemptWorks, MoveIntrs, Works, AnWorks, SettleWorks, PollWorks, Enders

LEMMA KeptOfMonitorTake ==
    ASSUME EndInv, Kept, NEW w \in Monitors, MonitorTake(w)
    PROVE  Kept'
  <1>1. PICK l \in {Idle, Step("rearm")} : Go(w, l)
    BY DEF MonitorTake
  <1>2. w \in queued /\ queued' \subseteq queued
    BY DEF MonitorTake, Take
  <1> QED
    BY <1>1, <1>2, WatchNames, WatchStep DEF MonitorTake

LEMMA KeptOfRearm ==
    ASSUME EndInv, Kept, ~loose', NEW w \in Monitors \cup {"fault"}, Rearm(w)
    PROVE  Kept'
  <1>1. /\ w \in Watches /\ pc[w] # Idle /\ Go(w, Idle)
        /\ queued' = queued /\ armed' = armed /\ state' = state
    BY WatchNames DEF Rearm, At, Idle
  <1>2. intrOn' \cap MoveIntrs \subseteq intrOn
    BY WatchNames DEF Rearm
  <1>3. intrOn' \cap LinkIntrs \subseteq intrOn \/ state \notin Leaving
    BY DEF Rearm
  <1> QED
    BY <1>1, <1>2, <1>3, WatchStep

LEMMA KeptOfFaultWork ==
    ASSUME EndInv, Kept, ~loose', FaultPaths \subseteq {"rearm"}, NEW t \in FaultWorks,
           FaultWork(t) \/ Rearm(t) \/ FaultLinkDown(t)
    PROVE  Kept'
  <1>1. t = "fault"
    BY LinkOptionsAssumption
       DEF FaultWorks, Works, AnWorks, SettleWorks, PollWorks, Enders
  <1>2. ~FaultLinkDown(t)
    BY <1>1, WorkFacts DEF FaultLinkDown, At, EndInv, ShapeInv, WorkSteps
  <1>3. ~FaultRecover
    BY DEF FaultRecover
  <1>4. CASE FaultTake
    <2>1. Go(t, Step("rearm"))
      BY <1>1, <1>4 DEF FaultTake
    <2>2. t \in queued /\ queued' \subseteq queued
      BY <1>1, <1>4 DEF FaultTake, Take
    <2>3. UNCHANGED <<state, armed, intrOn>>
      BY <1>4 DEF FaultTake
    <2> QED
      BY <1>1, <2>1, <2>2, <2>3, WatchNames, WatchStep
  <1> QED
    BY <1>1, <1>2, <1>3, <1>4, KeptOfRearm DEF FaultWork

(* A teardown begins or goes on to the next work of its list. *)
LEMMA TearStep ==
    ASSUME EndInv, Kept, NEW t \in Ends, t \in queued \/ pc[t] # Idle,
           NEW l, Go(t, l), l[1] \in {"wait", "off"},
           queued' \subseteq queued, armed' \subseteq armed, intrOn' \subseteq intrOn,
           state' \notin RestStates \cup {"UP"}, Torn(t)',
           t = "down" => DownLeads
    PROVE  Kept'
  <1>0. ShapeInv /\ t \in Threads /\ t \in Works /\ t \notin Chain
    BY ChainFacts, WorkFacts DEF EndInv
  <1>1. l # Step("up_cmd") /\ l # <<"queue", "down">>
    BY Heads
  <1>2. /\ pc'[t] = l /\ \A u \in Threads : u # t => pc'[u] = pc[u]
        /\ \A v \in Chain : Runs(v)' <=> Runs(v)
        /\ Calling' \subseteq Calling
        /\ DownLeads' => DownLeads
    BY <1>0, <1>1, KeptMoves
  <1>3. Moving' \subseteq Moving
    BY <1>2, MovingOf, MovingNext
  <1>4. ChainInv'
    BY <1>2, <1>3 DEF Kept, ChainInv
  <1>5. \A v \in Chain : pc'[v] = pc[v]
    BY <1>0, <1>2, ChainFacts, WorkFacts
  <1>6. FirstInv'
    BY <1>2, <1>5 DEF Kept, FirstInv
  <1>7. CalmInv'
    <2> SUFFICES ASSUME DownLeads'
                 PROVE  Calm'
      BY DEF CalmInv
    <2>1. Calm
      BY <1>2 DEF Kept, CalmInv
    <2> QED
      BY <1>3, <2>1 DEF Calm
  <1>8. TornInv'
    <2> SUFFICES ASSUME NEW u \in Ends, u # t
                 PROVE  Torn(u)'
      BY DEF TornInv
    <2>1. pc'[u] = pc[u] /\ Torn(u)
      BY <1>0, <1>2, WorkFacts DEF Kept, TornInv
    <2>2. ~Past(u, t)
      BY <1>0, <2>1 DEF Torn, Canceled
    <2>3. \A x \in Works : pc'[x] = pc[x] \/ pc'[x] = Idle \/ ~Past(u, x)
      BY <1>2, <2>2, WorkFacts
    <2> QED
      BY <2>1, <2>3, TornSame
  <1>9. RestInv'
    BY DEF RestInv
  <1> QED
    BY <1>4, <1>6, <1>7, <1>8, <1>9 DEF Kept

LEMMA KeptOfTeardownStart ==
    ASSUME EndInv, Kept, NEW t \in Ends, TeardownStart(t)
    PROVE  Kept'
  <1> DEFINE first == CancelList[t][1]
  <1>0. t \in queued /\ pc[t] = Idle /\ t \in Threads /\ t \in Works
    BY WorkFacts DEF TeardownStart
  <1>1. CASE state \notin Claims[t]
    <2>1. /\ Go(t, Idle) /\ queued' \subseteq queued /\ UNCHANGED <<state, armed, intrOn>>
      BY <1>1 DEF TeardownStart
    <2>2. /\ Idle[1] \notin RunHeads /\ Idle[1] \notin {"wait", "off"} /\ Idle # Step("up_cmd")
          /\ t \notin Clients
      BY <1>0, Heads, WorkFacts DEF RunHeads
    <2> QED
      BY <1>0, <2>1, <2>2, FrameStep
  <1>2. CASE state \in Claims[t]
    <2> DEFINE l == <<"wait", first>>
    <2>1. /\ Go(t, l) /\ queued' = queued \ {t, first}
          /\ state' = IF t = "up_timeout" THEN "TIMEOUT" ELSE state
          /\ armed' = IF t = "down" THEN armed ELSE {}
          /\ intrOn' = IF t = "down" THEN intrOn \ WatchIntrs ELSE intrOn
      BY <1>2 DEF TeardownStart
    <2>2. state' \notin RestStates \cup {"UP"}
      BY <1>2, <2>1 DEF Claims, RestStates, Ends
    <2>3. t = "down" => DownLeads
      BY <1>0, DownLeadsFacts
    <2>4. pc'[t] = l
      BY <1>0, <2>1, Others DEF EndInv
    <2>5. \A v : At(t, "wait", v)' <=> v = first
      BY <2>4 DEF At
    <2>6. pc'[t][1] = "wait"
      BY <2>4
    <2>7. /\ \A x \in Listed(t) : Rank[first] <= Rank[x] /\ Rank[x] \in Nat
          /\ first \in Listed(t) /\ Rank[first] \in Nat
          /\ t \in Enders => Rank[first] < Rank["up_intr"]
      BY FirstRank, ListedFacts
    <2> HIDE DEF first
    <2>8. Canceled(t)'
      <3>1. \A x : ~Past(t, x)'
        <4> SUFFICES ASSUME NEW x, Past(t, x)'
                     PROVE  FALSE
          OBVIOUS
        <4>1. x \in Listed(t) /\ Rank[x] < Rank[first]
          BY <2>5, <2>6 DEF Past
        <4> QED
          BY <2>7, <4>1
      <3>2. first \notin queued'
        BY <2>1
      <3> QED
        BY <2>5, <3>1, <3>2 DEF Canceled
    <2>9. HasCut(t)' => (intrOn \cap LinkIntrs = {})'
      <3>1. CASE t \in Enders
        <4>1. ~(Rank["up_intr"] <= Rank[first])
          BY <2>7, <3>1, RankOf
        <4> QED
          BY <2>5, <2>6, <4>1 DEF HasCut
      <3>2. CASE t = "down"
        <4>1. Moving = {}
          BY <2>3, <3>2 DEF Kept, CalmInv, Calm
        <4>2. "link_up" \notin intrOn
          BY <4>1, MovingOf DEF MoveIntrs
        <4> QED
          BY <2>1, <3>2, <4>2 DEF LinkIntrs
      <3> QED
        BY <3>1, <3>2, WorkFacts
    <2>10. t \in Enders => armed' = {}
      BY <2>1 DEF Enders
    <2>11. Torn(t)'
      BY <2>8, <2>9, <2>10 DEF Torn
    <2>12. armed' \subseteq armed /\ intrOn' \subseteq intrOn /\ queued' \subseteq queued
      BY <2>1
    <2>13. l[1] \in {"wait", "off"}
      OBVIOUS
    <2> HIDE DEF l
    <2> QED
      BY <1>0, <2>1, <2>2, <2>3, <2>11, <2>12, <2>13, TearStep
  <1> QED
    BY <1>1, <1>2

LEMMA KeptOfTeardownWait ==
    ASSUME EndInv, Kept, NEW t \in Ends, TeardownWait(t)
    PROVE  Kept'
  <1>0. t \in Threads /\ t \in Works /\ UNCHANGED <<state, armed>> /\ Torn(t)
    BY WorkFacts DEF TeardownWait, Kept, TornInv
  <1>1. PICK w \in DOMAIN Following[t] :
           /\ Waited(t, "wait", w)
           /\ IF Following[t][w] = "none"
              THEN Go(t, Step("off")) /\ UNCHANGED <<queued, intrOn>>
              ELSE /\ Cancel(t, "wait", Following[t][w])
                   /\ intrOn' = IF Following[t][w] = "up_intr" THEN intrOn \ LinkIntrs
                                                               ELSE intrOn
    BY DEF TeardownWait
  <1>2. At(t, "wait", w) /\ pc[t][1] = "wait" /\ pc[t] # Idle /\ pc[w] = Idle /\ w \in Listed(t)
    BY <1>1, NextRank DEF Waited, At, Idle
  <1>3. /\ Leads(Run, t) /\ state \in Leaving /\ state \notin RestStates \cup {"UP"}
        /\ t = "down" => DownLeads
    <2>1. Leads(Run, t)
      BY <1>2, TearFacts
    <2>2. state \in Leaving
      BY <2>1, CarrierFacts, OnlyLead DEF EndInv
    <2> QED
      BY <2>1, <2>2, CarrierFacts DEF DownLeads, RestStates, Leaving
  <1>4. /\ t \in Enders => armed = {}
        /\ Canceled(t)
        /\ HasCut(t) => intrOn \cap LinkIntrs = {}
    BY <1>0, <1>3 DEF Torn
  <1>5. \A x \in Listed(t) : /\ x \in Works
                             /\ x = w \/ Rank[x] < Rank[w] =>
                                   x \notin queued /\ pc[x] = Idle /\ x # t
    BY <1>2, <1>4, ListedFacts DEF Canceled, Past
  <1>6. /\ \A x \in Listed(t) : Rank[x] \in Nat
        /\ "fault" \in Listed(t)
        /\ t \in Enders => "up_intr" \in Listed(t)
        /\ t = "down" => \A x \in Listed(t) : Rank["up_intr"] <= Rank[x]
    <2>1. \A x \in Listed(t) : Rank[x] \in Nat
      BY ListedFacts
    <2>2. "fault" \in Listed(t)
      BY WatchNames, ListedFacts
    <2>3. t \in Enders => "up_intr" \in Listed(t)
      BY ChainFacts, ChainNames, WorkNames
    <2>4. t = "down" => \A x \in Listed(t) : Rank["up_intr"] <= Rank[x]
      BY ListedFacts, RankOf
    <2> QED
      BY <2>1, <2>2, <2>3, <2>4
  <1>7. CASE Following[t][w] = "none"
    <2>1. /\ Go(t, Step("off")) /\ UNCHANGED <<queued, intrOn>>
          /\ Step("off")[1] \in {"wait", "off"}
      BY <1>1, <1>7, Heads
    <2>2. pc'[t] = Step("off") /\ \A u \in Threads : u # t => pc'[u] = pc[u]
      BY <1>0, <2>1, Others DEF EndInv
    <2>3. \A x \in Listed(t) : x \notin queued' /\ pc'[x] = Idle
      BY <1>5, <1>7, <2>1, <2>2, NextRank, WorkFacts
    <2>4. Canceled(t)'
      <3>1. \A x : ~At(t, "wait", x)'
        BY <2>2, Heads DEF At
      <3> QED
        BY <2>3, <3>1 DEF Canceled, Past
    <2>5. HasCut(t)
      <3>1. "fault" = w \/ Rank["fault"] < Rank[w]
        BY <1>6, <1>7, NextRank
      <3>2. Rank["up_intr"] <= Rank[w]
        BY <1>2, <1>6, <3>1, RankOf
      <3> QED
        BY <1>2, <3>2 DEF HasCut
    <2>6. Torn(t)'
      BY <1>0, <1>4, <2>1, <2>4, <2>5 DEF Torn
    <2> QED
      BY <1>0, <1>2, <1>3, <2>1, <2>6, TearStep
  <1>8. CASE Following[t][w] # "none"
    <2> DEFINE next == Following[t][w]
               l == <<"wait", next>>
    <2>1. /\ Go(t, l) /\ queued' = queued \ {next} /\ l[1] \in {"wait", "off"}
          /\ intrOn' = IF next = "up_intr" THEN intrOn \ LinkIntrs ELSE intrOn
      BY <1>1, <1>8 DEF Cancel
    <2>2. pc'[t] = l /\ \A u \in Threads : u # t => pc'[u] = pc[u]
      BY <1>0, <2>1, Others DEF EndInv
    <2>3. (\A v : At(t, "wait", v)' <=> v = next) /\ pc'[t][1] = "wait"
      BY <2>2 DEF At
    <2>4. /\ next \in Listed(t)
          /\ \A x \in Listed(t) : x = w \/ Rank[x] < Rank[w] \/ x = next \/ Rank[next] < Rank[x]
      BY <1>8, NextRank
    <2> HIDE DEF next, l
    <2>5. Canceled(t)'
      <3>1. ASSUME NEW x, Past(t, x)'
            PROVE  x \notin queued' /\ pc'[x] = Idle
        <4>1. x \in Listed(t) /\ Rank[x] < Rank[next]
          BY <2>3, <3>1 DEF Past
        <4>2. x = w \/ Rank[x] < Rank[w]
          BY <1>6, <2>4, <4>1
        <4> QED
          BY <1>5, <2>1, <2>2, <4>1, <4>2, WorkFacts
      <3> QED
        BY <2>1, <2>3, <3>1 DEF Canceled
    <2>6. HasCut(t)' => (intrOn \cap LinkIntrs = {})'
      <3> SUFFICES ASSUME Rank["up_intr"] <= Rank[next], next # "up_intr"
                   PROVE  HasCut(t)
        BY <1>4, <2>1, <2>3 DEF HasCut
      <3>1. Rank["up_intr"] <= Rank[w]
        <4>1. CASE t = "down"
          BY <1>2, <1>6, <4>1
        <4>2. CASE t \in Enders
          <5>1. "up_intr" = w \/ Rank["up_intr"] < Rank[w] \/ Rank[next] < Rank["up_intr"]
            BY <1>6, <2>4, <4>2
          <5> QED
            BY <1>2, <1>6, <2>4, <4>2, <5>1
        <4> QED
          BY <4>1, <4>2, WorkFacts
      <3> QED
        BY <1>2, <3>1 DEF HasCut
    <2>7. Torn(t)'
      BY <1>0, <1>4, <2>5, <2>6 DEF Torn
    <2> QED
      BY <1>0, <1>2, <1>3, <2>1, <2>7, TearStep
  <1> QED
    BY <1>7, <1>8

(* A teardown is over: it has canceled, disabled and stopped everything. *)
LEMMA KeptOfTeardownEnd ==
    ASSUME EndInv, Kept, ~loose', NEW t \in Ends, TeardownEnd(t)
    PROVE  Kept'
  <1> DEFINE l == IF t = "down" THEN Step("down_cb") ELSE <<"up_cb", "read">>
  <1>0. /\ t \in Threads /\ t \notin Chain /\ t \notin Watches /\ Torn(t)
        /\ ShapeInv /\ LeadInv
    <2>1. t \in Threads /\ t \notin Chain /\ t \notin Watches
      BY ChainFacts, WorkFacts
    <2>2. Torn(t)
      BY DEF Kept, TornInv
    <2>3. ShapeInv /\ LeadInv
      BY DEF EndInv
    <2> QED
      BY <2>1, <2>2, <2>3
  <1>1. /\ pc[t][1] = "off" /\ Go(t, l) /\ state' = "DOWN" /\ "an_page" \notin intrOn
        /\ UNCHANGED <<queued, armed, intrOn>>
    <2>1. "an_page" \notin intrOn
      BY DEF TeardownEnd
    <2>2. /\ At(t, "off", "none") /\ Go(t, l) /\ state' = "DOWN"
          /\ UNCHANGED <<queued, armed, intrOn>>
      BY DEF TeardownEnd, kernel
    <2> QED
      BY <2>1, <2>2, Heads
  <1>2. /\ l[1] \notin {"wait", "off"} /\ l # Step("up_cmd") /\ l # <<"queue", "down">>
    BY Heads DEF Step
  <1> HIDE DEF l
  <1>3. /\ Leads(Run, t) /\ HasCut(t)
        /\ \A x \in Listed(t) : x \notin queued /\ pc[x] = Idle
    <2>1. \A x \in Listed(t) : Past(t, x) /\ x \in Works
      BY <1>1, ListedFacts DEF Past
    <2> QED
      BY <1>0, <1>1, <2>1, TearFacts DEF HasCut, Torn, Canceled
  <1>4. /\ intrOn \cap WatchIntrs = {} /\ "link_up" \notin intrOn
        /\ t \in Enders => armed = {}
    BY <1>0, <1>3 DEF Torn, LinkIntrs
  <1>5. Calm
    <2>1. CASE t = "down"
      <3>1. DownLeads
        BY <1>3, <2>1, CarrierFacts DEF DownLeads
      <3> QED
        BY <3>1 DEF Kept, CalmInv
    <2>2. CASE t \in Enders
      <3>1. \A w \in Chain : w \notin queued /\ ~Runs(w)
        BY <1>3, <2>2, ChainFacts, Heads DEF Runs, RunHeads
      <3>2. armed = {} /\ intrOn \cap MoveIntrs = {}
        BY <1>1, <1>4, <2>2 DEF MoveIntrs
      <3>3. Moving = {}
        BY <3>1, <3>2, MovingOf
      <3> QED
        BY <3>2, <3>3 DEF Calm
    <2> QED
      BY <2>1, <2>2, WorkFacts
  <1>6. pc'[t] = l /\ \A u \in Threads : u # t => pc'[u] = pc[u]
    BY <1>0, <1>1, Others
  <1>7. Calm'
    <2>1. \A w \in Chain : Runs(w)' <=> Runs(w)
      BY <1>0, <1>1, KeptMoves
    <2>2. Moving' \subseteq Moving
      BY <1>1, <2>1, MovingOf, MovingNext
    <2> QED
      BY <1>1, <1>5, <2>2 DEF Calm
  <1>8. TornInv'
    <2> SUFFICES ASSUME NEW u \in Ends
                 PROVE  Torn(u)'
      BY DEF TornInv
    <2>1. CASE u = t
      BY <1>2, <1>6, <2>1, TearNext
    <2>2. CASE u # t
      <3>1. pc'[u] = pc[u] /\ Torn(u)
        BY <1>6, <2>2, WorkFacts DEF Kept, TornInv
      <3>2. ~Leads(Run, u)
        BY <1>0, <1>3, <2>2, CarrierFacts, OnlyLead
      <3>3. \A x \in Works : pc'[x] = pc[x] \/ pc'[x] = Idle \/ ~Past(u, x)
        BY <3>2, TearFacts
      <3> QED
        BY <1>1, <3>1, <3>3, TornSame
    <2> QED
      BY <2>1, <2>2
  <1>9. RestInv'
    <2>1. \A w \in Watches : w \notin queued' /\ pc'[w] = Idle
      BY <1>0, <1>1, <1>3, <1>6, ChainFacts, ListedFacts, WorkFacts
    <2> QED
      BY <1>1, <1>4, <2>1 DEF RestInv
  <1>10. ChainInv' /\ FirstInv' /\ CalmInv'
    BY <1>7 DEF ChainInv, FirstInv, CalmInv, Calm
  <1> QED
    BY <1>8, <1>9, <1>10 DEF Kept

LEMMA KeptOfLinkWork ==
    ASSUME EndInv, Kept, ~loose', FaultPaths \subseteq {"rearm"}, NEW t \in Works, LinkWork(t)
    PROVE  Kept'
  <1>0. "link_up" \notin {"up_check", "fec_check"}
    OBVIOUS
  <1>1. CASE t = "an_up_start" /\ AnUpStartWork
    BY <1>1, KeptOfAnUpStart
  <1>2. CASE t = "an_up" /\ AnUpWork
    BY <1>2, KeptOfAnUp
  <1>3. CASE t = "an_up_done" /\ AnUpDoneWork
    BY <1>3, KeptOfAnUpDone
  <1>4. CASE t \in {"an_up_start", "an_up_done"} /\ UpAfterAnStart(t)
    BY <1>4, KeptOfUpAfterAn
  <1>5. CASE t = "up_start" /\ UpStartWork
    BY <1>5, KeptOfUpStart
  <1>6. CASE t = "up" /\ UpWork
    BY <1>6, KeptOfUp
  <1>7. CASE t = "up_intr" /\ BeginWork(t, "up_check")
    BY <1>0, <1>7, ChainNames, KeptOfBegin
  <1>8. CASE t = "fec_settle" /\ BeginWork(t, "fec_check")
    BY <1>0, <1>8, ChainNames, KeptOfBegin
  <1>9. CASE t \in {"up_check", "fec_check"} /\ (CheckWork(t) \/ UpSuccess(t))
    BY <1>9, KeptOfCheck, KeptOfSuccess
  <1>10. CASE t \in DOMAIN CancelList /\ Teardown(t)
    BY <1>10, WorkFacts, KeptOfTeardownStart, KeptOfTeardownWait, KeptOfTeardownEnd
       DEF Teardown
  <1>11. CASE t \in Monitors /\ (MonitorTake(t) \/ Rearm(t))
    BY <1>11, KeptOfMonitorTake, KeptOfRearm
  <1>12. CASE t \in FaultWorks /\ (FaultWork(t) \/ Rearm(t) \/ FaultLinkDown(t))
    BY <1>12, KeptOfFaultWork
  <1> QED
    BY <1>1, <1>2, <1>3, <1>4, <1>5, <1>6, <1>7, <1>8, <1>9, <1>10, <1>11, <1>12
       DEF LinkWork

LEMMA KeptOfCallback ==
    ASSUME EndInv, Kept, NEW t \in Works, Callback(t)
    PROVE  Kept'
  <1>1. t \in Threads /\ t \notin Clients /\ pc[t][1] \in WorkSteps(t) /\ pc[t] # Idle
    BY WorkFacts DEF EndInv, ShapeInv, Callback
  <1>2. ~FaultStart(t)
    BY <1>1 DEF FaultStart, At, WorkSteps, CallbackSteps
  <1>3. PICK l \in {Idle, AfterUpCallback(t)} : Go(t, l)
    BY <1>2 DEF Callback, CallbackReturns
  <1>4. UNCHANGED <<state, queued, armed, intrOn>>
    BY <1>2 DEF Callback, CallbackReturns, kernel
  <1>5. /\ l[1] \in {"idle", "down_cb"} /\ (t \in Watches => l = Idle)
    BY <1>3, Heads, ChainFacts DEF AfterUpCallback, Ends
  <1>6. l[1] \notin RunHeads /\ l[1] \notin {"wait", "off"} /\ l # Step("up_cmd")
    BY <1>5, Heads DEF RunHeads
  <1> QED
    BY <1>1, <1>3, <1>4, <1>5, <1>6, FrameStep

-----------------------------------------------------------------------------
(* The clients, the timers and the interrupts *)

LEMMA KeptOfClientGoes ==
    ASSUME EndInv, Kept, NEW c \in Clients, NEW l, Go(c, l), UNCHANGED kernel,
           l # Step("up_cmd") \/ Calm,
           state' \in RestStates \cup {"UP"} \/ l = <<"queue", "down">> =>
              state \in RestStates \cup {"UP"},
           state' \in RestStates => state \in RestStates
    PROVE  Kept'
  <1>1. c \in Threads /\ c \notin Works /\ c \notin Ends /\ c \notin Chain /\ c \notin Watches
    BY WorkFacts, ChainFacts
  <1>2. UNCHANGED <<queued, armed, intrOn>>
    BY DEF kernel
  <1> QED
    BY <1>1, <1>2, FrameStep

LEMMA KeptOfAccept ==
    ASSUME EndInv, Kept, NEW t \in Threads, UpAccept(t), t \in Works => pc[t] # Idle
    PROVE  Kept'
  <1>1. Calm /\ state' \notin RestStates \cup {"UP"}
    BY DEF UpAccept, Kept, CalmInv, RestStates
  <1>2. Go(t, Step("up_cmd")) /\ UNCHANGED <<queued, armed, intrOn>>
    BY DEF UpAccept, kernel
  <1>3. /\ Step("up_cmd")[1] \notin RunHeads /\ Step("up_cmd")[1] \notin {"wait", "off"}
        /\ Step("up_cmd") # <<"queue", "down">>
    BY Heads DEF RunHeads
  <1> QED
    BY <1>1, <1>2, <1>3, FrameStep

LEMMA KeptOfTake ==
    ASSUME EndInv, Kept, NEW c \in Clients, CancelAccept(c) \/ DownAccept(c),
           UNCHANGED <<kernel, link, ghosts>>
    PROVE  Kept'
  <1>0. /\ Step("up_cmd") # <<"queue", "down">> /\ <<"queue", "up_cancel">> # Step("up_cmd")
        /\ <<"queue", "down">> # Step("up_cmd")
        /\ <<"queue", "up_cancel">> # <<"queue", "down">>
    BY Heads DEF Step
  <1>1. CASE CancelAccept(c)
    <2>1. state' \notin RestStates \cup {"UP"}
      BY <1>1 DEF CancelAccept, RestStates
    <2> QED
      BY <1>0, <1>1, <2>1, KeptOfClientGoes DEF CancelAccept
  <1>2. CASE DownAccept(c)
    <2>1. state' \notin RestStates \cup {"UP"} /\ state \in RestStates \cup {"UP"}
      BY <1>2 DEF DownAccept, RestStates
    <2> QED
      BY <1>0, <1>2, <2>1, KeptOfClientGoes DEF DownAccept
  <1> QED
    BY <1>1, <1>2

LEMMA KeptOfConfigSet ==
    ASSUME EndInv, Kept, NEW c \in Clients, ConfigSet(c)
    PROVE  Kept'
  <1>1. state \in RestStates
    BY DEF ConfigSet, RestStates
  <1>2. Step("config") # Step("up_cmd") /\ Step("config") # <<"queue", "down">>
    BY Heads DEF Step
  <1> QED
    BY <1>1, <1>2, KeptOfClientGoes DEF ConfigSet

LEMMA KeptOfCall ==
    ASSUME EndInv, Kept, NEW c \in Clients, ClientCall(c)
    PROVE  Kept'
  <1>1. c \in Threads /\ c \notin Works
    BY WorkFacts
  <1> QED
    BY <1>1, KeptOfAccept, KeptOfTake, KeptOfConfigSet DEF ClientCall

(* A work is queued that carries no attempt, at most by a thread whose       *)
(* command ends with it.                                                     *)
Returns(u) ==
    \/ u \in Clients /\ pc'[u] = Idle
    \/ pc[u] = Step("up_cmd") /\ pc'[u] \in {Idle, Step("down_cb")}

LEMMA QueueStep ==
    ASSUME EndInv, Kept, NEW v, v \notin Chain, v \notin Firsts,
           queued' \subseteq queued \cup {v}, armed' \subseteq armed, intrOn' \subseteq intrOn,
           \A u \in Threads : pc'[u] = pc[u] \/ Returns(u),
           state' = state \/ (state \in Rising /\ state' = "GOING_DOWN"),
           v \in queued' \ queued =>
              /\ \A u \in Ends : ~Past(u, v) /\ ~At(u, "wait", v)
              /\ v = "down" => DownLeads
              /\ v \in Watches => state' \notin RestStates
    PROVE  Kept'
  <1>1. /\ \A u \in Works : \/ pc'[u] = pc[u]
                              \/ /\ pc[u][1] = "up_cmd" /\ pc[u] # Idle
                                 /\ pc'[u][1] \in {"idle", "down_cb"}
        /\ \A u \in Clients : pc'[u] = <<"queue", "down">> => pc[u] = <<"queue", "down">>
        /\ Calling' \subseteq Calling
    BY WorkFacts, Heads DEF Calling, Idle, Step, Returns
  <1>2. \A w \in Chain : pc'[w] = pc[w] \/ pc'[w][1] \notin RunHeads
    BY <1>1, ChainFacts DEF RunHeads
  <1>3. \A w \in Chain : Runs(w)' => Runs(w)
    BY <1>2 DEF Runs
  <1>4. Moving' \subseteq Moving
    BY <1>3, MovingOf, MovingNext
  <1>5. ChainInv'
    BY <1>1, <1>4 DEF Kept, ChainInv
  <1>6. FirstInv'
    <2>1. \A w \in Chain : pc'[w] = pc[w] \/ pc'[w][1] \notin {"begin", "enable", "publish"}
      BY <1>2 DEF RunHeads
    <2> QED
      BY <1>1, <2>1 DEF Kept, FirstInv
  <1>7. DownLeads' => DownLeads
    <2>1. pc'["down"] = pc["down"] \/ pc'["down"][1] \notin {"wait", "off"}
      BY <1>1, WorkFacts DEF Ends
    <2> QED
      BY <1>1, <2>1, DownLeadsFacts
  <1>8. CalmInv'
    <2> SUFFICES ASSUME state' \in RestStates \cup {"UP"} \/ DownLeads'
                 PROVE  Calm'
      BY DEF CalmInv
    <2>1. Calm
      BY <1>7 DEF Kept, CalmInv, RestStates
    <2> QED
      BY <1>4, <2>1 DEF Calm
  <1>9. TornInv'
    <2> SUFFICES ASSUME NEW u \in Ends
                 PROVE  Torn(u)'
      BY DEF TornInv
    <2>1. CASE pc'[u] # pc[u]
      BY <1>1, <2>1, TearNext, WorkFacts
    <2>2. CASE pc'[u] = pc[u]
      <3>1. Torn(u)
        BY DEF Kept, TornInv
      <3>2. \A x \in Works : pc'[x] = pc[x] \/ ~Past(u, x)
        BY <1>1, <3>1 DEF Torn, Canceled
      <3> QED
        BY <2>2, <3>1, <3>2, TornSame
    <2> QED
      BY <2>1, <2>2
  <1>10. RestInv'
    <2> SUFFICES ASSUME state' \in RestStates
                 PROVE  /\ intrOn' \cap WatchIntrs = {}
                        /\ \A w \in Watches : w \notin queued' /\ pc'[w] = Idle
      BY DEF RestInv
    <2>1. state' = state
      BY DEF RestStates
    <2> QED
      BY <1>1, <2>1, ChainFacts DEF Kept, RestInv
  <1> QED
    BY <1>5, <1>6, <1>8, <1>9, <1>10 DEF Kept

LEMMA KeptStill ==
    ASSUME EndInv, Kept, UNCHANGED <<state, queued, pc, armed, intrOn>>
    PROVE  Kept'
  <1>1. "none" \notin Chain \cup Firsts
    BY LinkOptionsAssumption
       DEF Firsts, Chain, AttemptWorks, Works, AnWorks, SettleWorks, PollWorks, Enders
  <1> QED
    BY <1>1, QueueStep

LEMMA NobodyTears ==
    ASSUME \A u \in Ends : ~Leads(Run, u)
    PROVE  \A u \in Ends : \A x : ~Past(u, x) /\ ~At(u, "wait", x)
  BY TearFacts

LEMMA CommandNames ==
    /\ Ends \cap (Chain \cup Firsts \cup Watches) = {}
    /\ {"up_cancel", "down", "up_fail", "up_timeout"} \subseteq Ends
  BY ChainFacts DEF Ends, Firsts

LEMMA KeptOfUpCmd ==
    ASSUME EndInv, Kept, ~loose', NEW c \in Threads, NEW l \in {Idle, Step("down_cb")},
           UpCmd(c, l)
    PROVE  Kept'
  <1>0. /\ c \in Threads /\ pc[c] = Step("up_cmd") /\ Go(c, l)
        /\ pc[c] # Idle /\ l[1] \in {"idle", "down_cb"}
        /\ UNCHANGED <<armed, intrOn>> /\ ShapeInv /\ LeadInv
    BY Heads DEF UpCmd, At, Step, Idle, EndInv
  <1>1. /\ pc'[c] = l /\ \A u \in Threads : u # c => pc'[u] = pc[u]
        /\ \A u \in Threads : pc'[u] = pc[u] \/ Returns(u)
    BY <1>0, Others DEF Returns
  <1>2. CASE UpFail
    <2>1. /\ queued' \subseteq queued \cup {"up_fail"}
          /\ \A x \in queued' \ queued : state \in Rising
          /\ state' = state \/ (state \in Rising /\ state' = "GOING_DOWN")
      BY <1>2 DEF UpFail, QueueWork
    <2>2. "up_fail" \in queued' \ queued => \A u \in Ends : ~Leads(Run, u)
      <3>1. state \in Rising => state \notin Leaving
        BY StateFacts
      <3> QED
        BY <1>0, <2>1, <3>1, NoLead, CarrierFacts
    <2>3. "up_fail" \notin Chain \cup Firsts \cup Watches /\ "up_fail" # "down"
      BY CommandNames
    <2> QED
      BY <1>0, <1>1, <2>1, <2>2, <2>3, NobodyTears, QueueStep
  <1>3. CASE /\ QueueWork(IF autoneg THEN "an_up_start" ELSE "up_start")
             /\ loose' = (loose \/ state \notin Rising
                              \/ \E d \in DOMAIN pc \ {c} : At(d, "up_cmd", "none"))
             /\ UNCHANGED <<state, fails>>
    <2> DEFINE v == IF autoneg THEN "an_up_start" ELSE "up_start"
    <2>1. /\ v \in Firsts /\ queued' \subseteq queued \cup {v} /\ state' = state
          /\ state \in Rising /\ \A d \in Threads \ {c} : pc[d] # Step("up_cmd")
      <3>1. DOMAIN pc = Threads
        BY <1>0 DEF ShapeInv
      <3> QED
        BY <1>3, <3>1 DEF QueueWork, Firsts, At, Step
    <2> HIDE DEF v
    <2>2. Calling = {c} /\ Calling' = {}
      BY <1>0, <1>1, <2>1, Heads DEF Calling, Step
    <2>3. Moving = {} /\ "link_up" \notin armed
      BY <2>2 DEF Kept, ChainInv, FirstInv
    <2>4. \A w \in Chain : pc'[w] = pc[w] \/ pc'[w][1] \notin RunHeads
      BY <1>0, <1>1, ChainFacts, WorkFacts DEF RunHeads
    <2>5. \A w \in Chain : Runs(w)' => Runs(w)
      BY <2>4 DEF Runs
    <2>6. \A x \in Moving' : x = <<"queued", v>>
      BY <1>0, <2>1, <2>3, <2>5, MovingOf, MovingNext
    <2>7. ChainInv' /\ FirstInv'
      BY <1>0, <2>2, <2>3, <2>6 DEF ChainInv, FirstInv
    <2>8. state \notin Leaving /\ state' \notin RestStates \cup {"UP"}
      BY <2>1, StateFacts DEF RestStates, Rising
    <2>9. ~DownLeads'
      <3>1. ~DownLeads
        BY <1>0, <2>8, NoLead DEF DownLeads, Ends
      <3>2. v # "down" /\ v \in Firsts
        BY <2>1, CommandNames DEF Ends
      <3>3. \A d \in Clients : pc'[d] = pc[d] \/ pc'[d] # <<"queue", "down">>
        BY <1>0, <1>1, WorkFacts
      <3>4. pc'["down"] = pc["down"] \/ pc'["down"][1] \notin {"wait", "off"}
        BY <1>0, <1>1, WorkFacts DEF Ends
      <3> QED
        BY <2>1, <3>1, <3>2, <3>3, <3>4, DownLeadsFacts
    <2>10. TornInv'
      <3> SUFFICES ASSUME NEW u \in Ends
                   PROVE  Torn(u)'
        BY DEF TornInv
      <3>1. /\ ~Leads(Run, u)
            /\ pc'[u] = pc[u] \/ pc'[u][1] \notin {"wait", "off"}
        BY <1>0, <1>1, <2>8, NoLead, CarrierFacts, WorkFacts
      <3> QED
        BY <3>1, TearFacts, TearNext
    <2>11. CalmInv' /\ RestInv'
      BY <2>8, <2>9 DEF CalmInv, RestInv
    <2> QED
      BY <2>7, <2>10, <2>11 DEF Kept
  <1> QED
    BY <1>2, <1>3 DEF UpCmd

LEMMA KeptOfClientStep ==
    ASSUME EndInv, Kept, ~loose', NEW c \in Clients, ClientStep(c)
    PROVE  Kept'
  <1>0. c \in Threads /\ c \notin Works /\ ShapeInv /\ LeadInv
    BY WorkFacts DEF EndInv
  <1>1. CASE UpCmd(c, Idle)
    BY <1>0, <1>1, KeptOfUpCmd
  <1>2. CASE ConfigEnd(c)
    <2>1. state \in RestStates /\ Idle # Step("up_cmd") /\ Idle # <<"queue", "down">>
      BY <1>2 DEF ConfigEnd, EndInv, ConfigInv, RestStates, Idle, Step
    <2> QED
      BY <1>2, <2>1, KeptOfClientGoes DEF ConfigEnd
  <1>3. CASE QueueEnd(c)
    <2>1. PICK w \in {"up_cancel", "down"} : At(c, "queue", w) /\ QueueWork(w)
      BY <1>3 DEF QueueEnd
    <2>2. Go(c, Idle) /\ UNCHANGED <<state, armed, intrOn>> /\ queued' \subseteq queued \cup {w}
      BY <1>3, <2>1 DEF QueueEnd, QueueWork
    <2>3. \A u \in Threads : pc'[u] = pc[u] \/ Returns(u)
      BY <1>0, <2>2, Others DEF Returns
    <2>4. Leads(<<"call", c>>, w) /\ w \in Ends
      BY <2>1 DEF Leads, At, Ends
    <2>5. \A u \in Ends : ~Leads(Run, u)
      BY <1>0, <2>4, CarrierFacts, OnlyLead
    <2>6. w = "down" => DownLeads
      BY <2>4, CarrierFacts DEF DownLeads
    <2>7. w \notin Chain \cup Firsts \cup Watches
      BY CommandNames
    <2> QED
      BY <2>2, <2>3, <2>5, <2>6, <2>7, NobodyTears, QueueStep
  <1> QED
    BY <1>1, <1>2, <1>3 DEF ClientStep

(* A timer or an interrupt hands the attempt over to the work it queues. *)
LEMMA TokenStep ==
    ASSUME EndInv, Kept, NEW k \in {"timer", "intr"}, NEW x, <<k, x>> \in Moving,
           NEW v, v \notin Firsts, v \notin Watches, v # "down",
           pc' = pc, state' = state, queued' \subseteq queued \cup {v},
           armed' \subseteq armed, intrOn' \subseteq intrOn,
           <<k, x>> \notin Moving',
           v \in queued' \ queued => \A u \in Ends : ~Past(u, v) /\ ~At(u, "wait", v)
    PROVE  Kept'
  <1>1. /\ Calling = {} /\ queued \cap Chain = {} /\ \A w \in Chain : ~Runs(w)
        /\ \A w \in armed : w = "link_up" \/ (k = "timer" /\ w = x)
        /\ \A w \in intrOn \cap MoveIntrs : k = "intr" /\ w = x
    <2>1. k # "queued" /\ k # "run"
      OBVIOUS
    <2> QED
      BY <2>1, MovingOnly DEF Kept
  <1>2. \A w \in Chain : ~Runs(w)'
    BY <1>1 DEF Runs
  <1>3. \A y \in Moving' : y = <<"queued", v>>
    <2> SUFFICES ASSUME NEW n, NEW w, <<n, w>> \in Moving'
                 PROVE  n = "queued" /\ w = v
      BY MovingNext
    <2>1. CASE n = "queued"
      BY <1>1, <2>1, MovingNext
    <2>2. n # "run"
      BY <1>2, MovingNext
    <2>3. n # "timer"
      <3> SUFFICES ASSUME n = "timer"
                   PROVE  FALSE
        OBVIOUS
      <3>1. w \in armed' /\ w # "link_up"
        BY MovingNext
      <3>2. k = "timer" /\ w = x
        BY <1>1, <3>1
      <3> QED
        BY <3>2
    <2>4. n # "intr"
      <3> SUFFICES ASSUME n = "intr"
                   PROVE  FALSE
        OBVIOUS
      <3>1. w \in intrOn' \cap MoveIntrs
        BY MovingNext
      <3>2. k = "intr" /\ w = x
        BY <1>1, <3>1
      <3> QED
        BY <3>2
    <2> QED
      BY <2>1, <2>2, <2>3, <2>4, MovingNext
  <1>4. Calling' = {}
    BY <1>1 DEF Calling
  <1>5. ChainInv'
    BY <1>3, <1>4 DEF ChainInv
  <1>6. FirstInv'
    BY <1>4 DEF Kept, FirstInv
  <1>7. state \notin RestStates \cup {"UP"} /\ ~DownLeads
    BY DEF Kept, CalmInv, Calm
  <1>8. ~DownLeads'
    BY <1>7, DownLeadsFacts
  <1>9. TornInv'
    <2> SUFFICES ASSUME NEW u \in Ends
                 PROVE  Torn(u)'
      BY DEF TornInv
    <2>1. Torn(u)
      BY DEF Kept, TornInv
    <2> QED
      BY <2>1, TornSame
  <1>10. CalmInv' /\ RestInv'
    BY <1>7, <1>8 DEF CalmInv, RestInv
  <1> QED
    BY <1>5, <1>6, <1>9, <1>10 DEF Kept

LEMMA KeptOfTimerExpire ==
    ASSUME EndInv, Kept, NEW tm \in DOMAIN TimerWork, TimerExpire(tm)
    PROVE  Kept'
  <1> DEFINE v == TimerWork[tm]
  <1>0. /\ tm \in armed /\ armed' = armed \ {tm} /\ QueueWork(v)
        /\ queued' \subseteq queued \cup {v} /\ UNCHANGED <<state, pc, intrOn>>
    BY QueueNew DEF TimerExpire
  <1>1. ~Calm
    BY <1>0 DEF Calm
  <1>2. \A u \in Ends : ~Leads(Run, u)
    <2> SUFFICES ASSUME NEW u \in Ends, Leads(Run, u)
                 PROVE  FALSE
      OBVIOUS
    <2>1. CASE u \in Enders
      BY <1>0, <2>1 DEF Kept, TornInv, Torn
    <2>2. CASE u = "down"
      <3>1. DownLeads
        BY <2>2, CarrierFacts DEF DownLeads
      <3> QED
        BY <1>1, <3>1 DEF Kept, CalmInv
    <2> QED
      BY <2>1, <2>2, WorkFacts
  <1>3. CASE tm = "link_up"
    <2>1. v \notin Chain \cup Firsts \cup Watches /\ v # "down"
      BY <1>3, CommandNames DEF TimerWork
    <2> HIDE DEF v
    <2> QED
      BY <1>0, <1>2, <2>1, NobodyTears, QueueStep
  <1>4. CASE tm # "link_up"
    <2>1. v \in {"up_check", "fec_settle", "fec_check", "up"}
      BY <1>4 DEF TimerWork
    <2>2. v \notin Firsts /\ v \notin Watches /\ v # "down"
      BY <2>1, LinkOptionsAssumption
         DEF Firsts, Watches, AttemptWorks, Works, AnWorks, SettleWorks, PollWorks, Enders
    <2>3. <<"timer", tm>> \in Moving /\ <<"timer", tm>> \notin Moving'
      BY <1>0, <1>4, MovingOf, MovingNext
    <2> HIDE DEF v
    <2> QED
      BY <1>0, <1>2, <2>2, <2>3, NobodyTears, TokenStep
  <1> QED
    BY <1>3, <1>4

LEMMA CutBefore ==
    ASSUME NEW t \in Ends, NEW x \in Works \ {"down"}, Rank["up_intr"] <= Rank[x],
           Past(t, x) \/ At(t, "wait", x), x \in Listed(t)
    PROVE  HasCut(t)
  <1>1. \A w \in Listed(t) : Rank[w] \in Nat
    BY ListedFacts
  <1>2. CASE At(t, "wait", x)
    BY <1>2 DEF HasCut
  <1>3. CASE pc[t][1] = "off"
    BY <1>3 DEF HasCut
  <1>4. ASSUME NEW w \in Listed(t), At(t, "wait", w), Rank[x] < Rank[w]
        PROVE  HasCut(t)
    <2>1. Rank["up_intr"] <= Rank[w]
      BY <1>1, <1>4, RankOf
    <2> QED
      BY <1>4, <2>1 DEF HasCut
  <1> QED
    BY <1>2, <1>3, <1>4 DEF Past

LEMMA KeptOfIntr ==
    ASSUME EndInv, Kept, ~loose', NEW i \in DOMAIN IntrWork, IntrFire(i)
    PROVE  Kept'
  <1> DEFINE v == IntrWork[i]
  <1>0. /\ i \in intrOn /\ intrOn' = intrOn \ {i} /\ QueueWork(v)
        /\ queued' \subseteq queued \cup {v} /\ UNCHANGED <<state, pc, armed>>
        /\ \A x \in queued' \ queued : x = v /\ ~Held(x)
    BY QueueNew DEF IntrFire
  <1>1. \A u \in Ends : HasCut(u) => i \notin LinkIntrs
    BY <1>0 DEF Kept, TornInv, Torn
  <1>2. v \in queued' \ queued => \A u \in Ends : ~At(u, "wait", v)
    <2>1. Ends \subseteq DOMAIN pc
      BY WorkFacts DEF EndInv, ShapeInv
    <2> QED
      BY <1>0, <2>1 DEF Held
  <1>3. CASE i = "an_page"
    <2>1. v = "an_up_done" /\ i \in MoveIntrs
      BY <1>3 DEF IntrWork, MoveIntrs
    <2>2. v \notin Firsts /\ v \notin Watches /\ v # "down"
      BY <2>1, LinkOptionsAssumption
         DEF Firsts, Watches, AttemptWorks, Works, AnWorks, SettleWorks, PollWorks, Enders
    <2>3. <<"intr", i>> \in Moving /\ <<"intr", i>> \notin Moving'
      BY <1>0, <2>1, MovingOf, MovingNext
    <2>4. state = "AN"
      BY <1>3 DEF IntrFire
    <2>5. \A u \in Ends : ~Leads(Run, u)
      <3>1. state \notin Leaving
        BY <2>4 DEF Leaving
      <3> QED
        BY <3>1, NoLead, CarrierFacts DEF EndInv
    <2> HIDE DEF v
    <2> QED
      BY <1>0, <2>2, <2>3, <2>5, NobodyTears, TokenStep
  <1>4. CASE i = "link_up"
    <2>1. v = "up_intr" /\ i \in MoveIntrs /\ i \in LinkIntrs
      BY <1>4 DEF IntrWork, MoveIntrs, LinkIntrs
    <2>2. v \notin Firsts /\ v \notin Watches /\ v # "down" /\ v \in Works
      BY <2>1, WorkNames, LinkOptionsAssumption
         DEF Firsts, Watches, AttemptWorks, Works, AnWorks, SettleWorks, PollWorks, Enders
    <2>3. <<"intr", i>> \in Moving /\ <<"intr", i>> \notin Moving'
      BY <1>0, <2>1, MovingOf, MovingNext
    <2>4. \A u \in Ends : ~Past(u, v)
      <3> SUFFICES ASSUME NEW u \in Ends, Past(u, v)
                   PROVE  FALSE
        OBVIOUS
      <3>1. v \in Listed(u) /\ Rank["up_intr"] <= Rank[v]
        BY <2>1, RankOf DEF Past
      <3> QED
        BY <1>1, <2>1, <2>2, <3>1, CutBefore
    <2> HIDE DEF v
    <2> QED
      BY <1>0, <1>2, <2>2, <2>3, <2>4, TokenStep
  <1>5. CASE i \notin {"an_page", "link_up"}
    <2>1. v = i /\ i \in Monitors \cup {"fault"}
      BY <1>5 DEF IntrWork
    <2>2. i \in Watches /\ i \in LinkIntrs /\ i \in WatchIntrs
      BY <2>1, WatchNames DEF LinkIntrs, WatchIntrs
    <2>3. /\ v \notin Chain /\ v \notin Firsts /\ v # "down" /\ v \in Works
      BY <2>1, <2>2, ChainFacts, LinkOptionsAssumption, WorkNames DEF Firsts, Ends
    <2>4. \A u \in Ends : ~Past(u, v) /\ ~At(u, "wait", v)
      <3> SUFFICES ASSUME NEW u \in Ends, Past(u, v) \/ At(u, "wait", v)
                   PROVE  FALSE
        OBVIOUS
      <3>1. v \in Listed(u) /\ Rank["up_intr"] <= Rank[v]
        BY <2>1, <2>2, ListedFacts, RankOf
      <3> QED
        BY <1>1, <2>2, <2>3, <3>1, CutBefore
    <2>5. state' \notin RestStates
      BY <1>0, <2>2 DEF Kept, RestInv
    <2> HIDE DEF v
    <2> QED
      BY <1>0, <2>3, <2>4, <2>5, QueueStep
  <1> QED
    BY <1>3, <1>4, <1>5

-----------------------------------------------------------------------------
(* The invariant and what it means *)

LEMMA KeptOfNext ==
    ASSUME EndInv, Kept, ~loose', FaultPaths \subseteq {"rearm"}, [Next]_vars
    PROVE  Kept'
  <1>1. CASE \E c \in Clients : ClientCall(c) \/ ClientStep(c)
    BY <1>1, KeptOfCall, KeptOfClientStep
  <1>2. CASE \E t \in Works : WorkStep(t)
    BY <1>2, KeptOfLinkWork, KeptOfCallback DEF WorkStep
  <1>3. CASE \E tm \in DOMAIN TimerWork : TimerExpire(tm)
    BY <1>3, KeptOfTimerExpire
  <1>4. CASE \E i \in DOMAIN IntrWork : IntrFire(i)
    BY <1>4, KeptOfIntr
  <1>5. CASE UNCHANGED vars
    BY <1>5, KeptStill DEF vars
  <1> QED
    BY <1>1, <1>2, <1>3, <1>4, <1>5 DEF Next

(* What is loose stays loose. *)
LEMMA LooseOfWork ==
    ASSUME loose, NEW t \in Works, LinkWork(t)
    PROVE  loose'
  <1>1. ASSUME NEW w, NEW tm, FailUp(w, tm)
        PROVE  loose'
    BY <1>1 DEF FailUp
  <1>2. ASSUME NEW w, NEW ss, NEW l, NEW tm, Enter(w, ss, l, tm)
        PROVE  loose'
    BY <1>2 DEF Enter, ghosts
  <1>3. CASE AnUpStartWork \/ AnUpWork \/ AnUpDoneWork \/ UpAfterAnStart(t)
    BY <1>1, <1>2, <1>3
       DEF AnUpStartWork, AnUpWork, AnUpDoneWork, UpAfterAnStart, ghosts
  <1>4. CASE UpStartWork \/ UpWork \/ BeginWork(t, "up_check") \/ BeginWork(t, "fec_check")
    BY <1>1, <1>2, <1>4 DEF UpStartWork, UpWork, BeginWork, ghosts
  <1>5. CASE CheckWork(t) \/ UpSuccess(t)
    BY <1>1, <1>2, <1>5 DEF CheckWork, UpSuccess, ghosts
  <1>6. CASE Teardown(t)
    BY <1>6 DEF Teardown, TeardownStart, TeardownWait, TeardownEnd, ghosts
  <1>7. CASE MonitorTake(t) \/ Rearm(t)
    BY <1>7 DEF MonitorTake, Rearm, ghosts
  <1>8. CASE FaultWork(t) \/ FaultLinkDown(t)
    BY <1>8 DEF FaultWork, FaultTake, FaultRecover, PmlRecPollWork, FaultLinkDown, ghosts
  <1> QED
    BY <1>3, <1>4, <1>5, <1>6, <1>7, <1>8 DEF LinkWork

LEMMA LooseOfNext ==
    ASSUME loose, [Next]_vars
    PROVE  loose'
  <1>1. ASSUME NEW c \in Clients, ClientCall(c) \/ ClientStep(c)
        PROVE  loose'
    BY <1>1 DEF ClientCall, ClientStep, UpAccept, ConfigSet, UpCmd, ConfigEnd, QueueEnd, ghosts
  <1>2. ASSUME NEW t \in Works, WorkStep(t)
        PROVE  loose'
    BY <1>2, LooseOfWork DEF WorkStep, Callback, FaultStart, CallbackReturns, ghosts
  <1>3. ASSUME NEW tm \in DOMAIN TimerWork, TimerExpire(tm)
        PROVE  loose'
    BY <1>3 DEF TimerExpire, ghosts
  <1>4. ASSUME NEW i \in DOMAIN IntrWork, IntrFire(i)
        PROVE  loose'
    BY <1>4 DEF IntrFire
  <1>5. CASE UNCHANGED vars
    BY <1>5 DEF vars
  <1> QED
    BY <1>1, <1>2, <1>3, <1>4, <1>5 DEF Next

LEMMA OutliveOfNext ==
    ASSUME EndInv, OutliveInv, FaultPaths \subseteq {"rearm"}, [Next]_vars
    PROVE  OutliveInv'
  <1>1. CASE loose
    BY <1>1, LooseOfNext DEF OutliveInv
  <1>2. CASE ~loose' /\ Kept
    BY <1>2, KeptOfNext DEF OutliveInv
  <1> QED
    BY <1>1, <1>2 DEF OutliveInv

LEMMA OutliveOfInit ==
    ASSUME Init
    PROVE  OutliveInv
  <1>1. /\ \A t \in Threads : pc[t] = Idle /\ pc[t][1] = "idle"
        /\ queued = {} /\ armed = {} /\ intrOn = {}
    BY Heads DEF Init
  <1>2. \A w \in Chain : ~Runs(w)
    BY <1>1, ChainFacts, WorkFacts DEF Runs, RunHeads
  <1>3. Moving = {}
    BY <1>1, <1>2, MovingOf
  <1>4. Calm
    BY <1>1, <1>3 DEF Calm
  <1>5. TornInv
    <2> SUFFICES ASSUME NEW u \in Ends
                 PROVE  Torn(u)
      BY DEF TornInv
    <2>1. pc[u][1] \notin {"wait", "off"}
      BY <1>1, WorkFacts
    <2>2. ~Leads(Run, u)
      BY <2>1, TearFacts
    <2> QED
      BY <2>2, TearFacts DEF Torn, Canceled
  <1>6. RestInv
    BY <1>1, ChainFacts, WorkFacts DEF RestInv
  <1> QED
    BY <1>1, <1>3, <1>4, <1>5, <1>6 DEF OutliveInv, Kept, ChainInv, FirstInv, CalmInv

LEMMA OutliveMeaning ==
    ASSUME EndInv, RangeInv, OutliveInv
    PROVE  NoWorkOutlives
  <1> SUFFICES ASSUME ~loose, Kept
               PROVE  NoWorkOutlives
    BY DEF OutliveInv, NoWorkOutlives, OffAlone, NoStrayWork, QuietAtRest, NoPendingAdd
  <1>1. OffAlone
    <2> SUFFICES ASSUME NEW t \in Enders, At(t, "off", "none")
                 PROVE  /\ armed = {}
                        /\ \A w \in AttemptWorks \ {t} : w \notin queued /\ pc[w] = Idle
      BY DEF OffAlone
    <2>1. t \in Ends /\ pc[t][1] = "off" /\ Torn(t)
      BY WorkFacts, Heads DEF Kept, TornInv
    <2>2. \A w \in AttemptWorks \ {t} : w \in Works /\ Past(t, w)
      BY <2>1, ListedFacts DEF Past
    <2>3. Leads(Run, t)
      BY <2>1, TearFacts
    <2> QED
      BY <2>1, <2>2, <2>3 DEF Torn, Canceled
  <1>2. ASSUME state \in {"CONFIGURED", "CONFIGURING", "DOWN", "UP"}
        PROVE  NoStrayWork /\ QuietAtRest
    <2>1. Calm
      BY <1>2 DEF Kept, CalmInv, RestStates
    <2>2. \A w \in Chain : ~Runs(w)
      BY <2>1, MovingOf DEF Calm
    <2>3. NoStrayWork
      BY <2>2 DEF NoStrayWork, Chain, Runs, RunHeads, Programming
    <2>4. "link_up" \notin intrOn
      BY <2>1, MovingOf DEF Calm, MoveIntrs
    <2>5. QuietAtRest
      <3> SUFFICES ASSUME state \in {"CONFIGURED", "DOWN"}
                   PROVE  armed = {} /\ intrOn \cap LinkIntrs = {}
        BY DEF QuietAtRest
      <3>1. intrOn \cap WatchIntrs = {}
        BY DEF Kept, RestInv, RestStates
      <3> QED
        BY <2>1, <2>4, <3>1 DEF Calm, LinkIntrs
    <2> QED
      BY <2>3, <2>5
  <1>3. NoPendingAdd
    <2> SUFFICES ASSUME NEW w \in DOMAIN Begins \cap Works, At(w, "begin", "none"),
                        Begins[w] \in armed
                 PROVE  FALSE
      BY DEF NoPendingAdd
    <2>1. /\ w \in Chain /\ Runs(w) /\ pc[w][1] = "begin"
          /\ (w \in Firsts /\ Begins[w] = "link_up") \/ Begins[w] # "link_up"
      <3>1. w \in {"up_start", "an_up_start", "up_intr", "fec_settle"} \cap Works
        BY DEF Begins
      <3>2. (w \in Firsts /\ Begins[w] = "link_up") \/ Begins[w] # "link_up"
        BY <3>1 DEF Begins, Firsts
      <3> QED
        BY <3>1, <3>2, ChainNames, Heads
    <2>2. CASE w \in Firsts /\ Begins[w] = "link_up"
      BY <2>1, <2>2 DEF Kept, FirstInv
    <2>3. CASE Begins[w] # "link_up"
      BY <2>1, <2>3, MovingAlone DEF LinkUpTimer
    <2> QED
      BY <2>1, <2>2, <2>3
  <1>4. state \notin {"CONFIGURED", "CONFIGURING", "DOWN", "UP"} => NoStrayWork /\ QuietAtRest
    BY DEF NoStrayWork, QuietAtRest
  <1> QED
    BY <1>1, <1>2, <1>3, <1>4 DEF NoWorkOutlives

(* A teardown outlives what it ends (NoWorkOutlives): when it turns the link *)
(* off, the cancels of sl_core_hw_link_up_timeout_work, up_cancel_work and   *)
(* up_fail_work have left no work of the attempt queued or running and no    *)
(* timer pending, whoever was handing over to whom while the list was gone   *)
(* through; no work programs the hardware of a link that is down or up, none *)
(* of its interrupts is enabled then, and no timer is added twice.           *)
THEOREM NoWorkOutlivesAlways ==
    ASSUME FaultPaths \subseteq {"rearm"}
    PROVE  Spec => []NoWorkOutlives
  <1> DEFINE IInv == EndInv /\ RangeInv /\ PcInv /\ OutliveInv
  <1>1. Init => IInv
    BY EndOfInit, RangeOfInit, OutliveOfInit
  <1>2. IInv /\ [Next]_vars => IInv'
    BY EndOfNext, TypeOfNext, OutliveOfNext
  <1>3. IInv => NoWorkOutlives
    BY OutliveMeaning
  <1> QED
    BY <1>1, <1>2, <1>3, PTL DEF Spec

=============================================================================
