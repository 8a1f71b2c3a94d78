--------------------------- MODULE CtrlLinkProofs ---------------------------
(***************************************************************************)
(* Theorems about CtrlLink: the two layers of a link together.             *)
(*                                                                         *)
(* The control layer acts on the core only through its commands and        *)
(* callbacks, so EndInv of CoreLinkProofs holds of the composition too:    *)
(* each action is one of the core's, with a label of the layer above for   *)
(* idle, or moves one thread from a label of no consequence to another.    *)
(* CtrlOneEndAlways, CtrlServiceKept and CtrlNoWorkOutlivesAlways follow   *)
(* as for the core alone.                                                  *)
(*                                                                         *)
(* The new matter is what ties the control state to the core state.  A     *)
(* thread bears an answer from the moment the core is committed to an up   *)
(* to the write of the control state (Bears): BearerInv says that there is *)
(* at most one, that the control state fits what it is about to report,    *)
(* and that without one the two layers agree (Free).  RisingInv says that  *)
(* a rising link has something that will move it, OwedInv who still has to *)
(* tell a client, ConfInv whose configuration is under way.  DebtInv is    *)
(* about every call and every fault: the debts of an answer, of the state, *)
(* of a thread or of a queued work, are never more than the ups accepted   *)
(* and not answered, because each was handed over by the one before it.    *)
(*                                                                         *)
(* Calls of down and reset in the middle of a start are left out of the    *)
(* theorems about agreement, and autonegotiation out of two of them: with  *)
(* them the properties are false (ctrl_lost_cancel, link_an_stuck).        *)
(***************************************************************************)
EXTENDS MCCtrlLink, CoreLinkProofs

-----------------------------------------------------------------------------
(* What the caller and the callbacks do to the core *)

(* A thread inside a callback may be at any step of the callbacks. *)
LEMMA CallbackFacts ==
    ASSUME ShapeInv, NEW t \in Works, pc[t][1] \in CallbackSteps \cup {"up_cb", "down_cb"}
    PROVE  /\ t \in Threads /\ t \notin Clients
           /\ pc[t][1] # "up_cb" => Plain(t, pc[t])
           /\ \A l : l[1] \in CallbackSteps \cup {"idle"} => Plain(t, l) /\ Allowed(t, l)
  <1>1. t \in Threads /\ t \notin Clients /\ t # "fault"
    BY WorkFacts DEF ShapeInv, WorkSteps, CallbackSteps
  <1>2. pc[t][1] # "up_cb" => Plain(t, pc[t])
    BY DEF Plain, Leadless, CallbackSteps
  <1>3. ASSUME NEW l, l[1] \in CallbackSteps \cup {"idle"}
        PROVE  Plain(t, l) /\ Allowed(t, l)
    BY <1>1, <1>3 DEF Plain, Leadless, Allowed, CallbackSteps, WorkSteps
  <1> QED
    BY <1>1, <1>2, <1>3

LEMMA EndOfCoreUp ==
    ASSUME EndInv, NEW t \in Threads, NEW l, Plain(t, pc[t]), Plain(t, l), Allowed(t, l),
           Allowed(t, Step("up_cmd")),
           CoreUp(t, l) \/ CoreUpFails(t, l)
    PROVE  EndInv'
  <1>1. CASE UpAccept(t)
    BY <1>1, EndOfAccept
  <1>2. CASE UpAlready /\ Go(t, l) /\ UNCHANGED coreVars
    BY <1>2, PlainStep DEF coreVars, kernel, ghosts
  <1>3. CASE CoreUpFails(t, l)
    BY <1>3, PlainStep DEF CoreUpFails, kernel
  <1> QED
    BY <1>1, <1>2, <1>3 DEF CoreUp

LEMMA EndOfTakes ==
    ASSUME EndInv, NEW c \in Clients, Plain(c, pc[c]), CoreCancel(c) \/ CoreDown(c)
    PROVE  EndInv'
  <1>1. CASE CancelAccept(c) /\ UNCHANGED <<kernel, link, ghosts>>
    <2>1. /\ state \notin Leaving \cup {"CONFIGURING"}
          /\ state' = EndState["up_cancel"] /\ state \in Rising
      BY <1>1 DEF CancelAccept, Rising, Leaving, EndState
    <2> QED
      BY <1>1, <2>1, EndOfTake DEF CancelAccept, kernel, ghosts
  <1>2. CASE DownAccept(c) /\ UNCHANGED <<kernel, link, ghosts>>
    <2>1. /\ state \notin Leaving \cup {"CONFIGURING"}
          /\ state' = EndState["down"] /\ state \notin Rising
      BY <1>2 DEF DownAccept, Rising, Leaving, EndState
    <2> QED
      BY <1>2, <2>1, EndOfTake DEF DownAccept, kernel, ghosts
  <1>3. CASE Go(c, Idle) /\ UNCHANGED state /\ UNCHANGED <<kernel, link, ghosts>>
    <2>1. Plain(c, Idle) /\ Allowed(c, Idle) /\ c \in Threads
      BY ClientFacts DEF EndInv, ClientLabels
    <2> QED
      BY <1>3, <2>1, PlainStep DEF kernel, ghosts
  <1> QED
    BY <1>1, <1>2, <1>3 DEF CoreCancel, CoreDown

LEMMA EndOfConfigSet ==
    ASSUME EndInv, NEW c \in Clients, ConfigSet(c)
    PROVE  EndInv'
  <1>1. /\ state \notin Leaving \cup Rising \cup {"CONFIGURING"}
        /\ state' \notin Leaving \cup Rising /\ state' = "CONFIGURING"
    BY DEF ConfigSet, Rising, Leaving
  <1>2. Step("config") \in ClientLabels /\ due \in Int
    BY FS_CardinalityType DEF ClientLabels, EndInv, AnswerInv, Owed
  <1> QED
    BY <1>1, <1>2, EndOfMove DEF ConfigSet, kernel, ghosts

(* A step of the control layer alone *)
LEMMA EndOfCaller ==
    ASSUME EndInv, NEW c \in Clients, NEW l, l \in {Idle} \cup CallerLabels, Go(c, l),
           pc[c] \in {Idle} \cup CallerLabels, UNCHANGED coreVars
    PROVE  EndInv'
  <1>1. /\ c \in Threads /\ Plain(c, pc[c]) /\ Plain(c, l) /\ Allowed(c, l)
    BY ClientFacts DEF EndInv, ClientLabels
  <1> QED
    BY <1>1, PlainStep DEF coreVars, kernel, ghosts

LEMMA EndOfCtrlClient ==
    ASSUME EndInv, NEW c \in Clients, CtrlCall(c) \/ CtrlClientStep(c)
    PROVE  EndInv'
  <1>1. CASE LinkUp(c) \/ LinkDown(c) \/ LinkReset(c)
    BY <1>1, EndOfCaller DEF LinkUp, LinkDown, LinkReset, CallerLabels
  <1>2. CASE LinkAsyncDown(c)
    <2>1. CASE Go(c, Step("async"))
      BY <1>2, <2>1, EndOfCaller DEF LinkAsyncDown, CallerLabels
    <2>2. CASE UNCHANGED pc
      BY <1>2, <2>2, StillStep DEF LinkAsyncDown, coreVars, kernel, ghosts
    <2> QED
      BY <1>2, <2>1, <2>2 DEF LinkAsyncDown
  <1>3. CASE LinkUpCmd(c)
    <2>1. CASE At(c, "up_core", "none")
      <3>1. /\ CoreUp(c, Idle) \/ CoreUpFails(c, Step("up_refuse"))
            /\ pc[c] \in CallerLabels
        BY <1>3, <2>1 DEF LinkUpCmd, At, CallerLabels, Step
      <3>2. /\ c \in Threads /\ Plain(c, pc[c]) /\ Plain(c, Idle)
            /\ Allowed(c, Idle) /\ Plain(c, Step("up_refuse"))
            /\ Allowed(c, Step("up_refuse")) /\ Allowed(c, Step("up_cmd"))
        BY <3>1, ClientFacts DEF EndInv, ClientLabels, CallerLabels
      <3> QED
        BY <3>1, <3>2, EndOfCoreUp
    <2>2. CASE ~At(c, "up_core", "none")
      BY <1>3, <2>2, EndOfCaller DEF LinkUpCmd, At, CallerLabels, Step
    <2> QED
      BY <2>1, <2>2
  <1>4. CASE LinkDownCmd(c)
    <2>1. pc[c] \in CallerLabels
      BY <1>4 DEF LinkDownCmd, At, CallerLabels, Step
    <2>2. Plain(c, pc[c])
      BY <2>1, ClientFacts DEF EndInv
    <2> QED
      BY <1>4, <2>2, EndOfTakes DEF LinkDownCmd
  <1> QED
    BY <1>1, <1>2, <1>3, <1>4, EndOfConfigSet, EndOfClientStep DEF CtrlCall, CtrlClientStep

LEMMA EndOfCtrlCallback ==
    ASSUME EndInv, NEW t \in Works, CtrlCallback(t)
    PROVE  EndInv'
  <1>1. CASE UpCallbackUp(t) \/ UpCallbackRead(t)
    <2>1. /\ pc[t][1] = "up_cb" /\ due' = due - 1 /\ queued' = queued /\ state' = state
          /\ \E l : Go(t, l) /\ l[1] \in {"notify", "up_fail", "stopping"}
      BY <1>1 DEF UpCallbackUp, UpCallbackRead, At, Step, kernel
    <2> QED
      BY <2>1, CallbackFacts, EndOfAnswer DEF EndInv, CallbackSteps
  <1>2. CASE \/ UpCallbackFail(t) \/ Stopping(t) \/ Settled(t) \/ Notify(t)
             \/ DownCallback(t)
    <2>1. /\ pc[t][1] \in CallbackSteps \cup {"down_cb"} /\ pc[t][1] # "up_cb"
          /\ queued' = queued /\ state' = state /\ due' = due
      BY <1>2 DEF UpCallbackFail, Stopping, Settled, Notify, DownCallback, At,
                  CallbackSteps, coreVars, kernel, ghosts
    <2>2. PICK l : Go(t, l) /\ (l[1] \in CallbackSteps \cup {"idle"} \/ l = AfterUpCallback(t))
      BY <1>2 DEF UpCallbackFail, Stopping, Settled, Notify, DownCallback, CallbackSteps,
                  Step, Idle
    <2>3. /\ t \in Threads /\ Plain(t, pc[t])
          /\ Plain(t, l) /\ Allowed(t, l)
      BY <2>1, <2>2, CallbackFacts, AfterFacts DEF EndInv
    <2> QED
      BY <2>1, <2>2, <2>3, PlainStep
  <1>3. CASE UpCallbackRetry(t)
    <2>1. pc[t][1] \in {"retry", "up_cmd"}
      BY <1>3 DEF UpCallbackRetry, UpCmd, At
    <2>2. /\ t \in Threads /\ Plain(t, pc[t])
          /\ Plain(t, Step("stopping")) /\ Allowed(t, Step("stopping"))
          /\ Plain(t, AfterUpCallback(t)) /\ Allowed(t, AfterUpCallback(t))
          /\ Allowed(t, Step("up_cmd"))
      BY <2>1, CallbackFacts, AfterFacts DEF EndInv, CallbackSteps, Step
    <2> QED
      BY <1>3, <2>2, EndOfCoreUp, EndOfUpCmd DEF UpCallbackRetry
  <1>4. ~FaultStartCallback(t) /\ ~FaultCallback(t)
    BY WorkFacts DEF FaultStartCallback, FaultCallback, FaultStart, At, EndInv, ShapeInv,
                     WorkSteps, CallbackSteps
  <1> QED
    BY <1>1, <1>2, <1>3, <1>4 DEF CtrlCallback

LEMMA EndOfCtrlNext ==
    ASSUME EndInv, FaultPaths \subseteq {"rearm"}, [CtrlNext]_allVars
    PROVE  EndInv'
  <1>1. CASE \E c \in Clients : CtrlCall(c) \/ CtrlClientStep(c)
    BY <1>1, EndOfCtrlClient
  <1>2. CASE \E t \in Works : CtrlWorkStep(t)
    BY <1>2, EndOfLinkWork, EndOfCtrlCallback DEF CtrlWorkStep
  <1>3. CASE \E tm \in DOMAIN TimerWork : TimerExpire(tm)
    BY <1>3, EndOfTimer
  <1>4. CASE \E i \in DOMAIN IntrWork : IntrFire(i)
    BY <1>4, EndOfIntr
  <1>5. CASE UNCHANGED allVars
    BY <1>5, StillStep DEF allVars, vars
  <1> QED
    BY <1>1, <1>2, <1>3, <1>4, <1>5 DEF CtrlNext

(* The callbacks of the control layer start the next attempt from inside the *)
(* teardown of the last one (sl_ctrl_link_up_callback, sl_core_link_up), its *)
(* callers cancel, reset and take down at any time: every attempt still has  *)
(* one end, and every up the core accepted, a retry included, is answered    *)
(* by one up callback.                                                       *)
THEOREM CtrlOneEndAlways ==
    ASSUME FaultPaths \subseteq {"rearm"}
    PROVE  CtrlSpec => []OneEnd
  <1>1. CtrlInit => EndInv
    BY EndOfInit DEF CtrlInit
  <1>2. EndInv /\ [CtrlNext]_allVars => EndInv'
    BY EndOfCtrlNext
  <1>3. EndInv => OneEnd
    BY EndMeaning
  <1> QED
    BY <1>1, <1>2, <1>3, PTL DEF CtrlSpec

(* What a call of the core does to the link, whoever makes it *)
LEMMA MovesOfUp ==
    ASSUME NEW t, NEW l, CoreUp(t, l) \/ CoreUpFails(t, l)
    PROVE  [Service!Next]_(Service!vars)
  <1>1. CASE UpAccept(t)
    <2>1. state \in RestStates /\ state' \in Rising /\ due' = due + 1
      BY <1>1 DEF UpAccept, RestStates, Rising
    <2>2. Phase = "down" /\ Phase' = "rising"
      BY <2>1, PhaseFacts, PhaseFactsNext
    <2> QED
      BY <2>1, <2>2 DEF Service!Next, Service!Accept
  <1>2. CASE due' = due /\ state' = state
    BY <1>2, ServiceMoves DEF WorkMove
  <1> QED
    BY <1>1, <1>2 DEF CoreUp, CoreUpFails, coreVars, ghosts

LEMMA MovesOfTake ==
    ASSUME NEW c, CoreCancel(c) \/ CoreDown(c)
    PROVE  [Service!Next]_(Service!vars)
  <1>1. CASE CancelAccept(c) \/ DownAccept(c)
    <2>1. /\ state \in Rising \/ state = "UP"
          /\ state' \in Leaving /\ due' = due
      BY <1>1 DEF CoreCancel, CoreDown, CancelAccept, DownAccept, Leaving, ghosts
    <2>2. /\ Phase = "rising" \/ Phase = "up"
          /\ Phase' = "leaving"
      BY <2>1, PhaseFacts, PhaseFactsNext
    <2> QED
      BY <2>1, <2>2 DEF Service!Next, Service!Move
  <1>2. CASE UNCHANGED state
    BY <1>2, ServiceMoves DEF CoreCancel, CoreDown, WorkMove, ghosts
  <1> QED
    BY <1>1, <1>2 DEF CoreCancel, CoreDown

LEMMA MovesOfUpCmd ==
    ASSUME NEW t, NEW l, UpCmd(t, l)
    PROVE  [Service!Next]_(Service!vars)
  BY ServiceMoves DEF UpCmd, UpFail, WorkMove, Leaving

LEMMA MovesOfCtrlClient ==
    ASSUME EndInv, NEW c \in Clients, CtrlCall(c) \/ CtrlClientStep(c)
    PROVE  [Service!Next]_(Service!vars)
  <1>1. CASE UNCHANGED coreVars
    BY <1>1, ServiceMoves DEF coreVars, ghosts, WorkMove
  <1>2. CASE LinkUpCmd(c)
    BY <1>1, <1>2, MovesOfUp DEF LinkUpCmd
  <1>3. CASE LinkDownCmd(c)
    BY <1>3, MovesOfTake DEF LinkDownCmd
  <1>4. CASE ConfigSet(c) \/ ClientStep(c)
    BY <1>4, MovesOfClient DEF ConfigSet, ClientCall
  <1> QED
    BY <1>1, <1>2, <1>3, <1>4
       DEF CtrlCall, CtrlClientStep, LinkUp, LinkDown, LinkReset, LinkAsyncDown

LEMMA MovesOfCtrlCallback ==
    ASSUME EndInv, NEW t \in Works, CtrlCallback(t)
    PROVE  [Service!Next]_(Service!vars)
  <1>1. CASE UpCallbackUp(t) \/ UpCallbackRead(t)
    <2>1. Phase' = Phase /\ due' = due - 1
      BY <1>1, PhaseFacts DEF UpCallbackUp, UpCallbackRead
    <2>2. t \in Answering
      BY <1>1 DEF UpCallbackUp, UpCallbackRead, Answering, At
    <2>3. Cardinality(Answering) \in Nat /\ Cardinality(Answering) # 0
      BY <2>2, FS_EmptySet, FS_CardinalityType DEF EndInv, AnswerInv
    <2>4. due > IF Phase = "rising" THEN 1 ELSE 0
      BY <2>3, PhaseFacts DEF EndInv, AnswerInv, Owed
    <2> QED
      BY <2>1, <2>4 DEF Service!Next, Service!Answer
  <1>2. CASE UNCHANGED coreVars
    BY <1>2, ServiceMoves DEF coreVars, ghosts, WorkMove
  <1>3. CASE UpCallbackRetry(t)
    BY <1>3, MovesOfUp, MovesOfUpCmd DEF UpCallbackRetry
  <1>4. ~FaultStartCallback(t) /\ ~FaultCallback(t)
    BY WorkFacts DEF FaultStartCallback, FaultCallback, FaultStart, At, EndInv, ShapeInv,
                     WorkSteps, CallbackSteps
  <1> QED
    BY <1>1, <1>2, <1>3, <1>4
       DEF CtrlCallback, UpCallbackFail, Stopping, Settled, Notify, DownCallback

LEMMA MovesOfCtrlNext ==
    ASSUME EndInv, FaultPaths \subseteq {"rearm"}, [CtrlNext]_allVars
    PROVE  [Service!Next]_(Service!vars)
  <1>1. CASE \E c \in Clients : CtrlCall(c) \/ CtrlClientStep(c)
    BY <1>1, MovesOfCtrlClient
  <1>2. CASE \E t \in Works : CtrlWorkStep(t)
    BY <1>2, MovesOfWork, MovesOfTeardown, MovesOfCtrlCallback, ServiceMoves
       DEF CtrlWorkStep
  <1>3. CASE \/ \E tm \in DOMAIN TimerWork : TimerExpire(tm)
             \/ \E i \in DOMAIN IntrWork : IntrFire(i)
             \/ UNCHANGED allVars
    <2>1. WorkMove
      BY <1>3 DEF TimerExpire, IntrFire, allVars, vars, WorkMove, ghosts
    <2> QED
      BY <2>1, ServiceMoves
  <1> QED
    BY <1>1, <1>2, <1>3 DEF CtrlNext

(* Driven by its control layer, the core link still implements LinkService:  *)
(* no call of sl_ctrl_link_up, _cancel, _down or _reset and no retry from    *)
(* inside a callback gets it from one phase to another but through an        *)
(* attempt or a teardown.                                                    *)
THEOREM CtrlServiceKept ==
    ASSUME FaultPaths \subseteq {"rearm"}
    PROVE  CtrlSpec => KeepsLinkService
  <1>1. CtrlInit => Service!Init
    <2>1. CtrlInit => state \in RestStates /\ due = 0
      BY DEF CtrlInit, Init, RestStates
    <2> QED
      BY <2>1, PhaseFacts DEF Service!Init
  <1>2. CtrlInit => EndInv
    BY EndOfInit DEF CtrlInit
  <1>3. EndInv /\ [CtrlNext]_allVars => EndInv'
    BY EndOfCtrlNext
  <1>4. EndInv /\ [CtrlNext]_allVars => [Service!Next]_(Service!vars)
    BY MovesOfCtrlNext
  <1> QED
    BY <1>1, <1>2, <1>3, <1>4, PTL DEF CtrlSpec, KeepsLinkService, Service!Spec

-----------------------------------------------------------------------------
(* The ranges of the variables *)

CtrlRange ==
    /\ ctrl \in {"DOWN", "STARTING", "UP", "UP_DOWN_REQ", "STOPPING"}
    /\ canceled \in BOOLEAN
    /\ tries \in 0..MaxTries
    /\ owed \in Int

CtrlPc == pc \in [Threads -> CtrlLabels]

CtrlRanges == RangeInv /\ CtrlRange /\ CtrlPc

LEMMA CtrlLabelFacts ==
    /\ Labels \subseteq CtrlLabels
    /\ \A s \in {"up_begin", "up_core", "up_refuse", "up_refused", "cancel", "down",
                 "async", "up_fail", "retry", "stopping"} : Step(s) \in CtrlLabels
    /\ \A s \in {"up", "down"} : <<"settle", s>> \in CtrlLabels /\ <<"notify", s>> \in CtrlLabels
    /\ Idle \in CtrlLabels /\ \A t : AfterUpCallback(t) \in CtrlLabels
  BY LabelFacts DEF CtrlLabels, AfterUpCallback

LEMMA CtrlGo ==
    ASSUME CtrlPc, NEW t, NEW l \in CtrlLabels, Go(t, l)
    PROVE  CtrlPc'
  BY DEF CtrlPc, Go

LEMMA CtrlSteps ==
    ASSUME CtrlPc, NEW t, Steps(t)
    PROVE  CtrlPc'
  BY CtrlLabelFacts, CtrlGo DEF Steps, CtrlPc

(* A step of the control layer alone *)
LEMMA RangeOfCaller ==
    ASSUME CtrlRanges, NEW t, NEW l \in CtrlLabels, Go(t, l), UNCHANGED coreVars,
           CtrlRange'
    PROVE  CtrlRanges'
  <1>1. RangeInv'
    BY DEF CtrlRanges, RangeInv, coreVars, kernel, link, ghosts
  <1> QED
    BY <1>1, CtrlGo DEF CtrlRanges

LEMMA RangeOfCoreUp ==
    ASSUME RangeInv, CtrlPc, NEW t, NEW l \in CtrlLabels, CoreUp(t, l) \/ CoreUpFails(t, l)
    PROVE  RangeInv' /\ CtrlPc'
  <1>1. CASE UpAccept(t)
    BY <1>1, RangeOfAccept, CtrlSteps
  <1>2. CASE Go(t, l) /\ UNCHANGED <<state, kernel, link, loose, due, ups>>
             /\ fails' \in 0..MaxFails
    BY <1>2, CtrlGo DEF RangeInv, kernel, link
  <1>3. UpRefused => fails' \in 0..MaxFails
    BY FailureRange DEF UpRefused, RangeInv
  <1>4. UNCHANGED fails => fails' \in 0..MaxFails
    BY DEF RangeInv
  <1> QED
    BY <1>1, <1>2, <1>3, <1>4 DEF CoreUp, CoreUpFails, coreVars, ghosts

LEMMA RangeOfCoreTake ==
    ASSUME RangeInv, CtrlPc, NEW c, CoreCancel(c) \/ CoreDown(c)
    PROVE  RangeInv' /\ CtrlPc'
  <1>1. CASE CancelAccept(c) \/ DownAccept(c)
    BY <1>1, RangeOfTake, CtrlSteps DEF CoreCancel, CoreDown
  <1>2. CASE Go(c, Idle) /\ UNCHANGED state
    <2>1. RangeInv'
      BY <1>2 DEF CoreCancel, CoreDown, RangeInv, kernel, link, ghosts
    <2> QED
      BY <1>2, <2>1, CtrlGo, CtrlLabelFacts
  <1> QED
    BY <1>1, <1>2 DEF CoreCancel, CoreDown

LEMMA RangeOfCtrlClient ==
    ASSUME CtrlRanges, NEW c \in Clients, CtrlCall(c) \/ CtrlClientStep(c)
    PROVE  CtrlRanges'
  <1> USE DEF CtrlRange
  <1>0. /\ CtrlRange /\ MaxTries \in Nat /\ 1 \in 0..MaxTries /\ 0 \in 0..MaxTries
        /\ RangeInv /\ CtrlPc
    BY CtrlAssumption DEF CtrlRanges
  <1>1. CASE LinkUp(c) \/ LinkDown(c) \/ LinkReset(c)
    <2>1. CtrlRange'
      BY <1>0, <1>1 DEF LinkUp, LinkDown, LinkReset
    <2> QED
      BY <1>1, <2>1, CtrlLabelFacts, RangeOfCaller DEF LinkUp, LinkDown, LinkReset
  <1>2. CASE LinkAsyncDown(c)
    <2>1. CtrlRange'
      <3>1. tries' = 0 /\ UNCHANGED <<canceled, owed>>
        BY <1>2 DEF LinkAsyncDown
      <3>2. ctrl' \in {ctrl, "STOPPING", "UP_DOWN_REQ"}
        BY <1>2 DEF LinkAsyncDown
      <3> QED
        BY <1>0, <3>1, <3>2
    <2>2. CASE Go(c, Step("async"))
      BY <1>2, <2>1, <2>2, CtrlLabelFacts, RangeOfCaller DEF LinkAsyncDown
    <2>3. CASE UNCHANGED pc
      <3>1. RangeInv'
        BY <1>0, <1>2 DEF LinkAsyncDown, RangeInv, coreVars, kernel, link, ghosts
      <3> QED
        BY <1>0, <2>1, <2>3, <3>1 DEF CtrlRanges, CtrlPc
    <2> QED
      BY <1>2, <2>2, <2>3 DEF LinkAsyncDown
  <1>3. CASE LinkUpCmd(c)
    <2>1. CtrlRange'
      <3>1. ctrl' \in {ctrl, "STOPPING", "DOWN"}
        BY <1>3 DEF LinkUpCmd
      <3>2. canceled' \in BOOLEAN
        BY <1>0, <1>3 DEF LinkUpCmd
      <3>3. tries' \in {tries, 0, 1} /\ owed' \in {owed, owed + 1}
        BY <1>3 DEF LinkUpCmd
      <3> QED
        BY <1>0, <3>1, <3>2, <3>3
    <2>2. CASE CoreUp(c, Idle) \/ CoreUpFails(c, Step("up_refuse"))
      BY <1>0, <2>1, <2>2, CtrlLabelFacts, RangeOfCoreUp DEF CtrlRanges
    <2>3. CASE /\ UNCHANGED coreVars
               /\ \/ Go(c, Step("up_core")) \/ Go(c, Step("up_refused")) \/ Go(c, Idle)
      BY <2>1, <2>3, CtrlLabelFacts, RangeOfCaller
    <2> QED
      BY <1>3, <2>2, <2>3 DEF LinkUpCmd
  <1>4. CASE LinkDownCmd(c)
    <2>1. CtrlRange'
      BY <1>0, <1>4 DEF LinkDownCmd, ctrlVars
    <2> QED
      BY <1>0, <1>4, <2>1, RangeOfCoreTake DEF LinkDownCmd, CtrlRanges
  <1>5. CASE (ConfigSet(c) \/ ClientStep(c)) /\ UNCHANGED ctrlVars
    <2>1. CtrlRange'
      BY <1>0, <1>5 DEF ctrlVars
    <2>2. CASE UpCmd(c, Idle)
      <3>1. CtrlPc'
        BY <1>0, <2>2, CtrlLabelFacts, CtrlGo DEF UpCmd
      <3> QED
        BY <1>0, <2>1, <2>2, <3>1, RangeOfUpCmd DEF CtrlRanges
    <2> QED
      BY <1>0, <1>5, <2>1, <2>2, RangeOfClient, CtrlSteps DEF ClientStep, CtrlRanges
  <1> QED
    BY <1>1, <1>2, <1>3, <1>4, <1>5 DEF CtrlCall, CtrlClientStep

LEMMA RangeOfCtrlCallback ==
    ASSUME CtrlRanges, NEW t \in Works, CtrlCallback(t)
    PROVE  CtrlRanges'
  <1> USE DEF CtrlRange
  <1>0. /\ CtrlRange /\ MaxTries \in Nat /\ 0 \in 0..MaxTries
        /\ RangeInv /\ CtrlPc
    BY CtrlAssumption DEF CtrlRanges
  <1>1. CASE UpCallbackUp(t) \/ UpCallbackRead(t)
    <2>1. CtrlRange'
      BY <1>0, <1>1 DEF UpCallbackUp, UpCallbackRead
    <2>2. RangeInv'
      BY <1>0, <1>1 DEF UpCallbackUp, UpCallbackRead, RangeInv, kernel, link
    <2>3. CtrlPc'
      BY <1>0, <1>1, CtrlLabelFacts, CtrlGo DEF UpCallbackUp, UpCallbackRead
    <2> QED
      BY <2>1, <2>2, <2>3 DEF CtrlRanges
  <1>2. CASE UpCallbackFail(t)
    <2>1. CtrlRange'
      BY <1>0, <1>2 DEF UpCallbackFail
    <2> QED
      BY <1>2, <2>1, CtrlLabelFacts, RangeOfCaller DEF UpCallbackFail
  <1>3. CASE Stopping(t) \/ DownCallback(t) \/ FaultCallback(t)
    <2>1. CtrlRange'
      BY <1>0, <1>3 DEF Stopping, DownCallback, FaultCallback, ctrlVars
    <2> QED
      BY <1>3, <2>1, CtrlLabelFacts, RangeOfCaller
         DEF Stopping, DownCallback, FaultCallback
  <1>4. CASE Settled(t) \/ Notify(t)
    <2>1. CtrlRange'
      BY <1>0, <1>4 DEF Settled, Notify
    <2>2. CASE Settled(t)
      <3>1. pc[t] \in CtrlLabels /\ pc[t][1] = "settle"
        BY <1>0, <2>2, WorkFacts DEF Settled, CtrlPc
      <3>2. pc[t][2] \in {"up", "down"}
        BY <3>1 DEF CtrlLabels, Labels, Step
      <3> QED
        BY <2>1, <2>2, <3>2, CtrlLabelFacts, RangeOfCaller DEF Settled
    <2>3. CASE Notify(t)
      BY <2>1, <2>3, CtrlLabelFacts, RangeOfCaller DEF Notify
    <2> QED
      BY <1>4, <2>2, <2>3
  <1>5. CASE UpCallbackRetry(t)
    <2>1. CtrlRange'
      BY <1>0, <1>5 DEF UpCallbackRetry, ctrlVars
    <2>2. RangeInv' /\ CtrlPc'
      <3>1. CASE UpCmd(t, AfterUpCallback(t))
        BY <1>0, <3>1, RangeOfUpCmd, CtrlLabelFacts, CtrlGo DEF UpCmd
      <3> QED
        BY <1>0, <1>5, <3>1, CtrlLabelFacts, RangeOfCoreUp DEF UpCallbackRetry
    <2> QED
      BY <2>1, <2>2 DEF CtrlRanges
  <1>6. CASE FaultStartCallback(t)
    <2>1. CtrlRange'
      BY <1>0, <1>6 DEF FaultStartCallback
    <2> QED
      BY <1>0, <1>6, <2>1, RangeOfFaultStart, CtrlSteps DEF FaultStartCallback, CtrlRanges
  <1> QED
    BY <1>1, <1>2, <1>3, <1>4, <1>5, <1>6 DEF CtrlCallback

LEMMA RangeOfCtrlNext ==
    ASSUME CtrlRanges, [CtrlNext]_allVars
    PROVE  CtrlRanges'
  <1>0. RangeInv /\ CtrlPc
    BY DEF CtrlRanges
  <1>1. UNCHANGED ctrlVars => CtrlRange'
    BY DEF CtrlRanges, CtrlRange, ctrlVars
  <1>2. CASE \E c \in Clients : CtrlCall(c) \/ CtrlClientStep(c)
    BY <1>2, RangeOfCtrlClient
  <1>3. CASE \E t \in Works : CtrlWorkStep(t)
    BY <1>0, <1>1, <1>3, RangeOfLinkWork, CtrlSteps, RangeOfCtrlCallback
       DEF CtrlWorkStep, CtrlRanges
  <1>4. CASE \E tm \in DOMAIN TimerWork : TimerExpire(tm) /\ UNCHANGED ctrlVars
    BY <1>0, <1>1, <1>4, RangeOfTimer DEF CtrlRanges, CtrlPc
  <1>5. CASE \E i \in DOMAIN IntrWork : IntrFire(i) /\ UNCHANGED ctrlVars
    BY <1>0, <1>1, <1>5, RangeOfIntr DEF CtrlRanges, CtrlPc
  <1>6. CASE UNCHANGED allVars
    <2>1. UNCHANGED vars /\ UNCHANGED ctrlVars
      BY <1>6 DEF allVars
    <2>2. RangeInv'
      BY <1>0, <2>1 DEF vars, RangeInv
    <2> QED
      BY <1>0, <1>1, <2>1, <2>2 DEF vars, CtrlRanges, CtrlPc
  <1> QED
    BY <1>2, <1>3, <1>4, <1>5, <1>6 DEF CtrlNext

LEMMA RangeOfCtrlInit ==
    ASSUME CtrlInit
    PROVE  CtrlRanges
  <1>1. RangeInv /\ PcInv
    BY RangeOfInit DEF CtrlInit
  <1>2. CtrlRange
    <2>1. 0 \in 0..MaxTries
      BY CtrlAssumption
    <2>2. canceled \in BOOLEAN
      BY DEF CtrlInit
    <2>3. owed \in Int /\ tries = 0 /\ ctrl = "DOWN"
      BY DEF CtrlInit
    <2> QED
      BY <2>1, <2>2, <2>3 DEF CtrlRange
  <1> QED
    BY <1>1, <1>2, CtrlLabelFacts DEF CtrlRanges, CtrlPc, PcInv

(* Whatever a fault leads to and whatever is called: an attempt is never     *)
(* tried more often than config.link_up_tries_max (sl_ctrl_link_up_callback), *)
(* no callback leaves its steps, and both layers stay in their ranges.       *)
THEOREM CtrlTypeAlways ==
    CtrlSpec => []CtrlTypeOK
  <1>1. CtrlRanges => CtrlTypeOK
    BY DEF CtrlRanges, CtrlRange, CtrlPc, CtrlTypeOK
  <1> QED
    BY <1>1, RangeOfCtrlInit, RangeOfCtrlNext, PTL DEF CtrlSpec

-----------------------------------------------------------------------------
(* Who may write the state of the control layer.  Where links are only       *)
(* brought up and taken down asynchronously (no cancel, no reset), one       *)
(* thread at most is between the locks of the two layers: it bears what the  *)
(* one has decided to the other.                                             *)

BearHeads == {"up_begin", "up_core", "up_refuse", "up_refused", "async", "up_cb",
              "up_fail", "retry", "stopping", "settle", "down_cb"}

Bears(t) == pc[t][1] \in BearHeads

(* What the two layers are like while a thread at l bears *)
Fits(l) ==
    /\ l[1] \in {"up_begin", "up_core", "up_refuse"} =>
          ctrl = "STARTING" /\ state \in RestStates
    /\ l[1] = "up_refused" => ctrl = "STOPPING" /\ state \in RestStates
    /\ l[1] = "async" => ctrl = "STOPPING" /\ state = "UP"
    /\ l = <<"up_cb", "up">> => ctrl = "STARTING" /\ state = "UP"
    /\ l = <<"up_cb", "read">> => ctrl = "STARTING" /\ state = "DOWN"
    /\ l[1] \in {"up_fail", "retry", "stopping"} => ctrl = "STARTING" /\ state = "DOWN"
    /\ l[1] \in {"settle", "down_cb"} => ctrl = "STOPPING" /\ state = "DOWN"

(* What they are like while nobody does *)
Free ==
    /\ state \in Rising => ctrl = "STARTING"
    /\ state \in Leaving => ctrl = IF EnderLeads THEN "STARTING" ELSE "STOPPING"
    /\ state \notin Rising \cup Leaving =>
          \/ ctrl \in {"UP", "UP_DOWN_REQ"} /\ state = "UP"
          \/ ctrl = "DOWN" /\ state \in RestStates

BearerInv ==
    /\ \A t \in Threads : Bears(t) => Fits(pc[t])
    /\ \A t, u \in Threads : Bears(t) /\ Bears(u) => t = u
    /\ (\A t \in Threads : ~Bears(t)) => Free

NoCancel ==
    /\ state # "CANCELING"
    /\ \A c \in Clients : pc[c][1] \notin {"cancel", "down"}
    /\ pc["up_cancel"] = Idle

(* The works that have taken the answer of the core and not told it yet *)
Tells(l) == l[1] \in {"up_fail", "retry", "stopping"}
                \/ l \in {<<"settle", "up">>, <<"notify", "up">>}

Telling == {w \in Works : Tells(pc[w])}

OwedInv == IsFiniteSet(Telling) /\ owed = due + Cardinality(Telling)

ConfInv == state = "CONFIGURING" => \E c \in Clients : At(c, "config", "none")

LayersInv == BearerInv /\ NoCancel /\ OwedInv /\ ConfInv

CtrlInv == EndInv /\ CtrlRanges /\ LayersInv

-----------------------------------------------------------------------------
(* How a step changes who bears *)

LEMMA FitsFacts ==
    ASSUME NEW l \in CtrlLabels, l[1] \in BearHeads, Fits(l)
    PROVE  state \notin Rising \cup Leaving /\ ctrl # "DOWN" /\ ctrl # "UP_DOWN_REQ" /\ ctrl # "UP"
  <1>1. l[1] = "up_cb" => l \in {<<"up_cb", "up">>, <<"up_cb", "read">>}
    BY DEF CtrlLabels, Labels, Step
  <1>2. state \in RestStates \cup {"UP"}
    BY <1>1 DEF Fits, BearHeads, RestStates
  <1>3. ctrl \in {"STARTING", "STOPPING"}
    BY <1>1 DEF Fits, BearHeads
  <1> QED
    BY <1>2, <1>3, StateFacts DEF RestStates

(* Nobody bears a link that the control layer leaves alone. *)
LEMMA NobodyBears ==
    ASSUME CtrlRanges, BearerInv,
           state \in Rising \cup Leaving \/ ctrl \in {"UP", "UP_DOWN_REQ", "DOWN"}
    PROVE  (\A t \in Threads : ~Bears(t)) /\ Free
  <1>1. ASSUME NEW t \in Threads, Bears(t)
        PROVE  FALSE
    <2>1. pc[t] \in CtrlLabels
      BY DEF CtrlRanges, CtrlPc
    <2>2. Fits(pc[t]) /\ pc[t][1] \in BearHeads
      BY <1>1 DEF BearerInv, Bears
    <2> QED
      BY <2>1, <2>2, FitsFacts
  <1> QED
    BY <1>1 DEF BearerInv

(* The core goes on while both layers and the bearer stay as they are, or it *)
(* ends an attempt by itself.                                                *)
LEMMA EnderSame ==
    ASSUME AnswerInv, AnswerInv', due' = due, Answering' = Answering
    PROVE  /\ state' = state => (EnderLeads' <=> EnderLeads)
           /\ state \in Rising /\ state' \in Leaving => EnderLeads'
           /\ state \notin Rising /\ ~EnderLeads /\ state' \notin Rising => ~EnderLeads'
  <1>1. Cardinality(Answering) \in Nat
    BY FS_CardinalityType DEF AnswerInv
  <1>2. Owed' \in Int /\ Owed \in Int
    BY DEF Owed
  <1>3. Owed' = Owed
    BY <1>1, <1>2 DEF AnswerInv
  <1> QED
    BY <1>3, StateFacts DEF Owed

LEMMA FreeSame ==
    ASSUME Free, EndInv, EndInv', due' = due, Answering' = Answering, ctrl' = ctrl,
           \/ state' = state
           \/ state \in Rising /\ state' \in Rising \cup Leaving
    PROVE  Free'
  <1>1. CASE state' = state
    BY <1>1, EnderSame DEF EndInv, Free
  <1>2. CASE state \in Rising /\ state' \in Rising \cup Leaving
    <2>1. ctrl' = "STARTING" /\ (state' \in Leaving => EnderLeads')
      BY <1>2, EnderSame DEF EndInv, Free
    <2> QED
      BY <1>2, <2>1 DEF Free
  <1> QED
    BY <1>1, <1>2

LEMMA BearerSame ==
    ASSUME EndInv, EndInv', CtrlRanges, BearerInv, due' = due, ctrl' = ctrl,
           \A t \in Threads : pc'[t] = pc[t] \/ (~Bears(t) /\ ~Bears(t)'),
           \/ state' = state
           \/ state \in Rising /\ state' \in Rising \cup Leaving
    PROVE  BearerInv'
  <1>1. \A t \in Threads : Bears(t)' <=> Bears(t)
    BY DEF Bears
  <1>2. Answering' = Answering
    BY WorkFacts DEF Answering, Bears, BearHeads
  <1>3. CASE \A t \in Threads : ~Bears(t)
    <2>1. Free'
      BY <1>2, <1>3, FreeSame DEF BearerInv
    <2> QED
      BY <1>1, <1>3, <2>1 DEF BearerInv
  <1>4. CASE \E t \in Threads : Bears(t)
    <2>1. state \notin Rising
      BY <1>4, NobodyBears
    <2>2. \A t \in Threads : Bears(t) => Fits(pc[t])'
      <3> SUFFICES ASSUME NEW t \in Threads, Bears(t)
                   PROVE  Fits(pc[t])'
        OBVIOUS
      <3>1. pc'[t] = pc[t] /\ Fits(pc[t]) /\ state' = state
        BY <2>1 DEF BearerInv
      <3> QED
        BY <3>1 DEF Fits
    <2> QED
      BY <1>1, <1>4, <2>2 DEF BearerInv
  <1> QED
    BY <1>3, <1>4

(* A step of the one thread that bears, before it or after it *)
LEMMA BearerStep ==
    ASSUME ShapeInv, NEW t \in Threads, NEW l, Go(t, l),
           \A u \in Threads : u # t => ~Bears(u),
           l[1] \in BearHeads => Fits(l)',
           l[1] \notin BearHeads => Free'
    PROVE  BearerInv'
  <1>1. pc'[t] = l /\ \A u \in Threads : u # t => ~Bears(u)'
    BY Others DEF Bears
  <1>2. \A u \in Threads : Bears(u)' => u = t
    BY <1>1
  <1>3. Bears(t)' => Fits(pc[t])'
    BY <1>1 DEF Bears, Fits
  <1>4. ~Bears(t)' => Free'
    BY <1>1 DEF Bears
  <1> QED
    BY <1>2, <1>3, <1>4 DEF BearerInv

LEMMA OneBearer ==
    ASSUME BearerInv, NEW t \in Threads, Bears(t)
    PROVE  Fits(pc[t]) /\ \A u \in Threads : u # t => ~Bears(u)
  BY DEF BearerInv

(* The same for the answers that are not told yet *)
LEMMA TellSame ==
    ASSUME OwedInv, ShapeInv, NEW t \in Threads, NEW l, Go(t, l),
           Tells(l) <=> Tells(pc[t]), UNCHANGED <<due, owed>>
    PROVE  OwedInv'
  <1>1. Telling' = Telling
    BY Others, WorkFacts DEF Telling
  <1> QED
    BY <1>1 DEF OwedInv

LEMMA TellBegin ==
    ASSUME OwedInv, due \in Int, ShapeInv, NEW t \in Works, NEW l, Go(t, l), ~Tells(pc[t]), Tells(l),
           due' = due - 1, owed' = owed
    PROVE  OwedInv'
  <1>1. Telling' = Telling \cup {t} /\ t \notin Telling
    BY Others, WorkFacts DEF Telling
  <1>2. /\ IsFiniteSet(Telling') /\ Cardinality(Telling') = Cardinality(Telling) + 1
        /\ Cardinality(Telling) \in Nat
    BY <1>1, FS_AddElement, FS_CardinalityType DEF OwedInv
  <1> QED
    BY <1>2 DEF OwedInv

LEMMA TellEnd ==
    ASSUME OwedInv, due \in Int, ShapeInv, NEW t \in Works, NEW l, Go(t, l), Tells(pc[t]), ~Tells(l),
           \/ due' = due + 1 /\ owed' = owed
           \/ due' = due /\ owed' = owed - 1
    PROVE  OwedInv'
  <1>1. Telling' = Telling \ {t} /\ t \in Telling
    BY Others, WorkFacts DEF Telling
  <1>2. /\ IsFiniteSet(Telling') /\ Cardinality(Telling') = Cardinality(Telling) - 1
        /\ Cardinality(Telling) \in Nat
    BY <1>1, FS_RemoveElement, FS_CardinalityType DEF OwedInv
  <1> QED
    BY <1>2 DEF OwedInv

(* CONFIGURING ends with the client that configures. *)
LEMMA ConfSame ==
    ASSUME ConfInv, ShapeInv, NEW t \in Threads, NEW l, Go(t, l),
           pc[t] # Step("config"), state' = state \/ state' # "CONFIGURING"
    PROVE  ConfInv'
  <1>1. ASSUME NEW c \in Clients, At(c, "config", "none")
        PROVE  At(c, "config", "none")'
    <2>1. c # t /\ c \in Threads
      BY <1>1, WorkFacts DEF At, Step
    <2> QED
      BY <1>1, <2>1, Others DEF At
  <1> QED
    BY <1>1 DEF ConfInv

LEMMA CancelSame ==
    ASSUME NoCancel, ShapeInv, NEW t \in Threads, NEW l, Go(t, l), l[1] \notin {"cancel", "down"},
           t # "up_cancel" \/ l = Idle, state' # "CANCELING"
    PROVE  NoCancel'
  <1>1. "up_cancel" \in Threads
    BY WorkFacts DEF Enders
  <1>2. pc'["up_cancel"] = Idle
    BY <1>1, Others DEF NoCancel
  <1>3. \A c \in Clients : pc'[c][1] \notin {"cancel", "down"}
    BY Others, WorkFacts DEF NoCancel
  <1> QED
    BY <1>2, <1>3 DEF NoCancel

-----------------------------------------------------------------------------
(* The works of the core *)

CoreHeads == {"idle", "begin", "serdes", "decide", "after_an", "off", "check", "enable",
              "publish", "rearm", "wait"}

(* A step that no layer hears of: it may end the attempt, or wait for it *)
CoreMove(t) ==
    /\ pc[t][1] \in CoreHeads
    /\ \E l : Go(t, l) /\ l[1] \in CoreHeads
    /\ due' = due
    /\ \/ state' = state
       \/ state \in Rising /\ state' \in {"GOING_UP", "GOING_DOWN", "TIMEOUT"}

(* The step that publishes UP *)
Publishes(t) ==
    /\ pc[t][1] = "publish"
    /\ Go(t, <<"up_cb", "up">>)
    /\ due' = due
    /\ state \in Rising /\ state' = "UP"

LEMMA MoveOfFailUp ==
    ASSUME NEW t, NEW tm, FailUp(t, tm), pc[t][1] \in CoreHeads
    PROVE  CoreMove(t)
  BY DEF FailUp, UpFail, CoreMove, CoreHeads, Idle

LEMMA MoveOfEnter ==
    ASSUME NEW t, NEW states, NEW s \in CoreHeads, NEW tm, Enter(t, states, Step(s), tm)
    PROVE  CoreMove(t)
  <1>1. Step(s)[1] = s /\ Idle[1] = "idle"
    BY DEF Step, Idle
  <1> QED
    BY <1>1 DEF Enter, Take, CoreMove, CoreHeads, ghosts

LEMMA MoveOfStep ==
    ASSUME NEW t, NEW s \in CoreHeads, At(t, s, "none"), NEW n \in CoreHeads,
           Go(t, Step(n)), due' = due, state' = state
    PROVE  CoreMove(t)
  BY DEF At, Step, CoreMove

LEMMA CoreGoes ==
    ASSUME EndInv, FaultPaths \subseteq {"rearm"}, NEW t \in Works, LinkWork(t)
    PROVE  CoreMove(t) \/ Publishes(t) \/ (t \in Ends /\ TeardownEnd(t))
  <1>0. Idle = Step("idle")
    BY DEF Idle, Step
  <1> DEFINE stays == due' = due /\ state' = state
  <1>1. CASE t = "an_up_start" /\ AnUpStartWork
    <2>1. CASE Enter(t, {"AN"}, Step("begin"), {})
      BY <2>1, MoveOfEnter DEF CoreHeads
    <2>2. CASE At(t, "begin", "none") /\ stays /\ (Go(t, Idle) \/ Go(t, Step("after_an")))
      BY <1>0, <2>2, MoveOfStep DEF CoreHeads
    <2>3. CASE At(t, "after_an", "none") /\ FailUp(t, {})
      BY <2>3, MoveOfFailUp DEF CoreHeads, At
    <2> QED
      BY <1>1, <2>1, <2>2, <2>3 DEF AnUpStartWork
  <1>2. CASE t = "an_up" /\ AnUpWork
    <2>1. CASE Enter(t, {"AN"}, Step("serdes"), {})
      BY <2>1, MoveOfEnter DEF CoreHeads
    <2>2. CASE At(t, "serdes", "none") /\ stays /\ Go(t, Idle)
      BY <1>0, <2>2, MoveOfStep DEF CoreHeads
    <2>3. CASE At(t, "serdes", "none") /\ FailUp(t, {})
      BY <2>3, MoveOfFailUp DEF CoreHeads, At
    <2> QED
      BY <1>2, <2>1, <2>2, <2>3 DEF AnUpWork, ghosts
  <1>3. CASE t = "an_up_done" /\ AnUpDoneWork
    <2>1. CASE Enter(t, {"AN"}, Step("decide"), {})
      BY <2>1, MoveOfEnter DEF CoreHeads
    <2>2. CASE At(t, "decide", "none") /\ stays /\ (Go(t, Idle) \/ Go(t, Step("after_an")))
      BY <1>0, <2>2, MoveOfStep DEF CoreHeads
    <2>3. CASE At(t, "decide", "none") /\ FailUp(t, {})
      BY <2>3, MoveOfFailUp DEF CoreHeads, At
    <2> QED
      BY <1>3, <2>1, <2>2, <2>3 DEF AnUpDoneWork, ghosts
  <1>4. CASE UpAfterAnStart(t)
    <2>1. CASE /\ At(t, "after_an", "none") /\ due' = due
               /\ \/ state = "AN" /\ state' = "GOING_UP" /\ Go(t, Step("off"))
                  \/ Go(t, Idle) /\ UNCHANGED state
      BY <2>1 DEF At, Step, Idle, CoreMove, CoreHeads, Rising
    <2>2. CASE At(t, "off", "none") /\ stays /\ Go(t, Idle)
      BY <1>0, <2>2, MoveOfStep DEF CoreHeads
    <2>3. CASE At(t, "off", "none") /\ FailUp(t, {"link_up"})
      BY <2>3, MoveOfFailUp DEF CoreHeads, At
    <2> QED
      BY <1>4, <2>1, <2>2, <2>3 DEF UpAfterAnStart, ghosts
  <1>5. CASE t = "up_start" /\ UpStartWork
    <2>1. CASE Enter(t, {"GOING_UP"}, Step("begin"), {})
      BY <2>1, MoveOfEnter DEF CoreHeads
    <2>2. CASE At(t, "begin", "none") /\ stays /\ Go(t, Step("off"))
      BY <1>0, <2>2, MoveOfStep DEF CoreHeads
    <2>3. CASE At(t, "begin", "none") /\ FailUp(t, {})
      BY <2>3, MoveOfFailUp DEF CoreHeads, At
    <2>4. CASE At(t, "off", "none") /\ stays /\ Go(t, Idle)
      BY <1>0, <2>4, MoveOfStep DEF CoreHeads
    <2> QED
      BY <1>5, <2>1, <2>2, <2>3, <2>4 DEF UpStartWork, ghosts
  <1>6. CASE t = "up" /\ UpWork
    <2>1. CASE Enter(t, Rising, Step("serdes"), {"link_up"})
      BY <2>1, MoveOfEnter DEF CoreHeads
    <2>2. CASE At(t, "serdes", "none") /\ stays /\ Go(t, Idle)
      BY <1>0, <2>2, MoveOfStep DEF CoreHeads
    <2>3. CASE At(t, "serdes", "none") /\ FailUp(t, {"link_up"})
      BY <2>3, MoveOfFailUp DEF CoreHeads, At
    <2> QED
      BY <1>6, <2>1, <2>2, <2>3 DEF UpWork, ghosts
  <1>7. ASSUME NEW tm, BeginWork(t, tm)
        PROVE  CoreMove(t)
    <2>1. CASE Enter(t, Rising, Step("begin"), {"link_up"})
      BY <2>1, MoveOfEnter DEF CoreHeads
    <2>2. CASE At(t, "begin", "none") /\ stays /\ Go(t, Idle)
      BY <1>0, <2>2, MoveOfStep DEF CoreHeads
    <2> QED
      BY <1>7, <2>1, <2>2 DEF BeginWork, ghosts
  <1>8. CASE CheckWork(t)
    <2>1. CASE Enter(t, Rising, Step("check"), {"link_up"})
      BY <2>1, MoveOfEnter DEF CoreHeads
    <2>2. CASE At(t, "check", "none") /\ stays /\ Go(t, Idle)
      BY <1>0, <2>2, MoveOfStep DEF CoreHeads
    <2>3. CASE At(t, "check", "none") /\ UpAld /\ Go(t, Step("enable")) /\ due' = due
      BY <2>3 DEF UpAld, UpFail, At, Step, CoreMove, CoreHeads
    <2>4. CASE At(t, "check", "none") /\ FailUp(t, {"link_up"})
      BY <2>4, MoveOfFailUp DEF CoreHeads, At
    <2> QED
      BY <1>8, <2>1, <2>2, <2>3, <2>4 DEF CheckWork, ghosts
  <1>9. CASE UpSuccess(t)
    <2>1. CASE At(t, "enable", "none") /\ stays /\ Go(t, Step("publish"))
      BY <1>0, <2>1, MoveOfStep DEF CoreHeads
    <2>2. CASE At(t, "enable", "none") /\ FailUp(t, {})
      BY <2>2, MoveOfFailUp DEF CoreHeads, At
    <2>3. CASE At(t, "publish", "none") /\ stays /\ Go(t, Idle)
      BY <1>0, <2>3, MoveOfStep DEF CoreHeads
    <2>4. CASE /\ At(t, "publish", "none") /\ state = "GOING_UP" /\ due' = due
               /\ state' = "UP" /\ Go(t, <<"up_cb", "up">>)
      BY <2>4 DEF At, Publishes, Rising
    <2> QED
      BY <1>9, <2>1, <2>2, <2>3, <2>4 DEF UpSuccess, ghosts
  <1>10. CASE t \in Ends /\ Teardown(t)
    <2>1. CASE TeardownStart(t)
      <3>1. /\ pc[t][1] = "idle" /\ due' = due
            /\ \/ state' = state
               \/ state \in Rising /\ state' = "TIMEOUT"
            /\ \E l : Go(t, l) /\ l[1] \in {"idle", "wait"}
        BY <2>1 DEF TeardownStart, Claims, Idle, ghosts
      <3> QED
        BY <3>1 DEF CoreMove, CoreHeads
    <2>2. CASE TeardownWait(t)
      <3>1. /\ pc[t][1] = "wait" /\ due' = due /\ state' = state
            /\ \E l : Go(t, l) /\ l[1] \in {"off", "wait"}
        BY <2>2 DEF TeardownWait, Waited, At, Cancel, Step, ghosts
      <3> QED
        BY <3>1 DEF CoreMove, CoreHeads
    <2> QED
      BY <1>10, <2>1, <2>2 DEF Teardown
  <1>11. CASE MonitorTake(t) \/ (t \in FaultWorks /\ FaultWork(t))
    <2>1. ~FaultRecover /\ ("pml_poll" \notin FaultWorks)
      BY LinkOptionsAssumption
         DEF FaultRecover, FaultWorks, Works, AnWorks, SettleWorks, PollWorks, Enders
    <2>2. /\ pc[t][1] = "idle" /\ due' = due /\ state' = state
          /\ Go(t, Idle) \/ Go(t, Step("rearm"))
      BY <1>11, <2>1 DEF MonitorTake, FaultWork, FaultTake, Take, Idle, ghosts
    <2> QED
      BY <2>2 DEF CoreMove, CoreHeads, Idle, Step
  <1>12. CASE Rearm(t)
    BY <1>0, <1>12, MoveOfStep DEF Rearm, CoreHeads
  <1>13. CASE t \in FaultWorks /\ FaultLinkDown(t)
    <2>1. t = "fault"
      BY <1>13, LinkOptionsAssumption
         DEF FaultWorks, Works, AnWorks, SettleWorks, PollWorks, Enders
    <2> QED
      BY <1>13, <2>1, WorkFacts DEF FaultLinkDown, At, EndInv, ShapeInv, WorkSteps, CallbackSteps
  <1> QED
    BY <1>1, <1>2, <1>3, <1>4, <1>5, <1>6, <1>7, <1>8, <1>9, <1>10, <1>11, <1>12, <1>13,
       WorkFacts DEF LinkWork

-----------------------------------------------------------------------------
(* The steps keep what the layers hold. *)

(* A step that bears nothing and tells nothing *)
LEMMA LayersSame ==
    ASSUME CtrlInv, EndInv', NEW t \in Threads, NEW l, Go(t, l),
           pc[t][1] \notin BearHeads, l[1] \notin BearHeads \cup {"cancel", "down"},
           Tells(l) <=> Tells(pc[t]), pc[t] # Step("config"),
           t # "up_cancel" \/ l = Idle,
           UNCHANGED <<due, ctrl, owed>>,
           \/ state' = state
           \/ state \in Rising /\ state' \in Rising \cup {"GOING_DOWN", "TIMEOUT"}
    PROVE  LayersInv'
  <1>1. EndInv /\ CtrlRanges /\ BearerInv /\ NoCancel /\ OwedInv /\ ConfInv /\ ShapeInv
    BY DEF CtrlInv, LayersInv, EndInv
  <1>2. {"GOING_DOWN", "TIMEOUT"} \subseteq Leaving
    BY DEF Leaving
  <1>3. \A u \in Threads : pc'[u] = pc[u] \/ (~Bears(u) /\ ~Bears(u)')
    BY <1>1, Others DEF Bears
  <1>4. BearerInv'
    BY <1>1, <1>2, <1>3, BearerSame
  <1>5. state' = state \/ state' \notin {"CONFIGURING", "CANCELING"}
    BY DEF Rising
  <1>6. OwedInv'
    BY <1>1, TellSame
  <1>7. ConfInv'
    BY <1>1, <1>5, ConfSame
  <1>8. NoCancel'
    BY <1>1, <1>5, CancelSame DEF NoCancel
  <1> QED
    BY <1>4, <1>6, <1>7, <1>8 DEF LayersInv

LEMMA LayersStill ==
    ASSUME CtrlInv, EndInv', UNCHANGED <<pc, state, due, ctrl, owed>>
    PROVE  LayersInv'
  <1>1. BearerInv'
    BY BearerSame DEF CtrlInv, LayersInv, Bears
  <1>2. OwedInv' /\ NoCancel' /\ ConfInv'
    BY DEF CtrlInv, LayersInv, OwedInv, Telling, NoCancel, ConfInv, At
  <1> QED
    BY <1>1, <1>2 DEF LayersInv

(* Where nobody is ever canceled the cancel work does nothing. *)
LEMMA CancelIdle ==
    ASSUME NoCancel, LinkWork("up_cancel")
    PROVE  Go("up_cancel", Idle)
  <1>1. Teardown("up_cancel")
    BY LinkOptionsAssumption DEF LinkWork, FaultWorks
  <1>2. ~TeardownWait("up_cancel") /\ ~TeardownEnd("up_cancel")
    BY DEF NoCancel, TeardownWait, Waited, TeardownEnd, At, Idle
  <1> QED
    BY <1>1, <1>2 DEF Teardown, TeardownStart, Claims, NoCancel

LEMMA LayersOfWork ==
    ASSUME CtrlInv, EndInv', FaultPaths \subseteq {"rearm"}, NEW t \in Works,
           LinkWork(t), UNCHANGED ctrlVars
    PROVE  LayersInv'
  <1>1. /\ EndInv /\ CtrlRanges /\ BearerInv /\ NoCancel /\ OwedInv /\ ConfInv /\ ShapeInv
        /\ UNCHANGED <<ctrl, owed>> /\ t \in Threads
    BY WorkFacts DEF CtrlInv, LayersInv, EndInv, ctrlVars
  <1>2. t = "up_cancel" => Go(t, Idle)
    BY <1>1, CancelIdle
  <1>3. CASE CoreMove(t)
    <2>1. PICK l : Go(t, l) /\ l[1] \in CoreHeads /\ (t = "up_cancel" => l = Idle)
      BY <1>2, <1>3 DEF CoreMove, CoreHeads, Idle
    <2>2. /\ pc[t][1] \notin BearHeads /\ l[1] \notin BearHeads \cup {"cancel", "down"}
          /\ ~Tells(l) /\ ~Tells(pc[t]) /\ pc[t] # Step("config")
      BY <1>3, <2>1 DEF CoreMove, CoreHeads, BearHeads, Tells, Step
    <2> QED
      BY <1>1, <1>3, <2>1, <2>2, LayersSame DEF CoreMove, Rising
  <1>4. CASE Publishes(t)
    <2> DEFINE l == <<"up_cb", "up">>
    <2>1. /\ Go(t, l) /\ state \in Rising /\ state' = "UP" /\ due' = due
          /\ pc[t][1] = "publish"
      BY <1>4 DEF Publishes
    <2>2. (\A u \in Threads : ~Bears(u)) /\ ctrl = "STARTING"
      BY <1>1, <2>1, NobodyBears DEF Free
    <2>3. l[1] \in BearHeads /\ Fits(l)'
      BY <1>1, <2>1, <2>2 DEF Fits, BearHeads
    <2>4. ~Tells(l) /\ ~Tells(pc[t]) /\ pc[t] # Step("config") /\ l[1] \notin {"cancel", "down"}
      BY <2>1 DEF Tells, Step
    <2>5. t # "up_cancel"
      BY <2>1, <1>1 DEF NoCancel, Idle
    <2> HIDE DEF l
    <2>6. BearerInv'
      BY <1>1, <2>1, <2>2, <2>3, BearerStep
    <2>7. OwedInv'
      BY <1>1, <2>1, <2>4, TellSame
    <2>8. ConfInv' /\ NoCancel'
      BY <1>1, <2>1, <2>4, <2>5, ConfSame, CancelSame
    <2> QED
      BY <2>6, <2>7, <2>8 DEF LayersInv
  <1>5. CASE t \in Ends /\ TeardownEnd(t)
    <2>1. PICK l : l = IF t = "down" THEN Step("down_cb") ELSE <<"up_cb", "read">>
      OBVIOUS
    <2>2. /\ Go(t, l) /\ state' = "DOWN" /\ due' = due
          /\ pc[t] = <<"off", "none">>
      BY <1>5, <2>1 DEF TeardownEnd, At
    <2>3. /\ Leads(Run, t) /\ Run \in Carriers
      BY <2>2, CarrierFacts DEF Leads
    <2>4. state \in Leaving /\ (EnderLeads <=> t # "down")
      BY <1>1, <1>5, <2>3, EnderFacts, StateFacts, WorkFacts DEF LeadInv, EndInv
    <2>5. (\A u \in Threads : ~Bears(u)) /\ ctrl = IF EnderLeads THEN "STARTING" ELSE "STOPPING"
      BY <1>1, <2>4, NobodyBears DEF Free
    <2>6. l[1] \in BearHeads /\ Fits(l)'
      BY <1>1, <2>1, <2>2, <2>4, <2>5 DEF Fits, BearHeads, Step
    <2>7. ~Tells(l) /\ ~Tells(pc[t]) /\ pc[t] # Step("config") /\ l[1] \notin {"cancel", "down"}
      BY <2>1, <2>2 DEF Tells, Step
    <2>8. t # "up_cancel"
      BY <2>2, <1>1 DEF NoCancel, Idle
    <2>9. BearerInv'
      BY <1>1, <2>2, <2>5, <2>6, BearerStep
    <2>10. OwedInv'
      BY <1>1, <2>2, <2>7, TellSame
    <2>11. ConfInv' /\ NoCancel'
      BY <1>1, <2>2, <2>7, <2>8, ConfSame, CancelSame
    <2> QED
      BY <2>9, <2>10, <2>11 DEF LayersInv
  <1> QED
    BY <1>1, <1>3, <1>4, <1>5, CoreGoes

LEMMA LayersOfUpCmd ==
    ASSUME CtrlInv, EndInv', NEW t \in Threads, UpCmd(t, Idle), UNCHANGED ctrlVars
    PROVE  LayersInv'
  <1>1. /\ Go(t, Idle) /\ pc[t] = <<"up_cmd", "none">> /\ UNCHANGED <<due, ctrl, owed>>
        /\ \/ state' = state
           \/ state \in Rising /\ state' = "GOING_DOWN"
    BY DEF UpCmd, UpFail, At, ctrlVars
  <1>2. /\ pc[t][1] \notin BearHeads /\ Idle[1] \notin BearHeads \cup {"cancel", "down"}
        /\ ~Tells(Idle) /\ ~Tells(pc[t]) /\ pc[t] # Step("config")
    BY <1>1 DEF BearHeads, Tells, Step, Idle
  <1> QED
    BY <1>1, <1>2, LayersSame

(* A step of the one thread that bears, or that begins to *)
LEMMA LayersStep ==
    ASSUME CtrlInv, NEW t \in Threads, NEW l, Go(t, l),
           \A u \in Threads : u # t => ~Bears(u),
           l[1] \in BearHeads => Fits(l)', l[1] \notin BearHeads => Free',
           l[1] \notin {"cancel", "down"}, pc[t] # Step("config"), t # "up_cancel",
           state' = state \/ state' \notin {"CONFIGURING", "CANCELING"}, OwedInv'
    PROVE  LayersInv'
  <1>1. BearerInv /\ NoCancel /\ ConfInv /\ ShapeInv
    BY DEF CtrlInv, LayersInv, EndInv
  <1>2. BearerInv'
    BY <1>1, BearerStep
  <1>3. ConfInv'
    BY <1>1, ConfSame
  <1>4. NoCancel'
    BY <1>1, CancelSame DEF NoCancel
  <1> QED
    BY <1>2, <1>3, <1>4 DEF LayersInv

LEMMA CallbackLayers ==
    ASSUME CtrlInv, NEW t \in Works, pc[t][1] \in BearHeads \cup {"notify", "up_cmd"}
    PROVE  /\ t \in Threads /\ t # "up_cancel" /\ pc[t] # Step("config")
           /\ pc[t][1] \in BearHeads =>
                 Fits(pc[t]) /\ \A u \in Threads : u # t => ~Bears(u)
           /\ AfterUpCallback(t) = Idle
           /\ due \in Int /\ owed \in Int /\ OwedInv /\ ShapeInv
  <1>1. t # "up_cancel"
    BY DEF CtrlInv, LayersInv, NoCancel, BearHeads, Idle
  <1>2. pc[t] # Step("config")
    BY DEF BearHeads, Step
  <1>3. t \in Threads
    BY WorkFacts
  <1>4. pc[t][1] \in BearHeads => Fits(pc[t]) /\ \A u \in Threads : u # t => ~Bears(u)
    BY <1>3, OneBearer DEF Bears, CtrlInv, LayersInv
  <1>5. due \in Int /\ owed \in Int /\ OwedInv /\ ShapeInv
    BY DEF CtrlInv, CtrlRanges, RangeInv, CtrlRange, LayersInv, EndInv
  <1> QED
    BY <1>1, <1>2, <1>3, <1>4, <1>5 DEF AfterUpCallback

(* The work at the up callback of an attempt that came up, or did not *)
LEMMA LayersOfAnswer ==
    ASSUME CtrlInv, NEW t \in Works, UpCallbackUp(t) \/ UpCallbackRead(t)
    PROVE  LayersInv'
  <1>1. pc[t][1] = "up_cb" /\ pc[t][1] \in BearHeads /\ ~Tells(pc[t])
    BY DEF UpCallbackUp, UpCallbackRead, At, BearHeads, Tells
  <1>2. /\ t \in Threads /\ t # "up_cancel" /\ pc[t] # Step("config") /\ Fits(pc[t])
        /\ \A u \in Threads : u # t => ~Bears(u)
        /\ due \in Int /\ owed \in Int /\ OwedInv /\ ShapeInv
    BY <1>1, CallbackLayers
  <1>3. /\ UNCHANGED <<state, owed>> /\ due' = due - 1
    BY DEF UpCallbackUp, UpCallbackRead
  <1>4. CASE UpCallbackUp(t)
    <2>1. pc[t] = <<"up_cb", "up">> /\ ctrl' = "UP" /\ Go(t, <<"notify", "up">>)
      BY <1>4 DEF UpCallbackUp, At
    <2>2. state = "UP"
      BY <1>2, <2>1 DEF Fits
    <2> DEFINE l == <<"notify", "up">>
    <2>3. Tells(l) /\ l[1] = "notify" /\ Go(t, l)
      BY <2>1 DEF Tells
    <2> HIDE DEF l
    <2>4. OwedInv'
      BY <1>1, <1>2, <1>3, <2>3, TellBegin
    <2>5. Free'
      BY <1>3, <2>1, <2>2, StateFacts DEF Free
    <2> QED
      BY <1>2, <1>3, <2>3, <2>4, <2>5, LayersStep DEF BearHeads
  <1>5. CASE UpCallbackRead(t)
    <2>1. pc[t] = <<"up_cb", "read">>
      BY <1>5 DEF UpCallbackRead, At
    <2>2. state = "DOWN" /\ ctrl = "STARTING"
      BY <1>2, <2>1 DEF Fits
    <2> DEFINE l == Step("up_fail")
    <2>3. /\ ctrl' = ctrl /\ Go(t, l)
          /\ Tells(l) /\ l[1] = "up_fail"
      BY <1>5, <2>2 DEF UpCallbackRead, Tells, Step
    <2>4. Fits(l)'
      BY <1>3, <2>2, <2>3 DEF Fits, Step
    <2> HIDE DEF l
    <2>5. OwedInv'
      BY <1>1, <1>2, <1>3, <2>3, TellBegin
    <2> QED
      BY <1>2, <1>3, <2>3, <2>4, <2>5, LayersStep DEF BearHeads
  <1> QED
    BY <1>4, <1>5

(* From the end of an attempt to its retry or to the wake-up of the waiters *)
LEMMA LayersOfFail ==
    ASSUME CtrlInv, NEW t \in Works,
           UpCallbackFail(t) \/ Stopping(t) \/ Settled(t) \/ DownCallback(t)
    PROVE  LayersInv'
  <1>1. /\ pc[t][1] \in {"up_fail", "stopping", "settle", "down_cb"}
        /\ pc[t][1] \in BearHeads
        /\ UNCHANGED <<state, due, owed>>
    BY DEF UpCallbackFail, Stopping, Settled, DownCallback, At, BearHeads, coreVars, ghosts,
           ctrlVars
  <1>2. /\ t \in Threads /\ t # "up_cancel" /\ pc[t] # Step("config") /\ Fits(pc[t])
        /\ \A u \in Threads : u # t => ~Bears(u)
        /\ OwedInv /\ ShapeInv
    BY <1>1, CallbackLayers
  <1>3. /\ pc[t][1] \in {"up_fail", "stopping"} => ctrl = "STARTING" /\ state = "DOWN"
        /\ pc[t][1] \in {"settle", "down_cb"} => ctrl = "STOPPING" /\ state = "DOWN"
    BY <1>2 DEF Fits
  <1>4. CASE UpCallbackFail(t)
    <2>1. PICK l \in {Step("stopping"), Step("retry")} : Go(t, l)
      BY <1>4 DEF UpCallbackFail
    <2>2. ctrl' = ctrl /\ pc[t] = <<"up_fail", "none">>
      BY <1>4 DEF UpCallbackFail, At
    <2>3. /\ l[1] \in {"stopping", "retry"} /\ Tells(l) /\ Tells(pc[t])
          /\ Fits(l)'
      BY <1>1, <1>3, <2>1, <2>2 DEF Fits, Step, Tells
    <2>4. OwedInv'
      BY <1>1, <1>2, <2>1, <2>3, TellSame
    <2> QED
      BY <1>1, <1>2, <2>1, <2>3, <2>4, LayersStep DEF BearHeads
  <1>5. CASE Stopping(t)
    <2> DEFINE l == <<"settle", "up">>
    <2>1. ctrl' = "STOPPING" /\ pc[t] = <<"stopping", "none">> /\ Go(t, l)
      BY <1>3, <1>5 DEF Stopping, At
    <2>2. /\ l[1] = "settle" /\ Tells(l) /\ Tells(pc[t])
          /\ Fits(l)'
      BY <1>1, <1>3, <2>1 DEF Fits, Tells
    <2> HIDE DEF l
    <2>3. OwedInv'
      BY <1>1, <1>2, <2>1, <2>2, TellSame
    <2> QED
      BY <1>1, <1>2, <2>1, <2>2, <2>3, LayersStep DEF BearHeads
  <1>6. CASE Settled(t)
    <2> DEFINE l == <<"notify", pc[t][2]>>
    <2>1. ctrl' = "DOWN" /\ pc[t][1] = "settle" /\ Go(t, l) /\ l[1] = "notify"
      BY <1>6 DEF Settled
    <2>2. Tells(l) <=> Tells(pc[t])
      <3>1. pc[t] \in CtrlLabels
        BY <1>2 DEF CtrlInv, CtrlRanges, CtrlPc
      <3>2. pc[t] \in {<<"settle", "up">>, <<"settle", "down">>}
        BY <2>1, <3>1 DEF CtrlLabels, Labels, Step
      <3> QED
        BY <3>2 DEF Tells
    <2>3. Free'
      BY <1>1, <1>3, <2>1, StateFacts DEF Free, RestStates
    <2> HIDE DEF l
    <2>4. OwedInv'
      BY <1>1, <1>2, <2>1, <2>2, TellSame
    <2> QED
      BY <1>1, <1>2, <2>1, <2>3, <2>4, LayersStep DEF BearHeads
  <1>7. CASE DownCallback(t)
    <2> DEFINE l == <<"settle", "down">>
    <2>1. ctrl' = ctrl /\ pc[t] = <<"down_cb", "none">> /\ Go(t, l)
      BY <1>3, <1>7 DEF DownCallback, At, ctrlVars
    <2>2. /\ l[1] = "settle" /\ ~Tells(l) /\ ~Tells(pc[t])
          /\ Fits(l)'
      BY <1>1, <1>3, <2>1 DEF Fits, Tells
    <2> HIDE DEF l
    <2>3. OwedInv'
      BY <1>1, <1>2, <2>1, <2>2, TellSame
    <2> QED
      BY <1>1, <1>2, <2>1, <2>2, <2>3, LayersStep DEF BearHeads
  <1> QED
    BY <1>4, <1>5, <1>6, <1>7

LEMMA LayersOfNotify ==
    ASSUME CtrlInv, EndInv', NEW t \in Works, Notify(t)
    PROVE  LayersInv'
  <1>1. pc[t][1] = "notify" /\ pc[t][1] \notin BearHeads
    BY DEF Notify, BearHeads
  <1>2. /\ t \in Threads /\ t # "up_cancel" /\ pc[t] # Step("config")
        /\ AfterUpCallback(t) = Idle
        /\ due \in Int /\ owed \in Int /\ OwedInv /\ ShapeInv
        /\ CtrlRanges /\ BearerInv /\ EndInv /\ NoCancel /\ ConfInv
    BY <1>1, CallbackLayers DEF CtrlInv, LayersInv
  <1>3. /\ Go(t, Idle) /\ UNCHANGED <<state, due, ctrl>>
        /\ owed' = IF pc[t][2] = "up" THEN owed - 1 ELSE owed
    BY <1>2 DEF Notify, coreVars, ghosts
  <1>4. Idle[1] = "idle" /\ ~Tells(Idle) /\ "idle" \notin BearHeads
    BY DEF Idle, Tells, BearHeads
  <1>5. \A u \in Threads : pc'[u] = pc[u] \/ (~Bears(u) /\ ~Bears(u)')
    BY <1>1, <1>2, <1>3, <1>4, Others DEF Bears
  <1>6. BearerInv'
    BY <1>2, <1>3, <1>5, BearerSame
  <1>7. OwedInv'
    <2>1. pc[t] \in CtrlLabels
      BY <1>2 DEF CtrlRanges, CtrlPc
    <2>2. pc[t] \in {<<"notify", "up">>, <<"notify", "down">>}
      BY <1>1, <2>1 DEF CtrlLabels, Labels, Step
    <2>3. CASE pc[t] = <<"notify", "up">>
      <3>1. Tells(pc[t]) /\ owed' = owed - 1
        BY <1>3, <2>3 DEF Tells
      <3> QED
        BY <1>2, <1>3, <1>4, <3>1, TellEnd
    <2>4. CASE pc[t] = <<"notify", "down">>
      <3>1. ~Tells(pc[t]) /\ owed' = owed
        BY <1>3, <2>4 DEF Tells
      <3> QED
        BY <1>2, <1>3, <1>4, <3>1, TellSame
    <2> QED
      BY <2>2, <2>3, <2>4
  <1>8. ConfInv'
    BY <1>2, <1>3, ConfSame
  <1>9. NoCancel'
    BY <1>2, <1>3, <1>4, CancelSame DEF NoCancel
  <1> QED
    BY <1>6, <1>7, <1>8, <1>9 DEF LayersInv

LEMMA LayersOfRetry ==
    ASSUME CtrlInv, EndInv', NEW t \in Works, UpCallbackRetry(t)
    PROVE  LayersInv'
  <1>1. CASE UpCmd(t, AfterUpCallback(t))
    <2>1. pc[t][1] = "up_cmd"
      BY <1>1 DEF UpCmd, At
    <2>2. t \in Threads /\ AfterUpCallback(t) = Idle
      BY <2>1, CallbackLayers
    <2> QED
      BY <1>1, <2>2, LayersOfUpCmd DEF UpCallbackRetry
  <1>2. CASE /\ At(t, "retry", "none")
             /\ CoreUp(t, AfterUpCallback(t)) \/ CoreUpFails(t, Step("stopping"))
    <2>1. pc[t] = <<"retry", "none">> /\ pc[t][1] = "retry" /\ UNCHANGED <<ctrl, owed>>
      BY <1>2 DEF At, UpCallbackRetry, ctrlVars
    <2>2. /\ t \in Threads /\ t # "up_cancel" /\ pc[t] # Step("config") /\ Fits(pc[t])
          /\ \A u \in Threads : u # t => ~Bears(u)
          /\ due \in Int /\ owed \in Int /\ OwedInv /\ ShapeInv
          /\ "retry" \in BearHeads
      BY <2>1, CallbackLayers DEF BearHeads
    <2>3. state = "DOWN" /\ ctrl = "STARTING" /\ Tells(pc[t])
      BY <2>1, <2>2 DEF Fits, Tells
    <2>4. CASE UpAccept(t)
      <3> DEFINE l == Step("up_cmd")
      <3>1. /\ Go(t, l) /\ state' \in Rising /\ due' = due + 1
            /\ ~Tells(l) /\ l[1] = "up_cmd"
        BY <2>4 DEF UpAccept, Rising, Step, Tells
      <3>2. Free'
        BY <2>1, <2>3, <3>1, StateFacts DEF Free
      <3> HIDE DEF l
      <3>3. OwedInv'
        BY <2>1, <2>2, <2>3, <3>1, TellEnd
      <3>4. state' \notin {"CONFIGURING", "CANCELING"}
        BY <3>1 DEF Rising
      <3> QED
        BY <2>2, <3>1, <3>2, <3>3, <3>4, LayersStep DEF BearHeads
    <2>5. CASE CoreUpFails(t, Step("stopping"))
      <3> DEFINE l == Step("stopping")
      <3>1. /\ Go(t, l) /\ state' = state /\ due' = due
            /\ Tells(l) /\ l[1] = "stopping"
        BY <2>5 DEF CoreUpFails, Step, Tells
      <3>2. Fits(l)'
        BY <2>1, <2>3, <3>1 DEF Fits
      <3> HIDE DEF l
      <3>3. OwedInv'
        BY <2>1, <2>2, <2>3, <3>1, TellSame
      <3> QED
        BY <2>2, <3>1, <3>2, <3>3, LayersStep DEF BearHeads
    <2>6. ~UpAlready
      BY <2>3 DEF UpAlready, Rising
    <2> QED
      BY <1>2, <2>4, <2>5, <2>6 DEF CoreUp
  <1> QED
    BY <1>1, <1>2 DEF UpCallbackRetry

LEMMA LayersOfCallback ==
    ASSUME CtrlInv, EndInv', NEW t \in Works, CtrlCallback(t)
    PROVE  LayersInv'
  <1>1. ~FaultStartCallback(t) /\ ~FaultCallback(t)
    <2>1. pc[t][1] \in WorkSteps(t)
      BY DEF CtrlInv, EndInv, ShapeInv
    <2> QED
      BY <2>1, WorkFacts DEF FaultStartCallback, FaultCallback, FaultStart, At, WorkSteps,
                             CallbackSteps
  <1> QED
    BY <1>1, LayersOfAnswer, LayersOfFail, LayersOfNotify, LayersOfRetry DEF CtrlCallback

-----------------------------------------------------------------------------
(* The clients *)

LEMMA ClientLayers ==
    ASSUME CtrlInv, NEW c \in Clients
    PROVE  /\ c \in Threads /\ c # "up_cancel" /\ c \notin Works
           /\ pc[c][1] \in BearHeads =>
                 Fits(pc[c]) /\ \A u \in Threads : u # c => ~Bears(u)
           /\ due \in Int /\ owed \in Int /\ OwedInv /\ ShapeInv
           /\ EndInv /\ CtrlRanges /\ BearerInv /\ NoCancel /\ ConfInv
  <1>1. c \in Threads /\ c \notin Works /\ "up_cancel" \in Works
    BY WorkFacts DEF Enders
  <1>2. pc[c][1] \in BearHeads => Fits(pc[c]) /\ \A u \in Threads : u # c => ~Bears(u)
    BY <1>1, OneBearer DEF Bears, CtrlInv, LayersInv
  <1>3. due \in Int /\ owed \in Int /\ OwedInv /\ ShapeInv
    BY DEF CtrlInv, CtrlRanges, RangeInv, CtrlRange, LayersInv, EndInv
  <1> QED
    BY <1>1, <1>2, <1>3 DEF CtrlInv, LayersInv

(* A client tells nothing, whatever it does. *)
LEMMA ClientTells ==
    ASSUME CtrlInv, NEW c \in Clients, NEW l, Go(c, l), owed' - due' = owed - due,
           due' \in Int, owed' \in Int
    PROVE  OwedInv'
  <1>1. Telling' = Telling
    <2>1. c \in Threads /\ c \notin Works /\ ShapeInv
      BY ClientLayers
    <2>2. \A w \in Works : pc'[w] = pc[w]
      BY <2>1, Others, WorkFacts
    <2> QED
      BY <2>2 DEF Telling, Tells
  <1>2. due \in Int /\ owed \in Int /\ OwedInv
    BY ClientLayers
  <1>3. Cardinality(Telling) \in Int
    BY <1>2, FS_CardinalityType DEF OwedInv
  <1> QED
    BY <1>1, <1>2, <1>3 DEF OwedInv

LEMMA LayersOfLinkUp ==
    ASSUME CtrlInv, NEW c \in Clients, LinkUp(c)
    PROVE  LayersInv'
  <1> DEFINE l == Step("up_begin")
  <1>1. /\ pc[c] = Idle /\ ctrl = "DOWN" /\ ctrl' = "STARTING" /\ Go(c, l)
        /\ UNCHANGED <<state, due, owed>> /\ l[1] = "up_begin"
    BY DEF LinkUp, Step, coreVars, ghosts
  <1>2. (\A t \in Threads : ~Bears(t)) /\ Free
    BY <1>1, ClientLayers, NobodyBears
  <1>3. state \in RestStates
    BY <1>1, <1>2 DEF Free
  <1>4. Fits(l)'
    BY <1>1, <1>3 DEF Fits, Step
  <1> HIDE DEF l
  <1>5. OwedInv'
    BY <1>1, ClientLayers, ClientTells
  <1>6. pc[c] # Step("config")
    BY <1>1 DEF Idle, Step
  <1> QED
    BY <1>1, <1>2, <1>4, <1>5, <1>6, ClientLayers, LayersStep DEF BearHeads

LEMMA LayersOfLinkUpCmd ==
    ASSUME CtrlInv, NEW c \in Clients, LinkUpCmd(c)
    PROVE  LayersInv'
  <1>1. /\ pc[c][1] \in {"up_begin", "up_core", "up_refuse", "up_refused"}
        /\ pc[c][1] \in BearHeads /\ pc[c] # Step("config")
    BY DEF LinkUpCmd, At, BearHeads, Step
  <1>2. /\ c \in Threads /\ c # "up_cancel" /\ Fits(pc[c])
        /\ \A u \in Threads : u # c => ~Bears(u)
        /\ due \in Int /\ owed \in Int
    BY <1>1, ClientLayers
  <1>3. /\ state \in RestStates
        /\ pc[c][1] # "up_refused" => ctrl = "STARTING"
    BY <1>1, <1>2 DEF Fits
  <1>4. CASE /\ At(c, "up_begin", "none") /\ Go(c, Step("up_core"))
             /\ UNCHANGED <<state, due, ctrl, owed>>
    <2> DEFINE l == Step("up_core")
    <2>1. Go(c, l) /\ l[1] = "up_core" /\ ctrl = "STARTING"
      BY <1>3, <1>4 DEF Step, At
    <2>2. Fits(l)'
      BY <1>3, <1>4, <2>1 DEF Fits, Step
    <2> HIDE DEF l
    <2>3. OwedInv'
      BY <1>2, <1>4, <2>1, ClientTells
    <2> QED
      BY <1>1, <1>2, <1>4, <2>1, <2>2, <2>3, LayersStep DEF BearHeads
  <1>5. CASE /\ At(c, "up_core", "none") /\ UNCHANGED ctrl
             /\ UpAccept(c) /\ owed' = owed + 1
    <2> DEFINE l == Step("up_cmd")
    <2>1. /\ Go(c, l) /\ l[1] = "up_cmd" /\ ctrl' = "STARTING"
          /\ state' \in Rising /\ due' = due + 1
      BY <1>3, <1>5 DEF Step, At, UpAccept, Rising
    <2>2. Free'
      BY <2>1, StateFacts DEF Free
    <2> HIDE DEF l
    <2>3. OwedInv'
      BY <1>2, <1>5, <2>1, ClientTells
    <2>4. state' \notin {"CONFIGURING", "CANCELING"}
      BY <2>1 DEF Rising
    <2> QED
      BY <1>1, <1>2, <2>1, <2>2, <2>3, <2>4, LayersStep DEF BearHeads
  <1>6. CASE /\ At(c, "up_core", "none") /\ UNCHANGED ctrl
             /\ CoreUpFails(c, Step("up_refuse")) /\ UNCHANGED owed
    <2> DEFINE l == Step("up_refuse")
    <2>1. /\ Go(c, l) /\ l[1] = "up_refuse" /\ ctrl' = "STARTING"
          /\ state' = state /\ due' = due
      BY <1>3, <1>6 DEF Step, At, CoreUpFails
    <2>2. Fits(l)'
      BY <1>3, <2>1 DEF Fits, Step
    <2> HIDE DEF l
    <2>3. OwedInv'
      BY <1>2, <1>6, <2>1, ClientTells
    <2> QED
      BY <1>1, <1>2, <2>1, <2>2, <2>3, LayersStep DEF BearHeads
  <1>7. CASE /\ At(c, "up_refuse", "none") /\ ctrl' = "STOPPING" /\ Go(c, Step("up_refused"))
             /\ UNCHANGED <<state, due, owed>>
    <2> DEFINE l == Step("up_refused")
    <2>1. Go(c, l) /\ l[1] = "up_refused"
      BY <1>7 DEF Step
    <2>2. Fits(l)'
      BY <1>3, <1>7, <2>1 DEF Fits, Step
    <2> HIDE DEF l
    <2>3. OwedInv'
      BY <1>2, <1>7, <2>1, ClientTells
    <2> QED
      BY <1>1, <1>2, <1>7, <2>1, <2>2, <2>3, LayersStep DEF BearHeads
  <1>8. CASE /\ At(c, "up_refused", "none") /\ ctrl' = "DOWN" /\ Go(c, Idle)
             /\ UNCHANGED <<state, due, owed>>
    <2>1. Idle[1] = "idle"
      BY DEF Idle
    <2>2. Free'
      BY <1>3, <1>8, StateFacts DEF Free, RestStates, Rising, Leaving
    <2>3. OwedInv'
      BY <1>2, <1>8, ClientTells
    <2> QED
      BY <1>1, <1>2, <1>8, <2>1, <2>2, <2>3, LayersStep DEF BearHeads
  <1>9. ~UpAlready
    BY <1>3 DEF UpAlready, RestStates, Rising
  <1> QED
    BY <1>4, <1>5, <1>6, <1>7, <1>8, <1>9 DEF LinkUpCmd, CoreUp, coreVars, ghosts

LEMMA LayersOfAsync ==
    ASSUME CtrlInv, EndInv', NEW c \in Clients, LinkAsyncDown(c)
    PROVE  LayersInv'
  <1>1. pc[c] = Idle /\ UNCHANGED <<state, due, owed>> /\ pc[c] # Step("config")
    BY DEF LinkAsyncDown, coreVars, ghosts, Idle, Step
  <1>2. CASE ctrl = "UP" /\ ctrl' = "STOPPING" /\ Go(c, Step("async"))
    <2> DEFINE l == Step("async")
    <2>1. Go(c, l) /\ l[1] = "async"
      BY <1>2 DEF Step
    <2>2. (\A t \in Threads : ~Bears(t)) /\ Free
      BY <1>2, ClientLayers, NobodyBears
    <2>3. state = "UP"
      BY <1>2, <2>2, ClientLayers, StateFacts DEF Free
    <2>4. Fits(l)'
      BY <1>1, <1>2, <2>1, <2>3 DEF Fits, Step
    <2> HIDE DEF l
    <2>5. OwedInv'
      BY <1>1, <2>1, ClientLayers, ClientTells
    <2> QED
      BY <1>1, <2>1, <2>2, <2>4, <2>5, ClientLayers, LayersStep DEF BearHeads
  <1>3. CASE ctrl = "UP" /\ ctrl' = "UP_DOWN_REQ" /\ UNCHANGED pc
    <2>1. (\A t \in Threads : ~Bears(t)) /\ Free
      BY <1>3, ClientLayers, NobodyBears
    <2>2. state = "UP"
      BY <1>3, <2>1, ClientLayers, StateFacts DEF Free
    <2>3. Free' /\ \A t \in Threads : ~Bears(t)'
      BY <1>1, <1>3, <2>1, <2>2, StateFacts DEF Free, Bears
    <2>4. BearerInv'
      BY <2>3 DEF BearerInv
    <2>5. OwedInv' /\ NoCancel' /\ ConfInv'
      BY <1>1, <1>3 DEF CtrlInv, LayersInv, OwedInv, Telling, NoCancel, ConfInv, At
    <2> QED
      BY <2>4, <2>5 DEF LayersInv
  <1>4. CASE UNCHANGED <<ctrl, pc>>
    BY <1>1, <1>4, LayersStill
  <1> QED
    BY <1>2, <1>3, <1>4 DEF LinkAsyncDown

LEMMA LayersOfDownCmd ==
    ASSUME CtrlInv, EndInv', NEW c \in Clients, LinkDownCmd(c)
    PROVE  LayersInv'
  <1>1. pc[c][1] \notin {"cancel", "down"}
    BY DEF CtrlInv, LayersInv, NoCancel
  <1>2. pc[c] = <<"async", "none">> /\ CoreDown(c) /\ UNCHANGED <<ctrl, owed>>
    BY <1>1 DEF LinkDownCmd, At, ctrlVars
  <1>3. pc[c][1] = "async" /\ "async" \in BearHeads /\ pc[c] # Step("config")
    BY <1>2 DEF BearHeads, Step
  <1>4. /\ c \in Threads /\ c # "up_cancel" /\ Fits(pc[c])
        /\ \A u \in Threads : u # c => ~Bears(u)
        /\ due \in Int /\ owed \in Int /\ ShapeInv /\ EndInv /\ c \notin Works
    BY <1>3, ClientLayers
  <1>5. state = "UP" /\ ctrl = "STOPPING"
    BY <1>3, <1>4 DEF Fits
  <1>6. DownAccept(c) /\ due' = due
    BY <1>2, <1>5 DEF CoreDown, DownAlready, DownRefused, Leaving, ghosts
  <1> DEFINE l == <<"queue", "down">>
  <1>7. Go(c, l) /\ state' = "GOING_DOWN" /\ l[1] = "queue"
    BY <1>6 DEF DownAccept
  <1> HIDE DEF l
  <1>8. ~EnderLeads
    BY <1>4, <1>5, NoLead, StateFacts, WorkFacts DEF EndInv, EnderLeads
  <1>9. Answering' = Answering
    BY <1>4, <1>7, Others, WorkFacts DEF Answering
  <1>10. ~EnderLeads'
    <2>1. state \notin Rising /\ state' \notin Rising
      BY <1>5, <1>7 DEF Rising
    <2> QED
      BY <1>4, <1>6, <1>8, <1>9, <2>1, EnderSame DEF EndInv
  <1>11. Free'
    BY <1>2, <1>5, <1>7, <1>10 DEF Free, Rising, Leaving
  <1>12. OwedInv'
    BY <1>2, <1>4, <1>6, <1>7, ClientTells
  <1> QED
    BY <1>3, <1>4, <1>7, <1>11, <1>12, LayersStep DEF BearHeads

LEMMA LayersOfConfigSet ==
    ASSUME CtrlInv, NEW c \in Clients, ctrl = "DOWN", ConfigSet(c), UNCHANGED ctrlVars
    PROVE  LayersInv'
  <1> DEFINE l == Step("config")
  <1>1. /\ pc[c] = Idle /\ Go(c, l) /\ state' = "CONFIGURING" /\ due' = due
        /\ UNCHANGED <<ctrl, owed>> /\ l[1] = "config" /\ l = <<"config", "none">>
    BY DEF ConfigSet, ghosts, ctrlVars, Step
  <1> HIDE DEF l
  <1>2. (\A t \in Threads : ~Bears(t)) /\ Free
    BY ClientLayers, NobodyBears
  <1>3. /\ c \in Threads /\ c # "up_cancel" /\ ShapeInv /\ NoCancel
        /\ due \in Int /\ owed \in Int
    BY ClientLayers
  <1>4. Free'
    BY <1>1, <1>2 DEF Free, RestStates, Rising, Leaving
  <1>5. BearerInv'
    BY <1>1, <1>2, <1>3, <1>4, BearerStep DEF BearHeads
  <1>6. OwedInv'
    BY <1>1, <1>3, ClientTells
  <1>7. ConfInv'
    BY <1>1, <1>3, Others DEF ConfInv, At
  <1>8. NoCancel'
    BY <1>1, <1>3, CancelSame
  <1> QED
    BY <1>5, <1>6, <1>7, <1>8 DEF LayersInv

LEMMA LayersOfConfigEnd ==
    ASSUME CtrlInv, NEW c \in Clients, ConfigEnd(c), UNCHANGED ctrlVars
    PROVE  LayersInv'
  <1>1. /\ pc[c] = <<"config", "none">> /\ Go(c, Idle) /\ state' = "CONFIGURED"
        /\ due' = due /\ UNCHANGED <<ctrl, owed>>
    BY DEF ConfigEnd, At, ghosts, ctrlVars
  <1>2. /\ c \in Threads /\ c # "up_cancel" /\ ShapeInv /\ NoCancel
        /\ due \in Int /\ owed \in Int /\ BearerInv
    BY ClientLayers
  <1>3. state = "CONFIGURING"
    BY <1>1, ClientLayers DEF EndInv, ConfigInv, At
  <1>4. \A t \in Threads : pc'[t] = pc[t] \/ (~Bears(t) /\ ~Bears(t)')
    BY <1>1, <1>2, Others DEF Bears, BearHeads, Idle
  <1>5. \A t \in Threads : Bears(t)' => Bears(t) /\ pc'[t] = pc[t]
    BY <1>4 DEF Bears
  <1>6. \A t \in Threads : Bears(t)' => Fits(pc[t])'
    <2> SUFFICES ASSUME NEW t \in Threads, Bears(t)'
                 PROVE  Fits(pc[t])'
      OBVIOUS
    <2>1. Bears(t) /\ pc'[t] = pc[t] /\ Fits(pc[t])
      BY <1>2, <1>5 DEF BearerInv
    <2> QED
      BY <1>1, <1>3, <2>1 DEF Fits, RestStates
  <1>7. (\A t \in Threads : ~Bears(t)') => Free'
    <2> SUFFICES ASSUME \A t \in Threads : ~Bears(t)'
                 PROVE  Free'
      OBVIOUS
    <2>1. Free
      BY <1>2, <1>4 DEF BearerInv, Bears
    <2> QED
      BY <1>1, <1>3, <2>1 DEF Free, RestStates, Rising, Leaving
  <1>8. BearerInv'
    BY <1>2, <1>5, <1>6, <1>7 DEF BearerInv
  <1>9. OwedInv'
    BY <1>1, <1>2, ClientTells
  <1>10. ConfInv'
    BY <1>1 DEF ConfInv
  <1>11. NoCancel'
    BY <1>1, <1>2, CancelSame DEF Idle
  <1> QED
    BY <1>8, <1>9, <1>10, <1>11 DEF LayersInv

LEMMA LayersOfQueueEnd ==
    ASSUME CtrlInv, EndInv', NEW c \in Clients, QueueEnd(c), UNCHANGED ctrlVars
    PROVE  LayersInv'
  <1>1. /\ Go(c, Idle) /\ UNCHANGED <<state, due, ctrl, owed>> /\ pc[c][1] = "queue"
    BY DEF QueueEnd, At, ghosts, ctrlVars
  <1>2. /\ pc[c][1] \notin BearHeads /\ Idle[1] \notin BearHeads \cup {"cancel", "down"}
        /\ ~Tells(Idle) /\ ~Tells(pc[c]) /\ pc[c] # Step("config")
    BY <1>1 DEF BearHeads, Tells, Step, Idle
  <1> QED
    BY <1>1, <1>2, ClientLayers, LayersSame

LEMMA LayersOfClient ==
    ASSUME CtrlInv, EndInv', Calls \subseteq {"up", "async"}, NEW c \in Clients,
           CtrlCall(c) \/ CtrlClientStep(c)
    PROVE  LayersInv'
  <1>1. ~LinkDown(c) /\ ~LinkReset(c)
    BY DEF LinkDown, LinkReset
  <1>2. CASE UpCmd(c, Idle) /\ UNCHANGED ctrlVars
    BY <1>2, ClientLayers, LayersOfUpCmd
  <1> QED
    BY <1>1, <1>2, LayersOfLinkUp, LayersOfLinkUpCmd, LayersOfAsync, LayersOfDownCmd,
       LayersOfConfigSet, LayersOfConfigEnd, LayersOfQueueEnd
       DEF CtrlCall, CtrlClientStep, ClientStep

-----------------------------------------------------------------------------
(* The invariant and what it means *)

LEMMA LayersOfNext ==
    ASSUME CtrlInv, FaultPaths \subseteq {"rearm"}, Calls \subseteq {"up", "async"},
           [CtrlNext]_allVars
    PROVE  CtrlInv'
  <1>1. EndInv' /\ CtrlRanges'
    BY EndOfCtrlNext, RangeOfCtrlNext DEF CtrlInv
  <1>2. LayersInv'
    <2>1. CASE \E c \in Clients : CtrlCall(c) \/ CtrlClientStep(c)
      BY <1>1, <2>1, LayersOfClient
    <2>2. CASE \E t \in Works : CtrlWorkStep(t)
      BY <1>1, <2>2, LayersOfWork, LayersOfCallback DEF CtrlWorkStep
    <2>3. CASE \/ \E tm \in DOMAIN TimerWork : TimerExpire(tm) /\ UNCHANGED ctrlVars
               \/ \E i \in DOMAIN IntrWork : IntrFire(i) /\ UNCHANGED ctrlVars
               \/ UNCHANGED allVars
      <3>1. UNCHANGED <<pc, state, due, ctrl, owed>>
        BY <2>3 DEF TimerExpire, IntrFire, allVars, vars, ctrlVars, ghosts
      <3> QED
        BY <1>1, <3>1, LayersStill
    <2> QED
      BY <2>1, <2>2, <2>3 DEF CtrlNext
  <1> QED
    BY <1>1, <1>2 DEF CtrlInv

LEMMA LayersOfInit ==
    ASSUME CtrlInit
    PROVE  CtrlInv
  <1>1. EndInv /\ CtrlRanges
    BY EndOfInit, RangeOfCtrlInit DEF CtrlInit
  <1>2. /\ \A t \in Threads : pc[t] = Idle /\ pc[t][1] = "idle"
        /\ state = "UNCONFIGURED" /\ ctrl = "DOWN" /\ due = 0 /\ owed = 0
    BY DEF CtrlInit, Init, Idle
  <1>3. BearerInv
    BY <1>2 DEF BearerInv, Bears, BearHeads, Free, RestStates, Rising, Leaving
  <1>4. NoCancel /\ ConfInv
    BY <1>2, WorkFacts DEF NoCancel, ConfInv, Enders
  <1>5. OwedInv
    <2>1. Telling = {}
      BY <1>2, WorkFacts DEF Telling, Tells, Idle
    <2> QED
      BY <1>2, <2>1, FS_EmptySet DEF OwedInv
  <1> QED
    BY <1>1, <1>3, <1>4, <1>5 DEF CtrlInv, LayersInv

(* Where links are only brought up and taken down asynchronously, a link     *)
(* that was told to come down does not come up: sl_ctrl_link_async_down      *)
(* takes a link that is UP, nobody is inside a callback of it then, and      *)
(* until the down callback no other thread has an answer of the core to      *)
(* write.                                                                    *)
THEOREM DownStaysAlways ==
    ASSUME FaultPaths \subseteq {"rearm"}, Calls \subseteq {"up", "async"}
    PROVE  CtrlSpec => DownStays
  <1>1. CtrlInit => CtrlInv
    BY LayersOfInit
  <1>2. CtrlInv /\ [CtrlNext]_allVars => CtrlInv'
    BY LayersOfNext
  <1>3. CtrlInv /\ [CtrlNext]_allVars => [ctrl = "STOPPING" => ctrl' # "UP"]_allVars
    <2> SUFFICES ASSUME CtrlInv, CtrlNext, ctrl = "STOPPING", ctrl' = "UP"
                 PROVE  FALSE
      OBVIOUS
    <2>1. PICK t \in Works : UpCallbackUp(t) \/ UpCallbackRead(t)
      <3>1. ASSUME NEW c \in Clients, CtrlCall(c) \/ CtrlClientStep(c)
            PROVE  FALSE
        BY <3>1 DEF CtrlCall, CtrlClientStep, LinkUp, LinkDown, LinkReset, LinkAsyncDown,
                    LinkUpCmd, LinkDownCmd, ctrlVars
      <3>2. ASSUME NEW t \in Works, CtrlWorkStep(t)
            PROVE  UpCallbackUp(t) \/ UpCallbackRead(t)
        BY <3>2 DEF CtrlWorkStep, CtrlCallback, UpCallbackFail, UpCallbackRetry, Stopping,
                    Settled, Notify, DownCallback, FaultStartCallback, FaultCallback, ctrlVars
      <3> QED
        BY <3>1, <3>2 DEF CtrlNext, ctrlVars
    <2>2. pc[t] \in {<<"up_cb", "up">>, <<"up_cb", "read">>} /\ pc[t][1] \in BearHeads
      BY <2>1 DEF UpCallbackUp, UpCallbackRead, At, BearHeads
    <2>3. Fits(pc[t])
      BY <2>2, CallbackLayers
    <2> QED
      BY <2>2, <2>3 DEF Fits
  <1> QED
    BY <1>1, <1>2, <1>3, PTL DEF CtrlSpec, DownStays

-----------------------------------------------------------------------------
(* Without autonegotiation a rising link is on its way somewhere: a thread is *)
(* about to start its attempt, its timeout is armed, or it is about to come  *)
(* up.                                                                       *)

Checks == {"up_check", "fec_check"} \cap Works

Alive ==
    \/ \E t \in Threads : pc[t][1] = "up_cmd"
    \/ "up_start" \in queued \/ pc["up_start"][1] = "begin"
    \/ "link_up" \in armed \/ "up_timeout" \in queued
    \/ \E w \in Checks : pc[w][1] \in {"enable", "publish"}

RisingInv == state # "AN" /\ (state = "GOING_UP" => Alive)

LEMMA AliveStep ==
    ASSUME Alive, ShapeInv, NEW t \in Threads, NEW l, Go(t, l),
           pc[t][1] \notin {"up_cmd", "enable", "publish"},
           t # "up_start" \/ pc[t][1] # "begin",
           queued \cap {"up_start", "up_timeout"} \subseteq queued',
           armed \cap {"link_up"} \subseteq armed'
    PROVE  Alive'
  <1>1. \A u \in Threads : u # t => pc'[u] = pc[u]
    BY Others
  <1>2. "up_start" \in Threads /\ Checks \subseteq Threads
    BY WorkFacts, WorkNames DEF Checks
  <1>3. CASE \E u \in Threads : pc[u][1] = "up_cmd"
    BY <1>1, <1>3 DEF Alive
  <1>4. CASE "up_start" \in queued \/ "link_up" \in armed \/ "up_timeout" \in queued
    BY <1>4 DEF Alive
  <1>5. CASE pc["up_start"][1] = "begin"
    <2>1. pc'["up_start"] = pc["up_start"]
      BY <1>1, <1>2, <1>5
    <2> QED
      BY <1>5, <2>1 DEF Alive
  <1>6. CASE \E w \in Checks : pc[w][1] \in {"enable", "publish"}
    <2>1. PICK w \in Checks : pc[w][1] \in {"enable", "publish"}
      BY <1>6
    <2>2. pc'[w] = pc[w]
      BY <1>1, <1>2, <2>1
    <2> QED
      BY <2>1, <2>2 DEF Alive
  <1> QED
    BY <1>3, <1>4, <1>5, <1>6 DEF Alive

LEMMA AliveStill ==
    ASSUME Alive, UNCHANGED pc,
           queued \cap {"up_start", "up_timeout"} \subseteq queued',
           \/ armed \cap {"link_up"} \subseteq armed'
           \/ "up_timeout" \in queued'
    PROVE  Alive'
  BY DEF Alive

(* What holds of a link that is going up *)
LEMMA GoingUp ==
    ASSUME EndInv, state = "GOING_UP"
    PROVE  /\ \A w : ~Held(w)
           /\ \A t \in Ends : pc[t][1] \notin {"wait", "off"}
           /\ \A tm : Started(tm) = armed \cup {tm}
           /\ \A w : QueueWork(w) => queued' = queued \cup {w}
  <1>1. state \notin Leaving
    BY DEF Leaving
  <1>2. \A w : ~Held(w)
    BY <1>1, NotHeld DEF EndInv
  <1>3. \A t \in Ends : ~Leads(Run, t)
    BY <1>1, NoLead, CarrierFacts DEF EndInv
  <1> QED
    BY <1>1, <1>2, <1>3 DEF Leads, Started, QueueWork

LEMMA AliveFail ==
    ASSUME NEW t, NEW tm, FailUp(t, tm), state = "GOING_UP"
    PROVE  state' # "GOING_UP"
  BY DEF FailUp, UpFail, Rising

LEMMA AliveEnter ==
    ASSUME Alive, ShapeInv, NEW t \in Threads, NEW states, NEW l, NEW tm,
           Enter(t, states, l, tm), state \in states, t \notin {"up_start", "up_timeout"}
    PROVE  Alive'
  <1>1. /\ pc[t][1] = "idle" /\ Go(t, l) /\ queued' = queued \ {t} /\ armed' = armed
    BY DEF Enter, Take, Idle
  <1> QED
    BY <1>1, AliveStep

LEMMA AliveOfWork ==
    ASSUME EndInv, FaultPaths \subseteq {"rearm"}, TRUE \notin Autoneg, NEW t \in Works,
           LinkWork(t), state = "GOING_UP", state' = "GOING_UP", Alive
    PROVE  Alive'
  <1>1. /\ t \notin {"an_up_start", "an_up", "an_up_done"}
        /\ t \in Threads /\ ShapeInv /\ state \in Rising
    BY WorkNames, WorkFacts DEF EndInv, Rising
  <1>2. CASE t = "up_start" /\ UpStartWork
    <2>1. CASE Enter(t, {"GOING_UP"}, Step("begin"), {})
      <3>1. pc'["up_start"][1] = "begin"
        BY <1>1, <1>2, <2>1, Others DEF Enter, Step
      <3> QED
        BY <3>1 DEF Alive
    <2>2. CASE armed' = Started("link_up")
      BY <2>2, GoingUp DEF Alive
    <2>3. CASE FailUp(t, {})
      BY <2>3, AliveFail
    <2>4. CASE /\ At(t, "off", "none") /\ Go(t, Idle)
               /\ \/ QueueWork("up") /\ UNCHANGED armed
                  \/ armed' = Started("high_power") /\ UNCHANGED queued
      <3>1. queued \subseteq queued' /\ armed \subseteq armed' /\ pc[t][1] = "off"
        BY <2>4, GoingUp DEF At
      <3> QED
        BY <1>1, <2>4, <3>1, AliveStep
    <2> QED
      BY <1>2, <2>1, <2>2, <2>3, <2>4 DEF UpStartWork
  <1>3. CASE t = "up" /\ UpWork
    <2>1. CASE Enter(t, Rising, Step("serdes"), {"link_up"})
      BY <1>1, <1>3, <2>1, AliveEnter
    <2>2. CASE At(t, "serdes", "none") /\ Go(t, Idle) /\ UNCHANGED <<queued, armed>>
      BY <1>1, <2>2, AliveStep DEF At
    <2>3. CASE FailUp(t, {"link_up"})
      BY <2>3, AliveFail
    <2> QED
      BY <1>3, <2>1, <2>2, <2>3 DEF UpWork
  <1>4. ASSUME NEW tm, BeginWork(t, tm), t \notin {"up_start", "up_timeout"}
        PROVE  Alive'
    <2>1. CASE Enter(t, Rising, Step("begin"), {"link_up"})
      BY <1>1, <1>4, <2>1, AliveEnter
    <2>2. CASE At(t, "begin", "none") /\ Go(t, Idle) /\ armed' = Started(tm) /\ UNCHANGED queued
      BY <1>1, <1>4, <2>2, GoingUp, AliveStep DEF At
    <2> QED
      BY <1>4, <2>1, <2>2 DEF BeginWork
  <1>5. CASE t \in {"up_check", "fec_check"} /\ CheckWork(t)
    <2>1. CASE Enter(t, Rising, Step("check"), {"link_up"})
      BY <1>1, <1>5, <2>1, AliveEnter
    <2>2. CASE /\ At(t, "check", "none") /\ Go(t, Idle) /\ armed' = Started("fec_settle")
               /\ UNCHANGED queued
      BY <1>1, <2>2, GoingUp, AliveStep DEF At
    <2>3. CASE Go(t, Step("enable"))
      <3>1. pc'[t][1] = "enable" /\ t \in Checks
        BY <1>1, <1>5, <2>3, Others DEF Step, Checks
      <3> QED
        BY <3>1 DEF Alive
    <2>4. CASE FailUp(t, {"link_up"})
      BY <2>4, AliveFail
    <2> QED
      BY <1>5, <2>1, <2>2, <2>3, <2>4 DEF CheckWork
  <1>6. CASE t \in {"up_check", "fec_check"} /\ UpSuccess(t)
    <2>1. CASE Go(t, Step("publish"))
      <3>1. pc'[t][1] = "publish" /\ t \in Checks
        BY <1>1, <1>6, <2>1, Others DEF Step, Checks
      <3> QED
        BY <3>1 DEF Alive
    <2>2. CASE FailUp(t, {})
      BY <2>2, AliveFail
    <2> QED
      BY <1>6, <2>1, <2>2 DEF UpSuccess
  <1>7. CASE t \in Ends /\ Teardown(t)
    <2>1. ~TeardownWait(t) /\ ~TeardownEnd(t)
      BY <1>7, GoingUp DEF TeardownWait, Waited, TeardownEnd, At
    <2>2. TeardownStart(t)
      BY <1>7, <2>1 DEF Teardown
    <2>3. t # "up_timeout" /\ state \notin Claims[t]
      BY <1>7, <2>2 DEF TeardownStart, Claims, Ends, Rising
    <2>4. /\ pc[t][1] = "idle" /\ Go(t, Idle) /\ queued' = queued \ {t} /\ UNCHANGED armed
      BY <2>2, <2>3 DEF TeardownStart, Idle
    <2>5. t # "up_start"
      BY <1>7 DEF Ends
    <2> QED
      BY <1>1, <2>3, <2>4, <2>5, AliveStep
  <1>8. CASE (t \in Monitors /\ MonitorTake(t)) \/ (t \in FaultWorks /\ FaultWork(t))
    <2>1. ~FaultRecover /\ ("pml_poll" \notin FaultWorks)
      BY WorkNames DEF FaultRecover, FaultWorks
    <2>2. /\ pc[t][1] = "idle" /\ queued' = queued \ {t} /\ UNCHANGED armed
          /\ \E l : Go(t, l)
      BY <1>8, <2>1 DEF MonitorTake, FaultWork, FaultTake, Take, Idle
    <2>3. t \notin {"up_start", "up_timeout"}
      BY <1>8, LinkOptionsAssumption DEF FaultWorks
    <2> QED
      BY <1>1, <2>2, <2>3, AliveStep
  <1>9. CASE Rearm(t)
    BY <1>1, <1>9, AliveStep DEF Rearm, At
  <1>10. CASE t \in FaultWorks /\ FaultLinkDown(t)
    <2>1. t = "fault"
      BY <1>10, WorkNames DEF FaultWorks
    <2> QED
      BY <1>1, <1>10, <2>1, WorkFacts DEF FaultLinkDown, At, ShapeInv, WorkSteps, CallbackSteps
  <1> QED
    BY <1>1, <1>2, <1>3, <1>4, <1>5, <1>6, <1>7, <1>8, <1>9, <1>10, WorkFacts DEF LinkWork

(* A step that leaves the core as it is, or the start of an attempt *)
LEMMA RisingOfGo ==
    ASSUME RisingInv, ShapeInv, NEW t \in Threads, NEW l, Go(t, l),
           pc[t][1] \notin {"up_cmd", "enable", "publish", "begin"},
           UNCHANGED <<queued, armed>>,
           state' = state \/ state' \notin Rising
    PROVE  RisingInv'
  <1>1. CASE state = "GOING_UP" /\ state' = state
    BY <1>1, AliveStep DEF RisingInv
  <1>2. CASE state # "GOING_UP" \/ state' # state
    BY <1>2 DEF RisingInv, Rising
  <1> QED
    BY <1>1, <1>2

LEMMA RisingOfAccept ==
    ASSUME ShapeInv, NEW t \in Threads, UpAccept(t), autoneg = FALSE
    PROVE  RisingInv'
  <1>1. state' = "GOING_UP" /\ pc'[t][1] = "up_cmd"
    BY Others DEF UpAccept, Step
  <1> QED
    BY <1>1 DEF RisingInv, Alive

LEMMA RisingOfCoreUp ==
    ASSUME RisingInv, ShapeInv, NEW t \in Threads, NEW l, CoreUp(t, l) \/ CoreUpFails(t, l),
           pc[t][1] \notin {"up_cmd", "enable", "publish", "begin"}, autoneg = FALSE
    PROVE  RisingInv'
  <1>1. CASE UpAccept(t)
    BY <1>1, RisingOfAccept
  <1>2. CASE Go(t, l) /\ UNCHANGED <<state, kernel>>
    BY <1>2, RisingOfGo DEF kernel
  <1> QED
    BY <1>1, <1>2 DEF CoreUp, CoreUpFails, coreVars

LEMMA RisingOfUpCmd ==
    ASSUME RisingInv, EndInv, NEW t \in Threads, NEW l, UpCmd(t, l), autoneg = FALSE
    PROVE  RisingInv'
  <1>1. CASE /\ QueueWork(IF autoneg THEN "an_up_start" ELSE "up_start")
             /\ UNCHANGED state
    <2>1. state = "GOING_UP" => "up_start" \in queued'
      BY <1>1, GoingUp
    <2> QED
      BY <1>1, <2>1 DEF RisingInv, Alive
  <1>2. CASE UpFail
    BY <1>2 DEF UpFail, RisingInv, Rising
  <1> QED
    BY <1>1, <1>2 DEF UpCmd

LEMMA RisingOfClient ==
    ASSUME RisingInv, EndInv, NEW c \in Clients, CtrlCall(c) \/ CtrlClientStep(c),
           autoneg = FALSE
    PROVE  RisingInv'
  <1>1. c \in Threads /\ ShapeInv
    BY WorkFacts DEF EndInv
  <1>2. ASSUME NEW l, Go(c, l), UNCHANGED coreVars, pc[c] \in {Idle} \cup CallerLabels
        PROVE  RisingInv'
    BY <1>1, <1>2, RisingOfGo DEF coreVars, kernel, Idle, CallerLabels, Step
  <1>3. CASE LinkUp(c) \/ LinkDown(c) \/ LinkReset(c)
    BY <1>2, <1>3 DEF LinkUp, LinkDown, LinkReset
  <1>4. CASE LinkAsyncDown(c)
    <2>1. CASE UNCHANGED pc
      BY <1>4, <2>1, AliveStill DEF LinkAsyncDown, RisingInv, coreVars, kernel
    <2> QED
      BY <1>2, <1>4, <2>1 DEF LinkAsyncDown
  <1>5. CASE LinkUpCmd(c)
    <2>1. CASE At(c, "up_core", "none")
      <3>1. /\ CoreUp(c, Idle) \/ CoreUpFails(c, Step("up_refuse"))
            /\ pc[c][1] = "up_core"
        BY <1>5, <2>1 DEF LinkUpCmd, At
      <3> QED
        BY <1>1, <3>1, RisingOfCoreUp
    <2>2. CASE ~At(c, "up_core", "none")
      BY <1>2, <1>5, <2>2 DEF LinkUpCmd, At, CallerLabels, Step
    <2> QED
      BY <2>1, <2>2
  <1>6. CASE LinkDownCmd(c)
    <2>1. /\ pc[c][1] \in {"cancel", "down", "async"}
          /\ \E l : Go(c, l)
          /\ UNCHANGED <<queued, armed>> /\ (state' = state \/ state' \notin Rising)
      BY <1>6 DEF LinkDownCmd, At, CoreCancel, CoreDown, CancelAccept, DownAccept, Rising,
                  kernel
    <2> QED
      BY <1>1, <2>1, RisingOfGo
  <1>7. CASE ConfigSet(c) \/ ConfigEnd(c)
    <2>1. state' \in {"CONFIGURING", "CONFIGURED"}
      BY <1>7 DEF ConfigSet, ConfigEnd
    <2> QED
      BY <2>1 DEF RisingInv
  <1>8. CASE UpCmd(c, Idle)
    BY <1>1, <1>8, RisingOfUpCmd
  <1>9. CASE QueueEnd(c)
    <2>1. /\ pc[c][1] = "queue" /\ Go(c, Idle) /\ state' = state
          /\ queued \subseteq queued' /\ armed' = armed
      BY <1>9 DEF QueueEnd, At, QueueWork
    <2> QED
      BY <1>1, <2>1, AliveStep DEF RisingInv
  <1> QED
    BY <1>3, <1>4, <1>5, <1>6, <1>7, <1>8, <1>9 DEF CtrlCall, CtrlClientStep, ClientStep

LEMMA RisingOfCallback ==
    ASSUME RisingInv, EndInv, NEW t \in Works, CtrlCallback(t), autoneg = FALSE
    PROVE  RisingInv'
  <1>1. t \in Threads /\ ShapeInv /\ pc[t][1] \in WorkSteps(t)
    BY WorkFacts DEF EndInv, ShapeInv
  <1>2. CASE UpCallbackRetry(t)
    <2>1. CASE UpCmd(t, AfterUpCallback(t))
      BY <1>1, <2>1, RisingOfUpCmd
    <2>2. CASE /\ At(t, "retry", "none")
               /\ CoreUp(t, AfterUpCallback(t)) \/ CoreUpFails(t, Step("stopping"))
      <3>1. pc[t][1] \notin {"up_cmd", "enable", "publish", "begin"}
        BY <2>2 DEF At
      <3> QED
        BY <1>1, <2>2, <3>1, RisingOfCoreUp
    <2> QED
      BY <1>2, <2>1, <2>2 DEF UpCallbackRetry
  <1>3. CASE \/ UpCallbackUp(t) \/ UpCallbackRead(t) \/ UpCallbackFail(t)
             \/ Stopping(t) \/ Settled(t) \/ Notify(t) \/ DownCallback(t)
    <2>1. /\ pc[t][1] \in {"up_cb", "up_fail", "stopping", "settle", "notify", "down_cb"}
          /\ \E l : Go(t, l)
          /\ UNCHANGED <<state, queued, armed>>
      BY <1>3 DEF UpCallbackUp, UpCallbackRead, UpCallbackFail, Stopping, Settled, Notify,
                  DownCallback, At, coreVars, kernel
    <2> QED
      BY <1>1, <2>1, RisingOfGo
  <1>4. ~FaultStartCallback(t) /\ ~FaultCallback(t)
    BY <1>1, WorkFacts DEF FaultStartCallback, FaultCallback, FaultStart, At, WorkSteps,
                           CallbackSteps
  <1> QED
    BY <1>2, <1>3, <1>4 DEF CtrlCallback

LEMMA RisingOfWork ==
    ASSUME RisingInv, EndInv, FaultPaths \subseteq {"rearm"}, TRUE \notin Autoneg,
           NEW t \in Works, LinkWork(t)
    PROVE  RisingInv'
  <1>1. CASE CoreMove(t)
    <2>1. state' # "AN" /\ (state' = "GOING_UP" => state = "GOING_UP")
      BY <1>1 DEF CoreMove, RisingInv, Rising
    <2> QED
      BY <2>1, AliveOfWork DEF RisingInv
  <1>2. CASE Publishes(t)
    BY <1>2 DEF Publishes, RisingInv
  <1>3. CASE TeardownEnd(t)
    BY <1>3 DEF TeardownEnd, RisingInv
  <1> QED
    BY <1>1, <1>2, <1>3, CoreGoes

LEMMA RisingOfNext ==
    ASSUME RisingInv, EndInv, RangeInv, FaultPaths \subseteq {"rearm"}, TRUE \notin Autoneg,
           [CtrlNext]_allVars
    PROVE  RisingInv'
  <1>0. autoneg = FALSE
    BY LinkOptionsAssumption DEF RangeInv
  <1>1. CASE \E c \in Clients : CtrlCall(c) \/ CtrlClientStep(c)
    BY <1>0, <1>1, RisingOfClient
  <1>2. CASE \E t \in Works : CtrlWorkStep(t)
    BY <1>0, <1>2, RisingOfWork, RisingOfCallback DEF CtrlWorkStep
  <1>3. ASSUME NEW tm \in DOMAIN TimerWork, TimerExpire(tm)
        PROVE  RisingInv'
    <2>1. /\ UNCHANGED <<state, pc>> /\ armed' = armed \ {tm} /\ QueueWork(TimerWork[tm])
      BY <1>3 DEF TimerExpire
    <2>2. CASE state = "GOING_UP"
      <3>1. queued' = queued \cup {TimerWork[tm]}
        BY <2>1, <2>2, GoingUp
      <3>2. tm = "link_up" => "up_timeout" \in queued'
        BY <3>1 DEF TimerWork
      <3>3. Alive
        BY <2>2 DEF RisingInv
      <3>4. Alive'
        BY <2>1, <3>1, <3>2, <3>3, AliveStill
      <3> QED
        BY <2>1, <2>2, <3>4 DEF RisingInv
    <2> QED
      BY <2>1, <2>2 DEF RisingInv
  <1>4. ASSUME NEW i \in DOMAIN IntrWork, IntrFire(i)
        PROVE  RisingInv'
    <2>1. UNCHANGED <<state, pc, armed>> /\ queued \subseteq queued'
      BY <1>4 DEF IntrFire, QueueWork
    <2> QED
      BY <2>1, AliveStill DEF RisingInv
  <1>5. CASE UNCHANGED allVars
    BY <1>5, AliveStill DEF allVars, vars, RisingInv
  <1> QED
    BY <1>1, <1>2, <1>3, <1>4, <1>5 DEF CtrlNext

LEMMA RisingOfInit ==
    ASSUME CtrlInit
    PROVE  RisingInv
  BY DEF CtrlInit, Init, RisingInv

(* Nothing goes on: then nobody leads, bears, tells or configures. *)
LEMMA QuietFacts ==
    ASSUME Quiet
    PROVE  /\ \A t \in Threads : ~Bears(t)
           /\ Telling = {} /\ Answering = {} /\ ~Alive /\ ~EnderLeads
           /\ \A s \in Carriers, t \in Ends : ~Leads(s, t)
           /\ \A c \in Clients : ~At(c, "config", "none")
  <1>1. /\ \A t \in Threads : pc[t] = Idle /\ pc[t][1] = "idle"
        /\ queued = {} /\ armed = {}
    BY DEF Quiet, Idle
  <1>2. \A t \in Threads : ~Bears(t)
    BY <1>1 DEF Bears, BearHeads
  <1>3. Telling = {} /\ Answering = {}
    BY <1>1, WorkFacts DEF Telling, Answering, Tells, Idle
  <1>4. \A s \in Carriers, t \in Ends : ~Leads(s, t)
    BY <1>1, WorkFacts DEF Leads, Idle
  <1>5. ~EnderLeads
    BY <1>4, WorkFacts DEF EnderLeads
  <1>6. \A c \in Clients : ~At(c, "config", "none")
    BY <1>1, WorkFacts DEF At, Idle
  <1>7. ~Alive
    BY <1>1, WorkFacts, WorkNames DEF Alive, Checks
  <1> QED
    BY <1>2, <1>3, <1>4, <1>5, <1>6, <1>7

(* Without autonegotiation, and where links are only brought up and taken    *)
(* down asynchronously, every sl_ctrl_link_up that returned 0 is told its    *)
(* end exactly once: up, failed, or an error, however often its attempt is   *)
(* retried from inside sl_ctrl_link_up_callback.                             *)
THEOREM ToldOnceAlways ==
    ASSUME FaultPaths \subseteq {"rearm"}, Calls \subseteq {"up", "async"},
           TRUE \notin Autoneg
    PROVE  CtrlSpec => []ToldOnce
  <1>1. CtrlInit => CtrlInv /\ RisingInv
    BY LayersOfInit, RisingOfInit
  <1>2. CtrlInv /\ RisingInv /\ [CtrlNext]_allVars => CtrlInv' /\ RisingInv'
    BY LayersOfNext, RisingOfNext DEF CtrlInv, CtrlRanges
  <1>3. CtrlInv /\ RisingInv => ToldOnce
    <2> SUFFICES ASSUME CtrlInv, RisingInv
                 PROVE  ToldOnce
      OBVIOUS
    <2>1. /\ IsFiniteSet(Telling) /\ owed = due + Cardinality(Telling)
          /\ IsFiniteSet(Answering) /\ due = Owed + Cardinality(Answering)
      BY DEF CtrlInv, LayersInv, OwedInv, EndInv, AnswerInv
    <2>2. Cardinality(Telling) \in Nat /\ Cardinality(Answering) \in Nat /\ Owed \in Nat
      BY <2>1, FS_CardinalityType DEF Owed
    <2>3. owed >= 0
      BY <2>1, <2>2
    <2>4. ASSUME Quiet
          PROVE  owed = 0
      <3>1. Telling = {} /\ Answering = {} /\ ~Alive /\ ~EnderLeads
        BY <2>4, QuietFacts
      <3>2. state \notin Rising
        BY <3>1 DEF RisingInv, Rising
      <3>3. Owed = 0
        BY <3>1, <3>2 DEF Owed
      <3>4. Cardinality(Telling) = 0 /\ Cardinality(Answering) = 0
        BY <3>1, FS_EmptySet
      <3> QED
        BY <2>1, <3>3, <3>4
    <2> QED
      BY <2>3, <2>4 DEF ToldOnce
  <1> QED
    BY <1>1, <1>2, <1>3, PTL DEF CtrlSpec

(* Under the same assumptions the two layers agree when nothing of the link  *)
(* goes on: sl_ctrl_link has UP for a core that is UP and DOWN for one that  *)
(* is down, and neither is left on its way.                                  *)
THEOREM AgreementAlways ==
    ASSUME FaultPaths \subseteq {"rearm"}, Calls \subseteq {"up", "async"},
           TRUE \notin Autoneg
    PROVE  CtrlSpec => []Agreement
  <1>1. CtrlInit => CtrlInv /\ RisingInv
    BY LayersOfInit, RisingOfInit
  <1>2. CtrlInv /\ RisingInv /\ [CtrlNext]_allVars => CtrlInv' /\ RisingInv'
    BY LayersOfNext, RisingOfNext DEF CtrlInv, CtrlRanges
  <1>3. CtrlInv /\ RisingInv => Agreement
    <2> SUFFICES ASSUME CtrlInv, RisingInv
                 PROVE  Agreement
      OBVIOUS
    <2>1. CtrlTypeOK
      BY DEF CtrlInv, CtrlRanges, CtrlRange, CtrlPc, CtrlTypeOK
    <2>2. ASSUME Quiet, state # "UNCONFIGURED"
          PROVE  \/ ctrl \in {"UP", "UP_DOWN_REQ"} /\ state = "UP"
                 \/ ctrl = "DOWN" /\ state \in {"CONFIGURED", "DOWN"}
      <3>1. /\ \A t \in Threads : ~Bears(t)
            /\ ~Alive
            /\ \A s \in Carriers, t \in Ends : ~Leads(s, t)
            /\ \A c \in Clients : ~At(c, "config", "none")
        BY <2>2, QuietFacts
      <3>2. state \notin Rising
        BY <3>1 DEF RisingInv, Rising
      <3>3. state \notin Leaving
        BY <3>1 DEF CtrlInv, EndInv, LeadInv
      <3>4. state # "CONFIGURING"
        BY <3>1 DEF CtrlInv, LayersInv, ConfInv
      <3>5. Free
        BY <3>1 DEF CtrlInv, LayersInv, BearerInv
      <3> QED
        BY <2>2, <3>2, <3>3, <3>4, <3>5 DEF Free, RestStates
    <2> QED
      BY <2>1, <2>2 DEF Agreement
  <1> QED
    BY <1>1, <1>2, <1>3, PTL DEF CtrlSpec
-----------------------------------------------------------------------------
(* Whatever a fault leads to: who still owes an accepted up its callback.    *)
(* Faults write GOING_DOWN and DOWN over any attempt, so that a promise may  *)
(* be forgotten or met later by another teardown; but nobody comes to owe an *)
(* answer without somebody who owed it before.                               *)

Promised == {"up_cancel", "up_fail"}

(* A thread at such a label owes an answer: it calls the up callback, it     *)
(* runs the end of an attempt, or it has canceled one.                       *)
Owing(t, l) ==
    \/ l[1] = "up_cb"
    \/ t \in Enders /\ l[1] \in {"wait", "off"}
    \/ l = <<"queue", "up_cancel">>

Debts ==
    {<<"state", x>> : x \in {"rising"} \cap {IF state \in Rising THEN "rising" ELSE "none"}}
    \cup {<<"thread", t>> : t \in {t \in Threads : Owing(t, pc[t])}}
    \cup {<<"work", w>> : w \in queued \cap Promised}

DebtInv == IsFiniteSet(Debts) /\ due >= Cardinality(Debts)

LEMMA DebtOf ==
    /\ <<"state", "rising">> \in Debts <=> state \in Rising
    /\ \A t : <<"thread", t>> \in Debts <=> t \in Threads /\ Owing(t, pc[t])
    /\ \A w : <<"work", w>> \in Debts <=> w \in queued \cap Promised
    /\ \A x \in Debts : \/ x = <<"state", "rising">>
                        \/ \E t \in Threads : x = <<"thread", t>>
                        \/ \E w \in Promised : x = <<"work", w>>
  BY DEF Debts

(* The debts may get fewer, one may be paid, change hands or be made. *)
LEMMA FewerDebts ==
    ASSUME DebtInv, due \in Int, Debts' \subseteq Debts, due' = due
    PROVE  DebtInv'
  <1>1. IsFiniteSet(Debts') /\ Cardinality(Debts') <= Cardinality(Debts)
    BY FS_Subset DEF DebtInv
  <1>2. Cardinality(Debts') \in Nat /\ Cardinality(Debts) \in Nat
    BY <1>1, FS_CardinalityType DEF DebtInv
  <1> QED
    BY <1>1, <1>2 DEF DebtInv

LEMMA DebtPaid ==
    ASSUME DebtInv, due \in Int, NEW x \in Debts, Debts' \subseteq Debts \ {x}, due' = due - 1
    PROVE  DebtInv'
  <1>1. IsFiniteSet(Debts \ {x}) /\ Cardinality(Debts \ {x}) = Cardinality(Debts) - 1
    BY FS_RemoveElement DEF DebtInv
  <1>2. IsFiniteSet(Debts') /\ Cardinality(Debts') <= Cardinality(Debts \ {x})
    BY <1>1, FS_Subset
  <1>3. Cardinality(Debts') \in Nat /\ Cardinality(Debts) \in Nat
    BY <1>2, FS_CardinalityType DEF DebtInv
  <1> QED
    BY <1>1, <1>2, <1>3 DEF DebtInv

LEMMA DebtMade ==
    ASSUME DebtInv, due \in Int, NEW y, Debts' \subseteq Debts \cup {y}, due' = due + 1
    PROVE  DebtInv'
  <1>1. /\ IsFiniteSet(Debts \cup {y})
        /\ \/ Cardinality(Debts \cup {y}) = Cardinality(Debts)
           \/ Cardinality(Debts \cup {y}) = Cardinality(Debts) + 1
    BY FS_AddElement DEF DebtInv
  <1>2. IsFiniteSet(Debts') /\ Cardinality(Debts') <= Cardinality(Debts \cup {y})
    BY <1>1, FS_Subset
  <1>3. Cardinality(Debts') \in Nat /\ Cardinality(Debts) \in Nat
    BY <1>2, FS_CardinalityType DEF DebtInv
  <1> QED
    BY <1>1, <1>2, <1>3 DEF DebtInv

LEMMA DebtPassed ==
    ASSUME DebtInv, due \in Int, NEW x \in Debts, NEW y,
           Debts' \subseteq (Debts \ {x}) \cup {y}, due' = due
    PROVE  DebtInv'
  <1> DEFINE rest == Debts \ {x}
  <1>1. IsFiniteSet(rest) /\ Cardinality(rest) = Cardinality(Debts) - 1
    BY FS_RemoveElement DEF DebtInv
  <1>2. /\ IsFiniteSet(rest \cup {y})
        /\ \/ Cardinality(rest \cup {y}) = Cardinality(rest)
           \/ Cardinality(rest \cup {y}) = Cardinality(rest) + 1
    BY <1>1, FS_AddElement
  <1>3. IsFiniteSet(Debts') /\ Cardinality(Debts') <= Cardinality(rest \cup {y})
    BY <1>2, FS_Subset
  <1>4. Cardinality(Debts') \in Nat /\ Cardinality(Debts) \in Nat
    BY <1>3, FS_CardinalityType DEF DebtInv
  <1> QED
    BY <1>1, <1>2, <1>3, <1>4 DEF DebtInv

(* A step moves one thread. *)
LEMMA DebtMoves ==
    ASSUME pc = [t \in Threads |-> pc[t]], NEW t \in Threads, NEW l, Go(t, l)
    PROVE  /\ <<"thread", t>> \in Debts' <=> Owing(t, l)
           /\ \A u : u # t => (<<"thread", u>> \in Debts' <=> <<"thread", u>> \in Debts)
           /\ ~Owing(t, pc[t]) /\ ~Owing(t, l) =>
                 \A u : <<"thread", u>> \in Debts' <=> <<"thread", u>> \in Debts
  <1>1. pc'[t] = l /\ \A u \in Threads : u # t => pc'[u] = pc[u]
    BY DEF Go
  <1>2. \A u : <<"thread", u>> \in Debts' <=> u \in Threads /\ Owing(u, pc'[u])
    BY DEF Debts, Owing
  <1> QED
    BY <1>1, <1>2, DebtOf

LEMMA DebtNext ==
    /\ <<"state", "rising">> \in Debts' <=> state' \in Rising
    /\ \A w : <<"work", w>> \in Debts' <=> w \in queued' \cap Promised
    /\ \A x \in Debts' : \/ x = <<"state", "rising">>
                         \/ \E t \in Threads : x = <<"thread", t>>
                         \/ \E w \in Promised : x = <<"work", w>>
  BY DEF Debts

(* A step that makes nobody owe more *)
LEMMA QuietStep ==
    ASSUME DebtInv, due \in Int, pc = [t \in Threads |-> pc[t]],
           NEW t \in Threads, NEW l, Go(t, l), Owing(t, l) => Owing(t, pc[t]),
           state' \in Rising => state \in Rising,
           queued' \cap Promised \subseteq queued, due' = due
    PROVE  DebtInv'
  <1>1. \A u : <<"thread", u>> \in Debts' => <<"thread", u>> \in Debts
    BY DebtMoves, DebtOf
  <1>2. Debts' \subseteq Debts
    BY <1>1, DebtNext, DebtOf
  <1> QED
    BY <1>2, FewerDebts

(* A step that ends the attempt with sl_core_link_up_fail *)
LEMMA FailStep ==
    ASSUME DebtInv, due \in Int, pc = [t \in Threads |-> pc[t]],
           NEW t \in Threads, NEW l, Go(t, l), ~Owing(t, l), UpFail, due' = due
    PROVE  DebtInv'
  <1>1. CASE state \notin Rising
    BY <1>1, QuietStep DEF UpFail
  <1>2. CASE state \in Rising
    <2>1. state' \notin Rising /\ queued' \subseteq queued \cup {"up_fail"}
      BY <1>2 DEF UpFail, QueueWork, Rising
    <2>2. \A u : <<"thread", u>> \in Debts' => <<"thread", u>> \in Debts
      BY DebtMoves
    <2>3. <<"state", "rising">> \in Debts /\ <<"state", "rising">> \notin Debts'
      BY <1>2, <2>1, DebtOf, DebtNext
    <2>4. \A w : <<"work", w>> \in Debts' => <<"work", w>> \in Debts \/ w = "up_fail"
      BY <2>1, DebtOf, DebtNext
    <2>5. Debts' \subseteq (Debts \ {<<"state", "rising">>}) \cup {<<"work", "up_fail">>}
      BY <2>2, <2>3, <2>4, DebtNext
    <2> QED
      BY <2>3, <2>5, DebtPassed
  <1> QED
    BY <1>1, <1>2

LEMMA OwingFacts ==
    /\ \A t : \A s \in {"idle", "up_cmd", "config", "begin", "serdes", "decide",
                        "after_an", "check", "enable", "publish", "rearm", "poll",
                        "fault_start", "fault_cb", "down_cb", "up_begin", "up_core",
                        "up_refuse", "up_refused", "cancel", "down", "async", "up_fail",
                        "retry", "stopping"} : ~Owing(t, Step(s))
    /\ \A t : ~Owing(t, Idle) /\ ~Owing(t, AfterUpCallback(t))
    /\ \A t, s : ~Owing(t, <<"settle", s>>) /\ ~Owing(t, <<"notify", s>>)
    /\ \A t : t \notin Enders => ~Owing(t, Step("off"))
    /\ \A t : ~Owing(t, <<"queue", "down">>)
    /\ \A t, w : t \notin Enders => ~Owing(t, <<"wait", w>>)
    /\ \A t \in Enders : \A w : Owing(t, <<"wait", w>>) /\ Owing(t, Step("off"))
    /\ \A t, s : Owing(t, <<"up_cb", s>>)
  BY DEF Owing, Idle, Step, AfterUpCallback

LEMMA DebtBase ==
    ASSUME CtrlRanges
    PROVE  due \in Int /\ pc = [t \in Threads |-> pc[t]]
  BY DEF CtrlRanges, RangeInv, CtrlPc

(* sl_core_link_up, sl_core_hw_link_up_cmd *)
LEMMA DebtOfAccept ==
    ASSUME DebtInv, CtrlRanges, NEW t \in Threads, UpAccept(t)
    PROVE  DebtInv'
  <1>1. Go(t, Step("up_cmd")) /\ due' = due + 1 /\ queued' = queued
    BY DEF UpAccept, kernel
  <1>2. \A u : <<"thread", u>> \in Debts' => <<"thread", u>> \in Debts
    BY <1>1, DebtBase, DebtMoves, OwingFacts
  <1>3. \A w : <<"work", w>> \in Debts' => <<"work", w>> \in Debts
    BY <1>1, DebtOf, DebtNext
  <1>4. Debts' \subseteq Debts \cup {<<"state", "rising">>}
    BY <1>2, <1>3, DebtNext
  <1> QED
    BY <1>1, <1>4, DebtBase, DebtMade

LEMMA DebtOfUpCmd ==
    ASSUME DebtInv, CtrlRanges, NEW t \in Threads, NEW l, ~Owing(t, l), UpCmd(t, l)
    PROVE  DebtInv'
  <1>1. Go(t, l) /\ due' = due
    BY DEF UpCmd
  <1>2. CASE UpFail
    BY <1>1, <1>2, DebtBase, FailStep
  <1>3. CASE (QueueWork("an_up_start") \/ QueueWork("up_start")) /\ UNCHANGED state
    <2>1. queued' \cap Promised \subseteq queued
      BY <1>3 DEF QueueWork, Promised
    <2> QED
      BY <1>1, <1>3, <2>1, DebtBase, QuietStep
  <1> QED
    BY <1>2, <1>3 DEF UpCmd

LEMMA DebtOfCoreUp ==
    ASSUME DebtInv, CtrlRanges, NEW t \in Threads, NEW l, ~Owing(t, l),
           CoreUp(t, l) \/ CoreUpFails(t, l)
    PROVE  DebtInv'
  <1>1. CASE UpAccept(t)
    BY <1>1, DebtOfAccept
  <1>2. CASE Go(t, l) /\ UNCHANGED <<state, kernel, due>>
    BY <1>2, DebtBase, QuietStep DEF kernel
  <1> QED
    BY <1>1, <1>2 DEF CoreUp, CoreUpFails, coreVars, ghosts

(* The promise of a cancel passes from the state to the client, and from the *)
(* client to the work.                                                       *)
LEMMA DebtOfCancel ==
    ASSUME DebtInv, CtrlRanges, NEW c \in Threads, CoreCancel(c)
    PROVE  DebtInv'
  <1>0. queued' = queued /\ due' = due
    BY DEF CoreCancel, kernel, ghosts
  <1>1. CASE CancelAccept(c)
    <2>1. /\ <<"state", "rising">> \in Debts /\ <<"state", "rising">> \notin Debts'
      BY <1>1, DebtOf, DebtNext DEF CancelAccept, Rising
    <2>2. \A u : <<"thread", u>> \in Debts' => <<"thread", u>> \in Debts \/ u = c
      BY <1>1, DebtBase, DebtMoves DEF CancelAccept
    <2>3. \A w : <<"work", w>> \in Debts' => <<"work", w>> \in Debts
      BY <1>0, DebtOf, DebtNext
    <2>4. Debts' \subseteq (Debts \ {<<"state", "rising">>}) \cup {<<"thread", c>>}
      BY <2>1, <2>2, <2>3, DebtNext
    <2> QED
      BY <1>0, <2>1, <2>4, DebtBase, DebtPassed
  <1>2. CASE Go(c, Idle) /\ UNCHANGED state
    BY <1>0, <1>2, DebtBase, OwingFacts, QuietStep
  <1> QED
    BY <1>1, <1>2 DEF CoreCancel

LEMMA DebtOfDown ==
    ASSUME DebtInv, CtrlRanges, NEW c \in Threads, CoreDown(c)
    PROVE  DebtInv'
  <1>0. queued' = queued /\ due' = due
    BY DEF CoreDown, kernel, ghosts
  <1>1. CASE DownAccept(c)
    <2>1. Go(c, <<"queue", "down">>) /\ state' \notin Rising
      BY <1>1 DEF DownAccept, Rising
    <2> QED
      BY <1>0, <2>1, DebtBase, OwingFacts, QuietStep
  <1>2. CASE Go(c, Idle) /\ UNCHANGED state
    BY <1>0, <1>2, DebtBase, OwingFacts, QuietStep
  <1> QED
    BY <1>1, <1>2 DEF CoreDown

LEMMA DebtOfQueueEnd ==
    ASSUME DebtInv, CtrlRanges, NEW c \in Threads, QueueEnd(c)
    PROVE  DebtInv'
  <1>0. Go(c, Idle) /\ state' = state /\ due' = due
    BY DEF QueueEnd, ghosts
  <1>1. CASE At(c, "queue", "up_cancel") /\ QueueWork("up_cancel")
    <2>1. <<"thread", c>> \in Debts
      BY <1>1, DebtOf DEF At, Owing
    <2>2. \A u : <<"thread", u>> \in Debts' => <<"thread", u>> \in Debts /\ u # c
      BY <1>0, DebtBase, DebtMoves, OwingFacts
    <2>3. \A w : <<"work", w>> \in Debts' => <<"work", w>> \in Debts \/ w = "up_cancel"
      BY <1>1, DebtOf, DebtNext DEF QueueWork
    <2>4. Debts' \subseteq (Debts \ {<<"thread", c>>}) \cup {<<"work", "up_cancel">>}
      BY <1>0, <2>2, <2>3, DebtNext, DebtOf
    <2> QED
      BY <1>0, <2>1, <2>4, DebtBase, DebtPassed
  <1>2. CASE At(c, "queue", "down") /\ QueueWork("down")
    <2>1. queued' \cap Promised \subseteq queued
      BY <1>2 DEF QueueWork, Promised
    <2> QED
      BY <1>0, <2>1, DebtBase, OwingFacts, QuietStep
  <1> QED
    BY <1>1, <1>2 DEF QueueEnd

LEMMA DebtOfConfig ==
    ASSUME DebtInv, CtrlRanges, NEW c \in Threads, ConfigSet(c) \/ ConfigEnd(c)
    PROVE  DebtInv'
  <1>1. /\ queued' = queued /\ due' = due /\ state' \notin Rising
        /\ Go(c, Step("config")) \/ Go(c, Idle)
    BY DEF ConfigSet, ConfigEnd, kernel, ghosts, Rising
  <1> QED
    BY <1>1, DebtBase, OwingFacts, QuietStep

LEMMA DebtOfClient ==
    ASSUME DebtInv, CtrlRanges, NEW c \in Clients, CtrlCall(c) \/ CtrlClientStep(c)
    PROVE  DebtInv'
  <1>0. c \in Threads
    BY WorkFacts
  <1>1. CASE LinkUp(c) \/ LinkDown(c) \/ LinkReset(c)
    <2>1. /\ queued' = queued /\ due' = due /\ state' = state
          /\ Go(c, Step("up_begin")) \/ Go(c, Step("cancel")) \/ Go(c, Step("down"))
      BY <1>1 DEF LinkUp, LinkDown, LinkReset, coreVars, kernel, ghosts
    <2> QED
      BY <1>0, <2>1, DebtBase, OwingFacts, QuietStep
  <1>2. CASE LinkAsyncDown(c)
    <2>1. queued' = queued /\ due' = due /\ state' = state
      BY <1>2 DEF LinkAsyncDown, coreVars, kernel, ghosts
    <2>2. CASE Go(c, Step("async"))
      BY <1>0, <2>1, <2>2, DebtBase, OwingFacts, QuietStep
    <2>3. CASE UNCHANGED pc
      <3>1. Debts' = Debts
        BY <2>1, <2>3 DEF Debts
      <3> QED
        BY <2>1, <3>1, DebtBase, FewerDebts
    <2> QED
      BY <1>2, <2>2, <2>3 DEF LinkAsyncDown
  <1>3. CASE LinkUpCmd(c)
    <2>1. CASE CoreUp(c, Idle) \/ CoreUpFails(c, Step("up_refuse"))
      BY <1>0, <2>1, OwingFacts, DebtOfCoreUp
    <2>2. CASE /\ UNCHANGED coreVars
               /\ Go(c, Step("up_core")) \/ Go(c, Step("up_refused")) \/ Go(c, Idle)
      BY <1>0, <2>2, DebtBase, OwingFacts, QuietStep DEF coreVars, kernel, ghosts
    <2> QED
      BY <1>3, <2>1, <2>2 DEF LinkUpCmd
  <1>4. CASE LinkDownCmd(c)
    BY <1>0, <1>4, DebtOfCancel, DebtOfDown DEF LinkDownCmd
  <1>5. CASE ConfigSet(c) \/ ClientStep(c)
    BY <1>0, <1>5, OwingFacts, DebtOfUpCmd, DebtOfConfig, DebtOfQueueEnd DEF ClientStep
  <1> QED
    BY <1>1, <1>2, <1>3, <1>4, <1>5 DEF CtrlCall, CtrlClientStep

-----------------------------------------------------------------------------
(* The works *)

LEMMA DebtOfFailUp ==
    ASSUME DebtInv, CtrlRanges, NEW t \in Threads, NEW tm, FailUp(t, tm)
    PROVE  DebtInv'
  BY DebtBase, OwingFacts, FailStep DEF FailUp

(* A step of an attempt that does not fail *)
LEMMA DebtOfStep ==
    ASSUME DebtInv, CtrlRanges, NEW t \in Threads, t \notin Enders,
           NEW s \in {"idle", "begin", "serdes", "decide", "after_an", "off", "check",
                      "enable", "publish", "rearm", "poll", "fault_start", "fault_cb",
                      "down_cb"},
           Go(t, Step(s)), state' \in Rising => state \in Rising,
           queued' \cap Promised \subseteq queued, due' = due
    PROVE  DebtInv'
  <1>1. ~Owing(t, Step(s))
    BY OwingFacts
  <1> QED
    BY <1>1, DebtBase, QuietStep

LEMMA DebtQueue ==
    ASSUME NEW w, w \notin Promised, QueueWork(w)
    PROVE  queued' \cap Promised \subseteq queued
  BY DEF QueueWork

LEMMA DebtOfEnter ==
    ASSUME DebtInv, CtrlRanges, NEW t \in Threads, t \notin Enders, NEW states, NEW tm,
           NEW s \in {"begin", "serdes", "decide", "check"},
           Enter(t, states, Step(s), tm)
    PROVE  DebtInv'
  <1>1. /\ queued' \subseteq queued /\ state' = state /\ due' = due
        /\ Go(t, Step(s)) \/ Go(t, Step("idle"))
    BY DEF Enter, Take, ghosts, Idle, Step
  <1> QED
    BY <1>1, DebtOfStep

LEMMA DebtOfAttempt ==
    ASSUME DebtInv, CtrlRanges, NEW t \in Works, t \notin Ends,
           \/ t = "an_up_start" /\ AnUpStartWork
           \/ t = "an_up" /\ AnUpWork
           \/ t = "an_up_done" /\ AnUpDoneWork
           \/ t \in {"an_up_start", "an_up_done"} /\ UpAfterAnStart(t)
           \/ t = "up_start" /\ UpStartWork
           \/ t = "up" /\ UpWork
           \/ t = "up_intr" /\ BeginWork(t, "up_check")
           \/ t = "fec_settle" /\ BeginWork(t, "fec_check")
    PROVE  DebtInv'
  <1>0. t \in Threads /\ t \notin Enders
    BY WorkFacts
  <1>1. "up" \notin Promised /\ "an_up" \notin Promised
    BY DEF Promised
  <1>2. CASE t = "an_up_start" /\ AnUpStartWork
    <2>1. CASE Enter(t, {"AN"}, Step("begin"), {})
      BY <1>0, <2>1, DebtOfEnter
    <2>2. CASE /\ \/ QueueWork("an_up") /\ Go(t, Idle) /\ UNCHANGED <<state, fails>>
                  \/ Go(t, Step("after_an")) /\ UNCHANGED <<state, queued, fails>>
               /\ UNCHANGED <<intrOn, link, loose, due, ups>>
      BY <1>0, <1>1, <2>2, DebtQueue, DebtOfStep DEF Idle, Step
    <2>3. CASE FailUp(t, {})
      BY <1>0, <2>3, DebtOfFailUp
    <2> QED
      BY <1>2, <2>1, <2>2, <2>3 DEF AnUpStartWork
  <1>3. CASE t = "an_up" /\ AnUpWork
    <2>1. CASE Enter(t, {"AN"}, Step("serdes"), {})
      BY <1>0, <2>1, DebtOfEnter
    <2>2. CASE Go(t, Idle) /\ UNCHANGED <<state, queued, armed, link, ghosts>>
      BY <1>0, <2>2, DebtOfStep DEF Idle, Step, ghosts
    <2>3. CASE FailUp(t, {})
      BY <1>0, <2>3, DebtOfFailUp
    <2> QED
      BY <1>3, <2>1, <2>2, <2>3 DEF AnUpWork
  <1>4. CASE t = "an_up_done" /\ AnUpDoneWork
    <2>1. CASE Enter(t, {"AN"}, Step("decide"), {})
      BY <1>0, <2>1, DebtOfEnter
    <2>2. CASE /\ Go(t, Idle) \/ Go(t, Step("after_an"))
               /\ UNCHANGED <<state, queued, armed, link, ghosts>>
      BY <1>0, <2>2, DebtOfStep DEF Idle, Step, ghosts
    <2>3. CASE FailUp(t, {})
      BY <1>0, <2>3, DebtOfFailUp
    <2> QED
      BY <1>4, <2>1, <2>2, <2>3 DEF AnUpDoneWork
  <1>5. CASE UpAfterAnStart(t)
    <2>1. CASE /\ At(t, "after_an", "none")
               /\ IF state = "AN"
                  THEN state' = "GOING_UP" /\ Go(t, Step("off")) /\ UNCHANGED armed
                  ELSE armed' = armed \ {"link_up"} /\ Go(t, Idle) /\ UNCHANGED state
               /\ UNCHANGED <<queued, intrOn, link, ghosts>>
      <3>1. state' \in Rising => state \in Rising
        BY <2>1 DEF Rising
      <3> QED
        BY <1>0, <2>1, <3>1, DebtOfStep DEF Idle, Step, ghosts
    <2>2. CASE /\ QueueWork("up") /\ Go(t, Idle)
               /\ UNCHANGED <<state, armed, link, ghosts>>
      BY <1>0, <1>1, <2>2, DebtQueue, DebtOfStep DEF Idle, Step, ghosts
    <2>3. CASE FailUp(t, {"link_up"})
      BY <1>0, <2>3, DebtOfFailUp
    <2> QED
      BY <1>5, <2>1, <2>2, <2>3 DEF UpAfterAnStart
  <1>6. CASE t = "up_start" /\ UpStartWork
    <2>1. CASE Enter(t, {"GOING_UP"}, Step("begin"), {})
      BY <1>0, <2>1, DebtOfEnter
    <2>2. CASE Go(t, Step("off")) /\ UNCHANGED <<state, queued, intrOn, link, ghosts>>
      BY <1>0, <2>2, DebtOfStep DEF Idle, Step, ghosts
    <2>3. CASE FailUp(t, {})
      BY <1>0, <2>3, DebtOfFailUp
    <2>4. CASE /\ \/ QueueWork("up") /\ UNCHANGED armed
                  \/ armed' = Started("high_power") /\ UNCHANGED queued
               /\ Go(t, Idle)
               /\ UNCHANGED <<state, link, ghosts>>
      BY <1>0, <1>1, <2>4, DebtQueue, DebtOfStep DEF Idle, Step, ghosts
    <2> QED
      BY <1>6, <2>1, <2>2, <2>3, <2>4 DEF UpStartWork
  <1>7. CASE t = "up" /\ UpWork
    <2>1. CASE Enter(t, Rising, Step("serdes"), {"link_up"})
      BY <1>0, <2>1, DebtOfEnter
    <2>2. CASE Go(t, Idle) /\ UNCHANGED <<state, queued, armed, link, ghosts>>
      BY <1>0, <2>2, DebtOfStep DEF Idle, Step, ghosts
    <2>3. CASE FailUp(t, {"link_up"})
      BY <1>0, <2>3, DebtOfFailUp
    <2> QED
      BY <1>7, <2>1, <2>2, <2>3 DEF UpWork
  <1>8. ASSUME NEW tm, BeginWork(t, tm)
        PROVE  DebtInv'
    <2>1. CASE Enter(t, Rising, Step("begin"), {"link_up"})
      BY <1>0, <2>1, DebtOfEnter
    <2>2. CASE Go(t, Idle) /\ UNCHANGED <<state, queued, intrOn, link, ghosts>>
      BY <1>0, <2>2, DebtOfStep DEF Idle, Step, ghosts
    <2> QED
      BY <1>8, <2>1, <2>2 DEF BeginWork
  <1> QED
    BY <1>2, <1>3, <1>4, <1>5, <1>6, <1>7, <1>8

(* The check of the link and its success: the answer passes from the state to *)
(* the work that publishes UP.                                               *)
LEMMA DebtOfCheck ==
    ASSUME DebtInv, CtrlRanges, NEW t \in Works, t \notin Ends,
           CheckWork(t) \/ UpSuccess(t)
    PROVE  DebtInv'
  <1>0. t \in Threads /\ t \notin Enders
    BY WorkFacts
  <1>1. CASE Enter(t, Rising, Step("check"), {"link_up"})
    BY <1>0, <1>1, DebtOfEnter
  <1>2. CASE FailUp(t, {"link_up"}) \/ FailUp(t, {})
    BY <1>0, <1>2, DebtOfFailUp
  <1>3. CASE /\ Go(t, Idle) \/ Go(t, Step("publish"))
             /\ UNCHANGED <<state, queued, due>>
    BY <1>0, <1>3, DebtOfStep DEF Idle, Step
  <1>4. CASE UpAld /\ Go(t, Step("enable")) /\ UNCHANGED <<link, loose, due, ups>>
    <2>1. CASE UpFail
      BY <1>0, <1>4, <2>1, DebtBase, OwingFacts, FailStep
    <2>2. CASE UNCHANGED <<state, queued>>
      BY <1>0, <1>4, <2>2, DebtOfStep
    <2> QED
      BY <1>4, <2>1, <2>2 DEF UpAld
  <1>5. CASE /\ At(t, "publish", "none") /\ state = "GOING_UP"
             /\ state' = "UP" /\ Go(t, <<"up_cb", "up">>)
             /\ UNCHANGED <<kernel, link, ghosts>>
    <2>1. <<"state", "rising">> \in Debts /\ <<"state", "rising">> \notin Debts'
      BY <1>5, DebtOf, DebtNext DEF Rising
    <2>2. \A u : <<"thread", u>> \in Debts' => <<"thread", u>> \in Debts \/ u = t
      BY <1>0, <1>5, DebtBase, DebtMoves
    <2>3. \A w : <<"work", w>> \in Debts' => <<"work", w>> \in Debts
      BY <1>5, DebtOf, DebtNext DEF kernel
    <2>4. Debts' \subseteq (Debts \ {<<"state", "rising">>}) \cup {<<"thread", t>>}
      BY <2>1, <2>2, <2>3, DebtNext
    <2> QED
      BY <1>5, <2>1, <2>4, DebtBase, DebtPassed DEF ghosts
  <1>6. CASE CheckWork(t)
    BY <1>1, <1>2, <1>3, <1>4, <1>6 DEF CheckWork, ghosts
  <1>7. CASE UpSuccess(t)
    <2>1. CASE At(t, "enable", "none") /\ ~FailUp(t, {})
      BY <1>3, <1>7, <2>1 DEF UpSuccess, ghosts, At
    <2>2. CASE At(t, "publish", "none")
      BY <1>3, <1>5, <1>7, <2>2 DEF UpSuccess, kernel, ghosts, At
    <2> QED
      BY <1>2, <1>7, <2>1, <2>2 DEF UpSuccess
  <1> QED
    BY <1>6, <1>7

(* A teardown: the timeout takes the answer from the state, the others from  *)
(* their promise.                                                            *)
LEMMA DebtOfTeardown ==
    ASSUME DebtInv, CtrlRanges, NEW t \in Ends, Teardown(t)
    PROVE  DebtInv'
  <1>0. t \in Threads /\ (t \in Enders <=> t # "down")
    BY WorkFacts DEF Ends, Enders
  <1>1. CASE TeardownStart(t) /\ state \in Claims[t] /\ t \in Enders
    <2>1. /\ Go(t, <<"wait", CancelList[t][1]>>) /\ due' = due
          /\ t \in queued /\ t \notin queued' /\ queued' \subseteq queued
          /\ state' = IF t = "up_timeout" THEN "TIMEOUT" ELSE state
      BY <1>1 DEF TeardownStart, ghosts
    <2>2. \A u : <<"thread", u>> \in Debts' => <<"thread", u>> \in Debts \/ u = t
      BY <1>0, <2>1, DebtBase, DebtMoves
    <2>3. \A w : <<"work", w>> \in Debts' => <<"work", w>> \in Debts /\ w # t
      BY <2>1, DebtOf, DebtNext
    <2>4. CASE t = "up_timeout"
      <3>1. <<"state", "rising">> \in Debts /\ <<"state", "rising">> \notin Debts'
        BY <1>1, <2>1, <2>4, DebtOf, DebtNext DEF Claims, Rising
      <3>2. Debts' \subseteq (Debts \ {<<"state", "rising">>}) \cup {<<"thread", t>>}
        BY <2>2, <2>3, <3>1, DebtNext
      <3> QED
        BY <2>1, <3>1, <3>2, DebtBase, DebtPassed
    <2>5. CASE t # "up_timeout"
      <3>1. <<"work", t>> \in Debts
        BY <1>1, <2>1, <2>5, DebtOf DEF Enders, Promised
      <3>2. <<"state", "rising">> \in Debts' => <<"state", "rising">> \in Debts
        BY <2>1, <2>5, DebtOf, DebtNext
      <3>3. Debts' \subseteq (Debts \ {<<"work", t>>}) \cup {<<"thread", t>>}
        BY <2>2, <2>3, <3>2, DebtNext
      <3> QED
        BY <2>1, <3>1, <3>3, DebtBase, DebtPassed
    <2> QED
      BY <2>4, <2>5
  <1>2. CASE TeardownStart(t) /\ ~(state \in Claims[t] /\ t \in Enders)
    <2>1. CASE state \in Claims[t]
      <3>1. /\ Go(t, <<"wait", CancelList[t][1]>>) /\ due' = due /\ state' = state
            /\ queued' \subseteq queued
        BY <1>0, <1>2, <2>1 DEF TeardownStart, ghosts
      <3>2. ~Owing(t, <<"wait", CancelList[t][1]>>)
        BY <1>2, <2>1, OwingFacts
      <3> QED
        BY <1>0, <3>1, <3>2, DebtBase, QuietStep
    <2>2. CASE state \notin Claims[t]
      <3>1. Go(t, Idle) /\ due' = due /\ state' = state /\ queued' \subseteq queued
        BY <1>2, <2>2 DEF TeardownStart, ghosts
      <3> QED
        BY <1>0, <3>1, DebtBase, OwingFacts, QuietStep
    <2> QED
      BY <2>1, <2>2
  <1>3. CASE TeardownWait(t)
    <2>1. PICK w \in DOMAIN Following[t] : Waited(t, "wait", w)
      BY <1>3 DEF TeardownWait
    <2>2. pc[t] = <<"wait", w>>
      BY <2>1 DEF Waited, At
    <2>3. /\ state' = state /\ due' = due /\ queued' \subseteq queued
      BY <1>3 DEF TeardownWait, Cancel, ghosts
    <2>4. PICK l : Go(t, l) /\ (l = Step("off") \/ \E v : l = <<"wait", v>>)
      BY <1>3 DEF TeardownWait, Cancel
    <2>5. Owing(t, l) => Owing(t, pc[t])
      BY <2>2, <2>4, OwingFacts
    <2> QED
      BY <1>0, <2>3, <2>4, <2>5, DebtBase, QuietStep
  <1>4. CASE TeardownEnd(t)
    <2>1. /\ pc[t] = Step("off") /\ due' = due /\ queued' = queued /\ state' \notin Rising
      BY <1>4 DEF TeardownEnd, At, Step, kernel, Rising
    <2>2. PICK l : Go(t, l) /\ l = (IF t = "down" THEN Step("down_cb") ELSE <<"up_cb", "read">>)
      BY <1>4 DEF TeardownEnd
    <2>3. Owing(t, l) => Owing(t, pc[t])
      BY <1>0, <2>1, <2>2, OwingFacts
    <2> QED
      BY <1>0, <2>1, <2>2, <2>3, DebtBase, QuietStep
  <1> QED
    BY <1>1, <1>2, <1>3, <1>4 DEF Teardown

(* The works of the interrupts that watch the link *)
LEMMA DebtOfWatch ==
    ASSUME DebtInv, CtrlRanges, NEW t \in Works, t \notin Ends,
           MonitorTake(t) \/ Rearm(t) \/ FaultWork(t) \/ FaultLinkDown(t) \/ FaultStart(t)
    PROVE  DebtInv'
  <1>0. t \in Threads /\ t \notin Enders
    BY WorkFacts
  <1>1. CASE MonitorTake(t)
    <2>1. /\ queued' \subseteq queued /\ state' = state /\ due' = due
          /\ Go(t, Step("rearm")) \/ Go(t, Step("idle"))
      BY <1>1 DEF MonitorTake, Take, ghosts, Idle, Step
    <2> QED
      BY <1>0, <2>1, DebtOfStep
  <1>2. CASE Rearm(t)
    <2>1. queued' = queued /\ state' = state /\ due' = due /\ Go(t, Step("idle"))
      BY <1>2 DEF Rearm, Idle, Step
    <2> QED
      BY <1>0, <2>1, DebtOfStep
  <1>3. CASE FaultLinkDown(t)
    <2>1. queued' = queued /\ state' \notin Rising /\ due' = due /\ Go(t, Step("fault_cb"))
      BY <1>3 DEF FaultLinkDown, kernel, ghosts, Rising
    <2> QED
      BY <1>0, <2>1, DebtOfStep
  <1>4. CASE FaultStart(t)
    <2>1. /\ queued' = queued /\ due' = due /\ Go(t, Step("off"))
          /\ state' \in Rising => state \in Rising
      BY <1>4 DEF FaultStart, ghosts, Rising
    <2> QED
      BY <1>0, <2>1, DebtOfStep
  <1>5. CASE t = "fault" /\ FaultTake
    <2>1. /\ queued' \subseteq queued /\ state' = state /\ due' = due
          /\ Go(t, Step("rearm")) \/ Go(t, Step("fault_start"))
      BY <1>5 DEF FaultTake, Take, ghosts
    <2> QED
      BY <1>0, <2>1, DebtOfStep
  <1>6. CASE t = "fault" /\ FaultRecover
    <2>1. /\ state' = state /\ due' = due /\ queued' \cap Promised \subseteq queued
      BY <1>6 DEF FaultRecover, ghosts, Promised
    <2>2. CASE Go(t, Step("fault_start"))
      BY <1>0, <2>1, <2>2, DebtOfStep
    <2>3. CASE UNCHANGED pc
      <3>1. Debts' \subseteq Debts
        BY <2>1, <2>3 DEF Debts
      <3> QED
        BY <2>1, <3>1, DebtBase, FewerDebts
    <2> QED
      BY <1>6, <2>2, <2>3 DEF FaultRecover
  <1>7. CASE t = "pml_poll" /\ PmlRecPollWork
    <2>1. CASE Take(t) /\ UNCHANGED <<state, armed, intrOn, link, ghosts>>
               /\ Go(t, IF recovering THEN Step("poll") ELSE Idle)
      BY <1>0, <2>1, DebtOfStep DEF Take, ghosts, Idle, Step
    <2>2. CASE /\ Go(t, Step("rearm")) \/ Go(t, Step("fault_start"))
               /\ UNCHANGED <<state, kernel, autoneg, ghosts>>
      BY <1>0, <2>2, DebtOfStep DEF kernel, ghosts
    <2> QED
      BY <1>7, <2>1, <2>2 DEF PmlRecPollWork
  <1> QED
    BY <1>1, <1>2, <1>3, <1>4, <1>5, <1>6, <1>7 DEF FaultWork

LEMMA DebtOfLinkWork ==
    ASSUME DebtInv, CtrlRanges, NEW t \in Works, LinkWork(t)
    PROVE  DebtInv'
  <1>1. CASE t \in DOMAIN CancelList /\ Teardown(t)
    BY <1>1, WorkFacts, DebtOfTeardown
  <1>2. ASSUME t \notin Ends
        PROVE  DebtInv'
    <2>1. CASE t \in {"up_check", "fec_check"} /\ (CheckWork(t) \/ UpSuccess(t))
      BY <1>2, <2>1, DebtOfCheck
    <2>2. CASE \/ t \in Monitors /\ (MonitorTake(t) \/ Rearm(t))
               \/ t \in FaultWorks /\ (FaultWork(t) \/ Rearm(t) \/ FaultLinkDown(t))
      BY <1>2, <2>2, DebtOfWatch
    <2>3. CASE t \in DOMAIN CancelList /\ Teardown(t)
      BY <1>1, <2>3
    <2> QED
      BY <1>2, <2>1, <2>2, <2>3, DebtOfAttempt DEF LinkWork
  <1>3. t \in Ends => Teardown(t)
    <2>1. t \in Ends => t \notin Monitors /\ t \notin FaultWorks
      BY WorkFacts DEF FaultWorks, Ends
    <2>2. t \in Ends => t \notin {"an_up_start", "an_up", "an_up_done", "up_start", "up",
                                  "up_intr", "fec_settle", "up_check", "fec_check"}
      BY DEF Ends
    <2> QED
      BY <2>1, <2>2 DEF LinkWork
  <1> QED
    BY <1>1, <1>2, <1>3, WorkFacts

(* The callbacks: sl_ctrl_link_up_callback answers, the others owe nothing. *)
LEMMA DebtOfCallback ==
    ASSUME DebtInv, CtrlRanges, NEW t \in Works, CtrlCallback(t)
    PROVE  DebtInv'
  <1>0. t \in Threads
    BY WorkFacts
  <1>1. CASE UpCallbackUp(t) \/ UpCallbackRead(t)
    <2>1. /\ queued' = queued /\ state' = state /\ due' = due - 1 /\ pc[t][1] = "up_cb"
          /\ \/ Go(t, <<"notify", "up">>)
             \/ Go(t, Step("up_fail"))
             \/ Go(t, Step("stopping"))
      BY <1>1 DEF UpCallbackUp, UpCallbackRead, At, kernel
    <2>2. <<"thread", t>> \in Debts
      BY <1>0, <2>1, DebtOf DEF Owing
    <2>3. \A u : <<"thread", u>> \in Debts' => <<"thread", u>> \in Debts /\ u # t
      BY <1>0, <2>1, DebtBase, DebtMoves, OwingFacts
    <2>4. \A w : <<"work", w>> \in Debts' => <<"work", w>> \in Debts
      BY <2>1, DebtOf, DebtNext
    <2>5. Debts' \subseteq Debts \ {<<"thread", t>>}
      BY <2>1, <2>3, <2>4, DebtNext, DebtOf
    <2> QED
      BY <2>1, <2>2, <2>5, DebtBase, DebtPaid
  <1>2. CASE UpCallbackFail(t) \/ Stopping(t) \/ Settled(t) \/ Notify(t) \/ DownCallback(t)
             \/ FaultCallback(t)
    <2>1. queued' = queued /\ state' = state /\ due' = due
      BY <1>2 DEF UpCallbackFail, Stopping, Settled, Notify, DownCallback, FaultCallback,
                  coreVars, kernel, ghosts
    <2>2. PICK l : Go(t, l) /\ ~Owing(t, l)
      BY <1>2, OwingFacts
         DEF UpCallbackFail, Stopping, Settled, Notify, DownCallback, FaultCallback
    <2> QED
      BY <1>0, <2>1, <2>2, DebtBase, QuietStep
  <1>3. CASE UpCallbackRetry(t)
    BY <1>0, <1>3, OwingFacts, DebtOfCoreUp, DebtOfUpCmd DEF UpCallbackRetry
  <1>4. CASE t \in FaultWorks /\ FaultStartCallback(t)
    <2>1. t \notin Ends /\ FaultStart(t)
      BY <1>4 DEF FaultWorks, Ends, FaultStartCallback
    <2> QED
      BY <2>1, DebtOfWatch
  <1> QED
    BY <1>1, <1>2, <1>3, <1>4 DEF CtrlCallback

LEMMA DebtOfNext ==
    ASSUME DebtInv, CtrlRanges, [CtrlNext]_allVars
    PROVE  DebtInv'
  <1>1. CASE \E c \in Clients : CtrlCall(c) \/ CtrlClientStep(c)
    BY <1>1, DebtOfClient
  <1>2. CASE \E t \in Works : CtrlWorkStep(t)
    BY <1>2, DebtOfLinkWork, DebtOfCallback DEF CtrlWorkStep
  <1>3. ASSUME NEW w, w \notin Promised, QueueWork(w), UNCHANGED <<state, pc, due>>
        PROVE  DebtInv'
    <2>1. queued' \cap Promised \subseteq queued
      BY <1>3, DebtQueue
    <2>2. Debts' \subseteq Debts
      BY <1>3, <2>1 DEF Debts
    <2> QED
      BY <1>3, <2>2, DebtBase, FewerDebts
  <1>4. ASSUME NEW tm \in DOMAIN TimerWork, TimerExpire(tm)
        PROVE  DebtInv'
    <2>1. TimerWork[tm] \notin Promised
      BY DEF TimerWork, Promised
    <2> QED
      BY <1>3, <1>4, <2>1 DEF TimerExpire, ghosts
  <1>5. ASSUME NEW i \in DOMAIN IntrWork, IntrFire(i)
        PROVE  DebtInv'
    <2>1. IntrWork[i] \notin Promised
      BY LinkOptionsAssumption DEF IntrWork, Promised
    <2> QED
      BY <1>3, <1>5, <2>1 DEF IntrFire
  <1>6. CASE UNCHANGED allVars
    <2>1. Debts' = Debts /\ due' = due
      BY <1>6 DEF allVars, vars, Debts
    <2> QED
      BY <2>1, DebtBase, FewerDebts
  <1> QED
    BY <1>1, <1>2, <1>4, <1>5, <1>6 DEF CtrlNext

LEMMA DebtOfInit ==
    ASSUME CtrlInit
    PROVE  DebtInv
  <1>1. Debts = {} /\ due = 0
    BY DEF CtrlInit, Init, Debts, Rising, Owing, Idle, Step
  <1> QED
    BY <1>1, FS_EmptySet DEF DebtInv

(* Whatever the clients call and whatever the faults do to the attempts, the *)
(* core calls an up callback only for an up that it accepted and has not     *)
(* answered yet: sl_core_hw_link_up_success and the ends of an attempt call  *)
(* link_up_callback once per accepted sl_core_link_up.                       *)
THEOREM AnsweredAtMostOnceAlways ==
    CtrlSpec => []AnsweredAtMostOnce
  <1>1. CtrlInit => DebtInv /\ CtrlRanges
    BY DebtOfInit, RangeOfCtrlInit
  <1>2. DebtInv /\ CtrlRanges /\ [CtrlNext]_allVars => DebtInv' /\ CtrlRanges'
    BY DebtOfNext, RangeOfCtrlNext
  <1>3. DebtInv /\ CtrlRanges => AnsweredAtMostOnce
    <2> SUFFICES ASSUME DebtInv, CtrlRanges
                 PROVE  AnsweredAtMostOnce
      OBVIOUS
    <2> DEFINE answering == {t \in Works : pc[t][1] = "up_cb"}
               debt == [t \in answering |-> <<"thread", t>>]
    <2>1. \A t \in answering : <<"thread", t>> \in Debts
      BY WorkFacts, DebtOf DEF Owing
    <2>2. debt \in Injection(answering, Debts)
      BY <2>1 DEF Injection, IsInjective
    <2>3. IsFiniteSet(answering) /\ Cardinality(answering) <= Cardinality(Debts)
      BY <2>2, FS_Injection DEF DebtInv
    <2>4. Cardinality(answering) \in Nat /\ Cardinality(Debts) \in Nat /\ due \in Int
      BY <2>3, FS_CardinalityType, DebtBase DEF DebtInv
    <2> QED
      BY <2>3, <2>4 DEF DebtInv, AnsweredAtMostOnce
  <1> QED
    BY <1>1, <1>2, <1>3, PTL DEF CtrlSpec
-----------------------------------------------------------------------------
(* NoWorkOutlives of the two layers together.  The callbacks start the next  *)
(* attempt from inside the work that ended the last one, so a work that is   *)
(* no client may be about to queue a first work; the parts of Kept know of   *)
(* such threads (Calling), and are kept by the layer above as they stand.    *)

(* A step of a caller or of a callback that leaves the core alone *)
LEMMA KeptOfGo ==
    ASSUME EndInv, Kept, NEW t \in Threads, NEW l, Go(t, l),
           UNCHANGED <<state, queued, armed, intrOn>>,
           t \in Works => pc[t] # Idle,
           l[1] \notin RunHeads \cup {"wait", "off", "queue", "up_cmd"}
    PROVE  Kept'
  <1>1. /\ l[1] \notin RunHeads /\ l[1] \notin {"wait", "off"}
        /\ l # Step("up_cmd") /\ l # <<"queue", "down">>
    BY Heads
  <1>2. state' \in RestStates \cup {"UP"} => state \in RestStates \cup {"UP"}
    OBVIOUS
  <1> QED
    BY <1>1, <1>2, FrameStep

LEMMA KeptOfCoreUp ==
    ASSUME EndInv, Kept, NEW t \in Threads, NEW l, t \in Works => pc[t] # Idle,
           l[1] \notin RunHeads \cup {"wait", "off", "queue", "up_cmd"},
           CoreUp(t, l) \/ CoreUpFails(t, l)
    PROVE  Kept'
  <1>1. CASE UpAccept(t)
    BY <1>1, KeptOfAccept
  <1>2. CASE UpAlready /\ Go(t, l) /\ UNCHANGED coreVars
    BY <1>2, KeptOfGo DEF coreVars, kernel
  <1>3. CASE CoreUpFails(t, l)
    BY <1>3, KeptOfGo DEF CoreUpFails, kernel
  <1> QED
    BY <1>1, <1>2, <1>3 DEF CoreUp

LEMMA CallerHeads ==
    \A l \in {Idle} \cup CallerLabels :
        l[1] \notin RunHeads \cup {"wait", "off", "queue", "up_cmd"}
  BY Heads DEF CallerLabels, RunHeads, Idle, Step

LEMMA KeptOfCaller ==
    ASSUME EndInv, Kept, NEW c \in Clients, NEW l \in {Idle} \cup CallerLabels, Go(c, l),
           UNCHANGED coreVars
    PROVE  Kept'
  <1>1. c \in Threads /\ c \notin Works
    BY WorkFacts
  <1> QED
    BY <1>1, CallerHeads, KeptOfGo DEF coreVars, kernel

LEMMA KeptOfTakes ==
    ASSUME EndInv, Kept, NEW c \in Clients, CoreCancel(c) \/ CoreDown(c)
    PROVE  Kept'
  <1>1. CASE CancelAccept(c) \/ DownAccept(c)
    BY <1>1, KeptOfTake DEF CoreCancel, CoreDown
  <1>2. CASE Go(c, Idle) /\ UNCHANGED state
    BY <1>2, KeptOfCaller DEF CoreCancel, CoreDown, coreVars
  <1> QED
    BY <1>1, <1>2 DEF CoreCancel, CoreDown

LEMMA KeptOfCtrlClient ==
    ASSUME EndInv, Kept, ~loose', NEW c \in Clients, CtrlCall(c) \/ CtrlClientStep(c)
    PROVE  Kept'
  <1>0. c \in Threads /\ c \notin Works
    BY WorkFacts
  <1>1. CASE LinkUp(c) \/ LinkDown(c) \/ LinkReset(c)
    BY <1>1, KeptOfCaller DEF LinkUp, LinkDown, LinkReset, CallerLabels
  <1>2. CASE LinkAsyncDown(c)
    BY <1>2, KeptOfCaller, KeptStill DEF LinkAsyncDown, CallerLabels, coreVars, kernel
  <1>3. CASE ConfigSet(c)
    BY <1>3, KeptOfConfigSet
  <1>4. CASE LinkUpCmd(c)
    <2>1. CASE At(c, "up_core", "none")
      <3>1. CoreUp(c, Idle) \/ CoreUpFails(c, Step("up_refuse"))
        BY <1>4, <2>1 DEF LinkUpCmd, At, Step
      <3>2. {Idle, Step("up_refuse")} \subseteq {Idle} \cup CallerLabels
        BY DEF CallerLabels
      <3> QED
        BY <1>0, <3>1, <3>2, CallerHeads, KeptOfCoreUp
    <2>2. CASE ~At(c, "up_core", "none")
      BY <1>4, <2>2, KeptOfCaller DEF LinkUpCmd, CallerLabels
    <2> QED
      BY <2>1, <2>2
  <1>5. CASE LinkDownCmd(c)
    BY <1>5, KeptOfTakes DEF LinkDownCmd
  <1>6. CASE ClientStep(c)
    BY <1>6, KeptOfClientStep
  <1> QED
    BY <1>1, <1>2, <1>3, <1>4, <1>5, <1>6 DEF CtrlCall, CtrlClientStep

LEMMA KeptOfCtrlCallback ==
    ASSUME EndInv, Kept, ~loose', NEW t \in Works, CtrlCallback(t)
    PROVE  Kept'
  <1>0. t \in Threads /\ AfterUpCallback(t) \in {Idle, Step("down_cb")}
    BY WorkFacts DEF AfterUpCallback
  <1>1. CASE \/ UpCallbackUp(t) \/ UpCallbackRead(t) \/ UpCallbackFail(t) \/ Stopping(t)
             \/ Settled(t) \/ Notify(t) \/ DownCallback(t)
    <2>1. /\ UNCHANGED <<state, queued, armed, intrOn>>
          /\ pc[t][1] \in CallbackSteps \cup {"up_cb", "down_cb"}
      BY <1>1 DEF UpCallbackUp, UpCallbackRead, UpCallbackFail, Stopping, Settled, Notify,
                  DownCallback, CallbackSteps, At, coreVars, kernel
    <2>2. pc[t] # Idle
      BY <2>1 DEF CallbackSteps, Idle
    <2>3. PICK l : /\ Go(t, l)
                   /\ l[1] \in {"notify", "up_fail", "stopping", "retry", "settle", "idle",
                                "down_cb"}
      BY <1>0, <1>1 DEF UpCallbackUp, UpCallbackRead, UpCallbackFail, Stopping, Settled,
                        Notify, DownCallback, Step, Idle
    <2>4. l[1] \notin RunHeads \cup {"wait", "off", "queue", "up_cmd"}
      BY <2>3 DEF RunHeads
    <2> QED
      BY <1>0, <2>1, <2>2, <2>3, <2>4, KeptOfGo
  <1>2. CASE At(t, "retry", "none")
             /\ (CoreUp(t, AfterUpCallback(t)) \/ CoreUpFails(t, Step("stopping")))
    <2>1. pc[t] # Idle
      BY <1>2 DEF At, Idle
    <2>2. \A l \in {Idle, Step("down_cb"), Step("stopping")} :
              l[1] \notin RunHeads \cup {"wait", "off", "queue", "up_cmd"}
      BY Heads DEF RunHeads
    <2> QED
      BY <1>0, <1>2, <2>1, <2>2, KeptOfCoreUp
  <1>3. CASE UpCmd(t, AfterUpCallback(t))
    BY <1>0, <1>3, KeptOfUpCmd
  <1>4. ~FaultStartCallback(t) /\ ~FaultCallback(t)
    BY WorkFacts DEF FaultStartCallback, FaultCallback, FaultStart, At, EndInv, ShapeInv,
                     WorkSteps, CallbackSteps
  <1> QED
    BY <1>1, <1>2, <1>3, <1>4 DEF CtrlCallback, UpCallbackRetry

LEMMA KeptOfCtrlNext ==
    ASSUME EndInv, Kept, ~loose', FaultPaths \subseteq {"rearm"}, [CtrlNext]_allVars
    PROVE  Kept'
  <1>1. CASE \E c \in Clients : CtrlCall(c) \/ CtrlClientStep(c)
    BY <1>1, KeptOfCtrlClient
  <1>2. CASE \E t \in Works : CtrlWorkStep(t)
    BY <1>2, KeptOfLinkWork, KeptOfCtrlCallback DEF CtrlWorkStep
  <1>3. CASE \E tm \in DOMAIN TimerWork : TimerExpire(tm)
    BY <1>3, KeptOfTimerExpire
  <1>4. CASE \E i \in DOMAIN IntrWork : IntrFire(i)
    BY <1>4, KeptOfIntr
  <1>5. CASE UNCHANGED allVars
    BY <1>5, KeptStill DEF allVars, vars
  <1> QED
    BY <1>1, <1>2, <1>3, <1>4, <1>5 DEF CtrlNext

(* The layer above never clears what is noted as loose. *)
LEMMA LooseOfCtrlClient ==
    ASSUME loose, NEW c \in Clients, CtrlCall(c) \/ CtrlClientStep(c)
    PROVE  loose'
  <1>1. CASE CtrlCall(c)
    BY <1>1 DEF CtrlCall, LinkUp, LinkDown, LinkReset, LinkAsyncDown, ConfigSet, coreVars,
                ghosts
  <1>2. CASE LinkUpCmd(c)
    BY <1>2 DEF LinkUpCmd, CoreUp, CoreUpFails, UpAccept, coreVars, ghosts
  <1>3. CASE LinkDownCmd(c)
    BY <1>3 DEF LinkDownCmd, CoreCancel, CoreDown, ghosts
  <1>4. CASE ClientStep(c)
    BY <1>4 DEF ClientStep, UpCmd, ConfigEnd, QueueEnd, ghosts
  <1> QED
    BY <1>1, <1>2, <1>3, <1>4 DEF CtrlClientStep

LEMMA LooseOfCtrlCallback ==
    ASSUME loose, NEW t \in Works, CtrlCallback(t)
    PROVE  loose'
  <1>1. CASE UpCallbackUp(t) \/ UpCallbackRead(t) \/ UpCallbackFail(t)
    BY <1>1 DEF UpCallbackUp, UpCallbackRead, UpCallbackFail, coreVars, ghosts
  <1>2. CASE UpCallbackRetry(t)
    BY <1>2 DEF UpCallbackRetry, CoreUp, CoreUpFails, UpAccept, UpCmd, coreVars, ghosts
  <1>3. CASE Stopping(t) \/ Settled(t) \/ Notify(t) \/ DownCallback(t)
    BY <1>3 DEF Stopping, Settled, Notify, DownCallback, coreVars, ghosts
  <1>4. CASE FaultStartCallback(t) \/ FaultCallback(t)
    BY <1>4 DEF FaultStartCallback, FaultCallback, FaultStart, coreVars, ghosts
  <1> QED
    BY <1>1, <1>2, <1>3, <1>4 DEF CtrlCallback

LEMMA OutliveOfCtrlNext ==
    ASSUME EndInv, OutliveInv, FaultPaths \subseteq {"rearm"}, [CtrlNext]_allVars
    PROVE  OutliveInv'
  <1>1. CASE loose
    <2>1. CASE \E c \in Clients : CtrlCall(c) \/ CtrlClientStep(c)
      BY <1>1, <2>1, LooseOfCtrlClient DEF OutliveInv
    <2>2. CASE \E t \in Works : CtrlWorkStep(t)
      BY <1>1, <2>2, LooseOfWork, LooseOfCtrlCallback DEF OutliveInv, CtrlWorkStep
    <2>3. CASE \/ \E tm \in DOMAIN TimerWork : TimerExpire(tm)
               \/ \E i \in DOMAIN IntrWork : IntrFire(i)
      BY <1>1, <2>3 DEF OutliveInv, TimerExpire, IntrFire, ghosts
    <2>4. CASE UNCHANGED allVars
      BY <1>1, <2>4 DEF OutliveInv, allVars, vars
    <2> QED
      BY <2>1, <2>2, <2>3, <2>4 DEF CtrlNext
  <1>2. CASE ~loose' /\ Kept
    BY <1>2, KeptOfCtrlNext DEF OutliveInv
  <1> QED
    BY <1>1, <1>2 DEF OutliveInv

(* A teardown outlives what it ends also under the layer above               *)
(* (NoWorkOutlives): sl_ctrl_link_up_callback calls sl_core_link_up again    *)
(* from inside the teardown of the attempt that failed, and clients cancel,  *)
(* reset and take down at any time; no work, timer or interrupt of one       *)
(* attempt is there when it is over, or in the next.                         *)
THEOREM CtrlNoWorkOutlivesAlways ==
    ASSUME FaultPaths \subseteq {"rearm"}
    PROVE  CtrlSpec => []NoWorkOutlives
  <1> DEFINE IInv == EndInv /\ CtrlRanges /\ OutliveInv
  <1>1. CtrlInit => IInv
    BY EndOfInit, RangeOfCtrlInit, OutliveOfInit DEF CtrlInit
  <1>2. IInv /\ [CtrlNext]_allVars => IInv'
    BY EndOfCtrlNext, RangeOfCtrlNext, OutliveOfCtrlNext
  <1>3. IInv => NoWorkOutlives
    BY OutliveMeaning DEF CtrlRanges
  <1> QED
    BY <1>1, <1>2, <1>3, PTL DEF CtrlSpec

=============================================================================
