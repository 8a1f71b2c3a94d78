--------------------------- MODULE CoreLlrProofs ---------------------------
(***************************************************************************)
(* Theorems about CoreLlr, for any set of clients and any bounds: its type *)
(* invariant; while no setting is refused and no interrupt fails to be     *)
(* enabled (MaxFaults = 0), that every transient state has one settler and *)
(* that no state past the setup lacks the data of its measurement; that an *)
(* LLR that is freed has left nothing behind; and that one client at a     *)
(* time never has a callback called before it is stored.                   *)
(***************************************************************************)
EXTENDS CoreLlr, FiniteSetTheorems, TLAPS

(* What the provers need to know of the constant definitions *)
LEMMA AttemptFacts ==
    /\ Attempts = {"setup", "start"}
    /\ Attempts \subseteq Works
    /\ \A p \in Attempts :
          /\ TimeoutWork[p] \in Works /\ IntrWork[p] \in Works
          /\ TimeoutWork[p] # p /\ IntrWork[p] # p /\ TimeoutWork[p] # IntrWork[p]
          /\ {From[p], Busy[p], Done[p], TimedOut[p], Canceling[p]} \subseteq States
    /\ Works = {"setup", "start", "setup_timeout", "start_timeout",
                "loop_time", "init_complete"}
  BY DEF Attempts, Works, TimeoutWork, IntrWork, From, Busy, Done, TimedOut,
         Canceling, States, Transient

LEMMA NoteType == \A p \in Attempts : Note(p, state) \in Notes
  BY DEF Attempts, Note, Notes

LEMMA LabelType ==
    /\ {Idle, <<"del", "none">>, <<"freed", "none">>, <<"stop_wait", "none">>}
           \subseteq Labels
    /\ \A p \in Attempts :
          {<<"store", p>>, <<"arm", p>>, <<"queue", p>>, <<"cancel", p>>,
           <<"stop", p>>, <<"enable", p>>, <<"fail", p>>, <<"check", p>>,
           <<"disarm", p>>, <<"publish", p>>, <<"teardown", p>>,
           <<"settle", p>>, <<"cb", p>>, <<"complete", p>>} \subseteq Labels
    /\ \A w \in Works : {<<"wait", w>>, <<"del", w>>} \subseteq Labels
  BY DEF Labels

LEMMA GoType ==
    ASSUME TypeOK, NEW t \in Threads, NEW l \in Labels, Go(t, l)
    PROVE  pc' \in [Threads -> Labels]
  BY DEF TypeOK, Go

LEMMA QueueType ==
    ASSUME TypeOK, NEW w \in Works, QueueWork(w)
    PROVE  queued' \subseteq Works
  BY DEF TypeOK, QueueWork

LEMMA CancelType ==
    ASSUME TypeOK, NEW t \in Threads, NEW w \in Works, NEW step \in {"wait", "del"},
           Cancel(t, step, w)
    PROVE  pc' \in [Threads -> Labels] /\ queued' \subseteq Works
  <1>1. <<step, w>> \in Labels
    BY LabelType
  <1> QED
    BY <1>1, GoType DEF Cancel, TypeOK

LEMMA CallbackType ==
    ASSUME TypeOK, NEW p \in Attempts, Callback(p)
    PROVE  due' \in [Attempts -> Int] /\ note' \in Notes
  BY NoteType DEF TypeOK, Callback

LEMMA ClaimType ==
    ASSUME TypeOK, NEW t \in Threads, NEW p \in Attempts, NEW s \in States,
           NEW next \in Labels, Claim(t, p, s, next)
    PROVE  state' \in States /\ pc' \in [Threads -> Labels]
  BY LabelType, GoType DEF Claim, TypeOK

-----------------------------------------------------------------------------
(* The steps that the environment takes preserve the types *)

LEMMA TypeOfEnvironment ==
    ASSUME TypeOK, NEW p \in Attempts, TimerExpire(p) \/ IntrFire(p)
    PROVE  TypeOK'
  <1>1. queued' \subseteq Works
    BY QueueType, AttemptFacts DEF TimerExpire, IntrFire
  <1> QED
    BY <1>1 DEF TypeOK, TimerExpire, IntrFire, object, answer, budget

-----------------------------------------------------------------------------
(* The steps of a client preserve the types *)

LEMMA TypeOfBegin ==
    ASSUME TypeOK, NEW c \in Clients, NEW p \in Attempts, LlrBegin(c, p)
    PROVE  TypeOK'
  <1>1. c \in Threads /\ Busy[p] \in States
    BY AttemptFacts DEF Threads
  <1>2. pc' \in [Threads -> Labels]
    BY <1>1, LabelType, GoType DEF LlrBegin, TypeOK
  <1>3. due' \in [Attempts -> Int]
    BY DEF LlrBegin, TypeOK
  <1>4. calls' \in 0..MaxCalls /\ faults' \in 0..MaxFaults
    BY BoundsAssumption DEF LlrBegin, TypeOK, Fault
  <1> QED
    BY <1>1, <1>2, <1>3, <1>4 DEF TypeOK, LlrBegin, kernel, object

LEMMA StopDecisionType ==
    ASSUME TypeOK, NEW c \in Clients, StopDecision(c)
    PROVE  state' \in States /\ pc' \in [Threads -> Labels]
  <1>1. c \in Threads /\ Returned \in Labels
    BY LabelType DEF Threads, Returned
  <1>2. {"SETUP_STOPPING", "STOPPING"} \subseteq States
    BY DEF States, Transient
  <1> QED
    BY <1>1, <1>2, LabelType, GoType, AttemptFacts DEF StopDecision, TypeOK

LEMMA TypeOfCall ==
    ASSUME TypeOK, NEW c \in Clients, ClientCall(c)
    PROVE  TypeOK'
  <1>1. CASE LlrConfigSet(c)
    BY <1>1 DEF TypeOK, LlrConfigSet, States, kernel, object, answer, budget
  <1>2. CASE LlrStop(c)
    BY <1>2, StopDecisionType
       DEF TypeOK, LlrStop, kernel, object, answer, budget
  <1>3. CASE LlrRelease(c)
    BY <1>3, StopDecisionType DEF TypeOK, LlrRelease, kernel, answer, budget
  <1>4. CASE \E p \in Attempts : LlrBegin(c, p)
    BY <1>4, TypeOfBegin
  <1> QED
    BY <1>1, <1>2, <1>3, <1>4 DEF ClientCall

LEMMA TypeOfCancelCmd ==
    ASSUME TypeOK, NEW c \in Clients, NEW p \in Attempts, CancelCmd(c, p)
    PROVE  TypeOK'
  <1>1. c \in Threads
    BY DEF Threads
  <1>2. state' \in States
    BY AttemptFacts DEF CancelCmd, TypeOK
  <1>3. pc' \in [Threads -> Labels] /\ queued' \subseteq Works
    BY <1>1, AttemptFacts, LabelType, GoType, CancelType
       DEF CancelCmd, TypeOK, kernel
  <1>4. due' \in [Attempts -> Int] /\ note' \in Notes
    BY CallbackType DEF CancelCmd, TypeOK, answer
  <1>5. armed' \subseteq Attempts /\ intrOn' \subseteq Attempts
    BY DEF CancelCmd, TypeOK, kernel
  <1> QED
    BY <1>2, <1>3, <1>4, <1>5 DEF TypeOK, CancelCmd, object, budget

LEMMA TypeOfDel ==
    ASSUME TypeOK, NEW c \in Clients, LlrDel(c)
    PROVE  TypeOK'
  <1>1. c \in Threads
    BY DEF Threads
  <1>2. \A w \in DOMAIN DelNext : DelNext[w] \in Works
    BY AttemptFacts DEF DelNext
  <1>3. pc' \in [Threads -> Labels] /\ queued' \subseteq Works
    BY <1>1, <1>2, AttemptFacts, LabelType, GoType, CancelType
       DEF LlrDel, TypeOK, kernel
  <1>4. armed' \subseteq Attempts /\ intrOn' \subseteq Attempts
    BY DEF LlrDel, TypeOK, kernel
  <1> QED
    BY <1>3, <1>4 DEF TypeOK, LlrDel, object, answer, budget

LEMMA TypeOfClientStep ==
    ASSUME TypeOK, NEW c \in Clients, ClientStep(c)
    PROVE  TypeOK'
  <1> USE DEF kernel, object, answer, budget
  <1>1. c \in Threads /\ Returned \in Labels
    BY LabelType DEF Threads, Returned
  <1>2. ASSUME NEW p \in Attempts, CmdStore(c, p)
        PROVE  TypeOK'
    BY <1>1, <1>2, LabelType, GoType DEF TypeOK, CmdStore
  <1>3. ASSUME NEW p \in Attempts, TimerBegin(c, p)
        PROVE  TypeOK'
    BY <1>1, <1>3, LabelType, GoType DEF TypeOK, TimerBegin
  <1>4. ASSUME NEW p \in Attempts, CmdQueue(c, p)
        PROVE  TypeOK'
    BY <1>1, <1>4, LabelType, GoType, QueueType, AttemptFacts
       DEF TypeOK, CmdQueue
  <1>5. ASSUME NEW p \in Attempts, StopCmd(c, p)
        PROVE  TypeOK'
    <2>1. From[p] \in States /\ pc' \in [Threads -> Labels]
      BY <1>1, <1>5, LabelType, GoType, AttemptFacts DEF StopCmd
    <2>2. dataValid' \in BOOLEAN
      BY <1>5 DEF StopCmd
    <2> QED
      BY <1>5, <2>1, <2>2 DEF TypeOK, StopCmd
  <1>6. ASSUME NEW p \in Attempts, StopComplete(c, p)
        PROVE  TypeOK'
    BY <1>1, <1>6, GoType DEF TypeOK, StopComplete
  <1>7. CASE StopWaited(c) \/ StopTimedOut(c)
    BY <1>1, <1>7, GoType DEF TypeOK, StopWaited, StopTimedOut
  <1> QED
    BY <1>2, <1>3, <1>4, <1>5, <1>6, <1>7, TypeOfCancelCmd, TypeOfDel
       DEF ClientStep

-----------------------------------------------------------------------------
(* The steps of the works preserve the types *)

LEMMA TypeOfWork ==
    ASSUME TypeOK, NEW p \in Attempts, AttemptWork(p)
    PROVE  TypeOK'
  <1>1. p \in Threads /\ p \in Works
    BY AttemptFacts DEF Threads
  <1>2. state' \in States
    BY AttemptFacts DEF AttemptWork, TypeOK
  <1>3. pc' \in [Threads -> Labels] /\ queued' \subseteq Works
    BY <1>1, AttemptFacts, LabelType, GoType, CancelType
       DEF AttemptWork, TypeOK, kernel, Take
  <1>4. due' \in [Attempts -> Int] /\ note' \in Notes
    BY CallbackType DEF AttemptWork, TypeOK, answer
  <1>5. armed' \subseteq Attempts /\ intrOn' \subseteq Attempts
    BY DEF AttemptWork, TypeOK, kernel
  <1>6. faults' \in 0..MaxFaults
    BY BoundsAssumption DEF AttemptWork, TypeOK, Fault
  <1>7. stopDone' \in BOOLEAN
    BY DEF AttemptWork, TypeOK
  <1> QED
    BY <1>2, <1>3, <1>4, <1>5, <1>6, <1>7 DEF TypeOK, AttemptWork, object

LEMMA TypeOfIntrWork ==
    ASSUME TypeOK, NEW p \in Attempts, AttemptIntrWork(p)
    PROVE  TypeOK'
  <1>1. IntrWork[p] \in Threads /\ IntrWork[p] \in Works
    BY AttemptFacts DEF Threads
  <1>2. state' \in States
    BY <1>1, AttemptFacts, LabelType, ClaimType DEF AttemptIntrWork, TypeOK
  <1>3. pc' \in [Threads -> Labels] /\ queued' \subseteq Works
    BY <1>1, AttemptFacts, LabelType, GoType, ClaimType
       DEF AttemptIntrWork, TypeOK, kernel, Take
  <1>4. due' \in [Attempts -> Int] /\ note' \in Notes
    BY CallbackType DEF AttemptIntrWork, TypeOK, answer
  <1>5. /\ armed' \subseteq Attempts /\ intrOn' \subseteq Attempts
        /\ dataValid' \in BOOLEAN
    BY DEF AttemptIntrWork, TypeOK, kernel
  <1> QED
    BY <1>2, <1>3, <1>4, <1>5 DEF TypeOK, AttemptIntrWork, budget

LEMMA TypeOfTimeoutWork ==
    ASSUME TypeOK, NEW p \in Attempts, AttemptTimeoutWork(p)
    PROVE  TypeOK'
  <1>1. TimeoutWork[p] \in Threads /\ TimeoutWork[p] \in Works
    BY AttemptFacts DEF Threads
  <1>2. state' \in States
    <2>1. TimedOut[p] \in States /\ From[p] \in States
      BY AttemptFacts
    <2>2. <<"teardown", p>> \in Labels
      BY LabelType
    <2> QED
      BY <1>1, <2>1, <2>2, ClaimType DEF AttemptTimeoutWork, TypeOK, kernel
  <1>3. pc' \in [Threads -> Labels] /\ queued' \subseteq Works
    BY <1>1, AttemptFacts, LabelType, GoType, ClaimType, CancelType
       DEF AttemptTimeoutWork, TypeOK, kernel, Take
  <1>4. due' \in [Attempts -> Int] /\ note' \in Notes
    BY CallbackType DEF AttemptTimeoutWork, TypeOK, answer
  <1>5. /\ armed' \subseteq Attempts /\ intrOn' \subseteq Attempts
        /\ stopDone' \in BOOLEAN
    BY DEF AttemptTimeoutWork, TypeOK, kernel
  <1> QED
    BY <1>2, <1>3, <1>4, <1>5 DEF TypeOK, AttemptTimeoutWork, object, budget

(* Every variable keeps its type, whatever the clients and the bounds are.   *)
THEOREM TypeCorrect == Spec => []TypeOK
  <1>1. Init => TypeOK
    <2>1. Idle \in Labels /\ "NEW" \in States /\ "none" \in Notes
      BY LabelType DEF States, Notes
    <2>2. Init => calls \in 0..MaxCalls /\ faults \in 0..MaxFaults
      BY BoundsAssumption DEF Init
    <2>3. Init => pc \in [Threads -> Labels] /\ due \in [Attempts -> Int]
      BY <2>1 DEF Init
    <2> QED
      BY <2>1, <2>2, <2>3 DEF Init, TypeOK
  <1>2. TypeOK /\ [Next]_vars => TypeOK'
    <2> SUFFICES ASSUME TypeOK, [Next]_vars PROVE TypeOK'
      OBVIOUS
    <2>1. CASE UNCHANGED vars
      BY <2>1 DEF vars, TypeOK
    <2>2. ASSUME NEW c \in Clients, ClientCall(c) \/ ClientStep(c)
          PROVE  TypeOK'
      BY <2>2, TypeOfCall, TypeOfClientStep
    <2>3. ASSUME NEW p \in Attempts, WorkStep(p)
          PROVE  TypeOK'
      BY <2>3, TypeOfWork, TypeOfIntrWork, TypeOfTimeoutWork DEF WorkStep
    <2>4. ASSUME NEW p \in Attempts, TimerExpire(p) \/ IntrFire(p)
          PROVE  TypeOK'
      BY <2>4, TypeOfEnvironment
    <2>5. CASE Gone
      BY <2>1, <2>5 DEF Gone
    <2> QED
      BY <2>1, <2>2, <2>3, <2>4, <2>5 DEF Next
  <1> QED
    BY <1>1, <1>2, PTL DEF Spec


-----------------------------------------------------------------------------
(* One settler: the inductive invariant                                      *)

StopState == [setup |-> "SETUP_STOPPING", start |-> "STOPPING"]

(* The transient state that a settling thread is there to leave *)
Owns(t, s) ==
    \E p \in Attempts :
        \/ /\ t \in Clients
           /\ pc[t] \in {<<"cancel", p>>, <<"wait", p>>,
                         <<"wait", TimeoutWork[p]>>, <<"wait", IntrWork[p]>>}
           /\ s = Canceling[p]
        \/ t \in Clients /\ pc[t] = <<"stop", p>> /\ s = StopState[p]
        \/ /\ t = TimeoutWork[p]
           /\ pc[t] \in {<<"teardown", p>>, <<"wait", p>>,
                         <<"wait", IntrWork[p]>>, <<"cb", p>>, <<"settle", p>>}
           /\ s = TimedOut[p]

(* OneSettler says how many; that the settlers and the state name each other *)
(* is what makes it inductive.                                               *)
SettlerInv ==
    /\ \A t \in Threads : Settling(t) => Owns(t, state)
    /\ \A t, u \in Threads : Settling(t) /\ Settling(u) => t = u
    /\ state \in Transient => \E t \in Threads : Settling(t)

LEMMA OwnsTransient ==
    ASSUME NEW t \in Threads, Owns(t, state)
    PROVE  state \in Transient
  BY DEF Owns, Attempts, Canceling, StopState, TimedOut, Transient

LEMMA Others ==
    ASSUME TypeOK, NEW t \in Threads, NEW l, Go(t, l)
    PROVE  /\ pc'[t] = l
           /\ \A u \in Threads : u # t => pc'[u] = pc[u]
  BY DEF TypeOK, Go

(* What another thread does leaves a thread's part alone. *)
LEMMA OthersSettle ==
    ASSUME TypeOK, NEW t \in Threads, NEW l, Go(t, l),
           NEW u \in Threads, u # t
    PROVE  /\ Settling(u)' <=> Settling(u)
           /\ \A s : Owns(u, s)' <=> Owns(u, s)
  <1>1. pc'[u] = pc[u]
    BY Others
  <1> QED
    BY <1>1 DEF Settling, Owns, At

(* A step that leaves the state alone and whose thread stays what it is *)
LEMMA KeepInv ==
    ASSUME TypeOK, SettlerInv, NEW t \in Threads, NEW l, Go(t, l),
           state' = state, Settling(t)' <=> Settling(t),
           Settling(t)' => Owns(t, state)'
    PROVE  SettlerInv'
  <1>1. \A u \in Threads : Settling(u)' <=> Settling(u)
    BY OthersSettle
  <1>2. \A u \in Threads : Settling(u)' => Owns(u, state)'
    BY OthersSettle DEF SettlerInv
  <1> QED
    BY <1>1, <1>2 DEF SettlerInv

(* A step that makes its thread the settler of a state without one *)
LEMMA TakeInv ==
    ASSUME TypeOK, SettlerInv, NEW t \in Threads, NEW l, Go(t, l),
           state \notin Transient, Settling(t)', Owns(t, state)'
    PROVE  SettlerInv'
  <1>1. \A u \in Threads : ~Settling(u)
    BY OwnsTransient DEF SettlerInv
  <1>2. \A u \in Threads : Settling(u)' => u = t
    BY <1>1, OthersSettle
  <1> QED
    BY <1>2 DEF SettlerInv

(* A step of the settler, or of a state without one, that leads to a state   *)
(* which needs none                                                          *)
LEMMA ReleaseInv ==
    ASSUME TypeOK, SettlerInv, NEW t \in Threads, NEW l, Go(t, l),
           Settling(t) \/ state \notin Transient,
           ~Settling(t)', state' \notin Transient
    PROVE  SettlerInv'
  <1>1. \A u \in Threads : u # t => ~Settling(u)
    BY OwnsTransient DEF SettlerInv
  <1>2. \A u \in Threads : ~Settling(u)'
    BY <1>1, OthersSettle
  <1> QED
    BY <1>2 DEF SettlerInv

(* A step that moves no thread *)
LEMMA NoThreadInv ==
    ASSUME SettlerInv, UNCHANGED pc,
           \/ state' = state
           \/ state \notin Transient /\ state' \notin Transient
    PROVE  SettlerInv'
  <1>1. \A u \in Threads : Settling(u)' <=> Settling(u)
    BY DEF Settling, At
  <1>2. \A u \in Threads : \A s : Owns(u, s)' <=> Owns(u, s)
    BY DEF Owns
  <1>3. CASE state' = state
    BY <1>1, <1>2, <1>3 DEF SettlerInv
  <1>4. CASE state \notin Transient /\ state' \notin Transient
    BY <1>1, <1>2, <1>4, OwnsTransient DEF SettlerInv
  <1> QED
    BY <1>3, <1>4

-----------------------------------------------------------------------------
(* The states, sorted *)
LEMMA StateFacts ==
    /\ \A p \in Attempts :
          /\ From[p] \notin Transient /\ Busy[p] \notin Transient
          /\ Done[p] \notin Transient
          /\ TimedOut[p] \in Transient /\ Canceling[p] \in Transient
    /\ {"NEW", "CONFIGURED", "SETUP", "RUNNING"} \cap Transient = {}
  BY DEF Attempts, From, Busy, Done, TimedOut, Canceling, Transient

(* The steps that no settler takes *)
LEMMA ThreadFacts ==
    /\ Clients \subseteq Threads /\ Works \subseteq Threads
    /\ \A c \in Clients, p \in Attempts :
          c # p /\ c # TimeoutWork[p] /\ c # IntrWork[p]
    /\ \A p, q \in Attempts :
          /\ p # TimeoutWork[q] /\ p # IntrWork[q]
          /\ IntrWork[p] # TimeoutWork[q]
          /\ TimeoutWork[p] = TimeoutWork[q] => p = q
          /\ IntrWork[p] = IntrWork[q] => p = q
  BY ClientsAssumption DEF Threads, Attempts, Works, TimeoutWork, IntrWork

(* Only clients and timeout works settle. *)
LEMMA WorkSettlesNot ==
    ASSUME SettlerInv, NEW p \in Attempts
    PROVE  ~Settling(p) /\ ~Settling(IntrWork[p])
  <1>1. p \in Threads /\ IntrWork[p] \in Threads
    BY AttemptFacts, ThreadFacts
  <1>2. \A s : ~Owns(p, s) /\ ~Owns(IntrWork[p], s)
    BY ThreadFacts, AttemptFacts DEF Owns
  <1> QED
    BY <1>1, <1>2 DEF SettlerInv

LEMMA SettlerOfBegin ==
    ASSUME TypeOK, SettlerInv, MaxFaults = 0,
           NEW c \in Clients, NEW p \in Attempts, LlrBegin(c, p)
    PROVE  SettlerInv'
  <1>1. Go(c, <<"store", p>>)
    BY DEF LlrBegin, Fault, TypeOK
  <1>2. ~Settling(c)'
    BY <1>1, Others, ThreadFacts DEF Settling, At
  <1> QED
    BY <1>1, <1>2, StateFacts, ThreadFacts, ReleaseInv DEF LlrBegin

LEMMA SettlerOfDecision ==
    ASSUME TypeOK, SettlerInv, NEW c \in Clients,
           pc[c] = Idle, StopDecision(c)
    PROVE  SettlerInv'
  <1>1. c \in Threads /\ ~Settling(c)
    BY ThreadFacts DEF Settling, At, Idle
  <1>2. ASSUME NEW l, Go(c, l), state' = state,
               l \in {Idle, <<"del", "none">>, <<"stop_wait", "none">>}
        PROVE  SettlerInv'
    <2>1. ~Settling(c)'
      BY <1>1, <1>2, Others DEF Settling, At, Idle
    <2> QED
      BY <1>1, <1>2, <2>1, KeepInv
  <1>3. Returned \in {Idle, <<"del", "none">>}
    BY DEF Returned
  <1>4. ASSUME NEW p \in Attempts, state = Busy[p], state' = Canceling[p],
               Go(c, <<"cancel", p>>)
        PROVE  SettlerInv'
    <2>1. Settling(c)' /\ Owns(c, state)'
      BY <1>1, <1>4, Others DEF Settling, Owns, At
    <2> QED
      BY <1>1, <1>4, <2>1, StateFacts, TakeInv
  <1>5. ASSUME NEW p \in Attempts, state \in {"SETUP", "RUNNING"},
               state' = StopState[p], Go(c, <<"stop", p>>)
        PROVE  SettlerInv'
    <2>1. Settling(c)' /\ Owns(c, state)'
      BY <1>1, <1>5, Others DEF Settling, Owns, At
    <2> QED
      BY <1>1, <1>5, <2>1, StateFacts, TakeInv
  <1> QED
    BY <1>2, <1>3, <1>4, <1>5 DEF StopDecision, StopState, Attempts

LEMMA SettlerOfCall ==
    ASSUME TypeOK, SettlerInv, MaxFaults = 0, NEW c \in Clients, ClientCall(c)
    PROVE  SettlerInv'
  <1>1. CASE LlrConfigSet(c)
    BY <1>1, StateFacts, NoThreadInv DEF LlrConfigSet
  <1>2. CASE LlrStop(c) \/ LlrRelease(c)
    BY <1>2, SettlerOfDecision DEF LlrStop, LlrRelease, Calling
  <1>3. CASE \E p \in Attempts : LlrBegin(c, p)
    BY <1>3, SettlerOfBegin
  <1> QED
    BY <1>1, <1>2, <1>3 DEF ClientCall

LEMMA SettlerOfCancelCmd ==
    ASSUME TypeOK, SettlerInv, NEW c \in Clients, NEW p \in Attempts,
           CancelCmd(c, p)
    PROVE  SettlerInv'
  <1>1. c \in Threads
    BY ThreadFacts
  <1>2. ASSUME NEW w \in {p, TimeoutWork[p], IntrWork[p]},
               pc[c] \in {<<"cancel", p>>, <<"wait", p>>,
                          <<"wait", TimeoutWork[p]>>},
               Go(c, <<"wait", w>>), state' = state
        PROVE  SettlerInv'
    <2>1. Settling(c)
      BY <1>2, AttemptFacts DEF Settling, At
    <2>2. state = Canceling[p]
      BY <1>1, <1>2, <2>1, ThreadFacts, AttemptFacts DEF SettlerInv, Owns
    <2>3. Settling(c)' /\ Owns(c, state)'
      BY <1>1, <1>2, <2>2, Others, AttemptFacts DEF Settling, Owns, At
    <2> QED
      BY <1>1, <1>2, <2>1, <2>3, KeepInv
  <1>3. ASSUME Waited(c, "wait", IntrWork[p]), state' = From[p],
               Go(c, <<"cb", p>>)
        PROVE  SettlerInv'
    <2>1. Settling(c) /\ ~Settling(c)'
      BY <1>1, <1>3, Others, AttemptFacts, ThreadFacts
         DEF Settling, At, Waited
    <2> QED
      BY <1>1, <1>3, <2>1, StateFacts, ReleaseInv
  <1>4. ASSUME At(c, "cb", p), Go(c, <<"complete", p>>), state' = state
        PROVE  SettlerInv'
    <2>1. ~Settling(c) /\ ~Settling(c)'
      BY <1>1, <1>4, Others, ThreadFacts DEF Settling, At
    <2> QED
      BY <1>1, <1>4, <2>1, KeepInv
  <1> QED
    BY <1>2, <1>3, <1>4 DEF CancelCmd, Cancel, Waited, At

LEMMA SettlerOfClientStep ==
    ASSUME TypeOK, SettlerInv, NEW c \in Clients, ClientStep(c)
    PROVE  SettlerInv'
  <1>1. c \in Threads
    BY ThreadFacts
  <1>2. ASSUME NEW l, Go(c, l), state' = state, ~Settling(c), ~Settling(c)'
        PROVE  SettlerInv'
    BY <1>1, <1>2, KeepInv
  <1>3. Returned \in {Idle, <<"del", "none">>}
    BY DEF Returned
  <1>4. ASSUME NEW p \in Attempts,
               CmdStore(c, p) \/ TimerBegin(c, p) \/ CmdQueue(c, p)
                   \/ StopComplete(c, p)
        PROVE  SettlerInv'
    <2>1. PICK l \in {<<"arm", p>>, <<"queue", p>>, Idle, <<"del", "none">>} :
             Go(c, l)
      BY <1>3, <1>4 DEF CmdStore, TimerBegin, CmdQueue, StopComplete
    <2>2. ~Settling(c) /\ state' = state
      BY <1>1, <1>4, ThreadFacts
         DEF CmdStore, TimerBegin, CmdQueue, StopComplete, Settling, At
    <2>3. ~Settling(c)'
      BY <1>1, <2>1, Others, ThreadFacts DEF Settling, At, Idle
    <2> QED
      BY <1>2, <2>1, <2>2, <2>3
  <1>5. ASSUME NEW p \in Attempts, StopCmd(c, p)
        PROVE  SettlerInv'
    <2>1. Settling(c) /\ Go(c, <<"complete", p>>)
      BY <1>5 DEF StopCmd, Settling, At
    <2>2. ~Settling(c)'
      BY <1>1, <2>1, Others, ThreadFacts DEF Settling, At
    <2>3. state' = From[p]
      BY <1>5 DEF StopCmd
    <2> QED
      BY <1>1, <2>1, <2>2, <2>3, StateFacts, ReleaseInv
  <1>6. CASE StopWaited(c) \/ StopTimedOut(c)
    <2>1. PICK l \in {Idle, <<"del", "none">>} : Go(c, l)
      BY <1>3, <1>6 DEF StopWaited, StopTimedOut
    <2>2. ~Settling(c) /\ state' = state
      BY <1>1, <1>6 DEF StopWaited, StopTimedOut, Settling, At
    <2>3. ~Settling(c)'
      BY <1>1, <2>1, Others DEF Settling, At, Idle
    <2> QED
      BY <1>2, <2>1, <2>2, <2>3
  <1>7. CASE LlrDel(c)
    <2>1. ~Settling(c) /\ state' = state
      BY <1>1, <1>7 DEF LlrDel, Waited, Settling, At
    <2>2. CASE Go(c, <<"freed", "none">>)
      <3>1. ~Settling(c)'
        BY <1>1, <2>2, Others DEF Settling, At
      <3> QED
        BY <1>2, <2>1, <2>2, <3>1
    <2>3. ASSUME NEW w \in Works, Go(c, <<"del", w>>)
          PROVE  SettlerInv'
      <3>1. ~Settling(c)'
        BY <1>1, <2>3, Others DEF Settling, At
      <3> QED
        BY <1>2, <2>1, <2>3, <3>1
    <2>4. \A w \in DOMAIN DelNext : DelNext[w] \in Works
      BY AttemptFacts DEF DelNext
    <2> QED
      BY <1>7, <2>2, <2>3, <2>4, AttemptFacts DEF LlrDel, Cancel
  <1> QED
    BY <1>4, <1>5, <1>6, <1>7, SettlerOfCancelCmd DEF ClientStep

LEMMA SettlerOfWork ==
    ASSUME TypeOK, SettlerInv, MaxFaults = 0,
           NEW p \in Attempts, AttemptWork(p)
    PROVE  SettlerInv'
  <1>1. p \in Threads /\ ~Settling(p)
    BY AttemptFacts, ThreadFacts, WorkSettlesNot
  <1>2. ~At(p, "fail", p) /\ ~Waited(p, "wait", IntrWork[p])
    BY <1>1, AttemptFacts DEF Settling, Waited, At
  <1>3. ~Fault
    BY DEF Fault, TypeOK
  <1>4. state' = state
    BY <1>2 DEF AttemptWork
  <1>5. PICK l \in {<<"enable", p>>, <<"complete", p>>, Idle} : Go(p, l)
    BY <1>2, <1>3 DEF AttemptWork
  <1>6. ~Settling(p)'
    BY <1>1, <1>5, Others, ThreadFacts DEF Settling, At, Idle
  <1> QED
    BY <1>1, <1>4, <1>5, <1>6, KeepInv

LEMMA SettlerOfIntrWork ==
    ASSUME TypeOK, SettlerInv, NEW p \in Attempts, AttemptIntrWork(p)
    PROVE  SettlerInv'
  <1> DEFINE w == IntrWork[p]
  <1>1. w \in Threads /\ ~Settling(w)
    BY AttemptFacts, ThreadFacts, WorkSettlesNot
  <1>2. PICK l \in {<<"check", p>>, <<"disarm", p>>, <<"publish", p>>,
                    <<"cb", p>>, Idle} : Go(w, l)
    BY DEF AttemptIntrWork, Claim
  <1>3. ~Settling(w)'
    BY <1>1, <1>2, Others, ThreadFacts DEF Settling, At, Idle
  <1>4. \/ state' = state
        \/ state = Busy[p] /\ state' = Done[p]
    BY DEF AttemptIntrWork, Claim
  <1> QED
    BY <1>1, <1>2, <1>3, <1>4, StateFacts, KeepInv, ReleaseInv

LEMMA SettlerOfTimeoutWork ==
    ASSUME TypeOK, SettlerInv, NEW p \in Attempts, AttemptTimeoutWork(p)
    PROVE  SettlerInv'
  <1> DEFINE w == TimeoutWork[p]
  <1>1. w \in Threads
    BY AttemptFacts, ThreadFacts
  <1>2. CASE Take(w) /\ Claim(w, p, TimedOut[p], <<"teardown", p>>)
    <2>1. ~Settling(w)
      BY <1>1, <1>2 DEF Take, Settling, At, Idle
    <2>2. CASE state = Busy[p]
      <3>1. state' = TimedOut[p] /\ Go(w, <<"teardown", p>>)
        BY <1>2, <2>2 DEF Claim
      <3>2. Settling(w)' /\ Owns(w, state)'
        BY <1>1, <3>1, Others DEF Settling, Owns, At
      <3> QED
        BY <1>1, <2>2, <3>1, <3>2, StateFacts, TakeInv
    <2>3. CASE state # Busy[p]
      <3>1. state' = state /\ Go(w, Idle)
        BY <1>2, <2>3 DEF Claim
      <3>2. ~Settling(w)'
        BY <1>1, <3>1, Others DEF Settling, At, Idle
      <3> QED
        BY <1>1, <2>1, <3>1, <3>2, KeepInv
    <2> QED
      BY <2>2, <2>3
  <1>3. ASSUME NEW l \in {<<"wait", p>>, <<"wait", IntrWork[p]>>,
                          <<"cb", p>>, <<"settle", p>>},
               pc[w] \in {<<"teardown", p>>, <<"wait", p>>,
                          <<"wait", IntrWork[p]>>, <<"cb", p>>},
               Go(w, l), state' = state
        PROVE  SettlerInv'
    <2>1. Settling(w)
      BY <1>3, AttemptFacts DEF Settling, At
    <2>2. state = TimedOut[p]
      BY <1>1, <2>1, ThreadFacts, AttemptFacts DEF SettlerInv, Owns
    <2>3. Settling(w)' /\ Owns(w, state)'
      BY <1>1, <1>3, <2>2, Others, AttemptFacts DEF Settling, Owns, At
    <2> QED
      BY <1>1, <1>3, <2>1, <2>3, KeepInv
  <1>4. CASE At(w, "settle", p) /\ state' = From[p] /\ Go(w, <<"complete", p>>)
    <2>1. Settling(w) /\ ~Settling(w)'
      BY <1>1, <1>4, Others DEF Settling, At
    <2> QED
      BY <1>1, <1>4, <2>1, StateFacts, ReleaseInv
  <1>5. CASE At(w, "complete", p) /\ state' = state /\ Go(w, Idle)
    <2>1. ~Settling(w) /\ ~Settling(w)'
      BY <1>1, <1>5, Others DEF Settling, At, Idle
    <2> QED
      BY <1>1, <1>5, <2>1, KeepInv
  <1> QED
    BY <1>2, <1>3, <1>4, <1>5 DEF AttemptTimeoutWork, Cancel, Waited, At

(* No interleaving of any number of clients with the works, the timers and   *)
(* the interrupts gives a transient state two settlers or none.              *)
THEOREM SettlersUnique ==
    ASSUME MaxFaults = 0
    PROVE  Spec => []SettlerInv
  <1>1. Init => SettlerInv
    BY StateFacts DEF Init, SettlerInv, Settling, At, Idle
  <1>2. TypeOK /\ SettlerInv /\ [Next]_vars => SettlerInv'
    <2> SUFFICES ASSUME TypeOK, SettlerInv, [Next]_vars PROVE SettlerInv'
      OBVIOUS
    <2>1. CASE UNCHANGED vars
      BY <2>1, NoThreadInv DEF vars
    <2>2. ASSUME NEW c \in Clients, ClientCall(c) \/ ClientStep(c)
          PROVE  SettlerInv'
      BY <2>2, SettlerOfCall, SettlerOfClientStep
    <2>3. ASSUME NEW p \in Attempts, WorkStep(p)
          PROVE  SettlerInv'
      BY <2>3, SettlerOfWork, SettlerOfIntrWork, SettlerOfTimeoutWork
         DEF WorkStep
    <2>4. ASSUME NEW p \in Attempts, TimerExpire(p) \/ IntrFire(p)
          PROVE  SettlerInv'
      BY <2>4, NoThreadInv DEF TimerExpire, IntrFire
    <2>5. CASE Gone
      BY <2>1, <2>5 DEF Gone
    <2> QED
      BY <2>1, <2>2, <2>3, <2>4, <2>5 DEF Next
  <1> QED
    BY <1>1, <1>2, TypeCorrect, PTL DEF Spec

LEMMA InvCounts ==
    ASSUME SettlerInv
    PROVE  OneSettler
  <1> DEFINE S == {t \in Threads : Settling(t)}
  <1>1. CASE state \in Transient
    <2>1. PICK t \in Threads : Settling(t)
      BY <1>1 DEF SettlerInv
    <2>2. S = {t}
      BY <2>1 DEF SettlerInv
    <2> QED
      BY <1>1, <2>2, FS_Singleton DEF OneSettler
  <1>2. CASE state \notin Transient
    <2>1. S = {}
      BY <1>2, OwnsTransient DEF SettlerInv
    <2> QED
      BY <1>2, <2>1, FS_EmptySet DEF OneSettler
  <1> QED
    BY <1>1, <1>2

(* A transient state has exactly one thread that will leave it, and no       *)
(* other state has any: nobody overwrites the attempt that came after it.    *)
THEOREM OneSettlerAlways ==
    ASSUME MaxFaults = 0
    PROVE  Spec => []OneSettler
  BY SettlersUnique, InvCounts, PTL

-----------------------------------------------------------------------------
(* No state past the setup without the data of its measurement               *)

Before == {"CONFIGURED", "SETTING_UP", "SETUP_TIMEOUT", "SETUP_CANCELING"}
Past   == {"SETUP", "STARTING", "START_TIMEOUT", "START_CANCELING", "RUNNING",
           "STOPPING"}

(* The work that measures is never overtaken: only itself leads past Before. *)
DataInv ==
    /\ state \in Past => dataValid
    /\ pc["loop_time"] \in {<<"check", "setup">>, <<"disarm", "setup">>,
                            <<"publish", "setup">>} => state \in Before
    /\ pc["loop_time"] \in {<<"disarm", "setup">>, <<"publish", "setup">>}
           => dataValid

(* What any other step does to the data and to the state *)
Aside ==
    /\ dataValid' = dataValid
    /\ pc'["loop_time"] = pc["loop_time"]
    /\ state \in Before => state' \in Before
    /\ state' \in Past => state \in Past

LEMMA AsideKeeps ==
    ASSUME DataInv, Aside
    PROVE  DataInv'
  BY DEF DataInv, Aside

(* A thread that is not the measuring work leaves its label alone. *)
LEMMA LoopTimeStays ==
    ASSUME TypeOK, NEW t \in Threads, t # "loop_time", NEW l, Go(t, l)
    PROVE  pc'["loop_time"] = pc["loop_time"]
  BY Others, ThreadFacts, AttemptFacts

LEMMA ClientNotLoopTime ==
    ASSUME NEW c \in Clients
    PROVE  c \in Threads /\ c # "loop_time"
  BY ThreadFacts DEF Attempts, IntrWork

LEMMA DataOfCall ==
    ASSUME TypeOK, DataInv, MaxFaults = 0, NEW c \in Clients, ClientCall(c)
    PROVE  DataInv'
  <1>1. c \in Threads /\ c # "loop_time"
    BY ClientNotLoopTime
  <1>2. dataValid' = dataValid
    BY DEF ClientCall, LlrConfigSet, LlrStop, LlrRelease, LlrBegin, object
  <1>3. pc' = pc \/ \E l : Go(c, l)
    BY DEF ClientCall, LlrConfigSet, LlrStop, LlrRelease, LlrBegin,
           StopDecision
  <1>4. pc'["loop_time"] = pc["loop_time"]
    BY <1>1, <1>3, LoopTimeStays
  <1>5. /\ state \in Before => state' \in Before
        /\ state' \in Past => state \in Past
    BY DEF ClientCall, LlrConfigSet, LlrStop, LlrRelease, LlrBegin,
           StopDecision, Attempts, From, Busy, Canceling, Before, Past
  <1> QED
    BY <1>2, <1>4, <1>5, AsideKeeps DEF Aside

LEMMA DataOfStopCmd ==
    ASSUME TypeOK, SettlerInv, DataInv,
           NEW c \in Clients, NEW p \in Attempts, StopCmd(c, p)
    PROVE  DataInv'
  <1>1. c \in Threads /\ c # "loop_time"
    BY ClientNotLoopTime
  <1>2. state = StopState[p]
    <2>1. Settling(c) /\ pc[c] = <<"stop", p>>
      BY DEF StopCmd, Settling, At
    <2> QED
      BY <1>1, <2>1, ThreadFacts DEF SettlerInv, Owns
  <1>3. pc'["loop_time"] = pc["loop_time"]
    BY <1>1, LoopTimeStays DEF StopCmd
  <1>4. CASE p = "setup"
    BY <1>2, <1>3, <1>4
       DEF DataInv, StopCmd, StopState, From, Before, Past
  <1>5. CASE p = "start"
    <2>1. dataValid' = dataValid
      BY <1>5 DEF StopCmd, TypeOK
    <2> QED
      BY <1>2, <1>3, <1>5, <2>1, AsideKeeps
         DEF Aside, StopCmd, StopState, From, Before, Past
  <1> QED
    BY <1>4, <1>5 DEF Attempts

LEMMA DataOfCancelCmd ==
    ASSUME TypeOK, SettlerInv, DataInv,
           NEW c \in Clients, NEW p \in Attempts, CancelCmd(c, p)
    PROVE  DataInv'
  <1>1. c \in Threads /\ c # "loop_time"
    BY ClientNotLoopTime
  <1>2. pc'["loop_time"] = pc["loop_time"] /\ dataValid' = dataValid
    BY <1>1, LoopTimeStays DEF CancelCmd, Cancel, object
  <1>3. ASSUME state' # state
        PROVE  state = Canceling[p] /\ state' = From[p]
    <2>1. Waited(c, "wait", IntrWork[p]) /\ state' = From[p]
      BY <1>3 DEF CancelCmd
    <2>2. Settling(c)
      BY <2>1, AttemptFacts DEF Settling, Waited, At
    <2> QED
      BY <1>1, <2>1, <2>2, ThreadFacts, AttemptFacts
         DEF SettlerInv, Owns, Waited, At
  <1> QED
    BY <1>2, <1>3, AsideKeeps
       DEF Aside, Attempts, Canceling, From, Before, Past

LEMMA DataOfClientStep ==
    ASSUME TypeOK, SettlerInv, DataInv, NEW c \in Clients, ClientStep(c)
    PROVE  DataInv'
  <1>1. c \in Threads /\ c # "loop_time"
    BY ClientNotLoopTime
  <1>2. ASSUME NEW p \in Attempts,
               CmdStore(c, p) \/ TimerBegin(c, p) \/ CmdQueue(c, p)
                   \/ StopComplete(c, p)
        PROVE  DataInv'
    <2>1. pc'["loop_time"] = pc["loop_time"]
      BY <1>1, <1>2, LoopTimeStays
         DEF CmdStore, TimerBegin, CmdQueue, StopComplete
    <2> QED
      BY <1>2, <2>1, AsideKeeps
         DEF Aside, CmdStore, TimerBegin, CmdQueue, StopComplete, object
  <1>3. CASE StopWaited(c) \/ StopTimedOut(c) \/ LlrDel(c)
    <2>1. pc'["loop_time"] = pc["loop_time"]
      BY <1>1, <1>3, LoopTimeStays
         DEF StopWaited, StopTimedOut, LlrDel, Cancel
    <2> QED
      BY <1>3, <2>1, AsideKeeps
         DEF Aside, StopWaited, StopTimedOut, LlrDel, object
  <1> QED
    BY <1>2, <1>3, DataOfStopCmd, DataOfCancelCmd DEF ClientStep

LEMMA DataOfWork ==
    ASSUME TypeOK, SettlerInv, DataInv, MaxFaults = 0,
           NEW p \in Attempts, AttemptWork(p)
    PROVE  DataInv'
  <1>1. p \in Threads /\ ~Settling(p) /\ p # "loop_time"
    BY AttemptFacts, ThreadFacts, WorkSettlesNot
  <1>2. ~At(p, "fail", p) /\ ~Waited(p, "wait", IntrWork[p])
    BY <1>1, AttemptFacts DEF Settling, Waited, At
  <1>3. pc'["loop_time"] = pc["loop_time"]
    BY <1>1, LoopTimeStays DEF AttemptWork, Cancel
  <1>4. state' = state /\ dataValid' = dataValid
    BY <1>2 DEF AttemptWork, object
  <1> QED
    BY <1>3, <1>4, AsideKeeps DEF Aside

LEMMA DataOfIntrWork ==
    ASSUME TypeOK, DataInv, NEW p \in Attempts, AttemptIntrWork(p)
    PROVE  DataInv'
  <1> DEFINE w == IntrWork[p]
  <1>1. w \in Threads
    BY AttemptFacts, ThreadFacts
  <1>2. CASE p = "start"
    <2>1. w # "loop_time"
      BY <1>2 DEF IntrWork
    <2>2. pc'["loop_time"] = pc["loop_time"]
      BY <1>1, <2>1, LoopTimeStays DEF AttemptIntrWork, Claim
    <2>3. dataValid' = dataValid
      BY <1>2 DEF AttemptIntrWork, TypeOK
    <2>4. \/ state' = state
          \/ state = "STARTING" /\ state' = "RUNNING"
      BY <1>2 DEF AttemptIntrWork, Claim, Busy, Done
    <2> QED
      BY <2>2, <2>3, <2>4, AsideKeeps DEF Aside, Before, Past
  <1>3. CASE p = "setup"
    <2>1. w = "loop_time"
      BY <1>3 DEF IntrWork
    <2>2. CASE Take(w)
      BY <1>1, <1>3, <2>1, <2>2, Others
         DEF AttemptIntrWork, Take, At, Idle, DataInv, Busy, Before, Past
    <2>3. CASE At(w, "check", p)
      <3>1. state' = state
        BY <2>3 DEF AttemptIntrWork, Take, At, Idle
      <3>2. \/ Go(w, Idle) /\ dataValid' = dataValid
            \/ Go(w, <<"disarm", p>>) /\ dataValid'
        <4>1. pc[w] # Idle /\ ~At(w, "disarm", p) /\ ~At(w, "publish", p)
                  /\ ~At(w, "cb", p)
          BY <2>3 DEF At, Idle
        <4>2. IF state \in ShouldStop[p]
              THEN Go(w, Idle) /\ UNCHANGED dataValid
              ELSE Go(w, <<"disarm", p>>) /\ dataValid' = (dataValid \/ p = "setup")
          BY <4>1, Zenon DEF AttemptIntrWork, Take
        <4> QED
          BY <1>3, <4>2, Zenon
      <3>3. state \in Before
        BY <1>3, <2>1, <2>3 DEF DataInv, At
      <3>4. CASE Go(w, Idle) /\ dataValid' = dataValid
        BY <1>1, <2>1, <3>1, <3>4, Others DEF DataInv, Idle
      <3>5. CASE Go(w, <<"disarm", p>>) /\ dataValid'
        BY <1>1, <2>1, <3>1, <3>3, <3>5, Others DEF DataInv
      <3> QED
        BY <3>2, <3>4, <3>5
    <2>4. CASE At(w, "disarm", p)
      BY <1>1, <1>3, <2>1, <2>4, Others
         DEF AttemptIntrWork, Take, At, Idle, DataInv
    <2>5. CASE At(w, "publish", p)
      BY <1>1, <1>3, <2>1, <2>5, Others
         DEF AttemptIntrWork, Take, At, Idle, DataInv, Claim, Busy, Done
    <2>6. CASE At(w, "cb", p)
      BY <1>1, <1>3, <2>1, <2>6, Others
         DEF AttemptIntrWork, Take, At, Idle, DataInv
    <2> QED
      BY <2>2, <2>3, <2>4, <2>5, <2>6 DEF AttemptIntrWork
  <1> QED
    BY <1>2, <1>3 DEF Attempts

LEMMA DataOfTimeoutWork ==
    ASSUME TypeOK, SettlerInv, DataInv,
           NEW p \in Attempts, AttemptTimeoutWork(p)
    PROVE  DataInv'
  <1> DEFINE w == TimeoutWork[p]
  <1>1. w \in Threads /\ w # "loop_time"
    BY AttemptFacts, ThreadFacts DEF Attempts, TimeoutWork
  <1>2. pc'["loop_time"] = pc["loop_time"] /\ dataValid' = dataValid
    BY <1>1, LoopTimeStays DEF AttemptTimeoutWork, Claim, Cancel, object
  <1>3. \/ state' = state
        \/ state = Busy[p] /\ state' = TimedOut[p]
        \/ At(w, "settle", p) /\ state' = From[p]
    BY DEF AttemptTimeoutWork, Claim
  <1>4. ASSUME At(w, "settle", p)
        PROVE  state = TimedOut[p]
    <2>1. Settling(w)
      BY <1>4 DEF Settling, At
    <2> QED
      BY <1>1, <1>4, <2>1, ThreadFacts DEF SettlerInv, Owns, At
  <1> QED
    BY <1>2, <1>3, <1>4, AsideKeeps
       DEF Aside, Attempts, Busy, TimedOut, From, Before, Past

(* An LLR that is set up has the data of its own measurement: no late work   *)
(* of an earlier attempt, no cancel and no stop leads past SETUP without it. *)
THEOREM SetupHasDataAlways ==
    ASSUME MaxFaults = 0
    PROVE  Spec => []SetupHasData
  <1>1. Init => DataInv
    BY ThreadFacts, AttemptFacts DEF Init, DataInv, Past, Idle
  <1>2. TypeOK /\ SettlerInv /\ DataInv /\ [Next]_vars => DataInv'
    <2> SUFFICES ASSUME TypeOK, SettlerInv, DataInv, [Next]_vars
                 PROVE  DataInv'
      OBVIOUS
    <2>1. CASE UNCHANGED vars
      BY <2>1 DEF vars, DataInv
    <2>2. ASSUME NEW c \in Clients, ClientCall(c) \/ ClientStep(c)
          PROVE  DataInv'
      BY <2>2, DataOfCall, DataOfClientStep
    <2>3. ASSUME NEW p \in Attempts, WorkStep(p)
          PROVE  DataInv'
      BY <2>3, DataOfWork, DataOfIntrWork, DataOfTimeoutWork DEF WorkStep
    <2>4. ASSUME NEW p \in Attempts, TimerExpire(p) \/ IntrFire(p)
          PROVE  DataInv'
      BY <2>4, AsideKeeps DEF Aside, TimerExpire, IntrFire, object
    <2>5. CASE Gone
      BY <2>1, <2>5 DEF Gone
    <2> QED
      BY <2>1, <2>2, <2>3, <2>4, <2>5 DEF Next
  <1>3. DataInv => SetupHasData
    BY DEF DataInv, SetupHasData, Past
  <1> QED
    BY <1>1, <1>2, <1>3, TypeCorrect, SettlersUnique, PTL DEF Spec

-----------------------------------------------------------------------------
(* Nothing points to an LLR that is freed                                    *)

Still(w) == w \notin queued /\ pc[w] = Idle

(* The works that the deletion has cancelled before it cancels this one *)
CancelledBefore == [setup         |-> {},
                    setup_timeout |-> {"setup"},
                    start         |-> {"setup", "setup_timeout"},
                    start_timeout |-> {"setup", "setup_timeout", "start"},
                    loop_time     |-> {"setup", "setup_timeout", "start",
                                       "start_timeout"},
                    init_complete |-> {"setup", "setup_timeout", "start",
                                       "start_timeout", "loop_time"}]

(* What the deletion has cut off when it waits for the work w: what was      *)
(* cancelled stays still, because its sources went first.                    *)
CutOff(w) ==
    /\ armed = {} /\ w \notin queued
    /\ \A v \in CancelledBefore[w] : Still(v)
    /\ w \in {"loop_time", "init_complete"} => intrOn = {}

Quiet == /\ queued = {} /\ armed = {} /\ intrOn = {}
         /\ \A w \in Works : pc[w] = Idle

(* The steps of the thread that releases the LLR, and those of clients that  *)
(* nothing is deleted under                                                  *)
Leaving == {Idle, <<"stop_wait", "none">>, <<"del", "none">>, <<"freed", "none">>}
               \cup ({"cancel", "stop", "cb", "complete"} \X Attempts)
               \cup ({"wait", "del"} \X Works)

Deleting == {<<"del", "none">>, <<"freed", "none">>} \cup ({"del"} \X Works)

DelInv ==
    \A c \in Clients :
        /\ deleting => pc[c] \in Leaving
        /\ ~deleting => pc[c] \notin Deleting
        /\ \A w \in Works : pc[c] = <<"del", w>> => CutOff(w)
        /\ pc[c] = <<"freed", "none">> => Quiet

(* What a step may do while the LLR is deleted: a timer, an attempt, an      *)
(* interrupt and a work that are cut off from their sources stay so.         *)
Wanes ==
    /\ armed' \subseteq armed
    /\ \A p \in Attempts :
          /\ p \notin queued => p \notin queued'
          /\ armed = {} /\ TimeoutWork[p] \notin queued => TimeoutWork[p] \notin queued'
          /\ intrOn = {} /\ IntrWork[p] \notin queued => IntrWork[p] \notin queued'
    /\ \A w \in Works : Still(w) => pc'[w] = Idle
    /\ intrOn = {} /\ (\A p \in Attempts : Still(p)) => intrOn' = {}

LEMMA CutOffStays ==
    ASSUME Wanes, NEW w \in Works, CutOff(w)
    PROVE  CutOff(w)'
  <1>1. /\ Attempts = {"setup", "start"}
        /\ TimeoutWork["setup"] = "setup_timeout" /\ IntrWork["setup"] = "loop_time"
        /\ TimeoutWork["start"] = "start_timeout" /\ IntrWork["start"] = "init_complete"
        /\ Works = {"setup", "start", "setup_timeout", "start_timeout",
                    "loop_time", "init_complete"}
    BY AttemptFacts DEF TimeoutWork, IntrWork
  <1>2. armed' = {}
    BY DEF Wanes, CutOff
  <1>3. /\ \A v \in Works \ {"loop_time", "init_complete"} :
              v \notin queued => v \notin queued'
        /\ intrOn = {} => \A v \in Works : v \notin queued => v \notin queued'
    BY <1>1 DEF Wanes, CutOff
  <1>4. CancelledBefore[w] \subseteq Works
        /\ (w \notin {"loop_time", "init_complete"}
              => CancelledBefore[w] \cap {"loop_time", "init_complete"} = {})
        /\ (w \in {"loop_time", "init_complete"}
              => {"setup", "start"} \subseteq CancelledBefore[w])
    BY <1>1 DEF CancelledBefore
  <1>5. w \in {"loop_time", "init_complete"} => intrOn' = {}
    BY <1>1, <1>4 DEF Wanes, CutOff
  <1>6. w \notin queued' /\ \A v \in CancelledBefore[w] : v \notin queued'
    BY <1>3, <1>4 DEF CutOff, Still
  <1>7. \A v \in CancelledBefore[w] : pc'[v] = Idle
    BY <1>4 DEF Wanes, CutOff
  <1> QED
    BY <1>2, <1>5, <1>6, <1>7 DEF CutOff, Still

LEMMA QuietStays ==
    ASSUME TypeOK', Wanes, Quiet
    PROVE  Quiet'
  <1>1. \A w \in Works : Still(w)
    BY DEF Quiet, Still
  <1>2. armed' = {} /\ intrOn' = {} /\ \A w \in Works : pc'[w] = Idle
    BY <1>1, AttemptFacts DEF Wanes, Quiet
  <1>3. \A w \in Works : w \notin queued'
    BY <1>1 DEF Wanes, Quiet, Still, Works
  <1> QED
    BY <1>2, <1>3 DEF Quiet, TypeOK

(* A step of thread t, or of none *)
LEMMA DelStep ==
    ASSUME TypeOK, TypeOK', DelInv, deleting => Wanes, deleting' = deleting,
           NEW t \in Threads, pc' = pc \/ \E l : Go(t, l),
           t \in Clients => /\ deleting => pc'[t] \in Leaving
                            /\ ~deleting => pc'[t] \notin Deleting
                            /\ \A w \in Works : pc'[t] = <<"del", w>> => CutOff(w)'
                            /\ pc'[t] = <<"freed", "none">> => Quiet'
    PROVE  DelInv'
  <1>1. \A c \in Clients : c # t => pc'[c] = pc[c]
    BY Others, ThreadFacts
  <1>2. \A w \in Works : <<"del", w>> \in Deleting
    BY DEF Deleting
  <1>3. <<"freed", "none">> \in Deleting
    BY DEF Deleting
  <1>4. ASSUME NEW c \in Clients, c # t \/ pc' = pc
        PROVE  /\ deleting => pc'[c] \in Leaving
               /\ ~deleting => pc'[c] \notin Deleting
               /\ \A w \in Works : pc'[c] = <<"del", w>> => CutOff(w)'
               /\ pc'[c] = <<"freed", "none">> => Quiet'
    <2>1. pc'[c] = pc[c]
      BY <1>1, <1>4
    <2>2. /\ deleting => pc[c] \in Leaving
          /\ ~deleting => pc[c] \notin Deleting
          /\ \A w \in Works : pc[c] = <<"del", w>> => CutOff(w)
          /\ pc[c] = <<"freed", "none">> => Quiet
      BY DEF DelInv
    <2>3. \A w \in Works : pc[c] = <<"del", w>> => deleting /\ CutOff(w)
      BY <1>2, <2>2
    <2>4. pc[c] = <<"freed", "none">> => deleting /\ Quiet
      BY <1>3, <2>2
    <2> QED
      BY <2>1, <2>2, <2>3, <2>4, CutOffStays, QuietStays
  <1> HIDE DEF Leaving, Deleting, CutOff, Quiet
  <1> QED
    BY <1>4 DEF DelInv

LEMMA LeavingFacts ==
    /\ \A p \in Attempts : /\ <<"store", p>> \notin Leaving
                           /\ <<"arm", p>> \notin Leaving
                           /\ <<"queue", p>> \notin Leaving
                           /\ <<"cancel", p>> \in Leaving /\ <<"stop", p>> \in Leaving
                           /\ <<"cb", p>> \in Leaving /\ <<"complete", p>> \in Leaving
                           /\ <<"store", p>> \notin Deleting
                           /\ <<"arm", p>> \notin Deleting
                           /\ <<"queue", p>> \notin Deleting
                           /\ <<"cancel", p>> \notin Deleting
                           /\ <<"stop", p>> \notin Deleting
                           /\ <<"cb", p>> \notin Deleting
                           /\ <<"complete", p>> \notin Deleting
    /\ \A w \in Works : /\ <<"wait", w>> \in Leaving /\ <<"wait", w>> \notin Deleting
                        /\ <<"del", w>> \in Leaving /\ <<"del", w>> \in Deleting
    /\ Idle \in Leaving /\ Idle \notin Deleting
    /\ <<"stop_wait", "none">> \in Leaving /\ <<"stop_wait", "none">> \notin Deleting
    /\ <<"del", "none">> \in Leaving /\ <<"del", "none">> \in Deleting
    /\ <<"freed", "none">> \in Leaving /\ <<"freed", "none">> \in Deleting
    /\ \A w \in Works : /\ <<"del", "none">> # <<"del", w>>
                        /\ <<"freed", "none">> # <<"del", w>>
    /\ <<"freed", "none">> # <<"del", "none">>
  BY DEF Leaving, Deleting, Idle, Works, Attempts, TimeoutWork, IntrWork

(* A step that touches neither a source of the works nor the works *)
LEMMA CalmWanes ==
    ASSUME TypeOK, NEW c \in Clients, UNCHANGED kernel, pc' = pc \/ \E l : Go(c, l)
    PROVE  Wanes
  <1>1. \A w \in Works : pc'[w] = pc[w]
    BY Others, ThreadFacts, ClientsAssumption
  <1> QED
    BY <1>1 DEF Wanes, Still, kernel

(* A step of a client that is neither in the deletion nor led there *)
LEMMA DelOfOther ==
    ASSUME TypeOK, TypeOK', DelInv, deleting => Wanes, deleting' = deleting,
           NEW c \in Clients, NEW l, Go(c, l), deleting => l \in Leaving,
           l \notin Deleting \/ (deleting /\ l = <<"del", "none">>)
    PROVE  DelInv'
  <1>1. c \in Threads /\ pc'[c] = l
    BY Others, ThreadFacts
  <1>2. \A w \in Works : l # <<"del", w>>
    BY LeavingFacts
  <1>3. l # <<"freed", "none">>
    BY LeavingFacts
  <1> HIDE DEF Leaving, Deleting
  <1> QED
    BY <1>1, <1>2, <1>3, DelStep

LEMMA DelOfDecision ==
    ASSUME NEW c \in Clients, StopDecision(c)
    PROVE  \E l : /\ Go(c, l) /\ l \in Leaving
                  /\ l \notin Deleting \/ (deleting' /\ l = <<"del", "none">>)
  <1>1. Returned \in Leaving
        /\ (Returned \notin Deleting \/ (deleting' /\ Returned = <<"del", "none">>))
    BY LeavingFacts DEF Returned
  <1>2. /\ "setup" \in Attempts /\ "start" \in Attempts
    BY DEF Attempts
  <1> QED
    BY <1>1, <1>2, LeavingFacts DEF StopDecision

LEMMA DelOfCall ==
    ASSUME TypeOK, TypeOK', DelInv, NEW c \in Clients, ClientCall(c)
    PROVE  DelInv'
  <1>1. c \in Threads
    BY ThreadFacts
  <1>2. CASE LlrConfigSet(c)
    <2>1. ~deleting /\ pc' = pc /\ deleting' = deleting
      BY <1>2 DEF LlrConfigSet, Calling, object
    <2>2. \A d \in Clients : pc[d] \notin Deleting
      BY <2>1 DEF DelInv
    <2> QED
      BY <2>1, <2>2, LeavingFacts DEF DelInv
  <1>3. CASE LlrStop(c)
    <2>1. ~deleting /\ deleting' = deleting
      BY <1>3 DEF LlrStop, Calling, object
    <2>2. PICK l : Go(c, l) /\ l \in Leaving /\ l \notin Deleting
      BY <1>3, <2>1, DelOfDecision DEF LlrStop
    <2> QED
      BY <2>1, <2>2, DelOfOther
  <1>4. CASE LlrRelease(c)
    <2>1. \A d \in Clients : pc[d] = Idle
      BY <1>4 DEF LlrRelease
    <2>2. deleting'
      BY <1>4 DEF LlrRelease
    <2>3. PICK l : Go(c, l) /\ l \in Leaving
                   /\ (l \notin Deleting \/ l = <<"del", "none">>)
      BY <1>4, DelOfDecision DEF LlrRelease
    <2>4. \A d \in Clients : pc'[d] \in {l, Idle}
      BY <1>1, <2>1, <2>3, Others, ThreadFacts
    <2>5. \A d \in Clients : pc'[d] \in Leaving
      BY <2>3, <2>4, LeavingFacts
    <2>6. \A d \in Clients, w \in Works : pc'[d] # <<"del", w>>
      BY <2>3, <2>4, LeavingFacts
    <2>7. \A d \in Clients : pc'[d] # <<"freed", "none">>
      BY <2>3, <2>4, LeavingFacts
    <2> QED
      BY <2>2, <2>5, <2>6, <2>7 DEF DelInv
  <1>5. ASSUME NEW p \in Attempts, LlrBegin(c, p)
        PROVE  DelInv'
    <2>1. ~deleting /\ deleting' = deleting
      BY <1>5 DEF LlrBegin, Calling, object
    <2>2. CASE Go(c, <<"store", p>>)
      BY <2>1, <2>2, LeavingFacts, DelOfOther
    <2>3. CASE pc' = pc
      <3>1. \A d \in Clients : pc[d] \notin Deleting
        BY <2>1 DEF DelInv
      <3> QED
        BY <2>1, <2>3, <3>1, LeavingFacts DEF DelInv
    <2> QED
      BY <1>5, <2>2, <2>3 DEF LlrBegin
  <1> QED
    BY <1>2, <1>3, <1>4, <1>5 DEF ClientCall

LEMMA DelOfCancelCmd ==
    ASSUME TypeOK, TypeOK', DelInv, NEW c \in Clients, NEW p \in Attempts,
           CancelCmd(c, p)
    PROVE  DelInv'
  <1>1. c \in Threads /\ \A w \in Works : w # c
    BY ThreadFacts, ClientsAssumption
  <1>2. deleting' = deleting
    BY DEF CancelCmd, object
  <1>3. PICK l : Go(c, l) /\ l \in Leaving /\ l \notin Deleting
    BY LeavingFacts, AttemptFacts DEF CancelCmd, Cancel
  <1>4. armed' \subseteq armed /\ intrOn' \subseteq intrOn /\ queued' \subseteq queued
    BY DEF CancelCmd, Cancel, kernel
  <1>5. \A w \in Works : pc'[w] = pc[w]
    BY <1>1, <1>3, Others, ThreadFacts
  <1>6. Wanes
    BY <1>4, <1>5 DEF Wanes, Still
  <1> QED
    BY <1>2, <1>3, <1>6, DelOfOther

LEMMA DelOfDel ==
    ASSUME TypeOK, TypeOK', DelInv, NEW c \in Clients, LlrDel(c)
    PROVE  DelInv'
  <1>1. c \in Threads /\ \A w \in Works : w # c
    BY ThreadFacts, ClientsAssumption
  <1>2. deleting' = deleting
    BY DEF LlrDel, object
  <1>3. deleting
    <2>1. pc[c] \in Deleting
      BY LeavingFacts DEF LlrDel, At, Waited, DelNext, Works, Attempts, TimeoutWork, IntrWork,
                          Deleting
    <2> QED
      BY <2>1 DEF DelInv
  <1>4. armed' \subseteq armed /\ intrOn' \subseteq intrOn /\ queued' \subseteq queued
    BY DEF LlrDel, Cancel, kernel
  <1>5. \E l : Go(c, l)
    BY DEF LlrDel, Cancel
  <1>6. \A w \in Works : pc'[w] = pc[w]
    BY <1>1, <1>5, Others, ThreadFacts
  <1>7. Wanes
    BY <1>4, <1>6 DEF Wanes, Still
  <1>8. /\ Works = {"setup", "start", "setup_timeout", "start_timeout",
                    "loop_time", "init_complete"}
    BY AttemptFacts
  <1>9. CASE At(c, "del", "none") /\ armed' = {} /\ Cancel(c, "del", "setup")
    <2>1. pc'[c] = <<"del", "setup">>
      BY <1>1, <1>9, Others DEF Cancel
    <2>2. CutOff("setup")'
      BY <1>9 DEF CutOff, CancelledBefore, Cancel
    <2>3. pc'[c] \in Leaving /\ pc'[c] # <<"freed", "none">>
          /\ \A w \in Works : pc'[c] = <<"del", w>> => w = "setup"
      BY <1>8, <2>1, LeavingFacts
    <2> HIDE DEF Leaving, Deleting, CutOff, Quiet
    <2> QED
      BY <1>1, <1>2, <1>3, <1>5, <1>7, <2>2, <2>3, DelStep
  <1>10. ASSUME NEW v \in DOMAIN DelNext, Waited(c, "del", v),
                intrOn' = (IF v = "start_timeout" THEN {} ELSE intrOn),
                Cancel(c, "del", DelNext[v]), armed' = armed
         PROVE  DelInv'
    <2>1. v \in Works /\ DelNext[v] \in Works
      BY <1>8 DEF DelNext
    <2>2. pc'[c] = <<"del", DelNext[v]>>
      BY <1>1, <1>10, Others DEF Cancel
    <2>3. CutOff(v) /\ pc[v] = Idle
      BY <1>10, <2>1 DEF DelInv, Waited, At
    <2>4. /\ CancelledBefore[DelNext[v]] = CancelledBefore[v] \cup {v}
          /\ CancelledBefore[v] \subseteq Works
          /\ DelNext[v] \in {"loop_time", "init_complete"}
                => v \in {"start_timeout", "loop_time", "init_complete"}
      BY DEF DelNext, CancelledBefore, Works, Attempts, TimeoutWork, IntrWork
    <2>5. \A u \in CancelledBefore[DelNext[v]] : Still(u)'
      BY <1>4, <1>6, <2>1, <2>3, <2>4 DEF CutOff, Still
    <2>6. CutOff(DelNext[v])'
      <3>1. armed' = {} /\ DelNext[v] \notin queued'
        BY <1>10, <2>3 DEF CutOff, Cancel
      <3>2. DelNext[v] \in {"loop_time", "init_complete"} => intrOn' = {}
        BY <1>10, <2>3, <2>4 DEF CutOff
      <3> QED
        BY <2>5, <3>1, <3>2 DEF CutOff
    <2>7. pc'[c] \in Leaving /\ pc'[c] # <<"freed", "none">>
      <3>1. <<"del", DelNext[v]>> \in Leaving /\ <<"del", DelNext[v]>> # <<"freed", "none">>
        BY <2>1, LeavingFacts
      <3> HIDE DEF Leaving
      <3> QED
        BY <2>2, <3>1
    <2>8. \A w \in Works : pc'[c] = <<"del", w>> => w = DelNext[v]
      BY <2>2
    <2> HIDE DEF Leaving, Deleting, CutOff, Quiet
    <2> QED
      BY <1>1, <1>2, <1>3, <1>5, <1>7, <2>6, <2>7, <2>8, DelStep
  <1>11. CASE Waited(c, "del", "init_complete") /\ Go(c, <<"freed", "none">>)
              /\ UNCHANGED kernel
    <2>1. pc'[c] = <<"freed", "none">>
      BY <1>1, <1>11, Others
    <2>2. CutOff("init_complete") /\ pc["init_complete"] = Idle
      BY <1>8, <1>11 DEF DelInv, Waited, At
    <2>3. \A w \in Works : w \notin queued /\ pc[w] = Idle
      BY <1>8, <2>2 DEF CutOff, CancelledBefore, Still
    <2>4. queued = {}
      BY <2>3 DEF TypeOK
    <2>5. Quiet'
      BY <1>6, <1>11, <2>2, <2>3, <2>4 DEF Quiet, CutOff, kernel
    <2>6. pc'[c] \in Leaving /\ \A w \in Works : pc'[c] # <<"del", w>>
      BY <2>1, LeavingFacts
    <2> HIDE DEF Leaving, Deleting, CutOff, Quiet
    <2> QED
      BY <1>1, <1>2, <1>3, <1>5, <1>7, <2>5, <2>6, DelStep
  <1> QED
    BY <1>9, <1>10, <1>11 DEF LlrDel

LEMMA DelOfClientStep ==
    ASSUME TypeOK, TypeOK', DelInv, NEW c \in Clients, ClientStep(c)
    PROVE  DelInv'
  <1>1. c \in Threads
    BY ThreadFacts
  <1>2. ASSUME NEW p \in Attempts, CmdStore(c, p) \/ TimerBegin(c, p) \/ CmdQueue(c, p)
        PROVE  DelInv'
    <2>1. pc[c] \notin Leaving
      BY <1>2, LeavingFacts DEF CmdStore, TimerBegin, CmdQueue, At
    <2>2. ~deleting /\ deleting' = deleting
      BY <1>2, <2>1 DEF DelInv, CmdStore, TimerBegin, CmdQueue, object
    <2>3. PICK l : Go(c, l) /\ l \notin Deleting
      BY <1>2, LeavingFacts DEF CmdStore, TimerBegin, CmdQueue
    <2> QED
      BY <2>2, <2>3, DelOfOther
  <1>3. ASSUME NEW p \in Attempts, StopCmd(c, p)
        PROVE  DelInv'
    <2>1. UNCHANGED kernel /\ deleting' = deleting /\ Go(c, <<"complete", p>>)
      BY <1>3 DEF StopCmd
    <2> QED
      BY <2>1, LeavingFacts, CalmWanes, DelOfOther
  <1>4. CASE (\E p \in Attempts : StopComplete(c, p)) \/ StopWaited(c) \/ StopTimedOut(c)
    <2>1. UNCHANGED kernel /\ deleting' = deleting /\ Go(c, Returned)
      BY <1>4 DEF StopComplete, StopWaited, StopTimedOut, object
    <2>2. Returned \in Leaving
          /\ (Returned \notin Deleting \/ (deleting /\ Returned = <<"del", "none">>))
      BY <2>1, LeavingFacts DEF Returned
    <2> QED
      BY <2>1, <2>2, CalmWanes, DelOfOther
  <1> QED
    BY <1>2, <1>3, <1>4, DelOfCancelCmd, DelOfDel DEF ClientStep

(* A step of a work *)
LEMMA DelOfWanes ==
    ASSUME TypeOK, TypeOK', DelInv, Wanes, deleting' = deleting,
           NEW w \in Works, pc' = pc \/ \E l : Go(w, l)
    PROVE  DelInv'
  <1>1. w \in Threads /\ w \notin Clients
    BY ThreadFacts, ClientsAssumption
  <1> QED
    BY <1>1, DelStep

LEMMA DelOfWork ==
    ASSUME TypeOK, TypeOK', DelInv, NEW p \in Attempts, WorkStep(p)
    PROVE  DelInv'
  <1>1. PICK w \in {p, IntrWork[p], TimeoutWork[p]} :
           /\ ~Still(w) /\ (\E l : Go(w, l))
           /\ armed' \subseteq armed /\ queued' \subseteq queued
           /\ intrOn' \subseteq intrOn \/ (w = p /\ intrOn' = intrOn \cup {p})
           /\ deleting' = deleting
    <2>1. CASE AttemptWork(p)
      <3>1. /\ ~Still(p) /\ (\E l : Go(p, l))
            /\ armed' \subseteq armed /\ queued' \subseteq queued
        BY <2>1 DEF AttemptWork, Take, Cancel, kernel, Still, At, Waited, Idle
      <3>2. /\ intrOn' \subseteq intrOn \/ intrOn' = intrOn \cup {p}
            /\ deleting' = deleting
        BY <2>1 DEF AttemptWork, kernel, object
      <3> QED
        BY <3>1, <3>2
    <2>2. CASE AttemptIntrWork(p)
      <3>1. /\ ~Still(IntrWork[p]) /\ (\E l : Go(IntrWork[p], l))
            /\ armed' \subseteq armed /\ queued' \subseteq queued
        BY <2>2 DEF AttemptIntrWork, Take, Claim, kernel, Still, At, Idle
      <3>2. intrOn' = intrOn /\ deleting' = deleting
        BY <2>2 DEF AttemptIntrWork, kernel
      <3> QED
        BY <3>1, <3>2
    <2>3. CASE AttemptTimeoutWork(p)
      <3>1. /\ ~Still(TimeoutWork[p]) /\ (\E l : Go(TimeoutWork[p], l))
            /\ armed' \subseteq armed /\ queued' \subseteq queued
        BY <2>3 DEF AttemptTimeoutWork, Take, Claim, Cancel, kernel, Still, At, Waited, Idle
      <3>2. intrOn' \subseteq intrOn /\ deleting' = deleting
        BY <2>3 DEF AttemptTimeoutWork, kernel, object
      <3> QED
        BY <3>1, <3>2
    <2> QED
      BY <2>1, <2>2, <2>3 DEF WorkStep
  <1>2. w \in Works /\ w \in Threads
    BY <1>1, AttemptFacts, ThreadFacts
  <1>3. \A v \in Works : Still(v) => pc'[v] = Idle
    BY <1>1, <1>2, Others, ThreadFacts DEF Still
  <1>4. intrOn = {} /\ (\A q \in Attempts : Still(q)) => intrOn' = {}
    BY <1>1
  <1>5. Wanes
    BY <1>1, <1>3, <1>4 DEF Wanes
  <1> QED
    BY <1>1, <1>2, <1>5, DelOfWanes

LEMMA DelOfEnvironment ==
    ASSUME TypeOK, TypeOK', DelInv, NEW p \in Attempts, TimerExpire(p) \/ IntrFire(p)
    PROVE  DelInv'
  <1>1. pc' = pc /\ deleting' = deleting
    BY DEF TimerExpire, IntrFire, object
  <1>2. \A q, r \in Attempts : q # TimeoutWork[r] /\ q # IntrWork[r]
                               /\ TimeoutWork[q] # IntrWork[r]
    BY ThreadFacts
  <1>3. CASE TimerExpire(p)
    <2>1. armed # {} /\ armed' \subseteq armed /\ intrOn' = intrOn
          /\ queued' \subseteq queued \cup {TimeoutWork[p]}
      BY <1>3 DEF TimerExpire, QueueWork
    <2> QED
      BY <1>1, <1>2, <2>1, DelOfWanes, AttemptFacts DEF Wanes, Still
  <1>4. CASE IntrFire(p)
    <2>1. intrOn # {} /\ intrOn' \subseteq intrOn /\ armed' = armed
          /\ queued' \subseteq queued \cup {IntrWork[p]}
      BY <1>4 DEF IntrFire, QueueWork
    <2> QED
      BY <1>1, <1>2, <2>1, DelOfWanes, AttemptFacts DEF Wanes, Still
  <1> QED
    BY <1>3, <1>4

(* FreedQuiet, for any clients, with refused settings and failing enables:   *)
(* sl_core_data_llr_del cancels what feeds a work before it cancels the      *)
(* work, so nothing of what is cut off comes back, whatever the stop that    *)
(* preceded it left running.                                                 *)
THEOREM FreedQuietAlways == Spec => []FreedQuiet
  <1>1. Init => DelInv
    BY LeavingFacts, ThreadFacts DEF Init, DelInv
  <1>2. TypeOK /\ TypeOK' /\ DelInv /\ [Next]_vars => DelInv'
    <2> SUFFICES ASSUME TypeOK, TypeOK', DelInv, [Next]_vars PROVE DelInv'
      OBVIOUS
    <2>1. CASE UNCHANGED vars
      BY <2>1 DEF vars, DelInv, CutOff, Quiet, Still
    <2>2. ASSUME NEW c \in Clients, ClientCall(c) \/ ClientStep(c)
          PROVE  DelInv'
      BY <2>2, DelOfCall, DelOfClientStep
    <2>3. ASSUME NEW p \in Attempts, WorkStep(p) \/ TimerExpire(p) \/ IntrFire(p)
          PROVE  DelInv'
      BY <2>3, DelOfWork, DelOfEnvironment
    <2>4. CASE Gone
      BY <2>1, <2>4 DEF Gone
    <2> QED
      BY <2>1, <2>2, <2>3, <2>4 DEF Next
  <1>3. DelInv => FreedQuiet
    BY DEF DelInv, FreedQuiet, Freed, At, Quiet
  <1> QED
    BY <1>1, <1>2, <1>3, TypeCorrect, PTL DEF Spec

-----------------------------------------------------------------------------
(* A callback is stored before anybody can call it                           *)

WorksOf(p) == {p, TimeoutWork[p], IntrWork[p]}

(* The steps of an attempt whose callback was stored *)
Ahead(p) == ({"arm", "queue", "cancel", "cb"} \X {p}) \cup ({"wait"} \X WorksOf(p))

(* Nothing has happened of an attempt but that a client began it. *)
Untouched(p) ==
    /\ p \notin armed /\ p \notin intrOn
    /\ \A w \in WorksOf(p) : Still(w)
    /\ \A t \in Threads : pc[t] \notin Ahead(p)
    /\ state = Busy[p] => \E c \in Clients : At(c, "store", p)

StoredInv == faults = 0 => \A p \in Attempts : p \in stored \/ Untouched(p)

LEMMA BusyFacts ==
    /\ \A p, q \in Attempts :
          /\ Busy[p] = Busy[q] <=> p = q
          /\ From[p] # Busy[q] /\ Done[p] # Busy[q]
          /\ TimedOut[p] # Busy[q] /\ Canceling[p] # Busy[q]
          /\ StopState[p] # Busy[q]
    /\ \A q \in Attempts :
          Busy[q] \notin {"NEW", "CONFIGURED", "SETUP", "RUNNING"} \cup Transient
  BY DEF Attempts, From, Busy, Done, TimedOut, Canceling, StopState, Transient

(* What leaves an attempt untouched *)
LEMMA UntouchedStays ==
    ASSUME TypeOK, NEW p \in Attempts, Untouched(p), NEW t \in Threads,
           t \notin WorksOf(p), NEW l, Go(t, l), l \notin Ahead(p),
           p \notin armed', p \notin intrOn', WorksOf(p) \cap queued' = {},
           state' = Busy[p] => state = Busy[p] /\ ~At(t, "store", p)
    PROVE  Untouched(p)'
  <1>1. pc'[t] = l /\ \A u \in Threads : u # t => pc'[u] = pc[u]
    BY Others
  <1>2. WorksOf(p) \subseteq Threads /\ WorksOf(p) \subseteq Works
    BY AttemptFacts, ThreadFacts DEF WorksOf
  <1>3. \A w \in WorksOf(p) : w \notin queued' /\ pc'[w] = Idle
    BY <1>1, <1>2 DEF Untouched, Still
  <1>4. \A u \in Threads : pc'[u] \notin Ahead(p)
    BY <1>1 DEF Untouched
  <1>5. state' = Busy[p] => \E c \in Clients : pc'[c] = <<"store", p>>
    BY <1>1, ThreadFacts DEF Untouched, At
  <1> HIDE DEF Ahead, WorksOf
  <1> QED
    BY <1>3, <1>4, <1>5 DEF Untouched, Still, At

(* The steps of the threads at an attempt *)
StepsOf(q) == {Idle} \cup ({"store", "arm", "queue", "cancel", "stop", "enable", "fail",
                             "check", "disarm", "publish", "teardown", "settle", "cb",
                             "complete"} \X {q})
                     \cup ({"wait"} \X WorksOf(q))

LEMMA AheadFacts ==
    \A p \in Attempts :
        /\ {<<"arm", p>>, <<"queue", p>>, <<"cancel", p>>, <<"cb", p>>} \subseteq Ahead(p)
        /\ \A w \in WorksOf(p) : <<"wait", w>> \in Ahead(p)
        /\ Idle \notin Ahead(p) /\ <<"stop_wait", "none">> \notin Ahead(p)
        /\ <<"del", "none">> \notin Ahead(p) /\ <<"freed", "none">> \notin Ahead(p)
        /\ \A w \in Works : <<"del", w>> \notin Ahead(p)
  BY DEF Ahead, Idle

LEMMA AheadNames ==
    \A p, q \in Attempts : {<<"store", q>>, <<"stop", q>>, <<"complete", q>>}
                              \cap Ahead(p) = {}
  BY DEF Ahead

LEMMA AheadOthers ==
    ASSUME NEW p \in Attempts, NEW q \in Attempts, p # q
    PROVE  StepsOf(q) \cap Ahead(p) = {}
  <1>1. WorksOf(p) \cap WorksOf(q) = {}
    BY ThreadFacts DEF WorksOf
  <1> QED
    BY <1>1 DEF StepsOf, Ahead, Idle

LEMMA StepsOfFacts ==
    \A q \in Attempts :
        /\ Idle \in StepsOf(q)
        /\ {<<"store", q>>, <<"arm", q>>, <<"queue", q>>, <<"cancel", q>>, <<"stop", q>>,
            <<"enable", q>>, <<"fail", q>>, <<"check", q>>, <<"disarm", q>>,
            <<"publish", q>>, <<"teardown", q>>, <<"settle", q>>, <<"cb", q>>,
            <<"complete", q>>} \subseteq StepsOf(q)
        /\ \A w \in WorksOf(q) : <<"wait", w>> \in StepsOf(q)
  BY DEF StepsOf

LEMMA WorksOfFacts ==
    /\ \A p \in Attempts : WorksOf(p) \subseteq Works
    /\ \A p, q \in Attempts : p # q => WorksOf(p) \cap WorksOf(q) = {}
    /\ \A p \in Attempts, c \in Clients : c \notin WorksOf(p)
    /\ \A p \in Attempts : {p, TimeoutWork[p], IntrWork[p]} \subseteq WorksOf(p)
  BY AttemptFacts, ThreadFacts, ClientsAssumption DEF WorksOf

LEMMA StoredOfEnvironment ==
    ASSUME TypeOK, StoredInv, NEW q \in Attempts, TimerExpire(q) \/ IntrFire(q)
    PROVE  StoredInv'
  <1>1. UNCHANGED <<state, pc, stored, faults>>
    BY DEF TimerExpire, IntrFire, object, budget
  <1>2. /\ q \in armed \/ q \in intrOn
        /\ armed' \subseteq armed /\ intrOn' \subseteq intrOn
        /\ queued' \subseteq queued \cup WorksOf(q)
    BY WorksOfFacts DEF TimerExpire, IntrFire, QueueWork
  <1> SUFFICES ASSUME faults = 0, NEW p \in Attempts, p \notin stored
               PROVE  Untouched(p)'
    BY <1>1 DEF StoredInv
  <1>3. Untouched(p)
    BY DEF StoredInv
  <1>4. p # q /\ WorksOf(p) \cap queued' = {}
    BY <1>2, <1>3, WorksOfFacts DEF Untouched, Still
  <1> HIDE DEF Ahead, WorksOf
  <1> QED
    BY <1>1, <1>2, <1>3, <1>4 DEF Untouched, Still, At

(* A step of client c about an attempt, or about none *)
LEMMA StoredOfClient ==
    ASSUME TypeOK, StoredInv, NEW c \in Clients, NEW l, Go(c, l),
           faults' = faults, stored' = stored,
           armed' \ armed \subseteq stored, intrOn' \subseteq intrOn,
           \A p \in Attempts \ stored :
              /\ faults = 0 /\ Untouched(p) => l \notin Ahead(p)
              /\ WorksOf(p) \cap queued' \subseteq queued
              /\ state' = Busy[p] => state = Busy[p] /\ pc[c] # <<"store", p>>
    PROVE  StoredInv'
  <1> SUFFICES ASSUME faults = 0, NEW p \in Attempts, p \notin stored
               PROVE  Untouched(p)'
    BY DEF StoredInv
  <1>1. Untouched(p)
    BY DEF StoredInv
  <1>2. c \in Threads /\ c \notin WorksOf(p)
    BY ThreadFacts, WorksOfFacts
  <1>3. WorksOf(p) \cap queued' = {}
    BY <1>1 DEF Untouched, Still
  <1>4. p \notin armed' /\ p \notin intrOn'
    BY <1>1 DEF Untouched
  <1> HIDE DEF Ahead, WorksOf
  <1> QED
    BY <1>1, <1>2, <1>3, <1>4, UntouchedStays DEF At

(* One client that is not in the middle of a call: no attempt is just begun. *)
LEMMA NotBusy ==
    ASSUME StoredInv, faults = 0, \A c \in Clients : \A p \in Attempts : ~At(c, "store", p)
    PROVE  \A p \in Attempts \ stored : state # Busy[p]
  BY DEF StoredInv, Untouched

LEMMA StoredOfDecision ==
    ASSUME TypeOK, StoredInv, NEW c \in Clients, StopDecision(c),
           \A d \in Clients : pc[d] = Idle,
           UNCHANGED <<faults, stored, armed, intrOn, queued>>
    PROVE  StoredInv'
  <1>1. ASSUME faults = 0
        PROVE  \A p \in Attempts \ stored : state # Busy[p]
    BY <1>1, NotBusy DEF At, Idle
  <1>2. CASE faults # 0
    BY <1>2 DEF StoredInv
  <1>3. CASE faults = 0
    <2>1. PICK l : /\ Go(c, l)
                   /\ \/ l \in {Returned, <<"stop", "setup">>, <<"stop", "start">>,
                                <<"stop_wait", "none">>}
                      \/ \E q \in Attempts : state = Busy[q] /\ l = <<"cancel", q>>
      BY DEF StopDecision
    <2>2. \A p \in Attempts \ stored : l \notin Ahead(p)
      <3> SUFFICES ASSUME NEW p \in Attempts, p \notin stored PROVE l \notin Ahead(p)
        OBVIOUS
      <3>1. CASE l \in {Returned, <<"stop_wait", "none">>}
        BY <3>1, AheadFacts DEF Returned
      <3>2. CASE l \in {<<"stop", "setup">>, <<"stop", "start">>}
        BY <3>2, AheadNames DEF Attempts
      <3>3. ASSUME NEW q \in Attempts, state = Busy[q], l = <<"cancel", q>>
            PROVE  l \notin Ahead(p)
        <4>1. p # q
          BY <1>1, <1>3, <3>3
        <4> QED
          BY <3>3, <4>1, AheadOthers, StepsOfFacts
      <3> QED
        BY <2>1, <3>1, <3>2, <3>3
    <2>3. \A p \in Attempts : state' = Busy[p] => state = Busy[p]
      <3>1. \/ state' = state
            \/ state' \in {"SETUP_STOPPING", "STOPPING"}
            \/ \E q \in Attempts : state' = Canceling[q]
        BY DEF StopDecision
      <3> QED
        BY <3>1, BusyFacts DEF Transient
    <2>4. \A p \in Attempts : pc[c] # <<"store", p>>
      BY DEF Idle
    <2> QED
      BY <2>1, <2>2, <2>3, <2>4, StoredOfClient
  <1> QED
    BY <1>2, <1>3

LEMMA StoredOfCall ==
    ASSUME TypeOK, StoredInv, \A d, e \in Clients : d = e,
           NEW c \in Clients, ClientCall(c)
    PROVE  StoredInv'
  <1>1. \A d \in Clients : pc[d] = Idle
    BY DEF ClientCall, LlrConfigSet, LlrStop, LlrRelease, LlrBegin, Calling
  <1>2. CASE LlrConfigSet(c)
    <2>1. UNCHANGED <<pc, queued, armed, intrOn, stored, faults>> /\ state' = "CONFIGURED"
      BY <1>2 DEF LlrConfigSet, kernel, object, budget
    <2>2. \A p \in Attempts : "CONFIGURED" # Busy[p]
      BY DEF Attempts, Busy
    <2> QED
      BY <2>1, <2>2 DEF StoredInv, Untouched, Still, At
  <1>3. CASE LlrStop(c) \/ LlrRelease(c)
    <2>1. StopDecision(c) /\ UNCHANGED <<faults, stored, armed, intrOn, queued>>
      BY <1>3 DEF LlrStop, LlrRelease, kernel, object, budget
    <2> QED
      BY <1>1, <2>1, StoredOfDecision
  <1>4. ASSUME NEW q \in Attempts, LlrBegin(c, q)
        PROVE  StoredInv'
    <2>1. /\ UNCHANGED <<queued, armed, intrOn, stored>> /\ state' = Busy[q]
          /\ state = From[q]
          /\ (Go(c, <<"store", q>>) /\ faults' = faults) \/ faults' = faults + 1
      BY <1>4 DEF LlrBegin, kernel, object, Fault
    <2>2. CASE Go(c, <<"store", q>>) /\ faults' = faults
      <3> SUFFICES ASSUME faults = 0, NEW p \in Attempts, p \notin stored
                   PROVE  Untouched(p)'
        BY <2>1, <2>2 DEF StoredInv
      <3>1. Untouched(p)
        BY DEF StoredInv
      <3>2. c \in Threads /\ pc'[c] = <<"store", q>>
            /\ \A u \in Threads : u # c => pc'[u] = pc[u]
        BY <2>2, Others, ThreadFacts
      <3>3. WorksOf(p) \subseteq Threads /\ c \notin WorksOf(p)
        BY WorksOfFacts, ThreadFacts
      <3>4. \A u \in Threads : pc'[u] \notin Ahead(p)
        BY <3>1, <3>2, AheadNames DEF Untouched
      <3>5. state' = Busy[p] => \E d \in Clients : pc'[d] = <<"store", p>>
        BY <2>1, <3>2, BusyFacts
      <3> HIDE DEF Ahead, WorksOf
      <3> QED
        BY <2>1, <3>1, <3>2, <3>3, <3>4, <3>5 DEF Untouched, Still, At
    <2>3. CASE faults' = faults + 1
      BY <2>3 DEF StoredInv, TypeOK
    <2> QED
      BY <2>1, <2>2, <2>3
  <1> QED
    BY <1>2, <1>3, <1>4 DEF ClientCall

LEMMA StoredOfCmd ==
    ASSUME TypeOK, StoredInv, \A d, e \in Clients : d = e,
           NEW c \in Clients, NEW q \in Attempts,
           CmdStore(c, q) \/ TimerBegin(c, q) \/ CmdQueue(c, q)
    PROVE  StoredInv'
  <1>1. faults' = faults
    BY DEF CmdStore, TimerBegin, CmdQueue, budget
  <1> SUFFICES ASSUME faults = 0 PROVE StoredInv'
    BY <1>1 DEF StoredInv
  <1>2. CASE CmdStore(c, q)
    <2>1. /\ UNCHANGED <<state, queued, armed, intrOn>> /\ stored' = stored \cup {q}
          /\ Go(c, <<"arm", q>>) /\ pc[c] = <<"store", q>>
      BY <1>2 DEF CmdStore, kernel, At
    <2> SUFFICES ASSUME NEW p \in Attempts, p \notin stored, p # q
                 PROVE  Untouched(p)'
      BY <2>1 DEF StoredInv
    <2>2. Untouched(p)
      BY DEF StoredInv
    <2>3. state # Busy[p]
      BY <2>1, <2>2 DEF Untouched, At
    <2>4. <<"arm", q>> \notin Ahead(p) /\ c \notin WorksOf(p) /\ c \in Threads
      BY AheadOthers, StepsOfFacts, WorksOfFacts, ThreadFacts
    <2>5. WorksOf(p) \cap queued' = {} /\ p \notin armed' /\ p \notin intrOn'
      BY <2>1, <2>2 DEF Untouched, Still
    <2> HIDE DEF Ahead, WorksOf
    <2> QED
      BY <2>1, <2>2, <2>3, <2>4, <2>5, UntouchedStays
  <1>3. CASE TimerBegin(c, q) \/ CmdQueue(c, q)
    <2>1. /\ UNCHANGED <<state, stored>> /\ c \in Threads
          /\ pc[c] \in {<<"arm", q>>, <<"queue", q>>}
          /\ \E l \in {<<"queue", q>>, Idle} : Go(c, l)
          /\ armed' \ armed \subseteq {q} /\ intrOn' \subseteq intrOn
          /\ queued' \subseteq queued \cup {q}
      BY <1>3, ThreadFacts DEF TimerBegin, CmdQueue, At, object, QueueWork
    <2>2. q \in stored
      <3>1. pc[c] \in Ahead(q)
        BY <2>1, AheadFacts
      <3> QED
        BY <2>1, <3>1 DEF StoredInv, Untouched
    <2>3. PICK l \in {<<"queue", q>>, Idle} : Go(c, l)
      BY <2>1
    <2>4. \A p \in Attempts \ stored :
             /\ l \notin Ahead(p) /\ pc[c] # <<"store", p>>
             /\ WorksOf(p) \cap queued' \subseteq queued
      <3> SUFFICES ASSUME NEW p \in Attempts \ stored
                   PROVE  /\ l \notin Ahead(p) /\ pc[c] # <<"store", p>>
                          /\ WorksOf(p) \cap queued' \subseteq queued
        OBVIOUS
      <3>1. p # q
        BY <2>2
      <3>2. l \notin Ahead(p)
        BY <3>1, AheadOthers, StepsOfFacts
      <3>3. q \notin WorksOf(p)
        BY <3>1, WorksOfFacts
      <3> HIDE DEF Ahead, WorksOf
      <3> QED
        BY <2>1, <3>2, <3>3
    <2> HIDE DEF Ahead, WorksOf
    <2> QED
      BY <1>1, <2>1, <2>2, <2>3, <2>4, StoredOfClient
  <1> QED
    BY <1>2, <1>3

LEMMA StoredOfClientStep ==
    ASSUME TypeOK, StoredInv, \A d, e \in Clients : d = e,
           NEW c \in Clients, ClientStep(c)
    PROVE  StoredInv'
  <1>1. c \in Threads
    BY ThreadFacts
  <1>2. ASSUME NEW q \in Attempts, CancelCmd(c, q)
        PROVE  StoredInv'
    <2>1. /\ UNCHANGED <<stored, faults>> /\ armed' \subseteq armed
          /\ intrOn' \subseteq intrOn /\ queued' \subseteq queued
      BY <1>2 DEF CancelCmd, Cancel, kernel, object, budget
    <2>2. pc[c] \in {<<"cancel", q>>, <<"cb", q>>} \cup {<<"wait", w>> : w \in WorksOf(q)}
      BY <1>2 DEF CancelCmd, At, Waited, WorksOf
    <2>3. PICK l \in {<<"cb", q>>, <<"complete", q>>}
                       \cup {<<"wait", w>> : w \in WorksOf(q)} : Go(c, l)
      BY <1>2 DEF CancelCmd, Cancel, WorksOf
    <2>4. \A p \in Attempts : state' = Busy[p] => state = Busy[p] /\ pc[c] # <<"store", p>>
      BY <1>2, <2>2, BusyFacts DEF CancelCmd
    <2>5. faults = 0 => q \in stored
      <3>1. pc[c] \in Ahead(q)
        BY <2>2, AheadFacts
      <3> QED
        BY <1>1, <3>1 DEF StoredInv, Untouched
    <2>6. CASE faults = 0
      <3>1. \A p \in Attempts \ stored : l \notin Ahead(p)
        BY <2>3, <2>5, <2>6, AheadOthers, StepsOfFacts
      <3> HIDE DEF Ahead, WorksOf
      <3> QED
        BY <2>1, <2>3, <2>4, <3>1, StoredOfClient
    <2> QED
      BY <2>1, <2>6 DEF StoredInv
  <1>3. ASSUME NEW q \in Attempts, StopCmd(c, q) \/ StopComplete(c, q)
        PROVE  StoredInv'
    <2>1. UNCHANGED <<stored, faults, queued, armed, intrOn>>
      BY <1>3 DEF StopCmd, StopComplete, kernel, object, budget
    <2>2. PICK l \in {Returned, <<"complete", q>>} : Go(c, l)
      BY <1>3 DEF StopCmd, StopComplete
    <2>3. \A p \in Attempts : l \notin Ahead(p)
      BY <2>2, AheadFacts, AheadNames DEF Returned
    <2>4. pc[c] \in {<<"stop", q>>, <<"complete", q>>}
      BY <1>3 DEF StopCmd, StopComplete, At
    <2>5. \A p \in Attempts : state' = Busy[p] => state = Busy[p]
      BY <1>3, BusyFacts DEF StopCmd, StopComplete
    <2> HIDE DEF Ahead, WorksOf
    <2> QED
      BY <2>1, <2>2, <2>3, <2>4, <2>5, StoredOfClient
  <1>4. CASE StopWaited(c) \/ StopTimedOut(c) \/ LlrDel(c)
    <2>1. /\ UNCHANGED <<state, stored, faults>> /\ armed' \subseteq armed
          /\ intrOn' \subseteq intrOn /\ queued' \subseteq queued
      BY <1>4 DEF StopWaited, StopTimedOut, LlrDel, Cancel, kernel, object, budget
    <2>2. \A w \in DOMAIN DelNext : DelNext[w] \in Works
      BY AttemptFacts DEF DelNext
    <2>3. PICK l \in {Returned, <<"freed", "none">>} \cup {<<"del", w>> : w \in Works} :
             Go(c, l)
      <3>1. CASE StopWaited(c) \/ StopTimedOut(c)
        BY <3>1 DEF StopWaited, StopTimedOut
      <3>2. CASE LlrDel(c)
        <4>1. \/ Go(c, <<"del", "setup">>) \/ Go(c, <<"freed", "none">>)
              \/ \E w \in DOMAIN DelNext : Go(c, <<"del", DelNext[w]>>)
          BY <3>2 DEF LlrDel, Cancel
        <4>2. "setup" \in Works
          BY AttemptFacts
        <4> QED
          BY <2>2, <4>1, <4>2
      <3> QED
        BY <1>4, <3>1, <3>2
    <2>4. \A p \in Attempts : l \notin Ahead(p)
      BY <2>3, AheadFacts DEF Returned
    <2>5. \A p \in Attempts : pc[c] # <<"store", p>>
      BY <1>4 DEF StopWaited, StopTimedOut, LlrDel, At, Waited
    <2> HIDE DEF Ahead, WorksOf
    <2> QED
      BY <2>1, <2>3, <2>4, <2>5, StoredOfClient
  <1> QED
    BY <1>2, <1>3, <1>4, StoredOfCmd DEF ClientStep

LEMMA StoredOfWork ==
    ASSUME TypeOK, StoredInv, NEW q \in Attempts, WorkStep(q)
    PROVE  StoredInv'
  <1>1. stored' = stored /\ faults' \in {faults, faults + 1}
    BY DEF WorkStep, AttemptWork, AttemptIntrWork, AttemptTimeoutWork, object, budget, Fault
  <1> SUFFICES ASSUME faults = 0, faults' = 0 PROVE StoredInv'
    BY <1>1 DEF StoredInv, TypeOK
  <1>2. PICK w \in WorksOf(q) :
           /\ ~Still(w) /\ queued' \subseteq queued
           /\ \E l \in StepsOf(q) : Go(w, l)
    <2>1. CASE AttemptWork(q)
      <3>1. ~Still(q) /\ queued' \subseteq queued
        BY <2>1 DEF AttemptWork, Take, Cancel, kernel, Still, At, Waited, Idle
      <3>2. \E l \in StepsOf(q) : Go(q, l)
        BY <2>1, StepsOfFacts, WorksOfFacts DEF AttemptWork, Cancel
      <3> QED
        BY <3>1, <3>2, WorksOfFacts
    <2>2. CASE AttemptIntrWork(q)
      <3>1. ~Still(IntrWork[q]) /\ queued' \subseteq queued
        BY <2>2 DEF AttemptIntrWork, Take, Claim, kernel, Still, At, Idle
      <3>2. \E l \in StepsOf(q) : Go(IntrWork[q], l)
        BY <2>2, StepsOfFacts, WorksOfFacts DEF AttemptIntrWork, Claim
      <3> QED
        BY <3>1, <3>2, WorksOfFacts
    <2>3. CASE AttemptTimeoutWork(q)
      <3>1. ~Still(TimeoutWork[q]) /\ queued' \subseteq queued
        BY <2>3 DEF AttemptTimeoutWork, Take, Claim, Cancel, kernel, Still, At, Waited, Idle
      <3>2. \E l \in StepsOf(q) : Go(TimeoutWork[q], l)
        BY <2>3, StepsOfFacts, WorksOfFacts DEF AttemptTimeoutWork, Claim, Cancel
      <3> QED
        BY <3>1, <3>2, WorksOfFacts
    <2> QED
      BY <2>1, <2>2, <2>3 DEF WorkStep
  <1>3. PICK l \in StepsOf(q) : Go(w, l)
    BY <1>2
  <1>4. w \in Threads /\ w \notin Clients
    BY WorksOfFacts, ThreadFacts, ClientsAssumption
  <1>5. q \in stored
    BY <1>2 DEF StoredInv, Untouched
  <1>6. armed' \subseteq armed /\ intrOn' \subseteq intrOn \cup {q}
    BY DEF WorkStep, AttemptWork, AttemptIntrWork, AttemptTimeoutWork, kernel
  <1>7. \A p \in Attempts : state' = Busy[p] => state = Busy[p]
    BY BusyFacts DEF WorkStep, AttemptWork, AttemptIntrWork, AttemptTimeoutWork, Claim
  <1> SUFFICES ASSUME NEW p \in Attempts, p \notin stored
               PROVE  Untouched(p)'
    BY <1>1 DEF StoredInv
  <1>8. Untouched(p) /\ p # q
    BY <1>5 DEF StoredInv
  <1>9. WorksOf(p) \cap queued' = {} /\ p \notin armed' /\ p \notin intrOn'
        /\ w \notin WorksOf(p)
    BY <1>2, <1>6, <1>8, WorksOfFacts DEF Untouched, Still
  <1>10. pc'[w] = l /\ \A u \in Threads : u # w => pc'[u] = pc[u]
    BY <1>3, <1>4, Others
  <1>11. \A u \in Threads : pc'[u] \notin Ahead(p)
    BY <1>3, <1>8, <1>10, AheadOthers DEF Untouched
  <1>12. \A v \in WorksOf(p) : v \notin queued' /\ pc'[v] = Idle
    BY <1>8, <1>9, <1>10, WorksOfFacts, ThreadFacts DEF Untouched, Still
  <1>13. state' = Busy[p] => \E c \in Clients : pc'[c] = <<"store", p>>
    BY <1>4, <1>7, <1>8, <1>10, ThreadFacts DEF Untouched, At
  <1> HIDE DEF Ahead, WorksOf
  <1> QED
    BY <1>9, <1>11, <1>12, <1>13 DEF Untouched, Still, At

(* StoredWithoutFault, for a client that makes one call at a time: as long   *)
(* as no setting was refused and no enable failed, the callback of an        *)
(* attempt is stored before its timer, its interrupt or a stop can decide    *)
(* it, however late the works of the attempts before it run.                 *)
THEOREM StoredWithoutFaultAlways ==
    ASSUME \A c, d \in Clients : c = d
    PROVE  Spec => []StoredWithoutFault
  <1>1. Init => StoredInv
    BY AheadFacts, WorksOfFacts, ThreadFacts
       DEF Init, StoredInv, Untouched, Still, Attempts, Busy
  <1>2. TypeOK /\ StoredInv /\ [Next]_vars => StoredInv'
    <2> SUFFICES ASSUME TypeOK, StoredInv, [Next]_vars PROVE StoredInv'
      OBVIOUS
    <2>1. CASE UNCHANGED vars
      BY <2>1 DEF vars, StoredInv, Untouched, Still, At
    <2>2. ASSUME NEW c \in Clients, ClientCall(c) \/ ClientStep(c)
          PROVE  StoredInv'
      BY <2>2, StoredOfCall, StoredOfClientStep
    <2>3. ASSUME NEW p \in Attempts, WorkStep(p) \/ TimerExpire(p) \/ IntrFire(p)
          PROVE  StoredInv'
      BY <2>3, StoredOfWork, StoredOfEnvironment
    <2>4. CASE Gone
      BY <2>1, <2>4 DEF Gone
    <2> QED
      BY <2>1, <2>2, <2>3, <2>4 DEF Next
  <1>3. StoredInv => StoredWithoutFault
    BY AheadFacts DEF StoredInv, StoredWithoutFault, CallbackStored, Untouched, At
  <1> QED
    BY <1>1, <1>2, <1>3, TypeCorrect, PTL DEF Spec

=============================================================================
