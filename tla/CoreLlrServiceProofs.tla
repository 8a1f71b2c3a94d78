------------------------ MODULE CoreLlrServiceProofs ------------------------
(***************************************************************************)
(* Theorems about CoreLlr, for any set of clients and any number of calls, *)
(* while no setting is refused and no interrupt fails to be enabled: every *)
(* accepted setup and start is answered once, and the LLR implements       *)
(* LlrService.                                                             *)
(***************************************************************************)
EXTENDS MCCoreLlr, CoreLlrProofs

(* The threads that have decided an attempt and not answered it *)
Deciders(p) == {t \in Threads : pc[t] \in Deciding(p)}

(* What a state and what a thread's step count for *)
Undecided(p) == IF state = Busy[p] THEN 1 ELSE 0
Share(l, p)  == IF l \in Deciding(p) THEN 1 ELSE 0

(* AnsweredOnce, and that the number it compares is one: nothing says that   *)
(* there are finitely many clients.                                          *)
AnswerInv ==
    \A p \in Attempts :
        /\ IsFiniteSet(Deciders(p))
        /\ due[p] = Undecided(p) + Cardinality(Deciders(p))

(* Only the steps of an attempt's own end are deciding. *)
LEMMA DecidingFacts ==
    /\ \A p, q \in Attempts : <<"cancel", p>> \in Deciding(q) <=> p = q
    /\ \A p, q \in Attempts : <<"teardown", p>> \in Deciding(q) <=> p = q
    /\ \A p, q \in Attempts : <<"cb", p>> \in Deciding(q) <=> p = q
    /\ \A p, q \in Attempts : <<"wait", p>> \in Deciding(q) <=> p = q
    /\ \A p, q \in Attempts : <<"wait", TimeoutWork[p]>> \in Deciding(q) <=> p = q
    /\ \A p, q \in Attempts : <<"wait", IntrWork[p]>> \in Deciding(q) <=> p = q
    /\ \A p, q \in Attempts : <<"store", p>> \notin Deciding(q)
    /\ \A p, q \in Attempts : <<"arm", p>> \notin Deciding(q)
    /\ \A p, q \in Attempts : <<"queue", p>> \notin Deciding(q)
    /\ \A p, q \in Attempts : <<"stop", p>> \notin Deciding(q)
    /\ \A p, q \in Attempts : <<"enable", p>> \notin Deciding(q)
    /\ \A p, q \in Attempts : <<"check", p>> \notin Deciding(q)
    /\ \A p, q \in Attempts : <<"disarm", p>> \notin Deciding(q)
    /\ \A p, q \in Attempts : <<"publish", p>> \notin Deciding(q)
    /\ \A p, q \in Attempts : <<"settle", p>> \notin Deciding(q)
    /\ \A p, q \in Attempts : <<"complete", p>> \notin Deciding(q)
    /\ \A w \in Works, q \in Attempts : <<"del", w>> \notin Deciding(q)
    /\ \A q \in Attempts : Idle \notin Deciding(q)
    /\ \A q \in Attempts : <<"del", "none">> \notin Deciding(q)
    /\ \A q \in Attempts : <<"freed", "none">> \notin Deciding(q)
    /\ \A q \in Attempts : <<"stop_wait", "none">> \notin Deciding(q)
  BY DEF Deciding, Attempts, TimeoutWork, IntrWork, Idle

(* The count changes with the one thread that takes a step. *)
LEMMA Balance ==
    ASSUME TypeOK, AnswerInv, NEW t \in Threads, NEW l, Go(t, l),
           NEW p \in Attempts,
           due'[p] = due[p] + Undecided(p)' - Undecided(p)
                            + Share(l, p) - Share(pc[t], p)
    PROVE  IsFiniteSet(Deciders(p))' /\ (due[p] = Undecided(p) + Cardinality(Deciders(p)))'
  <1>1. pc'[t] = l /\ \A u \in Threads : u # t => pc'[u] = pc[u]
    BY Others
  <1>2. IsFiniteSet(Deciders(p)) /\ due[p] = Undecided(p) + Cardinality(Deciders(p))
    BY DEF AnswerInv
  <1>3. Cardinality(Deciders(p)) \in Nat /\ Undecided(p) \in 0..1 /\ Undecided(p)' \in 0..1
    BY <1>2, FS_CardinalityType DEF Undecided
  <1>4. CASE l \in Deciding(p) /\ pc[t] \notin Deciding(p)
    <2>1. Deciders(p)' = Deciders(p) \cup {t} /\ t \notin Deciders(p)
      BY <1>1, <1>4 DEF Deciders, Deciding
    <2>2. IsFiniteSet(Deciders(p)')
          /\ Cardinality(Deciders(p)') = Cardinality(Deciders(p)) + 1
      BY <1>2, <2>1, FS_AddElement
    <2>3. Share(l, p) = 1 /\ Share(pc[t], p) = 0
      BY <1>4 DEF Share
    <2> QED
      BY <1>2, <1>3, <2>2, <2>3
  <1>5. CASE l \notin Deciding(p) /\ pc[t] \in Deciding(p)
    <2>1. Deciders(p)' = Deciders(p) \ {t} /\ t \in Deciders(p)
      BY <1>1, <1>5 DEF Deciders, Deciding
    <2>2. IsFiniteSet(Deciders(p)')
          /\ Cardinality(Deciders(p)') = Cardinality(Deciders(p)) - 1
      BY <1>2, <2>1, FS_RemoveElement
    <2>3. Share(l, p) = 0 /\ Share(pc[t], p) = 1
      BY <1>5 DEF Share
    <2> QED
      BY <1>2, <1>3, <2>2, <2>3
  <1>6. CASE l \in Deciding(p) <=> pc[t] \in Deciding(p)
    <2>1. Deciders(p)' = Deciders(p)
      BY <1>1, <1>6 DEF Deciders, Deciding
    <2>2. Share(l, p) = Share(pc[t], p) /\ Share(l, p) \in 0..1
      BY <1>6 DEF Share
    <2> QED
      BY <1>2, <1>3, <2>1, <2>2
  <1> QED
    BY <1>4, <1>5, <1>6

(* A step that decides, answers and begins nothing *)
LEMMA NoAnswer ==
    ASSUME TypeOK, AnswerInv, NEW t \in Threads, NEW l, Go(t, l), due' = due,
           \A p \in Attempts : Undecided(p)' = Undecided(p),
           \A p \in Attempts : l \in Deciding(p) <=> pc[t] \in Deciding(p)
    PROVE  AnswerInv'
  <1> SUFFICES ASSUME NEW p \in Attempts
               PROVE  IsFiniteSet(Deciders(p))' /\ (due[p] = Undecided(p) + Cardinality(Deciders(p)))'
    BY DEF AnswerInv
  <1>1. due[p] \in Int /\ Undecided(p) \in Int
    BY DEF TypeOK, Undecided
  <1>2. Share(l, p) = Share(pc[t], p) /\ Share(l, p) \in Int
    BY DEF Share
  <1> QED
    BY <1>1, <1>2, Balance

(* A step that decides attempt p *)
LEMMA Decided ==
    ASSUME TypeOK, AnswerInv, NEW t \in Threads, NEW l, Go(t, l), due' = due,
           NEW p \in Attempts, state = Busy[p],
           \A q \in Attempts : state' # Busy[q],
           \A q \in Attempts : l \in Deciding(q) <=> p = q,
           \A q \in Attempts : pc[t] \notin Deciding(q)
    PROVE  AnswerInv'
  <1> SUFFICES ASSUME NEW q \in Attempts
               PROVE  IsFiniteSet(Deciders(q))' /\ (due[q] = Undecided(q) + Cardinality(Deciders(q)))'
    BY DEF AnswerInv
  <1>1. due[q] \in Int
    BY DEF TypeOK
  <1>2. Undecided(q) = (IF p = q THEN 1 ELSE 0) /\ Undecided(q)' = 0
    BY BusyFacts DEF Undecided
  <1>3. Share(l, q) = (IF p = q THEN 1 ELSE 0) /\ Share(pc[t], q) = 0
    BY DEF Share
  <1>4. due'[q] = due[q] + Undecided(q)' - Undecided(q) + Share(l, q) - Share(pc[t], q)
    BY <1>1, <1>2, <1>3
  <1> QED
    BY <1>4, Balance

(* A step that answers attempt p *)
LEMMA Answered ==
    ASSUME TypeOK, AnswerInv, NEW t \in Threads, NEW l, Go(t, l), state' = state,
           NEW p \in Attempts, Callback(p),
           \A q \in Attempts : pc[t] \in Deciding(q) <=> p = q,
           \A q \in Attempts : l \notin Deciding(q)
    PROVE  AnswerInv'
  <1> SUFFICES ASSUME NEW q \in Attempts
               PROVE  IsFiniteSet(Deciders(q))' /\ (due[q] = Undecided(q) + Cardinality(Deciders(q)))'
    BY DEF AnswerInv
  <1>1. due[q] \in Int /\ due'[q] = due[q] - (IF p = q THEN 1 ELSE 0)
    BY DEF TypeOK, Callback
  <1>2. Undecided(q)' = Undecided(q) /\ Undecided(q) \in Int
    BY DEF Undecided
  <1>3. Share(l, q) = 0 /\ Share(pc[t], q) = IF p = q THEN 1 ELSE 0
    BY DEF Share
  <1>4. due'[q] = due[q] + Undecided(q)' - Undecided(q) + Share(l, q) - Share(pc[t], q)
    BY <1>1, <1>2, <1>3
  <1> QED
    BY <1>4, Balance

(* A step of no thread *)
LEMMA NoThreadAnswers ==
    ASSUME AnswerInv, UNCHANGED <<state, pc, due>>
    PROVE  AnswerInv'
  BY DEF AnswerInv, Deciders, Deciding, Undecided

-----------------------------------------------------------------------------
(* The steps of clients *)

LEMMA AnswersOfBegin ==
    ASSUME TypeOK, AnswerInv, MaxFaults = 0,
           NEW c \in Clients, NEW p \in Attempts, LlrBegin(c, p)
    PROVE  AnswerInv'
  <1> SUFFICES ASSUME NEW q \in Attempts
               PROVE  IsFiniteSet(Deciders(q))' /\ (due[q] = Undecided(q) + Cardinality(Deciders(q)))'
    BY DEF AnswerInv
  <1>1. c \in Threads /\ pc[c] = Idle /\ Go(c, <<"store", p>>)
        /\ due' = [due EXCEPT ![p] = @ + 1]
    BY ThreadFacts DEF LlrBegin, Calling, Fault, TypeOK
  <1>2. due[q] \in Int /\ due'[q] = due[q] + (IF p = q THEN 1 ELSE 0)
    BY <1>1 DEF TypeOK
  <1>3. Undecided(q) = 0 /\ Undecided(q)' = IF p = q THEN 1 ELSE 0
    BY BusyFacts DEF LlrBegin, Undecided
  <1>4. Share(pc[c], q) = 0 /\ Share(<<"store", p>>, q) = 0
    BY <1>1, DecidingFacts DEF Share
  <1>5. due'[q] = due[q] + Undecided(q)' - Undecided(q)
                         + Share(<<"store", p>>, q) - Share(pc[c], q)
    BY <1>2, <1>3, <1>4
  <1> QED
    BY <1>1, <1>5, Balance

LEMMA AnswersOfDecision ==
    ASSUME TypeOK, AnswerInv, NEW c \in Clients,
           pc[c] = Idle, StopDecision(c), due' = due
    PROVE  AnswerInv'
  <1>1. c \in Threads /\ \A q \in Attempts : pc[c] \notin Deciding(q)
    BY ThreadFacts, DecidingFacts
  <1>2. Returned \in {Idle, <<"del", "none">>}
    BY DEF Returned
  <1>3. ASSUME NEW l \in {Idle, <<"del", "none">>, <<"stop_wait", "none">>},
               Go(c, l), state' = state
        PROVE  AnswerInv'
    BY <1>1, <1>3, DecidingFacts, NoAnswer DEF Undecided
  <1>4. ASSUME NEW p \in Attempts, state = Busy[p], state' = Canceling[p],
               Go(c, <<"cancel", p>>)
        PROVE  AnswerInv'
    <2>1. \A q \in Attempts : state' # Busy[q]
                              /\ (<<"cancel", p>> \in Deciding(q) <=> p = q)
      BY <1>4, BusyFacts, DecidingFacts
    <2> QED
      BY <1>1, <1>4, <2>1, Decided
  <1>5. ASSUME NEW p \in Attempts, state \in {"SETUP", "RUNNING"},
               state' = StopState[p], Go(c, <<"stop", p>>)
        PROVE  AnswerInv'
    <2>1. \A q \in Attempts : Undecided(q)' = Undecided(q)
      BY <1>5, BusyFacts DEF Undecided
    <2> QED
      BY <1>1, <1>5, <2>1, DecidingFacts, NoAnswer
  <1> QED
    BY <1>2, <1>3, <1>4, <1>5 DEF StopDecision, StopState, Attempts

LEMMA AnswersOfCall ==
    ASSUME TypeOK, AnswerInv, MaxFaults = 0, NEW c \in Clients, ClientCall(c)
    PROVE  AnswerInv'
  <1>1. CASE LlrConfigSet(c)
    <2>1. \A q \in Attempts : Undecided(q)' = Undecided(q)
      BY <1>1, BusyFacts DEF LlrConfigSet, Undecided
    <2>2. pc' = pc /\ due' = due
      BY <1>1 DEF LlrConfigSet, answer
    <2> QED
      BY <2>1, <2>2 DEF AnswerInv, Deciders, Deciding
  <1>2. CASE LlrStop(c) \/ LlrRelease(c)
    BY <1>2, AnswersOfDecision DEF LlrStop, LlrRelease, Calling, answer
  <1>3. CASE \E p \in Attempts : LlrBegin(c, p)
    BY <1>3, AnswersOfBegin
  <1> QED
    BY <1>1, <1>2, <1>3 DEF ClientCall

LEMMA AnswersOfCancelCmd ==
    ASSUME TypeOK, SettlerInv, AnswerInv, NEW c \in Clients, NEW p \in Attempts,
           CancelCmd(c, p)
    PROVE  AnswerInv'
  <1>1. c \in Threads
    BY ThreadFacts
  <1>2. ASSUME NEW w \in {p, TimeoutWork[p], IntrWork[p]},
               pc[c] \in {<<"cancel", p>>, <<"wait", p>>,
                          <<"wait", TimeoutWork[p]>>},
               Go(c, <<"wait", w>>), state' = state, due' = due
        PROVE  AnswerInv'
    <2>1. \A q \in Attempts : pc[c] \in Deciding(q) <=> <<"wait", w>> \in Deciding(q)
      BY <1>2, DecidingFacts
    <2> QED
      BY <1>1, <1>2, <2>1, NoAnswer DEF Undecided
  <1>3. ASSUME Waited(c, "wait", IntrWork[p]), state' = From[p],
               Go(c, <<"cb", p>>), due' = due
        PROVE  AnswerInv'
    <2>1. Settling(c)
      BY <1>1, <1>3, AttemptFacts DEF Settling, Waited, At
    <2>2. state \in Transient
      BY <1>1, <2>1, OwnsTransient DEF SettlerInv
    <2>3. \A q \in Attempts : Undecided(q)' = Undecided(q)
      BY <1>3, <2>2, BusyFacts DEF Undecided
    <2>4. \A q \in Attempts : pc[c] \in Deciding(q) <=> <<"cb", p>> \in Deciding(q)
      BY <1>3, DecidingFacts DEF Waited, At
    <2> QED
      BY <1>1, <1>3, <2>3, <2>4, NoAnswer
  <1>4. ASSUME At(c, "cb", p), Callback(p), Go(c, <<"complete", p>>), state' = state
        PROVE  AnswerInv'
    BY <1>1, <1>4, DecidingFacts, Answered DEF At
  <1> QED
    BY <1>2, <1>3, <1>4 DEF CancelCmd, Cancel, Waited, At, answer

LEMMA AnswersOfClientStep ==
    ASSUME TypeOK, SettlerInv, AnswerInv, NEW c \in Clients, ClientStep(c)
    PROVE  AnswerInv'
  <1>1. c \in Threads
    BY ThreadFacts
  <1>2. ASSUME NEW l, Go(c, l), UNCHANGED <<state, due>>,
               \A q \in Attempts : pc[c] \notin Deciding(q) /\ l \notin Deciding(q)
        PROVE  AnswerInv'
    BY <1>1, <1>2, NoAnswer DEF Undecided
  <1>3. Returned \in {Idle, <<"del", "none">>}
    BY DEF Returned
  <1>4. ASSUME NEW p \in Attempts,
               CmdStore(c, p) \/ TimerBegin(c, p) \/ CmdQueue(c, p)
                   \/ StopComplete(c, p)
        PROVE  AnswerInv'
    <2>1. PICK l \in {<<"arm", p>>, <<"queue", p>>, Idle, <<"del", "none">>} :
             Go(c, l)
      BY <1>3, <1>4 DEF CmdStore, TimerBegin, CmdQueue, StopComplete
    <2>2. pc[c] \in {<<"store", p>>, <<"arm", p>>, <<"queue", p>>, <<"complete", p>>}
          /\ UNCHANGED <<state, due>>
      BY <1>4 DEF CmdStore, TimerBegin, CmdQueue, StopComplete, At, answer
    <2> QED
      BY <1>2, <2>1, <2>2, DecidingFacts
  <1>5. ASSUME NEW p \in Attempts, StopCmd(c, p)
        PROVE  AnswerInv'
    <2>1. Settling(c) /\ pc[c] = <<"stop", p>> /\ Go(c, <<"complete", p>>)
      BY <1>5 DEF StopCmd, Settling, At
    <2>2. state \in Transient
      BY <1>1, <2>1, OwnsTransient DEF SettlerInv
    <2>3. state' = From[p] /\ due' = due
      BY <1>5 DEF StopCmd, answer
    <2>4. \A q \in Attempts : Undecided(q)' = Undecided(q)
      BY <2>2, <2>3, BusyFacts DEF Undecided
    <2> QED
      BY <1>1, <2>1, <2>3, <2>4, DecidingFacts, NoAnswer
  <1>6. CASE StopWaited(c) \/ StopTimedOut(c)
    <2>1. PICK l \in {Idle, <<"del", "none">>} : Go(c, l)
      BY <1>3, <1>6 DEF StopWaited, StopTimedOut
    <2>2. pc[c] = <<"stop_wait", "none">> /\ UNCHANGED <<state, due>>
      BY <1>6 DEF StopWaited, StopTimedOut, At, answer
    <2> QED
      BY <1>2, <2>1, <2>2, DecidingFacts
  <1>7. CASE LlrDel(c)
    <2>1. \A w \in DOMAIN DelNext : w \in Works /\ DelNext[w] \in Works
      BY AttemptFacts DEF DelNext
    <2>2. UNCHANGED <<state, due>>
          /\ \A q \in Attempts : pc[c] \notin Deciding(q)
      <3>1. \/ pc[c] = <<"del", "none">>
            \/ \E w \in Works : pc[c] = <<"del", w>>
        BY <1>7, <2>1, AttemptFacts DEF LlrDel, Waited, At
      <3> QED
        BY <1>7, <3>1, DecidingFacts DEF LlrDel, answer
    <2>3. CASE Go(c, <<"freed", "none">>)
      BY <1>2, <2>2, <2>3, DecidingFacts
    <2>4. ASSUME NEW w \in Works, Go(c, <<"del", w>>)
          PROVE  AnswerInv'
      BY <1>2, <2>2, <2>4, DecidingFacts
    <2> QED
      BY <1>7, <2>1, <2>3, <2>4, AttemptFacts DEF LlrDel, Cancel
  <1> QED
    BY <1>4, <1>5, <1>6, <1>7, AnswersOfCancelCmd DEF ClientStep

-----------------------------------------------------------------------------
(* The steps of works *)

LEMMA AnswersOfWork ==
    ASSUME TypeOK, SettlerInv, AnswerInv, MaxFaults = 0,
           NEW p \in Attempts, AttemptWork(p)
    PROVE  AnswerInv'
  <1>1. p \in Threads /\ ~Settling(p)
    BY AttemptFacts, ThreadFacts, WorkSettlesNot
  <1>2. ~At(p, "fail", p) /\ ~Waited(p, "wait", IntrWork[p]) /\ ~Fault
    <2>1. ~At(p, "fail", p)
      BY <1>1 DEF Settling, At
    <2>2. ~Waited(p, "wait", IntrWork[p])
      BY <1>1, AttemptFacts DEF Settling, Waited
    <2>3. ~Fault
      BY DEF Fault, TypeOK
    <2> QED
      BY <2>1, <2>2, <2>3
  <1>3. CASE At(p, "cb", p) /\ Callback(p) /\ Go(p, <<"complete", p>>) /\ state' = state
    BY <1>1, <1>3, DecidingFacts, Answered DEF At
  <1>4. ASSUME UNCHANGED <<state, due>>,
               pc[p] \in {Idle, <<"enable", p>>, <<"complete", p>>},
               NEW l \in {<<"enable", p>>, Idle}, Go(p, l)
        PROVE  AnswerInv'
    BY <1>1, <1>4, DecidingFacts, NoAnswer DEF Undecided
  <1> QED
    BY <1>2, <1>3, <1>4 DEF AttemptWork, Take, At, answer

LEMMA AnswersOfIntrWork ==
    ASSUME TypeOK, AnswerInv, NEW p \in Attempts, AttemptIntrWork(p)
    PROVE  AnswerInv'
  <1> DEFINE w == IntrWork[p]
  <1>1. w \in Threads
    BY AttemptFacts, ThreadFacts
  <1>2. ASSUME UNCHANGED <<state, due>>,
               pc[w] \in {Idle, <<"check", p>>, <<"disarm", p>>, <<"publish", p>>},
               NEW l \in {<<"check", p>>, <<"disarm", p>>, <<"publish", p>>, Idle},
               Go(w, l)
        PROVE  AnswerInv'
    BY <1>1, <1>2, DecidingFacts, NoAnswer DEF Undecided
  <1>3. CASE At(w, "publish", p) /\ state = Busy[p] /\ state' = Done[p]
             /\ Go(w, <<"cb", p>>) /\ due' = due
    <2>1. \A q \in Attempts : state' # Busy[q] /\ pc[w] \notin Deciding(q)
                              /\ (<<"cb", p>> \in Deciding(q) <=> p = q)
      BY <1>3, BusyFacts, DecidingFacts DEF At
    <2> QED
      BY <1>1, <1>3, <2>1, Decided
  <1>4. CASE At(w, "cb", p) /\ Callback(p) /\ Go(w, Idle) /\ state' = state
    BY <1>1, <1>4, DecidingFacts, Answered DEF At
  <1> QED
    BY <1>2, <1>3, <1>4 DEF AttemptIntrWork, Claim, Take, At, answer

LEMMA AnswersOfTimeoutWork ==
    ASSUME TypeOK, SettlerInv, AnswerInv, NEW p \in Attempts, AttemptTimeoutWork(p)
    PROVE  AnswerInv'
  <1> DEFINE w == TimeoutWork[p]
  <1>1. w \in Threads
    BY AttemptFacts, ThreadFacts
  <1>2. CASE pc[w] = Idle /\ state = Busy[p] /\ state' = TimedOut[p]
             /\ Go(w, <<"teardown", p>>) /\ due' = due
    <2>1. \A q \in Attempts : state' # Busy[q] /\ pc[w] \notin Deciding(q)
                              /\ (<<"teardown", p>> \in Deciding(q) <=> p = q)
      BY <1>2, BusyFacts, DecidingFacts
    <2> QED
      BY <1>1, <1>2, <2>1, Decided
  <1>3. ASSUME UNCHANGED <<state, due>>, Go(w, Idle),
               pc[w] \in {Idle, <<"complete", p>>}
        PROVE  AnswerInv'
    BY <1>1, <1>3, DecidingFacts, NoAnswer DEF Undecided
  <1>4. ASSUME UNCHANGED <<state, due>>,
               pc[w] \in {<<"teardown", p>>, <<"wait", p>>, <<"wait", IntrWork[p]>>},
               NEW l \in {<<"wait", p>>, <<"wait", IntrWork[p]>>, <<"cb", p>>},
               Go(w, l)
        PROVE  AnswerInv'
    <2>1. \A q \in Attempts : pc[w] \in Deciding(q) <=> l \in Deciding(q)
      BY <1>4, DecidingFacts
    <2> QED
      BY <1>1, <1>4, <2>1, NoAnswer DEF Undecided
  <1>5. CASE At(w, "cb", p) /\ Callback(p) /\ Go(w, <<"settle", p>>) /\ state' = state
    BY <1>1, <1>5, DecidingFacts, Answered DEF At
  <1>6. CASE At(w, "settle", p) /\ state' = From[p] /\ Go(w, <<"complete", p>>)
             /\ due' = due
    <2>1. state \in Transient
      BY <1>1, <1>6, OwnsTransient DEF SettlerInv, Settling, At
    <2>2. \A q \in Attempts : Undecided(q)' = Undecided(q)
      BY <1>6, <2>1, BusyFacts DEF Undecided
    <2> QED
      BY <1>1, <1>6, <2>2, DecidingFacts, NoAnswer DEF At
  <1> QED
    BY <1>2, <1>3, <1>4, <1>5, <1>6
       DEF AttemptTimeoutWork, Claim, Take, Cancel, Waited, At, answer

LEMMA AnswersStep ==
    ASSUME TypeOK, SettlerInv, AnswerInv, MaxFaults = 0, [Next]_vars
    PROVE  AnswerInv'
  <1>1. CASE UNCHANGED vars
    BY <1>1, NoThreadAnswers DEF vars
  <1>2. ASSUME NEW c \in Clients, ClientCall(c) \/ ClientStep(c)
        PROVE  AnswerInv'
    BY <1>2, AnswersOfCall, AnswersOfClientStep
  <1>3. ASSUME NEW p \in Attempts, WorkStep(p)
        PROVE  AnswerInv'
    BY <1>3, AnswersOfWork, AnswersOfIntrWork, AnswersOfTimeoutWork DEF WorkStep
  <1>4. ASSUME NEW p \in Attempts, TimerExpire(p) \/ IntrFire(p)
        PROVE  AnswerInv'
    BY <1>4, NoThreadAnswers DEF TimerExpire, IntrFire, answer
  <1>5. CASE Gone
    BY <1>1, <1>5 DEF Gone
  <1> QED
    BY <1>1, <1>2, <1>3, <1>4, <1>5 DEF Next

LEMMA AnswersInit == Init => AnswerInv
  <1> SUFFICES ASSUME Init, NEW p \in Attempts
               PROVE  IsFiniteSet(Deciders(p)) /\ due[p] = Undecided(p) + Cardinality(Deciders(p))
    BY DEF AnswerInv
  <1>1. Deciders(p) = {}
    BY DecidingFacts DEF Init, Deciders
  <1>2. Undecided(p) = 0 /\ due[p] = 0
    BY BusyFacts DEF Init, Undecided
  <1> QED
    BY <1>1, <1>2, FS_EmptySet

(* The answers are counted right in every reachable state.                   *)
THEOREM AnswerInvAlways ==
    ASSUME MaxFaults = 0
    PROVE  Spec => []AnswerInv
  BY AnswersInit, AnswersStep, TypeCorrect, SettlersUnique, PTL DEF Spec

(* Every accepted setup and start is owed exactly one callback, by its busy  *)
(* state or by the one thread that decided it: none is called twice or       *)
(* dropped, however many clients, works, timers and stops race for it.       *)
THEOREM AnsweredOnceAlways ==
    ASSUME MaxFaults = 0
    PROVE  Spec => []AnsweredOnce
  <1>1. AnswerInv => AnsweredOnce
    BY DEF AnswerInv, AnsweredOnce, Undecided, Deciders
  <1> QED
    BY <1>1, AnswerInvAlways, PTL

-----------------------------------------------------------------------------
(* The LLR implements its service                                            *)

(* What answers an attempt is one of its deciders: a callback is owed. *)
LEMMA AnswerIsDue ==
    ASSUME TypeOK, AnswerInv, NEW p \in Attempts, NEW t \in Threads,
           At(t, "cb", p), Callback(p), state' = state
    PROVE  Service!Answer(p)
  <1>1. t \in Deciders(p)
    BY DecidingFacts DEF Deciders, At
  <1>2. IsFiniteSet(Deciders(p)) /\ Cardinality(Deciders(p)) \in Nat
        /\ Cardinality(Deciders(p)) # 0
    BY <1>1, FS_CardinalityType, FS_EmptySet DEF AnswerInv
  <1>3. due[p] = Undecided(p) + Cardinality(Deciders(p))
    BY DEF AnswerInv
  <1>4. due[p] > IF state = Service!Busy[p] THEN 1 ELSE 0
    BY <1>2, <1>3 DEF Undecided, Busy, Service!Busy
  <1> QED
    BY <1>4 DEF Service!Answer, Callback

(* The edges of the diagram that the commands, the works and the stops take  *)
LEMMA EdgeFacts ==
    \A p \in Attempts :
        /\ <<Busy[p], Done[p]>> \in Service!Edges
        /\ <<Busy[p], TimedOut[p]>> \in Service!Edges
        /\ <<Busy[p], Canceling[p]>> \in Service!Edges
        /\ <<TimedOut[p], From[p]>> \in Service!Edges
        /\ <<Canceling[p], From[p]>> \in Service!Edges
        /\ <<Done[p], StopState[p]>> \in Service!Edges
        /\ <<StopState[p], From[p]>> \in Service!Edges
  BY DEF Attempts, From, Busy, Done, TimedOut, Canceling, StopState, Service!Edges

(* A settler leaves the transient state it owns. *)
LEMMA SettlerLeaves ==
    ASSUME SettlerInv, NEW p \in Attempts
    PROVE  /\ \A c \in Clients : pc[c] = <<"wait", IntrWork[p]>> => state = Canceling[p]
           /\ \A c \in Clients : pc[c] = <<"stop", p>> => state = StopState[p]
           /\ pc[TimeoutWork[p]] = <<"settle", p>> => state = TimedOut[p]
  <1>1. ASSUME NEW c \in Clients, pc[c] = <<"wait", IntrWork[p]>>
        PROVE  state = Canceling[p]
    <2>1. c \in Threads /\ Settling(c)
      BY <1>1, ThreadFacts, AttemptFacts DEF Settling, At
    <2> QED
      BY <1>1, <2>1, ThreadFacts, AttemptFacts DEF SettlerInv, Owns
  <1>2. ASSUME NEW c \in Clients, pc[c] = <<"stop", p>>
        PROVE  state = StopState[p]
    <2>1. c \in Threads /\ Settling(c)
      BY <1>2, ThreadFacts DEF Settling, At
    <2> QED
      BY <1>2, <2>1, ThreadFacts DEF SettlerInv, Owns
  <1>3. ASSUME pc[TimeoutWork[p]] = <<"settle", p>>
        PROVE  state = TimedOut[p]
    <2>1. TimeoutWork[p] \in Threads /\ Settling(TimeoutWork[p])
      BY <1>3, ThreadFacts, AttemptFacts DEF Settling, At
    <2> QED
      BY <1>3, <2>1, ThreadFacts DEF SettlerInv, Owns
  <1> QED
    BY <1>1, <1>2, <1>3

LEMMA ServiceOfClient ==
    ASSUME TypeOK, SettlerInv, AnswerInv, MaxFaults = 0, NEW c \in Clients,
           ClientCall(c) \/ ClientStep(c)
    PROVE  [Service!Next]_Service!vars
  <1> USE DEF answer
  <1>1. CASE LlrConfigSet(c)
    BY <1>1 DEF LlrConfigSet, Service!Next, Service!Move, Service!Edges, Service!vars
  <1>2. CASE \E p \in Attempts : LlrBegin(c, p)
    <2>1. PICK p \in Attempts : LlrBegin(c, p)
      BY <1>2
    <2>2. due' = [due EXCEPT ![p] = @ + 1]
      BY <2>1 DEF LlrBegin, Fault, TypeOK
    <2>3. Service!Accept(p)
      BY <2>1, <2>2 DEF LlrBegin, Service!Accept, From, Busy, Service!From, Service!Busy
    <2> QED
      BY <2>3 DEF Service!Next, Attempts, Service!Attempts
  <1>3. CASE LlrStop(c) \/ LlrRelease(c)
    <2>1. StopDecision(c) /\ due' = due
      BY <1>3 DEF LlrStop, LlrRelease
    <2>2. state' = state \/ <<state, state'>> \in Service!Edges
      BY <2>1, EdgeFacts DEF StopDecision, Service!Edges
    <2> QED
      BY <2>1, <2>2 DEF Service!Next, Service!Move, Service!vars
  <1>4. ASSUME NEW p \in Attempts, CancelCmd(c, p)
        PROVE  [Service!Next]_Service!vars
    <2>1. CASE Waited(c, "wait", IntrWork[p]) /\ state' = From[p] /\ due' = due
      BY <2>1, SettlerLeaves, EdgeFacts
         DEF Waited, At, Service!Next, Service!Move
    <2>2. CASE At(c, "cb", p) /\ Callback(p) /\ state' = state
      BY <2>2, ThreadFacts, AnswerIsDue
         DEF Service!Next, Attempts, Service!Attempts
    <2> QED
      BY <1>4, <2>1, <2>2 DEF CancelCmd, Service!vars
  <1>5. ASSUME NEW p \in Attempts, StopCmd(c, p)
        PROVE  [Service!Next]_Service!vars
    BY <1>5, SettlerLeaves, EdgeFacts DEF StopCmd, At, Service!Next, Service!Move
  <1>6. CASE UNCHANGED <<state, due>>
    BY <1>6 DEF Service!vars
  <1> QED
    BY <1>1, <1>2, <1>3, <1>4, <1>5, <1>6
       DEF ClientCall, ClientStep, CmdStore, TimerBegin, CmdQueue, StopComplete,
           StopWaited, StopTimedOut, LlrDel

LEMMA ServiceOfWork ==
    ASSUME TypeOK, SettlerInv, AnswerInv, NEW p \in Attempts, WorkStep(p)
    PROVE  [Service!Next]_Service!vars
  <1> USE DEF answer
  <1>1. {p, TimeoutWork[p], IntrWork[p]} \subseteq Threads
    BY ThreadFacts, AttemptFacts
  <1>2. ASSUME NEW t \in Threads, At(t, "cb", p), Callback(p), state' = state
        PROVE  [Service!Next]_Service!vars
    BY <1>2, AnswerIsDue DEF Service!Next, Attempts, Service!Attempts
  <1>3. ASSUME <<state, state'>> \in Service!Edges, due' = due
        PROVE  [Service!Next]_Service!vars
    BY <1>3 DEF Service!Next, Service!Move
  <1>4. ASSUME UNCHANGED <<state, due>>
        PROVE  [Service!Next]_Service!vars
    BY <1>4 DEF Service!vars
  <1>5. CASE AttemptWork(p)
    <2>1. ~Settling(p)
      BY WorkSettlesNot
    <2>2. ~At(p, "fail", p)
      BY <2>1 DEF Settling, At
    <2>3. ~Waited(p, "wait", IntrWork[p])
      BY <2>1, AttemptFacts DEF Settling, Waited
    <2> QED
      BY <1>1, <1>2, <1>4, <1>5, <2>2, <2>3 DEF AttemptWork
  <1>6. CASE AttemptIntrWork(p)
    BY <1>1, <1>2, <1>3, <1>4, <1>6, EdgeFacts DEF AttemptIntrWork, Claim
  <1>7. CASE AttemptTimeoutWork(p)
    BY <1>1, <1>2, <1>3, <1>4, <1>7, EdgeFacts, SettlerLeaves
       DEF AttemptTimeoutWork, Claim, At
  <1> QED
    BY <1>5, <1>6, <1>7 DEF WorkStep

LEMMA ServiceStep ==
    ASSUME TypeOK, SettlerInv, AnswerInv, MaxFaults = 0, [Next]_vars
    PROVE  [Service!Next]_Service!vars
  <1>1. CASE UNCHANGED <<state, due>>
    BY <1>1 DEF Service!vars
  <1> QED
    BY <1>1, ServiceOfClient, ServiceOfWork
       DEF Next, TimerExpire, IntrFire, Gone, vars, answer

(* The LLR implements LlrService for any clients and any number of calls:    *)
(* its state takes only the edges of the diagram beside its enum, and every  *)
(* accepted attempt is answered once, never while it is still busy.          *)
THEOREM ServiceKept ==
    ASSUME MaxFaults = 0
    PROVE  Spec => KeepsService
  <1>1. Init => Service!Init
    BY DEF Init, Service!Init, Attempts, Service!Attempts
  <1> QED
    BY <1>1, ServiceStep, TypeCorrect, SettlersUnique, AnswerInvAlways, PTL
       DEF Spec, KeepsService, Service!Spec

=============================================================================
