-------------------------- MODULE LgrpNotifProofs --------------------------
(***************************************************************************)
(* Theorems about LgrpNotif, for any number of threads, clients, slots and *)
(* messages and any two sizes of message and fifo: its type invariant, that *)
(* no client is called after it unregistered, and that no message is left  *)
(* in the fifo without a work that will take it out.                       *)
(***************************************************************************)
EXTENDS LgrpNotif, SequenceTheorems, TLAPS

Messages == (1..MaxMsgs) \X Types

(* A thread may be sent to a label: what the label carries is a message. *)
Carries(l) ==
    /\ l[1] = "put" => l[2] \in Messages
    /\ l[1] = "announce" => "media" \in Types

TypeInv ==
    /\ TypeOK
    /\ \A t \in Threads : Carries(pc[t])

LEMMA ThreadFacts ==
    /\ Callers \subseteq Threads /\ "work" \in Threads /\ "work" \notin Callers
    /\ Senders \subseteq Callers /\ Listeners \subseteq Callers
    /\ MsgSize \in Nat \ {0} /\ Slots \in Nat \ {0} /\ FifoSize \in Nat
    /\ MaxMsgs \in Nat /\ FifoSize >= MsgSize
  BY ThreadsAssumption, BoundsAssumption DEF Callers, Threads

(* A step moves the thread that takes it and no other. *)
LEMMA GoFacts ==
    ASSUME DOMAIN pc = Threads, NEW t \in Threads, NEW l, Go(t, l)
    PROVE  /\ DOMAIN pc' = Threads
           /\ pc'[t] = l
           /\ \A u \in Threads \ {t} : pc'[u] = pc[u]
  BY DEF Go

LEMMA GoType ==
    ASSUME TypeInv, NEW t \in Threads, NEW l, Go(t, l), Carries(l)
    PROVE  DOMAIN pc' = Threads /\ \A u \in Threads : Carries(pc'[u])
  BY GoFacts DEF TypeInv, TypeOK

LEMMA StepCarries ==
    ASSUME NEW s \in {"queue", "reg", "unreg", "out", "loop", "in_cb", "next",
                      "check", "end", "idle", "reg_poll", "unreg_poll", "cb_poll"},
           NEW n
    PROVE  Carries(<<s, n>>)
  BY DEF Carries

-----------------------------------------------------------------------------
(* The fifo *)

(* Writing n units of a message appends n units. *)
LEMMA PutUnits ==
    ASSUME TypeOK, NEW m \in Messages, NEW n \in 0..MsgSize,
           fifo' = fifo \o [k \in 1..n |-> <<m[1], m[2], k>>]
    PROVE  fifo' \in Seq((1..MaxMsgs) \X Types \X (1..MsgSize))
           /\ Len(fifo') = Len(fifo) + n
  <1> DEFINE U == (1..MaxMsgs) \X Types \X (1..MsgSize)
             put == [k \in 1..n |-> <<m[1], m[2], k>>]
  <1>1. \A k \in 1..n : <<m[1], m[2], k>> \in U
    BY ThreadFacts DEF Messages
  <1>2. n \in Nat
    BY ThreadFacts
  <1>3. put \in Seq(U) /\ Len(put) = n
    BY <1>1, <1>2, IsASeq
  <1>4. fifo \in Seq(U)
    BY DEF TypeOK
  <1> QED
    BY <1>3, <1>4, ConcatProperties

(* Taking a message out leaves the rest. *)
LEMMA TakeUnits ==
    ASSUME TypeOK, Len(fifo) >= MsgSize,
           fifo' = SubSeq(fifo, MsgSize + 1, Len(fifo))
    PROVE  fifo' \in Seq((1..MaxMsgs) \X Types \X (1..MsgSize))
           /\ Len(fifo') <= FifoSize
  <1> DEFINE U == (1..MaxMsgs) \X Types \X (1..MsgSize)
  <1>1. fifo \in Seq(U) /\ Len(fifo) \in Nat /\ Len(fifo) <= FifoSize
    BY DEF TypeOK
  <1>2. \A k \in (MsgSize + 1)..Len(fifo) : k \in 1..Len(fifo)
    BY <1>1, ThreadFacts
  <1>3. fifo' \in Seq(U)
    BY <1>1, <1>2, ThreadFacts, SubSeqProperties
  <1>4. Len(fifo') <= Len(fifo)
    BY <1>1, <1>2, ThreadFacts, SubSeqProperties
  <1>5. Len(fifo') \in Nat
    BY <1>3, LenProperties
  <1>6. Len(fifo') <= FifoSize
    BY <1>1, <1>4, <1>5, ThreadFacts
  <1> QED
    BY <1>3, <1>6

-----------------------------------------------------------------------------
(* The types *)

LEMMA TypeOfEnqueueCheck ==
    ASSUME TypeInv, NEW t \in Callers, NEW type \in Types, EnqueueCheck(t, type),
           UNCHANGED <<listVars, fifo, queued, workVars>>
    PROVE  TypeInv'
  <1>1. msgs' \in 1..MaxMsgs /\ msgs' = msgs + 1
    BY ThreadFacts DEF EnqueueCheck, TypeInv, TypeOK
  <1>2. Carries(<<"put", <<msgs + 1, type>>>>)
    BY <1>1 DEF Carries, Messages
  <1>3. DOMAIN pc' = Threads /\ \A u \in Threads : Carries(pc'[u])
    BY <1>2, ThreadFacts, GoType DEF EnqueueCheck
  <1> QED
    BY <1>1, <1>3 DEF TypeInv, TypeOK, Carries, listVars, workVars

LEMMA TypeOfEnqueuePut ==
    ASSUME TypeInv, NEW t \in Callers, EnqueuePut(t)
    PROVE  TypeInv'
  <1> DEFINE m    == pc[t][2]
             room == FifoSize - Len(fifo)
             n    == IF room < MsgSize THEN room ELSE MsgSize
  <1>1. m \in Messages
    BY ThreadFacts DEF EnqueuePut, At, TypeInv, Carries
  <1>2. Len(fifo) \in Nat /\ Len(fifo) <= FifoSize
    BY LenProperties DEF TypeInv, TypeOK
  <1>3. n \in 0..MsgSize /\ Len(fifo) + n <= FifoSize
    BY <1>2, ThreadFacts
  <1>4. fifo' = fifo \o [k \in 1..n |-> <<m[1], m[2], k>>]
    BY DEF EnqueuePut
  <1>5. fifo' \in Seq((1..MaxMsgs) \X Types \X (1..MsgSize)) /\ Len(fifo') <= FifoSize
    BY <1>1, <1>3, <1>4, PutUnits DEF TypeInv
  <1>6. DOMAIN pc' = Threads /\ \A u \in Threads : Carries(pc'[u])
    BY ThreadFacts, GoType, StepCarries DEF EnqueuePut, Step, Idle
  <1> QED
    BY <1>5, <1>6 DEF EnqueuePut, TypeInv, TypeOK, Carries, listVars, workVars

LEMMA TypeOfPoll ==
    ASSUME TypeInv, NEW t \in Threads,
           NEW poll \in {"reg_poll", "unreg_poll", "cb_poll"},
           NEW free, Carries(free), NEW gaveUp, Carries(gaveUp),
           Poll(t, poll, free, gaveUp)
    PROVE  TypeInv'
  <1>1. Carries(<<poll, pc[t][2] + 1>>)
    BY StepCarries
  <1>2. DOMAIN pc' = Threads /\ \A u \in Threads : Carries(pc'[u])
    BY <1>1, GoType DEF Poll
  <1> QED
    BY <1>2 DEF Poll, TypeInv, TypeOK, Carries, listVars, workVars

LEMMA TypeOfRegister ==
    ASSUME TypeInv, NEW t \in Listeners, RegisterLocked(t) \/ RegisterAnnounce(t)
    PROVE  TypeInv'
  <1>1. CASE RegisterLocked(t)
    <2>1. Carries(IF "media" \in Wanted[t] THEN Step("announce") ELSE Idle)
      BY WantedAssumption DEF Carries, Step, Idle
    <2>2. DOMAIN pc' = Threads /\ \A u \in Threads : Carries(pc'[u])
      BY <1>1, <2>1, ThreadFacts, GoType, StepCarries DEF RegisterLocked, Idle
    <2>3. reg_entry' \in [1..Slots -> Listeners \cup {None}]
          /\ listening' \subseteq Listeners
      BY <1>1 DEF RegisterLocked, TypeInv, TypeOK
    <2> QED
      BY <1>1, <2>2, <2>3 DEF RegisterLocked, TypeInv, TypeOK, Carries, workVars
  <1>2. CASE RegisterAnnounce(t)
    <2>1. CASE EnqueueCheck(t, "media")
      <3>1. "media" \in Types
        BY <1>2, ThreadFacts DEF RegisterAnnounce, At, TypeInv, Carries
      <3> QED
        BY <1>2, <2>1, <3>1, ThreadFacts, TypeOfEnqueueCheck DEF RegisterAnnounce
    <2>2. CASE Go(t, Idle) /\ UNCHANGED msgs
      <3>1. DOMAIN pc' = Threads /\ \A u \in Threads : Carries(pc'[u])
        BY <2>2, ThreadFacts, GoType, StepCarries DEF Idle
      <3> QED
        BY <1>2, <2>2, <3>1
           DEF RegisterAnnounce, TypeInv, TypeOK, Carries, listVars, workVars
    <2> QED
      BY <1>2, <2>1, <2>2 DEF RegisterAnnounce
  <1> QED
    BY <1>1, <1>2

LEMMA TypeOfUnregister ==
    ASSUME TypeInv, NEW t \in Callers, UnregisterLocked(t)
    PROVE  TypeInv'
  <1>1. DOMAIN pc' = Threads /\ \A u \in Threads : Carries(pc'[u])
    BY ThreadFacts, GoType, StepCarries DEF UnregisterLocked, Idle
  <1>2. reg_entry' \in [1..Slots -> Listeners \cup {None}]
        /\ listening' \subseteq Listeners
    BY DEF UnregisterLocked, Remove, TypeInv, TypeOK
  <1> QED
    BY <1>1, <1>2 DEF UnregisterLocked, TypeInv, TypeOK, Carries, workVars

LEMMA TypeOfWork ==
    ASSUME TypeInv, WorkStep
    PROVE  TypeInv'
  <1> USE ThreadFacts DEF Step, Idle
  <1>1. CASE WorkStart
    <2>1. DOMAIN pc' = Threads /\ \A u \in Threads : Carries(pc'[u])
      BY <1>1, GoType, StepCarries DEF WorkStart
    <2> QED
      BY <1>1, <2>1 DEF WorkStart, TypeInv, TypeOK, Carries, workVars
  <1>2. CASE WorkOut
    <2>1. DOMAIN pc' = Threads /\ \A u \in Threads : Carries(pc'[u])
      BY <1>2, GoType, StepCarries DEF WorkOut
    <2>2. Len(fifo) \in Nat
      BY LenProperties DEF TypeInv, TypeOK
    <2>3. fifo' \in Seq((1..MaxMsgs) \X Types \X (1..MsgSize)) /\ Len(fifo') <= FifoSize
      <3>1. CASE Len(fifo) < MsgSize
        BY <1>2, <3>1, EmptySeq DEF WorkOut
      <3>2. CASE Len(fifo) >= MsgSize
        <4>1. ~ (Len(fifo) < MsgSize)
          BY <2>2, <3>2
        <4> QED
          BY <1>2, <3>2, <4>1, TakeUnits DEF WorkOut, TypeInv
      <3> QED
        BY <2>2, <3>1, <3>2
    <2>4. reg_idx' \in 1..Slots /\ told' \subseteq Listeners
      BY <1>2 DEF WorkOut, TypeInv, TypeOK
    <2> QED
      BY <1>2, <2>1, <2>3, <2>4 DEF WorkOut, TypeInv, TypeOK, Carries, listVars
  <1>3. CASE WorkLoop
    <2>1. DOMAIN pc' = Threads /\ \A u \in Threads : Carries(pc'[u])
      BY <1>3, GoType, StepCarries DEF WorkLoop
    <2>2. told' \subseteq Listeners
      BY <1>3 DEF WorkLoop, Wants, TypeInv, TypeOK
    <2> QED
      BY <1>3, <2>1, <2>2 DEF WorkLoop, TypeInv, TypeOK, Carries, listVars
  <1>4. CASE WorkCallback
    <2>1. DOMAIN pc' = Threads /\ \A u \in Threads : Carries(pc'[u])
      BY <1>4, GoType, StepCarries DEF WorkCallback
    <2> QED
      BY <1>4, <2>1 DEF WorkCallback, TypeInv, TypeOK, Carries, listVars, workVars
  <1>5. CASE Poll("work", "cb_poll", Step("next"), Step("next"))
    BY <1>5, TypeOfPoll, StepCarries
  <1>6. CASE WorkNext
    <2>1. DOMAIN pc' = Threads /\ \A u \in Threads : Carries(pc'[u])
      BY <1>6, GoType, StepCarries DEF WorkNext
    <2> QED
      BY <1>6, <2>1 DEF WorkNext, TypeInv, TypeOK, Carries, listVars
  <1>7. CASE WorkCheck
    <2>1. DOMAIN pc' = Threads /\ \A u \in Threads : Carries(pc'[u])
      BY <1>7, GoType, StepCarries DEF WorkCheck
    <2> QED
      BY <1>7, <2>1 DEF WorkCheck, TypeInv, TypeOK, Carries, listVars, workVars
  <1>8. CASE WorkEnd
    <2>1. DOMAIN pc' = Threads /\ \A u \in Threads : Carries(pc'[u])
      BY <1>8, GoType, StepCarries DEF WorkEnd
    <2> QED
      BY <1>8, <2>1 DEF WorkEnd, TypeInv, TypeOK, Carries
  <1> QED
    BY <1>1, <1>2, <1>3, <1>4, <1>5, <1>6, <1>7, <1>8 DEF WorkStep

LEMMA TypeOfCaller ==
    ASSUME TypeInv, NEW t \in Callers,
           \/ CallerStep(t)
           \/ Enqueue(t)
           \/ Register(t)
           \/ Unregister(t)
    PROVE  TypeInv'
  <1> USE ThreadFacts DEF Step, Idle
  <1>1. CASE EnqueuePut(t)
    BY <1>1, TypeOfEnqueuePut
  <1>2. CASE EnqueueQueue(t)
    <2>1. DOMAIN pc' = Threads /\ \A u \in Threads : Carries(pc'[u])
      BY <1>2, GoType, StepCarries DEF EnqueueQueue
    <2> QED
      BY <1>2, <2>1 DEF EnqueueQueue, TypeInv, TypeOK, Carries, listVars, workVars
  <1>3. CASE Poll(t, "reg_poll", Step("reg"), Idle)
    BY <1>3, TypeOfPoll, StepCarries
  <1>4. CASE Poll(t, "unreg_poll", Step("unreg"), Idle)
    BY <1>4, TypeOfPoll, StepCarries
  <1>5. CASE t \in Listeners /\ (RegisterLocked(t) \/ RegisterAnnounce(t))
    BY <1>5, TypeOfRegister
  <1>6. CASE UnregisterLocked(t)
    BY <1>6, TypeOfUnregister
  <1>7. CASE Enqueue(t)
    BY <1>7, TypeOfEnqueueCheck DEF Enqueue
  <1>8. CASE Register(t) \/ Unregister(t)
    <2>1. DOMAIN pc' = Threads /\ \A u \in Threads : Carries(pc'[u])
      BY <1>8, GoType, StepCarries DEF Register, Unregister
    <2> QED
      BY <1>8, <2>1
         DEF Register, Unregister, TypeInv, TypeOK, Carries, listVars, workVars
  <1> QED
    BY <1>1, <1>2, <1>3, <1>4, <1>5, <1>6, <1>7, <1>8 DEF CallerStep

LEMMA TypeStep ==
    ASSUME TypeInv, [Next]_vars
    PROVE  TypeInv'
  <1>1. CASE UNCHANGED vars
    BY <1>1 DEF vars, listVars, workVars, TypeInv, TypeOK, Carries
  <1>2. CASE Next
    BY <1>2, ThreadFacts, TypeOfCaller, TypeOfWork DEF Next
  <1> QED
    BY <1>1, <1>2

LEMMA TypeInit == Init => TypeInv
  <1> SUFFICES ASSUME Init PROVE TypeInv
    OBVIOUS
  <1>1. fifo \in Seq((1..MaxMsgs) \X Types \X (1..MsgSize)) /\ Len(fifo) = 0
    BY EmptySeq DEF Init
  <1>2. \A t \in Threads : Carries(pc[t])
    BY StepCarries DEF Init, Idle
  <1>3. DOMAIN pc = Threads /\ queued \in BOOLEAN
    BY DEF Init
  <1>4. reg_idx \in 1..Slots /\ msgs \in 0..MaxMsgs /\ Len(fifo) <= FifoSize
    BY <1>1, ThreadFacts DEF Init
  <1>5. reg_entry \in [1..Slots -> Listeners \cup {None}]
    BY DEF Init
  <1>6. list_state \in {"IDLE", "SENDING"}
        /\ listening \subseteq Listeners /\ told \subseteq Listeners
    BY DEF Init
  <1> QED
    BY <1>1, <1>2, <1>3, <1>4, <1>5, <1>6 DEF TypeInv, TypeOK

(* A message being written is one of the messages, and whatever the fifo     *)
(* holds are units of messages: no sequence of calls puts the group's        *)
(* notification state outside its ranges.                                    *)
THEOREM TypeInvAlways == Spec => []TypeInv
  BY TypeInit, TypeStep, PTL DEF Spec

(* The type invariant of the notifications of a group.                       *)
THEOREM TypeCorrect == Spec => []TypeOK
  <1>1. TypeInv => TypeOK
    BY DEF TypeInv
  <1> QED
    BY <1>1, TypeInvAlways, PTL

-----------------------------------------------------------------------------
(* The list of callbacks *)

(* While the work goes through the list nobody writes it, and what it holds  *)
(* are the clients that listen, each once.                                   *)
ListInv ==
    /\ \A i \in 1..Slots : reg_entry[i] # None => reg_entry[i] \in listening
    /\ \A i, j \in 1..Slots :
          reg_entry[i] # None /\ reg_entry[i] = reg_entry[j] => i = j
    /\ \A l \in Listeners : pc[l][1] \in {"reg_poll", "reg"} => l \notin listening
    /\ pc["work"] # Idle => list_state = "SENDING"
    /\ pc["work"][1] \in {"in_cb", "cb_poll"} => reg_entry[reg_idx] # None

IInv == TypeInv /\ ListInv

LEMMA ListOfRegister ==
    ASSUME IInv, NEW l \in Listeners, RegisterLocked(l)
    PROVE  ListInv'
  <1> USE ThreadFacts DEF Step, Idle
  <1>1. l \in Callers /\ l # "work" /\ l \in Threads
    OBVIOUS
  <1>2. l \notin listening
    BY DEF RegisterLocked, At, IInv, ListInv
  <1>3. pc' = [pc EXCEPT ![l] = pc'[l]] /\ pc'[l][1] \in {"announce", "idle"}
    BY <1>1 DEF RegisterLocked, Go, IInv, TypeInv, TypeOK
  <1>4. pc'["work"] = pc["work"] /\ \A k \in Listeners \ {l} : pc'[k] = pc[k]
    BY <1>1, <1>3 DEF IInv, TypeInv, TypeOK
  <1>5. CASE UNCHANGED <<reg_entry, listening>>
    BY <1>3, <1>4, <1>5 DEF RegisterLocked, IInv, ListInv, workVars
  <1>6. CASE ~ (list_state = "SENDING" \/ FreeSlots = {})
    <2>1. PICK i \in FreeSlots : reg_entry' = [reg_entry EXCEPT ![i] = l]
      BY <1>6 DEF RegisterLocked, First
    <2>2. i \in 1..Slots /\ reg_entry[i] = None /\ listening' = listening \cup {l}
      BY <1>6 DEF RegisterLocked, FreeSlots
    <2>3. \A k \in 1..Slots : reg_entry'[k] = IF k = i THEN l ELSE reg_entry[k]
      BY <2>1, <2>2 DEF IInv, TypeInv, TypeOK
    <2>4. pc["work"] = Idle
      BY <1>6 DEF IInv, ListInv
    <2>5. \A k \in 1..Slots : reg_entry[k] # l
      BY <1>2, NoneAssumption DEF IInv, ListInv
    <2>6. \A k \in 1..Slots : reg_entry'[k] # None => reg_entry'[k] \in listening'
      BY <2>2, <2>3 DEF IInv, ListInv
    <2>7. \A k, j \in 1..Slots :
             reg_entry'[k] # None /\ reg_entry'[k] = reg_entry'[j] => k = j
      BY <2>2, <2>3, <2>5 DEF IInv, ListInv
    <2>8. \A k \in Listeners : pc'[k][1] \in {"reg_poll", "reg"} => k \notin listening'
      BY <1>3, <1>4, <2>2 DEF IInv, ListInv
    <2>9. pc'["work"] = Idle
      BY <1>4, <2>4
    <2> QED
      BY <2>6, <2>7, <2>8, <2>9 DEF ListInv
  <1> QED
    BY <1>5, <1>6 DEF RegisterLocked

LEMMA ListOfUnregister ==
    ASSUME IInv, NEW l \in Callers, UnregisterLocked(l)
    PROVE  ListInv'
  <1> USE ThreadFacts DEF Step, Idle
  <1>1. l # "work" /\ l \in Threads
    OBVIOUS
  <1>2. pc'[l] = Idle /\ \A u \in Threads \ {l} : pc'[u] = pc[u]
    BY <1>1, GoFacts DEF UnregisterLocked, IInv, TypeInv, TypeOK
  <1>3. CASE list_state = "SENDING"
    BY <1>1, <1>2, <1>3 DEF UnregisterLocked, IInv, ListInv, workVars
  <1>4. CASE list_state # "SENDING"
    <2>1. Remove(l) /\ listening' = listening \ {l}
      BY <1>4 DEF UnregisterLocked, Remove
    <2>2. pc'["work"] = Idle
      BY <1>1, <1>2, <1>4 DEF IInv, ListInv
    <2>3. \A k \in 1..Slots : reg_entry'[k] \in {None, reg_entry[k]}
      BY <2>1 DEF Remove, First, SlotsOf, IInv, TypeInv, TypeOK
    <2>4. \A k \in 1..Slots : reg_entry'[k] # None => reg_entry'[k] # l
      <3>1. CASE SlotsOf(l) = {}
        BY <2>3, <3>1 DEF SlotsOf
      <3>2. CASE SlotsOf(l) # {}
        <4>1. PICK i \in 1..Slots :
                 reg_entry[i] = l /\ reg_entry' = [reg_entry EXCEPT ![i] = None]
          BY <2>1, <3>2 DEF Remove, First, SlotsOf
        <4> QED
          BY <4>1 DEF IInv, ListInv, TypeInv, TypeOK
      <3> QED
        BY <3>1, <3>2
    <2>5. \A k \in 1..Slots : reg_entry'[k] # None => reg_entry'[k] \in listening'
      BY <2>1, <2>3, <2>4 DEF IInv, ListInv
    <2>6. \A k, j \in 1..Slots :
             reg_entry'[k] # None /\ reg_entry'[k] = reg_entry'[j] => k = j
      BY <2>3 DEF IInv, ListInv
    <2>7. \A k \in Listeners : pc'[k][1] \in {"reg_poll", "reg"} => k \notin listening'
      BY <1>2, <2>1 DEF IInv, ListInv
    <2> QED
      BY <2>2, <2>5, <2>6, <2>7 DEF ListInv
  <1> QED
    BY <1>3, <1>4

(* Every other step of a caller leaves the list and the work alone. *)
LEMMA ListOfCaller ==
    ASSUME IInv, NEW t \in Callers,
           UNCHANGED <<list_state, reg_entry, listening, reg_idx>>,
           \A u \in Threads \ {t} : pc'[u] = pc[u],
           t \in Listeners /\ pc'[t][1] \in {"reg_poll", "reg"} => t \notin listening
    PROVE  ListInv'
  <1>1. pc'["work"] = pc["work"]
    BY ThreadFacts
  <1> QED
    BY <1>1, ThreadFacts DEF IInv, ListInv

LEMMA ListOfOtherCaller ==
    ASSUME IInv, NEW t \in Callers,
           \/ EnqueuePut(t) \/ EnqueueQueue(t)
           \/ Poll(t, "reg_poll", Step("reg"), Idle)
           \/ Poll(t, "unreg_poll", Step("unreg"), Idle)
           \/ RegisterAnnounce(t)
           \/ Enqueue(t) \/ Register(t) \/ Unregister(t)
    PROVE  ListInv'
  <1> USE ThreadFacts DEF Step, Idle, listVars, workVars
  <1>1. DOMAIN pc = Threads /\ t \in Threads
    BY DEF IInv, TypeInv, TypeOK
  <1>2. t \in Listeners /\ pc[t][1] \in {"reg_poll", "reg"} => t \notin listening
    BY DEF IInv, ListInv
  <1>3. CASE EnqueuePut(t) \/ EnqueueQueue(t)
    <2>1. \A u \in Threads \ {t} : pc'[u] = pc[u]
      BY <1>1, <1>3, GoFacts DEF EnqueuePut, EnqueueQueue
    <2>2. pc'[t][1] \notin {"reg_poll", "reg"}
      BY <1>1, <1>3, GoFacts DEF EnqueuePut, EnqueueQueue
    <2> QED
      BY <1>3, <2>1, <2>2, ListOfCaller DEF EnqueuePut, EnqueueQueue
  <1>4. CASE Poll(t, "reg_poll", Step("reg"), Idle)
    BY <1>1, <1>2, <1>4, GoFacts, ListOfCaller DEF Poll, At
  <1>5. CASE Poll(t, "unreg_poll", Step("unreg"), Idle)
    <2>1. \A u \in Threads \ {t} : pc'[u] = pc[u]
      BY <1>1, <1>5, GoFacts DEF Poll
    <2>2. pc'[t][1] \notin {"reg_poll", "reg"}
      BY <1>1, <1>5, GoFacts DEF Poll
    <2> QED
      BY <1>5, <2>1, <2>2, ListOfCaller DEF Poll
  <1>6. CASE RegisterAnnounce(t)
    <2>1. PICK l : Go(t, l) /\ l[1] \in {"put", "idle"}
      BY <1>6 DEF RegisterAnnounce, EnqueueCheck
    <2>2. pc'[t] = l /\ \A u \in Threads \ {t} : pc'[u] = pc[u]
      BY <1>1, <2>1, GoFacts
    <2> QED
      BY <1>6, <2>1, <2>2, ListOfCaller DEF RegisterAnnounce
  <1>7. CASE Enqueue(t)
    <2>1. PICK l : Go(t, l) /\ l[1] = "put"
      BY <1>7 DEF Enqueue, EnqueueCheck
    <2>2. pc'[t] = l /\ \A u \in Threads \ {t} : pc'[u] = pc[u]
      BY <1>1, <2>1, GoFacts
    <2> QED
      BY <1>7, <2>1, <2>2, ListOfCaller DEF Enqueue
  <1>8. CASE Register(t)
    BY <1>1, <1>8, GoFacts, ListOfCaller DEF Register
  <1>9. CASE Unregister(t)
    BY <1>1, <1>9, GoFacts, ListOfCaller DEF Unregister
  <1> QED
    BY <1>3, <1>4, <1>5, <1>6, <1>7, <1>8, <1>9

(* The work writes neither the entries nor who listens; it is not Idle, so   *)
(* list_state is SENDING, from its start to its end.                         *)
LEMMA ListOfWork ==
    ASSUME IInv, WorkStep
    PROVE  ListInv'
  <1> USE ThreadFacts DEF Step, Idle, listVars, workVars
  <1>1. DOMAIN pc = Threads
    BY DEF IInv, TypeInv, TypeOK
  <1>2. UNCHANGED <<reg_entry, listening>>
    BY DEF WorkStep, WorkStart, WorkOut, WorkLoop, WorkCallback, Poll, WorkNext,
           WorkCheck, WorkEnd
  <1>3. PICK l : Go("work", l)
    BY DEF WorkStep, WorkStart, WorkOut, WorkLoop, WorkCallback, Poll, WorkNext,
           WorkCheck, WorkEnd
  <1>4. pc'["work"] = l /\ \A u \in Callers : pc'[u] = pc[u]
    BY <1>1, <1>3, GoFacts
  <1>5. /\ pc'["work"] # Idle => list_state' = "SENDING"
        /\ pc'["work"][1] \in {"in_cb", "cb_poll"} => reg_entry[reg_idx'] # None
    <2>1. CASE WorkStart
      BY <1>1, <2>1, GoFacts DEF WorkStart
    <2>2. CASE WorkOut
      <3>1. pc'["work"][1] \in {"end", "loop"}
        BY <1>1, <2>2, GoFacts DEF WorkOut
      <3> QED
        BY <2>2, <3>1 DEF WorkOut, At, IInv, ListInv
    <2>3. CASE WorkLoop
      <3>1. pc'["work"] = IF Wants(reg_idx) THEN <<"in_cb", 0>> ELSE <<"next", 0>>
        BY <1>1, <2>3, GoFacts DEF WorkLoop
      <3>2. list_state = "SENDING"
        BY <2>3 DEF WorkLoop, At, IInv, ListInv
      <3> QED
        BY <2>3, <3>1, <3>2 DEF WorkLoop, Wants
    <2>4. CASE WorkCallback
      BY <1>1, <2>4, GoFacts DEF WorkCallback, At, IInv, ListInv
    <2>5. CASE Poll("work", "cb_poll", Step("next"), Step("next"))
      <3>1. pc'["work"][1] \in {"next", "cb_poll"}
        BY <1>1, <2>5, GoFacts DEF Poll
      <3> QED
        BY <2>5, <3>1 DEF Poll, At, IInv, ListInv
    <2>6. CASE WorkNext
      <3>1. pc'["work"][1] \in {"loop", "check"}
        BY <1>1, <2>6, GoFacts DEF WorkNext
      <3> QED
        BY <2>6, <3>1 DEF WorkNext, At, IInv, ListInv
    <2>7. CASE WorkCheck
      <3>1. pc'["work"][1] \in {"end", "out"}
        BY <1>1, <2>7, GoFacts DEF WorkCheck
      <3> QED
        BY <2>7, <3>1 DEF WorkCheck, At, IInv, ListInv
    <2>8. CASE WorkEnd
      BY <1>1, <2>8, GoFacts DEF WorkEnd
    <2> QED
      BY <2>1, <2>2, <2>3, <2>4, <2>5, <2>6, <2>7, <2>8 DEF WorkStep
  <1> QED
    BY <1>2, <1>4, <1>5 DEF IInv, ListInv

LEMMA ListStep ==
    ASSUME IInv, [Next]_vars
    PROVE  IInv'
  <1>1. TypeInv'
    BY TypeStep DEF IInv
  <1>2. CASE UNCHANGED vars
    BY <1>1, <1>2 DEF vars, listVars, workVars, IInv, ListInv
  <1>3. CASE Next
    <2>1. ASSUME NEW s \in Senders, Enqueue(s)
          PROVE  ListInv'
      BY <2>1, ThreadFacts, ListOfOtherCaller
    <2>2. ASSUME NEW l \in Listeners, Register(l) \/ Unregister(l)
          PROVE  ListInv'
      BY <2>2, ThreadFacts, ListOfOtherCaller
    <2>3. ASSUME NEW t \in Callers, CallerStep(t)
          PROVE  ListInv'
      BY <2>3, ListOfOtherCaller, ListOfRegister, ListOfUnregister DEF CallerStep
    <2> QED
      BY <1>1, <1>3, <2>1, <2>2, <2>3, ListOfWork DEF Next, IInv
  <1> QED
    BY <1>2, <1>3

LEMMA ListInit == Init => IInv
  <1> SUFFICES ASSUME Init PROVE ListInv
    BY TypeInit DEF IInv
  <1> QED
    BY ThreadFacts DEF Init, ListInv, Idle

(* The inductive invariant of the callback list: its entries are distinct    *)
(* listening clients and nobody writes it while the work reads it, although  *)
(* the work takes no lock.                                                   *)
THEOREM ListInvAlways == Spec => []IInv
  BY ListInit, ListStep, PTL DEF Spec

(* No client is called after it unregistered, however many slots, threads    *)
(* and clients there are and however often they poll.                        *)
THEOREM NoCallAfterUnregisterAlways == Spec => []NoCallAfterUnregister
  <1>1. IInv => NoCallAfterUnregister
    BY DEF IInv, TypeInv, TypeOK, ListInv, NoCallAfterUnregister
  <1> QED
    BY <1>1, ListInvAlways, PTL

-----------------------------------------------------------------------------
(* The messages in the fifo *)

LEMMA StrandedOfCaller ==
    ASSUME TypeInv, NothingStranded, NEW t \in Callers, ~ At(t, "queue"),
           UNCHANGED <<fifo, queued>>, \A u \in Threads \ {t} : pc'[u] = pc[u]
    PROVE  NothingStranded'
  <1>1. pc'["work"] = pc["work"] /\ \A u \in Callers \ {t} : pc'[u] = pc[u]
    BY ThreadFacts
  <1> QED
    BY <1>1 DEF NothingStranded, At

(* A message is written to the end and its work not yet queued, or there was *)
(* no room for all of it and so other messages were there before.            *)
LEMMA StrandedOfPut ==
    ASSUME TypeInv, NothingStranded, NEW t \in Callers, EnqueuePut(t)
    PROVE  NothingStranded'
  <1> USE ThreadFacts DEF Step, Idle
  <1>1. t \in Threads /\ DOMAIN pc = Threads
    BY DEF TypeInv, TypeOK
  <1>2. Len(fifo) \in Nat /\ Len(fifo) <= FifoSize
    BY LenProperties DEF TypeInv, TypeOK
  <1>3. \A u \in Threads \ {t} : pc'[u] = pc[u]
    BY <1>1, GoFacts DEF EnqueuePut
  <1>4. CASE FifoSize - Len(fifo) < MsgSize
    <2>1. fifo # <<>>
      BY <1>2, <1>4
    <2>2. ~ At(t, "queue")
      BY DEF EnqueuePut, At
    <2>3. pc'["work"] = pc["work"] /\ \A u \in Callers \ {t} : pc'[u] = pc[u]
      BY <1>3
    <2> QED
      BY <2>1, <2>2, <2>3 DEF EnqueuePut, NothingStranded, At
  <1>5. CASE ~ (FifoSize - Len(fifo) < MsgSize)
    <2>1. pc'[t] = <<"queue", 0>>
      BY <1>1, <1>5, GoFacts DEF EnqueuePut
    <2> QED
      BY <2>1 DEF NothingStranded, At
  <1> QED
    BY <1>4, <1>5

LEMMA StrandedOfOtherCaller ==
    ASSUME TypeInv, NothingStranded, NEW t \in Callers,
           CallerStep(t) \/ Enqueue(t) \/ Register(t) \/ Unregister(t)
    PROVE  NothingStranded'
  <1> USE ThreadFacts DEF Step, Idle, listVars, workVars
  <1>1. t \in Threads /\ DOMAIN pc = Threads
    BY DEF TypeInv, TypeOK
  <1>2. CASE EnqueuePut(t)
    BY <1>2, StrandedOfPut
  <1>3. CASE EnqueueQueue(t)
    BY <1>3 DEF EnqueueQueue, NothingStranded
  <1>4. ASSUME NEW poll \in {"reg_poll", "unreg_poll"}, NEW free,
               Poll(t, poll, free, Idle)
        PROVE  NothingStranded'
    <2>1. ~ At(t, "queue") /\ UNCHANGED <<fifo, queued>>
      BY <1>4 DEF Poll, At
    <2>2. \A u \in Threads \ {t} : pc'[u] = pc[u]
      BY <1>1, <1>4, GoFacts DEF Poll
    <2> QED
      BY <2>1, <2>2, StrandedOfCaller
  <1>5. CASE RegisterLocked(t) \/ UnregisterLocked(t)
    <2>1. ~ At(t, "queue") /\ UNCHANGED <<fifo, queued>>
      BY <1>5 DEF RegisterLocked, UnregisterLocked, At
    <2>2. \A u \in Threads \ {t} : pc'[u] = pc[u]
      BY <1>1, <1>5, GoFacts DEF RegisterLocked, UnregisterLocked
    <2> QED
      BY <2>1, <2>2, StrandedOfCaller
  <1>6. CASE RegisterAnnounce(t) \/ Enqueue(t)
    <2>1. ~ At(t, "queue") /\ UNCHANGED <<fifo, queued>>
      BY <1>6 DEF RegisterAnnounce, Enqueue, At
    <2>2. \A u \in Threads \ {t} : pc'[u] = pc[u]
      BY <1>1, <1>6, GoFacts DEF RegisterAnnounce, Enqueue, EnqueueCheck
    <2> QED
      BY <2>1, <2>2, StrandedOfCaller
  <1>7. CASE Register(t) \/ Unregister(t)
    <2>1. ~ At(t, "queue") /\ UNCHANGED <<fifo, queued>>
      BY <1>7 DEF Register, Unregister, At
    <2>2. \A u \in Threads \ {t} : pc'[u] = pc[u]
      BY <1>1, <1>7, GoFacts DEF Register, Unregister
    <2> QED
      BY <2>1, <2>2, StrandedOfCaller
  <1> QED
    BY <1>2, <1>3, <1>4, <1>5, <1>6, <1>7 DEF CallerStep

(* The work ends only when it saw the fifo empty; what comes after that is   *)
(* still at "queue", or has queued the work again.                           *)
LEMMA StrandedOfWork ==
    ASSUME TypeInv, NothingStranded, WorkStep
    PROVE  NothingStranded'
  <1> USE ThreadFacts DEF Step, Idle, listVars, workVars
  <1>1. DOMAIN pc = Threads
    BY DEF TypeInv, TypeOK
  <1>2. CASE WorkStart
    BY <1>1, <1>2, GoFacts DEF WorkStart, NothingStranded
  <1>3. CASE WorkOut
    <2>1. fifo' = <<>> \/ pc'["work"] = <<"loop", 0>>
      BY <1>1, <1>3, GoFacts DEF WorkOut
    <2> QED
      BY <2>1 DEF NothingStranded
  <1>4. CASE WorkLoop
    <2>1. pc'["work"][1] \in {"in_cb", "next"}
      BY <1>1, <1>4, GoFacts DEF WorkLoop
    <2> QED
      BY <2>1 DEF NothingStranded
  <1>5. CASE WorkCallback
    <2>1. pc'["work"][1] \in {"next", "cb_poll"}
      BY <1>1, <1>5, GoFacts DEF WorkCallback
    <2> QED
      BY <2>1 DEF NothingStranded
  <1>6. CASE Poll("work", "cb_poll", Step("next"), Step("next"))
    <2>1. pc'["work"][1] \in {"next", "cb_poll"}
      BY <1>1, <1>6, GoFacts DEF Poll
    <2> QED
      BY <2>1 DEF NothingStranded
  <1>7. CASE WorkNext
    <2>1. pc'["work"][1] \in {"loop", "check"}
      BY <1>1, <1>7, GoFacts DEF WorkNext
    <2> QED
      BY <2>1 DEF NothingStranded
  <1>8. CASE WorkCheck
    <2>1. fifo' = <<>> \/ pc'["work"] = <<"out", 0>>
      BY <1>1, <1>8, GoFacts DEF WorkCheck
    <2> QED
      BY <2>1 DEF NothingStranded
  <1>9. CASE WorkEnd
    <2>1. \A u \in Callers : pc'[u] = pc[u]
      BY <1>1, <1>9, GoFacts DEF WorkEnd
    <2>2. pc["work"][1] = "end"
      BY <1>9 DEF WorkEnd, At
    <2>3. fifo # <<>> => queued \/ \E u \in Callers : At(u, "queue")
      BY <2>2 DEF NothingStranded
    <2> QED
      BY <1>9, <2>1, <2>3 DEF WorkEnd, NothingStranded, At
  <1> QED
    BY <1>2, <1>3, <1>4, <1>5, <1>6, <1>7, <1>8, <1>9 DEF WorkStep

LEMMA StrandedStep ==
    ASSUME TypeInv, NothingStranded, [Next]_vars
    PROVE  NothingStranded'
  <1>1. CASE UNCHANGED vars
    BY <1>1 DEF vars, NothingStranded, At
  <1>2. CASE Next
    BY <1>2, ThreadFacts, StrandedOfOtherCaller, StrandedOfWork DEF Next
  <1> QED
    BY <1>1, <1>2

(* No message is left in the fifo without a work that will look at it, also  *)
(* when threads race with a work that is about to end, and when a message    *)
(* is refused half way.                                                      *)
THEOREM NothingStrandedAlways == Spec => []NothingStranded
  <1>1. Init => NothingStranded
    BY DEF Init, NothingStranded
  <1> QED
    BY <1>1, TypeInvAlways, StrandedStep, PTL DEF Spec

-----------------------------------------------------------------------------
(* The audience of a message *)

(* The clients in the first n slots that want the message *)
Heard(n) == {l \in Listeners : \E i \in 1..n : Wants(i) /\ reg_entry[i] = l}

(* The work has called the clients of the slots it is past. *)
ToldInv ==
    /\ At("work", "loop") => told = Heard(reg_idx - 1)
    /\ pc["work"][1] \in {"in_cb", "cb_poll", "next"} => told = Heard(reg_idx)
    /\ At("work", "check") => told = Heard(Slots)

(* Who listens has an entry, until a work that runs is told of him. *)
AudienceInv ==
    /\ \A l \in listening : \E i \in 1..Slots : reg_entry[i] = l
    /\ ToldInv

LEMMA EntriesKept ==
    ASSUME IInv, AudienceInv, UNCHANGED <<reg_entry, listening>>, ToldInv'
    PROVE  AudienceInv'
  BY DEF AudienceInv

LEMMA ToldKept ==
    ASSUME ToldInv, UNCHANGED <<pc["work"], reg_entry, workVars>>
    PROVE  ToldInv'
  <1>1. /\ pc'["work"] = pc["work"] /\ UNCHANGED <<reg_entry, notif_msg, reg_idx, told>>
    BY DEF workVars
  <1>2. \A n : Heard(n)' = Heard(n)
    BY <1>1 DEF Heard, Wants
  <1> QED
    BY <1>1, <1>2 DEF ToldInv, At

LEMMA ToldIdle ==
    ASSUME pc'["work"] = Idle
    PROVE  ToldInv'
  BY DEF ToldInv, At, Idle

LEMMA AudienceOfRegister ==
    ASSUME IInv, AudienceInv, NEW l \in Listeners, RegisterLocked(l)
    PROVE  AudienceInv'
  <1>1. DOMAIN pc = Threads /\ l \in Threads /\ l # "work"
    BY ThreadFacts DEF IInv, TypeInv, TypeOK
  <1>2. pc'["work"] = pc["work"]
    <2>1. PICK x : Go(l, x)
      BY DEF RegisterLocked
    <2> QED
      BY <1>1, <2>1, ThreadFacts, GoFacts
  <1>3. CASE UNCHANGED <<reg_entry, listening>>
    BY <1>2, <1>3, ToldKept, EntriesKept DEF RegisterLocked, AudienceInv
  <1>4. CASE ~ (list_state = "SENDING" \/ FreeSlots = {})
    <2>1. PICK i \in FreeSlots : reg_entry' = [reg_entry EXCEPT ![i] = l]
      BY <1>4 DEF RegisterLocked, First
    <2>2. i \in 1..Slots /\ reg_entry[i] = None /\ listening' = listening \cup {l}
      BY <1>4 DEF RegisterLocked, FreeSlots
    <2>3. \A k \in 1..Slots : reg_entry'[k] = IF k = i THEN l ELSE reg_entry[k]
      BY <2>1, <2>2 DEF IInv, TypeInv, TypeOK
    <2>4. ToldInv'
      BY <1>2, <1>4, ToldIdle DEF IInv, ListInv
    <2>5. \A m \in listening' : \E k \in 1..Slots : reg_entry'[k] = m
      <3> SUFFICES ASSUME NEW m \in listening'
                   PROVE  \E k \in 1..Slots : reg_entry'[k] = m
        OBVIOUS
      <3>1. CASE m = l
        BY <2>2, <2>3, <3>1
      <3>2. CASE m \in listening
        <4>1. PICK k \in 1..Slots : reg_entry[k] = m
          BY <3>2 DEF AudienceInv
        <4>2. m # None
          BY <3>2, NoneAssumption DEF IInv, TypeInv, TypeOK
        <4> QED
          BY <2>2, <2>3, <4>1, <4>2
      <3> QED
        BY <2>2, <3>1, <3>2
    <2> QED
      BY <2>4, <2>5 DEF AudienceInv
  <1> QED
    BY <1>3, <1>4 DEF RegisterLocked

LEMMA AudienceOfUnregister ==
    ASSUME IInv, AudienceInv, NEW l \in Callers, UnregisterLocked(l)
    PROVE  AudienceInv'
  <1>1. pc'["work"] = pc["work"]
    BY ThreadFacts, GoFacts DEF UnregisterLocked, IInv, TypeInv, TypeOK
  <1>2. CASE list_state = "SENDING"
    BY <1>1, <1>2, ToldKept, EntriesKept DEF UnregisterLocked, AudienceInv
  <1>3. CASE list_state # "SENDING"
    <2>1. Remove(l) /\ listening' = listening \ {l}
      BY <1>3 DEF UnregisterLocked, Remove
    <2>2. ToldInv'
      BY <1>1, <1>3, ToldIdle DEF IInv, ListInv
    <2>3. \A k \in 1..Slots : reg_entry[k] # l => reg_entry'[k] = reg_entry[k]
      <3>1. CASE UNCHANGED reg_entry
        BY <3>1
      <3>2. ASSUME NEW i \in SlotsOf(l), reg_entry' = [reg_entry EXCEPT ![i] = None]
            PROVE  \A k \in 1..Slots : reg_entry[k] # l => reg_entry'[k] = reg_entry[k]
        BY <3>2 DEF SlotsOf, IInv, TypeInv, TypeOK
      <3> QED
        BY <2>1, <3>1, <3>2 DEF Remove, First
    <2>4. \A m \in listening' : \E k \in 1..Slots : reg_entry'[k] = m
      BY <2>1, <2>3 DEF AudienceInv
    <2> QED
      BY <2>2, <2>4 DEF AudienceInv
  <1> QED
    BY <1>2, <1>3

LEMMA AudienceOfOtherCaller ==
    ASSUME IInv, AudienceInv, NEW t \in Callers,
           \/ EnqueuePut(t) \/ EnqueueQueue(t)
           \/ Poll(t, "reg_poll", Step("reg"), Idle)
           \/ Poll(t, "unreg_poll", Step("unreg"), Idle)
           \/ RegisterAnnounce(t)
           \/ Enqueue(t) \/ Register(t) \/ Unregister(t)
    PROVE  AudienceInv'
  <1>1. UNCHANGED <<reg_entry, listening, workVars>>
    BY DEF EnqueuePut, EnqueueQueue, Poll, RegisterAnnounce, Enqueue, Register,
           Unregister, listVars
  <1>2. PICK x : Go(t, x)
    BY DEF EnqueuePut, EnqueueQueue, Poll, RegisterAnnounce, Enqueue, EnqueueCheck,
           Register, Unregister
  <1>3. pc'["work"] = pc["work"]
    BY <1>2, ThreadFacts, GoFacts DEF IInv, TypeInv, TypeOK
  <1> QED
    BY <1>1, <1>3, ToldKept, EntriesKept DEF AudienceInv

(* One slot further, or the next message *)
LEMMA AudienceOfWork ==
    ASSUME IInv, AudienceInv, WorkStep
    PROVE  AudienceInv'
  <1>1. UNCHANGED <<reg_entry, listening>>
    BY DEF WorkStep, WorkStart, WorkOut, WorkLoop, WorkCallback, Poll, WorkNext,
           WorkCheck, WorkEnd, listVars
  <1>2. DOMAIN pc = Threads /\ "work" \in Threads
    BY ThreadFacts DEF IInv, TypeInv, TypeOK
  <1>3. /\ reg_idx \in 1..Slots /\ Slots \in Nat
        /\ \A i \in 1..Slots : reg_entry[i] \in Listeners \cup {None}
    BY ThreadFacts DEF IInv, TypeInv, TypeOK
  <1>4. ASSUME UNCHANGED notif_msg
        PROVE  \A n : Heard(n)' = Heard(n)
    BY <1>1, <1>4 DEF Heard, Wants
  <1>5. Heard(reg_idx) = IF Wants(reg_idx) THEN Heard(reg_idx - 1) \cup {reg_entry[reg_idx]}
                                           ELSE Heard(reg_idx - 1)
    <2>1. \A i : i \in 1..reg_idx <=> i \in 1..(reg_idx - 1) \/ i = reg_idx
      BY <1>3
    <2>2. Wants(reg_idx) => reg_entry[reg_idx] \in Listeners
      BY <1>3 DEF Wants
    <2> QED
      BY <2>1, <2>2 DEF Heard
  <1>6. ToldInv'
    <2>1. CASE WorkStart
      <3>1. pc'["work"] = <<"out", 0>>
        BY <1>2, <2>1, GoFacts DEF WorkStart, Step
      <3> QED
        BY <3>1 DEF ToldInv, At
    <2>2. CASE WorkOut
      <3>1. CASE Go("work", Step("end"))
        <4>1. pc'["work"] = <<"end", 0>>
          BY <1>2, <3>1, GoFacts DEF Step
        <4> QED
          BY <4>1 DEF ToldInv, At
      <3>2. CASE Go("work", Step("loop")) /\ told' = {} /\ reg_idx' = 1
        <4>1. pc'["work"] = <<"loop", 0>>
          BY <1>2, <3>2, GoFacts DEF Step
        <4>2. Heard(0)' = {}
          BY DEF Heard
        <4>3. reg_idx' - 1 = 0
          BY <3>2
        <4> QED
          BY <3>2, <4>1, <4>2, <4>3 DEF ToldInv, At
      <3> QED
        BY <2>2, <3>1, <3>2 DEF WorkOut
    <2>3. CASE WorkLoop
      <3>1. told = Heard(reg_idx - 1) /\ UNCHANGED <<reg_idx, notif_msg>>
        BY <2>3 DEF WorkLoop, AudienceInv, ToldInv
      <3>2. told' = Heard(reg_idx)
        BY <1>5, <2>3, <3>1 DEF WorkLoop
      <3>3. pc'["work"][1] \in {"in_cb", "next"}
        BY <1>2, <2>3, GoFacts DEF WorkLoop, Step
      <3> QED
        BY <1>4, <3>1, <3>2, <3>3 DEF ToldInv, At
    <2>4. CASE WorkCallback \/ Poll("work", "cb_poll", Step("next"), Step("next"))
      <3>1. told = Heard(reg_idx) /\ UNCHANGED <<reg_idx, notif_msg, told>>
        BY <2>4 DEF WorkCallback, Poll, At, AudienceInv, ToldInv, workVars
      <3>2. pc'["work"][1] \in {"cb_poll", "next"}
        BY <1>2, <2>4, GoFacts DEF WorkCallback, Poll, Step
      <3> QED
        BY <1>4, <3>1, <3>2 DEF ToldInv, At
    <2>5. CASE WorkNext
      <3>1. told = Heard(reg_idx) /\ UNCHANGED <<notif_msg, told>>
        BY <2>5 DEF WorkNext, At, AudienceInv, ToldInv
      <3>2. CASE reg_idx < Slots
        <4>1. reg_idx' - 1 = reg_idx /\ pc'["work"] = <<"loop", 0>>
          BY <1>2, <1>3, <2>5, <3>2, GoFacts DEF WorkNext, Step
        <4> QED
          BY <1>4, <3>1, <4>1 DEF ToldInv, At
      <3>3. CASE ~(reg_idx < Slots)
        <4>1. reg_idx = Slots /\ pc'["work"] = <<"check", 0>>
          BY <1>2, <1>3, <2>5, <3>3, GoFacts DEF WorkNext, Step
        <4> QED
          BY <1>4, <3>1, <4>1 DEF ToldInv, At
      <3> QED
        BY <3>2, <3>3
    <2>6. CASE WorkCheck
      <3>1. pc'["work"][1] \in {"end", "out"}
        BY <1>2, <2>6, GoFacts DEF WorkCheck, Step
      <3> QED
        BY <3>1 DEF ToldInv, At
    <2>7. CASE WorkEnd
      BY <1>2, <2>7, GoFacts, ToldIdle DEF WorkEnd
    <2> QED
      BY <2>1, <2>2, <2>3, <2>4, <2>5, <2>6, <2>7 DEF WorkStep
  <1> QED
    BY <1>1, <1>6, EntriesKept

LEMMA AudienceStep ==
    ASSUME IInv, AudienceInv, [Next]_vars
    PROVE  AudienceInv'
  <1>1. CASE UNCHANGED vars
    BY <1>1, ToldKept, EntriesKept DEF vars, listVars, AudienceInv
  <1>2. CASE Next
    <2>1. ASSUME NEW s \in Senders, Enqueue(s)
          PROVE  AudienceInv'
      BY <2>1, ThreadFacts, AudienceOfOtherCaller
    <2>2. ASSUME NEW l \in Listeners, Register(l) \/ Unregister(l)
          PROVE  AudienceInv'
      BY <2>2, ThreadFacts, AudienceOfOtherCaller
    <2>3. ASSUME NEW t \in Callers, CallerStep(t)
          PROVE  AudienceInv'
      BY <2>3, AudienceOfOtherCaller, AudienceOfRegister, AudienceOfUnregister
         DEF CallerStep
    <2> QED
      BY <1>2, <2>1, <2>2, <2>3, AudienceOfWork DEF Next
  <1> QED
    BY <1>1, <1>2

(* Every message the work takes out goes to all the clients that are         *)
(* registered for its type, and to no other, although the list is read       *)
(* without a lock while clients come and go.                                 *)
THEOREM WholeAudienceAlways == Spec => []WholeAudience
  <1>1. Init => AudienceInv
    BY ThreadFacts DEF Init, AudienceInv, ToldInv, At, Idle
  <1>2. IInv /\ AudienceInv => WholeAudience
    <2> SUFFICES ASSUME IInv, AudienceInv, At("work", "check")
                 PROVE  told = {l \in listening : notif_msg[2] \in Wanted[l]}
      BY DEF WholeAudience
    <2>1. told = Heard(Slots)
      BY DEF AudienceInv, ToldInv
    <2>2. \A i \in 1..Slots : reg_entry[i] # None => reg_entry[i] \in listening
      BY DEF IInv, ListInv
    <2>3. \A l \in listening : l \in Listeners /\ l # None
                                 /\ \E i \in 1..Slots : reg_entry[i] = l
      BY NoneAssumption DEF IInv, TypeInv, TypeOK, AudienceInv
    <2>4. \A l \in Listeners : l \in told <=>
             \E i \in 1..Slots : reg_entry[i] = l /\ reg_entry[i] # None
                                  /\ notif_msg[2] \in Wanted[l]
      BY <2>1 DEF Heard, Wants
    <2>5. \A l : l \in told => l \in Listeners
      BY <2>1 DEF Heard
    <2>6. \A l \in Listeners : l \in told <=> l \in listening /\ notif_msg[2] \in Wanted[l]
      BY <2>2, <2>3, <2>4
    <2> QED
      BY <2>3, <2>5, <2>6
  <1> QED
    BY <1>1, <1>2, ListInvAlways, AudienceStep, PTL DEF Spec

=============================================================================
