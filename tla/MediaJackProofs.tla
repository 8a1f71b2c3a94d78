-------------------------- MODULE MediaJackProofs --------------------------
(***************************************************************************)
(* Theorems about MediaJack, for any number of events: what the port       *)
(* stores of its real and its fake cable fits together, never two          *)
(* temperatures stay marked as told, what the group was told last is true, *)
(* a cold cable that is online is in high power, and once all events were  *)
(* served the jack knows whether there is a cable.                         *)
(***************************************************************************)
EXTENDS MediaJack, FiniteSetTheorems, SequenceTheorems, TLAPS

JackStates == {"REMOVED", "INSERTED", "GOING_ONLINE", "ONLINE", "ERROR"}
Temps == Levels \cup {"INIT", "UNKNOWN"}
OddKinds == {"crossed", "mixed", "aliased", "cut", "unread", "unseen", "lost"}

(* What is read of a cable that is in the jack *)
OwnAttrs == {"real", "faulty", "bare"}

(* The monitor is in the part of its round that may set the attributes. *)
Round == {"check", "cold", "power", "error", "attr", "present"}

(* A thread may be sent to the label l: what l carries is used as that later. *)
Carries(t, l) ==
    /\ t \in {"scan", "event"} /\ l[1] \in {"attr", "store"} => l[2] \in OwnAttrs
    /\ t = "mon" /\ l[1] \in {"send", "mark", "clear", "set"} => l[2] \in Temps

CarryInv ==
    /\ pc = [t \in Threads |-> pc[t]]
    /\ \A t \in Threads : Carries(t, pc[t])

RangeInv ==
    /\ plugged \in BOOLEAN /\ status \in BOOLEAN
    /\ odd \subseteq OddKinds
    /\ state \in JackStates
    /\ temp \in Temps

(* The two cables of the port.  Neither is ever taken for the other, unless  *)
(* the monitor met a fake cable; and while the monitor may put an error into *)
(* the attributes there is a cable, unless a removal crossed it.             *)
PortInv ==
    /\ {attr, stash} \subseteq Attrs
    /\ fake \in {"REMOVED", "ADDED"} /\ real \in {"REMOVED", "ADDED", "STASHED"}
    /\ fake = "ADDED" => attr = "fake" /\ real # "ADDED"
    /\ real = "STASHED" => fake = "ADDED"
    /\ "aliased" \notin odd =>
          /\ pc["mon"][1] \in {"error", "attr"} => fake = "REMOVED"
          /\ real = "STASHED" => stash # "fake"
          /\ fake = "REMOVED" => attr # "fake"
    /\ odd \cap {"crossed", "aliased"} = {} =>
          /\ real = "ADDED" => attr \in OwnAttrs
          /\ real = "STASHED" => stash \in OwnAttrs
          /\ real = "REMOVED" /\ fake = "REMOVED" => attr = "none"
          /\ pc["mon"][1] \in Round => real # "REMOVED"

CableInv == CarryInv /\ RangeInv /\ PortInv

-----------------------------------------------------------------------------
(* What a step means for the parts of CableInv *)

LEMMA ThreadFacts ==
    /\ {"scan", "event", "mon", "fake", "client", "link"} \subseteq Threads
    /\ Levels \cup {"UNKNOWN"} \subseteq Temps
    /\ "COLD" \in Levels
  BY MediaAssumption DEF Threads, Temps

(* A step of t moves no other thread. *)
Moved(t) ==
    /\ pc' = [u \in Threads |-> pc'[u]]
    /\ \A u \in Threads : u # t => pc'[u] = pc[u]

LEMMA GoFacts ==
    ASSUME CableInv, NEW t \in Threads
    PROVE  /\ \A s, a : Go(t, s, a) => Moved(t) /\ pc'[t] = <<s, a>>
                                       /\ pc'[t][1] = s /\ pc'[t][2] = a
           /\ Done(t) => Moved(t) /\ pc'[t] = <<"idle", "">> /\ pc'[t][1] = "idle"
  <1>1. ASSUME NEW l, pc' = [pc EXCEPT ![t] = l]
        PROVE  Moved(t) /\ pc'[t] = l
    BY <1>1 DEF CableInv, CarryInv, Moved
  <1>2. ASSUME NEW s, NEW a, Go(t, s, a)
        PROVE  /\ Moved(t) /\ pc'[t] = <<s, a>>
               /\ pc'[t][1] = s /\ pc'[t][2] = a
    <2>1. Moved(t) /\ pc'[t] = <<s, a>>
      BY <1>1, <1>2 DEF Go
    <2> QED
      BY <2>1
  <1>4. Done(t) => Go(t, "idle", "")
    BY DEF Done
  <1> QED
    BY <1>2, <1>4

LEMMA GoesTo ==
    ASSUME CableInv, NEW t \in Threads, NEW S, NEW A, \E s \in S, a \in A : Go(t, s, a)
    PROVE  Moved(t) /\ pc'[t][1] \in S /\ pc'[t][2] \in A
  BY GoFacts

LEMMA AtFacts == \A t, s : At(t, s) => pc[t][1] = s
  BY DEF At

LEMMA OddFacts ==
    ASSUME Odd
    PROVE  /\ odd \subseteq odd'
           /\ odd \subseteq OddKinds => odd' \subseteq OddKinds
           /\ Crossing => "crossed" \in odd'
           /\ Aliasing => "aliased" \in odd'
  BY DEF Odd, OddKinds

LEMMA CarryStep ==
    ASSUME CarryInv, NEW t \in Threads, Moved(t), Carries(t, pc'[t])
    PROVE  CarryInv'
  BY DEF CarryInv, Moved

LEMMA RangeStep ==
    ASSUME RangeInv, Odd, plugged' \in BOOLEAN, status' \in BOOLEAN,
           state' \in JackStates, temp' \in Temps
    PROVE  RangeInv'
  BY OddFacts DEF RangeInv

(* The port is left alone, and the monitor does not begin a round. *)
LEMMA PortKept ==
    ASSUME PortInv, Odd, UNCHANGED port,
           \/ pc'["mon"][1] \in Round => pc["mon"][1] \in Round
           \/ odd \cap {"crossed", "aliased"} = {} => real # "REMOVED"
    PROVE  PortInv'
  <1>1. UNCHANGED <<real, fake, attr, stash>>
    BY DEF port
  <1>2. /\ "aliased" \notin odd' =>
              "aliased" \notin odd /\ (pc'["mon"][1] \in {"error", "attr"} => fake # "ADDED")
        /\ odd' \cap {"crossed", "aliased"} = {} => odd \cap {"crossed", "aliased"} = {}
    BY <1>1, OddFacts DEF Aliasing
  <1> QED
    BY <1>1, <1>2 DEF PortInv

(* A step of a thread that leaves the port alone *)
LEMMA Plain ==
    ASSUME CableInv, NEW t \in Threads, Moved(t), Carries(t, pc'[t]), Odd,
           UNCHANGED <<plugged, port>>,
           t = "mon" /\ pc'[t][1] \in Round => pc["mon"][1] \in Round,
           status' \in BOOLEAN, state' \in JackStates, temp' \in Temps
    PROVE  CableInv'
  <1>1. CarryInv'
    BY CarryStep DEF CableInv
  <1>2. pc'["mon"][1] \in Round => pc["mon"][1] \in Round
    BY ThreadFacts DEF Moved
  <1>3. PortInv'
    BY <1>2, PortKept DEF CableInv
  <1>4. RangeInv'
    BY RangeStep DEF CableInv, RangeInv
  <1> QED
    BY <1>1, <1>3, <1>4 DEF CableInv

(* A step that moves no thread and leaves the port alone *)
LEMMA Still ==
    ASSUME CableInv, Odd, UNCHANGED <<pc, port>>,
           plugged' \in BOOLEAN, status' \in BOOLEAN, state' \in JackStates, temp' \in Temps
    PROVE  CableInv'
  <1>1. PortInv'
    BY PortKept DEF CableInv
  <1> QED
    BY <1>1, RangeStep DEF CableInv, CarryInv

(* What a step leaves alone keeps its range. *)
LEMMA Ranges ==
    ASSUME CableInv
    PROVE  /\ UNCHANGED hw => UNCHANGED plugged
           /\ UNCHANGED jack => status' \in BOOLEAN /\ state' \in JackStates
           /\ UNCHANGED status => status' \in BOOLEAN
           /\ UNCHANGED state => state' \in JackStates
           /\ UNCHANGED warmth => temp' \in Temps
           /\ UNCHANGED temp => temp' \in Temps
           /\ plugged \in BOOLEAN /\ "COLD" \in Temps
           /\ {"REMOVED", "INSERTED", "GOING_ONLINE", "ONLINE", "ERROR"} \subseteq JackStates
  BY ThreadFacts DEF CableInv, RangeInv, hw, jack, warmth, Temps, JackStates

-----------------------------------------------------------------------------
(* The jack, and the threads that bring it online *)

LEMMA OfCable ==
    ASSUME CableInv, Cable
    PROVE  CableInv'
  <1>1. plugged' \in BOOLEAN
    BY DEF Cable, Plug, Offline, Heat, Keep, CableInv, RangeInv
  <1>2. Odd /\ UNCHANGED <<pc, port, jack, warmth>>
    BY DEF Cable, Plug, Offline, Heat, Keep
  <1> QED
    BY <1>1, <1>2, Still, Ranges

LEMMA OfOnlinePlain ==
    ASSUME CableInv, NEW t \in {"scan", "event"},
           \/ OnlineWait(t) \/ OnlineGoing(t) \/ OnlineRead(t) \/ OnlineReset(t)
           \/ OnlinePower(t) \/ OnlineAttr(t) \/ OnlinePresent(t)
           \/ OnlineFinish(t) \/ OnlineFail(t)
    PROVE  CableInv'
  <1>1. t \in Threads /\ t # "mon"
    BY ThreadFacts
  <1>2. Odd /\ UNCHANGED <<plugged, port>>
    BY DEF OnlineWait, OnlineGoing, OnlineRead, OnlineReset, OnlinePower, OnlineAttr,
           OnlinePresent, OnlineFinish, OnlineFail, Keep, hw
  <1>3. Moved(t) /\ (pc'[t][1] \in {"attr", "store"} => pc'[t][2] \in OwnAttrs)
    <2>1. CASE OnlineWait(t) \/ OnlineGoing(t) \/ OnlineReset(t) \/ OnlinePresent(t)
      <3>1. \E s \in {"look", "going", "online", "fail", "read", "reset", "raise", "finish",
                      "idle"}, a \in {""} : Go(t, s, a)
        BY <2>1 DEF OnlineWait, OnlineGoing, OnlineReset, OnlinePresent, Stored, Done
      <3>2. /\ Moved(t)
            /\ pc'[t][1] \in {"look", "going", "online", "fail", "read", "reset", "raise",
                              "finish", "idle"}
        BY <1>1, <3>1, GoesTo
      <3> QED
        BY <3>2
    <2>2. CASE OnlineRead(t) \/ OnlinePower(t)
      <3>1. \/ \E s \in {"power", "fail"}, a \in {""} : Go(t, s, a)
            \/ \E s \in {"attr"}, a \in OwnAttrs : Go(t, s, a)
        BY <2>2 DEF OnlineRead, OnlinePower, OwnAttrs
      <3>2. Moved(t) /\ (pc'[t][1] \in {"power", "fail"} \/ pc'[t][2] \in OwnAttrs)
        BY <1>1, <3>1, GoesTo
      <3> QED
        BY <3>2
    <2>3. CASE OnlineFinish(t) \/ OnlineFail(t)
      BY <1>1, <2>3, GoFacts DEF OnlineFinish, OnlineFail
    <2>4. CASE OnlineAttr(t)
      <3>1. About(t) \in OwnAttrs
        BY <1>1, <2>4, AtFacts DEF OnlineAttr, CableInv, CarryInv, Carries, About
      <3>2. \E s \in {"store"}, a \in {About(t)} : Go(t, s, a)
        BY <2>4 DEF OnlineAttr
      <3>3. Moved(t) /\ pc'[t][2] \in {About(t)}
        BY <1>1, <3>2, GoesTo
      <3> QED
        BY <3>1, <3>3
    <2> QED
      BY <2>1, <2>2, <2>3, <2>4
  <1>4. status' \in BOOLEAN /\ state' \in JackStates /\ temp' \in Temps
    <2>1. CASE OnlineWait(t) \/ OnlineGoing(t) \/ OnlineReset(t) \/ OnlineAttr(t) \/ OnlinePresent(t)
      BY <2>1, Ranges DEF OnlineWait, OnlineGoing, OnlineReset, OnlineAttr, OnlinePresent, Keep
    <2>2. CASE OnlineRead(t) \/ OnlinePower(t)
      BY <2>2, Ranges DEF OnlineRead, OnlinePower, Keep
    <2>3. CASE OnlineFinish(t) \/ OnlineFail(t)
      BY <2>3, Ranges DEF OnlineFinish, OnlineFail, Keep
    <2> QED
      BY <2>1, <2>2, <2>3
  <1> QED
    BY <1>1, <1>2, <1>3, <1>4, Plain DEF Carries

(* sl_media_data_jack_media_attr_set, with what was read of a cable *)
LEMMA OfAttrSet ==
    ASSUME PortInv, Odd, NEW a \in OwnAttrs, AttrSet(a), pc'["mon"] = pc["mon"]
    PROVE  PortInv'
  <1>1. /\ "aliased" \notin odd' =>
              "aliased" \notin odd /\ (pc'["mon"][1] \in {"error", "attr"} => fake' # "ADDED")
        /\ odd' \cap {"crossed", "aliased"} = {} => odd \cap {"crossed", "aliased"} = {}
    BY OddFacts DEF Aliasing
  <1>2. a \in Attrs /\ a # "fake" /\ a # "none"
    BY DEF OwnAttrs, Attrs
  <1>3. CASE fake = "ADDED" /\ stash' = a /\ real' = "STASHED" /\ UNCHANGED <<attr, fake>>
    BY <1>1, <1>2, <1>3 DEF PortInv
  <1>4. CASE fake # "ADDED" /\ attr' = a /\ real' = "ADDED" /\ UNCHANGED <<stash, fake>>
    BY <1>1, <1>2, <1>4 DEF PortInv
  <1> QED
    BY <1>3, <1>4 DEF AttrSet

(* A step of a thread but the monitor that writes the port *)
LEMMA Writes ==
    ASSUME CableInv, NEW t \in Threads, Moved(t), Carries(t, pc'[t]), Odd, PortInv',
           UNCHANGED <<plugged, status, temp>>, state' \in JackStates
    PROVE  CableInv'
  <1>1. CarryInv'
    BY CarryStep DEF CableInv
  <1>2. RangeInv'
    BY Ranges, RangeStep DEF CableInv, RangeInv
  <1> QED
    BY <1>1, <1>2 DEF CableInv

LEMMA OfOnlineStore ==
    ASSUME CableInv, NEW t \in {"scan", "event"}, OnlineStore(t)
    PROVE  CableInv'
  <1>1. t \in Threads /\ t # "mon"
    BY ThreadFacts
  <1>2. pc[t][1] = "store" /\ Odd /\ UNCHANGED <<plugged, state, status, temp>>
    BY AtFacts DEF OnlineStore, Keep, hw, jack, warmth
  <1>3. About(t) \in OwnAttrs
    BY <1>1, <1>2 DEF CableInv, CarryInv, Carries, About
  <1>4. Moved(t) /\ pc'[t][1] \notin {"attr", "store"} /\ pc'["mon"] = pc["mon"]
    <2>1. \E s \in {"present", "finish", "fail"}, a \in {About(t), ""} : Go(t, s, a)
      BY DEF OnlineStore, Stored
    <2>2. Moved(t) /\ pc'[t][1] \in {"present", "finish", "fail"}
      BY <1>1, <2>1, GoesTo
    <2> QED
      BY <1>1, <2>2, ThreadFacts DEF Moved
  <1>5. PortInv'
    <2>1. CASE AttrSet(About(t))
      BY <1>2, <1>3, <1>4, <2>1, OfAttrSet DEF CableInv
    <2>2. CASE UNCHANGED port
      BY <1>2, <1>4, <2>2, PortKept DEF CableInv
    <2> QED
      BY <2>1, <2>2 DEF OnlineStore
  <1>6. state' \in JackStates
    BY <1>2, Ranges
  <1> QED
    BY <1>1, <1>2, <1>4, <1>5, <1>6, Writes DEF Carries

LEMMA OfOnline ==
    ASSUME CableInv, NEW t \in {"scan", "event"}, OnlineStep(t)
    PROVE  CableInv'
  BY OfOnlinePlain, OfOnlineStore DEF OnlineStep

LEMMA OfScan ==
    ASSUME CableInv, ScanStep
    PROVE  CableInv'
  <1>1. "scan" \in Threads /\ "scan" # "mon" /\ "mon" \in Threads
    BY ThreadFacts
  <1>2. CASE Scan \/ Listen \/ ScanAgain \/ Verify
    <2>1. \E s \in {"online", "idle", "blind", "again", "verify", "relock"}, a \in {""} :
             Go("scan", s, a)
      BY <1>2 DEF Scan, Listen, ScanAgain, Verify, Online, Done
    <2>6. /\ Moved("scan")
          /\ pc'["scan"][1] \in {"online", "idle", "blind", "again", "verify", "relock"}
      BY <1>1, <2>1, GoesTo
    <2>2. Moved("scan") /\ pc'["scan"][1] \notin {"attr", "store"}
      BY <2>6
    <2>3. Odd /\ UNCHANGED <<plugged, port>> /\ state' = state /\ temp' = temp
      BY <1>2 DEF Scan, Listen, ScanAgain, Verify, Keep, hw, jack, warmth
    <2>4. status' = plugged \/ status' = status
      BY <1>2 DEF Scan, Listen, ScanAgain, Verify, Keep, jack
    <2>5. status' \in BOOLEAN
      BY <2>4, Ranges
    <2> QED
      BY <1>1, <2>2, <2>3, <2>5, Ranges, Plain DEF Carries
  <1>3. CASE ScanBlind
    <2>1. Done("scan") /\ Odd /\ UNCHANGED <<plugged, state, status, temp>>
      BY <1>3 DEF ScanBlind, Keep, hw, jack, warmth
    <2>2. Moved("scan") /\ pc'["scan"][1] \notin {"attr", "store"} /\ pc'["mon"] = pc["mon"]
      BY <1>1, <2>1, GoFacts DEF Moved
    <2>3. PortInv'
      <3>1. CASE AttrSet("bare")
        BY <2>1, <2>2, <3>1, OfAttrSet DEF CableInv, OwnAttrs
      <3>2. CASE UNCHANGED port
        BY <2>1, <2>2, <3>2, PortKept DEF CableInv
      <3> QED
        BY <1>3, <3>1, <3>2 DEF ScanBlind
    <2>4. state' \in JackStates
      BY <2>1, Ranges
    <2> QED
      BY <1>1, <2>1, <2>2, <2>3, <2>4, Writes DEF Carries
  <1>4. CASE OnlineStep("scan")
    BY <1>4, OfOnline
  <1> QED
    BY <1>2, <1>3, <1>4 DEF ScanStep

-----------------------------------------------------------------------------
(* Removals *)

LEMMA OfEventPlain ==
    ASSUME CableInv, EventServe \/ AttrClrLook \/ AttrClrSend \/ EventRemoved
    PROVE  CableInv'
  <1>1. "event" \in Threads /\ "event" # "mon"
    BY ThreadFacts
  <1>2. CASE EventServe /\ pc' # pc
    <2>1. \E s \in {"online", "clr"}, a \in {""} : Go("event", s, a)
      BY <1>2 DEF EventServe, Online
    <2>2. Moved("event") /\ pc'["event"][1] \in {"online", "clr"}
      BY <1>1, <2>1, GoesTo
    <2>3. pc'["event"][1] \notin {"attr", "store"}
      BY <2>2
    <2>4. Odd /\ UNCHANGED <<plugged, port, status, temp>>
      BY <1>2 DEF EventServe, Keep, warmth
    <2>5. state' \in JackStates
      <3>1. state' = state \/ state' \in {"INSERTED", "ERROR"}
        BY <1>2 DEF EventServe
      <3> QED
        BY <3>1, Ranges
    <2> QED
      BY <1>1, <2>2, <2>3, <2>4, <2>5, Ranges, Plain DEF Carries
  <1>3. CASE EventServe /\ pc' = pc
    <2>1. Odd /\ UNCHANGED <<plugged, port, status, temp>>
      BY <1>3 DEF EventServe, Keep, warmth
    <2>2. state' = state \/ state' \in {"INSERTED", "ERROR"}
      BY <1>3 DEF EventServe
    <2> QED
      BY <1>3, <2>1, <2>2, Ranges, Still
  <1>4. CASE AttrClrLook \/ AttrClrSend \/ EventRemoved
    <2>1. \E s \in {"absent", "gone", "removed", "idle"},
             a \in {"", "HOT", Below(About("event"))} : Go("event", s, a)
      BY <1>4 DEF AttrClrLook, AttrClrSend, EventRemoved, Done
    <2>2. Moved("event") /\ pc'["event"][1] \in {"absent", "gone", "removed", "idle"}
      BY <1>1, <2>1, GoesTo
    <2>3. pc'["event"][1] \notin {"attr", "store"}
      BY <2>2
    <2>4. Odd /\ UNCHANGED <<plugged, port, status, temp>>
      BY <1>4 DEF AttrClrLook, AttrClrSend, EventRemoved, Keep, hw, jack, warmth
    <2>5. state' \in JackStates
      <3>1. state' = state \/ state' = "REMOVED"
        BY <1>4 DEF AttrClrLook, AttrClrSend, EventRemoved, Keep, jack
      <3> QED
        BY <3>1, Ranges
    <2> QED
      BY <1>1, <2>2, <2>3, <2>4, <2>5, Ranges, Plain DEF Carries
  <1> QED
    BY <1>2, <1>3, <1>4

(* The removal that clears the attributes *)
LEMMA OfAttrClr ==
    ASSUME CableInv, AttrClr
    PROVE  CableInv'
  <1>1. "event" \in Threads /\ "event" # "mon" /\ "mon" \in Threads
    BY ThreadFacts
  <1>2. \E s \in {"wipe", "unsee", "gone"}, a \in {"", "HOT"} : Go("event", s, a)
    BY DEF AttrClr
  <1>3. Moved("event") /\ pc'["event"][1] \in {"wipe", "unsee", "gone"}
    BY <1>1, <1>2, GoesTo
  <1>4. /\ pc'["event"][1] \notin {"attr", "store"} /\ pc'["mon"] = pc["mon"]
        /\ pc'["event"][1] \in {"clr", "wipe", "unsee", "absent", "gone", "removed"}
    BY <1>1, <1>3 DEF Moved
  <1>5. Odd /\ UNCHANGED <<plugged, state, status, temp>>
    BY DEF AttrClr, Keep, hw, jack, warmth
  <1>6. PortInv'
    <2>1. CASE UNCHANGED port
      BY <1>4, <1>5, <2>1, PortKept DEF CableInv
    <2>2. CASE /\ attr' = IF real = "ADDED" THEN "none" ELSE attr
               /\ real' = "REMOVED"
               /\ UNCHANGED <<fake, stash>>
      <3>1. /\ "aliased" \notin odd' =>
                  "aliased" \notin odd
            /\ odd' \cap {"crossed", "aliased"} = {} => odd \cap {"crossed", "aliased"} = {}
            /\ "crossed" \in odd' \/ pc'["mon"][1] \notin Round
        BY <1>4, <1>5, OddFacts DEF Crossing, Round
      <3>2. "none" \in Attrs /\ "none" # "fake"
        BY DEF Attrs
      <3> QED
        BY <1>4, <2>2, <3>1, <3>2 DEF CableInv, PortInv
    <2> QED
      BY <2>1, <2>2 DEF AttrClr
  <1>7. state' \in JackStates
    BY <1>5, Ranges
  <1> QED
    BY <1>1, <1>3, <1>4, <1>5, <1>6, <1>7, Writes DEF Carries

LEMMA OfEvent ==
    ASSUME CableInv, EventStep
    PROVE  CableInv'
  BY OfEventPlain, OfAttrClr, OfOnline DEF EventStep

-----------------------------------------------------------------------------
(* Fake cables *)

LEMMA OfFakePlain ==
    ASSUME CableInv, FakeStep
    PROVE  CableInv'
  <1>1. "fake" \in Threads /\ "fake" \notin {"mon", "scan", "event"}
    BY ThreadFacts
  <1>2. \E s \in {"absent", "present", "look", "idle"}, a \in {""} : Go("fake", s, a)
    BY DEF FakeStep, FakeSetLook, FakeSend, FakeClrLook, Done
  <1>3. Moved("fake")
    BY <1>1, <1>2, GoesTo
  <1>4. Odd /\ UNCHANGED <<plugged, port, state, status, temp>>
    BY DEF FakeStep, FakeSetLook, FakeSend, FakeClrLook, Keep, hw, jack, warmth
  <1> QED
    BY <1>1, <1>3, <1>4, Ranges, Plain DEF Carries

LEMMA OfFakeWrites ==
    ASSUME CableInv, FakeSet \/ FakeClr
    PROVE  CableInv'
  <1>1. "fake" \in Threads /\ "fake" \notin {"mon", "scan", "event"} /\ "mon" \in Threads
    BY ThreadFacts
  <1>2. \E s \in {"set", "clr"}, a \in {""} : Go("fake", s, a)
    BY DEF FakeSet, FakeClr
  <1>3. Moved("fake") /\ pc'["mon"] = pc["mon"]
    <2>1. Moved("fake")
      BY <1>1, <1>2, GoesTo
    <2> QED
      BY <1>1, <2>1 DEF Moved
  <1>4. Odd /\ UNCHANGED <<plugged, state, status, temp>>
    BY DEF FakeSet, FakeClr, Keep, hw, jack, warmth
  <1>5. /\ "aliased" \notin odd' =>
              "aliased" \notin odd /\ (pc'["mon"][1] \in {"error", "attr"} => fake' # "ADDED")
        /\ odd' \cap {"crossed", "aliased"} = {} => odd \cap {"crossed", "aliased"} = {}
    BY <1>4, OddFacts DEF Aliasing
  <1>6. PortInv'
    <2>1. CASE FakeSet
      <3>1. /\ fake = "REMOVED" /\ fake' = "ADDED" /\ attr' = "fake"
            /\ stash' = IF real = "ADDED" THEN attr ELSE stash
            /\ real' = IF real = "ADDED" THEN "STASHED" ELSE real
        BY <2>1 DEF FakeSet
      <3>2. "fake" \in Attrs
        BY DEF Attrs
      <3> QED
        BY <1>3, <1>5, <3>1, <3>2 DEF CableInv, PortInv
    <2>2. CASE FakeClr
      <3>1. /\ fake = "ADDED" /\ fake' = "REMOVED" /\ stash' = stash
            /\ attr' = IF real = "STASHED" THEN stash ELSE "none"
            /\ real' = IF real = "STASHED" THEN "ADDED" ELSE real
        BY <2>2 DEF FakeClr, Keep
      <3>2. "none" \in Attrs /\ "none" # "fake"
        BY DEF Attrs
      <3> QED
        BY <1>3, <1>5, <3>1, <3>2 DEF CableInv, PortInv
    <2> QED
      BY <2>1, <2>2
  <1>7. state' \in JackStates
    BY <1>4, Ranges
  <1> QED
    BY <1>1, <1>3, <1>4, <1>6, <1>7, Writes DEF Carries

-----------------------------------------------------------------------------
(* The monitor and the registration *)

LEMMA SetsOff ==
    ASSUME CableInv, NEW t \in Threads, NEW l, pc' = [pc EXCEPT ![t] = l]
    PROVE  Moved(t) /\ pc'[t] = l
  BY DEF CableInv, CarryInv, Moved

LEMMA OfMonBegin ==
    ASSUME CableInv, MonBegin
    PROVE  CableInv'
  <1>1. "mon" \in Threads /\ "mon" \notin {"scan", "event"}
    BY ThreadFacts
  <1>2. \E s \in {"check"}, a \in {""} : Go("mon", s, a)
    BY DEF MonBegin
  <1>3. Moved("mon") /\ pc'["mon"][1] \in {"check"}
    BY <1>1, <1>2, GoesTo
  <1>4. Odd /\ UNCHANGED <<plugged, port, status, state, temp>> /\ attr \in {"real", "faulty"}
    BY DEF MonBegin, Keep, Active, hw, jack
  <1>5. odd \cap {"crossed", "aliased"} = {} => real # "REMOVED"
    BY <1>4 DEF CableInv, PortInv
  <1>6. PortInv'
    BY <1>4, <1>5, PortKept DEF CableInv
  <1>7. pc'["mon"][1] \notin {"send", "mark", "clear", "set"}
    BY <1>3
  <1>8. Carries("mon", pc'["mon"]) /\ state' \in JackStates
    BY <1>1, <1>4, <1>7, Ranges DEF Carries
  <1> QED
    BY <1>1, <1>3, <1>4, <1>6, <1>8, Writes

(* A step of the monitor that leaves the port alone and does not begin a round *)
LEMMA MonPlain ==
    ASSUME CableInv, Moved("mon"), Odd, UNCHANGED <<plugged, port, status>>,
           pc'["mon"][1] \in Round => pc["mon"][1] \in Round,
           pc'["mon"][1] \in {"send", "mark", "clear", "set"} => pc'["mon"][2] \in Temps,
           state' \in JackStates, temp' \in Temps
    PROVE  CableInv'
  <1>1. "mon" \in Threads /\ "mon" \notin {"scan", "event"}
    BY ThreadFacts
  <1>2. Carries("mon", pc'["mon"])
    BY <1>1 DEF Carries
  <1>3. status' \in BOOLEAN
    BY Ranges
  <1> QED
    BY <1>1, <1>2, <1>3, Plain

LEMMA OfMonRound ==
    ASSUME CableInv, MonCheck \/ MonCold \/ MonPower
    PROVE  CableInv'
  <1>1. "mon" \in Threads
    BY ThreadFacts
  <1>2. pc["mon"][1] \in Round
    BY AtFacts DEF MonCheck, MonCold, MonPower, Round
  <1>3. \E s \in {"set", "cold", "send", "power", "error"}, a \in Temps : Go("mon", s, a)
    <2>1. CASE MonCheck
      <3>1. PICK level \in Levels \cup {"UNKNOWN"} :
               Go("mon", CASE level = "UNKNOWN" -> "set"
                           [] level = "COLD" /\ prior # "COLD" -> "cold"
                           [] OTHER -> "send", level)
        BY <2>1 DEF MonCheck
      <3> QED
        BY <3>1, ThreadFacts
    <2>2. CASE MonCold \/ MonPower
      BY <2>2, ThreadFacts DEF MonCold, MonPower
    <2> QED
      BY <2>1, <2>2
  <1>4. Moved("mon") /\ pc'["mon"][2] \in Temps
    BY <1>1, <1>3, GoesTo
  <1>5. Odd /\ UNCHANGED <<plugged, port, status, temp>>
    BY DEF MonCheck, MonCold, MonPower, Keep, hw, jack, warmth
  <1>6. state' \in JackStates
    <2>1. state' = state \/ state' = "ERROR"
      BY DEF MonCheck, MonCold, MonPower, Keep, jack
    <2> QED
      BY <2>1, Ranges
  <1> QED
    BY <1>2, <1>4, <1>5, <1>6, Ranges, MonPlain

LEMMA OfMonSet ==
    ASSUME CableInv, MonSet
    PROVE  CableInv'
  <1>1. "mon" \in Threads
    BY ThreadFacts
  <1>2. \E s \in {"idle"}, a \in {""} : Go("mon", s, a)
    BY DEF MonSet, Done
  <1>3. Moved("mon") /\ pc'["mon"][1] \in {"idle"}
    BY <1>1, <1>2, GoesTo
  <1>4. pc'["mon"][1] \notin Round /\ pc'["mon"][1] \notin {"send", "mark", "clear", "set"}
    BY <1>3 DEF Round
  <1>5. Odd /\ UNCHANGED <<plugged, port, status, state>>
    BY DEF MonSet, Keep, hw, jack
  <1>6. temp' \in Temps
    <2>1. pc["mon"][1] = "set"
      BY AtFacts DEF MonSet
    <2>2. About("mon") \in Temps
      BY <1>1, <2>1 DEF CableInv, CarryInv, Carries, About
    <2>3. temp' = temp \/ temp' = About("mon")
      BY DEF MonSet
    <2> QED
      BY <2>2, <2>3, Ranges
  <1> QED
    BY <1>3, <1>4, <1>5, <1>6, Ranges, MonPlain

(* The notifications, of the monitor and of a registration *)
LEMMA OfNotifSend ==
    ASSUME CableInv, NEW t \in {"mon", "client"}, NotifSend(t)
    PROVE  CableInv'
  <1>1. t \in Threads /\ t \notin {"scan", "event"}
    BY ThreadFacts
  <1>2. Odd /\ UNCHANGED <<plugged, port, state, status, temp>>
    BY DEF NotifSend, Send, Mark, Clear, Keep, hw, jack, warmth
  <1>3. (\E s \in {"mark", "clear"}, a \in {About(t)} : Go(t, s, a)) \/ Sent(t)
    BY DEF NotifSend, Send, Mark, Clear
  <1>4. pc[t][1] \in {"send", "mark", "clear"}
    BY AtFacts DEF NotifSend, Send, Mark, Clear
  <1>5. CASE t = "mon"
    <2>1. About("mon") \in Temps
      BY <1>1, <1>4, <1>5 DEF CableInv, CarryInv, Carries, About
    <2>2. /\ Moved("mon") /\ pc'["mon"][1] \notin Round
          /\ pc'["mon"][2] \in Temps
      <3>1. CASE \E s \in {"mark", "clear"}, a \in {About(t)} : Go(t, s, a)
        <4>1. /\ Moved(t) /\ pc'[t][1] \in {"mark", "clear"}
              /\ pc'[t][2] \in {About(t)}
          BY <1>1, <3>1, GoesTo
        <4> QED
          BY <1>5, <2>1, <4>1 DEF Round
      <3>2. CASE Sent(t)
        <4>1. pc' = [pc EXCEPT !["mon"] = <<"set", About("mon")>>]
          BY <1>5, <3>2 DEF Sent
        <4>2. Moved("mon") /\ pc'["mon"] = <<"set", About("mon")>>
          BY <1>1, <1>5, <4>1, SetsOff
        <4> QED
          BY <2>1, <4>2 DEF Round
      <3> QED
        BY <1>3, <3>1, <3>2
    <2> QED
      BY <1>2, <2>2, Ranges, MonPlain
  <1>6. CASE t = "client"
    <2>1. Moved(t)
      <3>1. CASE \E s \in {"mark", "clear"}, a \in {About(t)} : Go(t, s, a)
        BY <1>1, <3>1, GoesTo
      <3>2. CASE Sent(t)
        BY <1>1, <3>2, SetsOff DEF Sent
      <3> QED
        BY <1>3, <3>1, <3>2
    <2> QED
      BY <1>1, <1>2, <1>6, <2>1, Ranges, Plain DEF Carries
  <1> QED
    BY <1>5, <1>6

(* The error that the monitor puts into the attributes of the port *)
LEMMA OfMonError ==
    ASSUME CableInv, MonError
    PROVE  CableInv'
  <1>1. "mon" \in Threads /\ "mon" \notin {"scan", "event"}
    BY ThreadFacts
  <1>2. pc["mon"][1] \in Round
    BY AtFacts DEF MonError, Round
  <1>3. \E s \in {"attr", "present", "send"}, a \in {"COLD"} : Go("mon", s, a)
    BY DEF MonError
  <1>4. Moved("mon") /\ pc'["mon"][2] \in {"COLD"}
    BY <1>1, <1>3, GoesTo
  <1>5. Carries("mon", pc'["mon"])
    BY <1>1, <1>4, Ranges DEF Carries
  <1>6. Odd /\ UNCHANGED <<plugged, state, status, temp>>
    BY DEF MonError, Keep, hw, jack, warmth
  <1>7. /\ "aliased" \notin odd' =>
              "aliased" \notin odd /\ (pc'["mon"][1] \in {"error", "attr"} => fake' # "ADDED")
        /\ odd' \cap {"crossed", "aliased"} = {} => odd \cap {"crossed", "aliased"} = {}
    BY <1>6, OddFacts DEF Aliasing
  <1>8. PortInv'
    <2>1. CASE /\ At("mon", "error")
               /\ attr' = (CASE attr = "real" -> "faulty"
                             [] attr = "none" -> "bare"
                             [] OTHER -> attr)
               /\ UNCHANGED <<real, fake, stash>>
      <3>1. pc["mon"][1] \in {"error", "attr"}
        BY <2>1, AtFacts
      <3>2. /\ attr \in Attrs => attr' \in Attrs
            /\ attr \in OwnAttrs => attr' \in OwnAttrs
            /\ attr = "fake" <=> attr' = "fake"
        BY <2>1 DEF Attrs, OwnAttrs
      <3> QED
        BY <1>2, <1>7, <2>1, <3>1, <3>2 DEF CableInv, PortInv
    <2>2. CASE At("mon", "attr") /\ AttrSet(attr)
      <3>1. pc["mon"][1] \in {"error", "attr"}
        BY <2>2, AtFacts
      <3>2. CASE fake = "ADDED" /\ stash' = attr /\ real' = "STASHED" /\ UNCHANGED <<attr, fake>>
        BY <1>2, <1>7, <3>1, <3>2 DEF CableInv, PortInv
      <3>3. CASE /\ fake # "ADDED" /\ real # "ADDED"
                 /\ attr' = attr /\ real' = "ADDED" /\ UNCHANGED <<stash, fake>>
        BY <1>2, <1>7, <3>1, <3>3 DEF CableInv, PortInv
      <3> QED
        BY <2>2, <3>2, <3>3 DEF AttrSet
    <2>3. CASE UNCHANGED port
      BY <1>2, <1>6, <2>3, PortKept DEF CableInv
    <2> QED
      BY <2>1, <2>2, <2>3 DEF MonError
  <1>9. state' \in JackStates
    BY <1>6, Ranges
  <1> QED
    BY <1>1, <1>4, <1>5, <1>6, <1>8, <1>9, Writes

LEMMA OfMon ==
    ASSUME CableInv, MonStep
    PROVE  CableInv'
  BY OfMonBegin, OfMonRound, OfMonError, OfMonSet, OfNotifSend DEF MonStep

-----------------------------------------------------------------------------
(* The client and the link *)

LEMMA OfClient ==
    ASSUME CableInv, NewGroup \/ Register \/ Unregister \/ ClientStep
    PROVE  CableInv'
  <1>1. "client" \in Threads /\ "client" \notin {"mon", "scan", "event"}
    BY ThreadFacts
  <1>2. CASE NewGroup
    <2>1. Odd /\ UNCHANGED <<pc, plugged, port, state, status, temp>>
      BY <1>2 DEF NewGroup, Keep, hw, jack, warmth
    <2> QED
      BY <2>1, Ranges, Still
  <1>3. CASE \/ Register \/ Unregister \/ RegisterCable \/ RegisterLevel \/ RegisterCheck
             \/ FlagsClr
    <2>1. \/ \E s \in {"present", "idle", "absent", "ready", "check", "send", "unready",
                        "unsent"},
                a \in {"", "HOT", About("client"), Below(About("client"))} : Go("client", s, a)
          \/ Sent("client")
      BY <1>3 DEF Register, Unregister, RegisterCable, RegisterLevel, RegisterCheck, FlagsClr,
                  Done
    <2>2. Moved("client")
      <3>1. CASE Sent("client")
        BY <1>1, <3>1, SetsOff DEF Sent
      <3> QED
        BY <1>1, <2>1, <3>1, GoesTo
    <2>3. Odd /\ UNCHANGED <<plugged, port, state, status, temp>>
      BY <1>3 DEF Register, Unregister, RegisterCable, RegisterLevel, RegisterCheck,
                  FlagsClr, Keep, hw, jack, warmth
    <2> QED
      BY <1>1, <2>2, <2>3, Ranges, Plain DEF Carries
  <1>4. CASE NotifSend("client")
    BY <1>4, OfNotifSend
  <1> QED
    BY <1>2, <1>3, <1>4 DEF ClientStep

LEMMA OfLink ==
    ASSUME CableInv, LinkShift \/ LinkOff \/ LinkStep
    PROVE  CableInv'
  <1>1. "link" \in Threads /\ "link" \notin {"mon", "scan", "event"}
    BY ThreadFacts
  <1>2. Odd /\ UNCHANGED <<plugged, port, state, status, temp>>
    BY DEF LinkShift, LinkOff, LinkStep, Shifting, LowPower, Keep, hw, jack, warmth
  <1>3. CASE UNCHANGED pc
    BY <1>2, <1>3, Ranges, Still
  <1>4. CASE \E s \in {"down", "shift", "done", "low", "idle"}, a \in {""} : Go("link", s, a)
    <2>1. Moved("link")
      BY <1>1, <1>4, GoesTo
    <2> QED
      BY <1>1, <1>2, <2>1, Ranges, Plain DEF Carries
  <1> QED
    BY <1>3, <1>4 DEF LinkShift, LinkOff, LinkStep, Shifting, LowPower, Done

-----------------------------------------------------------------------------
(* A fake cable hides the real one, which gets its attributes back. *)

LEMMA CableInvInit == Init => CableInv
  <1> SUFFICES ASSUME Init PROVE CableInv
    OBVIOUS
  <1>1. /\ pc = [t \in Threads |-> pc[t]]
        /\ \A t \in Threads : pc[t][1] \in {"scan", "idle"}
    BY DEF Init
  <1>2. CarryInv
    BY <1>1 DEF CarryInv, Carries
  <1>3. RangeInv
    BY DEF Init, RangeInv, JackStates, Temps
  <1>4. pc["mon"][1] = "idle"
    BY ThreadFacts DEF Init
  <1>5. PortInv
    BY <1>4 DEF Init, PortInv, Attrs, Round
  <1> QED
    BY <1>2, <1>3, <1>5 DEF CableInv

LEMMA CableInvNext == CableInv /\ [Next]_vars => CableInv'
  <1> SUFFICES ASSUME CableInv, [Next]_vars PROVE CableInv'
    OBVIOUS
  <1>1. CASE ThreadStep
    BY <1>1, OfScan, OfEvent, OfFakePlain, OfMon, OfClient, OfLink DEF ThreadStep
  <1>2. CASE Calls
    BY <1>2, OfFakeWrites, OfClient, OfLink DEF Calls
  <1>3. CASE UNCHANGED vars
    <2>1. UNCHANGED <<plugged, status, odd, state, temp, attr, stash, real, fake, pc>>
      BY <1>3 DEF vars, hw, jack, warmth, port
    <2> QED
      BY <2>1 DEF CableInv, CarryInv, Carries, RangeInv, PortInv
  <1> QED
    BY <1>1, <1>2, <1>3, OfCable DEF Next

LEMMA CableInvAlways == Spec => []CableInv
  <1>1. Init => CableInv
    BY CableInvInit
  <1>2. CableInv /\ [Next]_vars => CableInv'
    BY CableInvNext
  <1> QED
    BY <1>1, <1>2, PTL DEF Spec

(* What the port stores of its two cables fits together at every moment,     *)
(* between the steps of sl_media_data_jack_media_attr_set and _clr and of    *)
(* the insertion and removal of a fake cable too.                            *)
THEOREM CableKeptAlways == Spec => []CableKept
  <1>1. CableInv => CableKept
    BY DEF CableInv, RangeInv, PortInv, CableKept, OddKinds, JackStates, Temps, OwnAttrs
  <1> QED
    BY <1>1, CableInvAlways, PTL

-----------------------------------------------------------------------------
(* Never are two temperatures marked as told, unless somebody is about to    *)
(* take the other one back.                                                  *)

Tellers == {"mon", "client"}

OneInv == (\E t \in Tellers : At(t, "clear")) \/ (\E k : sent \subseteq {k})

(* Nobody who is about to clear moves, and nothing more is marked. *)
Quiet ==
    /\ sent' \subseteq sent
    /\ \A t \in Tellers : pc[t][1] = "clear" => pc'[t] = pc[t]

LEMMA QuietStep ==
    ASSUME OneInv, Quiet
    PROVE  OneInv'
  BY DEF OneInv, Quiet, At

(* A step of t, that is not about to clear *)
LEMMA QuietMove ==
    ASSUME CableInv, NEW t \in Threads, \E s, a : Go(t, s, a),
           t \notin Tellers \/ pc[t][1] # "clear",
           sent' \subseteq sent
    PROVE  Quiet
  <1>1. Moved(t)
    BY GoFacts
  <1> QED
    BY <1>1, ThreadFacts DEF Quiet, Moved, Tellers

LEMMA QuietScan ==
    ASSUME CableInv, ScanStep
    PROVE  Quiet
  <1>1. "scan" \in Threads \ Tellers
    BY ThreadFacts DEF Tellers
  <1>2. \E s, a : Go("scan", s, a)
    BY DEF ScanStep, Scan, Listen, ScanAgain, ScanBlind, Verify, OnlineStep, OnlineWait,
           OnlineGoing, OnlineRead, OnlineReset, OnlinePower, OnlineAttr, OnlineStore,
           OnlinePresent, OnlineFinish, OnlineFail, Online, Stored, Done
  <1>3. sent' = sent
    BY DEF ScanStep, Scan, Listen, ScanAgain, ScanBlind, Verify, OnlineStep, OnlineWait,
           OnlineGoing, OnlineRead, OnlineReset, OnlinePower, OnlineAttr, OnlineStore,
           OnlinePresent, OnlineFinish, OnlineFail, Keep, flags
  <1> QED
    BY <1>1, <1>2, <1>3, QuietMove

LEMMA QuietEvent ==
    ASSUME CableInv, EventStep
    PROVE  Quiet
  <1>1. "event" \in Threads \ Tellers
    BY ThreadFacts DEF Tellers
  <1>2. (\E s, a : Go("event", s, a)) \/ UNCHANGED pc
    BY DEF EventStep, EventServe, AttrClr, AttrClrLook, AttrClrSend, EventRemoved,
           OnlineStep, OnlineWait, OnlineGoing, OnlineRead, OnlineReset, OnlinePower,
           OnlineAttr, OnlineStore, OnlinePresent, OnlineFinish, OnlineFail, Online, Stored, Done
  <1>3. sent' \subseteq sent
    BY DEF EventStep, EventServe, AttrClr, AttrClrLook, AttrClrSend, EventRemoved,
           OnlineStep, OnlineWait, OnlineGoing, OnlineRead, OnlineReset, OnlinePower,
           OnlineAttr, OnlineStore, OnlinePresent, OnlineFinish, OnlineFail, Keep, flags
  <1> QED
    BY <1>1, <1>2, <1>3, QuietMove DEF Quiet

LEMMA QuietFake ==
    ASSUME CableInv, FakeStep \/ FakeSet \/ FakeClr
    PROVE  Quiet
  <1>1. "fake" \in Threads \ Tellers
    BY ThreadFacts DEF Tellers
  <1>2. \E s, a : Go("fake", s, a)
    BY DEF FakeStep, FakeSetLook, FakeSend, FakeClrLook, FakeSet, FakeClr, Done
  <1>3. sent' = sent
    BY DEF FakeStep, FakeSetLook, FakeSend, FakeClrLook, FakeSet, FakeClr, Keep, flags
  <1> QED
    BY <1>1, <1>2, <1>3, QuietMove

LEMMA QuietLink ==
    ASSUME CableInv, LinkShift \/ LinkOff \/ LinkStep
    PROVE  Quiet
  <1>1. "link" \in Threads \ Tellers
    BY ThreadFacts DEF Tellers
  <1>2. (\E s, a : Go("link", s, a)) \/ UNCHANGED pc
    BY DEF LinkShift, LinkOff, LinkStep, Shifting, LowPower, Done
  <1>3. sent' = sent
    BY DEF LinkShift, LinkOff, LinkStep, Shifting, LowPower, Keep, flags
  <1> QED
    BY <1>1, <1>2, <1>3, QuietMove DEF Quiet

LEMMA QuietMon ==
    ASSUME CableInv, MonBegin \/ MonCheck \/ MonCold \/ MonPower \/ MonError \/ MonSet
    PROVE  Quiet
  <1>1. "mon" \in Threads
    BY ThreadFacts
  <1>2. \E s, a : Go("mon", s, a)
    BY DEF MonBegin, MonCheck, MonCold, MonPower, MonError, MonSet, Done
  <1>3. pc["mon"][1] # "clear"
    BY AtFacts DEF MonBegin, MonCheck, MonCold, MonPower, MonError, MonSet, Idle
  <1>4. sent' = sent
    BY DEF MonBegin, MonCheck, MonCold, MonPower, MonError, MonSet, Keep, flags
  <1> QED
    BY <1>1, <1>2, <1>3, <1>4, QuietMove

LEMMA QuietClient ==
    ASSUME CableInv,
           \/ NewGroup \/ Register \/ Unregister
           \/ RegisterCable \/ RegisterLevel \/ RegisterCheck \/ FlagsClr
    PROVE  Quiet
  <1>1. "client" \in Threads
    BY ThreadFacts
  <1>2. CASE NewGroup
    BY <1>2 DEF NewGroup, Keep, flags, Quiet
  <1>3. CASE \/ Register \/ Unregister \/ RegisterCable \/ RegisterLevel \/ RegisterCheck
             \/ FlagsClr
    <2>1. (\E s, a : Go("client", s, a)) \/ Sent("client")
      BY <1>3 DEF Register, Unregister, RegisterCable, RegisterLevel, RegisterCheck, FlagsClr,
                  Done
    <2>2. pc["client"][1] # "clear"
      <3>1. CASE Register \/ Unregister
        <4>1. PICK a : pc["client"] = <<"idle", a>>
          BY <3>1 DEF Register, Unregister
        <4>2. pc["client"][1] = "idle"
          BY <4>1
        <4> QED
          BY <4>2
      <3>2. CASE RegisterCable \/ RegisterLevel \/ RegisterCheck \/ FlagsClr
        <4>1. \/ At("client", "present") \/ At("client", "absent")
              \/ At("client", "ready") \/ At("client", "check")
              \/ At("client", "unready") \/ At("client", "unsent")
          BY <3>2 DEF RegisterCable, RegisterLevel, RegisterCheck, FlagsClr
        <4> QED
          BY <4>1 DEF At
      <3> QED
        BY <1>3, <3>1, <3>2
    <2>3. sent' \subseteq sent
      BY <1>3 DEF Register, Unregister, RegisterCable, RegisterLevel, RegisterCheck, FlagsClr,
                  Keep, flags
    <2>4. CASE Sent("client")
      BY <1>1, <2>2, <2>3, <2>4, SetsOff, ThreadFacts DEF Sent, Moved, Quiet, Tellers
    <2> QED
      BY <1>1, <2>1, <2>2, <2>3, <2>4, QuietMove
  <1> QED
    BY <1>2, <1>3

(* Mark goes on to clear, and whoever clears leaves one temperature at most. *)
LEMMA OneNotif ==
    ASSUME CableInv, OneInv, NEW t \in Tellers, NotifSend(t)
    PROVE  OneInv'
  <1>1. t \in Threads
    BY ThreadFacts DEF Tellers
  <1>2. CASE Send(t)
    <2>1. (\E s, a : Go(t, s, a)) \/ Sent(t)
      BY <1>2 DEF Send
    <2>2. Moved(t)
      <3>1. CASE Sent(t)
        BY <1>1, <3>1, SetsOff DEF Sent
      <3> QED
        BY <1>1, <2>1, <3>1, GoFacts
    <2>3. pc[t][1] # "clear" /\ sent' = sent
      BY <1>2, AtFacts DEF Send, Keep, flags
    <2>4. Quiet
      BY <2>2, <2>3, ThreadFacts DEF Quiet, Moved, Tellers
    <2> QED
      BY <2>4, QuietStep
  <1>3. CASE Mark(t)
    <2>1. \E s \in {"clear"}, a \in {About(t)} : Go(t, s, a)
      BY <1>3 DEF Mark
    <2>2. pc'[t][1] \in {"clear"}
      BY <1>1, <2>1, GoesTo
    <2> QED
      BY <2>2 DEF OneInv, At
  <1>4. CASE Clear(t)
    BY <1>4 DEF Clear, OneInv
  <1> QED
    BY <1>2, <1>3, <1>4 DEF NotifSend

LEMMA OneNext == CableInv /\ OneInv /\ [Next]_vars => OneInv'
  <1> SUFFICES ASSUME CableInv, OneInv, [Next]_vars PROVE OneInv'
    OBVIOUS
  <1>1. CASE NotifSend("mon") \/ NotifSend("client")
    BY <1>1, OneNotif DEF Tellers
  <1>2. CASE Cable \/ UNCHANGED vars
    <2>1. UNCHANGED <<pc, sent>>
      BY <1>2 DEF Cable, Plug, Offline, Heat, Keep, vars, flags
    <2> QED
      BY <2>1 DEF OneInv, At
  <1>3. CASE \/ ScanStep \/ EventStep \/ FakeStep \/ FakeSet \/ FakeClr
             \/ LinkShift \/ LinkOff \/ LinkStep
             \/ MonBegin \/ MonCheck \/ MonCold \/ MonPower \/ MonError \/ MonSet
             \/ NewGroup \/ Register \/ Unregister
             \/ RegisterCable \/ RegisterLevel \/ RegisterCheck \/ FlagsClr
    BY <1>3, QuietScan, QuietEvent, QuietFake, QuietLink, QuietMon, QuietClient, QuietStep
  <1> QED
    BY <1>1, <1>2, <1>3 DEF Next, ThreadStep, Calls, MonStep, ClientStep

LEMMA OneCount == (\E k : sent \subseteq {k}) => Cardinality(sent) <= 1
  <1> SUFFICES ASSUME NEW k, sent \subseteq {k} PROVE Cardinality(sent) <= 1
    OBVIOUS
  <1>1. IsFiniteSet({k}) /\ Cardinality({k}) = 1
    BY FS_Singleton
  <1>2. IsFiniteSet(sent) /\ Cardinality(sent) <= Cardinality({k})
    BY <1>1, FS_Subset
  <1> QED
    BY <1>1, <1>2

(* However the monitor and a registration cross in marking a temperature and *)
(* taking the others back (sl_media_data_jack_cable_hot_notif_send and its   *)
(* likes), one temperature at most stays marked as told.                     *)
THEOREM OneToldAlways == Spec => []OneTold
  <1>1. Init => OneInv
    BY DEF Init, OneInv
  <1>2. OneInv => OneTold
    BY OneCount DEF OneInv, OneTold, Tellers
  <1>3. CableInv /\ OneInv /\ [Next]_vars => OneInv'
    BY OneNext
  <1> QED
    BY <1>1, <1>2, <1>3, CableInvAlways, PTL DEF Spec

-----------------------------------------------------------------------------
(* What the group was told is true, or somebody is about to tell it better.  *)

Truth == CASE fake = "ADDED" -> "fake"
           [] fake = "REMOVED" /\ real = "ADDED" -> "real"
           [] OTHER -> "absent"

(* Who tells it: the thread that set or cleared the attributes *)
Tells ==
    \/ Truth = "fake" /\ pc["fake"][1] \in {"set", "absent", "present"}
    \/ /\ Truth = "real"
       /\ \/ pc["event"][1] = "present" \/ pc["mon"][1] = "present"
          \/ pc["fake"][1] \in {"clr", "look", "present"}
    \/ /\ Truth = "absent"
       /\ \/ pc["event"][1] \in {"unsee", "absent"}
          \/ pc["fake"][1] = "clr"

ToldInv ==
    /\ pc["fake"][1] \in {"clr", "look"} => fake = "REMOVED"
    /\ told # "none" /\ odd \cap {"mixed", "unseen"} = {} => told = Truth \/ Tells

(* There is no group before the scan is over, and nobody has found it or has *)
(* anything to do with it.                                                   *)
Groupless ==
    /\ told = "none" /\ found = {} /\ fake = "REMOVED"
    /\ pc["mon"][1] = "idle" /\ pc["fake"][1] = "idle"
    /\ pc["client"][1] = "idle" /\ pc["client"][2] # "registered"
    /\ pc["event"][1] \notin {"present", "unsee", "absent"}

GroupInv ==
    /\ group => Scanned
    /\ ~group => Groupless
    /\ pc["scan"][1] # "present"

LEMMA MixFacts ==
    ASSUME Odd
    PROVE  odd' \cap {"mixed", "unseen"} = {} =>
              odd \cap {"mixed", "unseen"} = {} /\ ~Mixing /\ ~Unseeing
  BY DEF Odd

(* A step of a thread but the scan, when the group goes on as it is *)
LEMMA GroupKept ==
    ASSUME GroupInv, UNCHANGED <<group, listening, pc["scan"]>>, ~group => Groupless'
    PROVE  GroupInv'
  BY DEF GroupInv, Scanned, Idle, At

LEMMA GroupScan ==
    ASSUME CableInv, GroupInv, ScanStep
    PROVE  GroupInv' /\ ~group /\ ~group'
  <1>1. "scan" \in Threads /\ {"mon", "fake", "client", "event"} \subseteq Threads \ {"scan"}
    BY ThreadFacts
  <1>2. ~Scanned
    BY DEF ScanStep, Scan, Listen, ScanAgain, ScanBlind, Verify, OnlineStep, OnlineWait,
           OnlineGoing, OnlineRead, OnlineReset, OnlinePower, OnlineAttr, OnlineStore,
           OnlinePresent, OnlineFinish, OnlineFail, Scanned, Idle, At
  <1>3. ~group /\ Groupless /\ ~At("scan", "present")
    BY <1>2 DEF GroupInv, At
  <1>4. group' = group /\ told' = told /\ fake' = fake /\ found' = found
    BY <1>3 DEF ScanStep, Scan, Listen, ScanAgain, ScanBlind, Verify, OnlineStep, OnlineWait,
           OnlineGoing, OnlineRead, OnlineReset, OnlinePower, OnlineAttr, OnlineStore,
           OnlinePresent, OnlineFinish, OnlineFail, AttrSet, LookUp, Forget, Groupless, Keep,
           notes, port
  <1>5. Moved("scan") /\ pc'["scan"][1] # "present"
    <2>1. \E s \in {"online", "idle", "blind", "again", "verify", "relock", "look", "going",
                    "fail", "read", "power", "reset", "raise", "attr", "store", "finish"},
             a \in {"", "bare", "faulty", "real", About("scan")} : Go("scan", s, a)
      BY <1>3 DEF ScanStep, Scan, Listen, ScanAgain, ScanBlind, Verify, OnlineStep, OnlineWait,
             OnlineGoing, OnlineRead, OnlineReset, OnlinePower, OnlineAttr, OnlineStore,
             OnlinePresent, OnlineFinish, OnlineFail, Online, Stored, Done, Groupless
    <2>2. /\ Moved("scan")
          /\ pc'["scan"][1] \in {"online", "idle", "blind", "again", "verify", "relock", "look",
                    "going", "fail", "read", "power", "reset", "raise", "attr", "store", "finish"}
      BY <1>1, <2>1, GoesTo
    <2> QED
      BY <2>2
  <1> QED
    BY <1>1, <1>3, <1>4, <1>5 DEF GroupInv, Groupless, Moved

LEMMA GroupEvent ==
    ASSUME CableInv, GroupInv, EventStep
    PROVE  GroupInv'
  <1>1. "event" \in Threads /\ {"mon", "fake", "client", "scan"} \subseteq Threads \ {"event"}
    BY ThreadFacts
  <1>2. UNCHANGED <<group, listening, fake>>
    BY DEF EventStep, EventServe, AttrClr, AttrClrLook, AttrClrSend, EventRemoved,
           OnlineStep, OnlineWait, OnlineGoing, OnlineRead, OnlineReset, OnlinePower,
           OnlineAttr, OnlineStore, OnlinePresent, OnlineFinish, OnlineFail, AttrSet, Keep,
           hw, notes, port
  <1>3. UNCHANGED pc \/ Moved("event")
    <2>1. (\E s, a : Go("event", s, a)) \/ UNCHANGED pc
      BY DEF EventStep, EventServe, AttrClr, AttrClrLook, AttrClrSend, EventRemoved,
             OnlineStep, OnlineWait, OnlineGoing, OnlineRead, OnlineReset, OnlinePower,
             OnlineAttr, OnlineStore, OnlinePresent, OnlineFinish, OnlineFail, Online, Stored,
             Done
    <2> QED
      BY <1>1, <2>1, GoFacts
  <1>4. ASSUME ~group PROVE Groupless'
    <2>1. /\ Groupless /\ "event" \notin found
          /\ ~At("event", "present") /\ ~At("event", "unsee") /\ ~At("event", "absent")
      BY <1>4 DEF GroupInv, Groupless, At
    <2>2. UNCHANGED <<told, found>>
      BY <1>4, <2>1 DEF EventStep, EventServe, AttrClr, AttrClrLook, AttrClrSend, EventRemoved,
           OnlineStep, OnlineWait, OnlineGoing, OnlineRead, OnlineReset, OnlinePower,
           OnlineAttr, OnlineStore, OnlinePresent, OnlineFinish, OnlineFail, LookUp, Forget,
           Groupless, Keep, notes
    <2>3. \/ UNCHANGED pc
          \/ \E s \in {"online", "idle", "clr", "wipe", "gone", "removed", "look", "going",
                    "fail", "read", "power", "reset", "raise", "attr", "store", "finish"},
               a \in {"", "HOT", "bare", "faulty", "real", About("event"),
                     Below(About("event"))} : Go("event", s, a)
      BY <2>1 DEF EventStep, EventServe, AttrClr, AttrClrLook, AttrClrSend, EventRemoved,
             OnlineStep, OnlineWait, OnlineGoing, OnlineRead, OnlineReset, OnlinePower,
             OnlineAttr, OnlineStore, OnlinePresent, OnlineFinish, OnlineFail, Online, Stored,
             Done
    <2>4. \/ UNCHANGED pc
          \/ pc'["event"][1] \in {"online", "idle", "clr", "wipe", "gone", "removed", "look",
                 "going", "fail", "read", "power", "reset", "raise", "attr", "store", "finish"}
      BY <1>1, <2>3, GoesTo
    <2>5. pc'["event"][1] \notin {"present", "unsee", "absent"}
      BY <2>1, <2>4 DEF Groupless
    <2> QED
      BY <1>1, <1>2, <1>3, <2>1, <2>2, <2>5 DEF Groupless, Moved
  <1> QED
    BY <1>1, <1>2, <1>3, <1>4, GroupKept DEF Moved

(* The others act on a group. *)
LEMMA GroupOthers ==
    ASSUME CableInv, GroupInv,
           \/ FakeStep \/ FakeSet \/ FakeClr \/ MonStep \/ Register \/ Unregister \/ ClientStep
           \/ LinkShift \/ LinkOff \/ LinkStep
    PROVE  GroupInv' /\ group' = group
  <1>1. {"fake", "mon", "client", "link"} \subseteq Threads \ {"scan"} /\ "scan" \in Threads
    BY ThreadFacts
  <1>2. UNCHANGED <<group, listening>>
    BY DEF FakeStep, FakeSetLook, FakeSend, FakeClrLook, FakeSet, FakeClr, MonStep, MonBegin,
           MonCheck, MonCold, MonPower, MonError, MonSet, Register, Unregister, ClientStep,
           RegisterCable, RegisterLevel, RegisterCheck, FlagsClr, NotifSend, Send, Mark, Clear,
           LinkShift, LinkOff, LinkStep, Shifting, LowPower, Keep, hw, notes
  <1>3. UNCHANGED pc["scan"]
    <2>1. ASSUME NEW t \in {"fake", "mon", "client", "link"}, Sent(t) \/ \E s, a : Go(t, s, a)
          PROVE  Moved(t) /\ t # "scan"
      <3>1. t \in Threads
        BY <1>1
      <3> QED
        BY <2>1, <3>1, GoFacts, SetsOff DEF Sent
    <2>2. \E t \in {"fake", "mon", "client", "link"} : Sent(t) \/ \E s, a : Go(t, s, a)
      <3>1. CASE FakeStep \/ FakeSet \/ FakeClr
        BY <3>1 DEF FakeStep, FakeSetLook, FakeSend, FakeClrLook, FakeSet, FakeClr, Done
      <3>2. CASE MonStep
        BY <3>2 DEF MonStep, MonBegin, MonCheck, MonCold, MonPower, MonError, MonSet, NotifSend,
                    Send, Mark, Clear, Done
      <3>3. CASE Register \/ Unregister \/ ClientStep
        BY <3>3 DEF Register, Unregister, ClientStep, RegisterCable, RegisterLevel,
                    RegisterCheck, FlagsClr, NotifSend, Send, Mark, Clear, Done
      <3>4. CASE LinkShift \/ LinkOff \/ LinkStep
        BY <3>4 DEF LinkShift, LinkOff, LinkStep, Shifting, LowPower, Done
      <3> QED
        BY <3>1, <3>2, <3>3, <3>4
    <2> QED
      BY <1>1, <2>1, <2>2 DEF Moved
  <1>4. ASSUME ~group PROVE Groupless'
    <2>1. /\ Groupless /\ pc["fake"][1] = "idle" /\ pc["mon"][1] = "idle"
          /\ pc["client"][1] = "idle" /\ pc["client"][2] # "registered"
      BY <1>4 DEF GroupInv, Groupless
    <2>2. /\ ~FakeStep /\ ~FakeSet /\ ~FakeClr /\ ~MonStep /\ ~Register /\ ~Unregister
          /\ ~ClientStep /\ ~LinkShift /\ ~LinkOff
      <3>1. pc["client"] # <<"idle", "registered">>
        BY <2>1
      <3>2. ~FakeStep /\ ~FakeSet /\ ~FakeClr
        BY <1>4, <2>1 DEF Groupless, FakeStep, FakeSetLook, FakeSend, FakeClrLook, FakeSet,
           FakeClr, At
      <3>3. ~MonStep
        BY <1>4, <2>1 DEF MonStep, MonBegin, MonCheck, MonCold, MonPower, MonError, MonSet,
           NotifSend, Send, Mark, Clear, At
      <3>4. ~Register /\ ~Unregister /\ ~ClientStep
        BY <1>4, <2>1, <3>1 DEF Register, Unregister, ClientStep, RegisterCable, RegisterLevel,
           RegisterCheck, FlagsClr, NotifSend, Send, Mark, Clear, At
      <3> QED
        BY <1>4, <3>2, <3>3, <3>4 DEF LinkShift, LinkOff
    <2>3. CASE LinkStep
      <3>1. UNCHANGED <<told, found, fake>>
        BY <2>3 DEF LinkStep, Shifting, LowPower, Keep, notes, port
      <3>2. Moved("link")
        <4>1. \E s, a : Go("link", s, a)
          BY <2>3 DEF LinkStep, Shifting, LowPower, Done
        <4> QED
          BY <1>1, <4>1, GoFacts
      <3>3. {"mon", "fake", "client", "event"} \subseteq Threads \ {"link"}
        BY ThreadFacts
      <3> QED
        BY <2>1, <3>1, <3>2, <3>3 DEF Groupless, Moved
    <2> QED
      BY <2>2, <2>3
  <1> QED
    BY <1>2, <1>3, <1>4, GroupKept

LEMMA GroupNext == CableInv /\ GroupInv /\ [Next]_vars => GroupInv'
  <1> SUFFICES ASSUME CableInv, GroupInv, [Next]_vars PROVE GroupInv'
    OBVIOUS
  <1>1. CASE Cable \/ UNCHANGED vars
    <2>1. UNCHANGED <<group, listening, pc, told, found, fake>>
      BY <1>1 DEF Cable, Plug, Offline, Heat, Keep, vars, hw, notes, port
    <2> QED
      BY <2>1 DEF GroupInv, Groupless, Scanned, Idle, At
  <1>2. CASE NewGroup
    <2>1. Scanned /\ group' /\ UNCHANGED <<listening, pc>>
      BY <1>2 DEF NewGroup, Keep, hw
    <2> QED
      BY <2>1 DEF GroupInv, Scanned, Idle, At
  <1> QED
    BY <1>1, <1>2, GroupScan, GroupEvent, GroupOthers DEF Next, ThreadStep, Calls

LEMMA PairFacts == \A p, v, w : p = <<v, w>> => p[1] = v /\ p[2] = w
  OBVIOUS

LEMMA GroupInvInit == Init => GroupInv
  <1> SUFFICES ASSUME Init PROVE GroupInv
    OBVIOUS
  <1>1. /\ \A t \in {"mon", "fake", "client", "event"} : pc[t][1] = "idle"
        /\ pc["scan"][1] = "scan"
    BY ThreadFacts DEF Init
  <1>2. pc["client"][2] # "registered"
    <2>1. pc["client"] = <<"idle", "">>
      BY ThreadFacts DEF Init
    <2>2. pc["client"][2] = ""
      BY <2>1, PairFacts
    <2> QED
      BY <2>2
  <1>3. ~group /\ told = "none" /\ found = {} /\ fake = "REMOVED"
    BY DEF Init
  <1> QED
    BY <1>1, <1>2, <1>3 DEF GroupInv, Groupless

LEMMA TruthFacts ==
    ASSUME CableInv
    PROVE  /\ fake \in {"REMOVED", "ADDED"} /\ real \in {"REMOVED", "ADDED", "STASHED"}
           /\ fake = "ADDED" => Truth = "fake" /\ real # "ADDED"
           /\ fake = "REMOVED" /\ real = "ADDED" => Truth = "real"
           /\ fake = "REMOVED" /\ real # "ADDED" => Truth = "absent" /\ real = "REMOVED"
  BY DEF CableInv, PortInv, Truth

(* A step of a thread that has nothing to tell *)
LEMMA ToldBystander ==
    ASSUME CableInv, ToldInv, Odd, UNCHANGED <<real, fake, told>>,
           UNCHANGED pc["fake"],
           pc["event"][1] \in {"present", "unsee", "absent"} => UNCHANGED pc["event"],
           pc["mon"][1] = "present" => UNCHANGED pc["mon"]
    PROVE  ToldInv'
  <1>1. Truth' = Truth
    BY DEF Truth
  <1>2. Tells => Tells'
    BY <1>1 DEF Tells, Truth
  <1> QED
    BY <1>1, <1>2, MixFacts DEF ToldInv

(* sl_media_data_cable_present_notif_send, for whoever *)
LEMMA ToldPresent ==
    ASSUME CableInv, ToldInv, Odd, UNCHANGED <<real, fake>>, PresentSend,
           pc'["fake"][1] \in {"clr", "look"} => pc["fake"][1] \in {"clr", "look"},
           pc["event"][1] \in {"unsee", "absent"} => UNCHANGED pc["event"],
           pc["fake"][1] = "clr" => UNCHANGED pc["fake"]
    PROVE  ToldInv'
  <1>1. Truth' = Truth
    BY DEF Truth
  <1>2. CASE Present
    <2>1. told' = Truth
      BY <1>2, TruthFacts DEF PresentSend, Present
    <2> QED
      BY <1>1, <2>1 DEF ToldInv
  <1>3. CASE ~Present
    <2>1. told' = told /\ Truth = "absent"
      BY <1>3, TruthFacts DEF PresentSend, Present
    <2>2. Tells => Tells'
      BY <1>1, <2>1 DEF Tells
    <2> QED
      BY <1>1, <2>1, <2>2, MixFacts DEF ToldInv
  <1> QED
    BY <1>2, <1>3

(* sl_media_data_cable_not_present_notif_send, for whoever *)
LEMMA ToldAbsent ==
    ASSUME CableInv, ToldInv, Odd, UNCHANGED <<real, fake>>, NotPresentSend,
           pc["event"][1] = "present" => UNCHANGED pc["event"],
           pc["mon"][1] = "present" => UNCHANGED pc["mon"],
           \/ UNCHANGED pc["fake"]
           \/ pc["fake"][1] = "absent" /\ pc'["fake"][1] = "present"
           \/ pc["fake"][1] = "clr" /\ pc'["fake"][1] = "look"
    PROVE  ToldInv'
  <1>1. Truth' = Truth
    BY DEF Truth
  <1>3. pc'["fake"][1] \in {"clr", "look"} => fake' = "REMOVED"
    BY DEF ToldInv
  <1>4. ASSUME told' # "none", odd' \cap {"mixed", "unseen"} = {}
        PROVE  told' = Truth \/ Tells'
    <2>1. CASE fake = "ADDED" /\ UNCHANGED pc["fake"]
      <3>1. told' = told
        BY <1>4, <2>1, MixFacts DEF Mixing, NotPresentSend
      <3>2. Truth = "fake" /\ (Tells => Tells')
        BY <1>1, <2>1, TruthFacts DEF Tells
      <3> QED
        BY <1>4, <3>1, <3>2, MixFacts DEF ToldInv
    <2>2. CASE fake = "ADDED" /\ pc'["fake"][1] = "present"
      BY <1>1, <2>2, TruthFacts DEF Tells
    <2>3. CASE fake = "REMOVED" /\ real = "ADDED"
      <3>1. told' = told
        BY <2>3 DEF NotPresentSend
      <3>2. Truth = "real" /\ (Tells => Tells')
        BY <1>1, <2>3, TruthFacts DEF Tells
      <3> QED
        BY <1>4, <3>1, <3>2, MixFacts DEF ToldInv
    <2>4. CASE fake = "REMOVED" /\ real # "ADDED"
      BY <1>1, <2>4, TruthFacts DEF NotPresentSend
    <2>5. fake = "ADDED" => pc["fake"][1] # "clr"
      BY DEF ToldInv
    <2> QED
      BY <2>1, <2>2, <2>3, <2>4, <2>5, TruthFacts
  <1> QED
    BY <1>1, <1>3, <1>4 DEF ToldInv

(* sl_media_data_jack_media_attr_set, by a thread that tells of it next *)
LEMMA ToldSet ==
    ASSUME CableInv, ToldInv, Odd, UNCHANGED told, NEW a, AttrSet(a),
           UNCHANGED pc["fake"],
           pc["event"][1] \notin {"present", "unsee", "absent"}
              \/ UNCHANGED pc["event"],
           pc["mon"][1] = "present" => UNCHANGED pc["mon"],
           \/ real' # "ADDED"
           \/ pc'["event"][1] = "present" \/ pc'["mon"][1] = "present"
           \/ told # "none" => Unseeing
    PROVE  ToldInv'
  <1>1. CASE fake = "ADDED"
    <2>1. Truth = "fake" /\ Truth' = "fake"
      BY <1>1 DEF AttrSet, Truth
    <2>2. Tells => Tells'
      BY <2>1 DEF Tells
    <2> QED
      BY <2>1, <2>2, MixFacts DEF ToldInv, AttrSet
  <1>2. CASE fake = "REMOVED"
    <2>1. Truth' = "real" /\ real' = "ADDED" /\ fake' = fake
      BY <1>2 DEF AttrSet, Truth
    <2>2. (told # "none" => Unseeing) \/ Tells'
      BY <2>1 DEF Tells
    <2> QED
      BY <2>1, <2>2, MixFacts DEF ToldInv
  <1> QED
    BY <1>1, <1>2, TruthFacts

-----------------------------------------------------------------------------

(* There is no group yet. *)
LEMMA ToldScan ==
    ASSUME CableInv, ToldInv, GroupInv, ScanStep
    PROVE  ToldInv'
  <1>1. GroupInv' /\ ~group /\ ~group'
    BY GroupScan
  <1>2. told' = "none" /\ fake' = "REMOVED"
    BY <1>1 DEF GroupInv, Groupless
  <1> QED
    BY <1>2 DEF ToldInv

LEMMA ToldEvent ==
    ASSUME CableInv, ToldInv, EventStep
    PROVE  ToldInv'
  <1>1. /\ "event" \in Threads /\ "event" # "fake" /\ "event" # "mon"
        /\ {"fake", "mon"} \subseteq Threads
    BY ThreadFacts
  <1>2. Odd /\ UNCHANGED fake
    BY DEF EventStep, EventServe, AttrClr, AttrClrLook, AttrClrSend, EventRemoved,
           OnlineStep, OnlineWait, OnlineGoing, OnlineRead, OnlineReset, OnlinePower,
           OnlineAttr, OnlineStore, OnlinePresent, OnlineFinish, OnlineFail, AttrSet, Keep, port
  <1>3. CASE OnlinePresent("event")
    <2>1. pc["event"][1] = "present" /\ PresentSend /\ UNCHANGED real
      BY <1>3 DEF OnlinePresent, At, Keep, port
    <2>2. Moved("event")
      BY <1>1, <1>3, GoFacts DEF OnlinePresent, Stored
    <2> QED
      BY <1>1, <1>2, <2>1, <2>2, ToldPresent DEF Moved
  <1>4. CASE AttrClrSend
    <2>1. pc["event"][1] = "absent" /\ NotPresentSend /\ UNCHANGED real
      BY <1>4 DEF AttrClrSend, At, Keep, port
    <2>2. Moved("event")
      BY <1>1, <1>4, GoFacts DEF AttrClrSend
    <2> QED
      BY <1>1, <1>2, <2>1, <2>2, ToldAbsent DEF Moved
  <1>5. CASE OnlineStore("event")
    <2>1. pc["event"][1] = "store" /\ At("event", "store") /\ UNCHANGED told
      BY <1>5 DEF OnlineStore, At, Keep
    <2>2. Moved("event")
      BY <1>1, <1>5, GoFacts DEF OnlineStore, Stored
    <2>3. CASE AttrSet(About("event"))
      <3>1. \/ real' # "ADDED"
            \/ pc'["event"][1] = "present"
            \/ real' # real /\ "event" \notin found
        <4>1. CASE Go("event", "present", About("event"))
          BY <1>1, <4>1, GoFacts
        <4> QED
          BY <1>5, <2>3, <4>1 DEF OnlineStore, AttrSet
      <3>2. \/ real' # "ADDED"
            \/ pc'["event"][1] = "present"
            \/ told # "none" => Unseeing
        BY <2>1, <3>1 DEF Unseeing
      <3> QED
        BY <1>1, <1>2, <2>1, <2>2, <2>3, <3>2, ToldSet DEF Moved
    <2>4. CASE UNCHANGED port
      BY <1>1, <1>2, <2>1, <2>2, <2>4, ToldBystander DEF Moved, port
    <2> QED
      BY <1>5, <2>3, <2>4 DEF OnlineStore
  <1>6. CASE AttrClr
    <2>1. pc["event"][1] \in {"clr", "wipe"} /\ UNCHANGED told
      BY <1>6 DEF AttrClr, At, Keep
    <2>2. Moved("event")
      BY <1>1, <1>6, GoFacts DEF AttrClr
    <2>3. CASE UNCHANGED real
      BY <1>1, <1>2, <2>1, <2>2, <2>3, ToldBystander DEF Moved
    <2>4. CASE At("event", "wipe") /\ real' = "REMOVED" /\ real # "REMOVED"
      <3>1. UNCHANGED pc["fake"]
        BY <1>1, <2>2 DEF Moved
      <3>2. pc'["event"][1] = "unsee" \/ (told # "none" => Unseeing)
        <4>1. CASE "event" \in found
          <5>1. Go("event", "unsee", "")
            BY <1>6, <2>4, <4>1 DEF AttrClr, At
          <5> QED
            BY <1>1, <5>1, GoFacts
        <4> QED
          BY <2>4, <4>1 DEF Unseeing
      <3>3. CASE fake = "ADDED"
        <4>1. Truth = "fake" /\ Truth' = "fake"
          BY <1>2, <3>3 DEF Truth
        <4>2. Tells => Tells'
          BY <3>1, <4>1 DEF Tells
        <4> QED
          BY <1>2, <2>1, <3>1, <4>1, <4>2, MixFacts DEF ToldInv
      <3>4. CASE fake = "REMOVED"
        <4>1. Truth' = "absent"
          BY <1>2, <2>4, <3>4 DEF Truth
        <4>2. (told # "none" => Unseeing) \/ Tells'
          BY <3>2, <4>1 DEF Tells
        <4> QED
          BY <1>2, <2>1, <3>1, <4>2, MixFacts DEF ToldInv
      <3> QED
        BY <3>3, <3>4, TruthFacts
    <2> QED
      BY <1>6, <2>3, <2>4 DEF AttrClr, port
  <1>7. CASE AttrClrLook
    <2>1. pc["event"][1] = "unsee" /\ UNCHANGED <<told, real>>
      BY <1>7 DEF AttrClrLook, At, Keep, port
    <2>2. Moved("event") /\ pc'["event"][1] = (IF fake = "REMOVED" THEN "absent" ELSE "gone")
      BY <1>1, <1>7, GoFacts DEF AttrClrLook
    <2>3. UNCHANGED <<pc["fake"], pc["mon"]>>
      BY <1>1, <2>2 DEF Moved
    <2>4. Truth' = Truth
      BY <1>2, <2>1 DEF Truth
    <2>5. Tells => Tells'
      BY <2>1, <2>2, <2>3, <2>4, TruthFacts DEF Tells
    <2> QED
      BY <1>2, <2>1, <2>3, <2>4, <2>5, MixFacts DEF ToldInv
  <1>8. CASE \/ EventServe \/ EventRemoved
             \/ OnlineWait("event") \/ OnlineGoing("event") \/ OnlineRead("event")
             \/ OnlineReset("event") \/ OnlinePower("event") \/ OnlineAttr("event")
             \/ OnlineFinish("event") \/ OnlineFail("event")
    <2>1. pc["event"][1] \notin {"present", "unsee", "absent"}
      BY <1>8 DEF EventServe, EventRemoved, OnlineWait, OnlineGoing, OnlineRead, OnlineReset,
                  OnlinePower, OnlineAttr, OnlineFinish, OnlineFail, Idle, At
    <2>2. (\E s, a : Go("event", s, a)) \/ UNCHANGED pc
      BY <1>8 DEF EventServe, EventRemoved, OnlineWait, OnlineGoing, OnlineRead, OnlineReset,
                  OnlinePower, OnlineAttr, OnlineFinish, OnlineFail, Online, Done
    <2>3. UNCHANGED <<real, told>>
      BY <1>8 DEF EventServe, EventRemoved, OnlineWait, OnlineGoing, OnlineRead, OnlineReset,
                  OnlinePower, OnlineAttr, OnlineFinish, OnlineFail, Keep, notes, port
    <2>4. UNCHANGED <<pc["fake"], pc["mon"]>>
      BY <1>1, <2>2, GoFacts DEF Moved
    <2> QED
      BY <1>2, <2>1, <2>3, <2>4, ToldBystander
  <1> QED
    BY <1>3, <1>4, <1>5, <1>6, <1>7, <1>8 DEF EventStep, OnlineStep

LEMMA ToldFake ==
    ASSUME CableInv, ToldInv, FakeStep \/ FakeSet \/ FakeClr
    PROVE  ToldInv'
  <1>1. /\ "fake" \in Threads \ {"scan"} /\ "event" # "fake" /\ "fake" # "mon"
        /\ {"event", "mon", "scan"} \subseteq Threads
    BY ThreadFacts
  <1>2. Odd
    BY DEF FakeStep, FakeSetLook, FakeSend, FakeClrLook, FakeSet, FakeClr, Keep
  <1>3. Moved("fake")
    <2>1. \E s, a : Go("fake", s, a)
      BY DEF FakeStep, FakeSetLook, FakeSend, FakeClrLook, FakeSet, FakeClr, Done
    <2> QED
      BY <1>1, <2>1, GoFacts
  <1>4. UNCHANGED <<pc["event"], pc["mon"]>>
    BY <1>1, <1>2, <1>3 DEF Moved
  <1>5. CASE FakeSet \/ FakeClr
    <2>1. pc["fake"][1] = "idle" /\ UNCHANGED told
      BY <1>5 DEF FakeSet, FakeClr, Idle, At, Keep, notes
    <2>2. CASE FakeSet
      <3>1. pc'["fake"][1] = "set" /\ fake' = "ADDED"
        BY <1>1, <2>2, GoFacts DEF FakeSet
      <3>2. Tells'
        BY <3>1 DEF Truth, Tells
      <3> QED
        BY <1>2, <1>4, <2>1, <3>1, <3>2, MixFacts DEF ToldInv
    <2>3. CASE FakeClr
      <3>1. pc'["fake"][1] = "clr" /\ fake' = "REMOVED"
        BY <1>1, <2>3, GoFacts DEF FakeClr
      <3>2. Tells'
        BY <3>1 DEF Truth, Tells
      <3> QED
        BY <1>2, <1>4, <2>1, <3>1, <3>2, MixFacts DEF ToldInv
    <2> QED
      BY <1>5, <2>2, <2>3
  <1>6. CASE FakeSetLook
    <2>1. pc["fake"][1] = "set" /\ UNCHANGED <<real, fake, told>>
      BY <1>6 DEF FakeSetLook, At, Keep, notes, port
    <2>2. pc'["fake"][1] \in {"absent", "present"}
      BY <1>1, <1>6, GoFacts DEF FakeSetLook
    <2>3. Truth' = Truth
      BY <2>1 DEF Truth
    <2>4. Tells => Tells'
      BY <1>4, <2>1, <2>2, <2>3 DEF Tells, Truth
    <2> QED
      BY <1>2, <1>4, <2>1, <2>2, <2>3, <2>4, MixFacts DEF ToldInv
  <1>7. CASE FakeClrLook
    <2>1. pc["fake"][1] = "look" /\ UNCHANGED <<real, fake, told>>
      BY <1>7 DEF FakeClrLook, At, Keep, notes, port
    <2>2. pc'["fake"][1] = IF real = "ADDED" THEN "present" ELSE "idle"
      BY <1>1, <1>7, GoFacts DEF FakeClrLook
    <2>3. Truth' = Truth /\ fake = "REMOVED"
      BY <2>1 DEF Truth, ToldInv
    <2>4. Tells => Tells'
      BY <1>4, <2>1, <2>2, <2>3, TruthFacts DEF Tells
    <2> QED
      BY <1>2, <1>4, <2>1, <2>2, <2>3, <2>4, MixFacts DEF ToldInv
  <1>8. CASE FakeSend
    <2>1. UNCHANGED <<real, fake>>
      BY <1>8 DEF FakeSend, Keep, port
    <2>2. CASE At("fake", "absent") /\ NotPresentSend /\ Go("fake", "present", "")
      <3>1. pc["fake"][1] = "absent" /\ pc'["fake"][1] = "present"
        BY <1>1, <2>2, GoFacts DEF At
      <3> QED
        BY <1>2, <1>4, <2>1, <2>2, <3>1, ToldAbsent
    <2>3. CASE At("fake", "clr") /\ NotPresentSend /\ Go("fake", "look", "")
      <3>1. pc["fake"][1] = "clr" /\ pc'["fake"][1] = "look"
        BY <1>1, <2>3, GoFacts DEF At
      <3> QED
        BY <1>2, <1>4, <2>1, <2>3, <3>1, ToldAbsent
    <2>4. CASE At("fake", "present") /\ PresentSend /\ Done("fake")
      <3>1. pc["fake"][1] = "present" /\ pc'["fake"][1] = "idle"
        BY <1>1, <2>4, GoFacts DEF At
      <3> QED
        BY <1>2, <1>4, <2>1, <2>4, <3>1, ToldPresent
    <2> QED
      BY <1>8, <2>2, <2>3, <2>4 DEF FakeSend
  <1> QED
    BY <1>5, <1>6, <1>7, <1>8 DEF FakeStep

LEMMA ToldMon ==
    ASSUME CableInv, ToldInv, MonStep
    PROVE  ToldInv'
  <1>1. /\ "mon" \in Threads \ {"scan"} /\ "event" # "mon" /\ "fake" # "mon"
        /\ {"event", "fake", "scan"} \subseteq Threads
    BY ThreadFacts
  <1>2. Odd /\ UNCHANGED fake
    BY DEF MonStep, MonBegin, MonCheck, MonCold, MonPower, MonError, MonSet, NotifSend, Send,
           Mark, Clear, AttrSet, Keep, hw, notes, port
  <1>3. Moved("mon")
    <2>1. (\E s, a : Go("mon", s, a)) \/ Sent("mon")
      BY DEF MonStep, MonBegin, MonCheck, MonCold, MonPower, MonError, MonSet, NotifSend, Send,
             Mark, Clear, Done
    <2>2. CASE Sent("mon")
      BY <1>1, <2>2, SetsOff DEF Sent
    <2> QED
      BY <1>1, <2>1, <2>2, GoFacts
  <1>4. UNCHANGED <<pc["event"], pc["fake"]>>
    BY <1>1, <1>2, <1>3 DEF Moved
  <1>5. CASE MonError
    <2>1. CASE At("mon", "error") /\ UNCHANGED <<real, told>>
      BY <1>2, <1>4, <2>1, AtFacts, ToldBystander
    <2>2. CASE At("mon", "attr") /\ UNCHANGED <<port, told>>
      BY <1>2, <1>4, <2>2, AtFacts, ToldBystander DEF port
    <2>3. CASE /\ At("mon", "attr") /\ UNCHANGED told
               /\ AttrSet(attr)
               /\ Go("mon", IF real' = "ADDED" THEN "present" ELSE "send", "COLD")
      <3>1. pc["mon"][1] = "attr" /\ (real' = "ADDED" => pc'["mon"][1] = "present")
        BY <1>1, <2>3, GoFacts DEF At
      <3> QED
        BY <1>2, <1>4, <2>3, <3>1, ToldSet
    <2>4. CASE At("mon", "present") /\ PresentSend /\ UNCHANGED port
      BY <1>2, <1>4, <2>4, ToldPresent DEF port
    <2> QED
      BY <1>5, <2>1, <2>2, <2>3, <2>4 DEF MonError
  <1>6. CASE MonBegin \/ MonCheck \/ MonCold \/ MonPower \/ MonSet \/ NotifSend("mon")
    <2>1. pc["mon"][1] # "present"
      BY <1>6 DEF MonBegin, MonCheck, MonCold, MonPower, MonSet, NotifSend, Send, Mark, Clear,
                  Idle, At
    <2>2. UNCHANGED <<real, told>>
      BY <1>6 DEF MonBegin, MonCheck, MonCold, MonPower, MonSet, NotifSend, Send, Mark, Clear,
                  Keep, notes, port
    <2> QED
      BY <1>2, <1>4, <2>1, <2>2, ToldBystander
  <1> QED
    BY <1>5, <1>6 DEF MonStep

LEMMA ToldClient ==
    ASSUME CableInv, ToldInv, NewGroup \/ Register \/ Unregister \/ ClientStep
    PROVE  ToldInv'
  <1>1. /\ "client" \in Threads \ {"scan"} /\ "client" \notin {"event", "fake", "mon"}
        /\ {"event", "fake", "mon", "scan"} \subseteq Threads
    BY ThreadFacts
  <1>2. CASE NewGroup
    <2>1. Odd /\ UNCHANGED <<pc, told, fake, real>>
      BY <1>2 DEF NewGroup, Keep, port
    <2> QED
      BY <2>1, ToldBystander
  <1>3. CASE Register \/ Unregister \/ ClientStep
    <2>1. Odd /\ UNCHANGED <<fake, real>>
      BY <1>3 DEF Register, Unregister, ClientStep, RegisterCable, RegisterLevel,
                  RegisterCheck, FlagsClr, NotifSend, Send, Mark, Clear, Keep, notes, port
    <2>2. Moved("client")
      <3>1. (\E s, a : Go("client", s, a)) \/ Sent("client")
        BY <1>3 DEF Register, Unregister, ClientStep, RegisterCable, RegisterLevel,
                    RegisterCheck, FlagsClr, NotifSend, Send, Mark, Clear, Done
      <3>2. CASE Sent("client")
        BY <1>1, <3>2, SetsOff DEF Sent
      <3> QED
        BY <1>1, <3>1, <3>2, GoFacts
    <2>3. UNCHANGED <<pc["event"], pc["fake"], pc["mon"]>>
      BY <1>1, <2>1, <2>2 DEF Moved
    <2>4. told' = told \/ PresentSend \/ NotPresentSend
      BY <1>3 DEF Register, Unregister, ClientStep, RegisterCable, RegisterLevel,
                  RegisterCheck, FlagsClr, NotifSend, Send, Mark, Clear, Keep, notes
    <2> QED
      BY <2>1, <2>3, <2>4, ToldBystander, ToldPresent, ToldAbsent
  <1> QED
    BY <1>2, <1>3

LEMMA ToldLink ==
    ASSUME CableInv, ToldInv, LinkShift \/ LinkOff \/ LinkStep
    PROVE  ToldInv'
  <1>1. /\ "link" \in Threads \ {"scan"} /\ "link" \notin {"event", "fake", "mon"}
        /\ {"event", "fake", "mon", "scan"} \subseteq Threads
    BY ThreadFacts
  <1>2. Odd /\ UNCHANGED <<fake, real, told>>
    BY DEF LinkShift, LinkOff, LinkStep, Shifting, LowPower, Keep, hw, notes, port
  <1>3. (\E s, a : Go("link", s, a)) \/ UNCHANGED pc
    BY DEF LinkShift, LinkOff, LinkStep, Shifting, LowPower, Done
  <1>4. UNCHANGED <<pc["event"], pc["fake"], pc["mon"]>>
    <2>1. CASE \E s, a : Go("link", s, a)
      <3>1. Moved("link")
        BY <1>1, <2>1, GoFacts
      <3> QED
        BY <1>1, <1>2, <3>1 DEF Moved
    <2> QED
      BY <1>3, <2>1
  <1> QED
    BY <1>2, <1>4, ToldBystander

LEMMA ToldNext == CableInv /\ GroupInv /\ ToldInv /\ [Next]_vars => ToldInv'
  <1> SUFFICES ASSUME CableInv, GroupInv, ToldInv, [Next]_vars PROVE ToldInv'
    OBVIOUS
  <1>1. CASE Cable
    <2>1. Odd /\ UNCHANGED <<fake, real, told, pc>>
      BY <1>1 DEF Cable, Plug, Offline, Heat, Keep, notes, port
    <2> QED
      BY <2>1, ToldBystander
  <1>2. CASE UNCHANGED vars
    <2>1. UNCHANGED <<fake, real, told, pc, odd>>
      BY <1>2 DEF vars, notes, port
    <2> QED
      BY <2>1 DEF ToldInv, Truth, Tells
  <1>3. CASE ThreadStep
    BY <1>3, ToldScan, ToldEvent, ToldFake, ToldMon, ToldClient, ToldLink DEF ThreadStep
  <1>4. CASE Calls
    BY <1>4, ToldFake, ToldClient, ToldLink DEF Calls
  <1> QED
    BY <1>1, <1>2, <1>3, <1>4 DEF Next

(* The cable notification queued last is true once everybody is done,        *)
(* however removals, fake cables, registrations and the monitor's errors     *)
(* cross: whoever changed the attributes tells of it after it let the lock   *)
(* go, and what it tells fits them by then.  It tells nothing when it looked *)
(* for the group before the group was made, and lies when it tells absence   *)
(* over a fake cable: these two are the exceptions that the property names.  *)
THEOREM ToldTruthAlways == Spec => []ToldTruth
  <1>1. Init => ToldInv
    <2> SUFFICES ASSUME Init PROVE ToldInv
      OBVIOUS
    <2>1. pc["fake"][1] = "idle"
      BY ThreadFacts DEF Init
    <2>2. pc["fake"][1] \notin {"clr", "look"}
      BY <2>1
    <2> QED
      BY <2>2 DEF Init, ToldInv
  <1>2. ToldInv => ToldTruth
    <2> SUFFICES ASSUME ToldInv, AtRest PROVE ~Tells
      BY DEF ToldInv, ToldTruth, Truth
    <2>1. {"event", "mon", "fake"} \subseteq Threads
      BY ThreadFacts
    <2>2. pc["event"][1] = "idle" /\ pc["mon"][1] = "idle" /\ pc["fake"][1] = "idle"
      BY <2>1 DEF AtRest, Idle, At
    <2> QED
      BY <2>2 DEF Tells, Truth
  <1>3. CableInv /\ GroupInv /\ ToldInv /\ [Next]_vars => ToldInv'
    BY ToldNext
  <1>4. Spec => []GroupInv
    BY GroupInvInit, GroupNext, CableInvAlways, PTL DEF Spec
  <1> QED
    BY <1>1, <1>2, <1>3, <1>4, CableInvAlways, PTL DEF Spec

-----------------------------------------------------------------------------
(* A cable that is online and cold is in high power, unless a shift of it is *)
(* about to put it back.                                                     *)

High == highPower \/ pc["link"][1] = "shift"

(* A thread that brings the cable online has passed the high power. *)
Warm == \E t \in {"scan", "event"} :
            \/ pc[t][1] \in {"attr", "store", "present"} /\ pc[t][2] = "real"
            \/ pc[t][1] = "finish"

(* A round of the monitor that found the cable cold and is past its power *)
ColdRound ==
    /\ pc["mon"][1] \in {"error", "attr", "present", "send", "mark", "clear", "set"}
    /\ pc["mon"][2] = "COLD" /\ prior # "COLD"

ColdOn == state = "ONLINE" /\ (temp = "COLD" \/ ColdRound)

PowerInv ==
    /\ pc["mon"][1] \in {"error", "attr", "present"} => pc["mon"][2] = "COLD"
    /\ "cut" \notin odd /\ (Warm \/ ColdOn) => High

LEMMA CutFacts ==
    ASSUME Odd
    PROVE  "cut" \notin odd' => "cut" \notin odd /\ ~Cutting
  BY DEF Odd

LEMMA PowerKept ==
    ASSUME PowerInv, Odd,
           pc'["mon"][1] \in {"error", "attr", "present"} => pc'["mon"][2] = "COLD",
           High => High', Warm' => Warm \/ High', ColdOn' => ColdOn \/ Warm \/ High'
    PROVE  PowerInv'
  BY CutFacts DEF PowerInv

(* A step of a thread that neither powers the cable nor knows that it is     *)
(* powered                                                                   *)
LEMMA PowerStill ==
    ASSUME PowerInv, Odd, UNCHANGED <<highPower, state, temp, prior>>,
           \A t \in {"scan", "event", "mon", "link"} : UNCHANGED pc[t]
    PROVE  PowerInv'
  <1>1. UNCHANGED <<High, Warm, ColdOn, ColdRound>>
    BY DEF High, Warm, ColdOn, ColdRound
  <1> QED
    BY <1>1, PowerKept DEF PowerInv

(* The threads that bring the cable online *)
LEMMA PowerOnline ==
    ASSUME CableInv, PowerInv, NEW t \in {"scan", "event"}, OnlineStep(t)
    PROVE  PowerInv'
  <1>1. t \in Threads /\ t # "mon" /\ t # "link" /\ {"mon", "link", "scan", "event"} \subseteq Threads
    BY ThreadFacts
  <1>2. Odd /\ prior' = prior /\ (highPower' = highPower \/ highPower' = TRUE)
    BY DEF OnlineStep, OnlineWait, OnlineGoing, OnlineRead, OnlineReset, OnlinePower, OnlineAttr,
           OnlineStore, OnlinePresent, OnlineFinish, OnlineFail, Keep, warmth, power
  <1>3. Moved(t)
    <2>1. \E s, a : Go(t, s, a)
      BY DEF OnlineStep, OnlineWait, OnlineGoing, OnlineRead, OnlineReset, OnlinePower,
             OnlineAttr, OnlineStore, OnlinePresent, OnlineFinish, OnlineFail, Stored, Done
    <2> QED
      BY <1>1, <2>1, GoFacts
  <1>4. /\ UNCHANGED <<pc["mon"], pc["link"]>>
        /\ \A u \in {"scan", "event"} : u # t => UNCHANGED pc[u]
    BY <1>1, <1>3 DEF Moved
  <1>5. High => High'
    BY <1>2, <1>4 DEF High
  <1>6. UNCHANGED ColdRound
    BY <1>2, <1>4 DEF ColdRound
  <1>7. (pc'["mon"][1] \in {"error", "attr", "present"} => pc'["mon"][2] = "COLD")
    BY <1>4 DEF PowerInv
  <1>8. (Warm' => Warm \/ High') /\ (ColdOn' => ColdOn \/ Warm \/ High')
    <2>1. CASE OnlineFinish(t)
      <3>1. pc'[t][1] = "idle" /\ pc[t][1] = "finish"
        BY <1>1, <2>1, GoFacts DEF OnlineFinish, At
      <3> QED
        BY <1>4, <3>1 DEF Warm
    <2>2. CASE OnlinePower(t) /\ Go(t, "attr", "real")
      <3>1. highPower' \/ state' = "ERROR"
        BY <2>2 DEF OnlinePower
      <3>2. pc'[t][1] = "attr" /\ pc'[t][2] = "real"
        BY <1>1, <2>2, GoFacts
      <3>3. CASE highPower'
        BY <3>3 DEF High
      <3>4. CASE Go(t, "attr", "faulty")
        <4>1. pc'[t][2] = "faulty"
          BY <1>1, <3>4, GoFacts
        <4> QED
          BY <3>2, <4>1
      <3> QED
        BY <2>2, <3>3, <3>4 DEF OnlinePower
    <2>3. CASE ~OnlineFinish(t) /\ ~(OnlinePower(t) /\ Go(t, "attr", "real"))
      <3>1. temp' = temp /\ (state' = "ONLINE" => state = "ONLINE")
        BY <2>3 DEF OnlineStep, OnlineWait, OnlineGoing, OnlineRead, OnlineReset, OnlinePower,
                    OnlineAttr, OnlineStore, OnlinePresent, OnlineFail, Keep, warmth, jack
      <3>2. CASE OnlineAttr(t) \/ OnlineStore(t) \/ OnlinePresent(t)
        <4>1. pc[t][1] \in {"attr", "store", "present"} /\ About(t) = pc[t][2]
          BY <3>2 DEF OnlineAttr, OnlineStore, OnlinePresent, At, About
        <4>2. CASE \E s \in {"store", "present"} : Go(t, s, About(t))
          <5>1. pc'[t][1] \in {"store", "present"} /\ pc'[t][2] = About(t)
            BY <1>1, <4>2, GoFacts
          <5> QED
            BY <1>4, <1>6, <3>1, <4>1, <5>1 DEF Warm, ColdOn
        <4>3. CASE Go(t, "fail", "")
          <5>1. pc'[t][1] = "fail"
            BY <1>1, <4>3, GoFacts
          <5> QED
            BY <1>4, <1>6, <3>1, <5>1 DEF Warm, ColdOn
        <4>4. CASE About(t) = "real"
          BY <4>1, <4>4 DEF Warm
        <4> QED
          BY <3>2, <4>2, <4>3, <4>4 DEF OnlineAttr, OnlineStore, OnlinePresent, Stored
      <3>3. CASE OnlineWait(t) \/ OnlineGoing(t) \/ OnlineReset(t) \/ OnlineFail(t)
        <4>1. \E s \in {"look", "going", "online", "fail", "read", "reset", "raise", "idle"},
                 a \in {""} : Go(t, s, a)
          BY <3>3 DEF OnlineWait, OnlineGoing, OnlineReset, OnlineFail, Done
        <4>2. pc'[t][1] \in {"look", "going", "online", "fail", "read", "reset", "raise", "idle"}
          BY <1>1, <4>1, GoesTo
        <4> QED
          BY <1>4, <1>6, <3>1, <4>2 DEF Warm, ColdOn
      <3>4. CASE OnlineRead(t) \/ OnlinePower(t)
        <4>1. \E s \in {"power", "fail", "attr"}, a \in {"", "bare", "faulty"} : Go(t, s, a)
          BY <2>3, <3>4 DEF OnlineRead, OnlinePower
        <4>2. pc'[t][1] \in {"power", "fail", "attr"} /\ pc'[t][2] \in {"", "bare", "faulty"}
          BY <1>1, <4>1, GoesTo
        <4> QED
          BY <1>4, <1>6, <3>1, <4>2 DEF Warm, ColdOn
      <3> QED
        BY <2>3, <3>2, <3>3, <3>4 DEF OnlineStep
    <2> QED
      BY <2>1, <2>2, <2>3
  <1> QED
    BY <1>2, <1>5, <1>7, <1>8, PowerKept

(* The scan and the notifier leave the power alone otherwise. *)
LEMMA PowerScan ==
    ASSUME CableInv, PowerInv, ScanStep \/ EventStep
    PROVE  PowerInv'
  <1>1. CASE OnlineStep("scan") \/ OnlineStep("event")
    BY <1>1, PowerOnline
  <1>2. ASSUME NEW t \in {"scan", "event"},
               UNCHANGED pc \/ (\E s \in {"online", "idle", "blind", "again", "verify",
                    "relock", "clr", "wipe", "gone", "removed", "unsee", "absent"},
                    a \in {"", "HOT", Below(About(t))} : Go(t, s, a)),
               Odd, UNCHANGED <<highPower, temp, prior>>, state' = "ONLINE" => state = "ONLINE"
        PROVE  PowerInv'
    <2>1. t \in Threads /\ t # "mon" /\ t # "link" /\ {"mon", "link", "scan", "event"} \subseteq Threads
      BY ThreadFacts
    <2>2. /\ UNCHANGED <<pc["mon"], pc["link"]>>
          /\ \A u \in {"scan", "event"} : u # t => UNCHANGED pc[u]
          /\ UNCHANGED pc \/ pc'[t][1] \in {"online", "idle", "blind", "again", "verify",
                    "relock", "clr", "wipe", "gone", "removed", "unsee", "absent"}
      <3>1. CASE ~UNCHANGED pc
        <4>1. Moved(t) /\ pc'[t][1] \in {"online", "idle", "blind", "again", "verify",
                    "relock", "clr", "wipe", "gone", "removed", "unsee", "absent"}
          BY <1>2, <2>1, <3>1, GoesTo
        <4> QED
          BY <2>1, <4>1 DEF Moved
      <3> QED
        BY <3>1
    <2>3. UNCHANGED <<High, ColdRound>>
      BY <1>2, <2>2 DEF High, ColdRound
    <2>4. Warm' => Warm
      BY <2>2 DEF Warm
    <2>5. ColdOn' => ColdOn
      BY <1>2, <2>3 DEF ColdOn
    <2> QED
      BY <1>2, <2>2, <2>3, <2>4, <2>5, PowerKept DEF PowerInv
  <1>3. CASE Scan \/ Listen \/ ScanAgain \/ ScanBlind \/ Verify
    <2>1. /\ \E s \in {"online", "idle", "blind", "again", "verify", "relock"}, a \in {""} :
                Go("scan", s, a)
          /\ Odd /\ UNCHANGED <<highPower, temp, prior, state>>
      BY <1>3 DEF Scan, Listen, ScanAgain, ScanBlind, Verify, Online, Done, Keep, power,
                  warmth, jack
    <2> QED
      BY <1>2, <2>1
  <1>4. CASE EventServe \/ AttrClr \/ AttrClrLook \/ AttrClrSend \/ EventRemoved
    <2>1. /\ UNCHANGED pc \/ (\E s \in {"online", "idle", "clr", "wipe", "gone", "removed",
                                          "unsee", "absent"},
                                  a \in {"", "HOT", Below(About("event"))} : Go("event", s, a))
          /\ Odd /\ UNCHANGED <<highPower, temp, prior>> /\ (state' = "ONLINE" => state = "ONLINE")
      BY <1>4 DEF EventServe, AttrClr, AttrClrLook, AttrClrSend, EventRemoved, Online, Done,
                  Keep, power, warmth, jack
    <2> QED
      BY <1>2, <2>1
  <1> QED
    BY <1>1, <1>3, <1>4 DEF ScanStep, EventStep

LEMMA PowerMon ==
    ASSUME CableInv, PowerInv, MonStep
    PROVE  PowerInv'
  <1>1. "mon" \in Threads /\ "mon" \notin {"link", "scan", "event"}
        /\ {"mon", "link", "scan", "event"} \subseteq Threads
    BY ThreadFacts
  <1>2. /\ Odd /\ (state' = "ONLINE" => state = "ONLINE")
        /\ highPower' = highPower \/ highPower' = TRUE
    BY DEF MonStep, MonBegin, MonCheck, MonCold, MonPower, MonError, MonSet, NotifSend, Send,
           Mark, Clear, Keep, jack, power
  <1>3. Moved("mon")
    <2>1. (\E s, a : Go("mon", s, a)) \/ Sent("mon")
      BY DEF MonStep, MonBegin, MonCheck, MonCold, MonPower, MonError, MonSet, NotifSend, Send,
             Mark, Clear, Done
    <2>2. CASE Sent("mon")
      BY <1>1, <2>2, SetsOff DEF Sent
    <2> QED
      BY <1>1, <2>1, <2>2, GoFacts
  <1>4. \A t \in {"scan", "event", "link"} : UNCHANGED pc[t]
    BY <1>1, <1>3 DEF Moved
  <1>5. (High => High') /\ (Warm' => Warm)
    BY <1>2, <1>4 DEF High, Warm
  <1>6. ASSUME temp' = "COLD" => temp = "COLD" \/ ColdRound,
               ColdRound' => ColdRound \/ High' \/ state' = "ERROR",
               pc'["mon"][1] \in {"error", "attr", "present"} => pc'["mon"][2] = "COLD"
        PROVE  PowerInv'
    <2>1. ColdOn' => ColdOn \/ High'
      BY <1>2, <1>6 DEF ColdOn
    <2> QED
      BY <1>2, <1>5, <1>6, <2>1, PowerKept
  <1>7. CASE MonBegin \/ MonCheck
    <2>1. temp' = temp /\ (MonCheck => prior' = prior)
      BY <1>7 DEF MonBegin, MonCheck, Keep, warmth
    <2>2. CASE MonBegin
      <3>1. pc'["mon"][1] = "check"
        BY <1>1, <2>2, GoFacts DEF MonBegin
      <3> QED
        BY <1>6, <2>1, <3>1 DEF ColdRound
    <2>3. CASE MonCheck
      <3>1. PICK level \in Levels \cup {"UNKNOWN"} :
               Go("mon", CASE level = "UNKNOWN" -> "set"
                           [] level = "COLD" /\ prior # "COLD" -> "cold"
                           [] OTHER -> "send", level)
        BY <2>3 DEF MonCheck
      <3>2. /\ pc'["mon"][2] = level
            /\ pc'["mon"][1] \in {"set", "cold", "send"}
            /\ level = "COLD" /\ prior # "COLD" => pc'["mon"][1] = "cold"
        <4>1. CASE level = "UNKNOWN"
          BY <1>1, <3>1, <4>1, GoFacts
        <4>2. CASE level = "COLD" /\ prior # "COLD"
          BY <1>1, <3>1, <4>2, GoFacts
        <4>3. CASE level # "UNKNOWN" /\ ~(level = "COLD" /\ prior # "COLD")
          BY <1>1, <3>1, <4>3, GoFacts
        <4> QED
          BY <4>1, <4>2, <4>3
      <3> QED
        BY <1>6, <2>1, <2>3, <3>2 DEF ColdRound
    <2> QED
      BY <1>7, <2>2, <2>3
  <1>8. CASE MonCold \/ MonPower
    <2>1. temp' = temp
      BY <1>8 DEF MonCold, MonPower, Keep, warmth
    <2>2. \/ pc'["mon"][1] = "send" /\ highPower'
          \/ pc'["mon"][1] = "power"
          \/ pc'["mon"][1] = "error" /\ pc'["mon"][2] = "COLD" /\ state' = "ERROR"
      <3>1. CASE MonCold
        <4>1. pc'["mon"][1] = IF highPower THEN "send" ELSE "power"
          BY <1>1, <3>1, GoFacts DEF MonCold
        <4> QED
          BY <1>2, <4>1
      <3>2. CASE MonPower
        <4>1. \/ Go("mon", "send", "COLD") /\ highPower'
              \/ Go("mon", "error", "COLD") /\ state' = "ERROR"
          BY <3>2 DEF MonPower
        <4> QED
          BY <1>1, <4>1, GoFacts
      <3> QED
        BY <1>8, <3>1, <3>2
    <2> QED
      BY <1>6, <2>1, <2>2 DEF ColdRound, High
  <1>9. CASE MonError
    <2>1. pc["mon"][1] \in {"error", "attr", "present"} /\ UNCHANGED <<temp, prior>>
      BY <1>9 DEF MonError, At, Keep, warmth
    <2>2. pc["mon"][2] = "COLD"
      BY <2>1 DEF PowerInv
    <2>3. \E s \in {"attr", "present", "send"}, a \in {"COLD"} : Go("mon", s, a)
      BY <1>9 DEF MonError
    <2>4. pc'["mon"][1] \in {"attr", "present", "send"} /\ pc'["mon"][2] \in {"COLD"}
      BY <1>1, <2>3, GoesTo
    <2> QED
      BY <1>6, <2>1, <2>2, <2>4 DEF ColdRound
  <1>10. CASE MonSet
    <2>1. pc["mon"][1] = "set" /\ (temp' = temp \/ (temp' = pc["mon"][2] /\ (prior = "COLD" => temp' # "COLD")))
      BY <1>10 DEF MonSet, At, About
    <2>2. pc'["mon"][1] = "idle"
      BY <1>1, <1>10, GoFacts DEF MonSet
    <2> QED
      BY <1>6, <2>1, <2>2 DEF ColdRound
  <1>11. CASE NotifSend("mon")
    <2>1. UNCHANGED <<temp, prior>> /\ pc["mon"][1] \in {"send", "mark", "clear"}
      BY <1>11 DEF NotifSend, Send, Mark, Clear, At, Keep, warmth
    <2>2. pc'["mon"][1] \in {"mark", "clear", "set"} /\ pc'["mon"][2] = pc["mon"][2]
      <3>1. (\E s \in {"mark", "clear"}, a \in {About("mon")} : Go("mon", s, a)) \/ Sent("mon")
        BY <1>11 DEF NotifSend, Send, Mark, Clear
      <3>2. CASE Sent("mon")
        <4>1. pc'["mon"] = <<"set", About("mon")>>
          BY <1>1, <3>2, SetsOff DEF Sent
        <4> QED
          BY <4>1 DEF About
      <3>3. CASE \E s \in {"mark", "clear"}, a \in {About("mon")} : Go("mon", s, a)
        <4>1. pc'["mon"][1] \in {"mark", "clear"} /\ pc'["mon"][2] \in {About("mon")}
          BY <1>1, <3>3, GoesTo
        <4> QED
          BY <4>1 DEF About
      <3> QED
        BY <3>1, <3>2, <3>3
    <2> QED
      BY <1>6, <2>1, <2>2 DEF ColdRound
  <1> QED
    BY <1>7, <1>8, <1>9, <1>10, <1>11 DEF MonStep

LEMMA PowerLink ==
    ASSUME CableInv, PowerInv, LinkShift \/ LinkOff \/ LinkStep
    PROVE  PowerInv'
  <1>1. "link" \in Threads /\ "link" \notin {"mon", "scan", "event"}
        /\ {"mon", "link", "scan", "event"} \subseteq Threads
    BY ThreadFacts
  <1>2. Odd /\ UNCHANGED <<state, temp, prior>>
    BY DEF LinkShift, LinkOff, LinkStep, Shifting, LowPower, Keep, jack, warmth
  <1>3. (\E s, a : Go("link", s, a)) \/ UNCHANGED pc
    BY DEF LinkShift, LinkOff, LinkStep, Shifting, LowPower, Done
  <1>4. \A t \in {"scan", "event", "mon"} : UNCHANGED pc[t]
    <2>1. CASE \E s, a : Go("link", s, a)
      <3>1. Moved("link")
        BY <1>1, <2>1, GoFacts
      <3> QED
        BY <1>1, <3>1 DEF Moved
    <2> QED
      BY <1>3, <2>1
  <1>5. UNCHANGED <<Warm, ColdRound, ColdOn>>
    BY <1>2, <1>4 DEF Warm, ColdRound, ColdOn
  <1>6. ASSUME (High => High') \/ "cut" \in odd' PROVE PowerInv'
    BY <1>2, <1>4, <1>5, <1>6, CutFacts DEF PowerInv
  <1>7. CASE LinkShift \/ LinkOff
    <2>1. highPower' = highPower /\ (UNCHANGED pc \/ pc["link"][1] = "idle")
      BY <1>7 DEF LinkShift, LinkOff, Idle, At, Keep, power
    <2> QED
      BY <1>6, <2>1 DEF High
  <1>8. CASE Shifting
    <2>1. CASE Go("link", "shift", "")
      <3>1. pc'["link"][1] = "shift"
        BY <1>1, <2>1, GoFacts
      <3> QED
        BY <1>6, <3>1 DEF High
    <2>2. CASE highPower'
      BY <1>6, <2>2 DEF High
    <2>3. CASE At("link", "done") /\ UNCHANGED highPower
      BY <1>6, <2>3 DEF High, At
    <2>4. CASE /\ pc["link"][1] \in {"down", "shift", "done"}
               /\ Done("link") /\ UNCHANGED highPower
      <3>1. CASE pc["link"][1] = "shift"
        <4>1. pc'["link"][1] = "idle"
          BY <1>1, <2>4, GoFacts
        <4>2. Cutting
          BY <3>1, <4>1 DEF Cutting, Idle, At
        <4> QED
          BY <1>2, <1>6, <4>2, CutFacts
      <3>2. CASE pc["link"][1] # "shift"
        BY <1>6, <2>4, <3>2 DEF High
      <3> QED
        BY <3>1, <3>2
    <2> QED
      BY <1>8, <2>1, <2>2, <2>3, <2>4 DEF Shifting
  <1>9. CASE LowPower
    <2>1. CASE highPower'
      BY <1>6, <2>1 DEF High
    <2>2. CASE ~highPower'
      <3>1. At("link", "low")
        BY <1>9 DEF LowPower
      <3>2. CASE Cutting
        BY <1>2, <1>6, <3>2, CutFacts
      <3>3. CASE ~Cutting
        <4>1. temp = "HOT" /\ ~Onlining("event") /\ ~Onlining("scan") /\ About("mon") # "COLD"
          BY <2>2, <3>1, <3>3 DEF Cutting
        <4>2. ~Warm
          BY <4>1 DEF Warm, Onlining
        <4>3. ~ColdOn
          BY <4>1 DEF ColdOn, ColdRound, About
        <4> QED
          BY <1>2, <1>4, <1>5, <4>2, <4>3 DEF PowerInv
      <3> QED
        BY <3>2, <3>3
    <2> QED
      BY <2>1, <2>2
  <1> QED
    BY <1>7, <1>8, <1>9 DEF LinkStep

LEMMA PowerOthers ==
    ASSUME CableInv, PowerInv,
           \/ FakeStep \/ FakeSet \/ FakeClr
           \/ NewGroup \/ Register \/ Unregister \/ ClientStep
    PROVE  PowerInv'
  <1>1. {"mon", "link", "scan", "event", "fake", "client"} \subseteq Threads
    BY ThreadFacts
  <1>2. Odd /\ UNCHANGED <<highPower, state, temp, prior>>
    BY DEF FakeStep, FakeSetLook, FakeSend, FakeClrLook, FakeSet, FakeClr, NewGroup, Register,
           Unregister, ClientStep, RegisterCable, RegisterLevel, RegisterCheck, FlagsClr, NotifSend,
           Send, Mark, Clear, Keep, jack, warmth, power
  <1>3. \/ UNCHANGED pc \/ Sent("client")
        \/ \E t \in {"fake", "client"} : \E s, a : Go(t, s, a)
    <2>1. CASE FakeStep \/ FakeSet \/ FakeClr
      <3>1. \E s, a : Go("fake", s, a)
        BY <2>1 DEF FakeStep, FakeSetLook, FakeSend, FakeClrLook, FakeSet, FakeClr, Done
      <3> QED
        BY <3>1
    <2>2. CASE Register \/ Unregister \/ ClientStep
      <3>1. (\E s, a : Go("client", s, a)) \/ Sent("client")
        BY <2>2 DEF Register, Unregister, ClientStep, RegisterCable, RegisterLevel,
                    RegisterCheck, FlagsClr, NotifSend, Send, Mark, Clear, Done
      <3> QED
        BY <3>1
    <2>3. CASE NewGroup
      BY <2>3 DEF NewGroup, Keep
    <2> QED
      BY <2>1, <2>2, <2>3
  <1>4. \A t \in {"scan", "event", "mon", "link"} : UNCHANGED pc[t]
    <2>1. CASE Sent("client")
      <3>1. Moved("client")
        BY <1>1, <2>1, SetsOff DEF Sent
      <3> QED
        BY <1>1, <3>1 DEF Moved
    <2>2. ASSUME NEW t \in {"fake", "client"}, \E s, a : Go(t, s, a)
          PROVE  \A u \in {"scan", "event", "mon", "link"} : UNCHANGED pc[u]
      <3>1. Moved(t)
        BY <1>1, <2>2, GoFacts
      <3> QED
        BY <1>1, <3>1 DEF Moved
    <2> QED
      BY <1>3, <2>1, <2>2
  <1> QED
    BY <1>2, <1>4, PowerStill

LEMMA PowerNext == CableInv /\ PowerInv /\ [Next]_vars => PowerInv'
  <1> SUFFICES ASSUME CableInv, PowerInv, [Next]_vars PROVE PowerInv'
    OBVIOUS
  <1>1. CASE Cable
    <2>1. Odd /\ UNCHANGED <<highPower, state, temp, prior, pc>>
      BY <1>1 DEF Cable, Plug, Offline, Heat, Keep, jack, warmth, power
    <2> QED
      BY <2>1, PowerStill
  <1>2. CASE UNCHANGED vars
    <2>1. UNCHANGED <<highPower, state, temp, prior, pc, odd>>
      BY <1>2 DEF vars, jack, warmth, power
    <2> QED
      BY <2>1 DEF PowerInv, High, Warm, ColdOn, ColdRound
  <1>3. CASE ThreadStep \/ Calls
    BY <1>3, PowerScan, PowerMon, PowerLink, PowerOthers DEF ThreadStep, Calls
  <1> QED
    BY <1>1, <1>2, <1>3 DEF Next

(* A cable that is online and cold is in high power when everybody is done:  *)
(* neither the bring-up of sl_media_data_jack_online nor the round of the    *)
(* monitor that found it cold leaves it in low power, whatever they cross.   *)
THEOREM PoweredAlways == Spec => []Powered
  <1>1. Init => PowerInv
    <2> SUFFICES ASSUME Init PROVE PowerInv
      OBVIOUS
    <2>1. \A t \in {"scan", "event", "mon"} : pc[t][1] \in {"scan", "idle"}
      BY ThreadFacts DEF Init
    <2>2. ~Warm /\ ~ColdRound
      BY <2>1 DEF Warm, ColdRound
    <2>3. ~ColdOn
      BY DEF Init, ColdOn
    <2> QED
      BY <2>1, <2>2, <2>3 DEF PowerInv
  <1>2. PowerInv => Powered
    <2>1. AtRest => pc["link"][1] = "idle"
      BY ThreadFacts DEF AtRest, Idle, At
    <2> QED
      BY <2>1 DEF PowerInv, Powered, ColdOn, High
  <1>3. CableInv /\ PowerInv /\ [Next]_vars => PowerInv'
    BY PowerNext
  <1> QED
    BY <1>1, <1>2, <1>3, CableInvAlways, PTL DEF Spec

-----------------------------------------------------------------------------
(* When all that happened was served the jack knows whether there is a       *)
(* cable.  First, what is on its way in the queue of hsnxcvr.                *)

Kinds == {"insert", "online", "offline", "remove"}

(* An online event that no removal follows *)
Coming(es) == \E i \in 1..Len(es) :
    /\ es[i] = "online"
    /\ \A j \in 1..Len(es) : j > i => es[j] # "remove"

NoRemoval(es) == \A i \in 1..Len(es) : es[i] # "remove"

Leaving(es) == es # <<>> /\ es[Len(es)] = "remove"

(* An insertion is reported with the online event that follows it. *)
Paired(es) ==
    /\ es \in Seq(Kinds)
    /\ \A i \in 1..Len(es) : es[i] = "insert" => i + 1 \in 1..Len(es) /\ es[i + 1] = "online"

LEMMA EmptyQueue == Paired(<<>>) /\ NoRemoval(<<>>)
  BY DEF Paired, NoRemoval, Kinds

LEMMA AppendedFacts ==
    ASSUME NEW es, Paired(es), NEW fs \in Seq(Kinds)
    PROVE  /\ es \o fs \in Seq(Kinds)
           /\ Len(es) \in Nat /\ Len(fs) \in Nat /\ Len(es \o fs) = Len(es) + Len(fs)
           /\ \A i \in 1..Len(es) : (es \o fs)[i] = es[i]
           /\ \A i \in 1..Len(fs) : (es \o fs)[Len(es) + i] = fs[i]
  <1>1. es \in Seq(Kinds)
    BY DEF Paired
  <1>2. /\ es \o fs \in Seq(Kinds) /\ Len(es) \in Nat /\ Len(fs) \in Nat
        /\ Len(es \o fs) = Len(es) + Len(fs)
        /\ \A i \in 1..(Len(es) + Len(fs)) :
              (es \o fs)[i] = IF i <= Len(es) THEN es[i] ELSE fs[i - Len(es)]
    BY <1>1, ConcatProperties
  <1>3. ASSUME NEW i \in 1..Len(es) PROVE (es \o fs)[i] = es[i]
    BY <1>2
  <1>4. ASSUME NEW i \in 1..Len(fs) PROVE (es \o fs)[Len(es) + i] = fs[i]
    <2>1. Len(es) + i \in 1..(Len(es) + Len(fs)) /\ ~(Len(es) + i <= Len(es))
          /\ (Len(es) + i) - Len(es) = i
      BY <1>2
    <2> QED
      BY <1>2, <2>1
  <1> QED
    BY <1>2, <1>3, <1>4

LEMMA AppendInsert ==
    ASSUME NEW es, Paired(es), NEW gs, gs = es \o <<"insert", "online">>
    PROVE  Paired(gs) /\ Coming(gs)
  <1> DEFINE fs == <<"insert", "online">>
  <1>0. gs = es \o fs
    OBVIOUS
  <1>1. fs \in Seq(Kinds) /\ Len(fs) = 2 /\ fs[1] = "insert" /\ fs[2] = "online"
    BY DEF Kinds
  <1> HIDE DEF fs
  <1>2. /\ gs \in Seq(Kinds) /\ Len(es) \in Nat /\ Len(gs) = Len(es) + 2
        /\ \A i \in 1..Len(es) : gs[i] = es[i]
        /\ \A i \in 1..2 : gs[Len(es) + i] = fs[i]
    BY <1>0, <1>1, AppendedFacts
  <1>3. gs[Len(es) + 1] = "insert" /\ gs[Len(es) + 2] = "online"
    BY <1>1, <1>2
  <1>4. Paired(gs)
    <2>1. ASSUME NEW i \in 1..Len(gs), gs[i] = "insert"
          PROVE  i + 1 \in 1..Len(gs) /\ gs[i + 1] = "online"
      <3>1. CASE i \in 1..Len(es)
        BY <1>2, <2>1, <3>1 DEF Paired
      <3>2. CASE i = Len(es) + 1
        BY <1>2, <1>3, <3>2
      <3>3. CASE i = Len(es) + 2
        BY <1>3, <2>1, <3>3
      <3> QED
        BY <1>2, <3>1, <3>2, <3>3
    <2> QED
      BY <1>2, <2>1 DEF Paired
  <1>5. Coming(gs)
    BY <1>2, <1>3 DEF Coming
  <1> QED
    BY <1>4, <1>5

LEMMA AppendOne ==
    ASSUME NEW es, Paired(es), NEW k \in {"remove", "offline"}, NEW gs, gs = es \o <<k>>
    PROVE  /\ Paired(gs)
           /\ k = "remove" => Leaving(gs)
           /\ k = "offline" /\ Coming(es) => Coming(gs)
           /\ k = "offline" /\ NoRemoval(es) => NoRemoval(gs)
  <1> DEFINE fs == <<k>>
  <1>0. gs = es \o fs
    OBVIOUS
  <1>1. fs \in Seq(Kinds) /\ Len(fs) = 1 /\ fs[1] = k
    BY DEF Kinds
  <1> HIDE DEF fs
  <1>2. /\ gs \in Seq(Kinds) /\ Len(es) \in Nat /\ Len(gs) = Len(es) + 1
        /\ \A i \in 1..Len(es) : gs[i] = es[i]
        /\ \A i \in 1..1 : gs[Len(es) + i] = fs[i]
    BY <1>0, <1>1, AppendedFacts
  <1>3. gs[Len(es) + 1] = k
    BY <1>1, <1>2
  <1>4. Paired(gs)
    <2>1. ASSUME NEW i \in 1..Len(gs), gs[i] = "insert"
          PROVE  i + 1 \in 1..Len(gs) /\ gs[i + 1] = "online"
      <3>1. CASE i \in 1..Len(es)
        BY <1>2, <2>1, <3>1 DEF Paired
      <3>2. CASE i = Len(es) + 1
        BY <1>3, <2>1, <3>2
      <3> QED
        BY <1>2, <3>1, <3>2
    <2> QED
      BY <1>2, <2>1 DEF Paired
  <1>5. k = "remove" => Leaving(gs)
    BY <1>2, <1>3 DEF Leaving
  <1>6. k = "offline" /\ Coming(es) => Coming(gs)
    BY <1>2, <1>3 DEF Coming
  <1>7. k = "offline" /\ NoRemoval(es) => NoRemoval(gs)
    BY <1>2, <1>3 DEF NoRemoval
  <1> QED
    BY <1>4, <1>5, <1>6, <1>7

(* The first n events, a word of the notifier, and those after it *)
Word(es, n) == {es[i] : i \in 1..n}
Rest(es, n) == SubSeq(es, n + 1, Len(es))

LEMMA RestFacts ==
    ASSUME NEW es, Paired(es), NEW n \in 1..Len(es), NEW fs, fs = Rest(es, n)
    PROVE  /\ Len(es) \in Nat /\ fs \in Seq(Kinds) /\ Len(fs) = Len(es) - n
           /\ \A i \in 1..Len(fs) : fs[i] = es[i + n]
           /\ \A i \in 1..Len(es) : es[i] \in Word(es, n) \/ (i - n \in 1..Len(fs) /\ es[i] = fs[i - n])
  <1>1. es \in Seq(Kinds) /\ Len(es) \in Nat /\ n \in Nat /\ n >= 1 /\ n <= Len(es)
        /\ \A i \in (n + 1)..Len(es) : es[i] \in Kinds
    BY DEF Paired
  <1>2. /\ SubSeq(es, n + 1, Len(es)) \in Seq(Kinds)
        /\ Len(SubSeq(es, n + 1, Len(es))) =
              IF n + 1 <= Len(es) THEN Len(es) - (n + 1) + 1 ELSE 0
        /\ \A i \in 1..(Len(es) - (n + 1) + 1) :
              SubSeq(es, n + 1, Len(es))[i] = es[(n + 1) + i - 1]
    BY <1>1, SubSeqProperties
  <1>3. /\ fs \in Seq(Kinds) /\ Len(fs) = Len(es) - n
        /\ \A i \in 1..Len(fs) : fs[i] = es[i + n]
    BY <1>1, <1>2 DEF Rest
  <1>4. ASSUME NEW i \in 1..Len(es)
        PROVE  es[i] \in Word(es, n) \/ (i - n \in 1..Len(fs) /\ es[i] = fs[i - n])
    <2>1. CASE i <= n
      BY <1>1, <2>1 DEF Word
    <2>2. CASE ~(i <= n)
      <3>1. i - n \in 1..Len(fs) /\ (i - n) + n = i
        BY <1>1, <1>3, <2>2
      <3> QED
        BY <1>3, <3>1
    <2> QED
      BY <2>1, <2>2
  <1> QED
    BY <1>1, <1>3, <1>4

(* What is served is the first word. *)
LEMMA Served ==
    ASSUME NEW es, Paired(es), NEW n \in 1..Len(es), NEW fs, fs = Rest(es, n)
    PROVE  /\ Paired(fs)
           /\ Leaving(es) => Leaving(fs) \/ (fs = <<>> /\ "remove" \in Word(es, n))
           /\ Coming(es) => Coming(fs) \/ ("online" \in Word(es, n) /\ NoRemoval(fs))
           /\ NoRemoval(es) => NoRemoval(fs) /\ "remove" \notin Word(es, n)
           /\ "insert" \in Word(es, n) /\ "online" \notin Word(es, n)
                 /\ (Coming(es) \/ NoRemoval(es)) => Coming(fs)
  <1>1. /\ Len(es) \in Nat /\ fs \in Seq(Kinds) /\ Len(fs) = Len(es) - n
        /\ \A i \in 1..Len(fs) : fs[i] = es[i + n]
        /\ \A i \in 1..Len(es) :
              es[i] \in Word(es, n) \/ (i - n \in 1..Len(fs) /\ es[i] = fs[i - n])
        /\ n \in Nat /\ n >= 1 /\ n <= Len(es)
    BY RestFacts
  <1>2. fs = <<>> \/ Len(fs) > 0
    <2>1. CASE Len(fs) = 0
      BY <1>1, <2>1
    <2> QED
      BY <1>1, <2>1
  <1>3. Paired(fs)
    <2>1. ASSUME NEW i \in 1..Len(fs), fs[i] = "insert"
          PROVE  i + 1 \in 1..Len(fs) /\ fs[i + 1] = "online"
      <3>1. i + n \in 1..Len(es) /\ es[i + n] = "insert"
        BY <1>1, <2>1
      <3>2. (i + n) + 1 \in 1..Len(es) /\ es[(i + n) + 1] = "online"
        BY <3>1 DEF Paired
      <3>3. i + 1 \in 1..Len(fs) /\ (i + 1) + n = (i + n) + 1
        BY <1>1, <3>2
      <3> QED
        BY <1>1, <3>2, <3>3
    <2> QED
      BY <1>1, <2>1 DEF Paired
  <1>4. Leaving(es) => Leaving(fs) \/ (fs = <<>> /\ "remove" \in Word(es, n))
    <2> SUFFICES ASSUME Leaving(es)
                 PROVE  Leaving(fs) \/ (fs = <<>> /\ "remove" \in Word(es, n))
      OBVIOUS
    <2>1. Len(es) \in 1..Len(es) /\ es[Len(es)] = "remove"
      BY <1>1 DEF Leaving
    <2>2. CASE Len(fs) > 0
      <3>1. fs # <<>> /\ Len(fs) \in 1..Len(fs) /\ Len(fs) + n = Len(es)
        BY <1>1, <2>2
      <3> QED
        BY <1>1, <2>1, <3>1 DEF Leaving
    <2>3. CASE fs = <<>>
      <3>1. Len(fs) = 0
        BY <2>3
      <3>2. "remove" \in Word(es, n)
        BY <1>1, <2>1, <3>1
      <3> QED
        BY <2>3, <3>2
    <2> QED
      BY <1>2, <2>2, <2>3
  <1>5. Coming(es) => Coming(fs) \/ ("online" \in Word(es, n) /\ NoRemoval(fs))
    <2> SUFFICES ASSUME Coming(es)
                 PROVE  Coming(fs) \/ ("online" \in Word(es, n) /\ NoRemoval(fs))
      OBVIOUS
    <2>1. PICK i \in 1..Len(es) : /\ es[i] = "online"
                                  /\ \A j \in 1..Len(es) : j > i => es[j] # "remove"
      BY DEF Coming
    <2>2. CASE i <= n
      <3>1. "online" \in Word(es, n)
        BY <2>1, <2>2 DEF Word
      <3>2. ASSUME NEW j \in 1..Len(fs) PROVE fs[j] # "remove"
        <4>1. j + n \in 1..Len(es) /\ j + n > i
          BY <1>1, <2>2
        <4> QED
          BY <1>1, <2>1, <4>1
      <3> QED
        BY <3>1, <3>2 DEF NoRemoval
    <2>3. CASE ~(i <= n)
      <3>1. i - n \in 1..Len(fs) /\ (i - n) + n = i
        BY <1>1, <2>3
      <3>2. fs[i - n] = "online"
        BY <1>1, <2>1, <3>1
      <3>3. ASSUME NEW j \in 1..Len(fs), j > i - n PROVE fs[j] # "remove"
        <4>1. j + n \in 1..Len(es) /\ j + n > i
          BY <1>1, <3>3
        <4> QED
          BY <1>1, <2>1, <4>1
      <3> QED
        BY <3>1, <3>2, <3>3 DEF Coming
    <2> QED
      BY <2>2, <2>3
  <1>6. NoRemoval(es) => NoRemoval(fs) /\ "remove" \notin Word(es, n)
    <2> SUFFICES ASSUME NoRemoval(es) PROVE NoRemoval(fs) /\ "remove" \notin Word(es, n)
      OBVIOUS
    <2>1. ASSUME NEW j \in 1..Len(fs) PROVE fs[j] # "remove"
      <3>1. j + n \in 1..Len(es)
        BY <1>1
      <3> QED
        BY <1>1, <3>1 DEF NoRemoval
    <2>2. \A i \in 1..n : es[i] # "remove"
      BY <1>1 DEF NoRemoval
    <2> QED
      BY <2>1, <2>2 DEF NoRemoval, Word
  <1>7. ASSUME "insert" \in Word(es, n), "online" \notin Word(es, n), NoRemoval(es)
        PROVE  Coming(fs)
    <2>1. PICK i \in 1..n : es[i] = "insert"
      BY <1>7 DEF Word
    <2>2. i + 1 \in 1..Len(es) /\ es[i + 1] = "online"
      BY <1>1, <2>1 DEF Paired
    <2>3. (i + 1) - n \in 1..Len(fs) /\ fs[(i + 1) - n] = "online"
      BY <1>1, <1>7, <2>2
    <2> QED
      BY <1>6, <1>7, <2>3 DEF Coming, NoRemoval
  <1> QED
    BY <1>2, <1>3, <1>4, <1>5, <1>6, <1>7

-----------------------------------------------------------------------------
(* The labels of the two threads that bring the jack online *)

OnlineLabels == {"online", "look", "going", "read", "power", "reset", "raise", "attr",
                 "store", "present", "finish", "fail"}
Late == OnlineLabels \ {"online", "going"}
Removal == {"clr", "wipe", "unsee", "absent", "gone", "removed"}
ScanLabels == {"scan", "idle", "blind", "again", "verify", "relock"}

LEMMA LabelSets ==
    /\ Late \subseteq OnlineLabels /\ "online" \in OnlineLabels \ Late
    /\ "idle" \notin OnlineLabels \cup Removal /\ Removal \cap OnlineLabels = {}
    /\ ScanLabels \cap OnlineLabels = {}
    /\ {"store", "present", "finish", "look"} \subseteq Late
    /\ "clr" \in Removal /\ "wipe" \in Removal /\ "removed" \in Removal
    /\ ScanLabels \cap {"present", "finish"} = {}
  BY DEF Late, OnlineLabels, Removal, ScanLabels

(* Nothing happened that Settled excepts. *)
Good == "crossed" \notin odd /\ "unread" \notin odd /\ "lost" \notin odd

LabelInv ==
    /\ pc["scan"][1] \in OnlineLabels \cup ScanLabels
    /\ pc["event"][1] \in OnlineLabels \cup Removal \cup {"idle"}
    /\ pc["scan"][1] = "scan" => ~listening
    /\ ~listening => events = <<>> /\ pc["event"][1] = "idle"

(* sl_media_data_jack_online, whoever runs it *)
LEMMA OnlineEffect ==
    ASSUME CableInv, NEW t \in {"scan", "event"}, OnlineStep(t)
    PROVE  /\ Moved(t) /\ Odd /\ UNCHANGED hw
           /\ pc[t][1] \in OnlineLabels /\ pc'[t][1] \in OnlineLabels \cup {"idle"}
           /\ pc'[t][1] = "idle" => \/ state' \in {"ONLINE", "ERROR"}
                                    \/ pc[t][1] = "look" /\ state = "REMOVED"
           /\ \/ state' = state \/ state' \in {"GOING_ONLINE", "ERROR"}
              \/ state' = "ONLINE" /\ pc[t][1] = "finish"
           /\ pc'[t][1] \in Late => pc[t][1] \in Late \/ state' = "GOING_ONLINE"
           /\ pc'[t][1] \in {"present", "finish"} =>
                 pc[t][1] \in {"present", "finish"} \/ real' # "REMOVED"
           /\ \/ UNCHANGED port
              \/ pc[t][1] = "store" /\ real' # "REMOVED" /\ real' \in {"ADDED", "STASHED"}
           /\ status' = status \/ status' = plugged
  <1>1. t \in Threads
    BY ThreadFacts
  <1>2. Odd /\ UNCHANGED hw
    BY DEF OnlineStep, OnlineWait, OnlineGoing, OnlineRead, OnlineReset, OnlinePower,
           OnlineAttr, OnlineStore, OnlinePresent, OnlineFinish, OnlineFail, Keep, hw
  <1>3. /\ \/ UNCHANGED port
           \/ pc[t][1] = "store" /\ real' # "REMOVED" /\ real' \in {"ADDED", "STASHED"}
        /\ status' = status \/ status' = plugged
    BY DEF OnlineStep, OnlineWait, OnlineGoing, OnlineRead, OnlineReset, OnlinePower,
           OnlineAttr, OnlineStore, OnlinePresent, OnlineFinish, OnlineFail, AttrSet, Keep, jack,
           At
  <1>4. CASE OnlineWait(t)
    <2>1. /\ UNCHANGED <<state>> /\ pc[t][1] \in {"online", "look"}
          /\ \/ Go(t, "look", "") /\ state = "GOING_ONLINE"
             \/ \E s \in {"going", "online", "fail"} : Go(t, s, "") /\ (s = "fail" => pc[t][1] = "look")
             \/ Done(t) /\ pc[t][1] = "look" /\ state = "REMOVED"
      BY <1>4 DEF OnlineWait, At, Keep, jack
    <2>2. CASE Go(t, "look", "") /\ state = "GOING_ONLINE"
      <3>1. Moved(t) /\ pc'[t][1] = "look"
        BY <1>1, <2>2, GoFacts
      <3> QED
        BY <1>2, <1>3, <2>1, <2>2, <3>1 DEF OnlineLabels, Late
    <2>3. ASSUME NEW s \in {"going", "online", "fail"}, Go(t, s, ""),
                 s = "fail" => pc[t][1] = "look"
          PROVE  Moved(t) /\ pc'[t][1] = s
      BY <1>1, <2>3, GoFacts
    <2>4. CASE Done(t) /\ pc[t][1] = "look" /\ state = "REMOVED"
      <3>1. Moved(t) /\ pc'[t][1] = "idle"
        BY <1>1, <2>4, GoFacts
      <3> QED
        BY <1>2, <1>3, <2>1, <2>4, <3>1 DEF OnlineLabels, Late
    <2> QED
      BY <1>2, <1>3, <2>1, <2>2, <2>3, <2>4 DEF OnlineLabels, Late
  <1>5. CASE OnlineGoing(t)
    <2>1. Moved(t) /\ pc'[t][1] = "read" /\ state' = "GOING_ONLINE" /\ pc[t][1] = "going"
      BY <1>1, <1>5, GoFacts, AtFacts DEF OnlineGoing
    <2> QED
      BY <1>2, <1>3, <2>1 DEF OnlineLabels, Late
  <1>6. CASE OnlineRead(t) \/ OnlineReset(t) \/ OnlinePower(t) \/ OnlineAttr(t)
    <2>1. /\ \E s \in {"power", "reset", "raise", "fail", "attr", "store"},
                a \in {"", "bare", "real", "faulty", About(t)} : Go(t, s, a)
          /\ state' = state \/ state' = "ERROR"
          /\ pc[t][1] \in {"read", "power", "reset", "raise", "attr"}
      BY <1>6 DEF OnlineRead, OnlineReset, OnlinePower, OnlineAttr, At, Keep, jack
    <2>2. Moved(t) /\ pc'[t][1] \in {"power", "reset", "raise", "fail", "attr", "store"}
      BY <1>1, <2>1, GoesTo
    <2> QED
      BY <1>2, <1>3, <2>1, <2>2 DEF OnlineLabels, Late
  <1>7. CASE OnlineStore(t)
    <2>1. /\ state' = state /\ pc[t][1] = "store"
          /\ \/ /\ \E s \in {"present", "finish", "fail"}, a \in {"", About(t)} : Go(t, s, a)
                /\ real' # "REMOVED"
             \/ Go(t, "fail", "")
      BY <1>7 DEF OnlineStore, Stored, AttrSet, At, Keep, jack
    <2>2. /\ Moved(t) /\ pc'[t][1] \in {"present", "finish", "fail"}
          /\ pc'[t][1] \in {"present", "finish"} => real' # "REMOVED"
      <3>1. CASE /\ \E s \in {"present", "finish", "fail"}, a \in {"", About(t)} : Go(t, s, a)
                 /\ real' # "REMOVED"
        <4>1. Moved(t) /\ pc'[t][1] \in {"present", "finish", "fail"}
          BY <1>1, <3>1, GoesTo
        <4> QED
          BY <3>1, <4>1
      <3>2. CASE Go(t, "fail", "")
        <4>1. Moved(t) /\ pc'[t][1] = "fail"
          BY <1>1, <3>2, GoFacts
        <4> QED
          BY <4>1
      <3> QED
        BY <2>1, <3>1, <3>2
    <2> QED
      BY <1>2, <1>3, <2>1, <2>2 DEF OnlineLabels, Late
  <1>8. CASE OnlinePresent(t)
    <2>1. /\ \E s \in {"finish", "fail"}, a \in {""} : Go(t, s, a)
          /\ state' = state /\ pc[t][1] = "present"
      BY <1>8 DEF OnlinePresent, Stored, At, Keep, jack
    <2>2. Moved(t) /\ pc'[t][1] \in {"finish", "fail"}
      BY <1>1, <2>1, GoesTo
    <2> QED
      BY <1>2, <1>3, <2>1, <2>2 DEF OnlineLabels, Late
  <1>9. CASE OnlineFinish(t) \/ OnlineFail(t)
    <2>1. /\ Done(t) /\ pc[t][1] \in {"finish", "fail"}
          /\ (state' = "ONLINE" /\ pc[t][1] = "finish") \/ state' = "ERROR"
      BY <1>9 DEF OnlineFinish, OnlineFail, At
    <2>2. Moved(t) /\ pc'[t][1] = "idle"
      BY <1>1, <2>1, GoFacts
    <2> QED
      BY <1>2, <1>3, <2>1, <2>2 DEF OnlineLabels, Late
  <1> QED
    BY <1>4, <1>5, <1>6, <1>7, <1>8, <1>9 DEF OnlineStep

(* The rest of the scan *)
LEMMA ScanEffect ==
    ASSUME CableInv, Scan \/ Listen \/ ScanAgain \/ ScanBlind \/ Verify
    PROVE  /\ Moved("scan") /\ Odd /\ UNCHANGED <<plugged, events, state>>
           /\ pc["scan"][1] \in ScanLabels
           /\ pc'["scan"][1] \in {"online", "idle", "blind", "again", "verify", "relock"}
           /\ pc["scan"][1] # "blind" => UNCHANGED port
           /\ pc["scan"][1] = "scan" => listening' = listening
           /\ listening => listening' = TRUE
           /\ listening' # listening => pc'["scan"][1] = "again"
           /\ pc["scan"][1] = "again" =>
                 \/ pc'["scan"][1] = "blind"
                 \/ pc'["scan"][1] = "verify" /\ status' = plugged
           /\ pc["scan"][1] = "idle" => ~listening
           /\ pc["scan"][1] = "verify" =>
                 /\ status' = status
                 /\ ~status /\ state # "REMOVED" => pc'["scan"][1] = "relock"
                 /\ ~status /\ state = "REMOVED" => pc'["scan"][1] = "idle"
                 /\ status => \/ pc'["scan"][1] = "online"
                              \/ pc'["scan"][1] = "idle" /\ state = "ONLINE"
           /\ pc["scan"][1] # "relock"
  <1>1. "scan" \in Threads
    BY ThreadFacts
  <1>2. /\ Odd /\ UNCHANGED <<plugged, events, state>>
        /\ pc["scan"][1] # "blind" => UNCHANGED port
        /\ listening' = listening \/ (listening' = TRUE /\ Listen)
        /\ \E s \in {"online", "idle", "blind", "again", "verify", "relock"}, a \in {""} :
              Go("scan", s, a)
        /\ pc["scan"][1] \in {"scan", "idle", "again", "blind", "verify"}
    BY DEF Scan, Listen, ScanAgain, ScanBlind, Verify, Online, Done, Keep, hw, jack, At, Idle
  <1>3. /\ Moved("scan")
        /\ pc'["scan"][1] \in {"online", "idle", "blind", "again", "verify", "relock"}
    BY <1>1, <1>2, GoesTo
  <1>4. CASE Listen
    <2>1. pc["scan"][1] = "idle" /\ pc'["scan"][1] = "again" /\ ~listening
      BY <1>1, <1>4, GoFacts DEF Listen, Idle, At
    <2> QED
      BY <1>2, <1>3, <2>1 DEF ScanLabels
  <1>5. CASE Scan \/ ScanBlind
    <2>1. pc["scan"][1] \in {"scan", "blind"} /\ listening' = listening
      BY <1>5 DEF Scan, ScanBlind, At, Keep, hw
    <2> QED
      BY <1>2, <1>3, <2>1 DEF ScanLabels
  <1>6. CASE ScanAgain
    <2>1. /\ pc["scan"][1] = "again" /\ listening' = listening
          /\ \/ Go("scan", "blind", "")
             \/ Go("scan", "verify", "") /\ status' = plugged
      BY <1>6 DEF ScanAgain, At, Keep, hw
    <2>2. \/ pc'["scan"][1] = "blind"
          \/ pc'["scan"][1] = "verify" /\ status' = plugged
      BY <1>1, <2>1, GoFacts
    <2> QED
      BY <1>2, <1>3, <2>1, <2>2 DEF ScanLabels
  <1>7. CASE Verify
    <2>1. /\ pc["scan"][1] = "verify" /\ listening' = listening /\ status' = status
          /\ ~status /\ state # "REMOVED" => Go("scan", "relock", "")
          /\ ~status /\ state = "REMOVED" => Go("scan", "idle", "")
          /\ status => \/ Go("scan", "online", "")
                       \/ Go("scan", "idle", "") /\ state = "ONLINE"
      BY <1>7 DEF Verify, At, Keep, hw, jack, Online, Done
    <2>2. \A s, a : Go("scan", s, a) => pc'["scan"][1] = s
      BY <1>1, GoFacts
    <2> QED
      BY <1>2, <1>3, <2>1, <2>2 DEF ScanLabels
  <1> QED
    BY <1>4, <1>5, <1>6, <1>7

(* Serving a word of events, or losing it *)
LEMMA ServeEffect ==
    ASSUME CableInv, EventServe
    PROVE  /\ Odd /\ UNCHANGED <<plugged, listening, status, port>>
           /\ \A u \in Threads : u # "event" => pc'[u] = pc[u]
           /\ pc["event"][1] = "idle" /\ pc'["event"][1] \in {"idle", "online", "clr"}
           /\ state' = state \/ state' \in {"INSERTED", "ERROR"}
           /\ \E n \in 1..Len(events) :
                 /\ events' = Rest(events, n)
                 /\ Paired(events) /\ Good' =>
                       /\ "remove" \in Word(events, n) => pc'["event"][1] = "clr"
                       /\ "online" \in Word(events, n) => pc'["event"][1] = "online"
                 /\ pc'["event"][1] = "clr" => "remove" \in Word(events, n)
                 /\ pc'["event"][1] = "online" => "online" \in Word(events, n)
                 /\ state' = "INSERTED" =>
                       \/ state' = state
                       \/ "insert" \in Word(events, n) /\ "online" \notin Word(events, n)
  <1>1. "event" \in Threads
    BY ThreadFacts
  <1>2. /\ Odd /\ UNCHANGED <<plugged, listening, status, port>>
        /\ pc["event"][1] = "idle"
    BY DEF EventServe, Idle, At, Keep
  <1>3. PICK n \in 1..Len(events) :
           /\ events' = Rest(events, n)
           /\ \/ UNCHANGED <<pc, state>>
              \/ /\ Go("event", "online", "") /\ UNCHANGED state
                 /\ "online" \in Word(events, n)
              \/ /\ Go("event", "clr", "") /\ UNCHANGED state
                 /\ "remove" \in Word(events, n)
              \/ /\ state' = "INSERTED" /\ UNCHANGED pc
                 /\ "insert" \in Word(events, n) /\ "online" \notin Word(events, n)
              \/ state' = "ERROR" /\ UNCHANGED pc
    BY DEF EventServe, Online, Word, Rest
  <1>4. /\ \A u \in Threads : u # "event" => pc'[u] = pc[u]
        /\ \/ pc'["event"] = pc["event"]
           \/ pc'["event"][1] = "online" /\ "online" \in Word(events, n)
           \/ pc'["event"][1] = "clr" /\ "remove" \in Word(events, n)
    <2>1. CASE UNCHANGED pc
      BY <2>1
    <2>2. CASE Go("event", "online", "") /\ "online" \in Word(events, n)
      <3>1. Moved("event") /\ pc'["event"][1] = "online"
        BY <1>1, <2>2, GoFacts
      <3> QED
        BY <2>2, <3>1 DEF Moved
    <2>3. CASE Go("event", "clr", "") /\ "remove" \in Word(events, n)
      <3>1. Moved("event") /\ pc'["event"][1] = "clr"
        BY <1>1, <2>3, GoFacts
      <3> QED
        BY <2>3, <3>1 DEF Moved
    <2> QED
      BY <1>3, <2>1, <2>2, <2>3
  <1>5. Good' => ~Losing
    BY <1>2 DEF Odd, Good
  <1>6. ASSUME Paired(events)
        PROVE  {events[i] : i \in 1..(Len(events) - Len(events'))} = Word(events, n)
    <2>1. Len(events) \in Nat /\ Len(events') = Len(events) - n
      BY <1>3, <1>6, RestFacts
    <2>2. Len(events) - Len(events') = n
      BY <2>1
    <2> QED
      BY <2>2 DEF Word
  <1>7. Paired(events) /\ Good' =>
           /\ "remove" \in Word(events, n) => pc'["event"][1] = "clr"
           /\ "online" \in Word(events, n) => pc'["event"][1] = "online"
    BY <1>5, <1>6 DEF Losing
  <1> QED
    BY <1>2, <1>3, <1>4, <1>7

(* The steps of a removal *)
LEMMA RemovalEffect ==
    ASSUME CableInv, AttrClr \/ AttrClrLook \/ AttrClrSend \/ EventRemoved
    PROVE  /\ Moved("event") /\ Odd /\ UNCHANGED hw /\ status' = status
           /\ pc["event"][1] \in Removal /\ pc'["event"][1] \in Removal \cup {"idle"}
           /\ pc'["event"][1] # "clr"
           /\ pc["event"][1] # "wipe" => UNCHANGED port
           /\ pc["event"][1] = "clr" => pc'["event"][1] = "wipe"
           /\ pc'["event"][1] = "wipe" => pc["event"][1] = "clr"
           /\ pc["event"][1] = "wipe" =>
                 real' = "REMOVED" /\ attr' = (IF real = "ADDED" THEN "none" ELSE attr)
           /\ pc'["event"][1] = "idle" => pc["event"][1] = "removed" /\ state' = "REMOVED"
           /\ pc'["event"][1] # "idle" => state' = state
  <1>1. "event" \in Threads
    BY ThreadFacts
  <1>2. Odd /\ UNCHANGED hw /\ status' = status
    BY DEF AttrClr, AttrClrLook, AttrClrSend, EventRemoved, Keep, jack, hw
  <1>3. CASE AttrClr
    <2>1. CASE pc["event"][1] = "clr"
      <3>1. Go("event", "wipe", "") /\ state' = state /\ UNCHANGED port
        BY <1>3, <2>1 DEF AttrClr, At, Keep, jack
      <3>2. Moved("event") /\ pc'["event"][1] = "wipe"
        BY <1>1, <3>1, GoFacts
      <3> QED
        BY <1>2, <2>1, <3>1, <3>2 DEF Removal
    <2>2. CASE pc["event"][1] = "wipe"
      <3>1. /\ \E k \in {"gone", "unsee"}, a \in {"", "HOT"} : Go("event", k, a)
            /\ state' = state /\ real' = "REMOVED"
            /\ attr' = IF real = "ADDED" THEN "none" ELSE attr
        BY <1>3, <2>2 DEF AttrClr, At, Keep, jack
      <3>2. Moved("event") /\ pc'["event"][1] \in {"gone", "unsee"}
        BY <1>1, <3>1, GoesTo
      <3> QED
        BY <1>2, <2>2, <3>1, <3>2 DEF Removal
    <2> QED
      BY <1>3, <2>1, <2>2 DEF AttrClr, At
  <1>4. CASE AttrClrLook \/ AttrClrSend
    <2>1. /\ \E s \in {"gone", "absent"}, a \in {"", "HOT"} : Go("event", s, a)
          /\ pc["event"][1] \in {"unsee", "absent"} /\ state' = state /\ UNCHANGED port
      BY <1>4 DEF AttrClrLook, AttrClrSend, At, Keep, jack
    <2>2. Moved("event") /\ pc'["event"][1] \in {"gone", "absent"}
      BY <1>1, <2>1, GoesTo
    <2> QED
      BY <1>2, <2>1, <2>2 DEF Removal
  <1>5. CASE EventRemoved
    <2>1. UNCHANGED port
      BY <1>5 DEF EventRemoved, Keep
    <2>2. CASE pc["event"][1] = "gone"
      <3>1. /\ \E s \in {"gone", "removed"}, a \in {"", Below(About("event"))} :
                  Go("event", s, a)
            /\ state' = state
        BY <1>5, <2>2 DEF EventRemoved, At
      <3>2. Moved("event") /\ pc'["event"][1] \in {"gone", "removed"}
        BY <1>1, <3>1, GoesTo
      <3> QED
        BY <1>2, <2>1, <2>2, <3>1, <3>2 DEF Removal
    <2>3. CASE pc["event"][1] = "removed"
      <3>1. Done("event") /\ state' = "REMOVED"
        BY <1>5, <2>3 DEF EventRemoved, At
      <3>2. Moved("event") /\ pc'["event"][1] = "idle"
        BY <1>1, <3>1, GoFacts
      <3> QED
        BY <1>2, <2>1, <2>3, <3>1, <3>2 DEF Removal
    <2> QED
      BY <1>5, <2>2, <2>3 DEF EventRemoved, At
  <1> QED
    BY <1>3, <1>4, <1>5

LEMMA MonEffect ==
    ASSUME CableInv, MonStep
    PROVE  /\ Moved("mon") /\ Odd /\ UNCHANGED hw /\ status' = status
           /\ state' = state \/ (state' = "ERROR" /\ pc["mon"][1] \in Round)
           /\ pc'["mon"][1] \in Round =>
                 pc["mon"][1] \in Round \/ (attr \in OwnAttrs /\ UNCHANGED port)
           /\ UNCHANGED port \/ pc["mon"][1] \in Round
           /\ real' = real \/ real' \in {"ADDED", "STASHED"}
  <1>1. "mon" \in Threads
    BY ThreadFacts
  <1>2. /\ Odd /\ UNCHANGED hw /\ status' = status
        /\ real' = real \/ real' \in {"ADDED", "STASHED"}
    BY DEF MonStep, MonBegin, MonCheck, MonCold, MonPower, MonError, MonSet, NotifSend, Send,
           Mark, Clear, AttrSet, Keep, jack, port
  <1>3. Moved("mon")
    <2>1. (\E s, a : Go("mon", s, a)) \/ Sent("mon")
      BY DEF MonStep, MonBegin, MonCheck, MonCold, MonPower, MonError, MonSet, NotifSend, Send,
             Mark, Clear, Done
    <2>2. CASE Sent("mon")
      BY <1>1, <2>2, SetsOff DEF Sent
    <2> QED
      BY <1>1, <2>1, <2>2, GoFacts
  <1>4. CASE MonBegin
    BY <1>2, <1>3, <1>4 DEF MonBegin, Active, OwnAttrs, Keep, jack
  <1>5. CASE MonCheck \/ MonCold \/ MonPower \/ MonError
    <2>1. pc["mon"][1] \in Round
      BY <1>5 DEF MonCheck, MonCold, MonPower, MonError, At, Round
    <2>2. state' = state \/ state' = "ERROR"
      BY <1>5 DEF MonCheck, MonCold, MonPower, MonError, Keep, jack
    <2> QED
      BY <1>2, <1>3, <2>1, <2>2
  <1>6. CASE MonSet \/ NotifSend("mon")
    <2>1. state' = state /\ UNCHANGED port
      BY <1>6 DEF MonSet, NotifSend, Send, Mark, Clear, Keep, jack
    <2>2. pc'["mon"][1] \in {"idle", "mark", "clear", "set"}
      <3>1. \/ \E s \in {"idle", "mark", "clear"}, a \in {"", About("mon")} : Go("mon", s, a)
            \/ Sent("mon")
        BY <1>6 DEF MonSet, NotifSend, Send, Mark, Clear, Done
      <3>2. CASE Sent("mon")
        <4>1. pc'["mon"] = <<"set", About("mon")>>
          BY <1>1, <3>2, SetsOff DEF Sent
        <4> QED
          BY <4>1
      <3>3. CASE \E s \in {"idle", "mark", "clear"}, a \in {"", About("mon")} : Go("mon", s, a)
        <4>1. pc'["mon"][1] \in {"idle", "mark", "clear"}
          BY <1>1, <3>3, GoesTo
        <4> QED
          BY <4>1
      <3> QED
        BY <3>1, <3>2, <3>3
    <2> QED
      BY <1>2, <1>3, <2>1, <2>2 DEF Round
  <1> QED
    BY <1>4, <1>5, <1>6 DEF MonStep

(* The fake cables, the client and the link know nothing of the jack's state. *)
Outside == \/ FakeStep \/ FakeSet \/ FakeClr
           \/ NewGroup \/ Register \/ Unregister \/ ClientStep
           \/ LinkShift \/ LinkOff \/ LinkStep

LEMMA OutsideEffect ==
    ASSUME CableInv, Outside
    PROVE  /\ Odd /\ UNCHANGED <<hw, jack>>
           /\ \A t \in {"scan", "event", "mon"} : pc'[t] = pc[t]
           /\ \/ UNCHANGED port
              \/ real = "REMOVED" /\ real' = "REMOVED" /\ attr' \in {"fake", "none"}
              \/ real # "REMOVED" /\ real' # "REMOVED"
  <1>1. {"mon", "scan", "event", "fake", "client", "link"} \subseteq Threads
    BY ThreadFacts
  <1>2. ASSUME NEW t \in {"fake", "client", "link"}, Moved(t)
        PROVE  \A u \in {"scan", "event", "mon"} : pc'[u] = pc[u]
    BY <1>1, <1>2 DEF Moved
  <1>3. CASE FakeStep
    <2>1. (\E s, a : Go("fake", s, a)) /\ Odd /\ UNCHANGED <<hw, jack, port>>
      BY <1>3 DEF FakeStep, FakeSetLook, FakeSend, FakeClrLook, Done, Keep
    <2>2. Moved("fake")
      BY <1>1, <2>1, GoFacts
    <2> QED
      BY <1>2, <2>1, <2>2
  <1>4. CASE FakeSet \/ FakeClr
    <2>1. (\E s, a : Go("fake", s, a)) /\ Odd /\ UNCHANGED <<hw, jack>>
      BY <1>4 DEF FakeSet, FakeClr, Keep
    <2>2. Moved("fake")
      BY <1>1, <2>1, GoFacts
    <2>3. \/ real = "REMOVED" /\ real' = "REMOVED" /\ attr' \in {"fake", "none"}
          \/ real # "REMOVED" /\ real' # "REMOVED"
      BY <1>4 DEF FakeSet, FakeClr
    <2> QED
      BY <1>2, <2>1, <2>2, <2>3
  <1>5. CASE NewGroup
    BY <1>5 DEF NewGroup, Keep
  <1>6. CASE Register \/ Unregister \/ ClientStep
    <2>1. (\E s, a : Go("client", s, a)) \/ Sent("client")
      BY <1>6 DEF Register, Unregister, ClientStep, RegisterCable, RegisterLevel,
                  RegisterCheck, FlagsClr, NotifSend, Send, Mark, Clear, Done
    <2>2. Odd /\ UNCHANGED <<hw, jack, port>>
      BY <1>6 DEF Register, Unregister, ClientStep, RegisterCable, RegisterLevel,
                  RegisterCheck, FlagsClr, NotifSend, Send, Mark, Clear, Keep
    <2>3. Moved("client")
      <3>1. CASE Sent("client")
        BY <1>1, <3>1, SetsOff DEF Sent
      <3> QED
        BY <1>1, <2>1, <3>1, GoFacts
    <2> QED
      BY <1>2, <2>2, <2>3
  <1>7. CASE LinkShift \/ LinkOff \/ LinkStep
    <2>1. Odd /\ UNCHANGED <<hw, jack, port>>
      BY <1>7 DEF LinkShift, LinkOff, LinkStep, Shifting, LowPower, Keep
    <2>2. (\E s, a : Go("link", s, a)) \/ UNCHANGED pc
      BY <1>7 DEF LinkShift, LinkOff, LinkStep, Shifting, LowPower, Done
    <2>3. CASE \E s, a : Go("link", s, a)
      <3>1. Moved("link")
        BY <1>1, <2>3, GoFacts
      <3> QED
        BY <1>2, <2>1, <3>1
    <2> QED
      BY <2>1, <2>2, <2>3
  <1> QED
    BY <1>3, <1>4, <1>5, <1>6, <1>7 DEF Outside

(* The cable itself *)
LEMMA CableEffect ==
    ASSUME Cable
    PROVE  /\ Odd /\ UNCHANGED <<pc, jack, port, listening>>
           /\ \/ plugged /\ ~plugged' /\ events' = (IF listening THEN events \o <<"remove">> ELSE events)
              \/ /\ ~plugged /\ plugged'
                 /\ events' = IF listening THEN events \o <<"insert", "online">> ELSE events
              \/ /\ plugged /\ plugged'
                 /\ events' = IF listening THEN events \o <<"offline">> ELSE events
              \/ UNCHANGED <<plugged, events>>
  <1>1. CASE Plug
    BY <1>1 DEF Plug, Report, Keep, Odd, jack, port
  <1>2. CASE Offline
    BY <1>2 DEF Offline, Report, Keep, Odd, jack, port
  <1>3. CASE Heat
    BY <1>3 DEF Heat, Keep, Odd, jack, port
  <1> QED
    BY <1>1, <1>2, <1>3 DEF Cable

LEMMA StepKinds ==
    [Next]_vars =>
        \/ OnlineStep("scan") \/ OnlineStep("event")
        \/ Scan \/ Listen \/ ScanAgain \/ ScanBlind \/ Verify
        \/ EventServe \/ AttrClr \/ AttrClrLook \/ AttrClrSend \/ EventRemoved
        \/ MonStep \/ Outside \/ Cable \/ UNCHANGED vars
  BY DEF Next, ThreadStep, Calls, ScanStep, EventStep, Outside

LEMMA LabelNext == CableInv /\ LabelInv /\ [Next]_vars => LabelInv'
  <1> SUFFICES ASSUME CableInv, LabelInv, [Next]_vars PROVE LabelInv'
    OBVIOUS
  <1>1. {"mon", "scan", "event"} \subseteq Threads
    BY ThreadFacts
  <1>2. CASE OnlineStep("scan") \/ OnlineStep("event")
    <2>1. PICK t \in {"scan", "event"} : OnlineStep(t)
      BY <1>2
    <2>2. /\ Moved(t) /\ UNCHANGED <<listening, events>>
          /\ pc[t][1] \in OnlineLabels /\ pc'[t][1] \in OnlineLabels \cup {"idle"}
      BY <2>1, OnlineEffect DEF hw
    <2>3. pc'["scan"] = pc["scan"] \/ pc'["event"] = pc["event"]
      BY <1>1, <2>2 DEF Moved
    <2> QED
      BY <1>1, <2>2, LabelSets DEF LabelInv, Moved, ScanLabels, OnlineLabels
  <1>3. CASE Scan \/ Listen \/ ScanAgain \/ ScanBlind \/ Verify
    <2>1. /\ Moved("scan") /\ events' = events
          /\ pc'["scan"][1] \in {"online", "idle", "blind", "again", "verify", "relock"}
          /\ listening => listening' = TRUE
      BY <1>3, ScanEffect
    <2>2. pc'["event"] = pc["event"]
      BY <1>1, <2>1 DEF Moved
    <2> QED
      BY <2>1, <2>2 DEF LabelInv, OnlineLabels, ScanLabels
  <1>4. CASE EventServe
    <2>1. /\ UNCHANGED listening /\ pc'["scan"] = pc["scan"]
          /\ pc'["event"][1] \in {"online", "clr", "idle"}
          /\ \E n : n \in 1..Len(events)
      BY <1>1, <1>4, ServeEffect
    <2>2. events # <<>>
      BY <2>1
    <2> QED
      BY <2>1, <2>2 DEF LabelInv, OnlineLabels, Removal
  <1>5. CASE AttrClr \/ AttrClrLook \/ AttrClrSend \/ EventRemoved
    <2>1. /\ Moved("event") /\ UNCHANGED <<listening, events>>
          /\ pc["event"][1] \in Removal /\ pc'["event"][1] \in Removal \cup {"idle"}
      BY <1>5, RemovalEffect DEF hw
    <2>2. pc'["scan"] = pc["scan"]
      BY <1>1, <2>1 DEF Moved
    <2> QED
      BY <2>1, <2>2, LabelSets DEF LabelInv
  <1>6. CASE MonStep \/ Outside \/ Cable \/ UNCHANGED vars
    <2>1. /\ UNCHANGED <<listening, pc["scan"], pc["event"]>>
          /\ ~listening => events' = events
      <3>1. CASE MonStep
        BY <1>1, <3>1, MonEffect DEF Moved, hw
      <3>2. CASE Outside
        BY <3>2, OutsideEffect DEF hw
      <3>3. CASE Cable
        BY <3>3, CableEffect
      <3>4. CASE UNCHANGED vars
        BY <3>4 DEF vars, hw
      <3> QED
        BY <1>6, <3>1, <3>2, <3>3, <3>4
    <2> QED
      BY <2>1 DEF LabelInv
  <1> QED
    BY <1>2, <1>3, <1>4, <1>5, <1>6, StepKinds

-----------------------------------------------------------------------------
(* Nobody crossed a removal, the scan could read the jack, and no event that *)
(* matters was lost.  Then a removal has the jack for itself, and what is   *)
(* known of the state and of the real cable fits together.                   *)
ApartInv == Good =>
    /\ pc["scan"][1] # "blind"
    /\ pc["event"][1] \in Removal =>
          pc["scan"][1] \notin OnlineLabels \cup {"verify"} /\ pc["mon"][1] \notin Round
    /\ \A t \in {"scan", "event"} :
          /\ pc[t][1] \in Late => state # "REMOVED"
          /\ pc[t][1] \in {"present", "finish"} => real # "REMOVED"
    /\ pc["event"][1] \in Removal \ {"clr", "wipe"} => real = "REMOVED"
    /\ real = "REMOVED" => attr \notin OwnAttrs /\ pc["mon"][1] \notin Round
    /\ state = "REMOVED" => real = "REMOVED"
    /\ state = "ONLINE" /\ real = "REMOVED" => pc["event"][1] \in Removal

LEMMA GoodFacts ==
    ASSUME Odd, Good'
    PROVE  /\ Good /\ pc'["scan"][1] # "blind"
           /\ pc'["event"][1] \in Removal =>
                 pc'["scan"][1] \notin OnlineLabels \cup {"verify"} /\ pc'["mon"][1] \notin Round
  <1>1. Good /\ pc'["scan"][1] # "blind" /\ ~Crossing
    BY DEF Odd, Good
  <1> QED
    BY <1>1 DEF Crossing, Onlining, Removal, OnlineLabels, Round

LEMMA ApartOnline ==
    ASSUME CableInv, LabelInv, ApartInv, NEW t \in {"scan", "event"}, OnlineStep(t)
    PROVE  ApartInv'
  <1> SUFFICES ASSUME Good' PROVE ApartInv'
    BY DEF ApartInv
  <1>1. {"mon", "scan", "event"} \subseteq Threads
    BY ThreadFacts
  <1>2. /\ Moved(t) /\ Odd /\ pc[t][1] \in OnlineLabels
        /\ pc'[t][1] \in OnlineLabels \cup {"idle"}
        /\ \/ state' = state \/ state' \in {"GOING_ONLINE", "ERROR"}
           \/ state' = "ONLINE" /\ pc[t][1] = "finish"
        /\ pc'[t][1] \in Late => pc[t][1] \in Late \/ state' = "GOING_ONLINE"
        /\ pc'[t][1] \in {"present", "finish"} =>
              pc[t][1] \in {"present", "finish"} \/ real' # "REMOVED"
        /\ \/ UNCHANGED <<real, attr>>
           \/ pc[t][1] = "store" /\ real' # "REMOVED"
    BY OnlineEffect DEF port
  <1>3. /\ Good /\ pc'["scan"][1] # "blind"
        /\ pc'["event"][1] \in Removal =>
              pc'["scan"][1] \notin OnlineLabels \cup {"verify"} /\ pc'["mon"][1] \notin Round
    BY <1>2, GoodFacts
  <1>4. pc'["mon"] = pc["mon"] /\ \A u \in {"scan", "event"} : u # t => pc'[u] = pc[u]
    BY <1>1, <1>2 DEF Moved
  <1>5. /\ pc["event"][1] \notin Removal /\ pc'["event"][1] \notin Removal
    <2>1. CASE t = "event"
      BY <1>2, <2>1, LabelSets
    <2>2. CASE t = "scan"
      BY <1>2, <1>3, <1>4, <2>2 DEF ApartInv
    <2> QED
      BY <2>1, <2>2
  <1>6. \A u \in {"scan", "event"} : pc'[u][1] \in Late => state' # "REMOVED"
    BY <1>2, <1>3, <1>4 DEF ApartInv
  <1>7. \A u \in {"scan", "event"} : pc'[u][1] \in {"present", "finish"} => real' # "REMOVED"
    BY <1>2, <1>3, <1>4 DEF ApartInv
  <1>8. real' = "REMOVED" => attr' \notin OwnAttrs /\ pc'["mon"][1] \notin Round
    BY <1>2, <1>3, <1>4 DEF ApartInv
  <1>9. state' = "REMOVED" => real' = "REMOVED"
    BY <1>2, <1>3, LabelSets DEF ApartInv
  <1>10. ~(state' = "ONLINE" /\ real' = "REMOVED")
    BY <1>2, <1>3, <1>5 DEF ApartInv
  <1> QED
    BY <1>3, <1>5, <1>6, <1>7, <1>8, <1>9, <1>10 DEF ApartInv

(* A step that leaves the port and the state alone, and brings nobody into   *)
(* the middle of a bring-up or a removal                                     *)
LEMMA ApartKept ==
    ASSUME ApartInv, Odd, UNCHANGED <<real, attr>>,
           state' = state \/ state' \in {"GOING_ONLINE", "ERROR", "INSERTED"},
           \A t \in {"scan", "event"} : pc'[t] = pc[t] \/ pc'[t][1] \notin Late,
           pc'["event"][1] \in Removal \ {"clr", "wipe"} =>
              pc["event"][1] \in Removal \ {"clr", "wipe"},
           pc["event"][1] \in Removal => pc'["event"][1] \in Removal,
           pc'["mon"][1] \in Round => pc["mon"][1] \in Round \/ real # "REMOVED"
    PROVE  ApartInv'
  <1> SUFFICES ASSUME Good' PROVE ApartInv'
    BY DEF ApartInv
  <1>1. /\ Good /\ pc'["scan"][1] # "blind"
        /\ pc'["event"][1] \in Removal =>
              pc'["scan"][1] \notin OnlineLabels \cup {"verify"} /\ pc'["mon"][1] \notin Round
    BY GoodFacts
  <1>2. \A t \in {"scan", "event"} : /\ pc'[t][1] \in Late => state' # "REMOVED"
                                    /\ pc'[t][1] \in {"present", "finish"} => real' # "REMOVED"
    BY <1>1, LabelSets DEF ApartInv
  <1> QED
    BY <1>1, <1>2 DEF ApartInv

LEMMA ApartScan ==
    ASSUME CableInv, LabelInv, ApartInv, Scan \/ Listen \/ ScanAgain \/ ScanBlind \/ Verify
    PROVE  ApartInv'
  <1>1. {"mon", "scan", "event"} \subseteq Threads
    BY ThreadFacts
  <1>2. /\ Moved("scan") /\ Odd /\ state' = state
        /\ pc'["scan"][1] \in {"online", "idle", "blind", "again", "verify", "relock"}
        /\ pc["scan"][1] # "blind" => UNCHANGED <<real, attr>>
    BY ScanEffect DEF port
  <1>3. pc'["mon"] = pc["mon"] /\ pc'["event"] = pc["event"]
    BY <1>1, <1>2 DEF Moved
  <1>4. pc'["scan"][1] \notin Late
    BY <1>2 DEF Late, OnlineLabels
  <1>5. CASE pc["scan"][1] # "blind"
    BY <1>2, <1>3, <1>4, <1>5, ApartKept
  <1>6. CASE pc["scan"][1] = "blind"
    <2>1. ~Good
      BY <1>6 DEF ApartInv
    <2> QED
      BY <1>2, <2>1, GoodFacts DEF ApartInv
  <1> QED
    BY <1>5, <1>6

LEMMA ApartServe ==
    ASSUME CableInv, LabelInv, ApartInv, EventServe
    PROVE  ApartInv'
  <1>1. {"mon", "scan", "event"} \subseteq Threads
    BY ThreadFacts
  <1>2. /\ Odd /\ UNCHANGED <<real, attr, pc["scan"], pc["mon"]>>
        /\ pc["event"][1] = "idle"
        /\ pc'["event"][1] \in {"online", "clr", "idle"}
        /\ state' = state \/ state' \in {"GOING_ONLINE", "ERROR", "INSERTED"}
    <2>1. /\ Odd /\ UNCHANGED port /\ pc["event"][1] = "idle"
          /\ \A u \in Threads : u # "event" => pc'[u] = pc[u]
      BY ServeEffect
    <2>2. pc'["event"][1] \in {"online", "clr", "idle"}
      BY ServeEffect
    <2>3. state' = state \/ state' \in {"GOING_ONLINE", "ERROR", "INSERTED"}
      BY ServeEffect
    <2> QED
      BY <1>1, <2>1, <2>2, <2>3 DEF port
  <1> QED
    BY <1>2, ApartKept DEF Late, OnlineLabels, Removal

LEMMA ApartRemoval ==
    ASSUME CableInv, LabelInv, ApartInv, AttrClr \/ AttrClrLook \/ AttrClrSend \/ EventRemoved
    PROVE  ApartInv'
  <1> SUFFICES ASSUME Good' PROVE ApartInv'
    BY DEF ApartInv
  <1>1. {"mon", "scan", "event"} \subseteq Threads
    BY ThreadFacts
  <1>2. /\ Moved("event") /\ Odd
        /\ pc["event"][1] \in Removal /\ pc'["event"][1] \in Removal \cup {"idle"}
        /\ pc["event"][1] # "wipe" => UNCHANGED <<real, attr>>
        /\ pc["event"][1] = "clr" => pc'["event"][1] = "wipe"
        /\ pc'["event"][1] = "wipe" => pc["event"][1] = "clr"
        /\ pc["event"][1] = "wipe" =>
              real' = "REMOVED" /\ attr' = (IF real = "ADDED" THEN "none" ELSE attr)
        /\ pc'["event"][1] = "idle" => pc["event"][1] = "removed" /\ state' = "REMOVED"
        /\ pc'["event"][1] # "idle" => state' = state
    BY RemovalEffect DEF port
  <1>3. /\ Good /\ pc'["scan"][1] # "blind"
        /\ pc'["event"][1] \in Removal =>
              pc'["scan"][1] \notin OnlineLabels \cup {"verify"} /\ pc'["mon"][1] \notin Round
    BY <1>2, GoodFacts
  <1>4. pc'["mon"] = pc["mon"] /\ pc'["scan"] = pc["scan"]
    BY <1>1, <1>2 DEF Moved
  <1>5. pc["scan"][1] \notin OnlineLabels /\ pc["mon"][1] \notin Round
    BY <1>2, <1>3 DEF ApartInv
  <1>6. \A t \in {"scan", "event"} : pc'[t][1] \notin Late \cup {"present", "finish"}
    BY <1>2, <1>4, <1>5, LabelSets
  <1>7. pc'["event"][1] # "wipe" => real' = "REMOVED"
    BY <1>2, <1>3 DEF ApartInv
  <1>8. real' = "REMOVED" => attr' \notin OwnAttrs
    <2>1. CASE pc["event"][1] # "wipe"
      BY <1>2, <1>3, <2>1 DEF ApartInv
    <2>2. CASE pc["event"][1] = "wipe" /\ real = "ADDED"
      BY <1>2, <2>2 DEF OwnAttrs
    <2>3. CASE pc["event"][1] = "wipe" /\ real = "STASHED"
      <3>1. attr = "fake"
        BY <2>3 DEF CableInv, PortInv
      <3> QED
        BY <1>2, <2>3, <3>1 DEF OwnAttrs
    <2>4. CASE pc["event"][1] = "wipe" /\ real = "REMOVED"
      BY <1>2, <1>3, <2>4 DEF ApartInv
    <2>5. real \in {"REMOVED", "ADDED", "STASHED"}
      BY DEF CableInv, PortInv
    <2> QED
      BY <2>1, <2>2, <2>3, <2>4, <2>5
  <1>9. state' = "ONLINE" => pc'["event"][1] \in Removal
    BY <1>2
  <1>10. state' = "REMOVED" => real' = "REMOVED"
    BY <1>2, <1>3, <1>7 DEF ApartInv
  <1> QED
    BY <1>3, <1>4, <1>5, <1>6, <1>7, <1>8, <1>9, <1>10 DEF ApartInv

LEMMA ApartMon ==
    ASSUME CableInv, LabelInv, ApartInv, MonStep
    PROVE  ApartInv'
  <1> SUFFICES ASSUME Good' PROVE ApartInv'
    BY DEF ApartInv
  <1>1. {"mon", "scan", "event"} \subseteq Threads
    BY ThreadFacts
  <1>2. /\ Moved("mon") /\ Odd
        /\ state' = state \/ (state' = "ERROR" /\ pc["mon"][1] \in Round)
        /\ pc'["mon"][1] \in Round =>
              pc["mon"][1] \in Round \/ (attr \in OwnAttrs /\ UNCHANGED <<real, attr>>)
        /\ UNCHANGED <<real, attr>> \/ pc["mon"][1] \in Round
        /\ real' = real \/ real' \in {"ADDED", "STASHED"}
    BY MonEffect DEF port
  <1>3. pc'["event"] = pc["event"] /\ pc'["scan"] = pc["scan"]
    BY <1>1, <1>2 DEF Moved
  <1>4. Good
    BY <1>2, GoodFacts
  <1>5. CASE UNCHANGED <<real, attr>>
    <2>1. pc'["mon"][1] \in Round => pc["mon"][1] \in Round \/ real # "REMOVED"
      BY <1>2, <1>4 DEF ApartInv
    <2> QED
      BY <1>2, <1>3, <1>5, <2>1, ApartKept
  <1>6. CASE pc["mon"][1] \in Round
    <2>1. real # "REMOVED" /\ pc["event"][1] \notin Removal /\ state # "REMOVED"
      BY <1>4, <1>6 DEF ApartInv
    <2>2. real' # "REMOVED" /\ state' # "REMOVED"
      BY <1>2, <2>1
    <2>3. pc'["scan"][1] # "blind"
      BY <1>2, GoodFacts
    <2> QED
      BY <1>3, <2>1, <2>2, <2>3 DEF ApartInv
  <1> QED
    BY <1>2, <1>5, <1>6

LEMMA ApartOthers ==
    ASSUME CableInv, LabelInv, ApartInv, Outside \/ Cable \/ UNCHANGED vars
    PROVE  ApartInv'
  <1>1. CASE Outside
    <2>1. /\ Odd /\ UNCHANGED state
          /\ \A t \in {"scan", "event", "mon"} : pc'[t] = pc[t]
          /\ \/ UNCHANGED <<real, attr>>
             \/ real = "REMOVED" /\ real' = "REMOVED" /\ attr' \in {"fake", "none"}
             \/ real # "REMOVED" /\ real' # "REMOVED"
      BY <1>1, OutsideEffect DEF port, jack
    <2> SUFFICES ASSUME Good' PROVE ApartInv'
      BY DEF ApartInv
    <2>2. /\ Good /\ pc'["scan"][1] # "blind"
      BY <2>1, GoodFacts
    <2>3. real' = "REMOVED" => attr' \notin OwnAttrs
      BY <2>1, <2>2 DEF ApartInv, OwnAttrs
    <2>4. real' = "REMOVED" <=> real = "REMOVED"
      BY <2>1
    <2> QED
      BY <2>1, <2>2, <2>3, <2>4 DEF ApartInv
  <1>2. CASE Cable
    BY <1>2, CableEffect, ApartKept DEF jack, port
  <1>3. CASE UNCHANGED vars
    BY <1>3 DEF vars, jack, port, ApartInv, Good
  <1> QED
    BY <1>1, <1>2, <1>3

LEMMA ApartNext == CableInv /\ LabelInv /\ ApartInv /\ [Next]_vars => ApartInv'
  BY StepKinds, ApartOnline, ApartScan, ApartServe, ApartRemoval, ApartMon, ApartOthers

-----------------------------------------------------------------------------
(* What the notifier has not served yet, against the cable                   *)
QueueInv ==
    /\ Paired(events)
    /\ Good /\ listening =>
          /\ ~plugged => Leaving(events) \/ (events = <<>> /\ pc["event"][1] \notin OnlineLabels)
          /\ plugged => Coming(events) \/ (NoRemoval(events) /\ pc["event"][1] \notin Removal)

LEMMA QueueNext == CableInv /\ LabelInv /\ QueueInv /\ [Next]_vars => QueueInv'
  <1> SUFFICES ASSUME CableInv, LabelInv, QueueInv, [Next]_vars PROVE QueueInv'
    OBVIOUS
  <1>1. {"mon", "scan", "event"} \subseteq Threads
    BY ThreadFacts
  <1>0. Odd /\ Good' => Good
    BY GoodFacts
  <1>2. ASSUME UNCHANGED <<plugged, listening, events>>, Good' => Good,
               pc'["event"][1] \in OnlineLabels => pc["event"][1] \in OnlineLabels,
               pc'["event"][1] \in Removal => pc["event"][1] \in Removal
        PROVE  QueueInv'
    BY <1>2 DEF QueueInv
  <1>3. CASE OnlineStep("scan") \/ OnlineStep("event")
    <2>1. PICK t \in {"scan", "event"} : OnlineStep(t)
      BY <1>3
    <2>2. /\ Moved(t) /\ UNCHANGED <<plugged, listening, events>> /\ (Good' => Good)
          /\ pc[t][1] \in OnlineLabels /\ pc'[t][1] \in OnlineLabels \cup {"idle"}
      BY <1>0, <2>1, OnlineEffect DEF hw
    <2>3. CASE t = "scan"
      BY <1>1, <1>2, <2>2, <2>3 DEF Moved
    <2>4. CASE t = "event"
      BY <1>2, <2>2, <2>4, LabelSets
    <2> QED
      BY <2>3, <2>4
  <1>4. CASE Scan \/ Listen \/ ScanAgain \/ ScanBlind \/ Verify
    <2>1. /\ Moved("scan") /\ UNCHANGED <<plugged, events>> /\ (Good' => Good)
          /\ listening => listening' = TRUE
      BY <1>0, <1>4, ScanEffect
    <2>2. pc'["event"] = pc["event"]
      BY <1>1, <2>1 DEF Moved
    <2>3. CASE listening
      BY <2>1, <2>2, <2>3 DEF QueueInv
    <2>4. CASE ~listening
      <3>1. events' = <<>> /\ pc'["event"][1] = "idle"
        BY <2>1, <2>2, <2>4 DEF LabelInv
      <3>2. Paired(events') /\ NoRemoval(events')
        BY <3>1, EmptyQueue
      <3> QED
        BY <3>1, <3>2, LabelSets DEF QueueInv
    <2> QED
      BY <2>3, <2>4
  <1>5. CASE EventServe
    <2>1. /\ UNCHANGED <<listening, plugged>> /\ (Good' => Good) /\ Paired(events)
          /\ pc["event"][1] = "idle" /\ pc'["event"][1] \in {"idle", "online", "clr"}
      BY <1>0, <1>5, ServeEffect DEF QueueInv
    <2>2. PICK n \in 1..Len(events) :
             /\ events' = Rest(events, n)
             /\ Good' => /\ "remove" \in Word(events, n) => pc'["event"][1] = "clr"
                         /\ "online" \in Word(events, n) => pc'["event"][1] = "online"
             /\ pc'["event"][1] = "clr" => "remove" \in Word(events, n)
      BY <1>5, <2>1, ServeEffect
    <2>3. /\ Leaving(events) =>
                Leaving(events') \/ (events' = <<>> /\ "remove" \in Word(events, n))
          /\ Coming(events) =>
                Coming(events') \/ ("online" \in Word(events, n) /\ NoRemoval(events'))
          /\ NoRemoval(events) => NoRemoval(events') /\ "remove" \notin Word(events, n)
      BY <2>1, <2>2, Served
    <2>6. Paired(events')
      BY <2>1, <2>2, Served
    <2>4. ASSUME Good', listening', ~plugged'
          PROVE  Leaving(events') \/ (events' = <<>> /\ pc'["event"][1] \notin OnlineLabels)
      <3>1. Leaving(events)
        BY <2>1, <2>2, <2>4 DEF QueueInv
      <3>2. CASE events' = <<>> /\ "remove" \in Word(events, n)
        <4>1. pc'["event"][1] = "clr"
          BY <2>2, <2>4, <3>2
        <4> QED
          BY <3>2, <4>1, LabelSets
      <3> QED
        BY <2>3, <3>1, <3>2
    <2>5. ASSUME Good', listening', plugged'
          PROVE  Coming(events') \/ (NoRemoval(events') /\ pc'["event"][1] \notin Removal)
      <3>1. CASE Coming(events')
        BY <3>1
      <3>2. CASE "online" \in Word(events, n) /\ NoRemoval(events')
        <4>1. pc'["event"][1] = "online"
          BY <2>2, <2>5, <3>2
        <4> QED
          BY <3>2, <4>1, LabelSets
      <3>3. CASE NoRemoval(events)
        <4>1. NoRemoval(events') /\ pc'["event"][1] \in {"idle", "online"}
          BY <2>1, <2>2, <2>3, <3>3
        <4> QED
          BY <4>1, LabelSets
      <3> QED
        BY <2>1, <2>3, <2>5, <3>1, <3>2, <3>3 DEF QueueInv
    <2> QED
      BY <2>4, <2>5, <2>6 DEF QueueInv
  <1>6. CASE AttrClr \/ AttrClrLook \/ AttrClrSend \/ EventRemoved
    <2>1. /\ Moved("event") /\ UNCHANGED <<plugged, listening, events>> /\ (Good' => Good)
          /\ pc["event"][1] \in Removal /\ pc'["event"][1] \in Removal \cup {"idle"}
      BY <1>0, <1>6, RemovalEffect DEF hw
    <2> QED
      BY <1>2, <2>1, LabelSets
  <1>7. CASE MonStep \/ Outside \/ UNCHANGED vars
    <2>1. UNCHANGED <<plugged, listening, events, pc["event"]>> /\ (Good' => Good)
      <3>1. CASE MonStep
        BY <1>0, <1>1, <3>1, MonEffect DEF Moved, hw
      <3>2. CASE Outside
        BY <1>0, <3>2, OutsideEffect DEF hw
      <3>3. CASE UNCHANGED vars
        BY <3>3 DEF vars, hw, Good
      <3> QED
        BY <1>7, <3>1, <3>2, <3>3
    <2> QED
      BY <1>2, <2>1
  <1>8. CASE Cable
    <2>1. UNCHANGED <<pc, listening>> /\ (Good' => Good)
      BY <1>0, <1>8, CableEffect
    <2>2. CASE ~listening
      <3>1. events' = events
        BY <1>8, <2>2, CableEffect
      <3> QED
        BY <2>1, <2>2, <3>1 DEF QueueInv
    <2>3. CASE listening /\ plugged /\ ~plugged' /\ events' = events \o <<"remove">>
      BY <2>1, <2>3, AppendOne DEF QueueInv
    <2>4. CASE listening /\ ~plugged /\ plugged' /\ events' = events \o <<"insert", "online">>
      BY <2>1, <2>4, AppendInsert DEF QueueInv
    <2>5. CASE listening /\ plugged /\ plugged' /\ events' = events \o <<"offline">>
      BY <2>1, <2>5, AppendOne DEF QueueInv
    <2>6. CASE UNCHANGED <<plugged, events>>
      BY <1>2, <2>1, <2>6
    <2> QED
      BY <1>8, <2>2, <2>3, <2>4, <2>5, <2>6, CableEffect
  <1> QED
    BY <1>3, <1>4, <1>5, <1>6, <1>7, <1>8, StepKinds

(* What the jack knows, or who is about to find out                          *)
SettleInv == Good /\ listening =>
    /\ ~plugged =>
          \/ Leaving(events)
          \/ pc["event"][1] \in Removal
          \/ pc["scan"][1] \in {"again", "relock"}
          \/ pc["scan"][1] = "verify" /\ ~status
          \/ pc["scan"][1] = "idle" /\ state = "REMOVED"
    /\ plugged =>
          \/ Coming(events)
          \/ pc["event"][1] \in OnlineLabels
          \/ pc["scan"][1] \in OnlineLabels \cup {"again"}
          \/ pc["scan"][1] = "verify" /\ status
          \/ state \in {"ONLINE", "ERROR"}

LEMMA SettleNext ==
    CableInv /\ LabelInv /\ ApartInv /\ QueueInv /\ SettleInv /\ [Next]_vars => SettleInv'
  <1> SUFFICES ASSUME CableInv, LabelInv, ApartInv, QueueInv, SettleInv, [Next]_vars,
                      Good', listening'
               PROVE  /\ ~plugged' =>
                            \/ Leaving(events')
                            \/ pc'["event"][1] \in Removal
                            \/ pc'["scan"][1] \in {"again", "relock"}
                            \/ pc'["scan"][1] = "verify" /\ ~status'
                            \/ pc'["scan"][1] = "idle" /\ state' = "REMOVED"
                      /\ plugged' =>
                            \/ Coming(events')
                            \/ pc'["event"][1] \in OnlineLabels
                            \/ pc'["scan"][1] \in OnlineLabels \cup {"again"}
                            \/ pc'["scan"][1] = "verify" /\ status'
                            \/ state' \in {"ONLINE", "ERROR"}
    BY DEF SettleInv
  <1>1. {"mon", "scan", "event"} \subseteq Threads
    BY ThreadFacts
  <1>2. plugged \in BOOLEAN /\ status \in BOOLEAN
    BY DEF CableInv, RangeInv
  <1>3. CASE OnlineStep("scan") \/ OnlineStep("event")
    <2>1. PICK t \in {"scan", "event"} : OnlineStep(t)
      BY <1>3
    <2>2. /\ Moved(t) /\ Odd /\ UNCHANGED <<plugged, listening, events>>
          /\ pc[t][1] \in OnlineLabels /\ pc'[t][1] \in OnlineLabels \cup {"idle"}
          /\ pc'[t][1] = "idle" => \/ state' \in {"ONLINE", "ERROR"}
                                   \/ pc[t][1] = "look" /\ state = "REMOVED"
      BY <2>1, OnlineEffect DEF hw
    <2>3. Good
      BY <2>2, GoodFacts
    <2>4. ~(pc[t][1] = "look" /\ state = "REMOVED")
      BY <2>3, LabelSets DEF ApartInv
    <2>5. pc'[t][1] \in OnlineLabels \/ state' \in {"ONLINE", "ERROR"}
      BY <2>2, <2>4
    <2>6. ASSUME ~plugged' PROVE Leaving(events')
      <3>1. CASE t = "event"
        BY <2>2, <2>3, <2>6, <3>1 DEF QueueInv
      <3>2. CASE t = "scan"
        <4>1. pc["event"][1] \notin Removal
          BY <2>2, <2>3, <3>2 DEF ApartInv
        <4>2. pc["scan"][1] \notin {"again", "relock", "verify", "idle"}
          BY <2>2, <3>2 DEF OnlineLabels
        <4> QED
          BY <2>2, <2>3, <2>6, <4>1, <4>2 DEF SettleInv
      <3> QED
        BY <3>1, <3>2
    <2> QED
      BY <2>5, <2>6
  <1>4. CASE Scan \/ Listen \/ ScanAgain \/ ScanBlind \/ Verify
    <2>1. /\ Moved("scan") /\ Odd /\ UNCHANGED <<plugged, events, state>>
          /\ pc["scan"][1] \in ScanLabels
          /\ pc["scan"][1] = "scan" => listening' = listening
          /\ listening' # listening => pc'["scan"][1] = "again"
          /\ pc["scan"][1] = "again" =>
                \/ pc'["scan"][1] = "blind"
                \/ pc'["scan"][1] = "verify" /\ status' = plugged
          /\ pc["scan"][1] = "idle" => ~listening
          /\ pc["scan"][1] = "verify" =>
                /\ status' = status
                /\ ~status /\ state # "REMOVED" => pc'["scan"][1] = "relock"
                /\ ~status /\ state = "REMOVED" => pc'["scan"][1] = "idle"
                /\ status => \/ pc'["scan"][1] = "online"
                             \/ pc'["scan"][1] = "idle" /\ state = "ONLINE"
          /\ pc["scan"][1] # "relock"
      BY <1>4, ScanEffect
    <2>2. pc'["event"] = pc["event"]
      BY <1>1, <2>1 DEF Moved
    <2>3. Good /\ pc'["scan"][1] # "blind"
      BY <2>1, GoodFacts
    <2>4. CASE ~listening
      <3>1. pc'["scan"][1] = "again"
        BY <2>1, <2>4
      <3> QED
        BY <3>1
    <2>5. CASE listening /\ pc["scan"][1] = "again"
      BY <1>2, <2>1, <2>3, <2>5
    <2>6. CASE listening /\ pc["scan"][1] = "verify"
      <3>1. pc["event"][1] \notin Removal
        BY <2>3, <2>6 DEF ApartInv
      <3>2. ASSUME ~plugged', ~Leaving(events')
            PROVE  pc'["scan"][1] = "relock" \/ (pc'["scan"][1] = "idle" /\ state' = "REMOVED")
        <4>1. ~status
          BY <2>1, <2>3, <2>6, <3>1, <3>2 DEF SettleInv
        <4> QED
          BY <2>1, <2>6, <4>1
      <3>3. ASSUME plugged'
            PROVE  \/ Coming(events')
                   \/ pc'["event"][1] \in OnlineLabels
                   \/ pc'["scan"][1] \in OnlineLabels \cup {"again"}
                   \/ state' \in {"ONLINE", "ERROR"}
        <4>1. pc["scan"][1] \notin OnlineLabels \cup {"again"}
          BY <2>6 DEF OnlineLabels
        <4>2. CASE status
          BY <2>1, <2>6, <4>2, LabelSets
        <4>3. CASE ~status
          BY <2>1, <2>2, <2>3, <2>6, <3>3, <4>1, <4>3 DEF SettleInv
        <4> QED
          BY <4>2, <4>3
      <3> QED
        BY <3>2, <3>3
    <2>7. /\ pc["scan"][1] = "scan" => ~listening
          /\ pc["scan"][1] # "blind"
      <3>1. pc["scan"][1] # "blind"
        BY <2>3 DEF ApartInv
      <3>2. pc["scan"][1] = "scan" => ~listening
        BY DEF LabelInv
      <3> QED
        BY <3>1, <3>2
    <2> QED
      BY <2>1, <2>4, <2>5, <2>6, <2>7 DEF ScanLabels
  <1>5. CASE EventServe
    <2>1. /\ Odd /\ UNCHANGED <<plugged, listening, status>> /\ pc'["scan"] = pc["scan"]
          /\ pc["event"][1] = "idle" /\ pc'["event"][1] \in {"idle", "online", "clr"}
          /\ state' = state \/ state' \in {"INSERTED", "ERROR"}
      BY <1>1, <1>5, ServeEffect
    <2>2. Good /\ Paired(events)
      BY <2>1, GoodFacts DEF QueueInv
    <2>3. PICK n \in 1..Len(events) :
             /\ events' = Rest(events, n)
             /\ "remove" \in Word(events, n) => pc'["event"][1] = "clr"
             /\ "online" \in Word(events, n) => pc'["event"][1] = "online"
             /\ state' = "INSERTED" =>
                   \/ state' = state
                   \/ "insert" \in Word(events, n) /\ "online" \notin Word(events, n)
      BY <1>5, <2>2, ServeEffect
    <2>4. /\ events # <<>>
          /\ Leaving(events) =>
                Leaving(events') \/ (events' = <<>> /\ "remove" \in Word(events, n))
          /\ Coming(events) =>
                Coming(events') \/ ("online" \in Word(events, n) /\ NoRemoval(events'))
          /\ "insert" \in Word(events, n) /\ "online" \notin Word(events, n)
                /\ (Coming(events) \/ NoRemoval(events)) => Coming(events')
      BY <2>2, <2>3, Served
    <2>5. ASSUME ~plugged' PROVE Leaving(events') \/ pc'["event"][1] \in Removal
      <3>1. Leaving(events)
        BY <2>1, <2>2, <2>4, <2>5 DEF QueueInv
      <3>2. CASE "remove" \in Word(events, n)
        <4>1. pc'["event"][1] = "clr"
          BY <2>3, <3>2
        <4> QED
          BY <4>1, LabelSets
      <3> QED
        BY <2>4, <3>1, <3>2
    <2>6. ASSUME plugged'
          PROVE  \/ Coming(events')
                 \/ pc'["event"][1] \in OnlineLabels
                 \/ pc'["scan"][1] \in OnlineLabels \cup {"again"}
                 \/ pc'["scan"][1] = "verify" /\ status'
                 \/ state' \in {"ONLINE", "ERROR"}
      <3>1. Coming(events) \/ NoRemoval(events)
        BY <2>1, <2>2, <2>6 DEF QueueInv
      <3>2. CASE "online" \in Word(events, n)
        <4>1. pc'["event"][1] = "online"
          BY <2>3, <3>2
        <4> QED
          BY <4>1, LabelSets
      <3>3. CASE "insert" \in Word(events, n) /\ "online" \notin Word(events, n)
        BY <2>4, <3>1, <3>3
      <3>4. CASE Coming(events) /\ "online" \notin Word(events, n)
        BY <2>4, <3>4
      <3>5. CASE ~Coming(events) /\ (state' = state \/ state' = "ERROR")
        <4>1. pc["event"][1] \notin OnlineLabels
          BY <2>1, LabelSets
        <4> QED
          BY <2>1, <2>2, <2>6, <3>5, <4>1 DEF SettleInv
      <3> QED
        BY <2>1, <2>3, <3>2, <3>3, <3>4, <3>5
    <2> QED
      BY <2>5, <2>6
  <1>6. CASE AttrClr \/ AttrClrLook \/ AttrClrSend \/ EventRemoved
    <2>1. /\ Moved("event") /\ Odd /\ UNCHANGED <<plugged, listening, events>>
          /\ pc["event"][1] \in Removal /\ pc'["event"][1] \in Removal \cup {"idle"}
          /\ pc'["event"][1] = "idle" => state' = "REMOVED"
      BY <1>6, RemovalEffect DEF hw
    <2>2. Good
      BY <2>1, GoodFacts
    <2>3. pc'["scan"] = pc["scan"]
      BY <1>1, <2>1 DEF Moved
    <2>4. pc["scan"][1] \in {"idle", "again", "relock"}
      BY <2>1, <2>2 DEF ApartInv, LabelInv, ScanLabels
    <2>5. plugged => Coming(events)
      BY <2>1, <2>2 DEF QueueInv
    <2> QED
      BY <2>1, <2>3, <2>4, <2>5
  <1>7. CASE MonStep
    <2>1. /\ Moved("mon") /\ Odd /\ UNCHANGED <<plugged, listening, events, status>>
          /\ state' = state \/ (state' = "ERROR" /\ pc["mon"][1] \in Round)
      BY <1>7, MonEffect DEF hw
    <2>2. Good
      BY <2>1, GoodFacts
    <2>3. pc'["scan"] = pc["scan"] /\ pc'["event"] = pc["event"]
      BY <1>1, <2>1 DEF Moved
    <2>4. state = "REMOVED" => pc["mon"][1] \notin Round
      BY <2>2 DEF ApartInv
    <2>5. state = "REMOVED" => state' = "REMOVED"
      BY <2>1, <2>4
    <2>6. state \in {"ONLINE", "ERROR"} => state' \in {"ONLINE", "ERROR"}
      BY <2>1
    <2> QED
      BY <2>1, <2>2, <2>3, <2>5, <2>6 DEF SettleInv
  <1>8. CASE Outside \/ UNCHANGED vars
    <2>1. /\ UNCHANGED <<plugged, listening, events, status, state>>
          /\ pc'["scan"] = pc["scan"] /\ pc'["event"] = pc["event"]
          /\ Good
      <3>1. CASE Outside
        BY <3>1, OutsideEffect, GoodFacts DEF hw, jack
      <3>2. CASE UNCHANGED vars
        BY <3>2 DEF vars, hw, jack, Good
      <3> QED
        BY <1>8, <3>1, <3>2
    <2>2. Leaving(events') = Leaving(events) /\ Coming(events') = Coming(events)
      BY <2>1
    <2> QED
      BY <2>1, <2>2 DEF SettleInv
  <1>9. CASE Cable
    <2>1. Odd /\ UNCHANGED <<pc, listening, status, state>>
      BY <1>9, CableEffect DEF jack
    <2>2. Good
      BY <2>1, GoodFacts
    <2>3. CASE plugged /\ ~plugged' /\ events' = events \o <<"remove">>
      BY <2>3, AppendOne DEF QueueInv
    <2>4. CASE ~plugged /\ plugged' /\ events' = events \o <<"insert", "online">>
      BY <2>4, AppendInsert DEF QueueInv
    <2>5. CASE plugged /\ plugged' /\ events' = events \o <<"offline">>
      <3>1. Coming(events) => Coming(events')
        BY <2>5, AppendOne DEF QueueInv
      <3> QED
        BY <2>1, <2>2, <2>5, <3>1 DEF SettleInv
    <2>6. CASE UNCHANGED <<plugged, events>>
      BY <2>1, <2>2, <2>6 DEF SettleInv
    <2> QED
      BY <1>9, <2>1, <2>3, <2>4, <2>5, <2>6, CableEffect
  <1> QED
    BY <1>3, <1>4, <1>5, <1>6, <1>7, <1>8, <1>9, StepKinds

JackInv == LabelInv /\ ApartInv /\ QueueInv /\ SettleInv

LEMMA JackInvInit == Init => JackInv
  <1> SUFFICES ASSUME Init PROVE JackInv
    OBVIOUS
  <1>1. pc["scan"][1] = "scan" /\ pc["event"][1] = "idle" /\ pc["mon"][1] = "idle"
    BY ThreadFacts DEF Init
  <1>2. ~listening /\ events = <<>> /\ state = "REMOVED" /\ real = "REMOVED" /\ attr = "none"
    BY DEF Init
  <1>3. LabelInv
    BY <1>1, <1>2 DEF LabelInv, ScanLabels
  <1>4. ApartInv
    BY <1>1, <1>2 DEF ApartInv, Removal, Late, OnlineLabels, Round, OwnAttrs
  <1>5. QueueInv
    BY <1>2, EmptyQueue DEF QueueInv
  <1>6. SettleInv
    BY <1>2 DEF SettleInv
  <1> QED
    BY <1>3, <1>4, <1>5, <1>6 DEF JackInv

(* Whatever was plugged and pulled, however the scan, the notifier and the   *)
(* monitor met: once all was served, the jack is online or in error with a   *)
(* cable and removed without, and a cable that is online has its attributes. *)
THEOREM SettledAlways == Spec => []Settled
  <1>1. Init => JackInv
    BY JackInvInit
  <1>2. CableInv /\ JackInv /\ [Next]_vars => JackInv'
    BY LabelNext, ApartNext, QueueNext, SettleNext DEF JackInv
  <1>3. CableInv /\ JackInv => Settled
    <2> SUFFICES ASSUME CableInv, JackInv, AtRest, odd \cap {"crossed", "unread", "lost"} = {}
                 PROVE  /\ plugged => state \in {"ONLINE", "ERROR"}
                        /\ ~plugged => state = "REMOVED" /\ real = "REMOVED"
                        /\ state = "ONLINE" => real # "REMOVED"
      BY DEF Settled
    <2>1. /\ pc["scan"][1] = "idle" /\ pc["event"][1] = "idle"
          /\ listening /\ events = <<>> /\ Good
      BY ThreadFacts DEF AtRest, Scanned, Idle, At, Good
    <2>2. ~Leaving(events) /\ ~Coming(events)
      BY <2>1 DEF Leaving, Coming
    <2>3. pc["event"][1] \notin Removal \cup OnlineLabels /\ pc["scan"][1] \notin OnlineLabels
      BY <2>1, LabelSets
    <2>4. plugged => state \in {"ONLINE", "ERROR"}
      BY <2>1, <2>2, <2>3 DEF JackInv, SettleInv
    <2>5. ~plugged => state = "REMOVED"
      BY <2>1, <2>2, <2>3 DEF JackInv, SettleInv
    <2> QED
      BY <2>1, <2>3, <2>4, <2>5 DEF JackInv, ApartInv
  <1> QED
    BY <1>1, <1>2, <1>3, CableInvAlways, PTL DEF Spec

=============================================================================
