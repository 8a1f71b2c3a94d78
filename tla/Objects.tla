------------------------------ MODULE Objects -------------------------------
(***************************************************************************)
(* The control objects of the driver: a device (ldev) has groups (lgrp), a *)
(* group has links and MACs.  ctrl/sl_ctrl_ldev.c, sl_ctrl_lgrp.c,         *)
(* sl_ctrl_mac.c, the life cycle of sl_ctrl_link.c, and the tables of the  *)
(* core and of media they are the front of.                                *)
(*                                                                         *)
(* One object of each kind can be in its table at a time; one that was     *)
(* deleted may be created again, so an object is its kind and a number.    *)
(* An object is found in the table without a reference, the reference is   *)
(* taken afterwards, and the last put releases the object in its thread:   *)
(* it deletes the children, then the parts below, then itself.  What a     *)
(* thread is in the middle of is a stack, because a release deletes.       *)
(*                                                                         *)
(* Left out: sl_ctrl_llr, which lives and dies as a link does, the         *)
(* workqueues of a device, and what the calls between reference and put    *)
(* do (LinkObject has that for a link).                                    *)
(***************************************************************************)
EXTENDS Integers, Sequences, FiniteSets

CONSTANTS
    Clients,     \* threads that call the API
    Ops,         \* the calls they make
    Fails,       \* parts of a creation that may fail, as <<kind, part>>
    MaxNew,      \* bound on the objects of a kind
    MaxCalls     \* bound on the calls of the clients

ASSUME ObjectsAssumption ==
    /\ Ops \subseteq {"use", "config", "attr", "reset", "new", "del"}
    /\ MaxNew \in Nat \ {0} /\ MaxCalls \in Nat

Kinds == {"ldev", "lgrp", "link", "mac"}
Objs  == Kinds \X (1..MaxNew)
None  == <<"none", 0>>

Parent == [lgrp |-> "ldev", link |-> "lgrp", mac |-> "lgrp"]

(* The children a release deletes, in its order *)
Below(kind) == CASE kind = "ldev" -> <<"lgrp">>
                 [] kind = "lgrp" -> <<"link", "mac">>
                 [] OTHER         -> <<>>

(* The parts of a creation after the object itself, in order *)
Parts(kind) == CASE kind = "ldev" -> <<"core", "media">>
                 [] kind = "lgrp" -> <<"core", "media", "sysfs">>
                 [] OTHER         -> <<"core", "sysfs">>

ASSUME FailsAssumption == Fails \subseteq Kinds \X {"core", "media", "sysfs"}

VARIABLES
    table,       \* the number of each kind's object in its table, 0 for NULL
    made,        \* how many of each kind were allocated
    life,        \* "none", "built", "live" or "freed"
    refs,        \* ref_cnt
    completed,   \* del_complete
    above,       \* the parent's address, as read at the creation
    coreHas,     \* the kinds that have an object in the core's table
    mediaHas,    \* the kinds that have one in the media table
    configuring, \* is_configuring of the core's group
    stack,       \* what each client is in: frames <<step, object, position>>
    dels,        \* how often each object's first reference was put
    odd,         \* unusual events that happened, see below
    calls        \* calls made so far

tables == <<table, made, above, coreHas, mediaHas>>
counts == <<refs, life, completed, dels>>
vars   == <<tables, counts, configuring, stack, odd, calls>>

(* What the properties below except:                                         *)
(*   late    a deletion gave up waiting for the users of its object          *)
(*   twice   an object was deleted twice, at once or after a late deletion   *)
(*   rushed  an object was created under a parent on its way out             *)
(*   leaked  a creation failed at a part that is not undone, or the core's   *)
(*           group was not deleted because it was being configured           *)
Odds == {"late", "twice", "rushed", "leaked"}

(* The creations that leave something behind when this part fails *)
NotUndone == {<<"ldev", "media">>, <<"lgrp", "sysfs">>, <<"link", "sysfs">>,
              <<"mac", "sysfs">>}

Frames == {"build", "ref", "body", "configured", "attr", "touch", "drop",
           "wait", "release", "children", "below", "complete", "free"}

(* Every object that is alive has references, and nobody holds more than one *)
(* besides the first.                                                        *)
TypeOK ==
    /\ table \in [Kinds -> 0..MaxNew] /\ made \in [Kinds -> 0..MaxNew]
    /\ life \in [Objs -> {"none", "built", "live", "freed"}]
    /\ refs \in [Objs -> 0..(1 + Cardinality(Clients))]
    /\ completed \in [Objs -> BOOLEAN] /\ dels \in [Objs -> Nat]
    /\ above \in [Objs -> Objs \cup {None}]
    /\ coreHas \subseteq Kinds /\ mediaHas \subseteq {"ldev", "lgrp"}
    /\ configuring \in BOOLEAN
    /\ \A c \in Clients : \A i \in DOMAIN stack[c] :
          stack[c][i] \in Frames \X Objs \X (0..4)
    /\ odd \subseteq Odds
    /\ calls \in 0..MaxCalls

(* Nothing yet, or one of each kind *)
Init ==
    /\ \E whole \in BOOLEAN :
        LET n == IF whole THEN 1 ELSE 0 IN
        /\ table = [k \in Kinds |-> n] /\ made = table
        /\ life = [o \in Objs |-> IF o[2] <= n THEN "live" ELSE "none"]
        /\ refs = [o \in Objs |-> IF o[2] <= n THEN 1 ELSE 0]
        /\ above = [o \in Objs |->
                       IF whole /\ o[2] = 1 /\ o[1] # "ldev" THEN <<Parent[o[1]], 1>>
                                                             ELSE None]
        /\ coreHas = (IF whole THEN Kinds ELSE {})
        /\ mediaHas = (IF whole THEN {"ldev", "lgrp"} ELSE {})
    /\ completed = [o \in Objs |-> FALSE] /\ dels = [o \in Objs |-> 0]
    /\ configuring = FALSE
    /\ stack = [c \in Clients |-> <<>>]
    /\ odd = {} /\ calls = 0

-----------------------------------------------------------------------------
(* Frames *)

Top(c) == stack[c][Len(stack[c])]
In(c, step) == stack[c] # <<>> /\ Top(c)[1] = step
Obj(c) == Top(c)[2]
Kind(c) == Obj(c)[1]
Pos(c) == Top(c)[3]

Frame(step, o) == <<step, o, 0>>
Rest(c) == SubSeq(stack[c], 1, Len(stack[c]) - 1)

(* The thread's innermost call goes on at the frames fs, or returns. *)
Become(c, fs) == stack' = [stack EXCEPT ![c] = Rest(c) \o fs]
Pop(c) == Become(c, <<>>)
Goto(c, step) == Become(c, <<Frame(step, Obj(c))>>)

Entry(kind) == <<kind, table[kind]>>

-----------------------------------------------------------------------------
(* Calls of the API: the object's address is read from its table *)

CallOn(c, op, kind) ==
    /\ table[kind] # 0
    /\ stack' = [stack EXCEPT ![c] =
          CASE op = "del"    -> <<Frame("drop", Entry(kind))>>
            [] op = "reset"  -> <<Frame("touch", Entry(kind)), Frame("ref", Entry(kind))>>
            [] op = "config" -> <<Frame("configured", Entry(kind)),
                                  Frame("ref", Entry(kind))>>
            [] OTHER         -> <<Frame("ref", Entry(kind))>>]
    /\ UNCHANGED <<tables, counts, odd, configuring>>

(* One caller at a time creates objects of a kind, under a parent it has. *)
CallNew(c, kind) ==
    LET o == <<kind, made[kind] + 1>> IN
    /\ table[kind] = 0 /\ made[kind] < MaxNew
    /\ \A d \in Clients : In(d, "build") => Kind(d) # kind
    /\ kind # "ldev" => table[Parent[kind]] # 0
    /\ made' = [made EXCEPT ![kind] = @ + 1]
    /\ life' = [life EXCEPT ![o] = "built"]
    /\ refs' = [refs EXCEPT ![o] = 1]
    /\ above' = [above EXCEPT ![o] = IF kind = "ldev" THEN None ELSE Entry(Parent[kind])]
    /\ stack' = [stack EXCEPT ![c] = <<<<"build", o, 1>>>>]
    /\ UNCHANGED <<table, coreHas, mediaHas, completed, dels, odd, configuring>>

(* sl_lgrp_hw_attr_set goes to the core's group, past the control object. *)
CallAttr(c) ==
    /\ table["lgrp"] # 0 /\ "lgrp" \in coreHas /\ ~configuring
    /\ configuring' = TRUE
    /\ stack' = [stack EXCEPT ![c] = <<Frame("attr", Entry("lgrp"))>>]
    /\ UNCHANGED <<tables, counts, odd>>

Call(c) ==
    /\ stack[c] = <<>> /\ calls < MaxCalls
    /\ calls' = calls + 1
    /\ \/ \E op \in Ops \cap {"use", "del"}, k \in Kinds : CallOn(c, op, k)
       \/ "config" \in Ops /\ CallOn(c, "config", "lgrp")
       \/ "reset" \in Ops /\ CallOn(c, "reset", "mac")
       \/ "new" \in Ops /\ \E k \in Kinds : CallNew(c, k)
       \/ "attr" \in Ops /\ CallAttr(c)

-----------------------------------------------------------------------------
(* Creation: part after part; the object is published last *)

Has(kind, part) == kind \in CASE part = "core" -> coreHas
                              [] part = "media" -> mediaHas
                              [] OTHER -> {}

(* Mutant: the core's part stays when media fails. *)
UndoneForgets(kind, part) == coreHas

(* What is undone when a part fails: a group deletes its core part. *)
Undone(kind, part) ==
    IF kind = "lgrp" /\ part # "core" THEN coreHas \ {kind, "link"} ELSE coreHas

BuildPart(c) ==
    LET part == Parts(Kind(c))[Pos(c)] IN
    /\ In(c, "build") /\ Pos(c) <= Len(Parts(Kind(c)))
    /\ \/ /\ ~Has(Kind(c), part)
          /\ coreHas' = coreHas \cup (IF part = "core" THEN {Kind(c)} ELSE {})
          /\ mediaHas' = mediaHas \cup (IF part = "media" THEN {Kind(c)} ELSE {})
          /\ Become(c, <<<<"build", Obj(c), Pos(c) + 1>>>>)
          /\ UNCHANGED <<life, refs, odd>>
       \/ /\ Has(Kind(c), part) \/ <<Kind(c), part>> \in Fails
          /\ coreHas' = Undone(Kind(c), part)
          /\ odd' = odd \cup (IF <<Kind(c), part>> \in NotUndone THEN {"leaked"} ELSE {})
          /\ life' = [life EXCEPT ![Obj(c)] = "freed"]
          /\ refs' = [refs EXCEPT ![Obj(c)] = 0]
          /\ Pop(c)
          /\ UNCHANGED mediaHas
    /\ UNCHANGED <<table, made, above, completed, dels, configuring>>

Publish(c) ==
    /\ In(c, "build") /\ Pos(c) > Len(Parts(Kind(c)))
    /\ table' = [table EXCEPT ![Kind(c)] = Obj(c)[2]]
    /\ life' = [life EXCEPT ![Obj(c)] = "live"]
    /\ odd' = odd \cup (IF Kind(c) # "ldev" /\ dels[above[Obj(c)]] > 0
                        THEN {"rushed"} ELSE {})
    /\ Pop(c)
    /\ UNCHANGED <<made, above, coreHas, mediaHas, refs, completed, dels, configuring>>

-----------------------------------------------------------------------------
(* References *)

(* Mutant: a reference is taken from an object on its way out. *)
TakeRefBlind(c) ==
    /\ In(c, "ref")
    /\ refs' = [refs EXCEPT ![Obj(c)] = @ + 1]
    /\ Goto(c, "body")
    /\ UNCHANGED <<tables, life, completed, dels, odd, configuring>>

(* Mutant: the count wraps. *)
OneLessAlways(n) == n - 1

(* A refcount_t that is zero is not decremented. *)
OneLess(n) == IF n = 0 THEN 0 ELSE n - 1

(* kref_get_unless_zero; a freed object still has a count of zero.  A call   *)
(* that fails here does not do what it would have done after its put.        *)
TakeRef(c) ==
    /\ In(c, "ref")
    /\ IF refs[Obj(c)] > 0
       THEN /\ refs' = [refs EXCEPT ![Obj(c)] = @ + 1]
            /\ Goto(c, "body")
       ELSE /\ UNCHANGED refs
            /\ stack' = [stack EXCEPT ![c] = <<>>]
    /\ UNCHANGED <<tables, life, completed, dels, odd, configuring>>

(* sl_core_lgrp_config_set, inside a call that holds a reference *)
Configure(c) ==
    /\ In(c, "body") /\ Len(stack[c]) = 2 /\ stack[c][1][1] = "configured"
    /\ IF configuring THEN UNCHANGED configuring ELSE configuring' = TRUE
    /\ stack' = [stack EXCEPT ![c] =
          IF configuring THEN <<Frame("body", Obj(c))>>
                         ELSE <<Frame("body", Obj(c)), Frame("attr", Obj(c))>>]
    /\ UNCHANGED <<tables, counts, odd>>

Configured(c) ==
    /\ In(c, "attr")
    /\ configuring' = FALSE
    /\ Pop(c)
    /\ UNCHANGED <<tables, counts, odd>>

(* The put at the end of a call *)
Put(c) ==
    /\ In(c, "body") /\ (Len(stack[c]) = 1 \/ stack[c][1][1] # "configured")
    /\ refs' = [refs EXCEPT ![Obj(c)] = OneLess(@)]
    /\ IF refs[Obj(c)] = 1 THEN Goto(c, "release") ELSE Pop(c)
    /\ UNCHANGED <<tables, life, completed, dels, odd, configuring>>

(* sl_ctrl_mac_reset counts its success after its put. *)
Touch(c) ==
    /\ In(c, "touch")
    /\ Pop(c)
    /\ UNCHANGED <<tables, counts, odd, configuring>>

-----------------------------------------------------------------------------
(* Deletion *)

(* del puts the first reference. *)
Drop(c) ==
    /\ In(c, "drop")
    /\ dels' = [dels EXCEPT ![Obj(c)] = @ + 1]
    /\ odd' = odd \cup (IF dels[Obj(c)] > 0 THEN {"twice"} ELSE {})
    /\ refs' = [refs EXCEPT ![Obj(c)] = OneLess(@)]
    /\ Goto(c, IF refs[Obj(c)] = 1 THEN "release" ELSE "wait")
    /\ UNCHANGED <<tables, life, completed, configuring>>

Woken(c) ==
    /\ In(c, "wait") /\ completed[Obj(c)]
    /\ Pop(c)
    /\ UNCHANGED <<tables, counts, odd, configuring>>

(* -ETIMEDOUT, which a release that deletes its children ignores *)
TimedOut(c) ==
    /\ In(c, "wait") /\ ~completed[Obj(c)]
    /\ odd' = odd \cup {"late"}
    /\ Pop(c)
    /\ UNCHANGED <<tables, counts, configuring>>

(* sl_ctrl_lgrp_release looks itself up again. *)
Release(c) ==
    /\ In(c, "release")
    /\ IF Kind(c) = "lgrp" /\ table["lgrp"] = 0
       THEN Pop(c)
       ELSE Become(c, <<<<"children",
                          IF Kind(c) = "lgrp" THEN Entry("lgrp") ELSE Obj(c), 1>>>>)
    /\ UNCHANGED <<tables, counts, odd, configuring>>

(* Mutant: the children are left to delete themselves. *)
DeleteChildrenNot(c) ==
    /\ In(c, "children")
    /\ Goto(c, "below")
    /\ UNCHANGED <<tables, counts, odd, configuring>>

DeleteChildren(c) ==
    /\ In(c, "children")
    /\ IF Pos(c) > Len(Below(Kind(c))) THEN Goto(c, "below")
       ELSE LET child == Below(Kind(c))[Pos(c)] IN
            Become(c, <<<<"children", Obj(c), Pos(c) + 1>>>>
                      \o (IF table[child] = 0 THEN <<>>
                          ELSE <<Frame("drop", Entry(child))>>))
    /\ UNCHANGED <<tables, counts, odd, configuring>>

(* What the deletion of a core object takes with it *)
CoreOf(kind) ==
    CASE kind = "ldev" -> {"ldev"} \cup (IF configuring THEN {} ELSE {"lgrp", "link"})
      [] kind = "lgrp" -> IF configuring THEN {} ELSE {"lgrp", "link"}
      [] OTHER         -> {kind}

(* The parts below, then the entry in the table: one step here, several in   *)
(* the code, and so are the core's look at is_configuring and the clearing   *)
(* of its tables.  No property tells these orders apart.                     *)
DeleteBelow(c) ==
    /\ In(c, "below")
    /\ coreHas' = coreHas \ CoreOf(Kind(c))
    /\ mediaHas' = mediaHas \ (CASE Kind(c) = "ldev" -> {"ldev", "lgrp"}
                                 [] OTHER            -> {Kind(c)})
    /\ odd' = odd \cup (IF configuring /\ Kind(c) \in {"ldev", "lgrp"}
                        THEN {"leaked"} ELSE {})
    /\ table' = [table EXCEPT ![Kind(c)] = 0]
    /\ Goto(c, IF Kind(c) = "mac" THEN "free" ELSE "complete")
    /\ UNCHANGED <<made, above, counts, configuring>>

(* Mutant: only a device completes. *)
CompleteDevice(c) ==
    /\ In(c, "complete")
    /\ completed' = [completed EXCEPT ![Obj(c)] = Kind(c) = "ldev"]
    /\ Goto(c, "free")
    /\ UNCHANGED <<tables, refs, life, dels, odd, configuring>>

(* complete_all; sl_ctrl_mac_release has none. *)
Complete(c) ==
    /\ In(c, "complete")
    /\ completed' = [completed EXCEPT ![Obj(c)] = TRUE]
    /\ Goto(c, "free")
    /\ UNCHANGED <<tables, refs, life, dels, odd, configuring>>

FreeObject(c) ==
    /\ In(c, "free")
    /\ life' = [life EXCEPT ![Obj(c)] = "freed"]
    /\ Pop(c)
    /\ UNCHANGED <<tables, refs, completed, dels, odd, configuring>>

-----------------------------------------------------------------------------

Inside(c) ==
    \/ BuildPart(c) \/ Publish(c)
    \/ TakeRef(c) \/ Configure(c) \/ Configured(c) \/ Put(c) \/ Touch(c)
    \/ Drop(c) \/ Woken(c) \/ TimedOut(c)
    \/ Release(c) \/ DeleteChildren(c) \/ DeleteBelow(c) \/ Complete(c) \/ FreeObject(c)

Next == \E c \in Clients : Call(c) \/ (Inside(c) /\ UNCHANGED calls)

Spec == Init /\ [][Next]_vars

-----------------------------------------------------------------------------
(* Properties *)

(* The clients that hold a reference to o *)
Holders(o) == {c \in Clients : \E i \in DOMAIN stack[c] :
                   stack[c][i][1] = "body" /\ stack[c][i][2] = o}

(* Every reference is put once: an object has the references of those inside *)
(* a call, and the first until its deletion; it is freed after the last of   *)
(* them.  Only a second deletion, of an object that one was late for, takes  *)
(* a reference that is somebody else's.                                      *)
RefsCounted ==
    \A o \in Objs : life[o] # "none" /\ dels[o] <= 1 =>
        /\ life[o] \in {"built", "live"} =>
              refs[o] = Cardinality(Holders(o)) + (1 - dels[o])
        /\ life[o] = "freed" => Holders(o) = {}

(* While an object is in its table its parent, whose number its release      *)
(* reads, is not freed: a release waits for the children, and goes on        *)
(* without them only if it gave up.                                          *)
ParentsStay ==
    odd \cap {"late", "twice", "rushed"} = {} =>
        \A o \in Objs : table[o[1]] = o[2] /\ above[o] # None =>
                            life[above[o]] # "freed"

(* Between calls the tables of the three layers agree, what was deleted is   *)
(* gone, whatever was below a deleted object is gone with it, and a creation *)
(* that failed has left nothing that would make the next one fail.  The      *)
(* exceptions are the parts that are not undone.                             *)
WholeTree ==
    odd = {} /\ (\A c \in Clients : stack[c] = <<>>) =>
        /\ coreHas = {k \in Kinds : table[k] # 0}
        /\ mediaHas = coreHas \cap {"ldev", "lgrp"}
        /\ \A o \in Objs :
              /\ life[o] = "live" <=> life[o] # "none" /\ table[o[1]] = o[2]
              /\ dels[o] > 0 => life[o] = "freed"
              /\ life[o] = "live" /\ above[o] # None => life[above[o]] = "live"

(* Parents outlive their children, and nothing is left of what is gone.      *)
TreeKept == ParentsStay /\ WholeTree

(* A deletion that gives up leaves an object in use: whoever waits for an    *)
(* object that is released is woken.  Only the release of a MAC wakes nobody *)
(* (ctrl/sl_ctrl_mac.c:136: "Release occurs on the last caller. Block until  *)
(* complete.").                                                              *)
WaitersWoken ==
    [][\A c \in Clients : TimedOut(c) /\ Kind(c) # "mac" => life[Obj(c)] # "freed"]_vars

=============================================================================
