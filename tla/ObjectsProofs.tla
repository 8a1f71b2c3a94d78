---------------------------- MODULE ObjectsProofs ----------------------------
(***************************************************************************)
(* Theorems about Objects, for any number of clients, calls and objects:   *)
(* every reference is put once, whoever waits for an object that is        *)
(* released is woken, parents outlive their children, and between calls    *)
(* nothing is left of what was deleted.  IInv has the references and the   *)
(* frames of the threads, TreeInv what a release and a creation owe the    *)
(* objects above and below, BoundInv the bound of a count.                 *)
(***************************************************************************)
EXTENDS Objects, FiniteSetTheorems, SequenceTheorems, TLAPS

FrameSet == Frames \X Objs \X (0..4)

(* An object without references is on its way out, ... *)
Going == {"release", "children", "below", "complete", "free"}

(* ... first while it is in its table. *)
Phase == {"release", "children", "below"}

(* The steps of a call that is to have a reference *)
Calling == {"ref", "body", "configured"}

(* A call is one frame, or two if something comes after its put; and a        *)
(* creation is one.                                                           *)
Shaped(s) ==
    /\ (\E i \in DOMAIN s : s[i][1] \in Calling) =>
          \/ Len(s) = 1 /\ s[1][1] \in {"ref", "body"}
          \/ Len(s) = 2 /\ s[1][1] \in {"touch", "configured"} /\ s[2][1] \in {"ref", "body"}
          \/ Len(s) = 2 /\ s[1][1] = "body" /\ s[2][1] = "attr"
    /\ (\E i \in DOMAIN s : s[i][1] = "build") => Len(s) = 1

StackInv ==
    /\ stack = [c \in Clients |-> stack[c]]
    /\ \A c \in Clients : stack[c] \in Seq(FrameSet) /\ Shaped(stack[c])

(* What the object of a frame is like: l, t, r and d are life, table, refs and *)
(* completed, of this state or of the next.                                   *)
FrameIn(f, l, t, r, d) ==
    LET o == f[2] IN
    /\ f[1] = "build" => l[o] = "built" /\ t[o[1]] = 0
    /\ f[1] # "build" => \/ l[o] = "live"
                         \/ l[o] = "freed" /\ (d[o] \/ o[1] = "mac")
    /\ f[1] \in Going => r[o] = 0
    /\ f[1] \in Phase => t[o[1]] = o[2]
    /\ f[1] \in {"complete", "free"} => t[o[1]] # o[2]
    /\ f[1] = "free" /\ o[1] # "mac" => d[o]
    /\ f[1] \in {"children", "build"} => f[3] # 0

Now(f) == FrameIn(f, life, table, refs, completed)
Then(f) == FrameIn(f, life', table', refs', completed')

FrameInv == \A c \in Clients : \A i \in DOMAIN stack[c] : Now(stack[c][i])

(* Nobody else does the same to an object. *)
Alike(f, g) == \/ f[1] \in Phase /\ g[1] \in Phase /\ f[2] = g[2]
               \/ f[1] = "build" /\ g[1] = "build" /\ f[2][1] = g[2][1]

AloneInv ==
    \A c, d \in Clients : \A i \in DOMAIN stack[c], j \in DOMAIN stack[d] :
        Alike(stack[c][i], stack[d][j]) => c = d /\ i = j

DataInv ==
    /\ table \in [Kinds -> 0..MaxNew] /\ made \in [Kinds -> 0..MaxNew]
    /\ life \in [Objs -> {"none", "built", "live", "freed"}]
    /\ refs \in [Objs -> Nat] /\ dels \in [Objs -> Nat] /\ completed \in [Objs -> BOOLEAN]
    /\ \A k \in Kinds : table[k] # 0 => life[<<k, table[k]>>] = "live"

ObjOK(o) ==
    /\ life[o] = "none" <=> o[2] > made[o[1]]
    /\ life[o] \in {"none", "built"} => dels[o] = 0
    /\ life[o] = "built" => refs[o] = 1
    /\ life[o] = "freed" => refs[o] = 0
    /\ life[o] = "live" /\ refs[o] > 0 => table[o[1]] = o[2]

ObjInv == \A o \in Objs : ObjOK(o)

(* The references of an object that was deleted once at most *)
CountOK(o) ==
    /\ IsFiniteSet(Holders(o))
    /\ life[o] = "live" /\ dels[o] <= 1 => refs[o] = Cardinality(Holders(o)) + (1 - dels[o])
    /\ life[o] = "freed" /\ dels[o] <= 1 => Holders(o) = {}

CountInv == \A o \in Objs : CountOK(o)

IInv == StackInv /\ FrameInv /\ AloneInv /\ DataInv /\ ObjInv /\ CountInv

-----------------------------------------------------------------------------
(* What is on a stack, before a step and after it *)

HasBody(s, o) == \E i \in DOMAIN s : s[i][1] = "body" /\ s[i][2] = o

LEMMA Tuples ==
    /\ \A s \in Frames, o \in Objs : Frame(s, o) \in FrameSet
    /\ \A s \in Frames, o \in Objs, p \in 0..4 : <<s, o, p>> \in FrameSet
    /\ \A f \in FrameSet : f[1] \in Frames /\ f[2] \in Objs /\ f[3] \in 0..4
    /\ \A s, o : Frame(s, o)[1] = s /\ Frame(s, o)[2] = o
  BY DEF Frame, FrameSet

LEMMA ObjFacts ==
    ASSUME DataInv
    PROVE  /\ \A o \in Objs : o[1] \in Kinds /\ o[2] \in 1..MaxNew /\ o = <<o[1], o[2]>>
           /\ \A k \in Kinds, n \in 1..MaxNew : <<k, n>> \in Objs
           /\ \A k \in Kinds : table[k] # 0 =>
                 /\ Entry(k) \in Objs /\ Entry(k)[1] = k /\ Entry(k)[2] = table[k]
                 /\ life[Entry(k)] = "live"
  BY ObjectsAssumption DEF DataInv, Objs, Entry

(* The thread keeps the first n frames, and fs are on top of them. *)
Onto(c, n, fs) ==
    /\ n \in 0..Len(stack[c])
    /\ stack' = [d \in Clients |-> stack'[d]]
    /\ \A d \in Clients \ {c} : stack'[d] = stack[d]
    /\ stack'[c] \in Seq(FrameSet) /\ Len(stack'[c]) = n + Len(fs)
    /\ \A i \in 1..n : stack'[c][i] = stack[c][i]
    /\ \A i \in 1..Len(fs) : stack'[c][n + i] = fs[i]

LEMMA TopFacts ==
    ASSUME StackInv, NEW c \in Clients, stack[c] # <<>>
    PROVE  /\ Len(stack[c]) \in Nat \ {0} /\ DOMAIN stack[c] = 1..Len(stack[c])
           /\ Top(c) = stack[c][Len(stack[c])] /\ Top(c) \in FrameSet
           /\ Len(stack[c]) - 1 \in 0..Len(stack[c])
  BY DEF StackInv, Top

LEMMA BecomeOnto ==
    ASSUME StackInv, NEW c \in Clients, stack[c] # <<>>, NEW fs \in Seq(FrameSet), Become(c, fs)
    PROVE  Onto(c, Len(stack[c]) - 1, fs)
  <1> DEFINE n == Len(stack[c]) - 1
  <1>1. stack[c] \in Seq(FrameSet) /\ Len(stack[c]) \in Nat \ {0} /\ n \in 0..Len(stack[c])
    BY TopFacts DEF StackInv
  <1>2. /\ Rest(c) \in Seq(FrameSet) /\ Len(Rest(c)) = n
        /\ \A i \in 1..n : Rest(c)[i] = stack[c][i]
    BY <1>1 DEF Rest
  <1>3. /\ Rest(c) \o fs \in Seq(FrameSet) /\ Len(Rest(c) \o fs) = n + Len(fs)
        /\ \A i \in 1..n : (Rest(c) \o fs)[i] = Rest(c)[i]
        /\ \A i \in 1..Len(fs) : (Rest(c) \o fs)[n + i] = fs[i]
    <2> DEFINE r == Rest(c)
               both == r \o fs
    <2>1. r \in Seq(FrameSet) /\ Len(r) = n
      BY <1>2
    <2>2. /\ both \in Seq(FrameSet) /\ Len(both) = Len(r) + Len(fs)
          /\ \A i \in 1..(Len(r) + Len(fs)) :
                both[i] = IF i <= Len(r) THEN r[i] ELSE fs[i - Len(r)]
      <3> HIDE DEF r
      <3> QED
        BY <2>1, ConcatProperties
    <2>3. n \in Nat /\ Len(fs) \in Nat
      BY <1>1
    <2> HIDE DEF both, r, n
    <2>4. ASSUME NEW i \in 1..n PROVE both[i] = r[i]
      BY <2>1, <2>2, <2>3
    <2>5. ASSUME NEW i \in 1..Len(fs) PROVE both[n + i] = fs[i]
      BY <2>1, <2>2, <2>3
    <2>6. both \in Seq(FrameSet) /\ Len(both) = n + Len(fs)
      BY <2>1, <2>2
    <2> QED
      BY <2>4, <2>5, <2>6 DEF both, r
  <1>4. /\ stack' = [d \in Clients |-> stack'[d]]
        /\ \A d \in Clients \ {c} : stack'[d] = stack[d]
        /\ stack'[c] = Rest(c) \o fs
    BY DEF Become, StackInv
  <1> QED
    BY <1>1, <1>2, <1>3, <1>4 DEF Onto

LEMMA SetOnto ==
    ASSUME StackInv, NEW c \in Clients, NEW fs \in Seq(FrameSet),
           stack' = [stack EXCEPT ![c] = fs]
    PROVE  Onto(c, 0, fs) /\ stack'[c] = fs
  <1>1. /\ stack' = [d \in Clients |-> stack'[d]]
        /\ \A d \in Clients \ {c} : stack'[d] = stack[d]
        /\ stack'[c] = fs
    BY DEF StackInv
  <1>2. 0 \in 0..Len(stack[c]) /\ Len(fs) \in Nat
    BY DEF StackInv
  <1> QED
    BY <1>1, <1>2 DEF Onto

(* Where a frame of the next state comes from *)
LEMMA FramesFrom ==
    ASSUME StackInv, NEW c \in Clients, NEW n, NEW fs \in Seq(FrameSet), Onto(c, n, fs),
           NEW d \in Clients, NEW i \in DOMAIN stack'[d]
    PROVE  \/ d # c /\ i \in DOMAIN stack[d] /\ stack'[d][i] = stack[d][i]
           \/ d = c /\ i \in 1..n /\ i \in DOMAIN stack[c] /\ stack'[d][i] = stack[c][i]
           \/ d = c /\ i - n \in 1..Len(fs) /\ stack'[d][i] = fs[i - n]
  <1>1. CASE d # c
    BY <1>1 DEF Onto
  <1>2. CASE d = c
    <2>1. /\ n \in Nat /\ Len(fs) \in Nat /\ i \in 1..(n + Len(fs))
          /\ stack[c] \in Seq(FrameSet) /\ n <= Len(stack[c])
      BY <1>2 DEF Onto, StackInv
    <2>2. CASE i <= n
      BY <1>2, <2>1, <2>2 DEF Onto
    <2>3. CASE i > n
      <3>1. i - n \in 1..Len(fs) /\ n + (i - n) = i
        BY <2>1, <2>3
      <3> QED
        BY <1>2, <3>1 DEF Onto
    <2> QED
      BY <2>1, <2>2, <2>3
  <1> QED
    BY <1>1, <1>2

-----------------------------------------------------------------------------
(* A step of c that keeps n frames and puts fs on top of them *)

LEMMA FrameStep ==
    ASSUME StackInv, FrameInv, AloneInv,
           NEW c \in Clients, NEW n, NEW fs \in Seq(FrameSet), Onto(c, n, fs),
           \A f \in FrameSet :
              Now(f) /\ (n < Len(stack[c]) => ~Alike(f, Top(c))) => Then(f),
           \A i \in 1..Len(fs) : Then(fs[i])
    PROVE  FrameInv'
  <1> SUFFICES ASSUME NEW d \in Clients, NEW i \in DOMAIN stack'[d]
               PROVE  Then(stack'[d][i])
    BY DEF FrameInv, Now, Then
  <1>1. ASSUME NEW e \in Clients, NEW j \in DOMAIN stack[e], e = c => j <= n,
               stack'[d][i] = stack[e][j]
        PROVE  Then(stack'[d][i])
    <2>1. stack[e][j] \in FrameSet /\ Now(stack[e][j])
      BY DEF StackInv, FrameInv
    <2>2. n < Len(stack[c]) => ~Alike(stack[e][j], Top(c))
      <3> SUFFICES ASSUME n < Len(stack[c]), Alike(stack[e][j], Top(c)) PROVE FALSE
        OBVIOUS
      <3>1. n \in Nat /\ Len(stack[c]) \in Nat
        BY DEF Onto, StackInv
      <3>2. stack[c] # <<>>
        BY <3>1
      <3>3. Len(stack[c]) \in DOMAIN stack[c] /\ Top(c) = stack[c][Len(stack[c])]
        BY <3>2, TopFacts
      <3>4. e = c /\ j = Len(stack[c])
        BY <3>3 DEF AloneInv
      <3> QED
        BY <1>1, <3>1, <3>4
    <2> QED
      BY <1>1, <2>1, <2>2
  <1>2. ASSUME NEW j \in 1..Len(fs), stack'[d][i] = fs[j]
        PROVE  Then(stack'[d][i])
    BY <1>2
  <1>3. n \in Nat
    BY DEF Onto, StackInv
  <1> QED
    BY <1>1, <1>2, <1>3, FramesFrom

LEMMA AloneStep ==
    ASSUME StackInv, AloneInv,
           NEW c \in Clients, NEW n, NEW fs \in Seq(FrameSet), Onto(c, n, fs),
           \A i \in 1..Len(fs) :
              \/ n < Len(stack[c]) /\ (\A f \in FrameSet : Alike(f, fs[i]) => Alike(f, Top(c)))
              \/ \A d \in Clients : \A j \in DOMAIN stack[d] : ~Alike(stack[d][j], fs[i]),
           \A i, j \in 1..Len(fs) : Alike(fs[i], fs[j]) => i = j
    PROVE  AloneInv'
  <1> SUFFICES ASSUME NEW d \in Clients, NEW e \in Clients,
                      NEW i \in DOMAIN stack'[d], NEW j \in DOMAIN stack'[e],
                      Alike(stack'[d][i], stack'[e][j])
               PROVE  d = e /\ i = j
    BY DEF AloneInv
  <1> DEFINE Kept(u, k) == k \in DOMAIN stack[u] /\ stack'[u][k] = stack[u][k] /\ (u = c => k \in 1..n)
             New(u, k) == u = c /\ k - n \in 1..Len(fs) /\ stack'[u][k] = fs[k - n]
  <1>1. (Kept(d, i) \/ New(d, i)) /\ (Kept(e, j) \/ New(e, j))
    BY FramesFrom
  <1>2. n \in Nat /\ Len(stack[c]) \in Nat /\ Len(fs) \in Nat
    BY DEF Onto, StackInv
  <1>3. \A f, g : Alike(f, g) => Alike(g, f)
    BY DEF Alike
  <1>4. ASSUME NEW u \in Clients, NEW k, Kept(u, k), NEW m \in 1..Len(fs),
               Alike(stack[u][k], fs[m])
        PROVE  FALSE
    <2>1. n < Len(stack[c]) /\ Alike(stack[u][k], Top(c))
      BY <1>4 DEF StackInv
    <2>2. Len(stack[c]) \in DOMAIN stack[c] /\ Top(c) = stack[c][Len(stack[c])]
      <3>1. stack[c] # <<>>
        BY <1>2, <2>1
      <3> QED
        BY <3>1, TopFacts
    <2>3. u = c /\ k = Len(stack[c])
      BY <1>4, <2>1, <2>2 DEF AloneInv
    <2> QED
      BY <1>2, <1>4, <2>1, <2>3
  <1>5. CASE Kept(d, i) /\ Kept(e, j)
    BY <1>5 DEF AloneInv
  <1>6. CASE New(d, i) /\ New(e, j)
    <2>1. Alike(fs[i - n], fs[j - n])
      BY <1>6
    <2>2. i - n = j - n /\ d = e
      BY <1>6, <2>1
    <2>3. i \in Int /\ j \in Int
      <3>1. stack'[c] \in Seq(FrameSet) /\ i \in DOMAIN stack'[c] /\ j \in DOMAIN stack'[c]
        BY <1>6 DEF Onto
      <3> QED
        BY <3>1
    <2> HIDE DEF New, Kept
    <2> QED
      BY <1>2, <2>2, <2>3
  <1>7. CASE Kept(d, i) /\ New(e, j)
    BY <1>4, <1>7
  <1>8. CASE New(d, i) /\ Kept(e, j)
    BY <1>3, <1>4, <1>8
  <1> QED
    BY <1>1, <1>5, <1>6, <1>7, <1>8

LEMMA ShapeStep ==
    ASSUME StackInv, NEW c \in Clients, NEW n, NEW fs, Onto(c, n, fs), Shaped(stack'[c])
    PROVE  StackInv'
  BY DEF StackInv, Onto

LEMMA HoldersKept ==
    ASSUME NEW c \in Clients, NEW n, NEW fs, Onto(c, n, fs),
           \A o \in Objs : HasBody(stack'[c], o) <=> HasBody(stack[c], o)
    PROVE  \A o \in Objs : Holders(o)' = Holders(o)
  <1> SUFFICES ASSUME NEW o \in Objs PROVE Holders(o)' = Holders(o)
    OBVIOUS
  <1>1. Holders(o) = {d \in Clients : HasBody(stack[d], o)}
    BY DEF Holders, HasBody
  <1>2. Holders(o)' = {d \in Clients : HasBody(stack'[d], o)}
    BY DEF Holders, HasBody
  <1>3. \A d \in Clients : HasBody(stack'[d], o) <=> HasBody(stack[d], o)
    BY DEF Onto
  <1> QED
    BY <1>1, <1>2, <1>3

(* Calls and creations are not below anything. *)
Off(s) == \A i \in DOMAIN s : s[i][1] \notin Calling \cup {"build"}

LEMMA OffFacts ==
    ASSUME StackInv, NEW c \in Clients,
           stack[c] = <<>> \/ Top(c)[1] \notin {"ref", "body", "attr", "build"}
    PROVE  Off(stack[c])
  <1>1. CASE stack[c] = <<>>
    BY <1>1 DEF Off
  <1>2. CASE stack[c] # <<>>
    <2>1. /\ Len(stack[c]) \in Nat \ {0} /\ DOMAIN stack[c] = 1..Len(stack[c])
          /\ Top(c) = stack[c][Len(stack[c])] /\ Shaped(stack[c])
      BY <1>2, TopFacts DEF StackInv
    <2>2. Top(c)[1] \notin {"ref", "body", "attr", "build"}
      BY <1>2
    <2>3. ~\E i \in DOMAIN stack[c] : stack[c][i][1] \in Calling
      BY <2>1, <2>2 DEF Shaped
    <2>4. ~\E i \in DOMAIN stack[c] : stack[c][i][1] = "build"
      <3> SUFFICES ASSUME NEW i \in DOMAIN stack[c], stack[c][i][1] = "build" PROVE FALSE
        OBVIOUS
      <3>1. Len(stack[c]) = 1
        BY <2>1 DEF Shaped
      <3>2. i = 1
        BY <2>1, <3>1
      <3> QED
        BY <2>1, <2>2, <3>1, <3>2
    <2> QED
      BY <2>3, <2>4 DEF Off
  <1> QED
    BY <1>1, <1>2

LEMMA OffStep ==
    ASSUME StackInv, NEW c \in Clients, NEW n, NEW fs \in Seq(FrameSet), Onto(c, n, fs),
           Off(stack[c]), Off(fs)
    PROVE  /\ StackInv'
           /\ \A o \in Objs : Holders(o)' = Holders(o)
  <1>1. Off(stack'[c])
    <2> SUFFICES ASSUME NEW i \in DOMAIN stack'[c]
                 PROVE  stack'[c][i][1] \notin Calling \cup {"build"}
      BY DEF Off
    <2>1. DOMAIN fs = 1..Len(fs)
      OBVIOUS
    <2> QED
      BY <2>1, FramesFrom DEF Off
  <1>2. Shaped(stack'[c])
    BY <1>1 DEF Off, Shaped
  <1>3. \A o \in Objs : ~HasBody(stack'[c], o) /\ ~HasBody(stack[c], o)
    BY <1>1 DEF Off, HasBody, Calling
  <1> QED
    BY <1>2, <1>3, ShapeStep, HoldersKept

LEMMA CountKept ==
    ASSUME CountInv, \A o \in Objs : Holders(o)' = Holders(o),
           UNCHANGED <<life, refs, dels>>
    PROVE  CountInv'
  <1> SUFFICES ASSUME NEW o \in Objs PROVE CountOK(o)'
    BY DEF CountInv
  <1>1. CountOK(o) /\ Holders(o)' = Holders(o)
    BY DEF CountInv
  <1> QED
    BY <1>1 DEF CountOK

(* A step that moves a thread and changes no object *)
LEMMA StackStep ==
    ASSUME IInv, StackInv', UNCHANGED <<table, made, life, refs, dels, completed>>,
           \A o \in Objs : Holders(o)' = Holders(o),
           NEW c \in Clients, NEW n, NEW fs \in Seq(FrameSet), Onto(c, n, fs),
           \A i \in 1..Len(fs) : Now(fs[i]),
           \A i \in 1..Len(fs) :
              \/ n < Len(stack[c]) /\ (\A f \in FrameSet : Alike(f, fs[i]) => Alike(f, Top(c)))
              \/ \A d \in Clients : \A j \in DOMAIN stack[d] : ~Alike(stack[d][j], fs[i]),
           \A i, j \in 1..Len(fs) : Alike(fs[i], fs[j]) => i = j
    PROVE  IInv'
  <1>1. \A f : Then(f) <=> Now(f)
    BY DEF Then, Now
  <1>2. FrameInv'
    BY <1>1, FrameStep DEF IInv
  <1>3. AloneInv'
    BY AloneStep DEF IInv
  <1>4. DataInv' /\ ObjInv'
    BY DEF IInv, DataInv, ObjInv, ObjOK
  <1>5. CountInv'
    BY CountKept DEF IInv
  <1> QED
    BY <1>2, <1>3, <1>4, <1>5 DEF IInv

-----------------------------------------------------------------------------
(* Waiting, and the way of a release *)

LEMMA Sequences ==
    /\ <<>> \in Seq(FrameSet) /\ Len(<<>>) = 0
    /\ \A f \in FrameSet : <<f>> \in Seq(FrameSet) /\ Len(<<f>>) = 1 /\ <<f>>[1] = f
    /\ \A f, g \in FrameSet : /\ <<f, g>> \in Seq(FrameSet) /\ Len(<<f, g>>) = 2
                              /\ <<f, g>>[1] = f /\ <<f, g>>[2] = g
  OBVIOUS

LEMMA TwoFrames ==
    ASSUME NEW f \in FrameSet, NEW g \in FrameSet
    PROVE  <<f>> \o <<g>> = <<f, g>>
  <1> DEFINE both == <<f>> \o <<g>>
             two == <<f, g>>
  <1>1. /\ <<f>> \in Seq(FrameSet) /\ Len(<<f>>) = 1 /\ <<f>>[1] = f
        /\ <<g>> \in Seq(FrameSet) /\ Len(<<g>>) = 1 /\ <<g>>[1] = g
        /\ two \in Seq(FrameSet) /\ Len(two) = 2 /\ two[1] = f /\ two[2] = g
    BY Sequences
  <1>2. both \in Seq(FrameSet) /\ Len(both) = 2 /\ both[1] = f /\ both[2] = g
    BY <1>1, ConcatProperties
  <1> HIDE DEF both, two
  <1>3. \A i \in 1..Len(both) : both[i] = two[i]
    BY <1>1, <1>2
  <1>4. both = two
    BY <1>1, <1>2, <1>3, SeqEqual
  <1> QED
    BY <1>4 DEF both, two

(* The frame on top, which is one of a release or of a wait, is replaced. *)
LEMMA OffMove ==
    ASSUME IInv, UNCHANGED <<table, made, life, refs, dels, completed>>,
           NEW c \in Clients, stack[c] # <<>>,
           Top(c)[1] \notin {"ref", "body", "attr", "build"},
           NEW fs \in Seq(FrameSet), Become(c, fs),
           \A i \in 1..Len(fs) : /\ fs[i][1] \notin Calling \cup {"build"}
                                 /\ Now(fs[i])
                                 /\ fs[i][1] \in Phase =>
                                       Top(c)[1] \in Phase /\ fs[i][2] = Top(c)[2],
           \A i, j \in 1..Len(fs) : Alike(fs[i], fs[j]) => i = j
    PROVE  IInv'
  <1> DEFINE n == Len(stack[c]) - 1
  <1>1. Onto(c, n, fs) /\ n < Len(stack[c])
    BY BecomeOnto, TopFacts DEF IInv
  <1>2. Off(stack[c])
    BY OffFacts DEF IInv
  <1>3. Off(fs)
    <2>1. DOMAIN fs = 1..Len(fs)
      OBVIOUS
    <2> QED
      BY <2>1 DEF Off
  <1>4. StackInv' /\ \A o \in Objs : Holders(o)' = Holders(o)
    BY <1>1, <1>2, <1>3, OffStep DEF IInv
  <1>5. ASSUME NEW i \in 1..Len(fs), NEW f \in FrameSet, Alike(f, fs[i])
        PROVE  Alike(f, Top(c))
    <2>1. fs[i][1] # "build"
      OBVIOUS
    <2>2. f[1] \in Phase /\ fs[i][1] \in Phase /\ f[2] = fs[i][2]
      BY <1>5, <2>1 DEF Alike
    <2> QED
      BY <2>2 DEF Alike
  <1> QED
    BY <1>1, <1>4, <1>5, StackStep

LEMMA OffPop ==
    ASSUME IInv, UNCHANGED <<table, made, life, refs, dels, completed>>,
           NEW c \in Clients, stack[c] # <<>>,
           Top(c)[1] \notin {"ref", "body", "attr", "build"}, Pop(c)
    PROVE  IInv'
  <1> DEFINE fs == <<>>
  <1>1. Become(c, fs)
    BY DEF Pop
  <1>2. fs \in Seq(FrameSet) /\ Len(fs) = 0
    BY Sequences
  <1> HIDE DEF fs
  <1>3. 1..Len(fs) = {}
    BY <1>2
  <1> QED
    BY <1>1, <1>2, <1>3, OffMove

LEMMA OffOne ==
    ASSUME IInv, UNCHANGED <<table, made, life, refs, dels, completed>>,
           NEW c \in Clients, stack[c] # <<>>,
           Top(c)[1] \notin {"ref", "body", "attr", "build"},
           NEW f \in FrameSet, Become(c, <<f>>), Now(f), f[1] \notin Calling \cup {"build"},
           f[1] \in Phase => Top(c)[1] \in Phase /\ f[2] = Top(c)[2]
    PROVE  IInv'
  <1> DEFINE fs == <<f>>
  <1>1. Become(c, fs)
    OBVIOUS
  <1>2. fs \in Seq(FrameSet) /\ Len(fs) = 1 /\ fs[1] = f
    BY Sequences
  <1> HIDE DEF fs
  <1>3. 1..Len(fs) = {1}
    BY <1>2
  <1>4. \A i, j \in 1..Len(fs) : i = j
    BY <1>3
  <1>5. \A i \in 1..Len(fs) : /\ fs[i][1] \notin Calling \cup {"build"}
                              /\ Now(fs[i])
                              /\ fs[i][1] \in Phase =>
                                    Top(c)[1] \in Phase /\ fs[i][2] = Top(c)[2]
    BY <1>2, <1>3
  <1> QED
    BY <1>1, <1>2, <1>4, <1>5, OffMove

LEMMA OffTwo ==
    ASSUME IInv, UNCHANGED <<table, made, life, refs, dels, completed>>,
           NEW c \in Clients, stack[c] # <<>>,
           Top(c)[1] \notin {"ref", "body", "attr", "build"},
           NEW f \in FrameSet, NEW g \in FrameSet, Become(c, <<f, g>>), Now(f), Now(g),
           f[1] \notin Calling \cup {"build"},
           f[1] \in Phase => Top(c)[1] \in Phase /\ f[2] = Top(c)[2],
           g[1] \notin Calling \cup Phase \cup {"build"}
    PROVE  IInv'
  <1> DEFINE fs == <<f, g>>
  <1>1. Become(c, fs)
    OBVIOUS
  <1>2. fs \in Seq(FrameSet) /\ Len(fs) = 2 /\ fs[1] = f /\ fs[2] = g
    BY Sequences
  <1> HIDE DEF fs
  <1>3. 1..Len(fs) = {1, 2}
    BY <1>2
  <1>4. ASSUME NEW i \in 1..Len(fs), NEW j \in 1..Len(fs), Alike(fs[i], fs[j]) PROVE i = j
    <2>1. ~Alike(f, g) /\ ~Alike(g, f)
      BY DEF Alike
    <2> QED
      BY <1>2, <1>3, <1>4, <2>1
  <1>5. \A i \in 1..Len(fs) : /\ fs[i][1] \notin Calling \cup {"build"}
                              /\ Now(fs[i])
                              /\ fs[i][1] \in Phase =>
                                    Top(c)[1] \in Phase /\ fs[i][2] = Top(c)[2]
    BY <1>2, <1>3
  <1> QED
    BY <1>1, <1>2, <1>4, <1>5, OffMove

LEMMA OfReturn ==
    ASSUME IInv, NEW c \in Clients, Touch(c) \/ Woken(c) \/ TimedOut(c)
    PROVE  IInv'
  <1>1. /\ stack[c] # <<>> /\ Top(c)[1] \in {"touch", "wait"}
        /\ Pop(c)
        /\ UNCHANGED <<table, made, life, refs, dels, completed>>
    BY DEF Touch, Woken, TimedOut, In, tables, counts
  <1>2. Top(c)[1] \notin {"ref", "body", "attr", "build"}
    BY <1>1
  <1> QED
    BY <1>1, <1>2, OffPop

(* What the frame on top says of its object *)
LEMMA TopIn ==
    ASSUME IInv, NEW c \in Clients, NEW s, In(c, s)
    PROVE  /\ stack[c] # <<>> /\ Top(c) \in FrameSet /\ Top(c)[1] = s
           /\ Top(c)[2] = Obj(c) /\ Obj(c) \in Objs /\ Kind(c) \in Kinds /\ Kind(c) = Obj(c)[1]
           /\ Now(Top(c)) /\ ObjOK(Obj(c)) /\ CountOK(Obj(c))
           /\ s # "build" => life[Obj(c)] \in {"live", "freed"}
           /\ s \in Going => refs[Obj(c)] = 0
           /\ s \in Phase => table[Kind(c)] = Obj(c)[2]
  <1>1. stack[c] # <<>> /\ Top(c)[1] = s
    BY DEF In
  <1>2. /\ Top(c) \in FrameSet /\ Len(stack[c]) \in DOMAIN stack[c]
        /\ Top(c) = stack[c][Len(stack[c])]
    BY <1>1, TopFacts DEF IInv
  <1>3. Obj(c) = Top(c)[2] /\ Obj(c) \in Objs /\ Kind(c) = Obj(c)[1] /\ Kind(c) \in Kinds
    BY <1>2, Tuples, ObjFacts DEF Obj, Kind, IInv
  <1>4. Now(Top(c))
    BY <1>2 DEF IInv, FrameInv
  <1>5. ObjOK(Obj(c)) /\ CountOK(Obj(c))
    BY <1>3 DEF IInv, ObjInv, CountInv
  <1>6. /\ s # "build" => life[Obj(c)] \in {"live", "freed"}
        /\ s \in Going => refs[Obj(c)] = 0
        /\ s \in Phase => table[Kind(c)] = Obj(c)[2]
    BY <1>1, <1>3, <1>4 DEF Now, FrameIn
  <1> QED
    BY <1>1, <1>2, <1>3, <1>4, <1>5, <1>6

LEMMA OfRelease ==
    ASSUME IInv, NEW c \in Clients, Release(c)
    PROVE  IInv'
  <1>1. In(c, "release") /\ UNCHANGED <<table, made, life, refs, dels, completed>>
    BY DEF Release, tables, counts
  <1>2. /\ stack[c] # <<>> /\ Top(c)[1] = "release" /\ Top(c)[2] = Obj(c) /\ Obj(c) \in Objs
        /\ Now(Top(c)) /\ table[Kind(c)] = Obj(c)[2] /\ Kind(c) = Obj(c)[1]
    BY <1>1, TopIn DEF Phase
  <1>3. Kind(c) = "lgrp" => Entry("lgrp") = Obj(c)
    <2>1. Obj(c) = <<Obj(c)[1], Obj(c)[2]>>
      BY <1>2, ObjFacts DEF IInv
    <2> QED
      BY <1>2, <2>1 DEF Entry
  <1>4. Top(c)[1] \notin {"ref", "body", "attr", "build"} /\ Top(c)[1] \in Phase
    BY <1>2 DEF Phase
  <1>5. CASE Pop(c)
    BY <1>1, <1>2, <1>4, <1>5, OffPop
  <1>6. CASE Become(c, <<<<"children", Obj(c), 1>>>>)
    <2> DEFINE f == <<"children", Obj(c), 1>>
    <2>1. f \in FrameSet /\ f[1] = "children" /\ f[2] = Obj(c)
      <3>1. "children" \in Frames /\ 1 \in 0..4
        BY DEF Frames
      <3> QED
        BY <1>2, <3>1, Tuples
    <2>2. Now(f)
      BY <1>2, <2>1 DEF Now, FrameIn, Going, Phase
    <2>3. f[1] \notin Calling \cup {"build"}
      BY <2>1 DEF Calling
    <2> HIDE DEF f
    <2>4. Become(c, <<f>>)
      BY <1>6 DEF f
    <2> QED
      BY <1>1, <1>2, <1>4, <2>1, <2>2, <2>3, <2>4, OffOne
  <1> QED
    BY <1>3, <1>5, <1>6 DEF Release

LEMMA OfDeleteChildren ==
    ASSUME IInv, NEW c \in Clients, DeleteChildren(c)
    PROVE  IInv'
  <1>1. In(c, "children") /\ UNCHANGED <<table, made, life, refs, dels, completed>>
    BY DEF DeleteChildren, tables, counts
  <1>2. /\ stack[c] # <<>> /\ Top(c)[1] = "children" /\ Top(c)[2] = Obj(c) /\ Obj(c) \in Objs
        /\ Now(Top(c)) /\ Kind(c) \in Kinds /\ Top(c) \in FrameSet
    BY <1>1, TopIn
  <1>3. Pos(c) \in 0..4 /\ Pos(c) # 0
    BY <1>2, Tuples DEF Pos, Now, FrameIn
  <1>4. Top(c)[1] \notin {"ref", "body", "attr", "build"} /\ Top(c)[1] \in Phase
    BY <1>2 DEF Phase
  <1>5. CASE Goto(c, "below")
    <2> DEFINE f == Frame("below", Obj(c))
    <2>1. f \in FrameSet /\ f[1] = "below" /\ f[2] = Obj(c)
      <3>1. "below" \in Frames
        BY DEF Frames
      <3> QED
        BY <1>2, <3>1, Tuples
    <2>2. Now(f)
      BY <1>2, <2>1 DEF Now, FrameIn, Going, Phase
    <2>3. f[1] \notin Calling \cup {"build"}
      BY <2>1 DEF Calling
    <2>4. Become(c, <<f>>)
      BY <1>5 DEF Goto
    <2> HIDE DEF f
    <2> QED
      BY <1>1, <1>2, <1>4, <2>1, <2>2, <2>3, <2>4, OffOne
  <1>6. CASE ~(Pos(c) > Len(Below(Kind(c))))
    <2> DEFINE f == <<"children", Obj(c), Pos(c) + 1>>
               child == Below(Kind(c))[Pos(c)]
               g == Frame("drop", Entry(child))
    <2>1. child \in Kinds /\ Pos(c) + 1 \in 0..4
      BY <1>2, <1>3, <1>6 DEF Below, Kinds
    <2>2. f \in FrameSet /\ f[1] = "children" /\ f[2] = Obj(c) /\ f[3] # 0
      <3>1. "children" \in Frames
        BY DEF Frames
      <3>2. f \in FrameSet
        BY <1>2, <2>1, <3>1, Tuples
      <3>3. f[3] = Pos(c) + 1
        OBVIOUS
      <3> QED
        BY <1>3, <3>2, <3>3
    <2>3. Now(f)
      BY <1>2, <2>2 DEF Now, FrameIn, Going, Phase
    <2>4. f[1] \notin Calling \cup {"build"}
      BY <2>2 DEF Calling
    <2>5. Become(c, <<f>> \o (IF table[child] = 0 THEN <<>> ELSE <<g>>))
      BY <1>6 DEF DeleteChildren
    <2> HIDE DEF f, child
    <2>6. CASE table[child] = 0
      <3>1. <<f>> \o <<>> = <<f>>
        OBVIOUS
      <3>2. Become(c, <<f>>)
        BY <2>5, <2>6, <3>1
      <3> QED
        BY <1>1, <1>2, <1>4, <2>2, <2>3, <2>4, <3>2, OffOne
    <2>7. CASE table[child] # 0
      <3>1. Entry(child) \in Objs /\ life[Entry(child)] = "live"
        BY <2>1, <2>7, ObjFacts DEF IInv
      <3>2. g \in FrameSet /\ g[1] = "drop" /\ g[2] = Entry(child)
        <4>1. "drop" \in Frames
          BY DEF Frames
        <4> QED
          BY <3>1, <4>1, Tuples
      <3>3. Now(g) /\ g[1] \notin Calling \cup Phase \cup {"build"}
        BY <3>1, <3>2 DEF Now, FrameIn, Going, Phase, Calling
      <3> HIDE DEF g
      <3>4. <<f>> \o <<g>> = <<f, g>>
        BY <2>2, <3>2, TwoFrames
      <3>5. Become(c, <<f, g>>)
        BY <2>5, <2>7, <3>4
      <3> QED
        BY <1>1, <1>2, <1>4, <2>2, <2>3, <2>4, <3>2, <3>3, <3>5, OffTwo
    <2> QED
      BY <2>6, <2>7
  <1> QED
    BY <1>5, <1>6 DEF DeleteChildren

-----------------------------------------------------------------------------
(* The steps that change the object they are about: the frames below, and of  *)
(* others, stay true of it.                                                   *)

(* The frame on top is replaced by fs, and nobody's call or creation moves. *)
LEMMA OffChange ==
    ASSUME IInv, NEW c \in Clients, stack[c] # <<>>,
           Top(c)[1] \notin {"ref", "body", "attr", "build"},
           NEW fs \in Seq(FrameSet), Become(c, fs), Len(fs) <= 1,
           \A h \in FrameSet : Now(h) /\ ~Alike(h, Top(c)) => Then(h),
           \A i \in 1..Len(fs) : /\ fs[i][1] \notin Calling \cup {"build"}
                                 /\ Then(fs[i])
                                 /\ \/ fs[i][1] \notin Phase
                                    \/ Top(c)[1] \in Phase /\ fs[i][2] = Top(c)[2]
                                    \/ refs[fs[i][2]] # 0
    PROVE  /\ StackInv' /\ FrameInv' /\ AloneInv'
           /\ \A o \in Objs : Holders(o)' = Holders(o)
  <1> DEFINE n == Len(stack[c]) - 1
  <1>1. Onto(c, n, fs) /\ n < Len(stack[c])
    BY BecomeOnto, TopFacts DEF IInv
  <1>2. Off(stack[c])
    BY OffFacts DEF IInv
  <1>3. Off(fs)
    <2>1. DOMAIN fs = 1..Len(fs)
      OBVIOUS
    <2> QED
      BY <2>1 DEF Off
  <1>4. StackInv' /\ \A o \in Objs : Holders(o)' = Holders(o)
    BY <1>1, <1>2, <1>3, OffStep DEF IInv
  <1>5. FrameInv'
    BY <1>1, FrameStep DEF IInv
  <1>6. ASSUME NEW i \in 1..Len(fs)
        PROVE  \/ \A h \in FrameSet : Alike(h, fs[i]) => Alike(h, Top(c))
               \/ \A d \in Clients : \A j \in DOMAIN stack[d] : ~Alike(stack[d][j], fs[i])
    <2> DEFINE f == fs[i]
    <2>1. \/ f[1] \notin Phase
          \/ Top(c)[1] \in Phase /\ f[2] = Top(c)[2]
          \/ refs[f[2]] # 0
      OBVIOUS
    <2>2. f[1] # "build"
      OBVIOUS
    <2> HIDE DEF f
    <2>3. \/ \A h \in FrameSet : Alike(h, f) => Alike(h, Top(c))
          \/ \A d \in Clients : \A j \in DOMAIN stack[d] : ~Alike(stack[d][j], f)
      <3>1. CASE f[1] \notin Phase
        BY <2>2, <3>1 DEF Alike
      <3>2. CASE Top(c)[1] \in Phase /\ f[2] = Top(c)[2]
        BY <2>2, <3>2 DEF Alike
      <3>3. CASE refs[f[2]] # 0
        <4> SUFFICES ASSUME NEW d \in Clients, NEW j \in DOMAIN stack[d], Alike(stack[d][j], f)
                     PROVE  FALSE
          OBVIOUS
        <4>1. stack[d][j][1] \in Phase /\ stack[d][j][2] = f[2]
          BY <2>2 DEF Alike
        <4>2. Now(stack[d][j])
          BY DEF IInv, FrameInv
        <4> QED
          BY <3>3, <4>1, <4>2 DEF Now, FrameIn, Phase, Going
      <3> QED
        BY <2>1, <3>1, <3>2, <3>3
    <2> QED
      BY <2>3 DEF f
  <1>7. AloneInv'
    <2>1. \A i, j \in 1..Len(fs) : i = j
      <3>1. Len(fs) \in Nat
        OBVIOUS
      <3> QED
        BY <3>1
    <2> QED
      BY <1>1, <1>6, <2>1, AloneStep DEF IInv
  <1> QED
    BY <1>4, <1>5, <1>7

LEMMA GotoOne ==
    ASSUME NEW c \in Clients, Obj(c) \in Objs, NEW s \in Frames, Goto(c, s)
    PROVE  \E fs \in Seq(FrameSet) :
              /\ Become(c, fs) /\ Len(fs) = 1
              /\ \A i \in 1..Len(fs) : fs[i] \in FrameSet /\ fs[i][1] = s /\ fs[i][2] = Obj(c)
  <1> DEFINE f == Frame(s, Obj(c))
             fs == <<f>>
  <1>1. f \in FrameSet /\ f[1] = s /\ f[2] = Obj(c)
    BY Tuples
  <1>2. fs \in Seq(FrameSet) /\ Len(fs) = 1 /\ fs[1] = f
    BY <1>1, Sequences
  <1>3. Become(c, fs)
    BY DEF Goto
  <1> HIDE DEF fs, f
  <1>4. \A i \in 1..Len(fs) : i = 1
    BY <1>2
  <1> QED
    BY <1>1, <1>2, <1>3, <1>4

LEMMA PopNone ==
    ASSUME NEW c \in Clients, Pop(c)
    PROVE  \E fs \in Seq(FrameSet) : Become(c, fs) /\ Len(fs) = 0 /\ 1..Len(fs) = {}
  <1> DEFINE fs == <<>>
  <1>1. fs \in Seq(FrameSet) /\ Len(fs) = 0
    BY Sequences
  <1>2. Become(c, fs)
    BY DEF Pop
  <1> HIDE DEF fs
  <1>3. 1..Len(fs) = {}
    BY <1>1
  <1> QED
    BY <1>1, <1>2, <1>3

LEMMA OfDeleteBelow ==
    ASSUME IInv, NEW c \in Clients, DeleteBelow(c)
    PROVE  IInv'
  <1> DEFINE o == Obj(c)
             k == Kind(c)
             s == IF k = "mac" THEN "free" ELSE "complete"
  <1>1. /\ In(c, "below") /\ UNCHANGED <<made, life, refs, dels, completed>>
        /\ table' = [table EXCEPT ![k] = 0] /\ Goto(c, s)
    BY DEF DeleteBelow, counts
  <1>2. /\ stack[c] # <<>> /\ Top(c)[1] = "below" /\ Top(c)[2] = o /\ o \in Objs
        /\ Now(Top(c)) /\ table[k] = o[2] /\ k = o[1] /\ k \in Kinds /\ refs[o] = 0
    BY <1>1, TopIn DEF Phase, Going
  <1>3. table \in [Kinds -> 0..MaxNew]
    BY DEF IInv, DataInv
  <1>4. \A q \in Objs : q[1] \in Kinds /\ q[2] \in 1..MaxNew /\ q = <<q[1], q[2]>>
    BY ObjFacts DEF IInv
  <1>5. \A j \in Kinds : table'[j] = IF j = k THEN 0 ELSE table[j]
    BY <1>1, <1>3
  <1>6. s \in Frames /\ s \in {"free", "complete"} /\ (s = "free" => k = "mac")
    BY DEF Frames
  <1>7. PICK fs \in Seq(FrameSet) :
              /\ Become(c, fs) /\ Len(fs) = 1
              /\ \A i \in 1..Len(fs) : fs[i] \in FrameSet /\ fs[i][1] = s /\ fs[i][2] = o
    BY <1>1, <1>2, <1>6, GotoOne
  <1> HIDE DEF s, o, k
  <1>8. ASSUME NEW h \in FrameSet, Now(h), ~Alike(h, Top(c)) PROVE Then(h)
    <2>1. h[2] \in Objs
      BY Tuples
    <2>2. ~(h[1] \in Phase /\ h[2] = o)
      BY <1>2, <1>8 DEF Alike, Phase
    <2>3. h[1] \in Phase => h[2][1] # k
      <3> SUFFICES ASSUME h[1] \in Phase, h[2][1] = k PROVE FALSE
        OBVIOUS
      <3>1. table[k] = h[2][2]
        BY <1>8 DEF Now, FrameIn
      <3> QED
        BY <1>2, <1>4, <2>1, <2>2, <3>1
    <2> QED
      BY <1>1, <1>4, <1>5, <1>8, <2>1, <2>3 DEF Now, Then, FrameIn, Going, Phase
  <1>9. ASSUME NEW i \in 1..Len(fs)
        PROVE  Then(fs[i]) /\ fs[i][1] \notin Phase \cup Calling \cup {"build"}
    <2>1. fs[i][1] = s /\ fs[i][2] = o
      BY <1>7
    <2>2. table'[k] # o[2]
      BY <1>2, <1>4, <1>5
    <2> QED
      BY <1>1, <1>2, <1>6, <2>1, <2>2 DEF Now, Then, FrameIn, Going, Phase, Calling
  <1>10. /\ StackInv' /\ FrameInv' /\ AloneInv'
         /\ \A q \in Objs : Holders(q)' = Holders(q)
    <2>1. Top(c)[1] \notin {"ref", "body", "attr", "build"}
      BY <1>2
    <2>2. Len(fs) <= 1
      BY <1>7
    <2>3. Become(c, fs)
      BY <1>7
    <2>4. \A i \in 1..Len(fs) : /\ fs[i][1] \notin Calling \cup {"build"}
                                /\ Then(fs[i])
                                /\ fs[i][1] \notin Phase
      BY <1>9
    <2> QED
      BY <1>2, <1>8, <2>1, <2>2, <2>3, <2>4, OffChange
  <1>11. DataInv'
    <2>1. table' \in [Kinds -> 0..MaxNew]
      <3>1. 0 \in 0..MaxNew
        BY ObjectsAssumption
      <3> QED
        BY <1>1, <1>3, <3>1
    <2> QED
      BY <1>1, <1>5, <2>1 DEF IInv, DataInv
  <1>12. ObjInv'
    <2> SUFFICES ASSUME NEW q \in Objs PROVE ObjOK(q)'
      BY DEF ObjInv
    <2>1. ObjOK(q)
      BY DEF IInv, ObjInv
    <2>2. life[q] = "live" /\ refs[q] > 0 => q[1] # k
      <3> SUFFICES ASSUME life[q] = "live", refs[q] > 0, q[1] = k PROVE FALSE
        OBVIOUS
      <3>1. q = o
        BY <1>2, <1>4, <2>1 DEF ObjOK
      <3> QED
        BY <1>2, <3>1
    <2> QED
      BY <1>1, <1>4, <1>5, <2>1, <2>2 DEF ObjOK
  <1>13. CountInv'
    BY <1>1, <1>10, CountKept DEF IInv
  <1> QED
    BY <1>10, <1>11, <1>12, <1>13 DEF IInv

LEMMA OfComplete ==
    ASSUME IInv, NEW c \in Clients, Complete(c)
    PROVE  IInv'
  <1> DEFINE o == Obj(c)
  <1>1. /\ In(c, "complete") /\ UNCHANGED <<table, made, life, refs, dels>>
        /\ completed' = [completed EXCEPT ![o] = TRUE] /\ Goto(c, "free")
    BY DEF Complete, tables
  <1>2. /\ stack[c] # <<>> /\ Top(c)[1] = "complete" /\ Top(c)[2] = o /\ o \in Objs
        /\ Now(Top(c)) /\ refs[o] = 0
    BY <1>1, TopIn DEF Going
  <1>3. completed \in [Objs -> BOOLEAN]
    BY DEF IInv, DataInv
  <1>4. "free" \in Frames
    BY DEF Frames
  <1>5. PICK fs \in Seq(FrameSet) :
              /\ Become(c, fs) /\ Len(fs) = 1
              /\ \A i \in 1..Len(fs) : fs[i] \in FrameSet /\ fs[i][1] = "free" /\ fs[i][2] = o
    BY <1>1, <1>2, <1>4, GotoOne
  <1> HIDE DEF o
  <1>6. ASSUME NEW h \in FrameSet, Now(h) PROVE Then(h)
    <2>1. h[2] \in Objs
      BY Tuples
    <2>2. completed[h[2]] => completed'[h[2]]
      BY <1>1, <1>3, <2>1
    <2> QED
      BY <1>1, <1>6, <2>2 DEF Now, Then, FrameIn
  <1>7. ASSUME NEW i \in 1..Len(fs)
        PROVE  Then(fs[i]) /\ fs[i][1] \notin Phase \cup Calling \cup {"build"}
    <2>1. fs[i][1] = "free" /\ fs[i][2] = o
      BY <1>5
    <2>2. completed'[o]
      BY <1>1, <1>2, <1>3
    <2> QED
      BY <1>1, <1>2, <2>1, <2>2 DEF Now, Then, FrameIn, Going, Phase, Calling
  <1>8. /\ StackInv' /\ FrameInv' /\ AloneInv'
        /\ \A q \in Objs : Holders(q)' = Holders(q)
    <2>1. Top(c)[1] \notin {"ref", "body", "attr", "build"}
      BY <1>2
    <2>2. Len(fs) <= 1
      BY <1>5
    <2>3. Become(c, fs)
      BY <1>5
    <2>4. \A i \in 1..Len(fs) : /\ fs[i][1] \notin Calling \cup {"build"}
                                /\ Then(fs[i])
                                /\ fs[i][1] \notin Phase
      BY <1>7
    <2> QED
      BY <1>2, <1>6, <2>1, <2>2, <2>3, <2>4, OffChange
  <1>9. DataInv'
    BY <1>1, <1>3 DEF IInv, DataInv
  <1>10. ObjInv'
    BY <1>1 DEF IInv, ObjInv, ObjOK
  <1>11. CountInv'
    BY <1>1, <1>8, CountKept DEF IInv
  <1> QED
    BY <1>8, <1>9, <1>10, <1>11 DEF IInv

LEMMA OfFreeObject ==
    ASSUME IInv, NEW c \in Clients, FreeObject(c)
    PROVE  IInv'
  <1> DEFINE o == Obj(c)
  <1>1. /\ In(c, "free") /\ UNCHANGED <<table, made, completed, refs, dels>>
        /\ life' = [life EXCEPT ![o] = "freed"] /\ Pop(c)
    BY DEF FreeObject, tables
  <1>2. /\ stack[c] # <<>> /\ Top(c)[1] = "free" /\ Top(c)[2] = o /\ o \in Objs
        /\ Now(Top(c)) /\ refs[o] = 0 /\ life[o] \in {"live", "freed"} /\ CountOK(o)
    BY <1>1, TopIn DEF Going
  <1>3. table[o[1]] # o[2] /\ (completed[o] \/ o[1] = "mac")
    BY <1>2 DEF Now, FrameIn
  <1>4. life \in [Objs -> {"none", "built", "live", "freed"}]
    BY DEF IInv, DataInv
  <1>5. PICK fs \in Seq(FrameSet) : Become(c, fs) /\ Len(fs) = 0 /\ 1..Len(fs) = {}
    BY <1>1, PopNone
  <1> HIDE DEF o
  <1>6. \A q \in Objs : life'[q] = IF q = o THEN "freed" ELSE life[q]
    BY <1>1, <1>4
  <1>7. ASSUME NEW h \in FrameSet, Now(h) PROVE Then(h)
    <2>1. h[2] \in Objs
      BY Tuples
    <2>2. h[2] = o => h[1] # "build"
      BY <1>2, <1>7 DEF Now, FrameIn
    <2> QED
      BY <1>1, <1>3, <1>6, <1>7, <2>1, <2>2 DEF Now, Then, FrameIn
  <1>8. /\ StackInv' /\ FrameInv' /\ AloneInv'
        /\ \A q \in Objs : Holders(q)' = Holders(q)
    <2>1. Top(c)[1] \notin {"ref", "body", "attr", "build"}
      BY <1>2
    <2>2. Become(c, fs) /\ Len(fs) <= 1 /\ 1..Len(fs) = {}
      BY <1>5
    <2> QED
      BY <1>2, <1>7, <2>1, <2>2, OffChange
  <1>9. DataInv'
    <2>1. life' \in [Objs -> {"none", "built", "live", "freed"}]
      BY <1>1, <1>4
    <2>2. ASSUME NEW k \in Kinds, table[k] # 0 PROVE life'[<<k, table[k]>>] = "live"
      <3>1. /\ Entry(k) \in Objs /\ Entry(k)[1] = k /\ Entry(k)[2] = table[k]
            /\ life[Entry(k)] = "live"
        BY <2>2, ObjFacts DEF IInv
      <3>2. Entry(k) # o
        BY <1>3, <3>1
      <3>3. life'[Entry(k)] = "live"
        BY <1>6, <3>1, <3>2
      <3> QED
        BY <3>3 DEF Entry
    <2> QED
      BY <1>1, <2>1, <2>2 DEF IInv, DataInv
  <1>10. ObjInv'
    <2> SUFFICES ASSUME NEW q \in Objs PROVE ObjOK(q)'
      BY DEF ObjInv
    <2>1. ObjOK(q)
      BY DEF IInv, ObjInv
    <2> QED
      BY <1>1, <1>2, <1>6, <2>1 DEF ObjOK
  <1>11. CountInv'
    <2> SUFFICES ASSUME NEW q \in Objs PROVE CountOK(q)'
      BY DEF CountInv
    <2>1. CountOK(q) /\ Holders(q)' = Holders(q)
      BY <1>8 DEF IInv, CountInv
    <2>2. q = o /\ dels[o] <= 1 => Holders(o) = {}
      <3> SUFFICES ASSUME q = o, dels[o] <= 1, life[o] = "live" PROVE Holders(o) = {}
        BY <1>2 DEF CountOK
      <3>1. IsFiniteSet(Holders(o)) /\ 0 = Cardinality(Holders(o)) + (1 - dels[o])
        BY <1>2 DEF CountOK
      <3>2. dels[o] \in Nat
        BY <1>2 DEF IInv, DataInv
      <3>3. Cardinality(Holders(o)) \in Nat
        BY <3>1, FS_CardinalityType
      <3>4. Cardinality(Holders(o)) = 0
        BY <3>1, <3>2, <3>3
      <3> QED
        BY <3>1, <3>4, FS_EmptySet
    <2> QED
      BY <1>1, <1>6, <2>1, <2>2 DEF CountOK
  <1> QED
    BY <1>8, <1>9, <1>10, <1>11 DEF IInv

LEMMA OfDrop ==
    ASSUME IInv, NEW c \in Clients, Drop(c)
    PROVE  IInv'
  <1> DEFINE o == Obj(c)
             s == IF refs[o] = 1 THEN "release" ELSE "wait"
  <1>1. /\ In(c, "drop") /\ UNCHANGED <<table, made, life, completed>>
        /\ dels' = [dels EXCEPT ![o] = @ + 1]
        /\ refs' = [refs EXCEPT ![o] = OneLess(@)] /\ Goto(c, s)
    BY DEF Drop, tables
  <1>2. /\ stack[c] # <<>> /\ Top(c)[1] = "drop" /\ Top(c)[2] = o /\ o \in Objs
        /\ Now(Top(c)) /\ life[o] \in {"live", "freed"} /\ CountOK(o) /\ ObjOK(o)
    BY <1>1, TopIn
  <1>3. refs \in [Objs -> Nat] /\ dels \in [Objs -> Nat]
    BY DEF IInv, DataInv
  <1>4. /\ \A q \in Objs : refs'[q] = IF q = o THEN OneLess(refs[o]) ELSE refs[q]
        /\ \A q \in Objs : dels'[q] = IF q = o THEN dels[o] + 1 ELSE dels[q]
    BY <1>1, <1>3
  <1>5. /\ s \in Frames /\ s \in {"release", "wait"} /\ (s = "release" <=> refs[o] = 1)
    BY DEF Frames
  <1>6. PICK fs \in Seq(FrameSet) :
              /\ Become(c, fs) /\ Len(fs) = 1
              /\ \A i \in 1..Len(fs) : fs[i] \in FrameSet /\ fs[i][1] = s /\ fs[i][2] = o
    BY <1>1, <1>2, <1>5, GotoOne
  <1> HIDE DEF s, o
  <1>7. ASSUME NEW h \in FrameSet, Now(h) PROVE Then(h)
    <2>1. h[2] \in Objs
      BY Tuples
    <2>2. refs[h[2]] = 0 => refs'[h[2]] = 0
      BY <1>4, <2>1 DEF OneLess
    <2> QED
      BY <1>1, <1>7, <2>2 DEF Now, Then, FrameIn
  <1>8. ASSUME NEW i \in 1..Len(fs)
        PROVE  /\ Then(fs[i]) /\ fs[i][1] \notin Calling \cup {"build"}
               /\ fs[i][1] \notin Phase \/ refs[fs[i][2]] # 0
    <2>1. fs[i][1] = s /\ fs[i][2] = o
      BY <1>6
    <2>2. s = "release" => refs'[o] = 0 /\ table[o[1]] = o[2] /\ refs[o] # 0
      BY <1>2, <1>4, <1>5 DEF ObjOK, OneLess
    <2> QED
      BY <1>1, <1>2, <1>5, <2>1, <2>2 DEF Now, Then, FrameIn, Going, Phase, Calling
  <1>9. /\ StackInv' /\ FrameInv' /\ AloneInv'
        /\ \A q \in Objs : Holders(q)' = Holders(q)
    <2>1. Top(c)[1] \notin {"ref", "body", "attr", "build"}
      BY <1>2
    <2>2. Len(fs) <= 1
      BY <1>6
    <2>3. Become(c, fs)
      BY <1>6
    <2>4. \A i \in 1..Len(fs) : /\ fs[i][1] \notin Calling \cup {"build"}
                                /\ Then(fs[i])
                                /\ fs[i][1] \notin Phase \/ refs[fs[i][2]] # 0
      BY <1>8
    <2> QED
      BY <1>2, <1>7, <2>1, <2>2, <2>3, <2>4, OffChange
  <1>10. DataInv'
    <2>1. OneLess(refs[o]) \in Nat /\ dels[o] + 1 \in Nat
      BY <1>2, <1>3 DEF OneLess
    <2>2. refs' \in [Objs -> Nat] /\ dels' \in [Objs -> Nat]
      BY <1>1, <1>3, <2>1
    <2> QED
      BY <1>1, <2>2 DEF IInv, DataInv
  <1>11. ObjInv'
    <2> SUFFICES ASSUME NEW q \in Objs PROVE ObjOK(q)'
      BY DEF ObjInv
    <2>1. ObjOK(q) /\ refs[q] \in Nat
      BY <1>3 DEF IInv, ObjInv
    <2> QED
      BY <1>1, <1>2, <1>4, <2>1 DEF ObjOK, OneLess
  <1>12. CountInv'
    <2> SUFFICES ASSUME NEW q \in Objs PROVE CountOK(q)'
      BY DEF CountInv
    <2>1. CountOK(q) /\ Holders(q)' = Holders(q) /\ refs[q] \in Nat /\ dels[q] \in Nat
      BY <1>3, <1>9 DEF IInv, CountInv
    <2>2. Cardinality(Holders(q)) \in Nat
      BY <2>1, FS_CardinalityType DEF CountOK
    <2>3. CASE q # o
      BY <1>1, <1>4, <2>1, <2>3 DEF CountOK
    <2>4. CASE q = o
      BY <1>1, <1>2, <1>4, <2>1, <2>2, <2>4 DEF CountOK, OneLess
    <2> QED
      BY <2>3, <2>4
  <1> QED
    BY <1>9, <1>10, <1>11, <1>12 DEF IInv

-----------------------------------------------------------------------------
(* Calls: a reference is taken and put. *)

LEMMA CallShape ==
    ASSUME IInv, NEW c \in Clients, In(c, "ref") \/ In(c, "body")
    PROVE  \/ Len(stack[c]) = 1
           \/ Len(stack[c]) = 2 /\ stack[c][1][1] \in {"touch", "configured"}
  <1>1. stack[c] # <<>> /\ Top(c)[1] \in {"ref", "body"}
    BY DEF In
  <1>2. /\ Len(stack[c]) \in Nat \ {0} /\ DOMAIN stack[c] = 1..Len(stack[c])
        /\ Top(c) = stack[c][Len(stack[c])] /\ Shaped(stack[c])
    BY <1>1, TopFacts DEF IInv, StackInv
  <1>3. \E i \in DOMAIN stack[c] : stack[c][i][1] \in Calling
    BY <1>1, <1>2 DEF Calling
  <1> QED
    BY <1>1, <1>2, <1>3 DEF Shaped

(* Holders of what c holds, and of anything else *)
LEMMA HoldersMove ==
    ASSUME NEW c \in Clients, NEW n, NEW fs, Onto(c, n, fs), NEW q \in Objs
    PROVE  /\ HasBody(stack'[c], q) => Holders(q)' = Holders(q) \cup {c}
           /\ ~HasBody(stack'[c], q) => Holders(q)' = Holders(q) \ {c}
           /\ HasBody(stack[c], q) <=> c \in Holders(q)
  <1>1. Holders(q) = {d \in Clients : HasBody(stack[d], q)}
    BY DEF Holders, HasBody
  <1>2. Holders(q)' = {d \in Clients : HasBody(stack'[d], q)}
    BY DEF Holders, HasBody
  <1>3. \A d \in Clients \ {c} : HasBody(stack'[d], q) <=> HasBody(stack[d], q)
    BY DEF Onto
  <1> QED
    BY <1>1, <1>2, <1>3

LEMMA OfPut ==
    ASSUME IInv, NEW c \in Clients, Put(c)
    PROVE  IInv'
  <1> DEFINE o == Obj(c)
             n == Len(stack[c]) - 1
  <1>1. /\ In(c, "body") /\ UNCHANGED <<table, made, life, completed, dels>>
        /\ Len(stack[c]) = 1 \/ stack[c][1][1] # "configured"
        /\ refs' = [refs EXCEPT ![o] = OneLess(@)]
        /\ IF refs[o] = 1 THEN Goto(c, "release") ELSE Pop(c)
    BY DEF Put, tables
  <1>2. /\ stack[c] # <<>> /\ Top(c)[1] = "body" /\ Top(c)[2] = o /\ o \in Objs
        /\ Now(Top(c)) /\ life[o] \in {"live", "freed"} /\ CountOK(o) /\ ObjOK(o)
    BY <1>1, TopIn
  <1>3. refs \in [Objs -> Nat] /\ dels \in [Objs -> Nat]
    BY DEF IInv, DataInv
  <1>4. \A q \in Objs : refs'[q] = IF q = o THEN OneLess(refs[o]) ELSE refs[q]
    BY <1>1, <1>3
  <1>5. "release" \in Frames
    BY DEF Frames
  <1>6. PICK fs \in Seq(FrameSet) :
              /\ Become(c, fs) /\ Len(fs) \in Nat /\ Len(fs) <= 1
              /\ \A i \in 1..Len(fs) : fs[i] \in FrameSet /\ fs[i][1] = "release" /\ fs[i][2] = o
              /\ Len(fs) # 0 => refs[o] = 1
    <2>1. CASE refs[o] = 1
      <3>1. Goto(c, "release")
        BY <1>1, <2>1
      <3>2. PICK fs \in Seq(FrameSet) :
              /\ Become(c, fs) /\ Len(fs) = 1
              /\ \A i \in 1..Len(fs) : fs[i] \in FrameSet /\ fs[i][1] = "release" /\ fs[i][2] = o
        BY <3>1, <1>2, <1>5, GotoOne
      <3>3. Len(fs) \in Nat /\ Len(fs) <= 1
        BY <3>2
      <3> QED
        BY <2>1, <3>2, <3>3
    <2>2. CASE refs[o] # 1
      <3>1. Pop(c)
        BY <1>1, <2>2
      <3>2. PICK fs \in Seq(FrameSet) : Become(c, fs) /\ Len(fs) = 0 /\ 1..Len(fs) = {}
        BY <3>1, PopNone
      <3>3. Len(fs) \in Nat /\ Len(fs) <= 1 /\ ~(Len(fs) # 0)
        BY <3>2
      <3> QED
        BY <3>2, <3>3
    <2> QED
      BY <2>1, <2>2
  <1>7. Onto(c, n, fs) /\ n < Len(stack[c])
    BY <1>2, <1>6, BecomeOnto, TopFacts DEF IInv
  <1>8. /\ Len(stack[c]) \in Nat \ {0} /\ DOMAIN stack[c] = 1..Len(stack[c])
        /\ Top(c) = stack[c][Len(stack[c])] /\ Shaped(stack[c])
        /\ Len(stack[c]) # 1 => Len(stack[c]) = 2 /\ stack[c][1][1] = "touch"
    BY <1>1, <1>2, TopFacts, CallShape DEF IInv, StackInv
  <1>9. Off(stack'[c])
    <2> SUFFICES ASSUME NEW i \in DOMAIN stack'[c]
                 PROVE  stack'[c][i][1] \notin Calling \cup {"build"}
      BY DEF Off
    <2>1. \/ i \in 1..n /\ stack'[c][i] = stack[c][i]
          \/ i - n \in 1..Len(fs) /\ stack'[c][i] = fs[i - n]
      BY <1>7, FramesFrom DEF IInv
    <2>2. i \in 1..n => i = 1 /\ Len(stack[c]) = 2
      BY <1>8
    <2> QED
      BY <1>6, <1>8, <2>1, <2>2 DEF Calling
  <1> HIDE DEF n, o
  <1>10. StackInv'
    BY <1>7, <1>9, ShapeStep DEF IInv, Off, Shaped
  <1>11. ASSUME NEW h \in FrameSet, Now(h) PROVE Then(h)
    <2>1. h[2] \in Objs
      BY Tuples
    <2>2. refs[h[2]] = 0 => refs'[h[2]] = 0
      BY <1>4, <2>1 DEF OneLess
    <2> QED
      BY <1>1, <1>11, <2>2 DEF Now, Then, FrameIn
  <1>12. ASSUME NEW i \in 1..Len(fs) PROVE Then(fs[i]) /\ refs[o] = 1
    <2>1. fs[i][1] = "release" /\ fs[i][2] = o /\ refs[o] = 1
      BY <1>6
    <2>2. refs'[o] = 0 /\ table[o[1]] = o[2] /\ life[o] = "live"
      BY <1>2, <1>4, <2>1 DEF ObjOK, OneLess
    <2> QED
      BY <1>1, <1>2, <2>1, <2>2 DEF Then, FrameIn, Going, Phase
  <1>13. FrameInv'
    BY <1>7, <1>11, <1>12, FrameStep DEF IInv
  <1>14. AloneInv'
    <2>1. \A i, j \in 1..Len(fs) : i = j
      BY <1>6
    <2>2. ASSUME NEW i \in 1..Len(fs), NEW d \in Clients, NEW j \in DOMAIN stack[d],
                 Alike(stack[d][j], fs[i])
          PROVE  FALSE
      <3>1. fs[i][1] = "release" /\ fs[i][2] = o /\ refs[o] = 1
        BY <1>6
      <3>2. stack[d][j][1] \in Phase /\ stack[d][j][2] = o
        BY <2>2, <3>1 DEF Alike
      <3>3. Now(stack[d][j])
        BY DEF IInv, FrameInv
      <3> QED
        BY <3>1, <3>2, <3>3 DEF Now, FrameIn, Phase, Going
    <2> QED
      BY <1>7, <2>1, <2>2, AloneStep DEF IInv
  <1>15. DataInv'
    <2>1. OneLess(refs[o]) \in Nat
      BY <1>2, <1>3 DEF OneLess
    <2>2. refs' \in [Objs -> Nat]
      BY <1>1, <1>3, <2>1 DEF o
    <2> QED
      BY <1>1, <2>2 DEF IInv, DataInv
  <1>16. ObjInv'
    <2> SUFFICES ASSUME NEW q \in Objs PROVE ObjOK(q)'
      BY DEF ObjInv
    <2>1. ObjOK(q) /\ refs[q] \in Nat
      BY <1>3 DEF IInv, ObjInv
    <2> QED
      BY <1>1, <1>2, <1>4, <2>1 DEF ObjOK, OneLess
  <1>17. CountInv'
    <2> SUFFICES ASSUME NEW q \in Objs PROVE CountOK(q)'
      BY DEF CountInv
    <2>1. CountOK(q) /\ refs[q] \in Nat /\ dels[q] \in Nat
      BY <1>3 DEF IInv, CountInv
    <2>2. ~HasBody(stack'[c], q)
      BY <1>9 DEF Off, HasBody, Calling
    <2>3. Holders(q)' = Holders(q) \ {c} /\ (HasBody(stack[c], q) <=> c \in Holders(q))
      BY <1>7, <2>2, HoldersMove
    <2>4. CASE q # o
      <3>1. ~HasBody(stack[c], q)
        <4> SUFFICES ASSUME NEW i \in DOMAIN stack[c], stack[c][i][1] = "body", stack[c][i][2] = q
                     PROVE  FALSE
          BY DEF HasBody
        <4>1. i = Len(stack[c]) \/ (i = 1 /\ Len(stack[c]) = 2)
          BY <1>8
        <4> QED
          BY <1>2, <1>8, <2>4, <4>1
      <3>2. Holders(q)' = Holders(q)
        BY <2>3, <3>1
      <3> QED
        BY <1>1, <1>4, <2>1, <2>4, <3>2 DEF CountOK
    <2>5. CASE q = o
      <3>1. c \in Holders(q)
        <4>1. HasBody(stack[c], q)
          BY <1>2, <1>8, <2>5 DEF HasBody
        <4> QED
          BY <2>3, <4>1
      <3>2. /\ IsFiniteSet(Holders(q)')
            /\ Cardinality(Holders(q)') = Cardinality(Holders(q)) - 1
            /\ Cardinality(Holders(q)) \in Nat
        BY <2>1, <2>3, <3>1, FS_RemoveElement, FS_CardinalityType DEF CountOK
      <3>3. Cardinality(Holders(q)) # 0
        BY <2>1, <3>1, FS_EmptySet DEF CountOK
      <3> DEFINE m == Cardinality(Holders(q))
                 w == Cardinality(Holders(q)')
      <3>4. m \in Nat /\ m # 0 /\ w = m - 1 /\ IsFiniteSet(Holders(q)')
        BY <3>2, <3>3
      <3>5. /\ life[q] = "live" /\ dels[q] <= 1 => refs[q] = m + (1 - dels[q])
            /\ life[q] = "freed" => ~(dels[q] <= 1)
        BY <2>1, <3>1 DEF CountOK
      <3>6. refs'[q] = OneLess(refs[q]) /\ life'[q] = life[q] /\ dels'[q] = dels[q]
        BY <1>1, <1>2, <1>4, <2>5
      <3> HIDE DEF m
      <3>7. life[q] = "live" /\ dels[q] <= 1 => OneLess(refs[q]) = w + (1 - dels[q])
        <4> HIDE DEF w
        <4> QED
          BY <2>1, <3>4, <3>5 DEF OneLess
      <3> QED
        BY <3>4, <3>5, <3>6, <3>7 DEF CountOK
    <2> QED
      BY <2>4, <2>5
  <1> QED
    BY <1>10, <1>13, <1>14, <1>15, <1>16, <1>17 DEF IInv

LEMMA PlainAlone ==
    ASSUME IInv, NEW c \in Clients, NEW n, NEW fs \in Seq(FrameSet), Onto(c, n, fs),
           \A i \in 1..Len(fs) : fs[i][1] \notin Phase \cup {"build"}
    PROVE  AloneInv'
  <1>1. ASSUME NEW i \in 1..Len(fs), NEW f PROVE ~Alike(f, fs[i]) /\ ~Alike(fs[i], f)
    <2>1. fs[i][1] \notin Phase /\ fs[i][1] # "build"
      OBVIOUS
    <2> QED
      BY <2>1 DEF Alike
  <1> QED
    BY <1>1, AloneStep DEF IInv

LEMMA PlainStep ==
    ASSUME IInv, StackInv', UNCHANGED <<table, made, life, refs, dels, completed>>,
           NEW c \in Clients, NEW n, NEW fs \in Seq(FrameSet), Onto(c, n, fs),
           \A i \in 1..Len(fs) : Now(fs[i]) /\ fs[i][1] \notin Phase \cup {"build"},
           \A o \in Objs : HasBody(stack'[c], o) <=> HasBody(stack[c], o)
    PROVE  IInv'
  <1>1. \A f : Then(f) <=> Now(f)
    BY DEF Then, Now
  <1>2. FrameInv'
    BY <1>1, FrameStep DEF IInv
  <1>3. AloneInv'
    BY PlainAlone
  <1>4. DataInv' /\ ObjInv'
    BY DEF IInv, DataInv, ObjInv, ObjOK
  <1>5. CountInv'
    <2>1. \A o \in Objs : Holders(o)' = Holders(o)
      BY HoldersKept
    <2> QED
      BY <2>1, CountKept DEF IInv
  <1> QED
    BY <1>2, <1>3, <1>4, <1>5 DEF IInv

LEMMA OfTakeRef ==
    ASSUME IInv, NEW c \in Clients, TakeRef(c)
    PROVE  IInv'
  <1> DEFINE o == Obj(c)
             n == Len(stack[c]) - 1
  <1>1. /\ In(c, "ref") /\ UNCHANGED <<table, made, life, completed, dels>>
        /\ IF refs[o] > 0 THEN refs' = [refs EXCEPT ![o] = @ + 1] /\ Goto(c, "body")
                          ELSE UNCHANGED refs /\ stack' = [stack EXCEPT ![c] = <<>>]
    BY DEF TakeRef, tables
  <1>2. /\ stack[c] # <<>> /\ Top(c)[1] = "ref" /\ Top(c)[2] = o /\ o \in Objs
        /\ Now(Top(c)) /\ life[o] \in {"live", "freed"} /\ CountOK(o) /\ ObjOK(o)
    BY <1>1, TopIn
  <1>3. refs \in [Objs -> Nat] /\ dels \in [Objs -> Nat]
    BY DEF IInv, DataInv
  <1>4. /\ Len(stack[c]) \in Nat \ {0} /\ DOMAIN stack[c] = 1..Len(stack[c])
        /\ Top(c) = stack[c][Len(stack[c])] /\ Shaped(stack[c])
        /\ Len(stack[c]) # 1 =>
              Len(stack[c]) = 2 /\ stack[c][1][1] \in {"touch", "configured"}
    BY <1>1, <1>2, TopFacts, CallShape DEF IInv, StackInv
  <1>5. \A q \in Objs : ~HasBody(stack[c], q)
    <2> SUFFICES ASSUME NEW i \in DOMAIN stack[c], stack[c][i][1] = "body" PROVE FALSE
      BY DEF HasBody
    <2>1. i = Len(stack[c]) \/ (i = 1 /\ Len(stack[c]) = 2)
      BY <1>4
    <2> QED
      BY <1>2, <1>4, <2>1
  <1>6. CASE ~(refs[o] > 0)
    <2> DEFINE fs == <<>>
    <2>1. fs \in Seq(FrameSet) /\ Len(fs) = 0
      BY Sequences
    <2>2. stack' = [stack EXCEPT ![c] = fs]
      BY <1>1, <1>6
    <2> HIDE DEF fs
    <2>3. Onto(c, 0, fs) /\ stack'[c] = fs
      BY <2>1, <2>2, SetOnto DEF IInv
    <2>4. DOMAIN stack'[c] = {} /\ 1..Len(fs) = {}
      BY <2>1, <2>3
    <2>5. StackInv'
      BY <2>3, <2>4, ShapeStep DEF IInv, Shaped
    <2>6. \A q \in Objs : HasBody(stack'[c], q) <=> HasBody(stack[c], q)
      BY <1>5, <2>4 DEF HasBody
    <2> QED
      BY <1>1, <1>6, <2>1, <2>3, <2>4, <2>5, <2>6, PlainStep
  <1>7. CASE refs[o] > 0
    <2>1. refs' = [refs EXCEPT ![o] = @ + 1] /\ Goto(c, "body") /\ "body" \in Frames
      BY <1>1, <1>7 DEF Frames
    <2>2. \A q \in Objs : refs'[q] = IF q = o THEN refs[o] + 1 ELSE refs[q]
      BY <1>3, <2>1
    <2>3. PICK fs \in Seq(FrameSet) :
              /\ Become(c, fs) /\ Len(fs) = 1
              /\ \A i \in 1..Len(fs) : fs[i] \in FrameSet /\ fs[i][1] = "body" /\ fs[i][2] = o
      BY <1>2, <2>1, GotoOne
    <2>4. Onto(c, n, fs) /\ n < Len(stack[c])
      BY <1>2, <2>3, BecomeOnto, TopFacts DEF IInv
    <2>5. life[o] = "live" /\ table[o[1]] = o[2]
      BY <1>2, <1>7 DEF ObjOK
    <2>6. /\ Len(stack'[c]) = Len(stack[c]) /\ DOMAIN stack'[c] = 1..Len(stack[c])
          /\ stack'[c][Len(stack[c])][1] = "body" /\ stack'[c][Len(stack[c])][2] = o
          /\ Len(stack[c]) = 2 => stack'[c][1] = stack[c][1]
      <3>1. stack'[c] \in Seq(FrameSet) /\ Len(stack'[c]) = n + 1
        BY <2>3, <2>4 DEF Onto
      <3>2. stack'[c][n + 1] = fs[1] /\ fs[1][1] = "body" /\ fs[1][2] = o
        BY <2>3, <2>4 DEF Onto
      <3>3. Len(stack[c]) = 2 => stack'[c][1] = stack[c][1]
        BY <1>4, <2>4 DEF Onto
      <3> QED
        BY <1>4, <3>1, <3>2, <3>3
    <2> HIDE DEF n, o
    <2>7. StackInv'
      <3>1. \A i \in DOMAIN stack'[c] : stack'[c][i][1] # "build"
        <4> SUFFICES ASSUME NEW i \in DOMAIN stack'[c] PROVE stack'[c][i][1] # "build"
          OBVIOUS
        <4>1. i = Len(stack[c]) \/ (i = 1 /\ Len(stack[c]) = 2)
          BY <1>4, <2>6
        <4> QED
          BY <1>4, <2>6, <4>1
      <3>2. Shaped(stack'[c])
        BY <1>4, <2>6, <3>1 DEF Shaped
      <3> QED
        BY <2>4, <3>2, ShapeStep DEF IInv
    <2>8. ASSUME NEW h \in FrameSet, Now(h) PROVE Then(h)
      <3>1. h[2] \in Objs
        BY Tuples
      <3>2. refs[h[2]] = 0 => refs'[h[2]] = 0
        BY <1>7, <2>2, <3>1
      <3> QED
        BY <1>1, <2>8, <3>2 DEF Now, Then, FrameIn
    <2>9. ASSUME NEW i \in 1..Len(fs)
          PROVE  Then(fs[i]) /\ fs[i][1] \notin Phase \cup {"build"}
      <3>1. fs[i][1] = "body" /\ fs[i][2] = o
        BY <2>3
      <3> QED
        BY <1>1, <2>5, <3>1 DEF Then, FrameIn, Going, Phase
    <2>10. FrameInv'
      BY <2>4, <2>8, <2>9, FrameStep DEF IInv
    <2>11. AloneInv'
      BY <2>4, <2>9, PlainAlone
    <2>12. DataInv'
      <3>1. refs' \in [Objs -> Nat]
        BY <1>2, <1>3, <2>1 DEF o
      <3> QED
        BY <1>1, <3>1 DEF IInv, DataInv
    <2>13. ObjInv'
      <3> SUFFICES ASSUME NEW q \in Objs PROVE ObjOK(q)'
        BY DEF ObjInv
      <3>1. ObjOK(q) /\ refs[q] \in Nat
        BY <1>3 DEF IInv, ObjInv
      <3> QED
        BY <1>1, <2>2, <2>5, <3>1 DEF ObjOK
    <2>14. CountInv'
      <3> SUFFICES ASSUME NEW q \in Objs PROVE CountOK(q)'
        BY DEF CountInv
      <3>1. CountOK(q) /\ refs[q] \in Nat /\ dels[q] \in Nat
        BY <1>3 DEF IInv, CountInv
      <3>2. c \notin Holders(q)
        BY <1>5, <2>4, HoldersMove
      <3>3. CASE q # o
        <4>1. ~HasBody(stack'[c], q)
          <5> SUFFICES ASSUME NEW i \in DOMAIN stack'[c],
                              stack'[c][i][1] = "body", stack'[c][i][2] = q
                       PROVE  FALSE
            BY DEF HasBody
          <5>1. i = Len(stack[c]) \/ (i = 1 /\ Len(stack[c]) = 2)
            BY <1>4, <2>6
          <5> QED
            BY <1>4, <2>6, <3>3, <5>1
        <4>2. Holders(q)' = Holders(q) \ {c}
          BY <2>4, <4>1, HoldersMove
        <4>3. Holders(q)' = Holders(q)
          BY <3>2, <4>2
        <4> QED
          BY <1>1, <2>2, <3>1, <3>3, <4>3 DEF CountOK
      <3>4. CASE q = o
        <4>1. HasBody(stack'[c], q)
          BY <1>4, <2>6, <3>4 DEF HasBody
        <4>2. Holders(q)' = Holders(q) \cup {c}
          BY <2>4, <4>1, HoldersMove
        <4> DEFINE m == Cardinality(Holders(q))
                   w == Cardinality(Holders(q)')
        <4>3. IsFiniteSet(Holders(q)') /\ w = m + 1 /\ m \in Nat
          BY <3>1, <3>2, <4>2, FS_AddElement, FS_CardinalityType DEF CountOK
        <4>4. life[q] = "live" /\ life' = life /\ dels' = dels /\ refs'[q] = refs[q] + 1
          BY <1>1, <2>2, <2>5, <3>4
        <4>5. dels[q] <= 1 => refs[q] = m + (1 - dels[q])
          BY <3>1, <4>4 DEF CountOK
        <4> HIDE DEF m
        <4>6. dels[q] <= 1 => refs[q] + 1 = w + (1 - dels[q])
          <5> HIDE DEF w
          <5> QED
            BY <3>1, <4>3, <4>5
        <4> QED
          BY <4>3, <4>4, <4>6 DEF CountOK
      <3> QED
        BY <3>3, <3>4
    <2> QED
      BY <2>7, <2>10, <2>11, <2>12, <2>13, <2>14 DEF IInv
  <1> QED
    BY <1>3, <1>6, <1>7

LEMMA OfConfigure ==
    ASSUME IInv, NEW c \in Clients, Configure(c)
    PROVE  IInv'
  <1> DEFINE o == Obj(c)
             f == Frame("body", o)
             g == Frame("attr", o)
  <1>1. /\ In(c, "body") /\ Len(stack[c]) = 2 /\ stack[c][1][1] = "configured"
        /\ UNCHANGED <<table, made, life, refs, dels, completed>>
        /\ \/ stack' = [stack EXCEPT ![c] = <<f>>]
           \/ stack' = [stack EXCEPT ![c] = <<f, g>>]
    BY DEF Configure, tables, counts
  <1>2. /\ stack[c] # <<>> /\ Top(c)[1] = "body" /\ Top(c)[2] = o /\ o \in Objs
        /\ Now(Top(c))
    BY <1>1, TopIn
  <1>3. /\ f \in FrameSet /\ f[1] = "body" /\ f[2] = o
        /\ g \in FrameSet /\ g[1] = "attr" /\ g[2] = o
    <2>1. "body" \in Frames /\ "attr" \in Frames
      BY DEF Frames
    <2> QED
      BY <1>2, <2>1, Tuples
  <1>4. Now(f) /\ Now(g) /\ f[1] \notin Phase \cup {"build"} /\ g[1] \notin Phase \cup {"build"}
    BY <1>2, <1>3 DEF Now, FrameIn, Phase, Going
  <1>5. \A q \in Objs : HasBody(stack[c], q) <=> q = o
    <2>1. /\ DOMAIN stack[c] = {1, 2} /\ Top(c) = stack[c][2]
      BY <1>1, <1>2, TopFacts DEF IInv
    <2> QED
      BY <1>1, <1>2, <2>1 DEF HasBody
  <1> HIDE DEF f, g
  <1>6. PICK fs \in Seq(FrameSet) :
           /\ stack' = [stack EXCEPT ![c] = fs] /\ fs[1] = f
           /\ DOMAIN fs = 1..Len(fs)
           /\ \/ 1..Len(fs) = {1} /\ Len(fs) = 1
              \/ 1..Len(fs) = {1, 2} /\ Len(fs) = 2 /\ fs[2] = g
    <2>1. CASE stack' = [stack EXCEPT ![c] = <<f>>]
      <3>1. <<f>> \in Seq(FrameSet) /\ Len(<<f>>) = 1 /\ <<f>>[1] = f
        BY <1>3, Sequences
      <3>2. 1..Len(<<f>>) = {1} /\ DOMAIN <<f>> = 1..Len(<<f>>)
        BY <3>1
      <3> QED
        BY <2>1, <3>1, <3>2
    <2>2. CASE stack' = [stack EXCEPT ![c] = <<f, g>>]
      <3>1. <<f, g>> \in Seq(FrameSet) /\ Len(<<f, g>>) = 2 /\ <<f, g>>[1] = f /\ <<f, g>>[2] = g
        BY <1>3, Sequences
      <3>2. 1..Len(<<f, g>>) = {1, 2} /\ DOMAIN <<f, g>> = 1..Len(<<f, g>>)
        BY <3>1
      <3> QED
        BY <2>2, <3>1, <3>2
    <2> QED
      BY <1>1, <2>1, <2>2
  <1>7. Onto(c, 0, fs) /\ stack'[c] = fs
    BY <1>6, SetOnto DEF IInv
  <1>8. StackInv'
    <2>1. Shaped(fs)
      BY <1>3, <1>6 DEF Shaped, Calling
    <2> QED
      BY <1>7, <2>1, ShapeStep DEF IInv
  <1>9. \A q \in Objs : HasBody(stack'[c], q) <=> HasBody(stack[c], q)
    BY <1>3, <1>5, <1>6, <1>7 DEF HasBody
  <1>10. \A i \in 1..Len(fs) : Now(fs[i]) /\ fs[i][1] \notin Phase \cup {"build"}
    BY <1>4, <1>6
  <1> QED
    BY <1>1, <1>7, <1>8, <1>9, <1>10, PlainStep

LEMMA OfConfigured ==
    ASSUME IInv, NEW c \in Clients, Configured(c)
    PROVE  IInv'
  <1> DEFINE n == Len(stack[c]) - 1
  <1>1. In(c, "attr") /\ Pop(c) /\ UNCHANGED <<table, made, life, refs, dels, completed>>
    BY DEF Configured, tables, counts
  <1>2. stack[c] # <<>> /\ Top(c)[1] = "attr"
    BY <1>1, TopIn
  <1>3. PICK fs \in Seq(FrameSet) : Become(c, fs) /\ Len(fs) = 0 /\ 1..Len(fs) = {}
    BY <1>1, PopNone
  <1>4. Onto(c, n, fs)
    BY <1>2, <1>3, BecomeOnto DEF IInv
  <1>5. /\ Len(stack[c]) \in Nat \ {0} /\ DOMAIN stack[c] = 1..Len(stack[c])
        /\ Top(c) = stack[c][Len(stack[c])] /\ Shaped(stack[c])
    BY <1>2, TopFacts DEF IInv, StackInv
  <1>6. /\ DOMAIN stack'[c] = 1..n /\ Len(stack'[c]) = n /\ n \in Nat
        /\ \A i \in 1..n : stack'[c][i] = stack[c][i] /\ i \in DOMAIN stack[c]
    <2>1. stack'[c] \in Seq(FrameSet) /\ Len(stack'[c]) = n
      BY <1>3, <1>4, <1>5 DEF Onto
    <2>2. \A i \in 1..n : stack'[c][i] = stack[c][i]
      BY <1>4 DEF Onto
    <2>3. DOMAIN stack'[c] = 1..n
      BY <2>1
    <2> QED
      BY <1>5, <2>1, <2>2, <2>3
  <1>7. \A i \in DOMAIN stack[c] : i \in 1..n \/ stack[c][i] = Top(c)
    BY <1>5
  <1> HIDE DEF n
  <1>8. \A q \in Objs : HasBody(stack'[c], q) <=> HasBody(stack[c], q)
    BY <1>2, <1>6, <1>7 DEF HasBody
  <1>9. Shaped(stack'[c])
    <2>1. ASSUME NEW i \in DOMAIN stack'[c], stack'[c][i][1] \in Calling
          PROVE  Len(stack'[c]) = 1 /\ stack'[c][1][1] \in {"ref", "body"}
      <3>1. i \in DOMAIN stack[c] /\ stack[c][i][1] \in Calling
        BY <1>6, <2>1
      <3>2. Len(stack[c]) = 2 /\ stack[c][1][1] = "body"
        BY <1>2, <1>5, <3>1 DEF Shaped
      <3>3. n = 1
        BY <3>2 DEF n
      <3> QED
        BY <1>6, <3>2, <3>3
    <2>2. ASSUME NEW i \in DOMAIN stack'[c], stack'[c][i][1] = "build"
          PROVE  FALSE
      <3>1. i \in DOMAIN stack[c] /\ stack[c][i][1] = "build"
        BY <1>6, <2>2
      <3>2. Len(stack[c]) = 1
        BY <1>5, <3>1 DEF Shaped
      <3>3. i = 1
        BY <1>5, <3>1, <3>2
      <3> QED
        BY <1>2, <1>5, <3>1, <3>2, <3>3
    <2> QED
      BY <2>1, <2>2 DEF Shaped
  <1>10. StackInv'
    BY <1>4, <1>9, ShapeStep DEF IInv
  <1>11. \A i \in 1..Len(fs) : Now(fs[i]) /\ fs[i][1] \notin Phase \cup {"build"}
    BY <1>3
  <1> QED
    BY <1>1, <1>4, <1>8, <1>10, <1>11, PlainStep

-----------------------------------------------------------------------------
(* Creations *)

(* Nobody is inside a call on an object that is not published. *)
LEMMA NoHolders ==
    ASSUME IInv, NEW o \in Objs, life[o] \in {"none", "built"}
    PROVE  Holders(o) = {}
  <1> SUFFICES ASSUME NEW d \in Clients, NEW i \in DOMAIN stack[d],
                      stack[d][i][1] = "body", stack[d][i][2] = o
               PROVE  FALSE
    BY DEF Holders
  <1>1. Now(stack[d][i])
    BY DEF IInv, FrameInv
  <1> QED
    BY <1>1 DEF Now, FrameIn

LEMMA BuildFacts ==
    ASSUME IInv, NEW c \in Clients, In(c, "build")
    PROVE  /\ stack[c] # <<>> /\ Len(stack[c]) = 1 /\ stack[c][1] = Top(c)
           /\ Top(c) \in FrameSet /\ Top(c)[1] = "build" /\ Top(c)[2] = Obj(c)
           /\ Obj(c) \in Objs /\ Kind(c) = Obj(c)[1] /\ Kind(c) \in Kinds /\ Pos(c) \in 0..4
           /\ life[Obj(c)] = "built" /\ table[Kind(c)] = 0 /\ refs[Obj(c)] = 1
           /\ dels[Obj(c)] = 0 /\ Holders(Obj(c)) = {} /\ Obj(c)[2] <= made[Obj(c)[1]]
           /\ \A q : ~HasBody(stack[c], q)
  <1>1. /\ stack[c] # <<>> /\ Top(c) \in FrameSet /\ Top(c)[1] = "build" /\ Top(c)[2] = Obj(c)
        /\ Obj(c) \in Objs /\ Kind(c) = Obj(c)[1] /\ Kind(c) \in Kinds
        /\ Now(Top(c)) /\ ObjOK(Obj(c))
    BY TopIn
  <1>2. /\ Len(stack[c]) \in Nat \ {0} /\ DOMAIN stack[c] = 1..Len(stack[c])
        /\ Top(c) = stack[c][Len(stack[c])] /\ Shaped(stack[c])
    BY <1>1, TopFacts DEF IInv, StackInv
  <1>3. Len(stack[c]) = 1
    BY <1>1, <1>2 DEF Shaped
  <1>4. life[Obj(c)] = "built" /\ table[Kind(c)] = 0
    BY <1>1 DEF Now, FrameIn
  <1>5. refs[Obj(c)] = 1 /\ dels[Obj(c)] = 0 /\ Obj(c)[2] <= made[Obj(c)[1]]
    <2>1. Obj(c)[2] \in Nat /\ made[Obj(c)[1]] \in Nat
      BY <1>1, ObjFacts DEF IInv, DataInv
    <2> QED
      BY <1>1, <1>4, <2>1 DEF ObjOK
  <1>6. Pos(c) \in 0..4
    BY <1>1, Tuples DEF Pos
  <1>7. \A q : ~HasBody(stack[c], q)
    BY <1>1, <1>2, <1>3 DEF HasBody
  <1> QED
    BY <1>1, <1>2, <1>3, <1>4, <1>5, <1>6, <1>7, NoHolders

(* A creation ends: the thread's stack is empty then, the object is not in     *)
(* creation any more, and nobody else's is about it.                          *)
LEMMA BuildEnds ==
    ASSUME IInv, NEW c \in Clients, In(c, "build"), Pop(c),
           \A h \in FrameSet : Now(h) /\ ~Alike(h, Top(c)) => Then(h)
    PROVE  /\ StackInv' /\ FrameInv' /\ AloneInv'
           /\ \A o \in Objs : Holders(o)' = Holders(o)
  <1>1. /\ stack[c] # <<>> /\ Len(stack[c]) = 1 /\ \A q : ~HasBody(stack[c], q)
    BY BuildFacts
  <1>2. PICK fs \in Seq(FrameSet) : Become(c, fs) /\ Len(fs) = 0 /\ 1..Len(fs) = {}
    BY PopNone
  <1>3. Onto(c, 0, fs) /\ 0 < Len(stack[c])
    <2>1. Onto(c, Len(stack[c]) - 1, fs)
      BY <1>1, <1>2, BecomeOnto DEF IInv
    <2>2. Len(stack[c]) - 1 = 0
      BY <1>1
    <2> QED
      BY <1>1, <2>1, <2>2
  <1>4. DOMAIN stack'[c] = {}
    <2>1. stack'[c] \in Seq(FrameSet) /\ Len(stack'[c]) = 0
      BY <1>2, <1>3 DEF Onto
    <2> QED
      BY <2>1
  <1>5. StackInv'
    BY <1>3, <1>4, ShapeStep DEF IInv, Shaped
  <1>6. \A q \in Objs : HasBody(stack'[c], q) <=> HasBody(stack[c], q)
    BY <1>1, <1>4 DEF HasBody
  <1>7. FrameInv'
    BY <1>2, <1>3, FrameStep DEF IInv
  <1>8. AloneInv'
    BY <1>2, <1>3, PlainAlone
  <1> QED
    BY <1>3, <1>5, <1>6, <1>7, <1>8, HoldersKept

LEMMA OfBuildPart ==
    ASSUME IInv, NEW c \in Clients, BuildPart(c)
    PROVE  IInv'
  <1> DEFINE o == Obj(c)
             k == Kind(c)
             f == <<"build", o, Pos(c) + 1>>
  <1>1. /\ In(c, "build") /\ Pos(c) <= Len(Parts(k))
        /\ UNCHANGED <<table, made, completed, dels>>
        /\ \/ Become(c, <<f>>) /\ UNCHANGED <<life, refs>>
           \/ /\ life' = [life EXCEPT ![o] = "freed"] /\ refs' = [refs EXCEPT ![o] = 0]
              /\ Pop(c)
    BY DEF BuildPart
  <1>2. /\ stack[c] # <<>> /\ Len(stack[c]) = 1 /\ stack[c][1] = Top(c)
        /\ Top(c) \in FrameSet /\ Top(c)[1] = "build" /\ Top(c)[2] = o
        /\ o \in Objs /\ k = o[1] /\ k \in Kinds /\ Pos(c) \in 0..4
        /\ life[o] = "built" /\ table[k] = 0 /\ refs[o] = 1
        /\ dels[o] = 0 /\ Holders(o) = {} /\ o[2] <= made[o[1]]
        /\ \A q : ~HasBody(stack[c], q)
    BY <1>1, BuildFacts
  <1>3. CASE Become(c, <<f>>) /\ UNCHANGED <<life, refs>>
    <2>1. "build" \in Frames /\ Pos(c) + 1 \in 0..4
      <3>1. Len(Parts(k)) <= 3
        BY DEF Parts
      <3>2. Len(Parts(k)) \in Nat
        BY DEF Parts
      <3> HIDE DEF k
      <3> QED
        BY <1>1, <1>2, <3>1, <3>2 DEF Frames
    <2>2. f \in FrameSet /\ f[1] = "build" /\ f[2] = o /\ f[3] # 0
      <3>1. f \in FrameSet /\ f[1] = "build" /\ f[2] = o /\ f[3] = Pos(c) + 1
        BY <1>2, <2>1, Tuples
      <3>2. Pos(c) + 1 # 0
        BY <1>2
      <3> QED
        BY <3>1, <3>2
    <2> DEFINE fs == <<f>>
    <2> HIDE DEF f
    <2>3. fs \in Seq(FrameSet) /\ Len(fs) = 1 /\ fs[1] = f
      BY <2>2, Sequences
    <2>4. Become(c, fs)
      BY <1>3
    <2> HIDE DEF fs, o, k
    <2>5. Onto(c, 0, fs) /\ 0 < Len(stack[c])
      <3>1. Onto(c, Len(stack[c]) - 1, fs)
        BY <1>2, <2>3, <2>4, BecomeOnto DEF IInv
      <3>2. Len(stack[c]) - 1 = 0
        BY <1>2
      <3> QED
        BY <1>2, <3>1, <3>2
    <2>6. DOMAIN stack'[c] = {1} /\ Len(stack'[c]) = 1 /\ stack'[c][1] = f
      <3>1. stack'[c] \in Seq(FrameSet) /\ Len(stack'[c]) = 0 + 1 /\ stack'[c][0 + 1] = fs[1]
        BY <2>3, <2>5 DEF Onto
      <3> QED
        BY <2>3, <3>1
    <2>7. StackInv'
      <3>1. Shaped(stack'[c])
        BY <2>2, <2>6 DEF Shaped, Calling
      <3> QED
        BY <2>5, <3>1, ShapeStep DEF IInv
    <2>8. \A q \in Objs : Holders(q)' = Holders(q)
      <3>1. \A q \in Objs : HasBody(stack'[c], q) <=> HasBody(stack[c], q)
        BY <1>2, <2>2, <2>6 DEF HasBody
      <3> QED
        BY <2>5, <3>1, HoldersKept
    <2>9. 1..Len(fs) = {1}
      BY <2>3
    <2>10. Now(f)
      BY <1>2, <2>2 DEF Now, FrameIn, Going, Phase
    <2>11. \A h \in FrameSet : Alike(h, f) => Alike(h, Top(c))
      BY <1>2, <2>2 DEF Alike, Phase
    <2>12. /\ \A i \in 1..Len(fs) : Now(fs[i])
           /\ \A i \in 1..Len(fs) : /\ 0 < Len(stack[c])
                                    /\ \A h \in FrameSet : Alike(h, fs[i]) => Alike(h, Top(c))
           /\ \A i, j \in 1..Len(fs) : Alike(fs[i], fs[j]) => i = j
      BY <2>3, <2>5, <2>9, <2>10, <2>11
    <2>13. UNCHANGED <<table, made, life, refs, dels, completed>>
      BY <1>1, <1>3
    <2> QED
      BY <2>3, <2>5, <2>7, <2>8, <2>12, <2>13, StackStep
  <1>4. CASE /\ life' = [life EXCEPT ![o] = "freed"] /\ refs' = [refs EXCEPT ![o] = 0]
             /\ Pop(c)
    <2> HIDE DEF o, k, f
    <2>1. life \in [Objs -> {"none", "built", "live", "freed"}] /\ refs \in [Objs -> Nat]
      BY DEF IInv, DataInv
    <2>2. /\ \A q \in Objs : life'[q] = IF q = o THEN "freed" ELSE life[q]
          /\ \A q \in Objs : refs'[q] = IF q = o THEN 0 ELSE refs[q]
      BY <1>4, <2>1
    <2>3. ASSUME NEW h \in FrameSet, Now(h), ~Alike(h, Top(c)) PROVE Then(h)
      <3>1. h[2] \in Objs
        BY Tuples
      <3>2. h[2] # o
        BY <1>2, <2>3 DEF Now, FrameIn, Alike
      <3> QED
        BY <1>1, <2>2, <2>3, <3>1, <3>2 DEF Now, Then, FrameIn
    <2>4. /\ StackInv' /\ FrameInv' /\ AloneInv'
          /\ \A q \in Objs : Holders(q)' = Holders(q)
      BY <1>1, <1>4, <2>3, BuildEnds
    <2>5. DataInv'
      <3>1. /\ life' \in [Objs -> {"none", "built", "live", "freed"}]
            /\ refs' \in [Objs -> Nat]
        BY <1>4, <2>1
      <3>2. ASSUME NEW j \in Kinds, table[j] # 0 PROVE life'[<<j, table[j]>>] = "live"
        <4>1. /\ Entry(j) \in Objs /\ life[Entry(j)] = "live"
          BY <3>2, ObjFacts DEF IInv
        <4>2. life'[Entry(j)] = "live"
          BY <1>2, <2>2, <4>1
        <4> QED
          BY <4>2 DEF Entry
      <3> QED
        BY <1>1, <3>1, <3>2 DEF IInv, DataInv
    <2>6. ObjInv'
      <3> SUFFICES ASSUME NEW q \in Objs PROVE ObjOK(q)'
        BY DEF ObjInv
      <3>1. ObjOK(q)
        BY DEF IInv, ObjInv
      <3> QED
        BY <1>1, <1>2, <2>2, <3>1 DEF ObjOK
    <2>7. CountInv'
      <3> SUFFICES ASSUME NEW q \in Objs PROVE CountOK(q)'
        BY DEF CountInv
      <3>1. CountOK(q) /\ Holders(q)' = Holders(q)
        BY <2>4 DEF IInv, CountInv
      <3> QED
        BY <1>1, <1>2, <2>2, <3>1 DEF CountOK
    <2> QED
      BY <2>4, <2>5, <2>6, <2>7 DEF IInv
  <1> QED
    BY <1>1, <1>3, <1>4

LEMMA OfPublish ==
    ASSUME IInv, NEW c \in Clients, Publish(c)
    PROVE  IInv'
  <1> DEFINE o == Obj(c)
             k == Kind(c)
  <1>1. /\ In(c, "build") /\ Pop(c) /\ UNCHANGED <<made, refs, completed, dels>>
        /\ table' = [table EXCEPT ![k] = o[2]] /\ life' = [life EXCEPT ![o] = "live"]
    BY DEF Publish
  <1>2. /\ Top(c)[1] = "build" /\ Top(c)[2] = o
        /\ o \in Objs /\ k = o[1] /\ k \in Kinds
        /\ life[o] = "built" /\ table[k] = 0 /\ refs[o] = 1
        /\ dels[o] = 0 /\ Holders(o) = {} /\ o[2] <= made[o[1]]
    BY <1>1, BuildFacts
  <1>3. /\ life \in [Objs -> {"none", "built", "live", "freed"}]
        /\ table \in [Kinds -> 0..MaxNew]
    BY DEF IInv, DataInv
  <1>4. /\ \A q \in Objs : q[1] \in Kinds /\ q[2] \in 1..MaxNew /\ q = <<q[1], q[2]>>
        /\ \A j \in Kinds : table[j] # 0 =>
              /\ Entry(j) \in Objs /\ Entry(j)[1] = j /\ Entry(j)[2] = table[j]
              /\ life[Entry(j)] = "live"
    BY ObjFacts DEF IInv
  <1>5. /\ \A q \in Objs : life'[q] = IF q = o THEN "live" ELSE life[q]
        /\ \A j \in Kinds : table'[j] = IF j = k THEN o[2] ELSE table[j]
    BY <1>1, <1>3
  <1> HIDE DEF o, k
  <1>6. ASSUME NEW h \in FrameSet, Now(h), ~Alike(h, Top(c)) PROVE Then(h)
    <2>1. h[2] \in Objs /\ h[2][1] \in Kinds /\ h[2][2] \in 1..MaxNew
          /\ h[2] = <<h[2][1], h[2][2]>> /\ o = <<o[1], o[2]>>
      <3>1. h[2] \in Objs
        BY Tuples
      <3> QED
        BY <1>2, <1>4, <3>1
    <2>2. h[2] # o
      BY <1>2, <1>6 DEF Now, FrameIn, Alike
    <2>3. h[1] = "build" => h[2][1] # k
      BY <1>2, <1>6 DEF Alike
    <2>4. h[1] \in Phase => h[2][1] # k
      <3> SUFFICES ASSUME h[1] \in Phase, h[2][1] = k PROVE FALSE
        OBVIOUS
      <3>1. table[k] = h[2][2]
        BY <1>6 DEF Now, FrameIn
      <3> QED
        BY <1>2, <2>1, <3>1
    <2>5. h[1] \in {"complete", "free"} => table'[h[2][1]] # h[2][2]
      <3>1. CASE h[2][1] = k
        BY <1>2, <1>5, <2>1, <2>2, <3>1
      <3>2. CASE h[2][1] # k
        BY <1>5, <1>6, <2>1, <3>2 DEF Now, FrameIn
      <3> QED
        BY <3>1, <3>2
    <2> QED
      BY <1>1, <1>5, <1>6, <2>1, <2>2, <2>3, <2>4, <2>5 DEF Now, Then, FrameIn
  <1>7. /\ StackInv' /\ FrameInv' /\ AloneInv'
        /\ \A q \in Objs : Holders(q)' = Holders(q)
    BY <1>1, <1>6, BuildEnds
  <1>8. DataInv'
    <2>1. o[2] \in 0..MaxNew
      BY <1>2, <1>4
    <2>2. /\ life' \in [Objs -> {"none", "built", "live", "freed"}]
          /\ table' \in [Kinds -> 0..MaxNew]
      BY <1>1, <1>3, <2>1
    <2>3. ASSUME NEW j \in Kinds, table'[j] # 0 PROVE life'[<<j, table'[j]>>] = "live"
      <3>1. CASE j = k
        <4>1. <<j, table'[j]>> = o
          BY <1>2, <1>4, <1>5, <3>1
        <4> QED
          BY <1>2, <1>5, <4>1
      <3>2. CASE j # k
        <4>1. table'[j] = table[j] /\ Entry(j) \in Objs /\ life[Entry(j)] = "live"
          BY <1>4, <1>5, <2>3, <3>2
        <4>2. life'[Entry(j)] = "live"
          BY <1>5, <4>1
        <4> QED
          BY <4>1, <4>2 DEF Entry
      <3> QED
        BY <3>1, <3>2
    <2> QED
      BY <1>1, <2>2, <2>3 DEF IInv, DataInv
  <1>9. ObjInv'
    <2> SUFFICES ASSUME NEW q \in Objs PROVE ObjOK(q)'
      BY DEF ObjInv
    <2>1. ObjOK(q) /\ q[1] \in Kinds /\ q[2] \in 1..MaxNew
      BY <1>4 DEF IInv, ObjInv
    <2>2. life[q] = "live" /\ refs[q] > 0 => q[1] # k
      BY <1>2, <2>1 DEF ObjOK
    <2> QED
      BY <1>1, <1>2, <1>5, <2>1, <2>2 DEF ObjOK
  <1>10. CountInv'
    <2> SUFFICES ASSUME NEW q \in Objs PROVE CountOK(q)'
      BY DEF CountInv
    <2>1. CountOK(q) /\ Holders(q)' = Holders(q)
      BY <1>7 DEF IInv, CountInv
    <2>2. CASE q = o
      <3>1. Cardinality(Holders(q)') = 0
        BY <1>2, <2>1, <2>2, FS_EmptySet
      <3> QED
        BY <1>1, <1>2, <1>5, <2>1, <2>2, <3>1 DEF CountOK
    <2>3. CASE q # o
      BY <1>1, <1>5, <2>1, <2>3 DEF CountOK
    <2> QED
      BY <2>2, <2>3
  <1> QED
    BY <1>7, <1>8, <1>9, <1>10 DEF IInv

-----------------------------------------------------------------------------
(* New calls *)

LEMMA OfCallOn ==
    ASSUME IInv, NEW c \in Clients, stack[c] = <<>>, NEW op, NEW k \in Kinds, CallOn(c, op, k)
    PROVE  IInv'
  <1> DEFINE o == Entry(k)
             d == Frame("drop", o)
             t == Frame("touch", o)
             g == Frame("configured", o)
             r == Frame("ref", o)
  <1>1. /\ table[k] # 0 /\ UNCHANGED <<table, made, life, refs, dels, completed>>
        /\ \/ stack' = [stack EXCEPT ![c] = <<d>>]
           \/ stack' = [stack EXCEPT ![c] = <<t, r>>]
           \/ stack' = [stack EXCEPT ![c] = <<g, r>>]
           \/ stack' = [stack EXCEPT ![c] = <<r>>]
    BY DEF CallOn, tables, counts
  <1>2. o \in Objs /\ life[o] = "live"
    BY <1>1, ObjFacts DEF IInv
  <1>3. /\ d \in FrameSet /\ d[1] = "drop" /\ d[2] = o
        /\ t \in FrameSet /\ t[1] = "touch" /\ t[2] = o
        /\ g \in FrameSet /\ g[1] = "configured" /\ g[2] = o
        /\ r \in FrameSet /\ r[1] = "ref" /\ r[2] = o
    <2>1. "drop" \in Frames /\ "touch" \in Frames /\ "configured" \in Frames /\ "ref" \in Frames
      BY DEF Frames
    <2> QED
      BY <1>2, <2>1, Tuples
  <1> HIDE DEF o, d, t, g, r
  <1>4. PICK fs \in Seq(FrameSet) :
           /\ stack' = [stack EXCEPT ![c] = fs] /\ DOMAIN fs = 1..Len(fs)
           /\ \/ 1..Len(fs) = {1} /\ Len(fs) = 1 /\ fs[1] \in {d, r}
              \/ 1..Len(fs) = {1, 2} /\ Len(fs) = 2 /\ fs[1] \in {t, g} /\ fs[2] = r
    <2>1. ASSUME NEW e \in {d, r}
          PROVE  /\ <<e>> \in Seq(FrameSet) /\ Len(<<e>>) = 1 /\ <<e>>[1] = e
                 /\ 1..Len(<<e>>) = {1} /\ DOMAIN <<e>> = 1..Len(<<e>>)
      <3>1. <<e>> \in Seq(FrameSet) /\ Len(<<e>>) = 1 /\ <<e>>[1] = e
        BY <1>3, Sequences
      <3> QED
        BY <3>1
    <2>2. ASSUME NEW e \in {t, g}
          PROVE  /\ <<e, r>> \in Seq(FrameSet) /\ Len(<<e, r>>) = 2
                 /\ <<e, r>>[1] = e /\ <<e, r>>[2] = r
                 /\ 1..Len(<<e, r>>) = {1, 2} /\ DOMAIN <<e, r>> = 1..Len(<<e, r>>)
      <3>1. /\ <<e, r>> \in Seq(FrameSet) /\ Len(<<e, r>>) = 2
            /\ <<e, r>>[1] = e /\ <<e, r>>[2] = r
        BY <1>3, Sequences
      <3> QED
        BY <3>1
    <2>3. CASE \E e \in {d, r} : stack' = [stack EXCEPT ![c] = <<e>>]
      BY <2>1, <2>3
    <2>4. CASE \E e \in {t, g} : stack' = [stack EXCEPT ![c] = <<e, r>>]
      BY <2>2, <2>4
    <2> QED
      BY <1>1, <2>3, <2>4
  <1>5. Onto(c, 0, fs) /\ stack'[c] = fs
    BY <1>4, SetOnto DEF IInv
  <1>6. StackInv'
    <2>1. Shaped(fs)
      BY <1>3, <1>4 DEF Shaped, Calling
    <2> QED
      BY <1>5, <2>1, ShapeStep DEF IInv
  <1>7. \A q \in Objs : HasBody(stack'[c], q) <=> HasBody(stack[c], q)
    <2>1. DOMAIN stack[c] = {}
      OBVIOUS
    <2> QED
      BY <1>3, <1>4, <1>5, <2>1 DEF HasBody
  <1>8. \A f \in {d, t, g, r} : Now(f) /\ f[1] \notin Phase \cup {"build"}
    BY <1>2, <1>3 DEF Now, FrameIn, Phase, Going
  <1>9. \A i \in 1..Len(fs) : Now(fs[i]) /\ fs[i][1] \notin Phase \cup {"build"}
    BY <1>4, <1>8
  <1> QED
    BY <1>1, <1>5, <1>6, <1>7, <1>9, PlainStep

LEMMA OfCallAttr ==
    ASSUME IInv, NEW c \in Clients, stack[c] = <<>>, CallAttr(c)
    PROVE  IInv'
  <1> DEFINE o == Entry("lgrp")
             f == Frame("attr", o)
             fs == <<f>>
  <1>1. /\ table["lgrp"] # 0 /\ UNCHANGED <<table, made, life, refs, dels, completed>>
        /\ stack' = [stack EXCEPT ![c] = fs]
    BY DEF CallAttr, tables, counts
  <1>2. o \in Objs /\ life[o] = "live"
    <2>1. "lgrp" \in Kinds
      BY DEF Kinds
    <2> QED
      BY <1>1, <2>1, ObjFacts DEF IInv
  <1>3. f \in FrameSet /\ f[1] = "attr" /\ f[2] = o
    <2>1. "attr" \in Frames
      BY DEF Frames
    <2> QED
      BY <1>2, <2>1, Tuples
  <1> HIDE DEF o, f
  <1>4. fs \in Seq(FrameSet) /\ Len(fs) = 1 /\ fs[1] = f
    BY <1>3, Sequences
  <1> HIDE DEF fs
  <1>5. 1..Len(fs) = {1} /\ DOMAIN fs = {1}
    BY <1>4
  <1>6. Onto(c, 0, fs) /\ stack'[c] = fs
    BY <1>1, <1>4, SetOnto DEF IInv
  <1>7. StackInv'
    <2>1. Shaped(fs)
      BY <1>3, <1>4, <1>5 DEF Shaped, Calling
    <2> QED
      BY <1>4, <1>6, <2>1, ShapeStep DEF IInv
  <1>8. \A q \in Objs : HasBody(stack'[c], q) <=> HasBody(stack[c], q)
    <2>1. DOMAIN stack[c] = {}
      OBVIOUS
    <2> QED
      BY <1>3, <1>4, <1>5, <1>6, <2>1 DEF HasBody
  <1>9. \A i \in 1..Len(fs) : Now(fs[i]) /\ fs[i][1] \notin Phase \cup {"build"}
    <2>1. Now(f) /\ f[1] \notin Phase \cup {"build"}
      BY <1>2, <1>3 DEF Now, FrameIn, Phase, Going
    <2> QED
      BY <1>4, <1>5, <2>1
  <1> QED
    BY <1>1, <1>4, <1>6, <1>7, <1>8, <1>9, PlainStep

(* Nobody else creates an object of the kind. *)
LEMMA OfCallNew ==
    ASSUME IInv, NEW c \in Clients, stack[c] = <<>>, NEW k \in Kinds, CallNew(c, k)
    PROVE  IInv'
  <1> DEFINE o == <<k, made[k] + 1>>
             f == <<"build", o, 1>>
             fs == <<f>>
  <1>1. /\ UNCHANGED <<table, completed, dels>>
        /\ table[k] = 0 /\ made[k] < MaxNew
        /\ \A d \in Clients : In(d, "build") => Kind(d) # k
        /\ made' = [made EXCEPT ![k] = @ + 1]
        /\ life' = [life EXCEPT ![o] = "built"] /\ refs' = [refs EXCEPT ![o] = 1]
        /\ stack' = [stack EXCEPT ![c] = fs]
    BY DEF CallNew
  <1>2. /\ life \in [Objs -> {"none", "built", "live", "freed"}]
        /\ refs \in [Objs -> Nat] /\ made \in [Kinds -> 0..MaxNew] /\ MaxNew \in Nat
    BY ObjectsAssumption DEF IInv, DataInv
  <1>3. made[k] + 1 \in 1..MaxNew
    BY <1>1, <1>2
  <1>4. o \in Objs /\ o[1] = k /\ o[2] = made[k] + 1
    BY <1>3, ObjFacts DEF IInv
  <1>5. f \in FrameSet /\ f[1] = "build" /\ f[2] = o /\ f[3] # 0
    <2>1. "build" \in Frames /\ 1 \in 0..4
      BY DEF Frames
    <2>2. f \in FrameSet
      BY <1>4, <2>1, Tuples
    <2> QED
      BY <2>2
  <1>6. fs \in Seq(FrameSet) /\ Len(fs) = 1 /\ fs[1] = f
    BY <1>5, Sequences
  <1> HIDE DEF o, f, fs
  <1>7. /\ \A q \in Objs : life'[q] = IF q = o THEN "built" ELSE life[q]
        /\ \A q \in Objs : refs'[q] = IF q = o THEN 1 ELSE refs[q]
        /\ \A j \in Kinds : made'[j] = IF j = k THEN made[k] + 1 ELSE made[j]
    BY <1>1, <1>2
  <1>8. \A q \in Objs : /\ q[1] \in Kinds /\ q[2] \in 1..MaxNew /\ q = <<q[1], q[2]>>
                        /\ ObjOK(q) /\ made[q[1]] \in 0..MaxNew
    BY <1>2, ObjFacts DEF IInv, ObjInv
  <1>9. life[o] = "none" /\ dels[o] = 0 /\ Holders(o) = {}
    <2>1. life[o] = "none"
      BY <1>2, <1>4, <1>8 DEF ObjOK
    <2> QED
      BY <1>4, <1>8, <2>1, NoHolders DEF ObjOK
  <1>10. 1..Len(fs) = {1} /\ DOMAIN fs = {1}
    BY <1>6
  <1>11. Onto(c, 0, fs) /\ stack'[c] = fs
    BY <1>1, <1>6, SetOnto DEF IInv
  <1>12. StackInv'
    <2>1. Shaped(fs)
      BY <1>5, <1>6, <1>10 DEF Shaped, Calling
    <2> QED
      BY <1>6, <1>11, <2>1, ShapeStep DEF IInv
  <1>13. \A q \in Objs : Holders(q)' = Holders(q)
    <2>1. DOMAIN stack[c] = {}
      OBVIOUS
    <2>2. \A q \in Objs : HasBody(stack'[c], q) <=> HasBody(stack[c], q)
      BY <1>5, <1>6, <1>10, <1>11, <2>1 DEF HasBody
    <2> QED
      BY <1>11, <2>2, HoldersKept
  <1>14. ASSUME NEW h \in FrameSet, Now(h) PROVE Then(h)
    <2>1. h[2] \in Objs
      BY Tuples
    <2>2. h[2] # o
      BY <1>9, <1>14 DEF Now, FrameIn
    <2> QED
      BY <1>1, <1>7, <1>14, <2>1, <2>2 DEF Now, Then, FrameIn
  <1>15. Then(f)
    BY <1>1, <1>4, <1>5, <1>7 DEF Then, FrameIn, Going, Phase
  <1>16. FrameInv'
    <2>1. \A i \in 1..Len(fs) : Then(fs[i])
      BY <1>6, <1>10, <1>15
    <2> QED
      BY <1>6, <1>11, <1>14, <2>1, FrameStep DEF IInv
  <1>17. AloneInv'
    <2>1. ASSUME NEW d \in Clients, NEW j \in DOMAIN stack[d], Alike(stack[d][j], f)
          PROVE  FALSE
      <3>1. stack[d][j][1] = "build" /\ stack[d][j][2][1] = k
        BY <1>4, <1>5, <2>1 DEF Alike, Phase
      <3>2. /\ stack[d] \in Seq(FrameSet) /\ Shaped(stack[d])
        BY DEF IInv, StackInv
      <3>3. Len(stack[d]) = 1
        BY <3>1, <3>2 DEF Shaped
      <3>4. j = Len(stack[d]) /\ stack[d] # <<>>
        BY <3>2, <3>3
      <3>5. In(d, "build") /\ Kind(d) = k
        BY <3>1, <3>4 DEF In, Kind, Obj, Top
      <3> QED
        BY <1>1, <3>5
    <2>2. \A i \in 1..Len(fs) : \A d \in Clients : \A j \in DOMAIN stack[d] :
              ~Alike(stack[d][j], fs[i])
      BY <1>6, <1>10, <2>1
    <2>3. \A i, j \in 1..Len(fs) : i = j
      BY <1>10
    <2> QED
      BY <1>6, <1>11, <2>2, <2>3, AloneStep DEF IInv
  <1>18. DataInv'
    <2>1. /\ life' \in [Objs -> {"none", "built", "live", "freed"}]
          /\ refs' \in [Objs -> Nat]
      BY <1>1, <1>2
    <2>2. made' \in [Kinds -> 0..MaxNew]
      <3>1. made[k] + 1 \in 0..MaxNew
        BY <1>3
      <3> QED
        BY <1>1, <1>2, <3>1
    <2>3. ASSUME NEW j \in Kinds, table[j] # 0 PROVE life'[<<j, table[j]>>] = "live"
      <3>1. Entry(j) \in Objs /\ life[Entry(j)] = "live"
        BY <2>3, ObjFacts DEF IInv
      <3>2. life'[Entry(j)] = "live"
        BY <1>7, <1>9, <3>1
      <3> QED
        BY <3>2 DEF Entry
    <2> QED
      BY <1>1, <2>1, <2>2, <2>3 DEF IInv, DataInv
  <1>19. ObjInv'
    <2> SUFFICES ASSUME NEW q \in Objs PROVE ObjOK(q)'
      BY DEF ObjInv
    <2>1. /\ ObjOK(q) /\ q[1] \in Kinds /\ q[2] \in 1..MaxNew /\ q = <<q[1], q[2]>>
          /\ made[q[1]] \in 0..MaxNew /\ made[k] \in 0..MaxNew /\ o = <<k, made[k] + 1>>
      BY <1>2, <1>8 DEF o
    <2>2. CASE q = o
      BY <1>1, <1>4, <1>7, <1>9, <2>1, <2>2 DEF ObjOK
    <2>3. CASE q # o
      <3>1. q[2] > made[q[1]] <=> q[2] > made'[q[1]]
        BY <1>2, <1>7, <2>1, <2>3
      <3> QED
        BY <1>1, <1>7, <2>1, <2>3, <3>1 DEF ObjOK
    <2> QED
      BY <2>2, <2>3
  <1>20. CountInv'
    <2> SUFFICES ASSUME NEW q \in Objs PROVE CountOK(q)'
      BY DEF CountInv
    <2>1. CountOK(q) /\ Holders(q)' = Holders(q)
      BY <1>13 DEF IInv, CountInv
    <2> QED
      BY <1>1, <1>7, <2>1 DEF CountOK
  <1> QED
    BY <1>12, <1>16, <1>17, <1>18, <1>19, <1>20 DEF IInv

LEMMA OfCall ==
    ASSUME IInv, NEW c \in Clients, Call(c)
    PROVE  IInv'
  <1>1. stack[c] = <<>>
    BY DEF Call
  <1>2. "lgrp" \in Kinds /\ "mac" \in Kinds
    BY DEF Kinds
  <1>3. CASE \E op \in Ops \cap {"use", "del"}, k \in Kinds : CallOn(c, op, k)
    BY <1>1, <1>3, OfCallOn
  <1>4. CASE CallOn(c, "config", "lgrp")
    BY <1>1, <1>2, <1>4, OfCallOn
  <1>5. CASE CallOn(c, "reset", "mac")
    BY <1>1, <1>2, <1>5, OfCallOn
  <1>6. CASE \E k \in Kinds : CallNew(c, k)
    BY <1>1, <1>6, OfCallNew
  <1>7. CASE CallAttr(c)
    BY <1>1, <1>7, OfCallAttr
  <1> QED
    BY <1>3, <1>4, <1>5, <1>6, <1>7 DEF Call

-----------------------------------------------------------------------------
(* The invariant holds always. *)

LEMMA InitIInv == Init => IInv
  <1> SUFFICES ASSUME Init PROVE IInv
    OBVIOUS
  <1>1. PICK n \in {0, 1} :
           /\ table = [k \in Kinds |-> n] /\ made = table
           /\ life = [o \in Objs |-> IF o[2] <= n THEN "live" ELSE "none"]
           /\ refs = [o \in Objs |-> IF o[2] <= n THEN 1 ELSE 0]
    BY DEF Init
  <1>2. /\ completed = [o \in Objs |-> FALSE] /\ dels = [o \in Objs |-> 0]
        /\ stack = [c \in Clients |-> <<>>]
    BY DEF Init
  <1>3. MaxNew \in Nat \ {0}
    BY ObjectsAssumption
  <1>4. /\ \A o \in Objs : o[1] \in Kinds /\ o[2] \in 1..MaxNew
        /\ \A k \in Kinds, j \in 1..MaxNew : <<k, j>> \in Objs
    BY DEF Objs
  <1>5. \A c \in Clients : stack[c] = <<>> /\ DOMAIN stack[c] = {}
    BY <1>2
  <1>6. StackInv
    <2>1. \A c \in Clients : stack[c] \in Seq(FrameSet)
      BY <1>5, Sequences
    <2>2. \A c \in Clients : Shaped(stack[c])
      BY <1>5 DEF Shaped
    <2>3. stack = [c \in Clients |-> stack[c]]
      BY <1>2
    <2> QED
      BY <2>1, <2>2, <2>3 DEF StackInv
  <1>7. FrameInv /\ AloneInv
    BY <1>5 DEF FrameInv, AloneInv
  <1>8. \A k \in Kinds : table[k] = n /\ made[k] = n
    BY <1>1
  <1>9. DataInv
    <2>1. table \in [Kinds -> 0..MaxNew] /\ made \in [Kinds -> 0..MaxNew]
      BY <1>1, <1>3
    <2>2. /\ life \in [Objs -> {"none", "built", "live", "freed"}]
          /\ refs \in [Objs -> Nat]
      BY <1>1
    <2>3. dels \in [Objs -> Nat] /\ completed \in [Objs -> BOOLEAN]
      BY <1>2
    <2>4. ASSUME NEW k \in Kinds, table[k] # 0 PROVE life[<<k, table[k]>>] = "live"
      <3>1. table[k] = 1 /\ n = 1
        BY <1>8, <2>4
      <3>2. <<k, 1>> \in Objs
        BY <1>3, <1>4
      <3> QED
        BY <1>1, <3>1, <3>2
    <2> QED
      BY <2>1, <2>2, <2>3, <2>4 DEF DataInv
  <1>10. ObjInv
    <2> SUFFICES ASSUME NEW o \in Objs PROVE ObjOK(o)
      BY DEF ObjInv
    <2>1. /\ o[2] \in Nat /\ o[2] >= 1 /\ made[o[1]] = n /\ table[o[1]] = n
          /\ dels[o] = 0
          /\ life[o] = IF o[2] <= n THEN "live" ELSE "none"
          /\ refs[o] = IF o[2] <= n THEN 1 ELSE 0
      BY <1>1, <1>2, <1>3, <1>4, <1>8
    <2> QED
      BY <2>1 DEF ObjOK
  <1>11. CountInv
    <2> SUFFICES ASSUME NEW o \in Objs PROVE CountOK(o)
      BY DEF CountInv
    <2>1. Holders(o) = {}
      BY <1>5 DEF Holders
    <2>2. IsFiniteSet(Holders(o)) /\ Cardinality(Holders(o)) = 0
      BY <2>1, FS_EmptySet
    <2>3. dels[o] = 0 /\ (life[o] = "live" => refs[o] = 1)
      BY <1>1, <1>2
    <2> QED
      BY <2>1, <2>2, <2>3 DEF CountOK
  <1> QED
    BY <1>6, <1>7, <1>9, <1>10, <1>11 DEF IInv

LEMMA NextIInv == IInv /\ [Next]_vars => IInv'
  <1> SUFFICES ASSUME IInv, [Next]_vars PROVE IInv'
    OBVIOUS
  <1>1. ASSUME NEW c \in Clients, Call(c) PROVE IInv'
    BY <1>1, OfCall
  <1>2. ASSUME NEW c \in Clients, Inside(c) PROVE IInv'
    BY <1>2, OfBuildPart, OfPublish, OfTakeRef, OfConfigure, OfConfigured, OfPut, OfReturn,
       OfDrop, OfRelease, OfDeleteChildren, OfDeleteBelow, OfComplete, OfFreeObject DEF Inside
  <1>3. CASE UNCHANGED vars
    <2>1. UNCHANGED <<table, made, life, refs, dels, completed, stack>>
      BY <1>3 DEF vars, tables, counts
    <2>2. \A f : Now(f) <=> Then(f)
      BY <2>1 DEF Now, Then
    <2>3. StackInv'
      BY <2>1 DEF IInv, StackInv
    <2>4. FrameInv' /\ AloneInv'
      BY <2>1 DEF IInv, FrameInv, AloneInv, Now
    <2>5. DataInv' /\ ObjInv'
      BY <2>1 DEF IInv, DataInv, ObjInv, ObjOK
    <2>6. CountInv'
      <3>1. \A o \in Objs : Holders(o)' = Holders(o)
        BY <2>1 DEF Holders
      <3> QED
        BY <2>1, <3>1, CountKept DEF IInv
    <2> QED
      BY <2>3, <2>4, <2>5, <2>6 DEF IInv
  <1> QED
    BY <1>1, <1>2, <1>3 DEF Next

LEMMA SpecIInv == Spec => []IInv
  BY InitIInv, NextIInv, PTL DEF Spec

(* Every reference that a call takes, and the first of an object, is put once: *)
(* an object deleted once at most has as many references as there are threads  *)
(* inside calls on it, and one more until its deletion; and once it is freed   *)
(* no thread is inside a call on it.  That is kref_get_unless_zero and the     *)
(* puts of every sl_ctrl_*_get and _put, for any threads, calls and objects.   *)
THEOREM RefsCountedAlways == Spec => []RefsCounted
  <1>1. IInv => RefsCounted
    <2> SUFFICES ASSUME IInv, NEW o \in Objs, life[o] # "none", dels[o] <= 1
                 PROVE  /\ life[o] \in {"built", "live"} =>
                              refs[o] = Cardinality(Holders(o)) + (1 - dels[o])
                        /\ life[o] = "freed" => Holders(o) = {}
      BY DEF RefsCounted
    <2>1. CountOK(o) /\ ObjOK(o)
      BY DEF IInv, CountInv, ObjInv
    <2>2. CASE life[o] = "built"
      <3>1. Holders(o) = {}
        BY <2>2, NoHolders
      <3>2. Cardinality(Holders(o)) = 0
        BY <3>1, FS_EmptySet
      <3> QED
        BY <2>1, <2>2, <3>2 DEF ObjOK
    <2>3. CASE life[o] # "built"
      BY <2>1, <2>3 DEF CountOK
    <2> QED
      BY <2>2, <2>3
  <1> QED
    BY <1>1, SpecIInv, PTL

(* A deletion that gives up waiting leaves an object behind that is not freed: *)
(* the release completes del_complete before it frees, and wakes the waiters.  *)
(* Only a MAC's does not (sl_ctrl_mac_release).                                *)
THEOREM WaitersWokenAlways == Spec => WaitersWoken
  <1>1. IInv => [\A c \in Clients : TimedOut(c) /\ Kind(c) # "mac" =>
                                        life[Obj(c)] # "freed"]_vars
    <2> SUFFICES ASSUME IInv, NEW c \in Clients, TimedOut(c), Kind(c) # "mac"
                 PROVE  life[Obj(c)] # "freed"
      OBVIOUS
    <2>1. In(c, "wait") /\ ~completed[Obj(c)]
      BY DEF TimedOut
    <2>2. Now(Top(c)) /\ Top(c)[1] = "wait" /\ Top(c)[2] = Obj(c) /\ Kind(c) = Obj(c)[1]
      BY <2>1, TopIn
    <2> QED
      BY <2>1, <2>2 DEF Now, FrameIn
  <1> QED
    BY <1>1, SpecIInv, PTL DEF WaitersWoken

-----------------------------------------------------------------------------
(* The tree of the objects                                                   *)

(* Somebody is in frame f. *)
Present(f) == \E c \in Clients : \E i \in DOMAIN stack[c] : stack[c][i] = f

(* Somebody is at one of the steps S of object o. *)
Busy(S, o) == \E f \in FrameSet : Present(f) /\ f[1] \in S /\ f[2] = o

(* What holds of every object: its parent was in its table when it was       *)
(* created; only what has left its table completes; an object without        *)
(* references is being released, and one that is not published is created.   *)
AboveOK(o) ==
    /\ above[o] \in Objs \cup {None}
    /\ o[1] = "ldev" => above[o] = None
    /\ life[o] # "none" /\ o[1] # "ldev" =>
          /\ above[o] \in Objs /\ above[o][1] = Parent[o[1]]
          /\ life[above[o]] = "live" \/ (life[above[o]] = "freed" /\ dels[above[o]] > 0)

DoneOK(o) == completed[o] => life[o] \in {"live", "freed"} /\ table[o[1]] # o[2]

LeavesOK(o) == /\ life[o] = "live" /\ refs[o] = 0 => Busy(Going, o)
               /\ life[o] = "built" => Busy({"build"}, o)

OddOK(o) == dels[o] > 1 => "twice" \in odd

(* The place of a kind among the children that a release deletes *)
Turn(kind) == IF kind = "mac" THEN 2 ELSE 1

(* A thread in frame f deletes o, or waits for who does. *)
Handles(f, o) == f[2] = o /\ f[1] \in {"drop", "wait"} \cup Phase

(* A release that has passed the place of an object in the table is at it. *)
StayOK(o) ==
    table[o[1]] = o[2] /\ o[1] # "ldev" =>
        /\ life[above[o]] = "live" /\ table[above[o][1]] = above[o][2]
        /\ \A c \in Clients : \A i \in DOMAIN stack[c] :
              stack[c][i][2] = above[o] =>
                 /\ stack[c][i][1] # "below"
                 /\ stack[c][i][1] = "children" /\ stack[c][i][3] > Turn(o[1]) =>
                       i + 1 \in DOMAIN stack[c] /\ Handles(stack[c][i + 1], o)

(* A creation of this kind that has passed the part n, and one of them whose *)
(* parent is being deleted                                                   *)
Past(n, k) == {f \in FrameSet : Present(f) /\ f[1] = "build" /\ f[2][1] = k /\ f[3] > n}

Doomed(n, k) == \E f \in Past(n, k) : k # "ldev" /\ dels[above[f[2]]] > 0

(* The layers below have what the table and the creations have, until a      *)
(* creation goes on under a parent that took it away.                        *)
CoreOK(k)  == Doomed(1, k) \/ (k \in coreHas <=> table[k] # 0 \/ Past(1, k) # {})
MediaOK(k) == Doomed(2, k) \/ (k \in mediaHas <=> table[k] # 0 \/ Past(2, k) # {})

LayersOK == /\ \A k \in Kinds : CoreOK(k)
            /\ \A k \in {"ldev", "lgrp"} : MediaOK(k)

TreeInv ==
    /\ above = [o \in Objs |-> above[o]]
    /\ coreHas \subseteq Kinds /\ mediaHas \subseteq {"ldev", "lgrp"} /\ odd \subseteq Odds
    /\ configuring \in BOOLEAN
    /\ \A o \in Objs : AboveOK(o) /\ DoneOK(o) /\ LeavesOK(o) /\ OddOK(o)
    /\ odd \cap {"late", "twice", "rushed"} = {} => \A o \in Objs : StayOK(o)
    /\ odd = {} => LayersOK


-----------------------------------------------------------------------------
(* What a step of c that keeps n frames and puts fs on them does to a frame  *)

LEMMA PresentStep ==
    ASSUME StackInv, NEW c \in Clients, NEW n, NEW fs \in Seq(FrameSet), Onto(c, n, fs),
           NEW f
    PROVE  /\ Present(f)' => Present(f) \/ \E i \in 1..Len(fs) : f = fs[i]
           /\ (\E i \in 1..Len(fs) : f = fs[i]) => Present(f)'
           /\ Present(f) => Present(f)' \/ \E i \in (n + 1)..Len(stack[c]) : f = stack[c][i]
  <1>1. /\ n \in Nat /\ Len(fs) \in Nat /\ stack[c] \in Seq(FrameSet) /\ n <= Len(stack[c])
        /\ stack'[c] \in Seq(FrameSet) /\ Len(stack'[c]) = n + Len(fs)
    BY DEF Onto, StackInv
  <1>2. Present(f)' => Present(f) \/ \E i \in 1..Len(fs) : f = fs[i]
    <2> SUFFICES ASSUME NEW d \in Clients, NEW i \in DOMAIN stack'[d], stack'[d][i] = f
                 PROVE  Present(f) \/ \E j \in 1..Len(fs) : f = fs[j]
      BY DEF Present
    <2> QED
      BY FramesFrom DEF Present
  <1>3. (\E i \in 1..Len(fs) : f = fs[i]) => Present(f)'
    <2> SUFFICES ASSUME NEW i \in 1..Len(fs), f = fs[i] PROVE Present(f)'
      OBVIOUS
    <2>1. n + i \in DOMAIN stack'[c] /\ stack'[c][n + i] = fs[i]
      BY <1>1 DEF Onto
    <2> QED
      BY <2>1 DEF Present
  <1>4. Present(f) => Present(f)' \/ \E i \in (n + 1)..Len(stack[c]) : f = stack[c][i]
    <2> SUFFICES ASSUME NEW d \in Clients, NEW i \in DOMAIN stack[d], stack[d][i] = f,
                        ~\E j \in (n + 1)..Len(stack[c]) : f = stack[c][j]
                 PROVE  Present(f)'
      BY DEF Present
    <2>1. CASE d # c
      BY <2>1 DEF Present, Onto
    <2>2. CASE d = c
      <3>1. i \in 1..n
        BY <1>1, <2>2
      <3>2. i \in DOMAIN stack'[c] /\ stack'[c][i] = f
        BY <1>1, <2>2, <3>1 DEF Onto
      <3> QED
        BY <3>2 DEF Present
    <2> QED
      BY <2>1, <2>2
  <1> QED
    BY <1>2, <1>3, <1>4

(* Who is at an object stays at it, unless it is the frame that c leaves. *)
LEMMA BusyStep ==
    ASSUME StackInv, NEW c \in Clients, NEW n, NEW fs \in Seq(FrameSet), Onto(c, n, fs),
           NEW S, NEW o, Busy(S, o),
           \A i \in (n + 1)..Len(stack[c]) :
              stack[c][i][1] \in S /\ stack[c][i][2] = o =>
                 \E j \in 1..Len(fs) : fs[j][1] \in S /\ fs[j][2] = o
    PROVE  Busy(S, o)'
  <1>1. PICK f \in FrameSet : Present(f) /\ f[1] \in S /\ f[2] = o
    BY DEF Busy
  <1>2. CASE Present(f)'
    BY <1>1, <1>2 DEF Busy
  <1>3. ASSUME NEW i \in (n + 1)..Len(stack[c]), f = stack[c][i]
        PROVE  Busy(S, o)'
    <2>1. PICK j \in 1..Len(fs) : fs[j][1] \in S /\ fs[j][2] = o
      BY <1>1, <1>3
    <2>2. Present(fs[j])' /\ fs[j] \in FrameSet
      BY PresentStep
    <2> QED
      BY <2>1, <2>2 DEF Busy
  <1> QED
    BY <1>1, <1>2, <1>3, PresentStep

LEMMA BusyWith ==
    ASSUME StackInv, NEW c \in Clients, NEW n, NEW fs \in Seq(FrameSet), Onto(c, n, fs),
           NEW S, NEW o, NEW i \in 1..Len(fs), fs[i][1] \in S, fs[i][2] = o
    PROVE  Busy(S, o)'
  <1>1. Present(fs[i])' /\ fs[i] \in FrameSet
    BY PresentStep
  <1> QED
    BY <1>1 DEF Busy

(* A step that neither enters nor leaves the later parts of a creation of k *)
LEMMA PastKind ==
    ASSUME StackInv, NEW c \in Clients, NEW n, NEW fs \in Seq(FrameSet), Onto(c, n, fs),
           NEW k \in Kinds,
           \A i \in (n + 1)..Len(stack[c]) :
              stack[c][i][1] = "build" /\ stack[c][i][2][1] = k => ~(stack[c][i][3] > 1),
           \A i \in 1..Len(fs) : fs[i][1] = "build" /\ fs[i][2][1] = k => ~(fs[i][3] > 1)
    PROVE  \A m \in {1, 2} : Past(m, k)' = Past(m, k)
  <1> SUFFICES ASSUME NEW m \in {1, 2}, NEW f \in FrameSet,
                      f[1] = "build", f[2][1] = k, f[3] > m
               PROVE  Present(f)' <=> Present(f)
    BY DEF Past
  <1>1. f[3] \in Nat
    BY Tuples
  <1>2. f[3] > 1
    BY <1>1
  <1> QED
    BY <1>2, PresentStep

LEMMA PastStep ==
    ASSUME StackInv, NEW c \in Clients, NEW n, NEW fs \in Seq(FrameSet), Onto(c, n, fs),
           \A i \in (n + 1)..Len(stack[c]) :
              stack[c][i][1] = "build" => ~(stack[c][i][3] > 1),
           \A i \in 1..Len(fs) : fs[i][1] = "build" => ~(fs[i][3] > 1)
    PROVE  \A m \in {1, 2}, k \in Kinds : Past(m, k)' = Past(m, k)
  BY PastKind

(* A step after which the layers agree as they did *)
LEMMA LayersStep ==
    ASSUME LayersOK, UNCHANGED <<table, coreHas, mediaHas>>,
           \A m \in {1, 2}, k \in Kinds : Past(m, k)' = Past(m, k),
           \A o \in Objs : o[1] # "ldev" /\ Busy({"build"}, o) =>
                              above'[o] = above[o] /\ (dels[above[o]] > 0 => dels'[above[o]] > 0)
    PROVE  LayersOK'
  <1>1. ASSUME NEW m \in {1, 2}, NEW k \in Kinds, Doomed(m, k)
        PROVE  Doomed(m, k)'
    <2>1. PICK f \in Past(m, k) : k # "ldev" /\ dels[above[f[2]]] > 0
      BY <1>1 DEF Doomed
    <2>2. f \in FrameSet /\ f[2] \in Objs /\ f[2][1] = k /\ Busy({"build"}, f[2])
      BY <2>1, Tuples DEF Past, Busy
    <2>3. dels'[above'[f[2]]] > 0
      BY <2>1, <2>2
    <2> QED
      BY <2>1, <2>3 DEF Doomed
  <1>2. \A k \in Kinds : CoreOK(k) => CoreOK(k)'
    BY <1>1 DEF CoreOK
  <1>3. \A k \in {"ldev", "lgrp"} : MediaOK(k) => MediaOK(k)'
    BY <1>1 DEF MediaOK, Kinds
  <1> QED
    BY <1>2, <1>3 DEF LayersOK


(* The parents of objects that neither begin nor come back *)
LEMMA AboveStep ==
    ASSUME \A o \in Objs : AboveOK(o), above' = above, DataInv, DataInv',
           \A o \in Objs : \/ life'[o] = life[o]
                           \/ life[o] = "built" /\ life'[o] \in {"live", "freed"}
                           \/ life[o] = "live" /\ life'[o] = "freed" /\ dels'[o] > 0,
           \A o \in Objs : dels[o] > 0 => dels'[o] > 0
    PROVE  \A o \in Objs : AboveOK(o)'
  <1> SUFFICES ASSUME NEW o \in Objs PROVE AboveOK(o)'
    OBVIOUS
  <1>1. AboveOK(o) /\ (life'[o] # "none" => life[o] # "none")
    OBVIOUS
  <1>2. ASSUME life[o] # "none", o[1] # "ldev"
        PROVE  life'[above[o]] = "live" \/ (life'[above[o]] = "freed" /\ dels'[above[o]] > 0)
    <2>1. /\ above[o] \in Objs
          /\ life[above[o]] = "live" \/ (life[above[o]] = "freed" /\ dels[above[o]] > 0)
      BY <1>1, <1>2 DEF AboveOK
    <2> QED
      BY <2>1
  <1> QED
    BY <1>1, <1>2 DEF AboveOK

(* What the frames fs must be like on top of n frames of c for an object o in *)
(* its table: nothing goes past o.                                            *)
Stays(c, n, fs, o) ==
    table[o[1]] = o[2] /\ o[1] # "ldev" =>
        /\ n > 0 /\ n < Len(stack[c]) /\ Handles(stack[c][n + 1], o) =>
              fs # <<>> /\ Handles(fs[1], o)
        /\ \A i \in 1..Len(fs) : fs[i][2] = above[o] =>
              /\ fs[i][1] # "below"
              /\ fs[i][1] = "children" /\ fs[i][3] > Turn(o[1]) =>
                    i + 1 \in 1..Len(fs) /\ Handles(fs[i + 1], o)

LEMMA StayStep ==
    ASSUME StackInv, NEW c \in Clients, NEW n, NEW fs \in Seq(FrameSet), Onto(c, n, fs),
           NEW o \in Objs, StayOK(o), Stays(c, n, fs, o),
           table'[o[1]] = o[2] => table[o[1]] = o[2],
           table'[o[1]] = o[2] /\ o[1] # "ldev" /\ StayOK(o) =>
              /\ above'[o] = above[o] /\ life'[above[o]] = "live"
              /\ table'[above[o][1]] = above[o][2]
    PROVE  StayOK(o)'
  <1> SUFFICES ASSUME table'[o[1]] = o[2], o[1] # "ldev" PROVE StayOK(o)'
    BY DEF StayOK
  <1> DEFINE P == above[o]
  <1>1. /\ above'[o] = P /\ life'[P] = "live" /\ table'[P[1]] = P[2]
        /\ table[o[1]] = o[2]
    OBVIOUS
  <1>2. \A d \in Clients : \A i \in DOMAIN stack[d] :
            stack[d][i][2] = P =>
               /\ stack[d][i][1] # "below"
               /\ stack[d][i][1] = "children" /\ stack[d][i][3] > Turn(o[1]) =>
                     i + 1 \in DOMAIN stack[d] /\ Handles(stack[d][i + 1], o)
    BY <1>1 DEF StayOK
  <1>3. /\ n > 0 /\ n < Len(stack[c]) /\ Handles(stack[c][n + 1], o) =>
              fs # <<>> /\ Handles(fs[1], o)
        /\ \A i \in 1..Len(fs) : fs[i][2] = P =>
              /\ fs[i][1] # "below"
              /\ fs[i][1] = "children" /\ fs[i][3] > Turn(o[1]) =>
                    i + 1 \in 1..Len(fs) /\ Handles(fs[i + 1], o)
    BY <1>1 DEF Stays
  <1>4. /\ n \in Nat /\ Len(fs) \in Nat /\ stack[c] \in Seq(FrameSet) /\ n <= Len(stack[c])
        /\ stack'[c] \in Seq(FrameSet) /\ Len(stack'[c]) = n + Len(fs)
        /\ DOMAIN stack'[c] = 1..(n + Len(fs)) /\ DOMAIN stack[c] = 1..Len(stack[c])
    BY DEF Onto, StackInv
  <1> HIDE DEF P
  <1> SUFFICES ASSUME NEW d \in Clients, NEW i \in DOMAIN stack'[d], stack'[d][i][2] = P
               PROVE  /\ stack'[d][i][1] # "below"
                      /\ stack'[d][i][1] = "children" /\ stack'[d][i][3] > Turn(o[1]) =>
                            i + 1 \in DOMAIN stack'[d] /\ Handles(stack'[d][i + 1], o)
    BY <1>1 DEF StayOK, Handles
  <1>5. CASE d # c
    <2>1. stack'[d] = stack[d]
      BY <1>5 DEF Onto
    <2> QED
      BY <1>2, <2>1
  <1>6. CASE d = c /\ i \in 1..n
    <2>1. i \in DOMAIN stack[c] /\ stack'[c][i] = stack[c][i]
      BY <1>4, <1>6 DEF Onto
    <2>2. stack[c][i][1] # "below"
      BY <1>2, <1>6, <2>1
    <2>3. ASSUME stack[c][i][1] = "children", stack[c][i][3] > Turn(o[1])
          PROVE  i + 1 \in DOMAIN stack'[c] /\ Handles(stack'[c][i + 1], o)
      <3>1. i + 1 \in DOMAIN stack[c] /\ Handles(stack[c][i + 1], o)
        BY <1>2, <1>6, <2>1, <2>3
      <3>2. CASE i < n
        <4>1. i + 1 \in 1..n /\ i + 1 \in DOMAIN stack'[c]
          BY <1>4, <1>6, <3>2
        <4>2. stack'[c][i + 1] = stack[c][i + 1]
          BY <4>1 DEF Onto
        <4> QED
          BY <3>1, <4>1, <4>2
      <3>3. CASE i = n
        <4>1. fs # <<>> /\ Handles(fs[1], o)
          BY <1>3, <1>4, <1>6, <3>1, <3>3
        <4>2. 1 \in 1..Len(fs)
          BY <1>4, <4>1
        <4>3. stack'[c][n + 1] = fs[1] /\ n + 1 \in DOMAIN stack'[c]
          BY <1>4, <4>2 DEF Onto
        <4> QED
          BY <3>3, <4>1, <4>3
      <3> QED
        BY <1>4, <1>6, <3>2, <3>3
    <2> QED
      BY <1>6, <2>1, <2>2, <2>3
  <1>7. CASE d = c /\ i - n \in 1..Len(fs) /\ stack'[c][i] = fs[i - n]
    <2>1. i \in 1..(n + Len(fs))
      BY <1>4, <1>7
    <2>2. PICK j \in 1..Len(fs) : j = i - n
      BY <1>7
    <2>3. i = n + j /\ i + 1 = n + (j + 1) /\ j \in Nat
      BY <1>4, <2>1, <2>2
    <2>4. fs[j][2] = P /\ stack'[c][i] = fs[j]
      BY <1>7, <2>2
    <2>5. ASSUME fs[j][1] = "children", fs[j][3] > Turn(o[1])
          PROVE  i + 1 \in DOMAIN stack'[c] /\ Handles(stack'[c][i + 1], o)
      <3>1. j + 1 \in 1..Len(fs) /\ Handles(fs[j + 1], o)
        BY <1>3, <2>4, <2>5
      <3>2. stack'[c][n + (j + 1)] = fs[j + 1]
        BY <3>1 DEF Onto
      <3> QED
        BY <1>4, <2>3, <3>1, <3>2
    <2> QED
      BY <1>3, <1>7, <2>4, <2>5
  <1> QED
    BY <1>5, <1>6, <1>7, FramesFrom


(* Some frame of fs is at the release of o. *)
Enters(fs, o) == \E j \in 1..Len(fs) : fs[j][1] \in Going /\ fs[j][2] = o

LEMMA LeavesStep ==
    ASSUME StackInv, NEW c \in Clients, NEW n, NEW fs \in Seq(FrameSet), Onto(c, n, fs),
           NEW o \in Objs, LeavesOK(o), life'[o] = life[o],
           life[o] = "live" /\ refs'[o] = 0 /\ refs[o] # 0 => Enters(fs, o),
           \A i \in (n + 1)..Len(stack[c]) :
              stack[c][i][2] = o =>
                 /\ stack[c][i][1] = "build" =>
                       \E j \in 1..Len(fs) : fs[j][1] = "build" /\ fs[j][2] = o
                 /\ stack[c][i][1] \in Going => Enters(fs, o)
    PROVE  LeavesOK(o)'
  <1>1. ASSUME life[o] = "live", refs'[o] = 0 PROVE Busy(Going, o)'
    <2>1. CASE Enters(fs, o)
      <3>1. PICK j \in 1..Len(fs) : fs[j][1] \in Going /\ fs[j][2] = o
        BY <2>1 DEF Enters
      <3> HIDE DEF Going
      <3> QED
        BY <3>1, BusyWith
    <2>2. CASE ~Enters(fs, o)
      <3>1. Busy(Going, o)
        BY <1>1, <2>2 DEF LeavesOK
      <3>2. \A i \in (n + 1)..Len(stack[c]) :
                stack[c][i][1] \in Going /\ stack[c][i][2] = o =>
                   \E j \in 1..Len(fs) : fs[j][1] \in Going /\ fs[j][2] = o
        BY <2>2
      <3> HIDE DEF Going
      <3> QED
        BY <3>1, <3>2, BusyStep
    <2> QED
      BY <2>1, <2>2
  <1>2. ASSUME life[o] = "built" PROVE Busy({"build"}, o)'
    <2>1. Busy({"build"}, o)
      BY <1>2 DEF LeavesOK
    <2>2. \A i \in (n + 1)..Len(stack[c]) :
              stack[c][i][1] \in {"build"} /\ stack[c][i][2] = o =>
                 \E j \in 1..Len(fs) : fs[j][1] \in {"build"} /\ fs[j][2] = o
      OBVIOUS
    <2> QED
      BY <2>1, <2>2, BusyStep
  <1> QED
    BY <1>1, <1>2 DEF LeavesOK, Busy, Present, Going

(* A step that changes neither the tables nor the life of an object *)
LEMMA TreeStep ==
    ASSUME IInv, IInv', TreeInv, UNCHANGED <<table, above, life, coreHas, mediaHas>>,
           configuring' \in BOOLEAN, odd' \subseteq Odds, odd \subseteq odd',
           \A o \in Objs : DoneOK(o)' /\ OddOK(o)' /\ (dels[o] > 0 => dels'[o] > 0),
           NEW c \in Clients, NEW n, NEW fs \in Seq(FrameSet), Onto(c, n, fs),
           \A o \in Objs : life[o] = "live" /\ refs'[o] = 0 /\ refs[o] # 0 => Enters(fs, o),
           \A i \in (n + 1)..Len(stack[c]) :
              /\ stack[c][i][1] # "build"
              /\ stack[c][i][1] \in Going => Enters(fs, stack[c][i][2]),
           \A i \in 1..Len(fs) : fs[i][1] # "build",
           odd' \cap {"late", "twice", "rushed"} = {} => \A o \in Objs : Stays(c, n, fs, o)
    PROVE  TreeInv'
  <1>1. StackInv
    BY DEF IInv
  <1>2. \A o \in Objs : AboveOK(o)'
    <2>1. DataInv /\ DataInv' /\ \A o \in Objs : AboveOK(o)
      BY DEF IInv, TreeInv
    <2> QED
      BY <2>1, AboveStep
  <1>3. \A o \in Objs : LeavesOK(o)'
    <2>1. \A o \in Objs : LeavesOK(o)
      BY DEF TreeInv
    <2> HIDE DEF Going, IInv, TreeInv
    <2> QED
      BY <1>1, <2>1, LeavesStep
  <1>4. ASSUME odd' \cap {"late", "twice", "rushed"} = {}, NEW o \in Objs PROVE StayOK(o)'
    <2>1. StayOK(o) /\ Stays(c, n, fs, o)
      BY <1>4 DEF TreeInv
    <2>2. table'[o[1]] = o[2] /\ o[1] # "ldev" /\ StayOK(o) =>
              /\ above'[o] = above[o] /\ life'[above[o]] = "live"
              /\ table'[above[o][1]] = above[o][2]
      BY DEF StayOK
    <2> QED
      BY <1>1, <2>1, <2>2, StayStep
  <1>5. ASSUME odd' = {} PROVE LayersOK'
    <2>1. LayersOK
      BY <1>5 DEF TreeInv
    <2>2. \A m \in {1, 2}, k \in Kinds : Past(m, k)' = Past(m, k)
      BY <1>1, PastStep
    <2>3. \A o \in Objs : o[1] # "ldev" /\ Busy({"build"}, o) =>
              above'[o] = above[o] /\ (dels[above[o]] > 0 => dels'[above[o]] > 0)
      <3> SUFFICES ASSUME NEW o \in Objs, o[1] # "ldev", Busy({"build"}, o)
                   PROVE  above'[o] = above[o] /\ (dels[above[o]] > 0 => dels'[above[o]] > 0)
        OBVIOUS
      <3>1. PICK f \in FrameSet : Present(f) /\ f[1] = "build" /\ f[2] = o
        BY DEF Busy
      <3>2. life[o] = "built"
        BY <3>1 DEF Present, IInv, FrameInv, Now, FrameIn
      <3>3. above[o] \in Objs
        BY <3>2 DEF TreeInv, AboveOK
      <3> QED
        BY <3>3
    <2> QED
      BY <2>1, <2>2, <2>3, LayersStep
  <1>6. /\ above' = [o \in Objs |-> above'[o]]
        /\ coreHas' \subseteq Kinds /\ mediaHas' \subseteq {"ldev", "lgrp"}
    BY DEF TreeInv
  <1> QED
    BY <1>2, <1>3, <1>4, <1>5, <1>6 DEF TreeInv

(* A step of c that moves it and changes no object at all *)
LEMMA CalmStep ==
    ASSUME IInv, IInv', TreeInv,
           UNCHANGED <<table, above, life, dels, completed, coreHas, mediaHas>>,
           \A o \in Objs : refs'[o] = 0 => refs[o] = 0,
           configuring' \in BOOLEAN, odd' \subseteq Odds, odd \subseteq odd',
           NEW c \in Clients, NEW n, NEW fs \in Seq(FrameSet), Onto(c, n, fs),
           \A i \in (n + 1)..Len(stack[c]) :
              /\ stack[c][i][1] # "build"
              /\ stack[c][i][1] \in Going => Enters(fs, stack[c][i][2]),
           \A i \in 1..Len(fs) : fs[i][1] # "build",
           odd' \cap {"late", "twice", "rushed"} = {} => \A o \in Objs : Stays(c, n, fs, o)
    PROVE  TreeInv'
  <1>1. \A o \in Objs : DoneOK(o)' /\ OddOK(o)' /\ (dels[o] > 0 => dels'[o] > 0)
    BY DEF TreeInv, DoneOK, OddOK
  <1> HIDE DEF Going
  <1> QED
    BY <1>1, TreeStep


-----------------------------------------------------------------------------
(* The steps that move one thread only *)

LEMMA TopOnto ==
    ASSUME IInv, NEW c \in Clients, stack[c] # <<>>, NEW fs \in Seq(FrameSet), Become(c, fs)
    PROVE  \E n : /\ Onto(c, n, fs) /\ n < Len(stack[c]) /\ stack[c][n + 1] = Top(c)
                  /\ \A i \in (n + 1)..Len(stack[c]) : stack[c][i] = Top(c)
  <1> DEFINE n == Len(stack[c]) - 1
  <1>1. Len(stack[c]) \in Nat \ {0} /\ Top(c) = stack[c][Len(stack[c])]
    BY TopFacts DEF IInv
  <1>2. Onto(c, n, fs)
    BY BecomeOnto DEF IInv
  <1>3. n < Len(stack[c]) /\ n + 1 = Len(stack[c])
    BY <1>1
  <1>4. \A i \in (n + 1)..Len(stack[c]) : stack[c][i] = Top(c)
    BY <1>1
  <1> HIDE DEF n
  <1> QED
    BY <1>1, <1>2, <1>3, <1>4

(* The frame g is replaced by fs: nothing goes past o. *)
StaysAt(g, fs, o) ==
    table[o[1]] = o[2] /\ o[1] # "ldev" =>
        /\ Handles(g, o) => fs # <<>> /\ Handles(fs[1], o)
        /\ \A i \in 1..Len(fs) : fs[i][2] = above[o] =>
              /\ fs[i][1] # "below"
              /\ fs[i][1] = "children" /\ fs[i][3] > Turn(o[1]) =>
                    i + 1 \in 1..Len(fs) /\ Handles(fs[i + 1], o)

LEMMA CalmTop ==
    ASSUME IInv, IInv', TreeInv,
           UNCHANGED <<table, above, life, dels, completed, coreHas, mediaHas>>,
           \A o \in Objs : refs'[o] = 0 => refs[o] = 0,
           configuring' \in BOOLEAN, odd' \subseteq Odds, odd \subseteq odd',
           NEW c \in Clients, stack[c] # <<>>, NEW fs \in Seq(FrameSet), Become(c, fs),
           Top(c)[1] # "build",
           Top(c)[1] \in Going => Enters(fs, Top(c)[2]),
           \A i \in 1..Len(fs) : fs[i][1] # "build",
           odd' \cap {"late", "twice", "rushed"} = {} =>
              \A o \in Objs : StaysAt(Top(c), fs, o)
    PROVE  TreeInv'
  <1>1. PICK n : /\ Onto(c, n, fs) /\ n < Len(stack[c]) /\ stack[c][n + 1] = Top(c)
                 /\ \A i \in (n + 1)..Len(stack[c]) : stack[c][i] = Top(c)
    BY TopOnto
  <1>2. odd' \cap {"late", "twice", "rushed"} = {} => \A o \in Objs : Stays(c, n, fs, o)
    BY <1>1 DEF Stays, StaysAt
  <1>3. \A i \in (n + 1)..Len(stack[c]) :
              /\ stack[c][i][1] # "build"
              /\ stack[c][i][1] \in Going => Enters(fs, stack[c][i][2])
    BY <1>1
  <1> HIDE DEF Going
  <1> QED
    BY <1>1, <1>2, <1>3, CalmStep

LEMMA CalmPop ==
    ASSUME IInv, IInv', TreeInv,
           UNCHANGED <<table, above, life, dels, completed, coreHas, mediaHas, refs>>,
           configuring' \in BOOLEAN, odd' \subseteq Odds, odd \subseteq odd',
           NEW c \in Clients, stack[c] # <<>>, Pop(c),
           Top(c)[1] \notin Going \cup {"build"},
           odd' \cap {"late", "twice", "rushed"} = {} =>
              \A o \in Objs : table[o[1]] = o[2] => ~Handles(Top(c), o)
    PROVE  TreeInv'
  <1>1. PICK fs \in Seq(FrameSet) : Become(c, fs) /\ Len(fs) = 0 /\ 1..Len(fs) = {}
    BY PopNone
  <1>2. odd' \cap {"late", "twice", "rushed"} = {} =>
              \A o \in Objs : StaysAt(Top(c), fs, o)
    BY <1>1 DEF StaysAt
  <1>3. Top(c)[1] # "build" /\ (Top(c)[1] \in Going => Enters(fs, Top(c)[2]))
    OBVIOUS
  <1>4. \A i \in 1..Len(fs) : fs[i][1] # "build"
    BY <1>1
  <1> HIDE DEF Going
  <1> QED
    BY <1>1, <1>2, <1>3, <1>4, CalmTop

LEMMA TreeOfReturn ==
    ASSUME IInv, IInv', TreeInv, NEW c \in Clients,
           Touch(c) \/ Configured(c) \/ Woken(c) \/ TimedOut(c)
    PROVE  TreeInv'
  <1>1. /\ UNCHANGED <<table, above, life, dels, completed, coreHas, mediaHas, refs>>
        /\ Pop(c) /\ configuring' \in BOOLEAN /\ odd \subseteq odd' /\ odd' \subseteq Odds
    BY DEF Touch, Configured, Woken, TimedOut, tables, counts, TreeInv, Odds
  <1>2. \/ In(c, "touch") \/ In(c, "attr")
        \/ In(c, "wait") /\ (completed[Obj(c)] \/ "late" \in odd')
    BY DEF Touch, Configured, Woken, TimedOut
  <1>3. /\ stack[c] # <<>> /\ Top(c) \in FrameSet
        /\ Top(c)[1] \in {"touch", "attr", "wait"} /\ Top(c)[2] = Obj(c) /\ Obj(c) \in Objs
    BY <1>2, TopIn
  <1>4. Top(c)[1] \notin Going \cup {"build"}
    BY <1>3 DEF Going
  <1>5. ASSUME odd' \cap {"late", "twice", "rushed"} = {}, NEW o \in Objs,
               table[o[1]] = o[2], Handles(Top(c), o)
        PROVE  FALSE
    <2>1. Top(c)[1] = "wait" /\ Obj(c) = o
      BY <1>3, <1>5 DEF Handles, Phase
    <2>2. completed[o]
      BY <1>2, <1>5, <2>1 DEF In
    <2> QED
      BY <1>5, <2>2 DEF TreeInv, DoneOK
  <1> HIDE DEF Going
  <1> QED
    BY <1>1, <1>3, <1>4, <1>5, CalmPop

(* A release finds itself in its table. *)
LEMMA TreeOfRelease ==
    ASSUME IInv, IInv', TreeInv, NEW c \in Clients, Release(c)
    PROVE  TreeInv'
  <1>1. /\ UNCHANGED <<table, above, life, dels, completed, coreHas, mediaHas, refs>>
        /\ configuring' = configuring /\ odd' = odd /\ In(c, "release")
    BY DEF Release, tables, counts
  <1>2. /\ stack[c] # <<>> /\ Top(c)[1] = "release" /\ Top(c)[2] = Obj(c) /\ Obj(c) \in Objs
        /\ Now(Top(c)) /\ Kind(c) = Obj(c)[1] /\ Kind(c) \in Kinds
    BY <1>1, TopIn
  <1>3. table[Kind(c)] = Obj(c)[2] /\ Obj(c)[2] # 0 /\ Obj(c) = <<Obj(c)[1], Obj(c)[2]>>
    BY <1>2, ObjFacts DEF Now, FrameIn, Phase, IInv
  <1>4. Kind(c) = "lgrp" => Entry("lgrp") = Obj(c)
    BY <1>2, <1>3 DEF Entry
  <1> DEFINE f == <<"children", Obj(c), 1>>
  <1>5. Become(c, <<f>>)
    BY <1>3, <1>4 DEF Release
  <1>6. f \in FrameSet /\ f[1] = "children" /\ f[2] = Obj(c) /\ f[3] = 1
    <2>1. "children" \in Frames /\ 1 \in 0..4
      BY DEF Frames
    <2>2. f \in FrameSet
      BY <1>2, <2>1, Tuples
    <2> QED
      BY <2>2
  <1> HIDE DEF f
  <1> DEFINE fs == <<f>>
  <1>7. fs \in Seq(FrameSet) /\ Len(fs) = 1 /\ fs[1] = f /\ fs # <<>>
    BY <1>6, Sequences
  <1>8. Become(c, fs)
    BY <1>5
  <1> HIDE DEF fs
  <1>9. 1..Len(fs) = {1}
    BY <1>7
  <1>10. Enters(fs, Top(c)[2])
    BY <1>2, <1>6, <1>7, <1>9 DEF Enters, Going
  <1>11. \A o \in Objs : StaysAt(Top(c), fs, o)
    <2> SUFFICES ASSUME NEW o \in Objs PROVE StaysAt(Top(c), fs, o)
      OBVIOUS
    <2>1. Handles(Top(c), o) => Handles(f, o)
      BY <1>2, <1>6 DEF Handles, Phase
    <2>2. ~(f[3] > Turn(o[1])) /\ f[1] # "below"
      BY <1>6 DEF Turn
    <2> QED
      BY <1>7, <1>9, <2>1, <2>2 DEF StaysAt
  <1>12. Top(c)[1] # "build" /\ \A i \in 1..Len(fs) : fs[i][1] # "build"
    BY <1>2, <1>6, <1>7, <1>9
  <1>13. configuring' \in BOOLEAN /\ odd' \subseteq Odds /\ odd \subseteq odd'
    BY <1>1 DEF TreeInv
  <1>14. \A o \in Objs : refs'[o] = 0 => refs[o] = 0
    BY <1>1
  <1> HIDE DEF Going
  <1> QED
    BY <1>1, <1>2, <1>7, <1>8, <1>10, <1>11, <1>12, <1>13, <1>14, CalmTop


(* An object in its table, its parent and its place among the children *)
LEMMA Family ==
    ASSUME IInv, TreeInv, NEW o \in Objs, table[o[1]] = o[2]
    PROVE  /\ life[o] = "live" /\ o = Entry(o[1])
           /\ o[1] # "ldev" =>
                 /\ above[o] \in Objs /\ above[o][1] = Parent[o[1]]
                 /\ Turn(o[1]) \in 1..Len(Below(above[o][1]))
                 /\ Below(above[o][1])[Turn(o[1])] = o[1]
  <1>1. /\ o[1] \in Kinds /\ o[2] \in 1..MaxNew /\ o = <<o[1], o[2]>>
        /\ MaxNew \in Nat
    BY ObjFacts, ObjectsAssumption DEF IInv
  <1>2. table[o[1]] # 0 /\ o = Entry(o[1])
    BY <1>1 DEF Entry
  <1>3. life[o] = "live"
    BY <1>1, <1>2, ObjFacts DEF IInv
  <1>4. ASSUME o[1] # "ldev"
        PROVE  /\ above[o] \in Objs /\ above[o][1] = Parent[o[1]]
               /\ Turn(o[1]) \in 1..Len(Below(above[o][1]))
               /\ Below(above[o][1])[Turn(o[1])] = o[1]
    <2>1. above[o] \in Objs /\ above[o][1] = Parent[o[1]]
      BY <1>3, <1>4 DEF TreeInv, AboveOK
    <2>2. o[1] \in {"lgrp", "link", "mac"}
      BY <1>1, <1>4 DEF Kinds
    <2>3. /\ o[1] = "lgrp" => Parent[o[1]] = "ldev"
          /\ o[1] \in {"link", "mac"} => Parent[o[1]] = "lgrp"
      BY <2>2 DEF Parent
    <2>4. Below("ldev") = <<"lgrp">> /\ Below("lgrp") = <<"link", "mac">>
      BY DEF Below
    <2>5. Turn("lgrp") = 1 /\ Turn("link") = 1 /\ Turn("mac") = 2
      BY DEF Turn
    <2>6. CASE o[1] = "lgrp"
      BY <2>1, <2>3, <2>4, <2>5, <2>6
    <2>7. CASE o[1] = "link"
      BY <2>1, <2>3, <2>4, <2>5, <2>7
    <2>8. CASE o[1] = "mac"
      BY <2>1, <2>3, <2>4, <2>5, <2>8
    <2> QED
      BY <2>2, <2>6, <2>7, <2>8
  <1> QED
    BY <1>2, <1>3, <1>4

(* The thread on its way through the children of an object has not passed one *)
(* that is in its table, and the parts below are not deleted before it.       *)
LEMMA NotPassed ==
    ASSUME IInv, TreeInv, odd \cap {"late", "twice", "rushed"} = {},
           NEW o \in Objs, table[o[1]] = o[2], o[1] # "ldev",
           NEW c \in Clients, stack[c] # <<>>, Top(c)[2] = above[o]
    PROVE  /\ Top(c)[1] # "below"
           /\ Top(c)[1] = "children" => ~(Top(c)[3] > Turn(o[1]))
  <1>1. /\ Len(stack[c]) \in Nat \ {0} /\ DOMAIN stack[c] = 1..Len(stack[c])
        /\ Top(c) = stack[c][Len(stack[c])]
    BY TopFacts DEF IInv
  <1>2. StayOK(o)
    BY DEF TreeInv
  <1>3. Len(stack[c]) \in DOMAIN stack[c] /\ Len(stack[c]) + 1 \notin DOMAIN stack[c]
    BY <1>1
  <1> QED
    BY <1>1, <1>2, <1>3 DEF StayOK

LEMMA TreeOfDeleteChildren ==
    ASSUME IInv, IInv', TreeInv, NEW c \in Clients, DeleteChildren(c)
    PROVE  TreeInv'
  <1>1. /\ UNCHANGED <<table, above, life, dels, completed, coreHas, mediaHas, refs>>
        /\ configuring' = configuring /\ odd' = odd /\ In(c, "children")
    BY DEF DeleteChildren, tables, counts
  <1>2. /\ stack[c] # <<>> /\ Top(c)[1] = "children" /\ Top(c)[2] = Obj(c) /\ Obj(c) \in Objs
        /\ Now(Top(c)) /\ Kind(c) = Obj(c)[1] /\ Kind(c) \in Kinds /\ Top(c)[3] = Pos(c)
        /\ Top(c) \in FrameSet
    BY <1>1, TopIn DEF Pos
  <1>3. Pos(c) \in 0..4 /\ Pos(c) # 0
    BY <1>2, Tuples DEF Pos, Now, FrameIn
  <1>4. configuring' \in BOOLEAN /\ odd' \subseteq Odds /\ odd \subseteq odd'
    BY <1>1 DEF TreeInv
  <1>5. \A o \in Objs : refs'[o] = 0 => refs[o] = 0
    BY <1>1
  <1>6. ASSUME odd' \cap {"late", "twice", "rushed"} = {}, NEW o \in Objs,
               table[o[1]] = o[2], o[1] # "ldev", Obj(c) = above[o]
        PROVE  /\ ~(Pos(c) > Turn(o[1])) /\ Turn(o[1]) \in 1..Len(Below(Kind(c)))
               /\ Below(Kind(c))[Turn(o[1])] = o[1] /\ o = Entry(o[1])
    BY <1>1, <1>2, <1>6, Family, NotPassed
  <1>7. CASE Pos(c) > Len(Below(Kind(c)))
    <2> DEFINE f == Frame("below", Obj(c))
    <2>1. f \in FrameSet /\ f[1] = "below" /\ f[2] = Obj(c)
      <3>1. "below" \in Frames
        BY DEF Frames
      <3> QED
        BY <1>2, <3>1, Tuples
    <2>2. Become(c, <<f>>)
      BY <1>7 DEF DeleteChildren, Goto
    <2> HIDE DEF f
    <2> DEFINE fs == <<f>>
    <2>3. fs \in Seq(FrameSet) /\ Len(fs) = 1 /\ fs[1] = f /\ fs # <<>> /\ Become(c, fs)
      BY <2>1, <2>2, Sequences
    <2> HIDE DEF fs
    <2>4. 1..Len(fs) = {1}
      BY <2>3
    <2>5. Enters(fs, Top(c)[2])
      BY <1>2, <2>1, <2>3, <2>4 DEF Enters, Going
    <2>6. ASSUME odd' \cap {"late", "twice", "rushed"} = {}, NEW o \in Objs
          PROVE  StaysAt(Top(c), fs, o)
      <3> SUFFICES ASSUME table[o[1]] = o[2], o[1] # "ldev" PROVE StaysAt(Top(c), fs, o)
        BY DEF StaysAt
      <3>1. Handles(Top(c), o) => Handles(f, o)
        BY <1>2, <2>1 DEF Handles, Phase
      <3>2. Obj(c) # above[o]
        <4> SUFFICES ASSUME Obj(c) = above[o] PROVE FALSE
          OBVIOUS
        <4>1. ~(Pos(c) > Turn(o[1])) /\ Turn(o[1]) \in 1..Len(Below(Kind(c)))
          BY <1>6, <2>6
        <4>2. Len(Below(Kind(c))) \in Nat
          BY DEF Below
        <4> QED
          BY <1>3, <1>7, <4>1, <4>2
      <3> QED
        BY <2>1, <2>3, <2>4, <3>1, <3>2 DEF StaysAt
    <2>7. Top(c)[1] # "build" /\ \A i \in 1..Len(fs) : fs[i][1] # "build"
      BY <1>2, <2>1, <2>3, <2>4
    <2> HIDE DEF Going
    <2> QED
      BY <1>1, <1>2, <1>4, <1>5, <2>3, <2>5, <2>6, <2>7, CalmTop
  <1>8. CASE ~(Pos(c) > Len(Below(Kind(c))))
    <2> DEFINE f == <<"children", Obj(c), Pos(c) + 1>>
               child == Below(Kind(c))[Pos(c)]
               g == Frame("drop", Entry(child))
    <2>1. child \in Kinds /\ Pos(c) + 1 \in 0..4
      BY <1>2, <1>3, <1>8 DEF Below, Kinds
    <2>2. f \in FrameSet /\ f[1] = "children" /\ f[2] = Obj(c) /\ f[3] = Pos(c) + 1
      <3>1. "children" \in Frames
        BY DEF Frames
      <3>2. f \in FrameSet
        BY <1>2, <2>1, <3>1, Tuples
      <3> QED
        BY <3>2
    <2>3. Become(c, <<f>> \o (IF table[child] = 0 THEN <<>> ELSE <<g>>))
      BY <1>8 DEF DeleteChildren
    <2>4. ASSUME NEW o \in Objs, table[o[1]] = o[2], o[1] # "ldev", Obj(c) = above[o],
                 odd' \cap {"late", "twice", "rushed"} = {}, f[3] > Turn(o[1])
          PROVE  child = o[1] /\ table[child] # 0 /\ Entry(child) = o
      <3>1. /\ ~(Pos(c) > Turn(o[1])) /\ Turn(o[1]) \in 1..Len(Below(Kind(c)))
            /\ Below(Kind(c))[Turn(o[1])] = o[1] /\ o = Entry(o[1])
        BY <1>6, <2>4
      <3>2. Len(Below(Kind(c))) \in Nat
        BY DEF Below
      <3>3. Pos(c) = Turn(o[1])
        BY <1>3, <2>2, <2>4, <3>1, <3>2
      <3>4. o[2] # 0
        BY ObjFacts, ObjectsAssumption DEF IInv
      <3> QED
        BY <2>4, <3>1, <3>3, <3>4
    <2> HIDE DEF f, child
    <2>5. PICK fs \in Seq(FrameSet) :
             /\ Become(c, fs) /\ Len(fs) \in {1, 2} /\ fs[1] = f /\ fs # <<>>
             /\ Len(fs) = 2 => fs[2] = g /\ g[1] = "drop" /\ g[2] = Entry(child)
             /\ Len(fs) = 1 => table[child] = 0
      <3>1. CASE table[child] = 0
        <4> DEFINE gs == <<f>>
        <4>1. <<f>> \o <<>> = <<f>>
          OBVIOUS
        <4>2. Become(c, gs)
          BY <2>3, <3>1, <4>1
        <4>3. gs \in Seq(FrameSet) /\ Len(gs) = 1 /\ gs[1] = f /\ gs # <<>>
          BY <2>2, Sequences
        <4> HIDE DEF gs
        <4> QED
          BY <3>1, <4>2, <4>3
      <3>2. CASE table[child] # 0
        <4>1. Entry(child) \in Objs
          BY <2>1, <3>2, ObjFacts DEF IInv
        <4>2. g \in FrameSet /\ g[1] = "drop" /\ g[2] = Entry(child)
          <5>1. "drop" \in Frames
            BY DEF Frames
          <5> QED
            BY <4>1, <5>1, Tuples
        <4> HIDE DEF g
        <4> DEFINE gs == <<f, g>>
        <4>3. <<f>> \o <<g>> = <<f, g>>
          BY <2>2, <4>2, TwoFrames
        <4>4. Become(c, gs)
          BY <2>3, <3>2, <4>3
        <4>5. gs \in Seq(FrameSet) /\ Len(gs) = 2 /\ gs[1] = f /\ gs[2] = g /\ gs # <<>>
          BY <2>2, <4>2, Sequences
        <4> HIDE DEF gs
        <4> QED
          BY <4>2, <4>4, <4>5
      <3> QED
        BY <3>1, <3>2
    <2> HIDE DEF g
    <2>6. \A i \in 1..Len(fs) : i = 1 \/ (i = 2 /\ Len(fs) = 2)
      <3>1. CASE Len(fs) = 1
        <4>1. 1..Len(fs) = {1}
          BY <3>1
        <4> QED
          BY <4>1
      <3>2. CASE Len(fs) = 2
        <4>1. 1..Len(fs) = {1, 2}
          BY <3>2
        <4> QED
          BY <3>2, <4>1
      <3> QED
        BY <2>5, <3>1, <3>2
    <2>7. 1 \in 1..Len(fs) /\ (Len(fs) = 2 => 1 + 1 \in 1..Len(fs) /\ 1 + 1 = 2)
      BY <2>5
    <2>8. Enters(fs, Top(c)[2])
      BY <1>2, <2>2, <2>5, <2>7 DEF Enters, Going
    <2>9. ASSUME odd' \cap {"late", "twice", "rushed"} = {}, NEW o \in Objs
          PROVE  StaysAt(Top(c), fs, o)
      <3> SUFFICES ASSUME table[o[1]] = o[2], o[1] # "ldev" PROVE StaysAt(Top(c), fs, o)
        BY DEF StaysAt
      <3>1. Handles(Top(c), o) => Handles(f, o)
        BY <1>2, <2>2 DEF Handles, Phase
      <3>2. ASSUME f[2] = above[o], f[3] > Turn(o[1])
            PROVE  1 + 1 \in 1..Len(fs) /\ Handles(fs[1 + 1], o)
        <4>1. child = o[1] /\ table[child] # 0 /\ Entry(child) = o
          BY <2>2, <2>4, <2>9, <3>2
        <4>2. Len(fs) = 2 /\ fs[2] = g /\ g[1] = "drop" /\ g[2] = o
          BY <2>5, <4>1
        <4> QED
          BY <2>7, <4>2 DEF Handles
      <3>3. ASSUME NEW i \in 1..Len(fs), fs[i][2] = above[o]
            PROVE  /\ fs[i][1] # "below"
                   /\ fs[i][1] = "children" /\ fs[i][3] > Turn(o[1]) =>
                         i + 1 \in 1..Len(fs) /\ Handles(fs[i + 1], o)
        <4>1. CASE i = 1
          BY <2>2, <2>5, <3>2, <3>3, <4>1
        <4>2. CASE i = 2 /\ Len(fs) = 2
          BY <2>5, <4>2
        <4> QED
          BY <2>6, <4>1, <4>2
      <3> QED
        BY <2>5, <3>1, <3>3 DEF StaysAt
    <2>10. Top(c)[1] # "build" /\ \A i \in 1..Len(fs) : fs[i][1] # "build"
      BY <1>2, <2>2, <2>5, <2>6
    <2> HIDE DEF Going
    <2> QED
      BY <1>1, <1>2, <1>4, <1>5, <2>5, <2>8, <2>9, <2>10, CalmTop
  <1> QED
    BY <1>7, <1>8


(* The frames of a call that has or takes a reference *)
LEMMA CallFrames ==
    ASSUME IInv, NEW c \in Clients, In(c, "ref") \/ In(c, "body")
    PROVE  \A i \in DOMAIN stack[c] :
              stack[c][i][1] \in {"touch", "configured", "ref", "body"}
  <1>1. /\ stack[c] # <<>> /\ Len(stack[c]) \in Nat \ {0}
        /\ DOMAIN stack[c] = 1..Len(stack[c]) /\ Top(c) = stack[c][Len(stack[c])]
        /\ Top(c)[1] \in {"ref", "body"} /\ Shaped(stack[c])
    <2>1. stack[c] # <<>> /\ Top(c)[1] \in {"ref", "body"}
      BY TopIn
    <2> QED
      BY <2>1, TopFacts DEF IInv, StackInv
  <1>2. Len(stack[c]) \in DOMAIN stack[c] /\ stack[c][Len(stack[c])][1] \in Calling
    BY <1>1 DEF Calling
  <1>3. \/ Len(stack[c]) = 1 /\ stack[c][1][1] \in {"ref", "body"}
        \/ Len(stack[c]) = 2 /\ stack[c][1][1] \in {"touch", "configured"}
                             /\ stack[c][2][1] \in {"ref", "body"}
    BY <1>1, <1>2 DEF Shaped
  <1>4. CASE Len(stack[c]) = 1
    <2>1. 1..Len(stack[c]) = {1}
      BY <1>4
    <2> QED
      BY <1>1, <1>3, <1>4, <2>1
  <1>5. CASE Len(stack[c]) = 2
    <2>1. 1..Len(stack[c]) = {1, 2}
      BY <1>5
    <2> QED
      BY <1>1, <1>3, <1>5, <2>1
  <1> QED
    BY <1>3, <1>4, <1>5

(* A step within a call, which begins and ends no deletion: c leaves frames of *)
(* a call and enters such frames.                                             *)
LEMMA CalmCall ==
    ASSUME IInv, IInv', TreeInv,
           UNCHANGED <<table, above, life, dels, completed, coreHas, mediaHas>>,
           \A o \in Objs : refs'[o] = 0 => refs[o] = 0,
           configuring' \in BOOLEAN, odd' = odd,
           NEW c \in Clients, NEW n, NEW fs \in Seq(FrameSet), Onto(c, n, fs),
           \A i \in (n + 1)..Len(stack[c]) :
              stack[c][i][1] \in {"touch", "configured", "ref", "body"},
           \A i \in 1..Len(fs) :
              fs[i][1] \in {"touch", "configured", "ref", "body", "attr", "drop"}
    PROVE  TreeInv'
  <1>1. \A i \in (n + 1)..Len(stack[c]) :
              stack[c][i][1] # "build" /\ stack[c][i][1] \notin Going
    BY DEF Going
  <1>2. \A i \in 1..Len(fs) : fs[i][1] \notin {"build", "below", "children"}
    OBVIOUS
  <1>3. ASSUME NEW o \in Objs PROVE Stays(c, n, fs, o)
    <2>1. ASSUME n > 0, n < Len(stack[c]), Handles(stack[c][n + 1], o) PROVE FALSE
      <3>1. n \in Nat /\ Len(stack[c]) \in Nat
        BY DEF Onto, IInv, StackInv
      <3>2. n + 1 \in (n + 1)..Len(stack[c])
        BY <2>1, <3>1
      <3> QED
        BY <2>1, <3>2 DEF Handles, Phase
    <2> QED
      BY <1>2, <2>1 DEF Stays
  <1>4. odd \subseteq odd' /\ odd' \subseteq Odds
    BY DEF TreeInv
  <1> HIDE DEF Going
  <1> QED
    BY <1>1, <1>2, <1>3, <1>4, CalmStep

LEMMA TreeOfTakeRef ==
    ASSUME IInv, IInv', TreeInv, NEW c \in Clients, TakeRef(c)
    PROVE  TreeInv'
  <1>1. /\ UNCHANGED <<table, above, life, dels, completed, coreHas, mediaHas>>
        /\ configuring' = configuring /\ odd' = odd /\ In(c, "ref")
    BY DEF TakeRef, tables
  <1>2. stack[c] # <<>> /\ Obj(c) \in Objs
    BY <1>1, TopIn DEF Obj, FrameSet
  <1>3. \A i \in DOMAIN stack[c] :
              stack[c][i][1] \in {"touch", "configured", "ref", "body"}
    BY <1>1, CallFrames
  <1>4. configuring' \in BOOLEAN
    BY <1>1 DEF TreeInv
  <1>5. /\ refs \in [Objs -> Nat] /\ DOMAIN stack[c] = 1..Len(stack[c])
        /\ Len(stack[c]) \in Nat
    BY DEF IInv, DataInv, StackInv
  <1>6. CASE refs[Obj(c)] > 0
    <2>1. Goto(c, "body") /\ refs' = [refs EXCEPT ![Obj(c)] = @ + 1]
      BY <1>6 DEF TakeRef
    <2>2. PICK fs \in Seq(FrameSet) : Become(c, fs) /\ Len(fs) = 1 /\ fs[1][1] = "body"
      <3>1. "body" \in Frames
        BY DEF Frames
      <3>2. Frame("body", Obj(c)) \in FrameSet /\ Frame("body", Obj(c))[1] = "body"
        BY <1>2, <3>1, Tuples
      <3>3. Become(c, <<Frame("body", Obj(c))>>)
        BY <2>1 DEF Goto
      <3> QED
        BY <3>2, <3>3, Sequences
    <2>3. PICK n : /\ Onto(c, n, fs) /\ n < Len(stack[c]) /\ stack[c][n + 1] = Top(c)
                   /\ \A i \in (n + 1)..Len(stack[c]) : stack[c][i] = Top(c)
      BY <1>2, <2>2, TopOnto
    <2>4. \A o \in Objs : refs'[o] = 0 => refs[o] = 0
      BY <1>2, <1>5, <2>1
    <2>5. \A i \in (n + 1)..Len(stack[c]) :
              stack[c][i][1] \in {"touch", "configured", "ref", "body"}
      <3>1. n \in Nat
        BY <2>3 DEF Onto
      <3>2. \A i \in (n + 1)..Len(stack[c]) : i \in DOMAIN stack[c]
        BY <1>5, <3>1
      <3> QED
        BY <1>3, <3>2
    <2>6. \A i \in 1..Len(fs) :
              fs[i][1] \in {"touch", "configured", "ref", "body", "attr", "drop"}
      <3>1. 1..Len(fs) = {1}
        BY <2>2
      <3> QED
        BY <2>2, <3>1
    <2> QED
      BY <1>1, <1>4, <2>3, <2>4, <2>5, <2>6, CalmCall
  <1>7. CASE ~(refs[Obj(c)] > 0)
    <2>1. stack' = [stack EXCEPT ![c] = <<>>] /\ refs' = refs
      BY <1>7 DEF TakeRef
    <2>2. <<>> \in Seq(FrameSet) /\ Len(<<>>) = 0
      BY Sequences
    <2>3. Onto(c, 0, <<>>)
      BY <2>1, <2>2, SetOnto DEF IInv
    <2>4. \A i \in (0 + 1)..Len(stack[c]) :
              stack[c][i][1] \in {"touch", "configured", "ref", "body"}
      BY <1>3, <1>5
    <2>5. \A i \in 1..Len(<<>>) :
              <<>>[i][1] \in {"touch", "configured", "ref", "body", "attr", "drop"}
      <3>1. 1..Len(<<>>) = {}
        BY <2>2
      <3> QED
        BY <3>1
    <2>6. \A o \in Objs : refs'[o] = 0 => refs[o] = 0
      BY <2>1
    <2> QED
      BY <1>1, <1>4, <2>2, <2>3, <2>4, <2>5, <2>6, CalmCall
  <1> QED
    BY <1>6, <1>7

LEMMA TreeOfConfigure ==
    ASSUME IInv, IInv', TreeInv, NEW c \in Clients, Configure(c)
    PROVE  TreeInv'
  <1>1. /\ UNCHANGED <<table, above, life, dels, completed, coreHas, mediaHas, refs>>
        /\ odd' = odd /\ In(c, "body")
    BY DEF Configure, tables, counts
  <1>2. stack[c] # <<>> /\ Obj(c) \in Objs
    BY <1>1, TopIn DEF Obj, FrameSet
  <1>3. \A i \in DOMAIN stack[c] :
              stack[c][i][1] \in {"touch", "configured", "ref", "body"}
    BY <1>1, CallFrames
  <1>4. configuring' \in BOOLEAN
    BY DEF Configure, TreeInv
  <1>5. DOMAIN stack[c] = 1..Len(stack[c]) /\ Len(stack[c]) \in Nat
    BY DEF IInv, StackInv
  <1> DEFINE f == Frame("body", Obj(c))
             g == Frame("attr", Obj(c))
  <1>6. f \in FrameSet /\ g \in FrameSet /\ f[1] = "body" /\ g[1] = "attr"
    <2>1. "body" \in Frames /\ "attr" \in Frames
      BY DEF Frames
    <2> QED
      BY <1>2, <2>1, Tuples
  <1>7. \E fs \in {<<f>>, <<f, g>>} : stack' = [stack EXCEPT ![c] = fs]
    BY DEF Configure
  <1> HIDE DEF f, g
  <1>8. ASSUME NEW fs \in {<<f>>, <<f, g>>}
        PROVE  /\ fs \in Seq(FrameSet)
               /\ \A i \in 1..Len(fs) : fs[i][1] \in {"body", "attr"}
    <2>1. CASE fs = <<f>>
      <3>1. fs \in Seq(FrameSet) /\ Len(fs) = 1 /\ fs[1] = f
        BY <1>6, <2>1, Sequences
      <3>2. 1..Len(fs) = {1}
        BY <3>1
      <3> QED
        BY <1>6, <3>1, <3>2
    <2>2. CASE fs = <<f, g>>
      <3>1. fs \in Seq(FrameSet) /\ Len(fs) = 2 /\ fs[1] = f /\ fs[2] = g
        BY <1>6, <2>2, Sequences
      <3>2. 1..Len(fs) = {1, 2}
        BY <3>1
      <3> QED
        BY <1>6, <3>1, <3>2
    <2> QED
      BY <2>1, <2>2
  <1>9. PICK fs \in Seq(FrameSet) :
           /\ stack' = [stack EXCEPT ![c] = fs]
           /\ \A i \in 1..Len(fs) : fs[i][1] \in {"body", "attr"}
    BY <1>7, <1>8
  <1>10. Onto(c, 0, fs)
    BY <1>9, SetOnto DEF IInv
  <1>11. \A i \in (0 + 1)..Len(stack[c]) :
              stack[c][i][1] \in {"touch", "configured", "ref", "body"}
    BY <1>3, <1>5
  <1>12. \A o \in Objs : refs'[o] = 0 => refs[o] = 0
    BY <1>1
  <1>13. \A i \in 1..Len(fs) :
              fs[i][1] \in {"touch", "configured", "ref", "body", "attr", "drop"}
    BY <1>9
  <1> QED
    BY <1>1, <1>4, <1>10, <1>11, <1>12, <1>13, CalmCall

LEMMA TreeOfCallOn ==
    ASSUME IInv, IInv', TreeInv, NEW c \in Clients, stack[c] = <<>>,
           NEW op, NEW k \in Kinds, CallOn(c, op, k)
    PROVE  TreeInv'
  <1> DEFINE o == Entry(k)
             d == Frame("drop", o)
             t == Frame("touch", o)
             g == Frame("configured", o)
             r == Frame("ref", o)
             ok == {"touch", "configured", "ref", "body", "attr", "drop"}
  <1>1. /\ UNCHANGED <<table, above, life, dels, completed, coreHas, mediaHas, refs>>
        /\ configuring' = configuring /\ odd' = odd
        /\ \E fs \in {<<d>>, <<r>>, <<t, r>>, <<g, r>>} : stack' = [stack EXCEPT ![c] = fs]
    BY DEF CallOn, tables, counts
  <1>2. o \in Objs
    BY ObjFacts DEF IInv, CallOn
  <1>3. \A f \in {d, t, g, r} : f \in FrameSet /\ f[1] \in ok
    <2>1. {"drop", "touch", "configured", "ref"} \subseteq Frames
      BY DEF Frames
    <2> QED
      BY <1>2, <2>1, Tuples
  <1> HIDE DEF d, t, g, r
  <1>4. ASSUME NEW e \in {d, r}
        PROVE  /\ <<e>> \in Seq(FrameSet) /\ \A i \in 1..Len(<<e>>) : <<e>>[i][1] \in ok
    <2> DEFINE fs == <<e>>
    <2>1. fs \in Seq(FrameSet) /\ Len(fs) = 1 /\ fs[1] = e
      BY <1>3, Sequences
    <2> HIDE DEF fs
    <2>2. 1..Len(fs) = {1}
      BY <2>1
    <2>3. fs \in Seq(FrameSet) /\ \A i \in 1..Len(fs) : fs[i][1] \in ok
      BY <1>3, <2>1, <2>2
    <2> QED
      BY <2>3 DEF fs
  <1>5. ASSUME NEW e \in {t, g}
        PROVE  /\ <<e, r>> \in Seq(FrameSet)
               /\ \A i \in 1..Len(<<e, r>>) : <<e, r>>[i][1] \in ok
    <2> DEFINE fs == <<e, r>>
    <2>1. fs \in Seq(FrameSet) /\ Len(fs) = 2 /\ fs[1] = e /\ fs[2] = r
      BY <1>3, Sequences
    <2> HIDE DEF fs
    <2>2. 1..Len(fs) = {1, 2}
      BY <2>1
    <2>3. fs \in Seq(FrameSet) /\ \A i \in 1..Len(fs) : fs[i][1] \in ok
      BY <1>3, <2>1, <2>2
    <2> QED
      BY <2>3 DEF fs
  <1>6. PICK fs \in Seq(FrameSet) : /\ stack' = [stack EXCEPT ![c] = fs]
                                    /\ \A i \in 1..Len(fs) : fs[i][1] \in ok
    BY <1>1, <1>4, <1>5
  <1>7. Onto(c, 0, fs)
    BY <1>6, SetOnto DEF IInv
  <1>8. \A i \in (0 + 1)..Len(stack[c]) :
              stack[c][i][1] \in {"touch", "configured", "ref", "body"}
    <2>1. Len(stack[c]) = 0 /\ (0 + 1)..0 = {}
      OBVIOUS
    <2> QED
      BY <2>1
  <1>9. configuring' \in BOOLEAN /\ \A q \in Objs : refs'[q] = 0 => refs[q] = 0
    BY <1>1 DEF TreeInv
  <1> QED
    BY <1>1, <1>6, <1>7, <1>8, <1>9, CalmCall

LEMMA TreeOfCallAttr ==
    ASSUME IInv, IInv', TreeInv, NEW c \in Clients, stack[c] = <<>>, CallAttr(c)
    PROVE  TreeInv'
  <1> DEFINE f == Frame("attr", Entry("lgrp"))
             ok == {"touch", "configured", "ref", "body", "attr", "drop"}
  <1>1. /\ UNCHANGED <<table, above, life, dels, completed, coreHas, mediaHas, refs>>
        /\ configuring' = TRUE /\ odd' = odd /\ stack' = [stack EXCEPT ![c] = <<f>>]
    BY DEF CallAttr, tables, counts
  <1>2. Entry("lgrp") \in Objs
    <2>1. "lgrp" \in Kinds /\ table["lgrp"] # 0
      BY DEF Kinds, CallAttr
    <2> QED
      BY <2>1, ObjFacts DEF IInv
  <1>3. f \in FrameSet /\ f[1] = "attr"
    <2>1. "attr" \in Frames
      BY DEF Frames
    <2> QED
      BY <1>2, <2>1, Tuples
  <1> HIDE DEF f
  <1> DEFINE fs == <<f>>
  <1>4. fs \in Seq(FrameSet) /\ Len(fs) = 1 /\ fs[1] = f
    BY <1>3, Sequences
  <1>5. stack' = [stack EXCEPT ![c] = fs]
    BY <1>1
  <1> HIDE DEF fs
  <1>6. 1..Len(fs) = {1}
    BY <1>4
  <1>7. Onto(c, 0, fs)
    BY <1>4, <1>5, SetOnto DEF IInv
  <1>8. \A i \in (0 + 1)..Len(stack[c]) :
              stack[c][i][1] \in {"touch", "configured", "ref", "body"}
    <2>1. Len(stack[c]) = 0 /\ (0 + 1)..0 = {}
      OBVIOUS
    <2> QED
      BY <2>1
  <1>9. configuring' \in BOOLEAN /\ \A q \in Objs : refs'[q] = 0 => refs[q] = 0
    BY <1>1
  <1>10. \A i \in 1..Len(fs) : fs[i][1] \in ok
    BY <1>3, <1>4, <1>6
  <1> QED
    BY <1>1, <1>4, <1>7, <1>8, <1>9, <1>10, CalmCall


-----------------------------------------------------------------------------
(* The steps that change the counts of an object *)

LEMMA TreeTop ==
    ASSUME IInv, IInv', TreeInv, UNCHANGED <<table, above, life, coreHas, mediaHas>>,
           configuring' = configuring, odd' \subseteq Odds, odd \subseteq odd',
           \A o \in Objs : DoneOK(o)' /\ OddOK(o)' /\ (dels[o] > 0 => dels'[o] > 0),
           NEW c \in Clients, stack[c] # <<>>, NEW fs \in Seq(FrameSet), Become(c, fs),
           \A o \in Objs : life[o] = "live" /\ refs'[o] = 0 /\ refs[o] # 0 => Enters(fs, o),
           Top(c)[1] # "build",
           Top(c)[1] \in Going => Enters(fs, Top(c)[2]),
           \A i \in 1..Len(fs) : fs[i][1] \notin {"build", "below", "children"},
           \A o \in Objs : Handles(Top(c), o) => fs # <<>> /\ Handles(fs[1], o)
    PROVE  TreeInv'
  <1>1. PICK n : /\ Onto(c, n, fs) /\ n < Len(stack[c]) /\ stack[c][n + 1] = Top(c)
                 /\ \A i \in (n + 1)..Len(stack[c]) : stack[c][i] = Top(c)
    BY TopOnto
  <1>2. \A o \in Objs : Stays(c, n, fs, o)
    BY <1>1 DEF Stays
  <1>3. \A i \in (n + 1)..Len(stack[c]) :
              /\ stack[c][i][1] # "build"
              /\ stack[c][i][1] \in Going => Enters(fs, stack[c][i][2])
    BY <1>1
  <1>4. configuring' \in BOOLEAN
    BY DEF TreeInv
  <1>5. \A i \in 1..Len(fs) : fs[i][1] # "build"
    OBVIOUS
  <1> HIDE DEF Going
  <1> QED
    BY <1>1, <1>2, <1>3, <1>4, <1>5, TreeStep

LEMMA OneFrame ==
    ASSUME NEW c \in Clients, Obj(c) \in Objs, NEW s \in Frames, Goto(c, s)
    PROVE  \E fs \in Seq(FrameSet) :
              /\ Become(c, fs) /\ Len(fs) = 1 /\ 1..Len(fs) = {1} /\ fs # <<>>
              /\ fs[1][1] = s /\ fs[1][2] = Obj(c)
  <1> DEFINE f == Frame(s, Obj(c))
             fs == <<f>>
  <1>1. f \in FrameSet /\ f[1] = s /\ f[2] = Obj(c)
    BY Tuples
  <1>2. Become(c, fs)
    BY DEF Goto
  <1> HIDE DEF f
  <1>3. fs \in Seq(FrameSet) /\ Len(fs) = 1 /\ fs[1] = f
    BY <1>1, Sequences
  <1> HIDE DEF fs
  <1>4. 1..Len(fs) = {1} /\ fs # <<>>
    BY <1>3
  <1> QED
    BY <1>1, <1>2, <1>3, <1>4

LEMMA TreeOfPut ==
    ASSUME IInv, IInv', TreeInv, NEW c \in Clients, Put(c)
    PROVE  TreeInv'
  <1>1. /\ UNCHANGED <<table, above, life, dels, completed, coreHas, mediaHas>>
        /\ configuring' = configuring /\ odd' = odd /\ In(c, "body")
        /\ refs' = [refs EXCEPT ![Obj(c)] = OneLess(@)]
    BY DEF Put, tables
  <1>2. /\ stack[c] # <<>> /\ Obj(c) \in Objs /\ Top(c)[1] = "body"
    BY <1>1, TopIn DEF Obj, FrameSet
  <1>3. odd' \subseteq Odds /\ odd \subseteq odd'
    BY <1>1 DEF TreeInv
  <1>4. \A o \in Objs : DoneOK(o)' /\ OddOK(o)' /\ (dels[o] > 0 => dels'[o] > 0)
    BY <1>1 DEF TreeInv, DoneOK, OddOK
  <1>5. PICK fs \in Seq(FrameSet) :
           /\ Become(c, fs) /\ \A i \in 1..Len(fs) : fs[i][1] = "release"
           /\ refs[Obj(c)] = 1 =>
                 Len(fs) = 1 /\ fs[1][1] = "release" /\ fs[1][2] = Obj(c)
    <2>1. CASE refs[Obj(c)] = 1
      <3>1. Goto(c, "release") /\ "release" \in Frames
        BY <2>1 DEF Put, Frames
      <3>2. PICK fs \in Seq(FrameSet) :
              /\ Become(c, fs) /\ Len(fs) = 1 /\ 1..Len(fs) = {1} /\ fs # <<>>
              /\ fs[1][1] = "release" /\ fs[1][2] = Obj(c)
        BY <1>2, <3>1, OneFrame
      <3>3. \A i \in 1..Len(fs) : fs[i][1] = "release"
        BY <3>2
      <3> QED
        BY <3>2, <3>3
    <2>2. CASE refs[Obj(c)] # 1
      <3>1. Pop(c)
        BY <2>2 DEF Put
      <3>2. PICK fs \in Seq(FrameSet) : Become(c, fs) /\ Len(fs) = 0 /\ 1..Len(fs) = {}
        BY <3>1, PopNone
      <3>3. \A i \in 1..Len(fs) : fs[i][1] = "release"
        BY <3>2
      <3> QED
        BY <2>2, <3>2, <3>3
    <2> QED
      BY <2>1, <2>2
  <1>6. refs \in [Objs -> Nat]
    BY DEF IInv, DataInv
  <1>7. ASSUME NEW o \in Objs, life[o] = "live", refs'[o] = 0, refs[o] # 0
        PROVE  Enters(fs, o)
    <2>1. refs'[o] = IF o = Obj(c) THEN OneLess(refs[o]) ELSE refs[o]
      BY <1>1, <1>6
    <2>2. o = Obj(c) /\ refs[o] = 1
      BY <1>6, <1>7, <2>1 DEF OneLess
    <2>3. 1 \in 1..Len(fs) /\ fs[1][1] \in Going /\ fs[1][2] = o
      BY <1>5, <2>2 DEF Going
    <2> QED
      BY <2>3 DEF Enters
  <1>8. Top(c)[1] # "build" /\ Top(c)[1] \notin Going
    BY <1>2 DEF Going
  <1>9. \A i \in 1..Len(fs) : fs[i][1] \notin {"build", "below", "children"}
    BY <1>5
  <1>10. \A o \in Objs : ~Handles(Top(c), o)
    BY <1>2 DEF Handles, Phase
  <1> HIDE DEF Going
  <1> QED
    BY <1>1, <1>2, <1>3, <1>4, <1>5, <1>7, <1>8, <1>9, <1>10, TreeTop

LEMMA TreeOfDrop ==
    ASSUME IInv, IInv', TreeInv, NEW c \in Clients, Drop(c)
    PROVE  TreeInv'
  <1> DEFINE s == IF refs[Obj(c)] = 1 THEN "release" ELSE "wait"
  <1>1. /\ UNCHANGED <<table, above, life, completed, coreHas, mediaHas>>
        /\ configuring' = configuring /\ In(c, "drop") /\ Goto(c, s)
        /\ odd' = odd \cup (IF dels[Obj(c)] > 0 THEN {"twice"} ELSE {})
        /\ refs' = [refs EXCEPT ![Obj(c)] = OneLess(@)]
        /\ dels' = [dels EXCEPT ![Obj(c)] = @ + 1]
    BY DEF Drop, tables
  <1>2. /\ stack[c] # <<>> /\ Obj(c) \in Objs /\ Top(c)[1] = "drop" /\ Top(c)[2] = Obj(c)
    BY <1>1, TopIn DEF Obj, FrameSet
  <1>3. odd' \subseteq Odds /\ odd \subseteq odd'
    BY <1>1 DEF TreeInv, Odds
  <1>4. refs \in [Objs -> Nat] /\ dels \in [Objs -> Nat]
    BY DEF IInv, DataInv
  <1>5. ASSUME NEW o \in Objs
        PROVE  DoneOK(o)' /\ OddOK(o)' /\ (dels[o] > 0 => dels'[o] > 0)
    <2>1. DoneOK(o)'
      BY <1>1 DEF TreeInv, DoneOK
    <2>2. /\ dels'[o] = (IF o = Obj(c) THEN dels[o] + 1 ELSE dels[o]) /\ dels[o] \in Nat
          /\ OddOK(o)
      BY <1>1, <1>4 DEF TreeInv
    <2>3. dels[o] > 0 => dels'[o] > 0
      BY <2>2
    <2>4. dels'[o] > 1 => dels[o] > 1 \/ (o = Obj(c) /\ dels[o] > 0)
      BY <2>2
    <2>5. OddOK(o)'
      BY <1>1, <2>2, <2>4 DEF OddOK
    <2> QED
      BY <2>1, <2>3, <2>5
  <1>6. PICK fs \in Seq(FrameSet) :
           /\ Become(c, fs) /\ Len(fs) = 1 /\ 1..Len(fs) = {1} /\ fs # <<>>
           /\ fs[1][1] = s /\ fs[1][2] = Obj(c)
    <2>1. s \in Frames
      BY DEF Frames
    <2> HIDE DEF s
    <2> QED
      BY <1>1, <1>2, <2>1, OneFrame
  <1>7. ASSUME NEW o \in Objs, life[o] = "live", refs'[o] = 0, refs[o] # 0
        PROVE  Enters(fs, o)
    <2>1. refs'[o] = IF o = Obj(c) THEN OneLess(refs[o]) ELSE refs[o]
      BY <1>1, <1>4
    <2>2. o = Obj(c) /\ refs[o] = 1
      BY <1>4, <1>7, <2>1 DEF OneLess
    <2>3. 1 \in 1..Len(fs) /\ fs[1][1] \in Going /\ fs[1][2] = o
      BY <1>6, <2>2 DEF Going
    <2> QED
      BY <2>3 DEF Enters
  <1>8. Top(c)[1] # "build" /\ Top(c)[1] \notin Going
    BY <1>2 DEF Going
  <1>9. \A i \in 1..Len(fs) : fs[i][1] \notin {"build", "below", "children"}
    BY <1>6
  <1>10. \A o \in Objs : Handles(Top(c), o) => fs # <<>> /\ Handles(fs[1], o)
    BY <1>2, <1>6 DEF Handles, Phase
  <1> HIDE DEF Going, s
  <1> QED
    BY <1>1, <1>2, <1>3, <1>5, <1>6, <1>7, <1>8, <1>9, <1>10, TreeTop

LEMMA TreeOfComplete ==
    ASSUME IInv, IInv', TreeInv, NEW c \in Clients, Complete(c)
    PROVE  TreeInv'
  <1>1. /\ UNCHANGED <<table, above, life, dels, refs, coreHas, mediaHas>>
        /\ configuring' = configuring /\ odd' = odd /\ In(c, "complete") /\ Goto(c, "free")
        /\ completed' = [completed EXCEPT ![Obj(c)] = TRUE]
    BY DEF Complete, tables
  <1>2. /\ stack[c] # <<>> /\ Obj(c) \in Objs /\ Top(c)[1] = "complete" /\ Top(c)[2] = Obj(c)
        /\ Now(Top(c))
    BY <1>1, TopIn DEF Obj, FrameSet
  <1>3. odd' \subseteq Odds /\ odd \subseteq odd'
    BY <1>1 DEF TreeInv
  <1>4. ASSUME NEW o \in Objs
        PROVE  DoneOK(o)' /\ OddOK(o)' /\ (dels[o] > 0 => dels'[o] > 0)
    <2>1. CASE o = Obj(c)
      <3>1. life[o] \in {"live", "freed"} /\ table[o[1]] # o[2]
        BY <1>2, <2>1 DEF Now, FrameIn
      <3> QED
        BY <1>1, <3>1 DEF DoneOK, OddOK, TreeInv
    <2>2. CASE o # Obj(c)
      <3>1. completed'[o] = completed[o]
        BY <1>1, <2>2 DEF IInv, DataInv
      <3> QED
        BY <1>1, <3>1 DEF DoneOK, OddOK, TreeInv
    <2> QED
      BY <2>1, <2>2
  <1>5. PICK fs \in Seq(FrameSet) :
           /\ Become(c, fs) /\ Len(fs) = 1 /\ 1..Len(fs) = {1} /\ fs # <<>>
           /\ fs[1][1] = "free" /\ fs[1][2] = Obj(c)
    <2>1. "free" \in Frames
      BY DEF Frames
    <2> QED
      BY <1>1, <1>2, <2>1, OneFrame
  <1>6. Enters(fs, Top(c)[2])
    <2>1. 1 \in 1..Len(fs) /\ fs[1][1] \in Going /\ fs[1][2] = Obj(c)
      BY <1>5 DEF Going
    <2> QED
      BY <1>2, <2>1 DEF Enters
  <1>7. Top(c)[1] # "build"
    BY <1>2
  <1>8. \A i \in 1..Len(fs) : fs[i][1] \notin {"build", "below", "children"}
    BY <1>5
  <1>9. \A o \in Objs : ~Handles(Top(c), o)
    BY <1>2 DEF Handles, Phase
  <1>10. \A o \in Objs : life[o] = "live" /\ refs'[o] = 0 /\ refs[o] # 0 => Enters(fs, o)
    BY <1>1
  <1> HIDE DEF Going
  <1> QED
    BY <1>1, <1>2, <1>3, <1>4, <1>5, <1>6, <1>7, <1>8, <1>9, <1>10, TreeTop


(* What is on its way out was deleted. *)
LEMMA GoingDeleted ==
    ASSUME IInv, NEW o \in Objs, life[o] = "live", refs[o] = 0
    PROVE  dels[o] > 0
  <1>1. /\ dels[o] \in Nat /\ IsFiniteSet(Holders(o))
        /\ dels[o] <= 1 => refs[o] = Cardinality(Holders(o)) + (1 - dels[o])
    BY DEF IInv, DataInv, CountInv, CountOK
  <1>2. Cardinality(Holders(o)) \in Nat
    BY <1>1, FS_CardinalityType
  <1> QED
    BY <1>1, <1>2

LEMMA TreeOfFreeObject ==
    ASSUME IInv, IInv', TreeInv, NEW c \in Clients, FreeObject(c)
    PROVE  TreeInv'
  <1>1. /\ UNCHANGED <<table, above, dels, refs, completed, coreHas, mediaHas>>
        /\ configuring' = configuring /\ odd' = odd /\ In(c, "free") /\ Pop(c)
        /\ life' = [life EXCEPT ![Obj(c)] = "freed"]
    BY DEF FreeObject, tables
  <1>2. /\ stack[c] # <<>> /\ Obj(c) \in Objs /\ Top(c)[1] = "free" /\ Top(c)[2] = Obj(c)
        /\ Now(Top(c))
    BY <1>1, TopIn DEF Obj, FrameSet
  <1>3. /\ life[Obj(c)] \in {"live", "freed"} /\ refs[Obj(c)] = 0
        /\ table[Obj(c)[1]] # Obj(c)[2]
    BY <1>2 DEF Now, FrameIn, Going
  <1>4. \A o \in Objs : life'[o] = IF o = Obj(c) THEN "freed" ELSE life[o]
    BY <1>1 DEF IInv, DataInv
  <1>5. PICK fs \in Seq(FrameSet) : Become(c, fs) /\ Len(fs) = 0 /\ 1..Len(fs) = {}
    BY <1>1, PopNone
  <1>6. PICK n : /\ Onto(c, n, fs) /\ n < Len(stack[c]) /\ stack[c][n + 1] = Top(c)
                 /\ \A i \in (n + 1)..Len(stack[c]) : stack[c][i] = Top(c)
    BY <1>2, <1>5, TopOnto
  <1>7. StackInv /\ DataInv /\ DataInv'
    BY DEF IInv
  <1>8. \A o \in Objs : AboveOK(o)'
    <2>1. \A o \in Objs : \/ life'[o] = life[o]
                          \/ life[o] = "live" /\ life'[o] = "freed" /\ dels'[o] > 0
      BY <1>1, <1>2, <1>3, <1>4, GoingDeleted
    <2>2. \A o \in Objs : AboveOK(o)
      BY DEF TreeInv
    <2>3. above' = above /\ \A o \in Objs : dels[o] > 0 => dels'[o] > 0
      BY <1>1
    <2> QED
      BY <1>7, <2>1, <2>2, <2>3, AboveStep
  <1>9. ASSUME NEW o \in Objs PROVE DoneOK(o)' /\ LeavesOK(o)' /\ OddOK(o)'
    <2>1. DoneOK(o) /\ LeavesOK(o) /\ OddOK(o)
      BY DEF TreeInv
    <2>2. DoneOK(o)' /\ OddOK(o)'
      BY <1>1, <1>4, <2>1 DEF DoneOK, OddOK
    <2>3. CASE o = Obj(c)
      <3>1. LeavesOK(o)'
        BY <1>4, <2>3 DEF LeavesOK
      <3> QED
        BY <2>2, <3>1
    <2>4. CASE o # Obj(c)
      <3>1. \A i \in (n + 1)..Len(stack[c]) : stack[c][i][2] # o
        BY <1>2, <1>6, <2>4
      <3>2. life'[o] = life[o] /\ refs'[o] = refs[o]
        BY <1>1, <1>4, <2>4
      <3> HIDE DEF Going
      <3>3. LeavesOK(o)'
        BY <1>6, <1>7, <2>1, <3>1, <3>2, LeavesStep
      <3> QED
        BY <2>2, <3>3
    <2> QED
      BY <2>3, <2>4
  <1>10. ASSUME odd' \cap {"late", "twice", "rushed"} = {}, NEW o \in Objs PROVE StayOK(o)'
    <2>1. StayOK(o)
      BY <1>1, <1>10 DEF TreeInv
    <2>2. Stays(c, n, fs, o)
      BY <1>2, <1>5, <1>6 DEF Stays, Handles, Phase
    <2>3. table'[o[1]] = o[2] /\ o[1] # "ldev" /\ StayOK(o) =>
              /\ above'[o] = above[o] /\ life'[above[o]] = "live"
              /\ table'[above[o][1]] = above[o][2]
      <3> SUFFICES ASSUME table[o[1]] = o[2], o[1] # "ldev"
                   PROVE  life'[above[o]] = "live" /\ table[above[o][1]] = above[o][2]
        BY <1>1
      <3>1. above[o] \in Objs
        BY Family
      <3>2. life[above[o]] = "live" /\ table[above[o][1]] = above[o][2]
        BY <2>1 DEF StayOK
      <3> QED
        BY <1>3, <1>4, <3>1, <3>2
    <2>4. table'[o[1]] = o[2] => table[o[1]] = o[2]
      BY <1>1
    <2> QED
      BY <1>6, <1>7, <2>1, <2>2, <2>3, <2>4, StayStep
  <1>11. ASSUME odd' = {} PROVE LayersOK'
    <2>1. LayersOK
      BY <1>1, <1>11 DEF TreeInv
    <2>2. \A m \in {1, 2}, k \in Kinds : Past(m, k)' = Past(m, k)
      <3>1. \A i \in (n + 1)..Len(stack[c]) : stack[c][i][1] # "build"
        BY <1>2, <1>6
      <3> QED
        BY <1>5, <1>6, <1>7, <3>1, PastStep
    <2> QED
      BY <1>1, <2>1, <2>2, LayersStep
  <1>12. /\ above' = [o \in Objs |-> above'[o]] /\ configuring' \in BOOLEAN
         /\ coreHas' \subseteq Kinds /\ mediaHas' \subseteq {"ldev", "lgrp"}
         /\ odd' \subseteq Odds
    BY <1>1 DEF TreeInv
  <1> QED
    BY <1>8, <1>9, <1>10, <1>11, <1>12 DEF TreeInv

-----------------------------------------------------------------------------
(* The layers below *)

(* A kind whose table, part below and creations stay as they are *)
LEMMA CoreKept ==
    ASSUME NEW k, CoreOK(k), UNCHANGED <<above, dels>>, Past(1, k)' = Past(1, k),
           table'[k] = table[k], k \in coreHas' <=> k \in coreHas
    PROVE  CoreOK(k)'
  <1>1. Doomed(1, k)' <=> Doomed(1, k)
    BY DEF Doomed
  <1> QED
    BY <1>1 DEF CoreOK

LEMMA MediaKept ==
    ASSUME NEW k, MediaOK(k), UNCHANGED <<above, dels>>, Past(2, k)' = Past(2, k),
           table'[k] = table[k], k \in mediaHas' <=> k \in mediaHas
    PROVE  MediaOK(k)'
  <1>1. Doomed(2, k)' <=> Doomed(2, k)
    BY DEF Doomed
  <1> QED
    BY <1>1 DEF MediaOK

(* A kind that is gone from its table and from the layer below *)
LEMMA CoreGone ==
    ASSUME NEW k, UNCHANGED <<above, dels>>, Past(1, k)' = Past(1, k),
           table'[k] = 0, k \notin coreHas', Past(1, k) = {} \/ Doomed(1, k)
    PROVE  CoreOK(k)'
  <1>1. Doomed(1, k)' <=> Doomed(1, k)
    BY DEF Doomed
  <1> QED
    BY <1>1 DEF CoreOK

LEMMA MediaGone ==
    ASSUME NEW k, UNCHANGED <<above, dels>>, Past(2, k)' = Past(2, k),
           table'[k] = 0, k \notin mediaHas', Past(2, k) = {} \/ Doomed(2, k)
    PROVE  MediaOK(k)'
  <1>1. Doomed(2, k)' <=> Doomed(2, k)
    BY DEF Doomed
  <1> QED
    BY <1>1 DEF MediaOK

(* A frame that is present, seen as the frame of a client *)
LEMMA PastFacts ==
    ASSUME IInv, NEW m \in {1, 2}, NEW k \in Kinds, NEW f \in Past(m, k)
    PROVE  /\ f \in FrameSet /\ f[1] = "build" /\ f[2] \in Objs /\ f[2][1] = k
           /\ life[f[2]] = "built" /\ table[k] = 0
           /\ \E d \in Clients : \E i \in DOMAIN stack[d] : stack[d][i] = f
  <1>1. /\ f \in FrameSet /\ f[1] = "build" /\ f[2][1] = k
        /\ \E d \in Clients : \E i \in DOMAIN stack[d] : stack[d][i] = f
    BY DEF Past, Present
  <1>2. Now(f)
    BY <1>1 DEF IInv, FrameInv
  <1>3. f[2] \in Objs
    BY <1>1, Tuples
  <1> QED
    BY <1>1, <1>2, <1>3 DEF Now, FrameIn

(* Of a kind nobody else is created. *)
LEMMA PastAlone ==
    ASSUME IInv, NEW c \in Clients, In(c, "build"), NEW m \in {1, 2},
           NEW f \in Past(m, Kind(c))
    PROVE  f = Top(c)
  <1>1. /\ stack[c] # <<>> /\ Len(stack[c]) = 1 /\ stack[c][1] = Top(c)
        /\ Top(c)[1] = "build" /\ Top(c)[2][1] = Kind(c) /\ Kind(c) \in Kinds
    BY BuildFacts, TopIn DEF Kind, Obj
  <1>2. 1 \in DOMAIN stack[c]
    BY <1>1 DEF IInv, StackInv
  <1>3. PICK d \in Clients : \E i \in DOMAIN stack[d] : stack[d][i] = f
    BY <1>1, PastFacts
  <1>4. PICK i \in DOMAIN stack[d] : stack[d][i] = f
    BY <1>3
  <1>5. Alike(stack[d][i], stack[c][1])
    BY <1>1, <1>4, PastFacts DEF Alike
  <1>6. d = c /\ i = 1
    BY <1>2, <1>5 DEF IInv, AloneInv
  <1> QED
    BY <1>1, <1>4, <1>6

(* A creation under a parent that is on its way out is doomed. *)
LEMMA Orphans ==
    ASSUME IInv, TreeInv, NEW k \in Kinds \ {"ldev"}, NEW m \in {1, 2},
           \A o \in Objs : o[1] = Parent[k] /\ life[o] = "live" => refs[o] = 0
    PROVE  Past(m, k) = {} \/ Doomed(m, k)
  <1> SUFFICES ASSUME NEW f \in Past(m, k) PROVE Doomed(m, k)
    OBVIOUS
  <1>1. f[2] \in Objs /\ f[2][1] = k /\ life[f[2]] = "built"
    BY PastFacts
  <1>2. /\ above[f[2]] \in Objs /\ above[f[2]][1] = Parent[k]
        /\ \/ life[above[f[2]]] = "live"
           \/ dels[above[f[2]]] > 0
    BY <1>1 DEF TreeInv, AboveOK
  <1>3. dels[above[f[2]]] > 0
    BY <1>2, GoingDeleted
  <1> QED
    BY <1>3 DEF Doomed

(* What is in its table has a parent that is in its own. *)
LEMMA NoChild ==
    ASSUME IInv, TreeInv, odd = {}, NEW k \in Kinds \ {"ldev"},
           \/ table[Parent[k]] = 0
           \/ \E c \in Clients : /\ stack[c] # <<>> /\ Top(c)[1] = "below"
                                 /\ Top(c)[2] = Entry(Parent[k])
    PROVE  table[k] = 0
  <1> SUFFICES ASSUME table[k] # 0 PROVE FALSE
    OBVIOUS
  <1> DEFINE o == Entry(k)
  <1>1. o \in Objs /\ o[1] = k /\ o[2] = table[k]
    BY ObjFacts DEF IInv
  <1> HIDE DEF o
  <1>2. table[o[1]] = o[2] /\ o[1] # "ldev"
    BY <1>1
  <1>3. StayOK(o) /\ odd \cap {"late", "twice", "rushed"} = {}
    BY <1>1 DEF TreeInv
  <1>4. above[o] \in Objs /\ above[o][1] = Parent[k]
    BY <1>1, <1>2, Family
  <1>5. table[Parent[k]] = above[o][2]
    BY <1>2, <1>3, <1>4 DEF StayOK
  <1>6. above[o][2] # 0 /\ above[o] = <<above[o][1], above[o][2]>>
    BY <1>4, ObjFacts, ObjectsAssumption DEF IInv
  <1>7. above[o] = Entry(Parent[k])
    BY <1>4, <1>5, <1>6 DEF Entry
  <1> QED
    BY <1>1, <1>2, <1>3, <1>5, <1>6, <1>7, NotPassed


LEMMA TreeOfDeleteBelow ==
    ASSUME IInv, IInv', TreeInv, NEW c \in Clients, DeleteBelow(c)
    PROVE  TreeInv'
  <1> DEFINE K == Kind(c)
             s == IF K = "mac" THEN "free" ELSE "complete"
  <1>1. /\ UNCHANGED <<above, life, dels, refs, completed>>
        /\ configuring' = configuring /\ In(c, "below") /\ Goto(c, s)
        /\ coreHas' = coreHas \ CoreOf(K)
        /\ mediaHas' = mediaHas \ (CASE K = "ldev" -> {"ldev", "lgrp"} [] OTHER -> {K})
        /\ odd' = odd \cup (IF configuring /\ K \in {"ldev", "lgrp"} THEN {"leaked"} ELSE {})
        /\ table' = [table EXCEPT ![K] = 0]
    BY DEF DeleteBelow, counts
  <1>2. /\ stack[c] # <<>> /\ Obj(c) \in Objs /\ Top(c)[1] = "below" /\ Top(c)[2] = Obj(c)
        /\ Now(Top(c)) /\ K = Obj(c)[1] /\ K \in Kinds
    BY <1>1, TopIn DEF Obj, FrameSet, Objs, Kind
  <1>3. table[K] = Obj(c)[2] /\ refs[Obj(c)] = 0 /\ Obj(c)[2] # 0 /\ Obj(c) = Entry(K)
    <2>1. table[K] = Obj(c)[2] /\ refs[Obj(c)] = 0
      BY <1>2 DEF Now, FrameIn, Phase, Going
    <2>2. Obj(c)[2] # 0 /\ Obj(c) = <<Obj(c)[1], Obj(c)[2]>>
      BY <1>2, ObjFacts, ObjectsAssumption DEF IInv
    <2> QED
      BY <1>2, <2>1, <2>2 DEF Entry
  <1>4. \A j \in Kinds : table'[j] = IF j = K THEN 0 ELSE table[j]
    BY <1>1 DEF IInv, DataInv
  <1>5. PICK fs \in Seq(FrameSet) :
           /\ Become(c, fs) /\ Len(fs) = 1 /\ 1..Len(fs) = {1} /\ fs # <<>>
           /\ fs[1][1] = s /\ fs[1][2] = Obj(c)
    <2>1. s \in Frames
      BY DEF Frames
    <2> HIDE DEF s
    <2> QED
      BY <1>1, <1>2, <2>1, OneFrame
  <1>6. PICK n : /\ Onto(c, n, fs) /\ n < Len(stack[c]) /\ stack[c][n + 1] = Top(c)
                 /\ \A i \in (n + 1)..Len(stack[c]) : stack[c][i] = Top(c)
    BY <1>2, <1>5, TopOnto
  <1>7. StackInv /\ DataInv /\ DataInv' /\ \A o \in Objs : o[1] \in Kinds /\ o[2] # 0
    BY ObjFacts, ObjectsAssumption DEF IInv
  <1>8. \A o \in Objs : AboveOK(o)'
    <2>1. \A o \in Objs : AboveOK(o)
      BY DEF TreeInv
    <2> QED
      BY <1>1, <1>7, <2>1, AboveStep
  <1>9. ASSUME NEW o \in Objs PROVE DoneOK(o)' /\ LeavesOK(o)' /\ OddOK(o)'
    <2>1. DoneOK(o) /\ LeavesOK(o) /\ OddOK(o)
      BY DEF TreeInv
    <2>2. DoneOK(o)' /\ OddOK(o)'
      BY <1>1, <1>4, <1>7, <2>1 DEF DoneOK, OddOK
    <2>3. \A i \in (n + 1)..Len(stack[c]) :
              stack[c][i][2] = o =>
                 /\ stack[c][i][1] = "build" =>
                       \E j \in 1..Len(fs) : fs[j][1] = "build" /\ fs[j][2] = o
                 /\ stack[c][i][1] \in Going => Enters(fs, o)
      <3>1. Obj(c) = o => Enters(fs, o)
        BY <1>5 DEF Enters, Going
      <3> QED
        BY <1>2, <1>6, <3>1
    <2>4. life'[o] = life[o] /\ refs'[o] = refs[o]
      BY <1>1
    <2> HIDE DEF Going
    <2>5. LeavesOK(o)'
      BY <1>6, <1>7, <2>1, <2>3, <2>4, LeavesStep
    <2> QED
      BY <2>2, <2>5
  <1>10. ASSUME odd' \cap {"late", "twice", "rushed"} = {}, NEW o \in Objs PROVE StayOK(o)'
    <2>1. StayOK(o) /\ odd \cap {"late", "twice", "rushed"} = {}
      BY <1>1, <1>10 DEF TreeInv
    <2>2. CASE o[1] = K
      BY <1>4, <1>7, <2>2 DEF StayOK
    <2>3. CASE o[1] # K
      <3>1. Stays(c, n, fs, o)
        <4>1. o # Obj(c)
          BY <1>2, <2>3
        <4>2. ~Handles(Top(c), o)
          BY <1>2, <4>1 DEF Handles
        <4>3. \A i \in 1..Len(fs) : fs[i][1] \notin {"below", "children"}
          BY <1>5
        <4> QED
          BY <1>6, <4>2, <4>3 DEF Stays
      <3>2. table'[o[1]] = o[2] => table[o[1]] = o[2]
        BY <1>4, <1>7, <2>3
      <3>3. table'[o[1]] = o[2] /\ o[1] # "ldev" /\ StayOK(o) =>
              /\ above'[o] = above[o] /\ life'[above[o]] = "live"
              /\ table'[above[o][1]] = above[o][2]
        <4> SUFFICES ASSUME table[o[1]] = o[2], o[1] # "ldev"
                     PROVE  life[above[o]] = "live" /\ table'[above[o][1]] = above[o][2]
          BY <1>1, <3>2
        <4>1. above[o] \in Objs
          BY Family
        <4>2. life[above[o]] = "live" /\ table[above[o][1]] = above[o][2]
          BY <2>1 DEF StayOK
        <4>3. above[o][1] # K
          <5> SUFFICES ASSUME above[o][1] = K PROVE FALSE
            OBVIOUS
          <5>1. above[o] = Obj(c)
            BY <1>3, <4>1, <4>2, ObjFacts DEF IInv, Entry
          <5> QED
            BY <1>2, <2>1, <5>1, NotPassed
        <4> QED
          BY <1>4, <1>7, <4>1, <4>2, <4>3
      <3> QED
        BY <1>6, <1>7, <2>1, <3>1, <3>2, <3>3, StayStep
    <2> QED
      BY <2>2, <2>3
  <1>11. ASSUME odd' = {} PROVE LayersOK'
    <2>1. LayersOK /\ odd = {} /\ (configuring => K \notin {"ldev", "lgrp"})
      BY <1>1, <1>11 DEF TreeInv
    <2>2. \A m \in {1, 2}, k \in Kinds : Past(m, k)' = Past(m, k)
      <3>1. \A i \in (n + 1)..Len(stack[c]) : stack[c][i][1] # "build"
        BY <1>2, <1>6
      <3>2. \A i \in 1..Len(fs) : fs[i][1] # "build"
        BY <1>5
      <3> QED
        BY <1>6, <1>7, <3>1, <3>2, PastStep
    <2>3. \A m \in {1, 2} : Past(m, K) = {}
      BY <1>2, <1>3, PastFacts
    <2>4. ASSUME NEW k \in Kinds \ {"ldev"}, Parent[k] = K
          PROVE  table[k] = 0 /\ \A m \in {1, 2} : Past(m, k) = {} \/ Doomed(m, k)
      <3>1. table[k] = 0
        BY <1>2, <1>3, <2>1, <2>4, NoChild
      <3>2. \A o \in Objs : o[1] = Parent[k] /\ life[o] = "live" => refs[o] = 0
        <4> SUFFICES ASSUME NEW o \in Objs, o[1] = K, life[o] = "live", refs[o] # 0
                     PROVE  FALSE
          BY <2>4
        <4>1. refs[o] > 0
          BY DEF IInv, DataInv
        <4>2. table[K] = o[2]
          BY <4>1 DEF IInv, ObjInv, ObjOK
        <4>3. o = Obj(c)
          BY <1>3, <4>2, ObjFacts DEF IInv, Entry
        <4> QED
          BY <1>3, <4>3
      <3> QED
        BY <3>1, <3>2, Orphans
    <2>5. ASSUME K = "ldev"
          PROVE  table["link"] = 0 /\ \A m \in {1, 2} : Past(m, "link") = {} \/ Doomed(m, "link")
      <3>1. "lgrp" \in Kinds \ {"ldev"} /\ Parent["lgrp"] = "ldev"
            /\ "link" \in Kinds \ {"ldev"} /\ Parent["link"] = "lgrp"
        BY DEF Kinds, Parent
      <3>2. table["lgrp"] = 0
        BY <2>4, <2>5, <3>1
      <3>3. table["link"] = 0
        BY <2>1, <3>1, <3>2, NoChild
      <3>4. \A o \in Objs : o[1] = "lgrp" /\ life[o] = "live" => refs[o] = 0
        <4> SUFFICES ASSUME NEW o \in Objs, o[1] = "lgrp", life[o] = "live", refs[o] # 0
                     PROVE  FALSE
          OBVIOUS
        <4>1. refs[o] > 0
          BY DEF IInv, DataInv
        <4>2. table["lgrp"] = o[2]
          BY <4>1 DEF IInv, ObjInv, ObjOK
        <4> QED
          BY <1>7, <3>2, <4>2
      <3> QED
        BY <3>1, <3>3, <3>4, Orphans
    <2>6. K \in CoreOf(K)
      <3> HIDE DEF K
      <3>1. CASE K = "ldev"
        BY <3>1 DEF CoreOf
      <3>2. CASE K = "lgrp"
        BY <2>1, <3>2 DEF CoreOf
      <3>3. CASE K \notin {"ldev", "lgrp"}
        BY <3>3 DEF CoreOf
      <3> QED
        BY <3>1, <3>2, <3>3
    <2>7. \A k \in CoreOf(K) : \/ k = K
                               \/ k \in Kinds \ {"ldev"} /\ Parent[k] = K
                               \/ k = "link" /\ K = "ldev"
      BY <1>2 DEF CoreOf, Kinds, Parent
    <2>8. ASSUME NEW k \in Kinds PROVE CoreOK(k)'
      <3>1. CASE k \notin CoreOf(K)
        <4>1. table'[k] = table[k] /\ (k \in coreHas' <=> k \in coreHas)
          BY <1>1, <1>4, <2>6, <3>1
        <4>2. CoreOK(k)
          BY <2>1 DEF LayersOK
        <4> QED
          BY <1>1, <2>2, <4>1, <4>2, CoreKept
      <3>2. CASE k \in CoreOf(K)
        <4>1. k \notin coreHas'
          BY <1>1, <3>2
        <4>2. table'[k] = 0 /\ (Past(1, k) = {} \/ Doomed(1, k))
          BY <1>4, <2>3, <2>4, <2>5, <2>7, <3>2
        <4> QED
          BY <1>1, <2>2, <4>1, <4>2, CoreGone
      <3> QED
        BY <3>1, <3>2
    <2>9. ASSUME NEW k \in {"ldev", "lgrp"} PROVE MediaOK(k)'
      <3> DEFINE M == CASE K = "ldev" -> {"ldev", "lgrp"} [] OTHER -> {K}
      <3>1. K \in M /\ \A j \in M : j = K \/ (j \in Kinds \ {"ldev"} /\ Parent[j] = K)
        <4>1. CASE K = "ldev"
          BY <4>1 DEF Kinds, Parent
        <4>2. CASE K # "ldev"
          BY <4>2
        <4> QED
          BY <4>1, <4>2
      <3>2. mediaHas' = mediaHas \ M /\ k \in Kinds
        BY <1>1 DEF Kinds
      <3> HIDE DEF M
      <3>3. CASE k \notin M
        <4>1. table'[k] = table[k] /\ (k \in mediaHas' <=> k \in mediaHas)
          BY <1>4, <3>1, <3>2, <3>3
        <4>2. MediaOK(k)
          BY <2>1 DEF LayersOK
        <4> QED
          BY <1>1, <2>2, <3>2, <4>1, <4>2, MediaKept
      <3>4. CASE k \in M
        <4>1. k \notin mediaHas'
          BY <3>2, <3>4
        <4>2. table'[k] = 0 /\ (Past(2, k) = {} \/ Doomed(2, k))
          BY <1>4, <2>3, <2>4, <3>1, <3>2, <3>4
        <4> QED
          BY <1>1, <2>2, <3>2, <4>1, <4>2, MediaGone
      <3> QED
        BY <3>3, <3>4
    <2> QED
      BY <2>8, <2>9 DEF LayersOK
  <1>12. /\ above' = [o \in Objs |-> above'[o]] /\ configuring' \in BOOLEAN
         /\ coreHas' \subseteq Kinds /\ mediaHas' \subseteq {"ldev", "lgrp"}
         /\ odd' \subseteq Odds
    BY <1>1 DEF TreeInv, Odds
  <1> QED
    BY <1>8, <1>9, <1>10, <1>11, <1>12 DEF TreeInv


-----------------------------------------------------------------------------
(* A creation, part after part *)

LEMMA PartsFacts ==
    \A k \in Kinds :
        /\ Len(Parts(k)) \in {2, 3} /\ Parts(k)[1] = "core"
        /\ k \in {"ldev", "lgrp"} => Parts(k)[2] = "media"
        /\ \A p \in 1..Len(Parts(k)) :
              /\ Parts(k)[p] \in {"core", "media", "sysfs"}
              /\ Parts(k)[p] = "media" => k \in {"ldev", "lgrp"} /\ p = 2
              /\ <<k, Parts(k)[p]>> \in NotUndone \/ p = 1 \/ (k = "lgrp" /\ p = 2)
  <1>1. Parts("ldev") = <<"core", "media">> /\ Parts("lgrp") = <<"core", "media", "sysfs">>
    BY DEF Parts
  <1>2. Parts("link") = <<"core", "sysfs">> /\ Parts("mac") = <<"core", "sysfs">>
    BY DEF Parts
  <1>3. 1..2 = {1, 2} /\ 1..3 = {1, 2, 3}
    OBVIOUS
  <1> SUFFICES ASSUME NEW k \in Kinds
               PROVE  /\ Len(Parts(k)) \in {2, 3} /\ Parts(k)[1] = "core"
                      /\ k \in {"ldev", "lgrp"} => Parts(k)[2] = "media"
                      /\ \A p \in 1..Len(Parts(k)) :
                            /\ Parts(k)[p] \in {"core", "media", "sysfs"}
                            /\ Parts(k)[p] = "media" => k \in {"ldev", "lgrp"} /\ p = 2
                            /\ \/ <<k, Parts(k)[p]>> \in NotUndone
                               \/ p = 1 \/ (k = "lgrp" /\ p = 2)
    OBVIOUS
  <1>4. CASE k = "ldev"
    BY <1>1, <1>3, <1>4 DEF NotUndone
  <1>5. CASE k = "lgrp"
    BY <1>1, <1>3, <1>5 DEF NotUndone
  <1>6. CASE k \in {"link", "mac"}
    BY <1>2, <1>3, <1>6 DEF NotUndone
  <1> QED
    BY <1>4, <1>5, <1>6 DEF Kinds

LEMMA BuildTop ==
    ASSUME IInv, NEW c \in Clients, In(c, "build")
    PROVE  /\ Top(c) \in FrameSet /\ Top(c)[3] = Pos(c) /\ Pos(c) \in 1..4
           /\ Present(Top(c))
           /\ \A m \in {1, 2} : Pos(c) > m => Top(c) \in Past(m, Kind(c))
           /\ \A m \in {1, 2} : ~(Pos(c) > m) => Past(m, Kind(c)) = {}
  <1>1. /\ stack[c] # <<>> /\ Len(stack[c]) = 1 /\ stack[c][1] = Top(c)
        /\ Top(c) \in FrameSet /\ Top(c)[1] = "build" /\ Top(c)[2] = Obj(c)
        /\ Kind(c) = Obj(c)[1] /\ Pos(c) \in 0..4 /\ Top(c)[3] = Pos(c)
    BY BuildFacts DEF Pos
  <1>2. 1 \in DOMAIN stack[c]
    BY <1>1 DEF IInv, StackInv
  <1>3. Pos(c) # 0
    BY <1>1, <1>2 DEF IInv, FrameInv, Now, FrameIn
  <1>4. Present(Top(c))
    BY <1>1, <1>2 DEF Present
  <1>5. \A m \in {1, 2} : Pos(c) > m => Top(c) \in Past(m, Kind(c))
    BY <1>1, <1>4 DEF Past
  <1>6. ASSUME NEW m \in {1, 2}, ~(Pos(c) > m), NEW f \in Past(m, Kind(c)) PROVE FALSE
    <2>1. f = Top(c)
      BY <1>6, PastAlone
    <2> QED
      BY <1>1, <1>6, <2>1 DEF Past
  <1> QED
    BY <1>1, <1>3, <1>4, <1>5, <1>6

(* A step of a creation that publishes nothing *)
LEMMA CreateStep ==
    ASSUME IInv, IInv', TreeInv, UNCHANGED <<table, above, dels, completed>>,
           configuring' = configuring, odd' \subseteq Odds, odd \subseteq odd',
           coreHas' \subseteq Kinds, mediaHas' \subseteq {"ldev", "lgrp"},
           NEW c \in Clients, In(c, "build"),
           \A q \in Objs : q # Obj(c) => life'[q] = life[q] /\ refs'[q] = refs[q],
           NEW n, NEW fs \in Seq(FrameSet), Onto(c, n, fs),
           n < Len(stack[c]), stack[c][n + 1] = Top(c),
           \A i \in (n + 1)..Len(stack[c]) : stack[c][i] = Top(c),
           \A i \in 1..Len(fs) : fs[i][1] = "build",
           \/ life'[Obj(c)] = "freed"
           \/ life'[Obj(c)] = "built" /\ \E j \in 1..Len(fs) : fs[j][2] = Obj(c),
           odd' = {} => LayersOK'
    PROVE  TreeInv'
  <1>1. /\ Top(c)[1] = "build" /\ Top(c)[2] = Obj(c) /\ Obj(c) \in Objs
        /\ life[Obj(c)] = "built"
    BY BuildFacts
  <1>2. StackInv /\ DataInv /\ DataInv'
    BY DEF IInv
  <1>3. \A o \in Objs : AboveOK(o)'
    <2>1. \A o \in Objs : AboveOK(o)
      BY DEF TreeInv
    <2>2. \A o \in Objs : \/ life'[o] = life[o]
                          \/ life[o] = "built" /\ life'[o] \in {"live", "freed"}
      BY <1>1
    <2> QED
      BY <1>2, <2>1, <2>2, AboveStep
  <1>4. ASSUME NEW o \in Objs PROVE DoneOK(o)' /\ LeavesOK(o)' /\ OddOK(o)'
    <2>1. DoneOK(o) /\ LeavesOK(o) /\ OddOK(o)
      BY DEF TreeInv
    <2>2. OddOK(o)'
      BY <2>1 DEF OddOK
    <2>3. DoneOK(o)'
      BY <1>1, <2>1 DEF DoneOK
    <2>4. CASE o # Obj(c)
      <3>1. \A i \in (n + 1)..Len(stack[c]) : stack[c][i][2] # o
        BY <1>1, <2>4
      <3>2. life'[o] = life[o] /\ refs'[o] = refs[o]
        BY <2>4
      <3> HIDE DEF Going
      <3>3. LeavesOK(o)'
        BY <1>2, <2>1, <3>1, <3>2, LeavesStep
      <3> QED
        BY <2>2, <2>3, <3>3
    <2>5. CASE o = Obj(c) /\ life'[o] = "freed"
      <3>1. LeavesOK(o)'
        BY <2>5 DEF LeavesOK
      <3> QED
        BY <2>2, <2>3, <3>1
    <2>6. CASE o = Obj(c) /\ life'[o] = "built"
      <3>1. PICK j \in 1..Len(fs) : fs[j][1] = "build" /\ fs[j][2] = o
        BY <2>6
      <3>2. fs[j][1] \in {"build"}
        BY <3>1
      <3>3. Busy({"build"}, o)'
        BY <1>2, <3>1, <3>2, BusyWith
      <3>4. LeavesOK(o)'
        BY <2>6, <3>3 DEF LeavesOK
      <3> QED
        BY <2>2, <2>3, <3>4
    <2> QED
      BY <2>4, <2>5, <2>6
  <1>5. ASSUME odd' \cap {"late", "twice", "rushed"} = {}, NEW o \in Objs PROVE StayOK(o)'
    <2>1. StayOK(o)
      BY <1>5 DEF TreeInv
    <2>2. Stays(c, n, fs, o)
      BY <1>1 DEF Stays, Handles, Phase
    <2>3. table'[o[1]] = o[2] /\ o[1] # "ldev" /\ StayOK(o) =>
              /\ above'[o] = above[o] /\ life'[above[o]] = "live"
              /\ table'[above[o][1]] = above[o][2]
      <3> SUFFICES ASSUME table[o[1]] = o[2], o[1] # "ldev"
                   PROVE  life'[above[o]] = "live" /\ table[above[o][1]] = above[o][2]
        OBVIOUS
      <3>1. above[o] \in Objs
        BY Family
      <3>2. life[above[o]] = "live" /\ table[above[o][1]] = above[o][2]
        BY <2>1 DEF StayOK
      <3> QED
        BY <1>1, <3>1, <3>2
    <2>4. table'[o[1]] = o[2] => table[o[1]] = o[2]
      OBVIOUS
    <2> QED
      BY <1>2, <2>1, <2>2, <2>3, <2>4, StayStep
  <1>6. above' = [o \in Objs |-> above'[o]] /\ configuring' \in BOOLEAN
    BY DEF TreeInv
  <1> QED
    BY <1>3, <1>4, <1>5, <1>6 DEF TreeInv

LEMMA TreeOfBuildOn ==
    ASSUME IInv, IInv', TreeInv, NEW c \in Clients, In(c, "build"),
           Pos(c) <= Len(Parts(Kind(c))),
           UNCHANGED <<table, above, dels, completed, life, refs, odd, configuring>>,
           coreHas' = coreHas \cup
              (IF Parts(Kind(c))[Pos(c)] = "core" THEN {Kind(c)} ELSE {}),
           mediaHas' = mediaHas \cup
              (IF Parts(Kind(c))[Pos(c)] = "media" THEN {Kind(c)} ELSE {}),
           Become(c, <<<<"build", Obj(c), Pos(c) + 1>>>>)
    PROVE  TreeInv'
  <1>1. PICK K \in Kinds, p \in 1..4 :
           /\ K = Kind(c) /\ p = Pos(c)
           /\ stack[c] # <<>> /\ Len(stack[c]) = 1 /\ stack[c][1] = Top(c)
           /\ Top(c)[1] = "build" /\ Top(c)[2] = Obj(c) /\ Obj(c) \in Objs
           /\ K = Obj(c)[1] /\ life[Obj(c)] = "built" /\ table[K] = 0
    <2>1. Kind(c) \in Kinds /\ Pos(c) \in 1..4
      BY BuildFacts, BuildTop
    <2> QED
      BY <2>1, BuildFacts
  <1>2. /\ Top(c) \in FrameSet /\ Top(c)[3] = p
        /\ \A m \in {1, 2} : p > m => Top(c) \in Past(m, K)
        /\ \A m \in {1, 2} : ~(p > m) => Past(m, K) = {}
    BY <1>1, BuildTop
  <1>3. /\ Len(Parts(K)) \in {2, 3} /\ p \in 1..Len(Parts(K))
        /\ p = 1 => Parts(K)[p] = "core"
        /\ K \in {"ldev", "lgrp"} /\ p = 2 => Parts(K)[p] = "media"
        /\ Parts(K)[p] = "media" => K \in {"ldev", "lgrp"} /\ p = 2
    <2>1. Len(Parts(K)) \in {2, 3}
      BY <1>1, PartsFacts
    <2>2. p <= Len(Parts(K)) /\ p \in Nat /\ p >= 1
      BY <1>1
    <2>3. p \in 1..Len(Parts(K))
      BY <2>1, <2>2
    <2>4. /\ Parts(K)[1] = "core"
          /\ K \in {"ldev", "lgrp"} => Parts(K)[2] = "media"
          /\ Parts(K)[p] = "media" => K \in {"ldev", "lgrp"} /\ p = 2
      BY <2>3, PartsFacts
    <2> QED
      BY <2>1, <2>3, <2>4
  <1>4. PICK h \in FrameSet : /\ h[1] = "build" /\ h[2] = Obj(c) /\ h[3] = p + 1
                              /\ Become(c, <<h>>)
    <2> DEFINE g == <<"build", Obj(c), p + 1>>
    <2>1. "build" \in Frames /\ p + 1 \in 0..4
      BY <1>1, <1>3 DEF Frames
    <2>2. g \in FrameSet
      BY <1>1, <2>1, Tuples
    <2>3. g[1] = "build" /\ g[2] = Obj(c) /\ g[3] = p + 1 /\ Become(c, <<g>>)
      BY <1>1
    <2> HIDE DEF g
    <2> QED
      BY <2>2, <2>3
  <1> DEFINE fs == <<h>>
  <1>5. fs \in Seq(FrameSet) /\ Len(fs) = 1 /\ fs[1] = h
    BY <1>4, Sequences
  <1>6. Become(c, fs)
    BY <1>4
  <1> HIDE DEF fs
  <1>7. 1..Len(fs) = {1}
    BY <1>5
  <1>8. PICK n : /\ Onto(c, n, fs) /\ n < Len(stack[c]) /\ stack[c][n + 1] = Top(c)
                 /\ \A i \in (n + 1)..Len(stack[c]) : stack[c][i] = Top(c)
    BY <1>1, <1>5, <1>6, TopOnto
  <1>9. coreHas' \subseteq Kinds /\ mediaHas' \subseteq {"ldev", "lgrp"}
        /\ coreHas \subseteq coreHas' /\ mediaHas \subseteq mediaHas'
        /\ (p = 1 => K \in coreHas' /\ mediaHas' = mediaHas)
        /\ (K \in {"ldev", "lgrp"} /\ p = 2 => K \in mediaHas')
        /\ \A k \in Kinds \ {K} : /\ k \in coreHas' <=> k \in coreHas
                                  /\ k \in mediaHas' <=> k \in mediaHas
    BY <1>1, <1>3 DEF TreeInv
  <1>10. ASSUME odd' = {} PROVE LayersOK'
    <2>1. LayersOK
      BY <1>10 DEF TreeInv
    <2>2. \A m \in {1, 2}, k \in Kinds \ {K} : Past(m, k)' = Past(m, k)
      <3>1. ASSUME NEW k \in Kinds \ {K} PROVE \A m \in {1, 2} : Past(m, k)' = Past(m, k)
        <4>1. \A i \in (n + 1)..Len(stack[c]) : stack[c][i][2][1] # k
          BY <1>1, <1>8
        <4>2. \A i \in 1..Len(fs) : fs[i][2][1] # k
          BY <1>1, <1>4, <1>5, <1>7
        <4> QED
          BY <1>5, <1>8, <4>1, <4>2, PastKind DEF IInv
      <3> QED
        BY <3>1
    <2>3. \A m \in {1, 2} : p + 1 > m => h \in Past(m, K)'
      <3>1. Present(h)'
        BY <1>5, <1>7, <1>8, PresentStep DEF IInv
      <3> QED
        BY <1>1, <1>4, <3>1 DEF Past
    <2>4. \A m \in {1, 2} : ~(p + 1 > m) => Past(m, K)' = {}
      <3> SUFFICES ASSUME NEW m \in {1, 2}, ~(p + 1 > m), NEW f \in Past(m, K)' PROVE FALSE
        OBVIOUS
      <3>1. /\ f \in FrameSet /\ Present(f)' /\ f[1] = "build" /\ f[2][1] = K /\ f[3] > m
        BY DEF Past
      <3>2. Present(f) \/ f = h
        BY <1>5, <1>7, <1>8, <3>1, PresentStep DEF IInv
      <3>3. f # h
        BY <1>4, <3>1
      <3>4. f \in Past(m, K)
        BY <3>1, <3>2, <3>3 DEF Past
      <3> QED
        BY <1>2, <3>4
    <2>5. \A m \in {1, 2} : Doomed(m, K) => Doomed(m, K)'
      <3> SUFFICES ASSUME NEW m \in {1, 2}, NEW f \in Past(m, K), K # "ldev",
                          dels[above[f[2]]] > 0
                   PROVE  Doomed(m, K)'
        BY DEF Doomed
      <3>1. f = Top(c)
        BY <1>1, PastAlone
      <3>2. p > m
        BY <1>2
      <3>3. h \in Past(m, K)'
        BY <1>2, <2>3, <3>2
      <3> QED
        BY <1>1, <1>4, <3>1, <3>3 DEF Doomed
    <2>6. CoreOK(K)'
      <3>1. Past(1, K)' # {}
        BY <1>2, <2>3
      <3>2. CASE p = 1
        BY <1>9, <3>1, <3>2 DEF CoreOK
      <3>3. CASE p # 1
        <4>1. Past(1, K) # {}
          BY <1>2, <3>3
        <4>2. Doomed(1, K) \/ K \in coreHas
          BY <1>1, <2>1, <4>1 DEF LayersOK, CoreOK
        <4> QED
          BY <1>9, <2>5, <3>1, <4>2 DEF CoreOK
      <3> QED
        BY <3>2, <3>3
    <2>7. ASSUME K \in {"ldev", "lgrp"} PROVE MediaOK(K)'
      <3>1. CASE p = 1
        <4>1. Past(2, K)' = {} /\ Past(2, K) = {}
          BY <1>2, <2>4, <3>1
        <4>2. MediaOK(K)
          BY <2>1, <2>7 DEF LayersOK
        <4> QED
          BY <1>9, <3>1, <4>1, <4>2, MediaKept
      <3>2. CASE p = 2
        <4>1. Past(2, K)' # {}
          BY <2>3, <3>2
        <4> QED
          BY <1>9, <2>7, <3>2, <4>1 DEF MediaOK
      <3>3. CASE p > 2
        <4>1. Past(2, K)' # {} /\ Past(2, K) # {}
          BY <1>2, <2>3, <3>3
        <4>2. Doomed(2, K) \/ K \in mediaHas
          BY <2>1, <2>7, <4>1 DEF LayersOK, MediaOK
        <4> QED
          BY <1>9, <2>5, <4>1, <4>2 DEF MediaOK
      <3> QED
        BY <1>2, <3>1, <3>2, <3>3
    <2>8. ASSUME NEW k \in Kinds PROVE CoreOK(k)'
      <3>1. CASE k = K
        BY <2>6, <3>1
      <3>2. CASE k # K
        <4>1. CoreOK(k)
          BY <2>1 DEF LayersOK
        <4> QED
          BY <1>9, <2>2, <3>2, <4>1, CoreKept
      <3> QED
        BY <3>1, <3>2
    <2>9. ASSUME NEW k \in {"ldev", "lgrp"} PROVE MediaOK(k)'
      <3>1. CASE k = K
        BY <2>7, <3>1
      <3>2. CASE k # K
        <4>1. MediaOK(k) /\ k \in Kinds \ {K}
          BY <2>1, <3>2 DEF LayersOK, Kinds
        <4> QED
          BY <1>9, <2>2, <3>2, <4>1, MediaKept
      <3> QED
        BY <3>1, <3>2
    <2> QED
      BY <2>8, <2>9 DEF LayersOK
  <1>11. odd' \subseteq Odds /\ odd \subseteq odd' /\ configuring' = configuring
    BY DEF TreeInv
  <1>12. /\ \A i \in 1..Len(fs) : fs[i][1] = "build"
         /\ life'[Obj(c)] = "built" /\ \E j \in 1..Len(fs) : fs[j][2] = Obj(c)
    BY <1>1, <1>4, <1>5, <1>7
  <1> QED
    BY <1>5, <1>8, <1>9, <1>10, <1>11, <1>12, CreateStep


(* A device without a parent, or a parent without references *)
LEMMA NoParent ==
    ASSUME IInv, NEW k \in Kinds, table[k] = 0
    PROVE  \A o \in Objs : o[1] = k /\ life[o] = "live" => refs[o] = 0
  <1> SUFFICES ASSUME NEW o \in Objs, o[1] = k, life[o] = "live", refs[o] # 0 PROVE FALSE
    OBVIOUS
  <1>1. refs[o] > 0
    BY DEF IInv, DataInv
  <1>2. table[k] = o[2]
    BY <1>1 DEF IInv, ObjInv, ObjOK
  <1> QED
    BY <1>2, ObjFacts, ObjectsAssumption DEF IInv

(* A creation that fails is not past any part of its kind any more. *)
LEMMA TreeOfBuildFail ==
    ASSUME IInv, IInv', TreeInv, NEW c \in Clients, In(c, "build"),
           Pos(c) <= Len(Parts(Kind(c))),
           UNCHANGED <<table, above, dels, completed, mediaHas, configuring>>,
           coreHas' = Undone(Kind(c), Parts(Kind(c))[Pos(c)]),
           odd' = odd \cup (IF <<Kind(c), Parts(Kind(c))[Pos(c)]>> \in NotUndone
                            THEN {"leaked"} ELSE {}),
           life' = [life EXCEPT ![Obj(c)] = "freed"],
           refs' = [refs EXCEPT ![Obj(c)] = 0],
           Pop(c)
    PROVE  TreeInv'
  <1>1. PICK K \in Kinds, p \in 1..4 :
           /\ K = Kind(c) /\ p = Pos(c)
           /\ stack[c] # <<>> /\ Top(c)[1] = "build" /\ Top(c)[2] = Obj(c) /\ Obj(c) \in Objs
           /\ K = Obj(c)[1] /\ life[Obj(c)] = "built" /\ table[K] = 0
    <2>1. Kind(c) \in Kinds /\ Pos(c) \in 1..4
      BY BuildFacts, BuildTop
    <2> QED
      BY <2>1, BuildFacts
  <1>2. /\ Top(c) \in FrameSet /\ Top(c)[3] = p
        /\ \A m \in {1, 2} : ~(p > m) => Past(m, K) = {}
    BY <1>1, BuildTop
  <1>3. /\ p = 1 => Parts(K)[p] = "core"
        /\ K = "lgrp" /\ p = 2 => Parts(K)[p] = "media"
        /\ <<K, Parts(K)[p]>> \in NotUndone \/ p = 1 \/ (K = "lgrp" /\ p = 2)
    <2>1. Len(Parts(K)) \in {2, 3}
      BY <1>1, PartsFacts
    <2>2. p <= Len(Parts(K)) /\ p \in Nat /\ p >= 1
      BY <1>1
    <2>3. p \in 1..Len(Parts(K))
      BY <2>1, <2>2
    <2>4. /\ Parts(K)[1] = "core" /\ (K \in {"ldev", "lgrp"} => Parts(K)[2] = "media")
          /\ <<K, Parts(K)[p]>> \in NotUndone \/ p = 1 \/ (K = "lgrp" /\ p = 2)
      BY <2>3, PartsFacts
    <2> QED
      BY <2>4
  <1>4. PICK fs \in Seq(FrameSet) : Become(c, fs) /\ Len(fs) = 0 /\ 1..Len(fs) = {}
    BY PopNone
  <1>5. PICK n : /\ Onto(c, n, fs) /\ n < Len(stack[c]) /\ stack[c][n + 1] = Top(c)
                 /\ \A i \in (n + 1)..Len(stack[c]) : stack[c][i] = Top(c)
    BY <1>1, <1>4, TopOnto
  <1>6. /\ \A q \in Objs : life'[q] = IF q = Obj(c) THEN "freed" ELSE life[q]
        /\ \A q \in Objs : refs'[q] = IF q = Obj(c) THEN 0 ELSE refs[q]
    BY DEF IInv, DataInv
  <1>7. /\ coreHas' \subseteq Kinds /\ mediaHas' \subseteq {"ldev", "lgrp"}
        /\ odd' \subseteq Odds /\ odd \subseteq odd'
    BY DEF TreeInv, Undone, Odds
  <1>8. ASSUME odd' = {} PROVE LayersOK'
    <2>1. LayersOK /\ odd = {} /\ (p = 1 \/ (K = "lgrp" /\ p = 2))
      BY <1>1, <1>3, <1>8 DEF TreeInv
    <2>2. \A m \in {1, 2}, k \in Kinds \ {K} : Past(m, k)' = Past(m, k)
      <3>1. ASSUME NEW k \in Kinds \ {K} PROVE \A m \in {1, 2} : Past(m, k)' = Past(m, k)
        <4>1. \A i \in (n + 1)..Len(stack[c]) :
                  stack[c][i][1] = "build" /\ stack[c][i][2][1] = k => ~(stack[c][i][3] > 1)
          BY <1>1, <1>5
        <4>2. \A i \in 1..Len(fs) :
                  fs[i][1] = "build" /\ fs[i][2][1] = k => ~(fs[i][3] > 1)
          BY <1>4
        <4>3. StackInv /\ k \in Kinds /\ Onto(c, n, fs)
          BY <1>5 DEF IInv
        <4> QED
          BY <4>1, <4>2, <4>3, PastKind
      <3> QED
        BY <3>1
    <2>3. \A m \in {1, 2} : Past(m, K)' = {}
      <3> SUFFICES ASSUME NEW m \in {1, 2}, NEW f \in Past(m, K)' PROVE FALSE
        OBVIOUS
      <3>1. /\ f \in FrameSet /\ Present(f)' /\ f[1] = "build" /\ f[2][1] = K /\ f[3] > m
        BY DEF Past
      <3>2. life'[f[2]] = "built"
        BY <3>1 DEF Present, IInv, FrameInv, Now, FrameIn
      <3>3. Present(f)
        BY <1>4, <1>5, <3>1, PresentStep DEF IInv
      <3>4. f = Top(c)
        <4>1. f \in Past(m, K)
          BY <3>1, <3>3 DEF Past
        <4> QED
          BY <1>1, <4>1, PastAlone
      <3> QED
        BY <1>1, <1>6, <3>2, <3>4
    <2>4. Past(2, K) = {} /\ (p = 1 => Past(1, K) = {})
      BY <1>2, <2>1
    <2>5. K \notin coreHas' /\ \A k \in Kinds \ {K} :
              \/ k \in coreHas' <=> k \in coreHas
              \/ K = "lgrp" /\ k = "link" /\ k \notin coreHas'
      <3>1. CASE p = 1
        <4>1. coreHas' = coreHas
          BY <1>1, <1>3, <3>1 DEF Undone
        <4>2. K \notin coreHas
          BY <1>1, <2>1, <2>4, <3>1 DEF LayersOK, CoreOK, Doomed
        <4> QED
          BY <4>1, <4>2
      <3>2. CASE K = "lgrp" /\ p = 2
        <4>1. coreHas' = coreHas \ {"lgrp", "link"}
          BY <1>1, <1>3, <3>2 DEF Undone
        <4> QED
          BY <3>2, <4>1
      <3> QED
        BY <2>1, <3>1, <3>2
    <2>6. ASSUME NEW k \in Kinds PROVE CoreOK(k)'
      <3>1. CASE k = K
        <4>1. Past(1, k)' = {} /\ table'[k] = 0 /\ k \notin coreHas'
          BY <1>1, <2>3, <2>5, <3>1
        <4> QED
          BY <4>1 DEF CoreOK
      <3>2. CASE k # K /\ (k \in coreHas' <=> k \in coreHas)
        <4>1. CoreOK(k)
          BY <2>1 DEF LayersOK
        <4> QED
          BY <2>2, <3>2, <4>1, CoreKept
      <3>3. CASE K = "lgrp" /\ k = "link" /\ k \notin coreHas'
        <4>1. k \in Kinds \ {"ldev"} /\ Parent[k] = K
          BY <3>3 DEF Kinds, Parent
        <4>2. table[k] = 0
          BY <1>1, <2>1, <4>1, NoChild
        <4>3. Past(1, k) = {} \/ Doomed(1, k)
          BY <1>1, <4>1, NoParent, Orphans
        <4> QED
          BY <2>2, <3>3, <4>2, <4>3, CoreGone
      <3> QED
        BY <2>5, <3>1, <3>2, <3>3
    <2>7. ASSUME NEW k \in {"ldev", "lgrp"} PROVE MediaOK(k)'
      <3>1. k \in Kinds /\ MediaOK(k)
        BY <2>1 DEF Kinds, LayersOK
      <3>2. Past(2, k)' = Past(2, k)
        BY <2>2, <2>3, <2>4, <3>1
      <3> QED
        BY <3>1, <3>2, MediaKept
    <2> QED
      BY <2>6, <2>7 DEF LayersOK
  <1>9. /\ \A q \in Objs : q # Obj(c) => life'[q] = life[q] /\ refs'[q] = refs[q]
        /\ life'[Obj(c)] = "freed" /\ \A i \in 1..Len(fs) : fs[i][1] = "build"
    BY <1>1, <1>4, <1>6
  <1> QED
    BY <1>4, <1>5, <1>7, <1>8, <1>9, CreateStep

LEMMA TreeOfBuildPart ==
    ASSUME IInv, IInv', TreeInv, NEW c \in Clients, BuildPart(c)
    PROVE  TreeInv'
  <1> DEFINE part == Parts(Kind(c))[Pos(c)]
  <1>1. /\ In(c, "build") /\ Pos(c) <= Len(Parts(Kind(c)))
        /\ UNCHANGED <<table, above, dels, completed, configuring>>
    BY DEF BuildPart
  <1>2. CASE /\ coreHas' = coreHas \cup (IF part = "core" THEN {Kind(c)} ELSE {})
             /\ mediaHas' = mediaHas \cup (IF part = "media" THEN {Kind(c)} ELSE {})
             /\ Become(c, <<<<"build", Obj(c), Pos(c) + 1>>>>)
             /\ UNCHANGED <<life, refs, odd>>
    BY <1>1, <1>2, TreeOfBuildOn
  <1>3. CASE /\ coreHas' = Undone(Kind(c), part)
             /\ odd' = odd \cup (IF <<Kind(c), part>> \in NotUndone THEN {"leaked"} ELSE {})
             /\ life' = [life EXCEPT ![Obj(c)] = "freed"]
             /\ refs' = [refs EXCEPT ![Obj(c)] = 0]
             /\ Pop(c) /\ UNCHANGED mediaHas
    BY <1>1, <1>3, TreeOfBuildFail
  <1> QED
    BY <1>2, <1>3 DEF BuildPart

(* An object is published under a parent that is not deleted, or in a rush. *)
LEMMA TreeOfPublish ==
    ASSUME IInv, IInv', TreeInv, NEW c \in Clients, Publish(c)
    PROVE  TreeInv'
  <1>1. PICK K \in Kinds, b \in Objs :
           /\ K = Kind(c) /\ b = Obj(c) /\ K = b[1] /\ b[2] # 0
           /\ stack[c] # <<>> /\ Top(c)[1] = "build" /\ Top(c)[2] = b
           /\ life[b] = "built" /\ table[K] = 0 /\ refs[b] = 1
    <2>1. In(c, "build")
      BY DEF Publish
    <2>2. Kind(c) \in Kinds /\ Obj(c) \in Objs
      BY <2>1, BuildFacts
    <2> QED
      BY <2>1, <2>2, BuildFacts, ObjFacts, ObjectsAssumption DEF IInv
  <1>2. /\ UNCHANGED <<above, coreHas, mediaHas, refs, completed, dels>>
        /\ configuring' = configuring /\ In(c, "build") /\ Pos(c) > Len(Parts(K)) /\ Pop(c)
        /\ table' = [table EXCEPT ![K] = b[2]] /\ life' = [life EXCEPT ![b] = "live"]
        /\ odd' = odd \cup (IF K # "ldev" /\ dels[above[b]] > 0 THEN {"rushed"} ELSE {})
    BY <1>1 DEF Publish
  <1>3. /\ \A q \in Objs : life'[q] = IF q = b THEN "live" ELSE life[q]
        /\ \A k \in Kinds : table'[k] = IF k = K THEN b[2] ELSE table[k]
    BY <1>2 DEF IInv, DataInv
  <1>4. PICK fs \in Seq(FrameSet) : Become(c, fs) /\ Len(fs) = 0 /\ 1..Len(fs) = {}
    BY <1>2, PopNone
  <1>5. PICK n : /\ Onto(c, n, fs) /\ n < Len(stack[c]) /\ stack[c][n + 1] = Top(c)
                 /\ \A i \in (n + 1)..Len(stack[c]) : stack[c][i] = Top(c)
    BY <1>1, <1>4, TopOnto
  <1>6. /\ StackInv /\ DataInv /\ DataInv'
        /\ \A o \in Objs : o[1] \in Kinds /\ o[2] # 0 /\ o = <<o[1], o[2]>>
    BY ObjFacts, ObjectsAssumption DEF IInv
  <1>7. \A o \in Objs : AboveOK(o)'
    <2>1. \A o \in Objs : AboveOK(o)
      BY DEF TreeInv
    <2>2. \A o \in Objs : \/ life'[o] = life[o]
                          \/ life[o] = "built" /\ life'[o] \in {"live", "freed"}
      BY <1>1, <1>3
    <2> QED
      BY <1>2, <1>6, <2>1, <2>2, AboveStep
  <1>8. ASSUME NEW o \in Objs PROVE DoneOK(o)' /\ LeavesOK(o)' /\ OddOK(o)'
    <2>1. DoneOK(o) /\ LeavesOK(o) /\ OddOK(o)
      BY DEF TreeInv
    <2>2. OddOK(o)'
      BY <1>2, <2>1 DEF OddOK
    <2>3. CASE o = b
      <3>1. DoneOK(o)' /\ LeavesOK(o)'
        BY <1>1, <1>2, <1>3, <2>1, <2>3 DEF DoneOK, LeavesOK
      <3> QED
        BY <2>2, <3>1
    <2>4. CASE o # b
      <3>1. DoneOK(o)'
        <4>1. o[1] = K => o[2] # b[2]
          BY <1>1, <1>6, <2>4
        <4> QED
          BY <1>2, <1>3, <1>6, <2>1, <2>4, <4>1 DEF DoneOK
      <3>2. \A i \in (n + 1)..Len(stack[c]) : stack[c][i][2] # o
        BY <1>1, <1>5, <2>4
      <3>3. life'[o] = life[o] /\ refs'[o] = refs[o]
        BY <1>2, <1>3, <2>4
      <3> HIDE DEF Going
      <3>4. LeavesOK(o)'
        BY <1>5, <1>6, <2>1, <3>2, <3>3, LeavesStep
      <3> QED
        BY <2>2, <3>1, <3>4
    <2> QED
      BY <2>3, <2>4
  <1>9. ASSUME odd' \cap {"late", "twice", "rushed"} = {}, NEW o \in Objs PROVE StayOK(o)'
    <2>1. StayOK(o) /\ odd \cap {"late", "twice", "rushed"} = {}
      BY <1>2, <1>9 DEF TreeInv
    <2>2. K # "ldev" => ~(dels[above[b]] > 0)
      BY <1>2, <1>9
    <2>3. CASE o = b
      <3> SUFFICES ASSUME K # "ldev" PROVE StayOK(o)'
        BY <1>1, <2>3 DEF StayOK
      <3>1. PICK P \in Objs : P = above[b] /\ P[1] = Parent[K] /\ life[P] = "live"
        BY <1>1, <2>2 DEF TreeInv, AboveOK
      <3>2. refs[P] # 0
        BY <2>2, <3>1, GoingDeleted
      <3>3. table[P[1]] = P[2]
        <4>1. refs[P] \in Nat
          BY DEF IInv, DataInv
        <4>2. refs[P] > 0
          BY <3>2, <4>1
        <4>3. ObjOK(P)
          BY DEF IInv, ObjInv
        <4> QED
          BY <3>1, <4>2, <4>3 DEF ObjOK
      <3>4. P[1] # K
        BY <1>1, <1>6, <3>1, <3>3
      <3>5. life'[P] = "live" /\ table'[P[1]] = P[2] /\ above'[o] = P
        BY <1>1, <1>2, <1>3, <1>6, <2>3, <3>1, <3>3, <3>4
      <3>6. ASSUME NEW d \in Clients, NEW i \in DOMAIN stack'[d], stack'[d][i][2] = P
            PROVE  stack'[d][i][1] # "below" /\ stack'[d][i][1] # "children"
        <4>1. stack'[d][i][1] \in Going => refs'[P] = 0
          BY <3>6 DEF IInv, FrameInv, Now, FrameIn
        <4> QED
          BY <1>2, <3>2, <4>1 DEF Going
      <3> QED
        BY <3>5, <3>6 DEF StayOK
    <2>4. CASE o # b /\ o[1] = K
      <3>1. table'[o[1]] # o[2]
        BY <1>1, <1>3, <1>6, <2>4
      <3> QED
        BY <3>1 DEF StayOK
    <2>5. CASE o # b /\ o[1] # K
      <3>1. Stays(c, n, fs, o)
        BY <1>1, <1>4, <1>5 DEF Stays, Handles, Phase
      <3>2. table'[o[1]] = o[2] => table[o[1]] = o[2]
        BY <1>3, <1>6, <2>5
      <3>3. table'[o[1]] = o[2] /\ o[1] # "ldev" /\ StayOK(o) =>
              /\ above'[o] = above[o] /\ life'[above[o]] = "live"
              /\ table'[above[o][1]] = above[o][2]
        <4> SUFFICES ASSUME table[o[1]] = o[2], o[1] # "ldev"
                     PROVE  life'[above[o]] = "live" /\ table'[above[o][1]] = above[o][2]
          BY <1>2, <3>2
        <4>1. above[o] \in Objs
          BY Family
        <4>2. life[above[o]] = "live" /\ table[above[o][1]] = above[o][2]
          BY <2>1 DEF StayOK
        <4>3. above[o][1] # K /\ above[o] # b
          BY <1>1, <1>6, <4>1, <4>2
        <4> QED
          BY <1>3, <1>6, <4>1, <4>2, <4>3
      <3> QED
        BY <1>5, <1>6, <2>1, <3>1, <3>2, <3>3, StayStep
    <2> QED
      BY <2>3, <2>4, <2>5
  <1>10. ASSUME odd' = {} PROVE LayersOK'
    <2>1. LayersOK /\ (K # "ldev" => ~(dels[above[b]] > 0))
      BY <1>2, <1>10 DEF TreeInv
    <2>2. \A m \in {1, 2}, k \in Kinds \ {K} : Past(m, k)' = Past(m, k)
      <3>1. ASSUME NEW k \in Kinds \ {K} PROVE \A m \in {1, 2} : Past(m, k)' = Past(m, k)
        <4>1. \A i \in (n + 1)..Len(stack[c]) :
                  stack[c][i][1] = "build" /\ stack[c][i][2][1] = k => ~(stack[c][i][3] > 1)
          BY <1>1, <1>5
        <4>2. \A i \in 1..Len(fs) :
                  fs[i][1] = "build" /\ fs[i][2][1] = k => ~(fs[i][3] > 1)
          BY <1>4
        <4>3. StackInv /\ k \in Kinds /\ Onto(c, n, fs)
          BY <1>5 DEF IInv
        <4> QED
          BY <4>1, <4>2, <4>3, PastKind
      <3> QED
        BY <3>1
    <2>3. /\ Top(c) \in Past(1, K)
          /\ K \in {"ldev", "lgrp"} => Top(c) \in Past(2, K)
      <3>1. Pos(c) \in 1..4 /\ \A m \in {1, 2} : Pos(c) > m => Top(c) \in Past(m, K)
        BY <1>1, <1>2, BuildTop
      <3>2. Len(Parts(K)) \in {2, 3}
        BY PartsFacts
      <3>3. Pos(c) > 1 /\ Pos(c) > 2
        <4>1. Pos(c) > Len(Parts(K)) /\ Pos(c) \in Int
          BY <1>2, <3>1
        <4>2. CASE Len(Parts(K)) = 2
          <5>1. Pos(c) > 2
            BY <4>1, <4>2
          <5> QED
            BY <4>1, <5>1
        <4>3. CASE Len(Parts(K)) = 3
          <5>1. Pos(c) > 3
            BY <4>1, <4>3
          <5> QED
            BY <4>1, <5>1
        <4> QED
          BY <3>2, <4>2, <4>3
      <3> QED
        BY <1>1, <3>1, <3>3
    <2>4. \A m \in {1, 2} : ~Doomed(m, K)
      BY <1>1, <1>2, <2>1, PastAlone DEF Doomed
    <2>5. K \in coreHas /\ (K \in {"ldev", "lgrp"} => K \in mediaHas)
      BY <2>1, <2>3, <2>4 DEF LayersOK, CoreOK, MediaOK
    <2>6. ASSUME NEW k \in Kinds PROVE CoreOK(k)'
      <3>1. CASE k = K
        BY <1>1, <1>2, <1>3, <2>5, <3>1 DEF CoreOK
      <3>2. CASE k # K
        <4>1. CoreOK(k)
          BY <2>1 DEF LayersOK
        <4> QED
          BY <1>2, <1>3, <2>2, <3>2, <4>1, CoreKept
      <3> QED
        BY <3>1, <3>2
    <2>7. ASSUME NEW k \in {"ldev", "lgrp"} PROVE MediaOK(k)'
      <3>1. CASE k = K
        BY <1>1, <1>2, <1>3, <2>5, <3>1 DEF MediaOK
      <3>2. CASE k # K
        <4>1. MediaOK(k) /\ k \in Kinds \ {K}
          BY <2>1, <3>2 DEF LayersOK, Kinds
        <4> QED
          BY <1>2, <1>3, <2>2, <3>2, <4>1, MediaKept
      <3> QED
        BY <3>1, <3>2
    <2> QED
      BY <2>6, <2>7 DEF LayersOK
  <1>11. /\ above' = [o \in Objs |-> above'[o]] /\ configuring' \in BOOLEAN
         /\ coreHas' \subseteq Kinds /\ mediaHas' \subseteq {"ldev", "lgrp"}
         /\ odd' \subseteq Odds
    BY <1>2 DEF TreeInv, Odds
  <1> QED
    BY <1>7, <1>8, <1>9, <1>10, <1>11 DEF TreeInv


LEMMA TreeOfCallNew ==
    ASSUME IInv, IInv', TreeInv, NEW c \in Clients, stack[c] = <<>>,
           NEW k \in Kinds, CallNew(c, k)
    PROVE  TreeInv'
  <1> DEFINE e == <<k, made[k] + 1>>
  <1>1. /\ UNCHANGED <<table, coreHas, mediaHas, completed, dels, odd, configuring>>
        /\ table[k] = 0 /\ made[k] < MaxNew
        /\ k # "ldev" => table[Parent[k]] # 0
        /\ life' = [life EXCEPT ![e] = "built"] /\ refs' = [refs EXCEPT ![e] = 1]
        /\ above' = [above EXCEPT ![e] = IF k = "ldev" THEN None ELSE Entry(Parent[k])]
        /\ stack' = [stack EXCEPT ![c] = <<<<"build", e, 1>>>>]
    BY DEF CallNew
  <1>2. /\ life \in [Objs -> {"none", "built", "live", "freed"}]
        /\ refs \in [Objs -> Nat] /\ made \in [Kinds -> 0..MaxNew] /\ MaxNew \in Nat
        /\ above = [o \in Objs |-> above[o]]
    BY ObjectsAssumption DEF IInv, DataInv, TreeInv
  <1>3. made[k] + 1 \in 1..MaxNew
    BY <1>1, <1>2
  <1>4. PICK b \in Objs : b = e /\ b[1] = k /\ b[2] = made[k] + 1
    BY <1>3, ObjFacts DEF IInv
  <1>5. /\ \A q \in Objs : life'[q] = IF q = b THEN "built" ELSE life[q]
        /\ \A q \in Objs : refs'[q] = IF q = b THEN 1 ELSE refs[q]
        /\ \A q \in Objs : above'[q] = IF q # b THEN above[q]
                                       ELSE IF k = "ldev" THEN None ELSE Entry(Parent[k])
        /\ above' = [q \in Objs |-> above'[q]]
    BY <1>1, <1>2, <1>4
  <1>6. life[b] = "none"
    <2>1. ObjOK(b)
      BY DEF IInv, ObjInv
    <2> QED
      BY <1>2, <1>4, <2>1 DEF ObjOK
  <1> DEFINE h == <<"build", b, 1>>
             fs == <<h>>
  <1>7. h \in FrameSet /\ h[1] = "build" /\ h[2] = b /\ h[3] = 1
    <2>1. "build" \in Frames /\ 1 \in 0..4
      BY DEF Frames
    <2>2. h \in FrameSet
      BY <1>4, <2>1, Tuples
    <2> QED
      BY <2>2
  <1>8. stack' = [stack EXCEPT ![c] = fs]
    BY <1>1, <1>4
  <1> HIDE DEF h
  <1>9. fs \in Seq(FrameSet) /\ Len(fs) = 1 /\ fs[1] = h
    BY <1>7, Sequences
  <1> HIDE DEF fs, e
  <1>10. 1..Len(fs) = {1} /\ 1 \in 1..Len(fs)
    BY <1>9
  <1>11. StackInv /\ DataInv /\ DataInv'
    BY DEF IInv
  <1>12. Onto(c, 0, fs) /\ \A i : i \notin (0 + 1)..Len(stack[c])
    <2>1. Len(stack[c]) = 0 /\ (0 + 1)..0 = {}
      OBVIOUS
    <2>2. Onto(c, 0, fs)
      BY <1>8, <1>9, <1>11, SetOnto
    <2> QED
      BY <2>1, <2>2
  <1>13. ASSUME NEW o \in Objs PROVE AboveOK(o)'
    <2>1. AboveOK(o)
      BY DEF TreeInv
    <2>2. CASE o = b /\ k = "ldev"
      BY <1>4, <1>5, <2>2 DEF AboveOK
    <2>3. CASE o = b /\ k # "ldev"
      <3>1. Parent[k] \in Kinds
        BY <2>3 DEF Kinds, Parent
      <3>2. /\ Entry(Parent[k]) \in Objs /\ Entry(Parent[k])[1] = Parent[k]
            /\ life[Entry(Parent[k])] = "live"
        BY <1>1, <1>11, <2>3, <3>1, ObjFacts
      <3>3. above'[o] = Entry(Parent[k]) /\ life'[Entry(Parent[k])] = "live"
        BY <1>5, <1>6, <2>3, <3>2
      <3> QED
        BY <1>4, <2>3, <3>2, <3>3 DEF AboveOK
    <2>4. CASE o # b
      <3>1. above'[o] = above[o] /\ life'[o] = life[o]
        BY <1>5, <2>4
      <3>2. above[o] \in Objs /\ life[above[o]] \in {"live", "freed"} =>
                life'[above[o]] = life[above[o]]
        BY <1>5, <1>6
      <3> QED
        BY <1>1, <2>1, <3>1, <3>2 DEF AboveOK
    <2> QED
      BY <2>2, <2>3, <2>4
  <1>14. ASSUME NEW o \in Objs PROVE DoneOK(o)' /\ LeavesOK(o)' /\ OddOK(o)'
    <2>1. DoneOK(o) /\ LeavesOK(o) /\ OddOK(o)
      BY DEF TreeInv
    <2>2. DoneOK(o)' /\ OddOK(o)'
      BY <1>1, <1>5, <1>6, <2>1 DEF DoneOK, OddOK
    <2>3. CASE o = b
      <3>1. fs[1][1] \in {"build"} /\ fs[1][2] = o
        BY <1>7, <1>9, <2>3
      <3>2. Busy({"build"}, o)'
        BY <1>9, <1>10, <1>11, <1>12, <3>1, BusyWith
      <3>3. life'[o] = "built"
        BY <1>5, <2>3
      <3> QED
        BY <2>2, <3>2, <3>3 DEF LeavesOK
    <2>4. CASE o # b
      <3>1. life'[o] = life[o] /\ refs'[o] = refs[o]
        BY <1>5, <2>4
      <3> HIDE DEF Going
      <3>2. LeavesOK(o)'
        BY <1>9, <1>11, <1>12, <2>1, <3>1, LeavesStep
      <3> QED
        BY <2>2, <3>2
    <2> QED
      BY <2>3, <2>4
  <1>15. ASSUME odd' \cap {"late", "twice", "rushed"} = {}, NEW o \in Objs PROVE StayOK(o)'
    <2>1. StayOK(o)
      BY <1>1, <1>15 DEF TreeInv
    <2>2. Stays(c, 0, fs, o)
      BY <1>7, <1>9, <1>10 DEF Stays
    <2>3. table'[o[1]] = o[2] => table[o[1]] = o[2]
      BY <1>1
    <2>4. table'[o[1]] = o[2] /\ o[1] # "ldev" /\ StayOK(o) =>
              /\ above'[o] = above[o] /\ life'[above[o]] = "live"
              /\ table'[above[o][1]] = above[o][2]
      <3> SUFFICES ASSUME table[o[1]] = o[2], o[1] # "ldev"
                   PROVE  /\ above'[o] = above[o] /\ life'[above[o]] = "live"
                          /\ table[above[o][1]] = above[o][2]
        BY <1>1
      <3>1. above[o] \in Objs /\ life[o] = "live"
        BY Family
      <3>2. life[above[o]] = "live" /\ table[above[o][1]] = above[o][2]
        BY <2>1 DEF StayOK
      <3> QED
        BY <1>5, <1>6, <3>1, <3>2
    <2> QED
      BY <1>9, <1>11, <1>12, <2>1, <2>2, <2>3, <2>4, StayStep
  <1>16. ASSUME odd' = {} PROVE LayersOK'
    <2>1. LayersOK
      BY <1>1, <1>16 DEF TreeInv
    <2>2. \A m \in {1, 2}, j \in Kinds : Past(m, j)' = Past(m, j)
      <3>1. \A i \in 1..Len(fs) : fs[i][1] = "build" => ~(fs[i][3] > 1)
        BY <1>7, <1>9, <1>10
      <3> QED
        BY <1>9, <1>11, <1>12, <3>1, PastStep
    <2>3. \A o \in Objs : o[1] # "ldev" /\ Busy({"build"}, o) =>
              above'[o] = above[o] /\ (dels[above[o]] > 0 => dels'[above[o]] > 0)
      <3> SUFFICES ASSUME NEW o \in Objs, Busy({"build"}, o) PROVE above'[o] = above[o]
        BY <1>1
      <3>1. PICK f \in FrameSet : Present(f) /\ f[1] = "build" /\ f[2] = o
        BY DEF Busy
      <3>2. life[o] = "built"
        BY <3>1 DEF Present, IInv, FrameInv, Now, FrameIn
      <3> QED
        BY <1>5, <1>6, <3>2
    <2> QED
      BY <1>1, <2>1, <2>2, <2>3, LayersStep
  <1>17. /\ configuring' \in BOOLEAN /\ odd' \subseteq Odds
         /\ coreHas' \subseteq Kinds /\ mediaHas' \subseteq {"ldev", "lgrp"}
    BY <1>1 DEF TreeInv
  <1> QED
    BY <1>5, <1>13, <1>14, <1>15, <1>16, <1>17 DEF TreeInv

LEMMA TreeOfCall ==
    ASSUME IInv, IInv', TreeInv, NEW c \in Clients, Call(c)
    PROVE  TreeInv'
  <1>1. stack[c] = <<>>
    BY DEF Call
  <1>2. "lgrp" \in Kinds /\ "mac" \in Kinds
    BY DEF Kinds
  <1>3. CASE \E op \in Ops \cap {"use", "del"}, k \in Kinds : CallOn(c, op, k)
    BY <1>1, <1>3, TreeOfCallOn
  <1>4. CASE CallOn(c, "config", "lgrp")
    BY <1>1, <1>2, <1>4, TreeOfCallOn
  <1>5. CASE CallOn(c, "reset", "mac")
    BY <1>1, <1>2, <1>5, TreeOfCallOn
  <1>6. CASE \E k \in Kinds : CallNew(c, k)
    BY <1>1, <1>6, TreeOfCallNew
  <1>7. CASE CallAttr(c)
    BY <1>1, <1>7, TreeOfCallAttr
  <1> QED
    BY <1>3, <1>4, <1>5, <1>6, <1>7 DEF Call

-----------------------------------------------------------------------------
(* The tree is kept. *)

LEMMA InitTree == Init => TreeInv
  <1> SUFFICES ASSUME Init PROVE TreeInv
    OBVIOUS
  <1>1. IInv
    BY InitIInv
  <1>2. PICK whole \in BOOLEAN, n \in {0, 1} :
           /\ n = IF whole THEN 1 ELSE 0
           /\ table = [k \in Kinds |-> n]
           /\ life = [o \in Objs |-> IF o[2] <= n THEN "live" ELSE "none"]
           /\ refs = [o \in Objs |-> IF o[2] <= n THEN 1 ELSE 0]
           /\ above = [o \in Objs |->
                          IF whole /\ o[2] = 1 /\ o[1] # "ldev" THEN <<Parent[o[1]], 1>>
                                                                ELSE None]
           /\ coreHas = (IF whole THEN Kinds ELSE {})
           /\ mediaHas = (IF whole THEN {"ldev", "lgrp"} ELSE {})
    BY DEF Init
  <1>3. /\ completed = [o \in Objs |-> FALSE] /\ dels = [o \in Objs |-> 0]
        /\ configuring = FALSE /\ odd = {} /\ \A c \in Clients : DOMAIN stack[c] = {}
    BY DEF Init
  <1>4. /\ \A o \in Objs : o[1] \in Kinds /\ o[2] \in 1..MaxNew
        /\ \A k \in Kinds, j \in 1..MaxNew : <<k, j>> \in Objs
        /\ MaxNew \in Nat \ {0}
    BY ObjectsAssumption DEF Objs
  <1>5. ASSUME NEW o \in Objs
        PROVE  /\ life[o] = (IF o[2] <= n THEN "live" ELSE "none")
               /\ refs[o] = (IF o[2] <= n THEN 1 ELSE 0)
               /\ ~completed[o] /\ dels[o] = 0
               /\ above[o] = IF whole /\ o[2] = 1 /\ o[1] # "ldev"
                             THEN <<Parent[o[1]], 1>> ELSE None
    BY <1>2, <1>3
  <1>6. ASSUME NEW o \in Objs, life[o] # "none", o[1] # "ldev"
        PROVE  /\ above[o] = <<Parent[o[1]], 1>> /\ above[o] \in Objs
               /\ above[o][1] = Parent[o[1]] /\ above[o][2] = 1
               /\ life[above[o]] = "live" /\ whole
    <2>1. o[2] <= n /\ o[2] \in Nat /\ o[2] >= 1
      <3>1. o[2] \in Nat /\ o[2] >= 1
        BY <1>4
      <3>2. o[2] <= n
        BY <1>5, <1>6
      <3> QED
        BY <3>1, <3>2
    <2>2. whole /\ n = 1 /\ o[2] = 1
      BY <1>2, <2>1
    <2>3. above[o] = <<Parent[o[1]], 1>>
      BY <1>5, <1>6, <2>2
    <2>4. Parent[o[1]] \in Kinds /\ 1 \in 1..MaxNew
      BY <1>4, <1>6 DEF Kinds, Parent
    <2>5. above[o] \in Objs /\ above[o][1] = Parent[o[1]] /\ above[o][2] = 1
      BY <1>4, <2>3, <2>4
    <2>6. life[above[o]] = "live"
      <3>1. above[o][2] <= n
        BY <2>2, <2>5
      <3> QED
        BY <1>2, <2>5, <3>1
    <2> QED
      BY <2>2, <2>3, <2>5, <2>6
  <1>7. ASSUME NEW o \in Objs PROVE AboveOK(o) /\ DoneOK(o) /\ LeavesOK(o) /\ OddOK(o)
    <2>1. AboveOK(o)
      <3>1. CASE life[o] # "none" /\ o[1] # "ldev"
        BY <1>6, <3>1 DEF AboveOK
      <3>2. CASE life[o] = "none" \/ o[1] = "ldev"
        <4>1. above[o] = None
          <5>1. CASE o[1] = "ldev"
            BY <1>5, <5>1
          <5>2. CASE life[o] = "none"
            <6>1. ~(o[2] <= n)
              BY <1>5, <5>2
            <6>2. ~(whole /\ o[2] = 1)
              BY <1>2, <6>1
            <6> QED
              BY <1>5, <6>2
          <5> QED
            BY <3>2, <5>1, <5>2
        <4> QED
          BY <3>2, <4>1 DEF AboveOK
      <3> QED
        BY <3>1, <3>2
    <2>2. DoneOK(o) /\ OddOK(o)
      <3>1. ~completed[o]
        BY <1>5
      <3>2. dels[o] = 0
        BY <1>5
      <3>3. ~(dels[o] > 1)
        BY <3>2
      <3> QED
        BY <3>1, <3>3 DEF DoneOK, OddOK
    <2>3. LeavesOK(o)
      <3>1. life[o] # "built" /\ (life[o] = "live" => refs[o] # 0)
        BY <1>2
      <3> QED
        BY <3>1 DEF LeavesOK
    <2> QED
      BY <2>1, <2>2, <2>3
  <1>8. ASSUME NEW o \in Objs PROVE StayOK(o)
    <2> SUFFICES ASSUME table[o[1]] = o[2], o[1] # "ldev" PROVE StayOK(o)
      BY DEF StayOK
    <2>1. table[o[1]] = n /\ o[2] >= 1
      BY <1>2, <1>4
    <2>2. life[o] # "none" /\ n = 1
      BY <1>2, <1>5, <2>1
    <2>3. above[o][1] \in Kinds /\ above[o][2] = 1 /\ life[above[o]] = "live"
      BY <1>4, <1>6, <2>2
    <2>4. table[above[o][1]] = above[o][2]
      BY <1>2, <2>2, <2>3
    <2> QED
      BY <1>3, <2>3, <2>4 DEF StayOK
  <1>9. LayersOK
    <2>1. \A m, k : Past(m, k) = {}
      BY <1>3 DEF Past, Present
    <2>2. \A m, k : ~Doomed(m, k)
      BY <2>1 DEF Doomed
    <2>3. \A k \in Kinds : table[k] = n
      BY <1>2
    <2>4. CASE whole
      BY <1>2, <2>1, <2>2, <2>3, <2>4 DEF LayersOK, CoreOK, MediaOK, Kinds
    <2>5. CASE ~whole
      BY <1>2, <2>1, <2>2, <2>3, <2>5 DEF LayersOK, CoreOK, MediaOK, Kinds
    <2> QED
      BY <2>4, <2>5
  <1>10. /\ above = [o \in Objs |-> above[o]] /\ configuring \in BOOLEAN
         /\ coreHas \subseteq Kinds /\ mediaHas \subseteq {"ldev", "lgrp"}
         /\ odd \subseteq Odds
    BY <1>2, <1>3
  <1> QED
    BY <1>7, <1>8, <1>9, <1>10 DEF TreeInv

LEMMA TreeOfInside ==
    ASSUME IInv, IInv', TreeInv, NEW c \in Clients, Inside(c)
    PROVE  TreeInv'
  <1> HIDE DEF IInv, TreeInv
  <1> QED
    BY TreeOfBuildPart, TreeOfPublish, TreeOfTakeRef, TreeOfConfigure, TreeOfPut, TreeOfReturn,
       TreeOfDrop, TreeOfRelease, TreeOfDeleteChildren, TreeOfDeleteBelow, TreeOfComplete,
       TreeOfFreeObject DEF Inside

LEMMA NextTree == IInv /\ IInv' /\ TreeInv /\ [Next]_vars => TreeInv'
  <1> SUFFICES ASSUME IInv, IInv', TreeInv, [Next]_vars PROVE TreeInv'
    OBVIOUS
  <1>1. ASSUME NEW c \in Clients, Call(c) PROVE TreeInv'
    BY <1>1, TreeOfCall
  <1>2. ASSUME NEW c \in Clients, Inside(c) PROVE TreeInv'
    BY <1>2, TreeOfInside
  <1>3. CASE UNCHANGED vars
    <2>1. UNCHANGED <<table, above, life, refs, dels, completed, stack, coreHas, mediaHas,
                      odd, configuring>>
      BY <1>3 DEF vars, tables, counts
    <2>2. \A f : Present(f)' <=> Present(f)
      BY <2>1 DEF Present
    <2>3. \A S, o : Busy(S, o)' <=> Busy(S, o)
      BY <2>2 DEF Busy
    <2>4. \A o \in Objs : /\ AboveOK(o) => AboveOK(o)'
                          /\ DoneOK(o) => DoneOK(o)'
                          /\ OddOK(o) => OddOK(o)'
                          /\ StayOK(o) => StayOK(o)'
      BY <2>1 DEF AboveOK, DoneOK, OddOK, StayOK, Handles
    <2>5. \A o \in Objs : LeavesOK(o) => LeavesOK(o)'
      BY <2>1, <2>3 DEF LeavesOK
    <2>6. \A m, k : Past(m, k)' = Past(m, k)
      BY <2>2 DEF Past
    <2>7. LayersOK => LayersOK'
      BY <2>1, <2>6 DEF LayersOK, CoreOK, MediaOK, Doomed
    <2> QED
      BY <2>1, <2>4, <2>5, <2>7 DEF TreeInv
  <1> QED
    BY <1>1, <1>2, <1>3 DEF Next

LEMMA SpecTree == Spec => [](IInv /\ TreeInv)
  <1>1. Init => IInv /\ TreeInv
    BY InitIInv, InitTree
  <1>2. IInv /\ TreeInv /\ [Next]_vars => IInv' /\ TreeInv'
    BY NextIInv, NextTree
  <1> QED
    BY <1>1, <1>2, PTL DEF Spec


(* Between calls nobody is in a frame. *)
LEMMA NobodyIn ==
    ASSUME \A c \in Clients : stack[c] = <<>>
    PROVE  /\ \A S, o : ~Busy(S, o)
           /\ \A m, k : Past(m, k) = {} /\ ~Doomed(m, k)
           /\ \A o : Holders(o) = {}
  <1>1. \A c \in Clients : DOMAIN stack[c] = {}
    OBVIOUS
  <1>2. \A f : ~Present(f)
    BY <1>1 DEF Present
  <1>3. \A S, o : ~Busy(S, o)
    BY <1>2 DEF Busy
  <1>4. \A m, k : Past(m, k) = {}
    BY <1>2 DEF Past
  <1>5. \A m, k : ~Doomed(m, k)
    BY <1>4 DEF Doomed
  <1>6. \A o : Holders(o) = {}
    BY <1>1 DEF Holders
  <1> QED
    BY <1>3, <1>4, <1>5, <1>6

(* A parent is not freed while a child of it is in its table: what a release  *)
(* leaves behind it has left its table, unless it was late.                   *)
LEMMA TreeParents == IInv /\ TreeInv => ParentsStay
  <1> SUFFICES ASSUME IInv, TreeInv, odd \cap {"late", "twice", "rushed"} = {},
                      NEW o \in Objs, table[o[1]] = o[2], above[o] # None
               PROVE  life[above[o]] # "freed"
    BY DEF ParentsStay
  <1>1. o[1] # "ldev"
    BY DEF TreeInv, AboveOK
  <1>2. StayOK(o)
    BY DEF TreeInv
  <1>3. life[above[o]] = "live"
    BY <1>1, <1>2 DEF StayOK
  <1> QED
    BY <1>3

LEMMA TreeWhole == IInv /\ TreeInv => WholeTree
  <1> SUFFICES ASSUME IInv, TreeInv, odd = {}, \A c \in Clients : stack[c] = <<>>
               PROVE  /\ coreHas = {k \in Kinds : table[k] # 0}
                      /\ mediaHas = coreHas \cap {"ldev", "lgrp"}
                      /\ \A o \in Objs :
                            /\ life[o] = "live" <=> life[o] # "none" /\ table[o[1]] = o[2]
                            /\ dels[o] > 0 => life[o] = "freed"
                            /\ life[o] = "live" /\ above[o] # None => life[above[o]] = "live"
    BY DEF WholeTree
  <1>1. /\ \A S, o : ~Busy(S, o)
        /\ \A m, k : Past(m, k) = {} /\ ~Doomed(m, k)
        /\ \A o : Holders(o) = {}
    BY NobodyIn
  <1>2. \A k \in Kinds : k \in coreHas <=> table[k] # 0
    <2> SUFFICES ASSUME NEW k \in Kinds PROVE k \in coreHas <=> table[k] # 0
      OBVIOUS
    <2>1. CoreOK(k)
      BY DEF TreeInv, LayersOK
    <2> QED
      BY <1>1, <2>1 DEF CoreOK
  <1>3. \A k \in {"ldev", "lgrp"} : k \in mediaHas <=> table[k] # 0
    <2> SUFFICES ASSUME NEW k \in {"ldev", "lgrp"} PROVE k \in mediaHas <=> table[k] # 0
      OBVIOUS
    <2>1. MediaOK(k)
      BY DEF TreeInv, LayersOK
    <2> QED
      BY <1>1, <2>1 DEF MediaOK
  <1>4. coreHas \subseteq Kinds /\ mediaHas \subseteq {"ldev", "lgrp"}
    BY DEF TreeInv
  <1>5. {"ldev", "lgrp"} \subseteq Kinds
    BY DEF Kinds
  <1>6. coreHas = {k \in Kinds : table[k] # 0}
    BY <1>2, <1>4
  <1>7. mediaHas = coreHas \cap {"ldev", "lgrp"}
    BY <1>2, <1>3, <1>4, <1>5
  <1>8. ASSUME NEW o \in Objs
        PROVE  /\ life[o] = "live" <=> life[o] # "none" /\ table[o[1]] = o[2]
               /\ dels[o] > 0 => life[o] = "freed"
               /\ life[o] = "live" /\ above[o] # None => life[above[o]] = "live"
    <2>1. ObjOK(o) /\ CountOK(o) /\ LeavesOK(o) /\ OddOK(o) /\ AboveOK(o) /\ StayOK(o)
      BY DEF IInv, ObjInv, CountInv, TreeInv
    <2>2. refs[o] \in Nat /\ dels[o] \in Nat /\ life[o] \in {"none", "built", "live", "freed"}
      BY DEF IInv, DataInv
    <2>3. life[o] # "built" /\ (life[o] = "live" => refs[o] # 0)
      BY <1>1, <2>1 DEF LeavesOK
    <2>4. life[o] = "live" => table[o[1]] = o[2]
      BY <2>1, <2>2, <2>3 DEF ObjOK
    <2>5. table[o[1]] = o[2] => life[o] = "live"
      BY Family
    <2>6. dels[o] > 0 => life[o] = "freed"
      <3>1. ~(dels[o] > 1)
        BY <2>1 DEF OddOK
      <3>2. dels[o] > 0 => life[o] \in {"live", "freed"}
        BY <2>1, <2>2 DEF ObjOK
      <3>3. Holders(o) = {}
        BY <1>1
      <3>4. Cardinality(Holders(o)) = 0
        BY <3>3, FS_EmptySet
      <3>5. life[o] = "live" => refs[o] = 0 + (1 - dels[o])
        BY <2>1, <2>2, <3>1, <3>4 DEF CountOK
      <3> QED
        BY <2>2, <2>3, <3>1, <3>2, <3>5
    <2>7. life[o] = "live" /\ above[o] # None => life[above[o]] = "live"
      <3> SUFFICES ASSUME life[o] = "live", above[o] # None PROVE life[above[o]] = "live"
        OBVIOUS
      <3>1. o[1] # "ldev"
        BY <2>1 DEF AboveOK
      <3> QED
        BY <2>1, <2>4, <3>1 DEF StayOK
    <2> QED
      BY <2>4, <2>5, <2>6, <2>7
  <1> QED
    BY <1>6, <1>7, <1>8

(* Parents outlive the children in their tables, and between calls the tables *)
(* of the three layers agree and nothing is left of what was deleted, for any *)
(* number of callers that create and delete at once: what a release that      *)
(* deletes its children (sl_ctrl_ldev_release, sl_ctrl_lgrp_release) and a    *)
(* creation that fails owe the layers below.                                  *)
THEOREM TreeKeptAlways == Spec => []TreeKept
  <1>1. IInv /\ TreeInv => TreeKept
    BY TreeParents, TreeWhole DEF TreeKept
  <1> QED
    BY <1>1, SpecTree, PTL


-----------------------------------------------------------------------------
(* The bound of the references, which holds of an object deleted twice as     *)
(* well: nobody holds more than one, and one more may be nobody's.            *)

BoundOK(o) == refs[o] <= 1 + Cardinality(Holders(o))

BoundInv == (\A o \in Objs : BoundOK(o)) /\ calls \in 0..MaxCalls

(* A step of c that lets go of no body of o, and takes no reference *)
LEMMA BoundStep ==
    ASSUME IInv, IInv', NEW c \in Clients, NEW o \in Objs, BoundOK(o),
           \A d \in Clients \ {c} : stack'[d] = stack[d],
           HasBody(stack[c], o) => HasBody(stack'[c], o),
           refs'[o] <= refs[o] \/ refs'[o] <= 1
    PROVE  BoundOK(o)'
  <1>1. Holders(o) = {d \in Clients : HasBody(stack[d], o)}
    BY DEF Holders, HasBody
  <1>2. Holders(o)' = {d \in Clients : HasBody(stack'[d], o)}
    BY DEF Holders, HasBody
  <1>3. Holders(o) \subseteq Holders(o)'
    BY <1>1, <1>2
  <1>4. IsFiniteSet(Holders(o)) /\ IsFiniteSet(Holders(o)')
    BY DEF IInv, CountInv, CountOK
  <1>5. Cardinality(Holders(o)) <= Cardinality(Holders(o)')
    BY <1>3, <1>4, FS_Subset
  <1>6. Cardinality(Holders(o)) \in Nat /\ Cardinality(Holders(o)') \in Nat
    BY <1>4, FS_CardinalityType
  <1>7. refs[o] \in Nat /\ refs'[o] \in Nat
    BY DEF IInv, DataInv
  <1> DEFINE m == Cardinality(Holders(o))
             w == Cardinality(Holders(o)')
  <1>8. m \in Nat /\ w \in Nat /\ m <= w /\ refs[o] <= 1 + m
    BY <1>5, <1>6 DEF BoundOK
  <1> HIDE DEF m
  <1>9. refs'[o] <= 1 + w
    <2> HIDE DEF w
    <2> QED
      BY <1>7, <1>8
  <1> QED
    BY <1>9 DEF BoundOK

(* The frame on top is replaced, and is no body of o. *)
LEMMA BodyKept ==
    ASSUME IInv, NEW c \in Clients, stack[c] # <<>>, NEW fs \in Seq(FrameSet), Become(c, fs),
           NEW o, ~(Top(c)[1] = "body" /\ Top(c)[2] = o)
    PROVE  /\ \A d \in Clients \ {c} : stack'[d] = stack[d]
           /\ HasBody(stack[c], o) => HasBody(stack'[c], o)
  <1> DEFINE n == Len(stack[c]) - 1
  <1>1. /\ Len(stack[c]) \in Nat \ {0} /\ DOMAIN stack[c] = 1..Len(stack[c])
        /\ Top(c) = stack[c][Len(stack[c])]
    BY TopFacts DEF IInv
  <1>2. Onto(c, n, fs)
    BY BecomeOnto DEF IInv
  <1>3. DOMAIN stack'[c] = 1..(n + Len(fs)) /\ Len(fs) \in Nat
    BY <1>2 DEF Onto
  <1>4. ASSUME NEW i \in DOMAIN stack[c], stack[c][i][1] = "body", stack[c][i][2] = o
        PROVE  HasBody(stack'[c], o)
    <2>1. i # Len(stack[c])
      BY <1>1, <1>4
    <2>2. i \in 1..n
      BY <1>1, <2>1
    <2>3. stack'[c][i] = stack[c][i]
      BY <1>2, <2>2 DEF Onto
    <2>4. i \in DOMAIN stack'[c]
      BY <1>1, <1>3, <2>2
    <2> QED
      BY <1>4, <2>3, <2>4 DEF HasBody
  <1>5. \A d \in Clients \ {c} : stack'[d] = stack[d]
    BY <1>2 DEF Onto
  <1> QED
    BY <1>4, <1>5 DEF HasBody

(* What a step makes of its innermost frame, when that is no body *)
LEMMA BoundBecome ==
    ASSUME IInv, IInv', BoundInv, NEW c \in Clients, stack[c] # <<>>, Top(c)[1] # "body",
           NEW fs \in Seq(FrameSet), Become(c, fs),
           \A o \in Objs : refs'[o] <= refs[o] \/ refs'[o] <= 1
    PROVE  \A o \in Objs : BoundOK(o)'
  BY BodyKept, BoundStep DEF BoundInv

LEMMA BoundGoto ==
    ASSUME IInv, IInv', BoundInv, NEW c \in Clients, NEW s, In(c, s), s # "body",
           (\E t \in Frames : Goto(c, t)) \/ Pop(c),
           \A o \in Objs : refs'[o] <= refs[o] \/ refs'[o] <= 1
    PROVE  \A o \in Objs : BoundOK(o)'
  <1>1. stack[c] # <<>> /\ Top(c)[1] # "body" /\ Obj(c) \in Objs
    BY TopIn
  <1>2. CASE \E t \in Frames : Goto(c, t)
    BY <1>1, <1>2, GotoOne, BoundBecome
  <1>3. CASE Pop(c)
    BY <1>1, <1>3, PopNone, BoundBecome
  <1> QED
    BY <1>2, <1>3

LEMMA SameRefs ==
    ASSUME IInv, UNCHANGED refs
    PROVE  \A o \in Objs : refs'[o] <= refs[o] \/ refs'[o] <= 1
  BY DEF IInv, DataInv

LEMMA BoundOfBuild ==
    ASSUME IInv, IInv', BoundInv, NEW c \in Clients, BuildPart(c) \/ Publish(c)
    PROVE  \A o \in Objs : BoundOK(o)'
  <1>1. In(c, "build")
    BY DEF BuildPart, Publish
  <1>2. CASE UNCHANGED refs /\ Pop(c)
    BY <1>1, <1>2, SameRefs, BoundGoto
  <1>3. CASE refs' = [refs EXCEPT ![Obj(c)] = 0] /\ Pop(c)
    <2>1. refs \in [Objs -> Nat]
      BY DEF IInv, DataInv
    <2>2. \A o \in Objs : refs'[o] <= refs[o] \/ refs'[o] <= 1
      BY <1>3, <2>1
    <2> QED
      BY <1>1, <1>3, <2>2, BoundGoto
  <1>4. CASE /\ Pos(c) <= Len(Parts(Kind(c))) /\ UNCHANGED refs
             /\ Become(c, <<<<"build", Obj(c), Pos(c) + 1>>>>)
    <2>1. stack[c] # <<>> /\ Top(c)[1] = "build" /\ Obj(c) \in Objs /\ Kind(c) \in Kinds
      BY <1>1, TopIn
    <2>2. Pos(c) + 1 \in 0..4 /\ "build" \in Frames
      <3>1. Pos(c) \in 1..4
        BY <1>1, BuildTop
      <3>2. Len(Parts(Kind(c))) \in {2, 3}
        BY <2>1, PartsFacts
      <3>3. "build" \in Frames
        BY DEF Frames
      <3>4. PICK p \in 1..4, l \in {2, 3} : p = Pos(c) /\ l = Len(Parts(Kind(c))) /\ p <= l
        BY <1>4, <3>1, <3>2
      <3>5. p + 1 \in 0..4
        BY <3>4
      <3> QED
        BY <3>3, <3>4, <3>5
    <2>3. <<"build", Obj(c), Pos(c) + 1>> \in FrameSet
      BY <2>1, <2>2, Tuples
    <2>4. <<<<"build", Obj(c), Pos(c) + 1>>>> \in Seq(FrameSet)
      BY <2>3, Sequences
    <2> QED
      BY <1>4, <2>1, <2>4, SameRefs, BoundBecome
  <1> QED
    BY <1>2, <1>3, <1>4 DEF BuildPart, Publish

LEMMA BoundOfRelease ==
    ASSUME IInv, IInv', BoundInv, NEW c \in Clients, Release(c) \/ DeleteChildren(c)
    PROVE  \A o \in Objs : BoundOK(o)'
  <1>1. /\ In(c, "release") \/ In(c, "children")
        /\ UNCHANGED <<table, refs>>
    BY DEF Release, DeleteChildren, tables, counts
  <1>2. stack[c] # <<>> /\ Top(c)[1] # "body" /\ Obj(c) \in Objs /\ Kind(c) \in Kinds
        /\ Top(c) \in FrameSet
    BY <1>1, TopIn
  <1>3. "children" \in Frames /\ "below" \in Frames /\ "drop" \in Frames
    BY DEF Frames
  <1>4. \A o \in Objs : refs'[o] <= refs[o] \/ refs'[o] <= 1
    BY <1>1, SameRefs
  <1>5. CASE Pop(c)
    BY <1>1, <1>4, <1>5, BoundGoto
  <1>6. CASE Goto(c, "below")
    BY <1>1, <1>3, <1>4, <1>6, BoundGoto
  <1>7. ASSUME NEW o \in Objs, Become(c, <<<<"children", o, 1>>>>)
        PROVE  \A q \in Objs : BoundOK(q)'
    <2>1. 1 \in 0..4
      OBVIOUS
    <2>2. <<"children", o, 1>> \in FrameSet
      BY <1>3, <2>1, Tuples
    <2>3. <<<<"children", o, 1>>>> \in Seq(FrameSet)
      BY <2>2, Sequences
    <2> QED
      BY <1>2, <1>4, <1>7, <2>3, BoundBecome
  <1>8. CASE Release(c)
    <2>1. Kind(c) = "lgrp" /\ table["lgrp"] # 0 => Entry("lgrp") \in Objs
      BY <1>2, ObjFacts DEF IInv
    <2> QED
      BY <1>2, <1>5, <1>7, <1>8, <2>1 DEF Release
  <1>9. CASE DeleteChildren(c) /\ ~(Pos(c) > Len(Below(Kind(c))))
    <2> DEFINE child == Below(Kind(c))[Pos(c)]
               f == <<"children", Obj(c), Pos(c) + 1>>
               gs == IF table[child] = 0 THEN <<>> ELSE <<Frame("drop", Entry(child))>>
    <2>1. Become(c, <<f>> \o gs) /\ In(c, "children")
      BY <1>9 DEF DeleteChildren
    <2>2. Pos(c) \in 1..2 /\ child \in Kinds
      <3>1. Pos(c) \in 0..4 /\ Pos(c) # 0
        <4>1. Now(Top(c)) /\ Top(c)[1] = "children"
          BY <2>1, TopIn
        <4> QED
          BY <1>2, <4>1, Tuples DEF Pos, Now, FrameIn
      <3>2. CASE Kind(c) = "ldev"
        <4>1. Below(Kind(c)) = <<"lgrp">>
          BY <3>2 DEF Below
        <4> QED
          BY <1>9, <3>1, <4>1 DEF Kinds
      <3>3. CASE Kind(c) = "lgrp"
        <4>1. Below(Kind(c)) = <<"link", "mac">>
          BY <3>3 DEF Below
        <4>2. Pos(c) \in {1, 2}
          BY <1>9, <3>1, <4>1
        <4> QED
          BY <4>1, <4>2 DEF Kinds
      <3>4. CASE Kind(c) \in {"link", "mac"}
        <4>1. Below(Kind(c)) = <<>>
          BY <3>4 DEF Below
        <4> QED
          BY <1>9, <3>1, <4>1
      <3> QED
        BY <1>2, <3>2, <3>3, <3>4 DEF Kinds
    <2>3. f \in FrameSet
      <3>1. Pos(c) + 1 \in 0..4
        BY <2>2
      <3> QED
        BY <1>2, <1>3, <3>1, Tuples
    <2>4. gs \in Seq(FrameSet)
      <3>1. table[child] # 0 => Frame("drop", Entry(child)) \in FrameSet
        BY <1>3, <2>2, ObjFacts, Tuples DEF IInv
      <3> QED
        BY <3>1, Sequences
    <2>5. <<f>> \in Seq(FrameSet)
      BY <2>3, Sequences
    <2> HIDE DEF f, gs
    <2>6. <<f>> \o gs \in Seq(FrameSet)
      BY <2>4, <2>5, ConcatProperties
    <2> QED
      BY <1>2, <1>4, <2>1, <2>6, BoundBecome
  <1> QED
    BY <1>6, <1>8, <1>9 DEF DeleteChildren


LEMMA BoundOfOthers ==
    ASSUME IInv, IInv', BoundInv, NEW c \in Clients,
           \/ Configured(c) \/ Touch(c) \/ Woken(c) \/ TimedOut(c)
           \/ DeleteBelow(c) \/ Complete(c) \/ FreeObject(c)
    PROVE  \A o \in Objs : BoundOK(o)'
  <1>1. {"complete", "free"} \subseteq Frames
    BY DEF Frames
  <1>2. \E s : /\ In(c, s) /\ s # "body"
               /\ (\E t \in Frames : Goto(c, t)) \/ Pop(c)
    BY <1>1 DEF Configured, Touch, Woken, TimedOut, DeleteBelow, Complete, FreeObject
  <1>3. UNCHANGED refs
    BY DEF Configured, Touch, Woken, TimedOut, DeleteBelow, Complete, FreeObject, counts
  <1> QED
    BY <1>2, <1>3, SameRefs, BoundGoto

LEMMA BoundOfDrop ==
    ASSUME IInv, IInv', BoundInv, NEW c \in Clients, Drop(c)
    PROVE  \A o \in Objs : BoundOK(o)'
  <1>1. {"release", "wait"} \subseteq Frames
    BY DEF Frames
  <1>2. /\ In(c, "drop") /\ \E t \in Frames : Goto(c, t)
        /\ refs' = [refs EXCEPT ![Obj(c)] = OneLess(@)]
    BY <1>1 DEF Drop
  <1>3. refs \in [Objs -> Nat]
    BY DEF IInv, DataInv
  <1>4. \A o \in Objs : refs'[o] <= refs[o] \/ refs'[o] <= 1
    BY <1>2, <1>3 DEF OneLess
  <1> QED
    BY <1>2, <1>4, BoundGoto

(* A thread that is about to take a reference has none. *)
LEMMA NoBodyYet ==
    ASSUME IInv, NEW c \in Clients, In(c, "ref"), NEW o
    PROVE  ~HasBody(stack[c], o)
  <1>1. stack[c] # <<>> /\ Top(c)[1] = "ref"
    BY TopIn
  <1>2. /\ Len(stack[c]) \in Nat \ {0} /\ DOMAIN stack[c] = 1..Len(stack[c])
        /\ Top(c) = stack[c][Len(stack[c])]
        /\ \/ Len(stack[c]) = 1
           \/ Len(stack[c]) = 2 /\ stack[c][1][1] \in {"touch", "configured"}
    BY <1>1, TopFacts, CallShape DEF IInv
  <1> SUFFICES ASSUME NEW i \in DOMAIN stack[c], stack[c][i][1] = "body" PROVE FALSE
    BY DEF HasBody
  <1>3. i = Len(stack[c]) \/ (i = 1 /\ Len(stack[c]) = 2)
    BY <1>2
  <1> QED
    BY <1>1, <1>2, <1>3

LEMMA BoundOfTakeRef ==
    ASSUME IInv, IInv', BoundInv, NEW c \in Clients, TakeRef(c)
    PROVE  \A o \in Objs : BoundOK(o)'
  <1>1. In(c, "ref")
    BY DEF TakeRef
  <1>2. /\ stack[c] # <<>> /\ Top(c)[1] = "ref" /\ Obj(c) \in Objs /\ "body" \in Frames
    BY <1>1, TopIn DEF Frames
  <1>3. refs \in [Objs -> Nat]
    BY DEF IInv, DataInv
  <1>4. CASE UNCHANGED refs /\ stack' = [stack EXCEPT ![c] = <<>>]
    <2>1. \A d \in Clients \ {c} : stack'[d] = stack[d]
      BY <1>4 DEF IInv, StackInv
    <2>2. \A o \in Objs : refs'[o] <= refs[o] \/ refs'[o] <= 1
      BY <1>4, SameRefs
    <2> QED
      BY <1>1, <2>1, <2>2, NoBodyYet, BoundStep DEF BoundInv
  <1>5. CASE refs' = [refs EXCEPT ![Obj(c)] = @ + 1] /\ Goto(c, "body")
    <2>1. PICK fs \in Seq(FrameSet) :
              /\ Become(c, fs) /\ Len(fs) = 1
              /\ \A i \in 1..Len(fs) :
                    fs[i] \in FrameSet /\ fs[i][1] = "body" /\ fs[i][2] = Obj(c)
      BY <1>2, <1>5, GotoOne
    <2> SUFFICES ASSUME NEW o \in Objs PROVE BoundOK(o)'
      OBVIOUS
    <2>2. /\ \A d \in Clients \ {c} : stack'[d] = stack[d]
          /\ HasBody(stack[c], o) => HasBody(stack'[c], o)
      BY <1>2, <2>1, BodyKept
    <2>3. CASE o # Obj(c)
      <3>1. refs'[o] <= refs[o]
        BY <1>3, <1>5, <2>3
      <3> QED
        BY <2>2, <3>1, BoundStep DEF BoundInv
    <2>4. CASE o = Obj(c)
      <3> DEFINE n == Len(stack[c]) - 1
      <3>1. Onto(c, n, fs) /\ n \in Nat
        BY <1>2, <2>1, BecomeOnto, TopFacts DEF IInv
      <3>2. HasBody(stack'[c], o)
        <4>1. stack'[c][n + 1] = fs[1] /\ fs[1][1] = "body" /\ fs[1][2] = o
          BY <2>1, <2>4, <3>1 DEF Onto
        <4>2. n + 1 \in DOMAIN stack'[c]
          BY <2>1, <3>1 DEF Onto
        <4> QED
          BY <4>1, <4>2 DEF HasBody
      <3>3. Holders(o)' = Holders(o) \cup {c} /\ c \notin Holders(o)
        BY <1>1, <3>1, <3>2, HoldersMove, NoBodyYet
      <3> DEFINE m == Cardinality(Holders(o))
                 w == Cardinality(Holders(o)')
      <3>4. w = m + 1 /\ m \in Nat
        BY <3>3, FS_AddElement, FS_CardinalityType DEF IInv, CountInv, CountOK
      <3>5. refs'[o] = refs[o] + 1 /\ refs[o] \in Nat
        BY <1>3, <1>5, <2>4
      <3>6. refs[o] <= 1 + m
        BY DEF BoundInv, BoundOK
      <3> HIDE DEF m
      <3>7. refs'[o] <= 1 + w
        <4> HIDE DEF w
        <4> QED
          BY <3>4, <3>5, <3>6
      <3> QED
        BY <3>7 DEF BoundOK
    <2> QED
      BY <2>3, <2>4
  <1> QED
    BY <1>4, <1>5 DEF TakeRef

LEMMA BoundOfPut ==
    ASSUME IInv, IInv', BoundInv, NEW c \in Clients, Put(c)
    PROVE  \A o \in Objs : BoundOK(o)'
  <1>1. /\ In(c, "body") /\ "release" \in Frames
        /\ refs' = [refs EXCEPT ![Obj(c)] = OneLess(@)]
        /\ Goto(c, "release") \/ Pop(c)
    BY DEF Put, Frames
  <1>2. /\ stack[c] # <<>> /\ Top(c)[1] = "body" /\ Top(c)[2] = Obj(c) /\ Obj(c) \in Objs
        /\ Len(stack[c]) \in DOMAIN stack[c] /\ Top(c) = stack[c][Len(stack[c])]
    <2>1. stack[c] # <<>> /\ Top(c)[1] = "body" /\ Top(c)[2] = Obj(c) /\ Obj(c) \in Objs
      BY <1>1, TopIn
    <2> QED
      BY <2>1, TopFacts DEF IInv
  <1>3. refs \in [Objs -> Nat]
    BY DEF IInv, DataInv
  <1>4. PICK fs \in Seq(FrameSet) : Become(c, fs)
    BY <1>1, <1>2, GotoOne, PopNone
  <1> SUFFICES ASSUME NEW o \in Objs PROVE BoundOK(o)'
    OBVIOUS
  <1>5. CASE o # Obj(c)
    <2>1. refs'[o] <= refs[o]
      BY <1>1, <1>3, <1>5
    <2>2. /\ \A d \in Clients \ {c} : stack'[d] = stack[d]
          /\ HasBody(stack[c], o) => HasBody(stack'[c], o)
      BY <1>2, <1>4, <1>5, BodyKept
    <2> QED
      BY <2>1, <2>2, BoundStep DEF BoundInv
  <1>6. CASE o = Obj(c)
    <2>1. HasBody(stack[c], o)
      BY <1>2, <1>6 DEF HasBody
    <2>2. Onto(c, Len(stack[c]) - 1, fs)
      BY <1>2, <1>4, BecomeOnto DEF IInv
    <2>3. c \in Holders(o) /\ Holders(o) \ {c} \subseteq Holders(o)'
      BY <2>1, <2>2, HoldersMove
    <2> DEFINE rest == Holders(o) \ {c}
               m == Cardinality(Holders(o))
               r == Cardinality(rest)
               w == Cardinality(Holders(o)')
    <2>4. IsFiniteSet(Holders(o)) /\ IsFiniteSet(Holders(o)')
      BY DEF IInv, CountInv, CountOK
    <2>5. r = m - 1 /\ m \in Nat
      BY <2>3, <2>4, FS_RemoveElement, FS_CardinalityType
    <2>6. r <= w /\ w \in Nat
      BY <2>3, <2>4, FS_Subset, FS_CardinalityType
    <2>7. refs'[o] = OneLess(refs[o]) /\ refs[o] \in Nat
      BY <1>1, <1>3, <1>6
    <2>8. refs[o] <= 1 + m
      BY DEF BoundInv, BoundOK
    <2> HIDE DEF m, r
    <2>9. refs'[o] <= 1 + w
      <3> HIDE DEF w
      <3> QED
        BY <2>5, <2>6, <2>7, <2>8 DEF OneLess
    <2> QED
      BY <2>9 DEF BoundOK
  <1> QED
    BY <1>5, <1>6

(* Between the parts of a call that configures, the body stays. *)
LEMMA BoundOfConfigure ==
    ASSUME IInv, IInv', BoundInv, NEW c \in Clients, Configure(c)
    PROVE  \A o \in Objs : BoundOK(o)'
  <1> DEFINE f == Frame("body", Obj(c))
             g == Frame("attr", Obj(c))
  <1>1. /\ In(c, "body") /\ Len(stack[c]) = 2 /\ stack[c][1][1] = "configured"
        /\ UNCHANGED refs
        /\ \/ stack' = [stack EXCEPT ![c] = <<f>>]
           \/ stack' = [stack EXCEPT ![c] = <<f, g>>]
    BY DEF Configure, counts
  <1>2. /\ stack[c] # <<>> /\ Top(c)[1] = "body" /\ Top(c)[2] = Obj(c) /\ Obj(c) \in Objs
    BY <1>1, TopIn
  <1>3. /\ f \in FrameSet /\ f[1] = "body" /\ f[2] = Obj(c) /\ g \in FrameSet
    <2>1. "body" \in Frames /\ "attr" \in Frames
      BY DEF Frames
    <2> QED
      BY <1>2, <2>1, Tuples
  <1>4. \A q : HasBody(stack[c], q) => q = Obj(c)
    <2>1. /\ DOMAIN stack[c] = {1, 2} /\ Top(c) = stack[c][2]
      BY <1>1, <1>2, TopFacts DEF IInv
    <2> QED
      BY <1>1, <1>2, <2>1 DEF HasBody
  <1> HIDE DEF f, g
  <1>5. /\ \A d \in Clients \ {c} : stack'[d] = stack[d]
        /\ stack'[c] = <<f>> \/ stack'[c] = <<f, g>>
    BY <1>1 DEF IInv, StackInv
  <1>6. 1 \in DOMAIN stack'[c] /\ stack'[c][1] = f
    BY <1>3, <1>5
  <1>7. HasBody(stack'[c], Obj(c))
    BY <1>3, <1>6 DEF HasBody
  <1>8. \A o \in Objs : HasBody(stack[c], o) => HasBody(stack'[c], o)
    BY <1>4, <1>7
  <1> QED
    BY <1>1, <1>5, <1>8, SameRefs, BoundStep DEF BoundInv

LEMMA BoundOfCall ==
    ASSUME IInv, IInv', BoundInv, NEW c \in Clients, Call(c)
    PROVE  BoundInv'
  <1>1. stack[c] = <<>> /\ calls < MaxCalls /\ calls' = calls + 1
    BY DEF Call
  <1>2. calls' \in 0..MaxCalls
    BY <1>1, ObjectsAssumption DEF BoundInv
  <1>3. \E fs : stack' = [stack EXCEPT ![c] = fs]
    BY DEF Call, CallOn, CallNew, CallAttr
  <1>4. \A d \in Clients \ {c} : stack'[d] = stack[d]
    BY <1>3 DEF IInv, StackInv
  <1>5. \A o \in Objs : ~HasBody(stack[c], o)
    BY <1>1 DEF HasBody
  <1>6. \A o \in Objs : refs'[o] <= refs[o] \/ refs'[o] <= 1
    <2>1. CASE UNCHANGED refs
      BY <2>1, SameRefs
    <2>2. CASE \E o : refs' = [refs EXCEPT ![o] = 1]
      <3>1. refs \in [Objs -> Nat]
        BY DEF IInv, DataInv
      <3> QED
        BY <2>2, <3>1
    <2> QED
      BY <2>1, <2>2 DEF Call, CallOn, CallNew, CallAttr, counts
  <1>7. \A o \in Objs : BoundOK(o)'
    BY <1>4, <1>5, <1>6, BoundStep DEF BoundInv
  <1> QED
    BY <1>2, <1>7 DEF BoundInv

LEMMA NextBound == IInv /\ IInv' /\ BoundInv /\ [Next]_vars => BoundInv'
  <1> SUFFICES ASSUME IInv, IInv', BoundInv, [Next]_vars PROVE BoundInv'
    OBVIOUS
  <1>1. ASSUME NEW c \in Clients, Call(c) PROVE BoundInv'
    BY <1>1, BoundOfCall
  <1>2. ASSUME NEW c \in Clients, Inside(c), UNCHANGED calls PROVE BoundInv'
    <2>1. \A o \in Objs : BoundOK(o)'
      BY <1>2, BoundOfBuild, BoundOfRelease, BoundOfOthers, BoundOfDrop, BoundOfTakeRef,
         BoundOfPut, BoundOfConfigure DEF Inside
    <2> QED
      BY <1>2, <2>1 DEF BoundInv
  <1>3. CASE UNCHANGED vars
    <2>1. UNCHANGED <<refs, stack, calls>>
      BY <1>3 DEF vars, counts
    <2> QED
      BY <2>1 DEF BoundInv, BoundOK, Holders
  <1> QED
    BY <1>1, <1>2, <1>3 DEF Next

LEMMA InitBound == Init => BoundInv
  <1> SUFFICES ASSUME Init PROVE BoundInv
    OBVIOUS
  <1>1. calls \in 0..MaxCalls
    BY ObjectsAssumption DEF Init
  <1>2. ASSUME NEW o \in Objs PROVE BoundOK(o)
    <2>1. refs[o] \in {0, 1}
      BY DEF Init
    <2>2. Holders(o) = {}
      <3>1. \A c \in Clients : stack[c] = <<>>
        BY DEF Init
      <3> QED
        BY <3>1, NobodyIn
    <2>3. Cardinality(Holders(o)) = 0
      BY <2>2, FS_EmptySet
    <2> QED
      BY <2>1, <2>3 DEF BoundOK
  <1> QED
    BY <1>1, <1>2 DEF BoundInv

LEMMA SpecBound == Spec => [](IInv /\ TreeInv /\ BoundInv)
  <1>1. Init => IInv /\ TreeInv /\ BoundInv
    BY InitIInv, InitTree, InitBound
  <1>2. IInv /\ TreeInv /\ BoundInv /\ [Next]_vars => IInv' /\ TreeInv' /\ BoundInv'
    BY NextIInv, NextTree, NextBound
  <1> QED
    BY <1>1, <1>2, PTL DEF Spec

(* The types, and in them the bound of ref_cnt: however calls and deletions   *)
(* overlap, an object has no more references than one for each thread that is *)
(* inside a call on it and the first, which is the deletion's to put.         *)
THEOREM ObjectsTypeAlways ==
    ASSUME IsFiniteSet(Clients)
    PROVE  Spec => []TypeOK
  <1>1. IInv /\ TreeInv /\ BoundInv => TypeOK
    <2> SUFFICES ASSUME IInv, TreeInv, BoundInv PROVE TypeOK
      OBVIOUS
    <2>1. refs \in [Objs -> 0..(1 + Cardinality(Clients))]
      <3>1. refs \in [Objs -> Nat]
        BY DEF IInv, DataInv
      <3>2. ASSUME NEW o \in Objs PROVE refs[o] \in 0..(1 + Cardinality(Clients))
        <4>1. Holders(o) \subseteq Clients
          BY DEF Holders
        <4>2. /\ Cardinality(Holders(o)) <= Cardinality(Clients)
              /\ Cardinality(Clients) \in Nat /\ Cardinality(Holders(o)) \in Nat
          BY <4>1, FS_Subset, FS_CardinalityType
        <4>3. refs[o] <= 1 + Cardinality(Holders(o)) /\ refs[o] \in Nat
          BY <3>1 DEF BoundInv, BoundOK
        <4> QED
          BY <4>2, <4>3
      <3> QED
        BY <3>1, <3>2
    <2>2. above \in [Objs -> Objs \cup {None}]
      BY DEF TreeInv, AboveOK
    <2>3. ASSUME NEW c \in Clients, NEW i \in DOMAIN stack[c]
          PROVE  stack[c][i] \in Frames \X Objs \X (0..4)
      <3>1. stack[c] \in Seq(FrameSet)
        BY DEF IInv, StackInv
      <3> QED
        BY <3>1 DEF FrameSet
    <2> QED
      BY <2>1, <2>2, <2>3 DEF TypeOK, IInv, DataInv, TreeInv, BoundInv
  <1> QED
    BY <1>1, SpecBound, PTL

=============================================================================
