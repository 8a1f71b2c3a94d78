----------------------------- MODULE LinkService -----------------------------
(***************************************************************************)
(* What the core promises of a link: it moves between four phases, every   *)
(* way out of an attempt that does not lead up leads down, and every up it *)
(* accepted is answered once, when that attempt is over.                   *)
(***************************************************************************)
EXTENDS Integers

VARIABLES
    phase,   \* "down", "rising", "up" or "leaving"
    due      \* up callbacks the link owes

vars == <<phase, due>>

Init == phase = "down" /\ due = 0

Accept ==
    /\ phase = "down"
    /\ phase' = "rising"
    /\ due' = due + 1

Move ==
    /\ <<phase, phase'>> \in {<<"rising", "up">>, <<"rising", "leaving">>,
                              <<"up", "leaving">>, <<"leaving", "down">>}
    /\ UNCHANGED due

(* An attempt that has not been decided yet is not answered. *)
Answer ==
    /\ due > IF phase = "rising" THEN 1 ELSE 0
    /\ due' = due - 1
    /\ UNCHANGED phase

Next == Accept \/ Move \/ Answer

Spec == Init /\ [][Next]_vars

=============================================================================
