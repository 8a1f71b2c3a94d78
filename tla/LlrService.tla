----------------------------- MODULE LlrService -----------------------------
(***************************************************************************)
(* What the core LLR promises its client: the state diagram that           *)
(* sl_core_llr.h writes beside enum sl_core_llr_state and docs/llr.md      *)
(* draws, and one callback for every setup and every start it accepted,    *)
(* never before that attempt has left its busy state.                      *)
(***************************************************************************)
EXTENDS Integers

VARIABLES
    state,   \* the LLR state
    due      \* callbacks the LLR owes for accepted setups and starts

vars == <<state, due>>

Attempts == {"setup", "start"}

From == [setup |-> "CONFIGURED", start |-> "SETUP"]
Busy == [setup |-> "SETTING_UP", start |-> "STARTING"]

(* The edges that no command takes by itself and the edges of stop() *)
Edges ==
    {<<"NEW", "CONFIGURED">>,
     <<"SETTING_UP", "SETUP">>,
     <<"SETTING_UP", "SETUP_TIMEOUT">>,  <<"SETUP_TIMEOUT", "CONFIGURED">>,
     <<"SETTING_UP", "SETUP_CANCELING">>, <<"SETUP_CANCELING", "CONFIGURED">>,
     <<"SETUP", "SETUP_STOPPING">>,      <<"SETUP_STOPPING", "CONFIGURED">>,
     <<"STARTING", "RUNNING">>,
     <<"STARTING", "START_TIMEOUT">>,    <<"START_TIMEOUT", "SETUP">>,
     <<"STARTING", "START_CANCELING">>,  <<"START_CANCELING", "SETUP">>,
     <<"RUNNING", "STOPPING">>,          <<"STOPPING", "SETUP">>}

Init == state = "NEW" /\ due = [p \in Attempts |-> 0]

Accept(p) ==
    /\ state = From[p]
    /\ state' = Busy[p]
    /\ due' = [due EXCEPT ![p] = @ + 1]

Move == <<state, state'>> \in Edges /\ UNCHANGED due

Answer(p) ==
    /\ due[p] > IF state = Busy[p] THEN 1 ELSE 0
    /\ due' = [due EXCEPT ![p] = @ - 1]
    /\ UNCHANGED state

Next == Move \/ \E p \in Attempts : Accept(p) \/ Answer(p)

Spec == Init /\ [][Next]_vars

=============================================================================
