---------------------------- MODULE MCLinkObject ----------------------------
(* The object of a link with two clients, one of them inside its callback. *)
EXTENDS LinkObject, TLC

=============================================================================
