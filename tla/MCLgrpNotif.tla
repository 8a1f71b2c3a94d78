---------------------------- MODULE MCLgrpNotif ----------------------------
(* Model values for the runs of LgrpNotif. *)
EXTENDS LgrpNotif, TLC

CONSTANTS l1, l2

(* One client for everything, one for the media. *)
MCWanted == (l1 :> {"link", "media"} @@ l2 :> {"media"})

=============================================================================
