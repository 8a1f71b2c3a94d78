----------------------------- MODULE MCCtrlLink -----------------------------
(* The core link, driven by the control layer, against the service that it  *)
(* keeps without one.  The callbacks start the next attempt from inside a   *)
(* teardown; the promises of LinkService (KeepsLinkService) stay the same.  *)
EXTENDS CtrlLink, MCCoreLink

=============================================================================
