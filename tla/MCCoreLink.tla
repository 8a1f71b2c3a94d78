----------------------------- MODULE MCCoreLink -----------------------------
(* The core link against the service it is meant to provide. *)
EXTENDS CoreLink

Phase == CASE state \in Rising  -> "rising"
           [] state \in Leaving -> "leaving"
           [] state = "UP"      -> "up"
           [] OTHER             -> "down"

Service == INSTANCE LinkService WITH phase <- Phase

(* The core link does what LinkService promises: it goes up only through an  *)
(* attempt, comes to rest only through a teardown, and answers every up once *)
(* and not before the attempt is decided.                                    *)
KeepsLinkService == Service!Spec

=============================================================================
