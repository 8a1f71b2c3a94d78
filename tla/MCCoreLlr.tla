----------------------------- MODULE MCCoreLlr -----------------------------
(* Model values and instances for the runs of CoreLlr. *)
EXTENDS CoreLlr

Service == INSTANCE LlrService

(* The core LLR implements LlrService: its state takes only the edges of the *)
(* state diagram, and every accepted setup and start is answered once, never *)
(* while it is still busy.                                                   *)
KeepsService == Service!Spec

=============================================================================
