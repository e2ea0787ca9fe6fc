--------------------------- MODULE MCEventListener ---------------------------
(* EventListener on small instances. *)
EXTENDS EventListener

CONSTANTS w1, w2
=============================================================================
