-------------------------- MODULE MCSessionRecovery --------------------------
(* SessionRecovery on small instances. *)
EXTENDS SessionRecovery
=============================================================================
