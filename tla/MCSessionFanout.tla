--------------------------- MODULE MCSessionFanout ---------------------------
(* SessionFanout on small instances. *)
EXTENDS SessionFanout

CONSTANT d1
=============================================================================
