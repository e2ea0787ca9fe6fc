-------------------------- MODULE MCMessageDelivery --------------------------
(* Instances of MessageDelivery: two messages, and the bounds of each run in *)
(* its configuration.                                                        *)
EXTENDS MessageDelivery

CONSTANTS m1, m2
=============================================================================
