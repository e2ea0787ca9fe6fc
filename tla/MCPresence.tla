----------------------------- MODULE MCPresence -----------------------------
(* Presence with two connections on two instances, one sweeper and one observer. *)
EXTENDS Presence

CONSTANTS c1, c2, i1, i2

MCHome == [c \in Conn |-> IF c = c1 THEN i1 ELSE i2]
=============================================================================
