-------------------------------- MODULE MCChat --------------------------------
(* Chat on small instances: alice reads, bob writes too.                    *)
EXTENDS Chat, TLC

CONSTANTS alice, bob
=============================================================================
