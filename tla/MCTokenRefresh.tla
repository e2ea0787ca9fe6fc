--------------------------- MODULE MCTokenRefresh ---------------------------
(* TokenRefresh with two calls at a time. *)
EXTENDS TokenRefresh

CONSTANTS a, b
=============================================================================
