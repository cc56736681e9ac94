----------------------------- MODULE MCHeartbeat -----------------------------
(* TLC instances of Heartbeat: a client that answers and one that need not. *)
EXTENDS Heartbeat
=============================================================================
