---------------------------- MODULE MCMessaging ----------------------------
(* TLC instance of Messaging. *)
EXTENDS Messaging
=============================================================================
