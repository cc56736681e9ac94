-------------------------- MODULE MCLoggingService --------------------------
(* TLC instances of LoggingService with a small buffer. *)
EXTENDS LoggingService
=============================================================================
