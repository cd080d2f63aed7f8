-------------------------- MODULE MCLoggingSession --------------------------
(* Instances of LoggingSession for TLC. *)
EXTENDS LoggingSession, TLC
=============================================================================
