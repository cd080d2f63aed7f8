------------------------------ MODULE MCMotor ------------------------------
(* Instance of Motor for TLC. *)
EXTENDS Motor, TLC
=============================================================================
