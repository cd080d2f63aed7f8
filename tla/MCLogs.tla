------------------------------- MODULE MCLogs -------------------------------
(***************************************************************************)
(* The two logs that a task of their own writes, the session's and the GNSS *)
(* receiver's.  They share no state but the storage mutex, whose scopes are *)
(* steps of both; a behaviour runs one of them, told by log, while the other*)
(* rests.                                                                  *)
(***************************************************************************)
EXTENDS MCLoggingSession

CONSTANTS NoPath, Stamp, MaxChange, MaxBoot

VARIABLES log, gfs, active, gpath, due, at, clock, boot, gchanges

Gnss == INSTANCE GnssLog

ASSUME LogsAssumption == Gnss!GnssAssumption

gnssVars == <<gfs, active, gpath, due, at, clock, boot, gchanges>>

LogsInit ==
  /\ Init
  /\ \/ log = "gnss" /\ Gnss!Init
     \/ /\ log = "session"
        /\ gfs = {} /\ active = "sd" /\ gpath = NoPath /\ due = FALSE /\ at = "off"
        /\ clock = FALSE /\ boot = MaxBoot /\ gchanges = MaxChange

LogsNext ==
  \/ log = "session" /\ Next /\ UNCHANGED <<log, gnssVars>>
  \/ log = "gnss" /\ Gnss!Next /\ UNCHANGED <<log, vars>>

LogsSpec ==
  /\ LogsInit /\ [][LogsNext]_<<log, vars, gnssVars>>
  /\ SessionFairness /\ Gnss!Fairness

(* Two names stand for all: a time is like any other, and what the log of   *)
(* the second boot meets, that of the first met before the restart.         *)
Watched == {CHOOSE s \in Stamp : TRUE, <<"gps_log", 0>>}

(* Every GNSS file of the active backend gets to its queue in the end, after *)
(* its hour or after what left it behind, unless the backend was switched    *)
(* under the file being written (Astray): GnssLog.                          *)
QueuedInTurn == \A n \in Watched : Gnss!QueuedInTurn(n)

(* The hour of a file whose backend was switched away ends too.              *)
RotatesAnyway == Gnss!RotatesAnyway
=============================================================================
