------------------------------- MODULE Motor -------------------------------
(***************************************************************************)
(* The mirror's stepper motor.  Four users drive one STEP pin through the  *)
(* flags of SharedState: StepperTask (manual moves), the find_zero task    *)
(* (homing on request), log_task (homing and the two-place measurement     *)
(* cycle) and the clients, whose commands only change flags.               *)
(*                                                                         *)
(* The shaft is an integer; the Hall magnet is passed every Turn steps.    *)
(* One loop iteration of a blocking driver (look at stepper_abort, pulse,  *)
(* count) is one action: none of the clients' updates tells its middle     *)
(* from its start or its end.  StepperTask is split, because a command     *)
(* between its snapshot, its pulse and its count does make a difference.   *)
(* Updates of SharedState are taken as done; Calibration lets them drop.   *)
(***************************************************************************)
EXTENDS Integers

CONSTANTS
  Turn,      \* steps between two passages of the Hall magnet
  MaxSteps,  \* kMaxSteps of one homing attempt
  Attempts,  \* kStepperHomeRetryAttempts
  Offset,    \* stepper_home_offset_steps
  LogSteps,  \* logging_motor_steps
  Samples,   \* samples of one average
  Reach,     \* steps of a manual move
  Commands,  \* bound on the clients' commands
  Cycles     \* bound on the measurement cycles

ASSUME MotorAssumption ==
  /\ {Turn, MaxSteps, Attempts, LogSteps, Samples, Reach} \subseteq Nat \ {0}
  /\ Offset \in Int
  /\ {Commands, Cycles} \subseteq Nat

Driver == {"find", "log"}

VARIABLES
  sh,      \* the stepper fields of SharedState
  dir,     \* level of the DIR pin, TRUE is forward
  shaft,   \* where the shaft really is
  hall,    \* the Hall sensor works
  st,      \* StepperTask: next step, its snapshot's direction
  pc,      \* where each blocking driver is
  home,    \* its homing: steps made, edge latched, attempt, outcome
  cycle,   \* log_task: samples left, places seen at zero and away, kind of return
  rows,    \* rows written
  zero,    \* shaft at the last reset of stepper_position (history)
  calm,    \* every command since the last homing came at rest (history)
  clean,   \* no client moved the motor since this session began (history)
  sent,    \* commands so far
  killed   \* a log task was deleted while it was driving (history)

vars == <<sh, dir, shaft, hall, st, pc, home, cycle, rows, zero, calm, clean, sent, killed>>
ghosts == <<zero, calm, clean, killed>>

Sign(fwd) == IF fwd THEN 1 ELSE -1
HallTriggered == hall /\ shaft % Turn = 0
Homing == {"begin", "seek", "offset", "finish"}
Pulsing == {"seek", "offset", "finish", "out", "back"}
Idle(d) == pc[d] \in {"off", "gone"}
AtRest == ~sh.moving /\ ~sh.homing /\ \A d \in Driver : Idle(d)

NoHome == [steps |-> 0, latch |-> FALSE, try |-> 1, result |-> "none"]
NoCycle == [left |-> 0, at |-> {}, away |-> {}]

Init ==
  /\ sh = [enabled |-> FALSE, moving |-> FALSE, abort |-> FALSE, homing |-> FALSE,
           homed |-> FALSE, fwd |-> TRUE, pos |-> 0, target |-> 0]
  /\ dir = TRUE /\ shaft \in 0..(Turn - 1) /\ hall \in BOOLEAN
  /\ st = [pc |-> "snap", fwd |-> TRUE]
  /\ pc = [d \in Driver |-> "off"] /\ home = [d \in Driver |-> NoHome]
  /\ cycle = NoCycle /\ rows = 0 /\ zero = shaft
  /\ calm = TRUE /\ clean = FALSE /\ sent = 0 /\ killed = FALSE

Goto(d, to) == pc' = [pc EXCEPT ![d] = to]

(* StepperPulseOnce: the driver chip follows STEP only while it is enabled. *)
(* The Hall interrupt latches an edge for whoever is seeking.               *)
Shift(fwd) == IF sh.enabled THEN Sign(fwd) ELSE 0
Pulse(fwd, h) ==
  /\ shaft' = shaft + Shift(fwd)
  /\ home' = [d \in Driver |->
       [h[d] EXCEPT !.latch = @ \/ (hall /\ shaft' # shaft /\ shaft' % Turn = 0)]]

-----------------------------------------------------------------------------
(* Commands of the clients *)

(* A command keeps the counter honest when it comes at rest. *)
Command == sent < Commands /\ sent' = sent + 1
Keeps(p) == calm' = (calm /\ p)

EnableStepper ==
  /\ Command /\ sh' = [sh EXCEPT !.enabled = TRUE] /\ Keeps(AtRest)
  /\ UNCHANGED <<dir, shaft, hall, st, pc, home, cycle, rows, zero, clean, killed>>

DisableStepper ==
  /\ Command /\ sh' = [sh EXCEPT !.enabled = FALSE, !.moving = FALSE] /\ Keeps(AtRest)
  /\ clean' = FALSE
  /\ UNCHANGED <<dir, shaft, hall, st, pc, home, cycle, rows, zero, killed>>

(* StartStepperMove sets the pin although it may overrule a homing. *)
Move(fwd) ==
  /\ Command /\ sh.enabled
  /\ sh' = [sh EXCEPT !.abort = FALSE, !.fwd = fwd, !.moving = TRUE,
                      !.target = sh.pos + Sign(fwd) * Reach]
  /\ dir' = fwd /\ Keeps(AtRest) /\ clean' = FALSE
  /\ UNCHANGED <<shaft, hall, st, pc, home, cycle, rows, zero, killed>>

Stop ==
  /\ Command /\ Keeps(AtRest)
  /\ sh' = [sh EXCEPT !.moving = FALSE, !.abort = TRUE, !.homing = FALSE]
  /\ UNCHANGED <<dir, shaft, hall, st, pc, home, cycle, rows, zero, clean, killed>>

Zero ==
  /\ Command /\ Keeps(AtRest) /\ zero' = shaft
  /\ sh' = [sh EXCEPT !.pos = 0, !.target = 0, !.homed = TRUE]
  /\ UNCHANGED <<dir, shaft, hall, st, pc, home, cycle, rows, clean, killed>>

(* Refused while find_zero_task is set, but only after the motor has been *)
(* enabled; log_task is not looked at.                                     *)
FindZero ==
  /\ Command /\ Keeps(AtRest) /\ clean' = FALSE
  /\ IF pc["find"] = "off"
     THEN /\ sh' = [sh EXCEPT !.enabled = TRUE, !.abort = FALSE, !.homed = FALSE, !.homing = TRUE]
          /\ Goto("find", "begin")
     ELSE sh' = [sh EXCEPT !.enabled = TRUE] /\ UNCHANGED pc
  /\ UNCHANGED <<dir, shaft, hall, st, home, cycle, rows, zero, killed>>

StartLog ==
  /\ Command /\ pc["log"] = "off"
  /\ Goto("log", "begin") /\ Keeps(AtRest)
  /\ home' = [home EXCEPT !["log"] = NoHome] /\ cycle' = NoCycle
  /\ clean' = (~sh.moving /\ pc["find"] = "off" /\ st.pc = "snap")
  /\ UNCHANGED <<sh, dir, shaft, hall, st, rows, zero, killed>>

(* StopLogging deletes log_task wherever it is and disables the motor, but *)
(* leaves homing as it was.                                                 *)
StopLog ==
  /\ Command /\ pc["log"] \notin {"off", "gone"}
  /\ sh' = [sh EXCEPT !.abort = TRUE, !.moving = FALSE, !.enabled = FALSE]
  /\ Goto("log", "off") /\ Keeps(AtRest) /\ clean' = FALSE
  /\ killed' = (killed \/ pc["log"] \in Pulsing)
  /\ UNCHANGED <<dir, shaft, hall, st, home, cycle, rows, zero>>
-----------------------------------------------------------------------------
(* StepperTask *)

(* Waits while a driver homes; an abort ends the move; else goes to pulse. *)
Snapshot ==
  /\ st.pc = "snap"
  /\ st' = IF sh.enabled /\ sh.moving /\ ~sh.abort /\ ~sh.homing THEN [pc |-> "pulse", fwd |-> sh.fwd] ELSE st
  /\ sh' = [sh EXCEPT !.moving = @ /\ ~sh.abort]
  /\ UNCHANGED <<dir, shaft, hall, pc, home, cycle, rows, ghosts, sent>>

StepPulse ==
  /\ st.pc = "pulse" /\ st' = [st EXCEPT !.pc = "count"]
  /\ dir' = st.fwd /\ Pulse(st.fwd, home)
  /\ UNCHANGED <<sh, hall, pc, cycle, rows, ghosts, sent>>

(* Counts with the direction the state has now, if it still moves. *)
StepCount ==
  /\ st.pc = "count" /\ st' = [st EXCEPT !.pc = "snap"]
  /\ sh' = IF ~sh.moving \/ ~sh.enabled THEN sh
           ELSE LET p == sh.pos + Sign(sh.fwd)
                IN [sh EXCEPT !.pos = p,
                      !.moving = ~(IF sh.fwd THEN p >= sh.target ELSE p <= sh.target)]
  /\ UNCHANGED <<dir, shaft, hall, pc, home, cycle, rows, ghosts, sent>>
-----------------------------------------------------------------------------
(* HomeStepperToUserZeroBlocking, in either driver *)

Begin(d) ==
  /\ pc[d] = "begin" /\ Goto(d, "seek")
  /\ sh' = [sh EXCEPT !.enabled = (@ \/ d = "find" \/ home[d].try = 1), !.abort = FALSE, !.homing = TRUE, !.moving = TRUE,
                      !.homed = FALSE, !.fwd = TRUE]
  /\ dir' = TRUE
  /\ home' = [home EXCEPT ![d].steps = 0, ![d].latch = FALSE, ![d].result = "none"]
  /\ UNCHANGED <<shaft, hall, st, cycle, rows, ghosts, sent>>

Seeking(d) == ~HallTriggered /\ ~home[d].latch /\ home[d].steps < MaxSteps

Seek(d) ==
  /\ pc[d] = "seek" /\ Seeking(d) /\ ~sh.abort
  /\ Pulse(dir, [home EXCEPT ![d].steps = @ + 1])
  /\ sh' = [sh EXCEPT !.pos = @ + 1]
  /\ UNCHANGED <<dir, hall, st, pc, cycle, rows, ghosts, sent>>

SeekAborted(d) ==
  /\ pc[d] = "seek" /\ Seeking(d) /\ sh.abort
  /\ Goto(d, "finish") /\ home' = [home EXCEPT ![d].result = "aborted"]
  /\ UNCHANGED <<sh, dir, shaft, hall, st, cycle, rows, ghosts, sent>>

Missed(d) ==
  /\ pc[d] = "seek" /\ ~HallTriggered /\ ~home[d].latch /\ home[d].steps >= MaxSteps
  /\ Goto(d, "finish") /\ home' = [home EXCEPT ![d].result = "missed"]
  /\ UNCHANGED <<sh, dir, shaft, hall, st, cycle, rows, ghosts, sent>>

(* This homing has the motor to itself. *)
Undisturbed(d) ==
  sh.enabled /\ sh.homing /\ ~sh.abort /\ st.pc = "snap" /\ \A x \in Driver \ {d} : Idle(x)

(* Hall found by level or by the latched edge: the counter starts here, and *)
(* MoveStepperBlockingSigned sets out for the user's zero.                  *)
Found(d) ==
  /\ pc[d] = "seek" /\ (HallTriggered \/ home[d].latch)
  /\ Goto(d, IF Offset = 0 THEN "finish" ELSE "offset")
  /\ home' = [home EXCEPT ![d].steps = 0, ![d].result = IF Offset = 0 THEN "ok" ELSE @]
  /\ sh' = [sh EXCEPT !.homed = TRUE, !.pos = 0, !.fwd = IF Offset = 0 THEN @ ELSE Offset > 0,
                      !.target = Offset, !.moving = (@ \/ Offset # 0)]
  /\ dir' = IF Offset = 0 THEN dir ELSE Offset > 0
  /\ zero' = shaft
  /\ calm' = (calm \/ Undisturbed(d))
  /\ UNCHANGED <<shaft, hall, st, cycle, rows, clean, killed, sent>>

Distance == IF Offset >= 0 THEN Offset ELSE -Offset

OffsetStep(d) ==
  /\ pc[d] = "offset" /\ home[d].steps < Distance /\ ~sh.abort
  /\ Pulse(dir, [home EXCEPT ![d].steps = @ + 1])
  /\ sh' = [sh EXCEPT !.pos = @ + Sign(Offset > 0)]
  /\ UNCHANGED <<dir, hall, st, pc, cycle, rows, ghosts, sent>>

OffsetAborted(d) ==
  /\ pc[d] = "offset" /\ home[d].steps < Distance /\ sh.abort
  /\ Goto(d, "finish") /\ home' = [home EXCEPT ![d].result = "aborted"]
  /\ UNCHANGED <<sh, dir, shaft, hall, st, cycle, rows, ghosts, sent>>

OffsetDone(d) ==
  /\ pc[d] = "offset" /\ home[d].steps = Distance
  /\ Goto(d, "finish") /\ home' = [home EXCEPT ![d].result = "ok"]
  /\ sh' = [sh EXCEPT !.moving = FALSE, !.pos = 0, !.target = 0] /\ zero' = shaft
  /\ UNCHANGED <<dir, shaft, hall, st, cycle, rows, calm, clean, killed, sent>>

\* Fault: homing is not reset.
ReleasedMoving(d) == [sh EXCEPT !.moving = FALSE, !.abort = @ \/ home[d].result = "aborted"]

Released(d) == [sh EXCEPT !.homing = FALSE, !.moving = FALSE, !.abort = @ \/ home[d].result = "aborted"]

\* Fault: the end of the find_zero task leaves the flags as they are.
FindEndsSilently ==
  /\ pc["find"] = "finish" /\ Goto("find", "off")
  /\ UNCHANGED <<sh, dir, shaft, hall, st, home, cycle, rows, ghosts, sent>>

FindEnds ==
  /\ pc["find"] = "finish" /\ Goto("find", "off") /\ sh' = Released("find")
  /\ UNCHANGED <<dir, shaft, hall, st, home, cycle, rows, ghosts, sent>>
-----------------------------------------------------------------------------
(* LoggingTask with use_motor.  A task that gave up is "gone", yet log_task  *)
(* still names it (see LoggingSession): no other session starts here.        *)

(* A failed homing is tried again unless it was aborted; the last failure   *)
(* runs StopLogging, which deletes this task before it reaches the line     *)
(* that disables the motor.                                                 *)
GiveUp(s) == [s EXCEPT !.abort = TRUE, !.moving = FALSE]

LogHomeEnds ==
  /\ pc["log"] = "finish"
  /\ LET h == home["log"]
         again == h.result = "missed" /\ h.try < Attempts
     IN /\ Goto("log", CASE h.result = "ok" -> "top" [] again -> "begin" [] OTHER -> "gone")
        /\ sh' = IF h.result = "ok" \/ again THEN Released("log") ELSE GiveUp(Released("log"))
        /\ home' = [home EXCEPT !["log"].try = IF again THEN @ + 1 ELSE 1]
  /\ cycle' = NoCycle
  /\ UNCHANGED <<dir, shaft, hall, st, rows, ghosts, sent>>

(* The settle delay of a second outlasts one iteration of StepperTask. *)
Settle ==
  /\ pc["log"] \in {"top", "away"} /\ st.pc = "snap"
  /\ Goto("log", IF pc["log"] = "top" THEN "avgAt" ELSE "avgAway")
  /\ cycle' = [cycle EXCEPT !.left = Samples,
                 !.at = IF pc["log"] = "top" THEN {} ELSE @,
                 !.away = IF pc["log"] = "away" THEN {} ELSE @]
  /\ UNCHANGED <<sh, dir, shaft, hall, st, home, rows, ghosts, sent>>

(* Where the mirror looks, counted from the user's zero *)
Place == (shaft - Offset) % Turn

(* One sample of collect_avg; a moving motor discards the average. *)
Sample ==
  /\ pc["log"] \in {"avgAt", "avgAway"} /\ cycle.left > 0
  /\ IF sh.moving \/ sh.homing
     THEN Goto("log", IF pc["log"] = "avgAt" THEN "top" ELSE "away") /\ UNCHANGED cycle
     ELSE /\ UNCHANGED pc
          /\ cycle' = IF pc["log"] = "avgAt"
                      THEN [cycle EXCEPT !.left = @ - 1, !.at = @ \cup {Place}]
                      ELSE [cycle EXCEPT !.left = @ - 1, !.away = @ \cup {Place}]
  /\ UNCHANGED <<sh, dir, shaft, hall, st, home, rows, ghosts, sent>>

(* move_blocking, out after the first average, back after the row *)
MoveBegins(fwd) ==
  /\ sh' = [sh EXCEPT !.homing = TRUE, !.abort = FALSE, !.moving = TRUE, !.fwd = fwd,
                      !.target = sh.pos + Sign(fwd) * LogSteps, !.enabled = TRUE]
  /\ dir' = fwd
  /\ home' = [home EXCEPT !["log"].steps = 0]

Outward ==
  /\ pc["log"] = "avgAt" /\ cycle.left = 0 /\ rows < Cycles
  /\ Goto("log", "out") /\ MoveBegins(TRUE)
  /\ UNCHANGED <<shaft, hall, st, cycle, rows, ghosts, sent>>

LogStep ==
  /\ pc["log"] \in {"out", "back"} /\ home["log"].steps < LogSteps /\ ~sh.abort
  /\ Pulse(dir, [home EXCEPT !["log"].steps = @ + 1])
  /\ UNCHANGED <<sh, dir, hall, st, pc, cycle, rows, ghosts, sent>>

(* The counter is corrected once, by what was really done.  An aborted move *)
(* ends the session.                                                        *)
\* Fault: an aborted move counts as done.
MoveAlways == TRUE

MoveSucceeded == home["log"].steps = LogSteps /\ ~sh.abort

\* Fault: move_blocking does not count.
Uncounted == 0

Done == home["log"].steps

MoveEnds ==
  /\ pc["log"] \in {"out", "back"} /\ (home["log"].steps = LogSteps \/ sh.abort)
  /\ LET p == sh.pos + Sign(pc["log"] = "out") * Done
         s == [sh EXCEPT !.homing = FALSE, !.moving = FALSE, !.pos = p, !.target = p]
     IN IF ~MoveSucceeded
        THEN sh' = GiveUp(s) /\ Goto("log", "gone") /\ UNCHANGED zero
        ELSE IF pc["log"] = "out"
        THEN sh' = s /\ Goto("log", "away") /\ UNCHANGED zero
        ELSE /\ sh' = [s EXCEPT !.pos = 0, !.target = 0, !.homed = TRUE]
             /\ zero' = shaft /\ Goto("log", "top")
  /\ UNCHANGED <<dir, shaft, hall, st, home, cycle, rows, calm, clean, killed, sent>>

(* The card is busy: the second average is taken again. *)
RowRefused ==
  /\ pc["log"] = "avgAway" /\ cycle.left = 0 /\ Goto("log", "away")
  /\ UNCHANGED <<sh, dir, shaft, hall, st, home, cycle, rows, ghosts, sent>>

(* The row, then the way back: homing (logging_home_each_cycle) or steps. *)
Row ==
  /\ pc["log"] = "avgAway" /\ cycle.left = 0
  /\ rows' = rows + 1
  /\ \/ Goto("log", "begin") /\ UNCHANGED <<sh, dir, home>>
     \/ Goto("log", "back") /\ MoveBegins(FALSE)
  /\ UNCHANGED <<shaft, hall, st, cycle, ghosts, sent>>
-----------------------------------------------------------------------------
Client ==
  \/ EnableStepper \/ DisableStepper \/ Stop \/ Zero \/ FindZero \/ StartLog \/ StopLog
  \/ \E fwd \in BOOLEAN : Move(fwd)
StepperTask == Snapshot \/ StepPulse \/ StepCount
HomeStep(d) ==
  Begin(d) \/ Seek(d) \/ SeekAborted(d) \/ Missed(d) \/ Found(d)
  \/ OffsetStep(d) \/ OffsetAborted(d) \/ OffsetDone(d)
FindTask == HomeStep("find") \/ FindEnds
LogTask == HomeStep("log") \/ LogHomeEnds \/ Settle \/ Sample \/ Outward \/ LogStep \/ MoveEnds \/ RowRefused \/ Row

Next == Client \/ StepperTask \/ FindTask \/ LogTask

Spec == Init /\ [][Next]_vars

(* FreeRTOS runs every ready task again; clients owe nothing. *)
FairSpec == Spec /\ WF_vars(StepperTask) /\ WF_vars(FindTask) /\ WF_vars(LogTask)
-----------------------------------------------------------------------------
Flags == [enabled : BOOLEAN, moving : BOOLEAN, abort : BOOLEAN, homing : BOOLEAN,
          homed : BOOLEAN, fwd : BOOLEAN, pos : Int, target : Int]
Places == Homing \cup {"off", "gone", "top", "away", "avgAt", "avgAway", "out", "back"}
Homes == [steps : Nat, latch : BOOLEAN, try : Nat, result : {"none", "ok", "missed", "aborted"}]

MotorTypes ==
  /\ sh \in Flags
  /\ dir \in BOOLEAN /\ shaft \in Int /\ zero \in Int /\ hall \in BOOLEAN
  /\ st \in [pc : {"snap", "pulse", "count"}, fwd : BOOLEAN]
  /\ pc \in [Driver -> Places]
  /\ home \in [Driver -> Homes]
  /\ calm \in BOOLEAN

TypeOK ==
  /\ MotorTypes
  /\ cycle \in [left : Nat, at : SUBSET (0..(Turn - 1)), away : SUBSET (0..(Turn - 1))]
  /\ {rows, sent} \subseteq Nat /\ {clean, killed} \subseteq BOOLEAN

(* homing names a driver that is at work, unless a log task was deleted in   *)
(* its move: then it stays set and StepperTask waits for nobody.             *)
HomingIsDriven ==
  sh.homing => killed \/ pc["find"] \in Homing \/ pc["log"] \in Homing \cup {"out", "back"}

(* Why it holds: a task that has not begun its homing has not set the flag,  *)
(* but for find_zero, whose command sets it.                                 *)
HomingInv ==
  /\ MotorTypes
  /\ sh.homing => killed \/ pc["find"] \in Homing \/ pc["log"] \in Pulsing

(* The counter in the UI is the shaft's distance from the zero, whoever      *)
(* moved it, as long as commands came at rest: an offset, a manual move and  *)
(* the log task's uncounted moves included.                                  *)
Pending ==
  (IF st.pc = "count" THEN Sign(st.fwd) ELSE 0)
  + (IF pc["log"] = "out" THEN home["log"].steps ELSE 0)
  - (IF pc["log"] = "back" THEN home["log"].steps ELSE 0)
PositionIsShaft == calm => sh.pos + Pending = shaft - zero

(* Why it holds: after commands that came at rest one user at a time has the *)
(* motor.  StepperTask moves it only while no driver is at work, and a driver *)
(* that pulses has enabled it, turned it its way and set homing.              *)
OneUser ==
  /\ st.pc # "snap" => /\ \A d \in Driver : Idle(d)
                       /\ sh.enabled /\ sh.moving /\ ~sh.homing /\ st.fwd = sh.fwd
  /\ (\A d \in Driver : Idle(d)) => ~sh.homing
  /\ \A d \in Driver : ~Idle(d) => \A x \in Driver \ {d} : Idle(x)
  /\ \A d \in Driver :
       /\ pc[d] \in Pulsing => sh.enabled /\ sh.homing
       /\ pc[d] = "begin" => sh.enabled \/ d = "find" \/ home[d].try = 1
       /\ pc[d] = "begin" => ~sh.moving
       /\ pc[d] \in {"top", "away", "avgAt", "avgAway"} => sh.enabled /\ ~sh.moving
       /\ pc[d] = "seek" => dir
       /\ pc[d] = "offset" => dir = (Offset > 0)
       /\ pc[d] \in {"out", "back"} => d = "log" /\ dir = (pc[d] = "out")

CounterInv == HomingInv /\ PositionIsShaft /\ (calm => OneUser)

(* Both averages behind a row are taken where they claim to be: the first    *)
(* at the user's zero, the second LogSteps away, cycle after cycle, though   *)
(* stops come at any moment, unless a client moved or disabled the motor     *)
(* during the session.                                                       *)
RowsInPlace == clean => cycle.at \subseteq {0} /\ cycle.away \subseteq {LogSteps % Turn}

(* Why it holds: while no client moves the motor, nobody but the log task    *)
(* pulses it, on an enabled driver chip; and wherever the session is, whole   *)
(* turns lie between the shaft and the place its counts say it has.          *)
Driving == Pulsing \cup {"top", "avgAt", "away", "avgAway"}
LogTaskAlone ==
  /\ st.pc = "snap" /\ pc["find"] = "off"
  /\ sh.moving \/ pc["log"] \in Pulsing => sh.homing \/ sh.abort
  /\ pc["log"] \in Driving \/ (pc["log"] = "begin" /\ home["log"].try # 1) => sh.enabled

WholeTurns(x) == x % Turn = 0
OnCourse ==
  /\ pc["log"] = "seek" /\ home["log"].latch => WholeTurns(shaft)
  /\ pc["log"] = "offset" => /\ home["log"].steps \in 0..Distance /\ dir = (Offset > 0)
                             /\ WholeTurns(shaft - Sign(Offset > 0) * home["log"].steps)
  /\ pc["log"] = "finish" /\ home["log"].result = "ok" => WholeTurns(shaft - Offset)
  /\ pc["log"] \in {"top", "avgAt"} => WholeTurns(shaft - Offset)
  /\ pc["log"] = "out" => dir /\ WholeTurns(shaft - Offset - home["log"].steps)
  /\ pc["log"] \in {"away", "avgAway"} => WholeTurns(shaft - Offset - LogSteps)
  /\ pc["log"] = "back" => ~dir /\ WholeTurns(shaft - Offset - LogSteps + home["log"].steps)

RowsInv == TypeOK /\ RowsInPlace /\ (clean => LogTaskAlone /\ OnCourse)

(* Every motion ends, whatever the Hall sensor and the clients do, unless a  *)
(* log task was deleted in its move.                                         *)
MotionEnds == (sh.moving \/ sh.homing) ~> ((~sh.moving /\ ~sh.homing) \/ killed)
=============================================================================
