--------------------------- MODULE LoggingSession ---------------------------
(***************************************************************************)
(* Starting and stopping a logging session: StartLoggingToFile, StopLogging*)
(* and LoggingTask of motion_controller.cpp, called by the HTTP server, the*)
(* MQTT task and LoggingTask itself.  The session is four shared cells that*)
(* no single lock protects: the task handle, the FILE*, the logging flag of*)
(* the shared state and the mount flag.  vTaskDelete takes effect wherever *)
(* its victim is, inside a SdLockGuard scope too.                          *)
(*                                                                         *)
(* A fault (a row written through a null FILE*, a task deleted that no     *)
(* longer exists) is undefined behaviour in the firmware; it ends the      *)
(* behaviour here, as the panic handler's reboot would.                    *)
(***************************************************************************)

CONSTANTS Caller,   \* tasks that run ActionStartLog and ActionStopLog
          LogTask,  \* the instances of LoggingTask that may be created
          Other,    \* another user of the storage mutex: uploader, meteo, GNSS
          None

ASSUME SessionAssumption ==
  /\ Caller \cap LogTask = {} /\ Other \notin Caller \cup LogTask
  /\ None \notin Caller \cup LogTask \cup {Other}

Actor == Caller \cup LogTask

VARIABLES pc,       \* where each caller and each log task is
          live,     \* the log tasks that exist
          spent,    \* the log tasks ever created
          handle,   \* log_task
          logFile,  \* log_file is open
          logging,  \* SharedState.logging
          mounted,  \* s_log_sd_mounted
          lock,     \* the owner of s_sd_mutex
          answer,   \* what the last completed request was told
          fault

vars == <<pc, live, spent, handle, logFile, logging, mounted, lock, answer, fault>>

Faults == {"none", "null_file", "dead_task"}
StopSteps  == {"queue", "in_queue", "close", "unmount", "flags", "delete", "forget"}
CallSteps  == {"idle", "open", "in_open", "create", "spawn", "mark"}
TaskSteps  == {"home", "check", "sample", "in_write", "rotate", "in_rotate", "open", "in_open", "exit"}

Init ==
  /\ pc = [a \in Actor |-> IF a \in Caller THEN "idle" ELSE "home"]
  /\ live = {} /\ spent = {}
  /\ handle = None
  /\ logFile = FALSE /\ logging = FALSE /\ mounted = FALSE
  /\ lock = None /\ answer = "none" /\ fault = "none"

Runs(a) == fault = "none" /\ a \in Caller \cup live
At(a, s) == Runs(a) /\ pc[a] = s
Goto(a, s) == pc' = [pc EXCEPT ![a] = s]
Enter(a) == lock = None /\ lock' = a
Leave == lock' = None

-----------------------------------------------------------------------------
(* OpenLogFileWithPostfix, from a caller or from the rotation in a log task. *)

OpenTake(a) ==
  /\ At(a, "open") /\ Enter(a)
  /\ Goto(a, "in_open")
  /\ mounted' = TRUE
  /\ UNCHANGED <<live, spent, handle, logFile, logging, answer, fault>>

Opened(a)    == IF a \in Caller THEN "create" ELSE "check"
NotOpened(a) == IF a \in Caller THEN "idle" ELSE "queue"

\* The previous file is closed; the state update may be dropped after 50 ms.
OpenDone(a) ==
  /\ At(a, "in_open") /\ Leave
  /\ logFile' = TRUE
  /\ logging' \in {logging, TRUE}
  /\ Goto(a, Opened(a))
  /\ UNCHANGED <<live, spent, handle, mounted, answer, fault>>

\* fopen failed.
OpenFails(a) ==
  /\ At(a, "in_open") /\ Leave
  /\ logFile' = FALSE
  /\ Goto(a, NotOpened(a))
  /\ UNCHANGED <<live, spent, handle, logging, mounted, answer, fault>>

\* The mutex timed out or the card did not mount.
OpenRefused(a) ==
  /\ At(a, "open")
  /\ Goto(a, NotOpened(a))
  /\ UNCHANGED <<live, spent, handle, logFile, logging, mounted, lock, answer, fault>>

-----------------------------------------------------------------------------
(* ActionStartLog.                                                          *)

Start(c) ==
  /\ At(c, "idle") /\ Goto(c, "open")
  /\ UNCHANGED <<live, spent, handle, logFile, logging, mounted, lock, answer, fault>>

\* Fault: the handle is not looked at.
CheckNothing(c) ==
  /\ At(c, "create") /\ Goto(c, "spawn")
  /\ UNCHANGED <<live, spent, handle, logFile, logging, mounted, lock, answer, fault>>

\* if (log_task == nullptr): read without a lock, used in the next step.
CheckHandle(c) ==
  /\ At(c, "create")
  /\ Goto(c, IF handle = None THEN "spawn" ELSE "mark")
  /\ UNCHANGED <<live, spent, handle, logFile, logging, mounted, lock, answer, fault>>

\* xTaskCreatePinnedToCore writes the handle before the task runs.
Spawn(c) ==
  /\ At(c, "spawn") /\ Goto(c, "mark")
  /\ \E t \in LogTask \ spent :
        /\ handle' = t
        /\ live' = live \cup {t} /\ spent' = spent \cup {t}
  /\ UNCHANGED <<logFile, logging, mounted, lock, answer, fault>>

MarkStarted(c) ==
  /\ At(c, "mark") /\ Goto(c, "idle")
  /\ logging' \in {logging, TRUE}
  /\ answer' = "logging_started"
  /\ UNCHANGED <<live, spent, handle, logFile, mounted, lock, fault>>

-----------------------------------------------------------------------------
(* StopLogging, run by a caller or by a log task that gives up.             *)

Stop(c) ==
  /\ At(c, "idle") /\ Goto(c, "queue")
  /\ UNCHANGED <<live, spent, handle, logFile, logging, mounted, lock, answer, fault>>

\* QueueCurrentLogForUpload closes the file under the lock and renames it.
QueueTake(a) ==
  /\ At(a, "queue") /\ Enter(a)
  /\ logFile' = FALSE /\ mounted' = TRUE
  /\ Goto(a, "in_queue")
  /\ UNCHANGED <<live, spent, handle, logging, answer, fault>>

QueueDone(a) ==
  /\ At(a, "in_queue") /\ Leave
  /\ \E s \in {"unmount", "close"} : Goto(a, s)
  /\ UNCHANGED <<live, spent, handle, logFile, logging, mounted, answer, fault>>

\* The mutex timed out or the card did not mount.
QueueRefused(a) ==
  /\ At(a, "queue") /\ Goto(a, "close")
  /\ UNCHANGED <<live, spent, handle, logFile, logging, mounted, lock, answer, fault>>

\* The fallback closes the file with the lock or, after 2 s, without it.
StopClose(a) ==
  /\ At(a, "close") /\ Goto(a, "unmount")
  /\ logFile' = FALSE
  /\ UNCHANGED <<live, spent, handle, logging, mounted, lock, answer, fault>>

\* UnmountLogSd, outside any SdLockGuard.
Unmount(a) ==
  /\ At(a, "unmount") /\ Goto(a, "flags")
  /\ mounted' = FALSE
  /\ UNCHANGED <<live, spent, handle, logFile, logging, lock, answer, fault>>

StopFlags(a) ==
  /\ At(a, "flags") /\ Goto(a, "delete")
  /\ logging' \in {logging, FALSE}
  /\ UNCHANGED <<live, spent, handle, logFile, mounted, lock, answer, fault>>

\* Fault: the task is left to notice the cleared flag.
DeleteNothing(a) ==
  /\ At(a, "delete") /\ Goto(a, "forget")
  /\ UNCHANGED <<live, spent, handle, logFile, logging, mounted, lock, answer, fault>>

\* if (log_task) vTaskDelete(log_task): a task that deletes itself does not
\* return from the call, and the mutex of a deleted task stays taken.
DeleteTask(a) ==
  /\ At(a, "delete")
  /\ Goto(a, "forget")
  /\ live' = live \ {handle}
  /\ fault' = IF handle # None /\ handle \notin live THEN "dead_task" ELSE fault
  /\ UNCHANGED <<spent, handle, logFile, logging, mounted, lock, answer>>

\* log_task = nullptr, and the caller clears the flag once more and answers.
Forget(a) ==
  /\ At(a, "forget")
  /\ handle' = None
  /\ IF a \in Caller
     THEN /\ Goto(a, "idle")
          /\ logging' \in {logging, FALSE}
          /\ answer' = "logging_stopped"
     ELSE Goto(a, "exit") /\ UNCHANGED <<logging, answer>>
  /\ UNCHANGED <<live, spent, logFile, mounted, lock, fault>>

-----------------------------------------------------------------------------
(* LoggingTask.                                                             *)

\* The first homing, or a later one or a move: it stops the session on failure.
Home(t) ==
  /\ At(t, "home")
  /\ \E s \in {"check", "queue"} : Goto(t, s)
  /\ UNCHANGED <<live, spent, handle, logFile, logging, mounted, lock, answer, fault>>

\* Fault: the guard at the top of the loop goes round instead of stopping.
CheckAgain(t) ==
  /\ At(t, "check")
  /\ IF logging /\ logFile
     THEN \E s \in {"sample", "rotate", "home"} : Goto(t, s)
     ELSE Goto(t, "check")
  /\ UNCHANGED <<live, spent, handle, logFile, logging, mounted, lock, answer, fault>>

\* The guard at the top of the loop, then the hourly rotation or a measurement.
Check(t) ==
  /\ At(t, "check")
  /\ IF logging /\ logFile
     THEN \E s \in {"sample", "rotate", "home"} : Goto(t, s)
     ELSE Goto(t, "queue")
  /\ UNCHANGED <<live, spent, handle, logFile, logging, mounted, lock, answer, fault>>

RotateTake(t) ==
  /\ At(t, "rotate") /\ Enter(t)
  /\ logFile' = FALSE /\ mounted' = TRUE
  /\ Goto(t, "in_rotate")
  /\ UNCHANGED <<live, spent, handle, logging, answer, fault>>

RotateDone(t) ==
  /\ At(t, "in_rotate") /\ Leave
  /\ Goto(t, "open")
  /\ UNCHANGED <<live, spent, handle, logFile, logging, mounted, answer, fault>>

RotateRefused(t) ==
  /\ At(t, "rotate") /\ Goto(t, "open")
  /\ UNCHANGED <<live, spent, handle, logFile, logging, mounted, lock, answer, fault>>

\* The averages are taken; the lock is taken for the row, or the cycle is retried.
WriteTake(t) ==
  /\ At(t, "sample") /\ Enter(t)
  /\ Goto(t, "in_write")
  /\ UNCHANGED <<live, spent, handle, logFile, logging, mounted, answer, fault>>

WriteRefused(t) ==
  /\ At(t, "sample") /\ Goto(t, "check")
  /\ UNCHANGED <<live, spent, handle, logFile, logging, mounted, lock, answer, fault>>

\* fprintf(log_file, ...): the pointer is not looked at again under the lock.
WriteRow(t) ==
  /\ At(t, "in_write") /\ Leave
  /\ Goto(t, "check")
  /\ fault' = IF logFile THEN fault ELSE "null_file"
  /\ UNCHANGED <<live, spent, handle, logFile, logging, mounted, answer>>

\* vTaskDelete(nullptr) after StopLogging returned.
Exit(t) ==
  /\ At(t, "exit")
  /\ live' = live \ {t}
  /\ UNCHANGED <<pc, spent, handle, logFile, logging, mounted, lock, answer, fault>>

-----------------------------------------------------------------------------
(* Another task's SdLockGuard scope.                                        *)

OtherTake ==
  /\ fault = "none" /\ Enter(Other)
  /\ mounted' = TRUE
  /\ UNCHANGED <<pc, live, spent, handle, logFile, logging, answer, fault>>

OtherDone ==
  /\ fault = "none" /\ lock = Other /\ Leave
  /\ UNCHANGED <<pc, live, spent, handle, logFile, logging, mounted, answer, fault>>

-----------------------------------------------------------------------------
Opening(a)  == OpenTake(a) \/ OpenDone(a) \/ OpenFails(a) \/ OpenRefused(a)
Stopping(a) == QueueTake(a) \/ QueueDone(a) \/ QueueRefused(a) \/ StopClose(a) \/ Unmount(a)
               \/ StopFlags(a) \/ DeleteTask(a) \/ Forget(a)
Logging(t)  == Home(t) \/ Check(t) \/ RotateTake(t) \/ RotateDone(t) \/ RotateRefused(t)
               \/ WriteTake(t) \/ WriteRefused(t) \/ WriteRow(t) \/ Exit(t)
Working(a)  == Opening(a) \/ Stopping(a) \/ (a \in Caller /\ (CheckHandle(a) \/ Spawn(a) \/ MarkStarted(a)))
               \/ (a \in LogTask /\ Logging(a))

Next == \/ \E c \in Caller : Start(c) \/ Stop(c)
        \/ \E a \in Actor : Working(a)
        \/ OtherTake \/ OtherDone

Spec == Init /\ [][Next]_vars

\* Every FreeRTOS task that can run runs, and a lock wait ends after 2 s.
SessionFairness == (\A a \in Actor : WF_vars(Working(a))) /\ WF_vars(OtherDone)
FairSpec == Spec /\ SessionFairness

TypeOK ==
  /\ pc \in [Actor -> StopSteps \cup CallSteps \cup TaskSteps]
  /\ live \subseteq LogTask /\ spent \subseteq LogTask
  /\ handle \in LogTask \cup {None}
  /\ logFile \in BOOLEAN /\ logging \in BOOLEAN /\ mounted \in BOOLEAN
  /\ lock \in Actor \cup {Other, None}
  /\ answer \in {"none", "logging_started", "logging_stopped"}
  /\ fault \in Faults

\* No measurement is written twice: with requests served one at a time, however
\* they interleave with failed homings, rotations and a task's own stop, log_task
\* names the only log task that exists (CheckHandle, DeleteTask).
OneLogTask == live \subseteq {handle}

\* After the answer logging_stopped no log task runs, until the next start.
StoppedIsSilent ==
  (answer = "logging_stopped" /\ \A c \in Caller : pc[c] = "idle") => live = {}

Before == {"idle", "open", "in_open", "create", "spawn"}

\* Inductive for one caller.  A log task that stops itself deletes itself, so it
\* never reaches the lines after; that is why the handle keeps naming it.
SessionInv ==
  /\ TypeOK
  /\ live \subseteq spent
  /\ OneLogTask
  /\ \A c \in Caller : /\ pc[c] \in CallSteps \cup StopSteps
                       /\ pc[c] = "spawn" => handle = None
                       /\ pc[c] = "forget" => live = {}
                       /\ answer = "logging_stopped" /\ pc[c] \in Before => live = {}
  /\ \A t \in LogTask : /\ t \notin spent => pc[t] = "home"
                        /\ t \in live => pc[t] \notin {"forget", "exit"}

\* A log task without a file does not go on for ever: the file is opened again or
\* every log task ends, as long as requests are served one at a time.
SessionEnds == (live # {} /\ ~logFile) ~> (live = {} \/ logFile \/ fault # "none")

-----------------------------------------------------------------------------
(* What the repository says of a session and the code does not keep.        *)

\* A row is written only while the file is open: LoggingTask's own guard
\* if (!current.logging || !log_file) precedes every row.
RowsHaveAFile == fault # "null_file"

\* The RAII guard leaves the mutex with the scope that took it: its owner exists.
GuardOwnerLives == lock \in LogTask => lock \in live
=============================================================================
