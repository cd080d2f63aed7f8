------------------------ MODULE LoggingSessionProofs ------------------------
(***************************************************************************)
(* When requests are served one at a time, whatever the log tasks do by    *)
(* themselves, log_task names the only log task and a stop silences it.    *)
(* SessionInv is inductive only for one caller: with two, both may pass the*)
(* null check of the handle.                                               *)
(***************************************************************************)
EXTENDS LoggingSession, TLAPS

AtMostOneCaller == \A c, d \in Caller : c = d

Steps == StopSteps \cup CallSteps \cup TaskSteps

LEMMA InitInv == Init => SessionInv
  BY SessionAssumption DEF Init, SessionInv, TypeOK, OneLogTask, Actor, Faults, StopSteps, CallSteps,
     TaskSteps, Before

\* The steps of a request and of a log task that leave the tasks and handle alone.
LEMMA QuietStep ==
  ASSUME SessionInv, NEW a \in Actor, Runs(a), NEW s \in Steps,
         Goto(a, s),
         a \in Caller => /\ s \in (CallSteps \cup StopSteps) \ {"spawn", "forget"}
                         /\ s \in Before => pc[a] \in Before,
         a \in LogTask => s \notin {"forget", "exit"},
         UNCHANGED <<live, spent, handle, answer, fault>>,
         logFile' \in BOOLEAN, logging' \in BOOLEAN, mounted' \in BOOLEAN,
         lock' \in Actor \cup {Other, None}
  PROVE  SessionInv'
  BY SessionAssumption DEF SessionInv, TypeOK, OneLogTask, Actor, Goto, Runs, Before, Faults, StopSteps,
     CallSteps, TaskSteps, Steps

(* The steps that create, delete or forget a log task.                      *)

LEMMA SpawnStep ==
  ASSUME AtMostOneCaller, SessionInv, NEW c \in Caller, Spawn(c)
  PROVE  SessionInv'
<1>1. c \in Actor /\ pc[c] = "spawn" /\ handle = None /\ live = {}
  BY SessionAssumption DEF Spawn, At, SessionInv, TypeOK, OneLogTask, Actor
<1>2. PICK t \in LogTask \ spent : handle' = t /\ live' = live \cup {t} /\ spent' = spent \cup {t}
  BY DEF Spawn
<1>3. pc' = [pc EXCEPT ![c] = "mark"] /\ UNCHANGED <<logFile, logging, mounted, lock, answer, fault>>
  BY DEF Spawn, Goto
<1>4. pc[t] = "home"
  BY <1>2 DEF SessionInv
<1>5. QED
  BY <1>1, <1>2, <1>3, <1>4, SessionAssumption
     DEF AtMostOneCaller, SessionInv, TypeOK, OneLogTask, Actor, Before, StopSteps, CallSteps, TaskSteps

LEMMA DeleteStep ==
  ASSUME SessionInv, NEW a \in Actor, DeleteTask(a)
  PROVE  SessionInv'
<1>1. live' = {}
  BY DEF DeleteTask, SessionInv, OneLogTask
<1>2. QED
  BY <1>1, SessionAssumption
     DEF DeleteTask, Goto, At, Runs, SessionInv, TypeOK, OneLogTask, Actor, Before, StopSteps, CallSteps,
         TaskSteps, Faults

\* Only a caller gets past its own vTaskDelete.
LEMMA ForgetStep ==
  ASSUME AtMostOneCaller, SessionInv, NEW a \in Actor, Forget(a)
  PROVE  SessionInv'
<1>1. a \in Caller /\ live = {}
  BY SessionAssumption DEF Forget, At, Runs, SessionInv, Actor
<1>2. QED
  BY <1>1, SessionAssumption
     DEF Forget, Goto, At, Runs, AtMostOneCaller, SessionInv, TypeOK, OneLogTask, Actor, Before, StopSteps,
         CallSteps, TaskSteps, Faults

LEMMA ExitStep ==
  ASSUME SessionInv, NEW t \in LogTask, Exit(t)
  PROVE  SessionInv'
  BY SessionAssumption DEF Exit, At, Runs, SessionInv, Actor

-----------------------------------------------------------------------------
LEMMA OpeningStep ==
  ASSUME SessionInv, NEW a \in Actor, Opening(a)
  PROVE  SessionInv'
<1>1. CASE OpenTake(a)
  BY <1>1, QuietStep DEF OpenTake, At, Runs, Enter, Steps, Before, StopSteps, CallSteps, TaskSteps, SessionInv, TypeOK
<1>2. CASE OpenDone(a)
  BY <1>2, QuietStep, SessionAssumption
     DEF OpenDone, Opened, At, Runs, Leave, Steps, Before, StopSteps, CallSteps, TaskSteps, SessionInv, TypeOK
<1>3. CASE OpenFails(a)
  BY <1>3, QuietStep, SessionAssumption
     DEF OpenFails, NotOpened, At, Runs, Leave, Steps, Before, StopSteps, CallSteps, TaskSteps, SessionInv, TypeOK
<1>4. CASE OpenRefused(a)
  BY <1>4, QuietStep, SessionAssumption
     DEF OpenRefused, NotOpened, At, Runs, Steps, Before, StopSteps, CallSteps, TaskSteps, SessionInv, TypeOK
<1>5. QED
  BY <1>1, <1>2, <1>3, <1>4 DEF Opening

LEMMA StoppingStep ==
  ASSUME AtMostOneCaller, SessionInv, NEW a \in Actor, Stopping(a)
  PROVE  SessionInv'
<1>1. CASE QueueTake(a)
  BY <1>1, QuietStep DEF QueueTake, At, Runs, Enter, Steps, Before, StopSteps, CallSteps, TaskSteps, SessionInv, TypeOK
<1>2. CASE QueueDone(a)
  BY <1>2, QuietStep DEF QueueDone, At, Runs, Leave, Steps, Before, StopSteps, CallSteps, TaskSteps, SessionInv, TypeOK
<1>3. CASE QueueRefused(a)
  BY <1>3, QuietStep DEF QueueRefused, At, Runs, Steps, Before, StopSteps, CallSteps, TaskSteps, SessionInv, TypeOK
<1>4. CASE StopClose(a)
  BY <1>4, QuietStep DEF StopClose, At, Runs, Steps, Before, StopSteps, CallSteps, TaskSteps, SessionInv, TypeOK
<1>5. CASE Unmount(a)
  BY <1>5, QuietStep DEF Unmount, At, Runs, Steps, Before, StopSteps, CallSteps, TaskSteps, SessionInv, TypeOK
<1>6. CASE StopFlags(a)
  BY <1>6, QuietStep DEF StopFlags, At, Runs, Steps, Before, StopSteps, CallSteps, TaskSteps, SessionInv, TypeOK
<1>7. QED
  BY <1>1, <1>2, <1>3, <1>4, <1>5, <1>6, DeleteStep, ForgetStep DEF Stopping

LEMMA RequestStep ==
  ASSUME AtMostOneCaller, SessionInv, NEW c \in Caller,
         Start(c) \/ Stop(c) \/ CheckHandle(c) \/ MarkStarted(c)
  PROVE  SessionInv'
<1> c \in Actor
  BY DEF Actor
<1>1. CASE Start(c)
  BY <1>1, QuietStep, SessionAssumption
     DEF Start, At, Runs, Steps, Before, StopSteps, CallSteps, TaskSteps, SessionInv, TypeOK
<1>2. CASE Stop(c)
  BY <1>2, QuietStep, SessionAssumption
     DEF Stop, At, Runs, Steps, Before, StopSteps, CallSteps, TaskSteps, SessionInv, TypeOK
<1>3. CASE CheckHandle(c)
  BY <1>3, SessionAssumption
     DEF CheckHandle, Goto, At, Runs, Before, StopSteps, CallSteps, TaskSteps, SessionInv, TypeOK, OneLogTask, Actor
<1>4. CASE MarkStarted(c)
  BY <1>4, SessionAssumption
     DEF MarkStarted, Goto, At, Runs, AtMostOneCaller, Before, StopSteps, CallSteps, TaskSteps, SessionInv, TypeOK,
         OneLogTask, Actor
<1>5. QED
  BY <1>1, <1>2, <1>3, <1>4

LEMMA LoggingStep ==
  ASSUME SessionInv, NEW t \in LogTask, Logging(t)
  PROVE  SessionInv'
<1> t \in Actor /\ t \notin Caller
  BY SessionAssumption DEF Actor
<1>1. CASE Home(t)
  BY <1>1, QuietStep DEF Home, At, Runs, Steps, StopSteps, CallSteps, TaskSteps, SessionInv, TypeOK
<1>2. CASE Check(t)
  BY <1>2, QuietStep DEF Check, At, Runs, Steps, StopSteps, CallSteps, TaskSteps, SessionInv, TypeOK
<1>3. CASE RotateTake(t)
  BY <1>3, QuietStep DEF RotateTake, At, Runs, Enter, Steps, StopSteps, CallSteps, TaskSteps, SessionInv, TypeOK
<1>4. CASE RotateDone(t)
  BY <1>4, QuietStep DEF RotateDone, At, Runs, Leave, Steps, StopSteps, CallSteps, TaskSteps, SessionInv, TypeOK
<1>5. CASE RotateRefused(t)
  BY <1>5, QuietStep DEF RotateRefused, At, Runs, Steps, StopSteps, CallSteps, TaskSteps, SessionInv, TypeOK
<1>6. CASE WriteTake(t)
  BY <1>6, QuietStep DEF WriteTake, At, Runs, Enter, Steps, StopSteps, CallSteps, TaskSteps, SessionInv, TypeOK
<1>7. CASE WriteRefused(t)
  BY <1>7, QuietStep DEF WriteRefused, At, Runs, Steps, StopSteps, CallSteps, TaskSteps, SessionInv, TypeOK
<1>8. CASE WriteRow(t)
  BY <1>8, SessionAssumption
     DEF WriteRow, Goto, At, Runs, Leave, Before, StopSteps, CallSteps, TaskSteps, SessionInv, TypeOK, OneLogTask,
         Actor, Faults
<1>9. QED
  BY <1>1, <1>2, <1>3, <1>4, <1>5, <1>6, <1>7, <1>8, ExitStep DEF Logging

LEMMA OtherStep ==
  ASSUME SessionInv, OtherTake \/ OtherDone
  PROVE  SessionInv'
  BY DEF OtherTake, OtherDone, Enter, Leave, SessionInv, TypeOK, OneLogTask, Actor

LEMMA StepInv == ASSUME AtMostOneCaller, SessionInv, [Next]_vars PROVE SessionInv'
<1>1. CASE UNCHANGED vars
  BY <1>1 DEF vars, SessionInv, TypeOK, OneLogTask, Actor
<1>2. ASSUME NEW a \in Actor, Working(a) PROVE SessionInv'
  BY <1>2, OpeningStep, StoppingStep, SpawnStep, RequestStep, LoggingStep DEF Working
<1>3. QED
  BY <1>1, <1>2, RequestStep, OtherStep DEF Next

-----------------------------------------------------------------------------
\* One caller: the inductive invariant of the session.
THEOREM SessionHolds == ASSUME AtMostOneCaller PROVE Spec => []SessionInv
<1>1. SessionInv /\ [Next]_vars => SessionInv'
  BY StepInv
<1>2. QED
  BY InitInv, <1>1, PTL DEF Spec

\* One caller: log_task names the only log task that exists.
THEOREM OneTaskOnly == ASSUME AtMostOneCaller PROVE Spec => []OneLogTask
<1>1. SessionInv => OneLogTask
  BY DEF SessionInv
<1>2. QED
  BY SessionHolds, <1>1, PTL

\* One caller: no log task runs after logging_stopped was answered.
THEOREM StopWorks == ASSUME AtMostOneCaller, Caller # {} PROVE Spec => []StoppedIsSilent
<1>1. SessionInv => StoppedIsSilent
  BY DEF SessionInv, StoppedIsSilent, Before
<1>2. QED
  BY SessionHolds, <1>1, PTL
=============================================================================
