--------------------------- MODULE UploadPipeline ---------------------------
(***************************************************************************)
(* The life of a CSV row between the moment the firmware flushes it to the *)
(* card and the moment the card forgets it: data_logger.cpp (opening and   *)
(* writing a log), wn90lp.cpp (the meteo CSV), motion_controller.cpp       *)
(* (StopLogging and the hourly rotation), upload_pipeline.cpp (queueing,   *)
(* PUT, archiving, purging) and the storage mutex of storage_manager.cpp   *)
(* that keeps them apart.                                                  *)
(*                                                                         *)
(* One storage backend is active.  A file is the set of rows flushed to it;*)
(* the CSV header is left out.  A task that runs a whole SdLockGuard scope *)
(* without anything another task or a power cut can tell apart does it in  *)
(* one action; QueueCurrentLogForUpload and AppendMeteoLog, which rename   *)
(* and then go on, take the lock in one action and release it in a later   *)
(* one.  rename() and remove() are atomic and rename() refuses an existing *)
(* destination, as FatFs does.                                             *)
(***************************************************************************)
EXTENDS Integers

CONSTANTS DataName,    \* names BuildLogFilename can produce
          MeteoName,   \* names MeteoFilename can produce
          Row,         \* CSV rows, each flushed at most once
          Caller,      \* tasks that start, stop, rotate or download: log_task, HTTP, MQTT
          Meteo,       \* the WN90LP task
          None,        \* no file, no holder
          FreshNames,  \* TRUE: the clock never hands out a file name twice
          MaxCrash     \* bound on the restarts explored

ASSUME PipelineAssumption ==
  /\ DataName \cap MeteoName = {}
  /\ None \notin DataName \cup MeteoName \cup Caller /\ None # Meteo
  /\ Meteo \notin Caller
  /\ FreshNames \in BOOLEAN /\ MaxCrash \in Nat

Name == DataName \cup MeteoName
Task == Caller \cup {Meteo}
Dir  == {"root", "to_upload", "uploaded"}

VARIABLES names,      \* names[d]: the files in directory d
          rows,       \* rows[d][n]: the rows of the file n in d, {} if there is none
          bucket,     \* bucket[n]: the rows of the MinIO object of n
          lock,       \* holder of s_sd_mutex
          at, job,    \* where each task is, and what a caller is doing there
          logFile,    \* log_file: name behind the open handle
          logPath,    \* current_log_path
          meteoPath,  \* s_active_meteo_log_path
          up, upFile, upHash,  \* UploadTask: its step, its file, the hashed contents
          written,    \* history: rows whose flush returned
          used,       \* history: names ever created
          crashes

fs       == <<names, rows>>
uploader == <<up, upFile, upHash>>
loggers  == <<at, job, logFile, logPath>>
vars     == <<fs, bucket, lock, loggers, meteoPath, uploader, written, used, crashes>>

Steps   == {"idle", "open", "queue", "move", "sweep", "close", "hold", "write"}
Jobs    == {"none", "start", "stop", "rotate", "download"}
UpSteps == {"boot", "idle", "hash", "put", "archive", "cleanup"}

Init ==
  /\ names = [d \in Dir |-> {}]
  /\ rows = [d \in Dir |-> [n \in Name |-> {}]]
  /\ bucket = [n \in Name |-> {}]
  /\ lock = None
  /\ at = [t \in Task |-> "idle"]
  /\ job = [t \in Task |-> "none"]
  /\ logFile = None /\ logPath = None /\ meteoPath = None
  /\ up = "boot" /\ upFile = None /\ upHash = {}
  /\ written = {} /\ used = {}
  /\ crashes = 0

-----------------------------------------------------------------------------
(* The file system.                                                         *)

\* MoveFileToDir on each file of S: rename() fails on an existing destination,
\* so callers offer only files of Movable.
Movable(S, a, b) == (S \cap names[a]) \ names[b]

Move(S, a, b) ==
  /\ names' = [names EXCEPT ![a] = @ \ S, ![b] = @ \cup S]
  /\ rows' = [d \in Dir |-> [n \in Name |->
                CASE n \in S /\ d = a -> {}
                  [] n \in S /\ d = b -> rows[a][n]
                  [] OTHER            -> rows[d][n]]]

Remove(S, d) ==
  /\ names' = [names EXCEPT ![d] = @ \ S]
  /\ rows' = [rows EXCEPT ![d] = [n \in Name |-> IF n \in S THEN {} ELSE @[n]]]

\* A row appended to the file n of the root directory and flushed.
Append(n, r) ==
  /\ written' = written \cup {r}
  /\ rows' = IF n \in names'["root"]
             THEN [rows EXCEPT !["root"][n] = @ \cup {r}] ELSE rows

\* Fault: two files opened in the same second of the clock.
RepeatedName(n) == TRUE

\* BuildLogFilename and MeteoFilename build the name from the clock.
Unused(n) == FreshNames => n \notin used

-----------------------------------------------------------------------------
(* Callers: start, stop and rotate the data log, download files.            *)

Goto(t, j, s) == /\ at' = [at EXCEPT ![t] = s]
                 /\ job' = [job EXCEPT ![t] = j]

Begin(c, j, s) ==
  /\ at[c] = "idle" /\ Goto(c, j, s)
  /\ UNCHANGED <<fs, bucket, lock, logFile, logPath, meteoPath, uploader, written, used, crashes>>

StartLogging(c) == Begin(c, "start", "open")
StopLogging(c)  == Begin(c, "stop", "queue")
Rotate(c)       == logFile # None /\ Begin(c, "rotate", "queue")

\* A rotation ignores what the queueing returned and stops logging when no new
\* file opens; a stop falls back to closing the file.
OpenReturns(c, ok) ==
  IF job[c] = "rotate" /\ ~ok THEN Goto(c, "stop", "queue") ELSE Goto(c, "none", "idle")
QueueReturns(c, ok) ==
  IF job[c] = "rotate" THEN Goto(c, "rotate", "open")
  ELSE IF ok THEN Goto(c, "none", "idle") ELSE Goto(c, "stop", "close")

\* OpenLogFileWithPostfix creates a file, closing the handle it replaces.
OpenLog(c, n) ==
  /\ at[c] = "open" /\ lock = None
  /\ n \in DataName /\ Unused(n)
  /\ names' = [names EXCEPT !["root"] = @ \cup {n}]
  /\ rows' = [rows EXCEPT !["root"][n] = {}]
  /\ logFile' = n /\ logPath' = n
  /\ used' = used \cup {n}
  /\ OpenReturns(c, TRUE)
  /\ UNCHANGED <<bucket, lock, meteoPath, uploader, written, crashes>>

\* It fails: the mutex timed out or the mount failed (nothing is closed), or
\* fopen failed after the previous handle was closed.
OpenLogFails(c) ==
  /\ at[c] = "open"
  /\ \/ UNCHANGED logFile
     \/ lock = None /\ logFile' = None
  /\ OpenReturns(c, FALSE)
  /\ UNCHANGED <<fs, bucket, lock, logPath, meteoPath, uploader, written, used, crashes>>

\* log_task writes one row under the lock and flushes it.
WriteRow(r) ==
  /\ lock = None /\ logFile # None /\ r \notin written
  /\ UNCHANGED names
  /\ Append(logFile, r)
  /\ UNCHANGED <<bucket, lock, loggers, meteoPath, uploader, used, crashes>>

\* Fault: the log is queued without being closed.
QueueWithoutClose(c) ==
  /\ at[c] = "queue" /\ lock = None
  /\ IF logPath = None
     THEN QueueReturns(c, FALSE) /\ UNCHANGED lock
     ELSE lock' = c /\ at' = [at EXCEPT ![c] = "move"] /\ UNCHANGED job
  /\ UNCHANGED <<fs, bucket, logFile, logPath, meteoPath, uploader, written, used, crashes>>

\* QueueCurrentLogForUpload: take the lock, close the log.
QueueTake(c) ==
  /\ at[c] = "queue" /\ lock = None
  /\ logFile' = None
  /\ IF logPath = None
     THEN QueueReturns(c, FALSE) /\ UNCHANGED lock
     ELSE lock' = c /\ at' = [at EXCEPT ![c] = "move"] /\ UNCHANGED job
  /\ UNCHANGED <<fs, bucket, logPath, meteoPath, uploader, written, used, crashes>>

\* The mutex timed out or the mount failed.
QueueGivesUp(c) ==
  /\ at[c] = "queue"
  /\ QueueReturns(c, FALSE)
  /\ UNCHANGED <<fs, bucket, lock, logFile, logPath, meteoPath, uploader, written, used, crashes>>

\* Rename the closed log; only a success clears current_log_path.
QueueMove(c) ==
  /\ at[c] = "move"
  /\ \/ /\ Movable({logPath}, "root", "to_upload") # {}
        /\ Move({logPath}, "root", "to_upload")
        /\ logPath' = None
        /\ at' = [at EXCEPT ![c] = "sweep"]
        /\ UNCHANGED <<lock, job>>
     \/ /\ lock' = None
        /\ QueueReturns(c, FALSE)
        /\ UNCHANGED <<fs, logPath>>
  /\ UNCHANGED <<bucket, logFile, meteoPath, uploader, written, used, crashes>>

\* Fault: the sweep archives instead of queueing.
SweepToArchive(c) ==
  /\ at[c] = "sweep"
  /\ \E S \in SUBSET Movable(DataName, "root", "uploaded") : Move(S, "root", "uploaded")
  /\ lock' = None
  /\ QueueReturns(c, TRUE)
  /\ UNCHANGED <<bucket, logFile, logPath, meteoPath, uploader, written, used, crashes>>

\* MoveRootDataFilesToUploadLocked(""): every data file left in the root, then
\* the lock is released.  S is a subset because each rename may fail.
QueueSweep(c) ==
  /\ at[c] = "sweep"
  /\ \E S \in SUBSET Movable(DataName, "root", "to_upload") : Move(S, "root", "to_upload")
  /\ lock' = None
  /\ QueueReturns(c, TRUE)
  /\ UNCHANGED <<bucket, logFile, logPath, meteoPath, uploader, written, used, crashes>>

\* The fallback of StopLogging closes the handle with or without the lock.
StopClose(c) ==
  /\ at[c] = "close"
  /\ logFile' = None
  /\ Goto(c, "none", "idle")
  /\ UNCHANGED <<fs, bucket, lock, logPath, meteoPath, uploader, written, used, crashes>>

\* FsDownloadHandler holds the lock for as long as the client reads.
Download(c) ==
  /\ at[c] = "idle" /\ lock = None
  /\ lock' = c
  /\ Goto(c, "download", "hold")
  /\ UNCHANGED <<fs, bucket, logFile, logPath, meteoPath, uploader, written, used, crashes>>

DownloadEnds(c) ==
  /\ at[c] = "hold"
  /\ lock' = None
  /\ Goto(c, "none", "idle")
  /\ UNCHANGED <<fs, bucket, logFile, logPath, meteoPath, uploader, written, used, crashes>>

-----------------------------------------------------------------------------
(* AppendMeteoLog.                                                          *)

\* Take the lock, rotate if the hour changed (newHour), choose and register the
\* path.  A failed rename gives the attempt up; stat failing or an empty file
\* leaves the old file where it is.
MeteoRotate(newHour) ==
  /\ at[Meteo] = "idle" /\ lock = None
  /\ \/ /\ meteoPath # None /\ ~newHour
        /\ UNCHANGED <<fs, meteoPath>>
     \/ /\ \/ meteoPath = None /\ UNCHANGED fs
           \/ meteoPath # None /\ newHour /\ UNCHANGED fs
           \/ /\ meteoPath # None /\ newHour
              /\ Movable({meteoPath}, "root", "to_upload") # {}
              /\ Move({meteoPath}, "root", "to_upload")
        /\ \E n \in MeteoName : Unused(n) /\ n # meteoPath /\ meteoPath' = n
  /\ used' = used \cup {meteoPath'}
  /\ lock' = Meteo
  /\ at' = [at EXCEPT ![Meteo] = "write"]
  /\ UNCHANGED <<bucket, job, logFile, logPath, uploader, written, crashes>>

\* fopen(path, "a"), one row, fclose, release.
MeteoWrite(r) ==
  /\ at[Meteo] = "write" /\ r \notin written
  /\ names' = [names EXCEPT !["root"] = @ \cup {meteoPath}]
  /\ Append(meteoPath, r)
  /\ lock' = None
  /\ at' = [at EXCEPT ![Meteo] = "idle"]
  /\ UNCHANGED <<bucket, job, logFile, logPath, meteoPath, uploader, used, crashes>>

\* fopen or the write failed: the row was never flushed.
MeteoWriteFails ==
  /\ at[Meteo] = "write"
  /\ \/ UNCHANGED names
     \/ names' = [names EXCEPT !["root"] = @ \cup {meteoPath}]
  /\ lock' = None
  /\ at' = [at EXCEPT ![Meteo] = "idle"]
  /\ UNCHANGED <<rows, bucket, job, logFile, logPath, meteoPath, uploader, written, used, crashes>>

-----------------------------------------------------------------------------
(* UploadTask.                                                              *)

\* Fault: the boot sweep ignores the registry.
SweepActive ==
  /\ up = "boot" /\ up' = "idle"
  /\ \/ /\ lock = None
        /\ \E S \in SUBSET Movable(MeteoName, "root", "to_upload") : Move(S, "root", "to_upload")
     \/ lock # None /\ UNCHANGED fs
  /\ UNCHANGED <<bucket, lock, loggers, meteoPath, upFile, upHash, written, used, crashes>>

\* Two minutes after boot: queue the meteo files of earlier boots, never the
\* registered one.  A busy mutex skips it.
BootSweep ==
  /\ up = "boot" /\ up' = "idle"
  /\ \/ /\ lock = None
        /\ \E S \in SUBSET (Movable(MeteoName, "root", "to_upload") \ {meteoPath}) :
             Move(S, "root", "to_upload")
     \/ lock # None /\ UNCHANGED fs
  /\ UNCHANGED <<bucket, lock, loggers, meteoPath, upFile, upHash, written, used, crashes>>

\* UploadPendingOnce lists to_upload and works on the first name readdir gave.
Pick(n) ==
  /\ up = "idle" /\ lock = None
  /\ n \in names["to_upload"]
  /\ up' = "hash" /\ upFile' = n
  /\ UNCHANGED <<fs, bucket, lock, loggers, meteoPath, upHash, written, used, crashes>>

\* Sha256File reads the file without the lock.
Hash ==
  /\ up = "hash"
  /\ \/ /\ upFile \in names["to_upload"]
        /\ upHash' = rows["to_upload"][upFile]
        /\ up' = "put"
     \/ UNCHANGED upHash /\ up' = "cleanup"
  /\ UNCHANGED <<fs, bucket, lock, loggers, meteoPath, upFile, written, used, crashes>>

\* The file is read again, without the lock, into the PUT; MinIO stores only a
\* body whose digest is the signed one.
Stored == /\ upFile \in names["to_upload"]
          /\ rows["to_upload"][upFile] = upHash
          /\ bucket' = [bucket EXCEPT ![upFile] = rows["to_upload"][upFile]]

\* Faults: a stored file is never archived; a refused one is.
NeverArchived ==
  /\ up = "put" /\ up' = "cleanup"
  /\ Stored
  /\ UNCHANGED <<fs, lock, loggers, meteoPath, upFile, upHash, written, used, crashes>>
ArchivedAnyway ==
  /\ up = "put" /\ up' = "archive"
  /\ UNCHANGED <<fs, bucket, lock, loggers, meteoPath, upFile, upHash, written, used, crashes>>

PutAcked ==
  /\ up = "put" /\ up' = "archive"
  /\ Stored
  /\ UNCHANGED <<fs, lock, loggers, meteoPath, upFile, upHash, written, used, crashes>>

\* No 2xx seen: nothing was stored, or the answer was lost.
PutFails ==
  /\ up = "put" /\ up' = "cleanup"
  /\ \/ UNCHANGED bucket
     \/ Stored
  /\ UNCHANGED <<fs, lock, loggers, meteoPath, upFile, upHash, written, used, crashes>>

\* Move the uploaded file, under the lock, to uploaded/.
Archive ==
  /\ up = "archive" /\ up' = "cleanup"
  /\ lock = None
  /\ Movable({upFile}, "to_upload", "uploaded") # {}
  /\ Move({upFile}, "to_upload", "uploaded")
  /\ UNCHANGED <<bucket, lock, loggers, meteoPath, upFile, upHash, written, used, crashes>>

\* The mutex is busy or the rename failed: the file will be uploaded again.
ArchiveFails ==
  /\ up = "archive" /\ up' = "cleanup"
  /\ UNCHANGED <<fs, bucket, lock, loggers, meteoPath, upFile, upHash, written, used, crashes>>

\* CleanupUploadedDirIfNeeded purges uploaded/ when the card is too full; a busy
\* mutex skips it.
Cleanup ==
  /\ up = "cleanup" /\ up' = "idle"
  /\ upFile' = None /\ upHash' = {}
  /\ \/ lock = None /\ \E S \in SUBSET names["uploaded"] : Remove(S, "uploaded")
     \/ lock # None /\ UNCHANGED fs
  /\ UNCHANGED <<bucket, lock, loggers, meteoPath, written, used, crashes>>

\* Fault: the clear works on the queue.
ClearQueue ==
  /\ lock = None
  /\ \E S \in SUBSET names["to_upload"] : S # {} /\ Remove(S, "to_upload")
  /\ UNCHANGED <<bucket, lock, loggers, meteoPath, uploader, written, used, crashes>>

\* One batch of UploadedClearTask, on the operator's request.
ClearBatch ==
  /\ lock = None
  /\ \E S \in SUBSET names["uploaded"] : S # {} /\ Remove(S, "uploaded")
  /\ UNCHANGED <<bucket, lock, loggers, meteoPath, uploader, written, used, crashes>>

-----------------------------------------------------------------------------
\* Power cut, watchdog or requested restart: RAM is lost, the card stays.
Crash ==
  /\ crashes < MaxCrash
  /\ crashes' = crashes + 1
  /\ lock' = None
  /\ at' = [t \in Task |-> "idle"]
  /\ job' = [t \in Task |-> "none"]
  /\ logFile' = None /\ logPath' = None /\ meteoPath' = None
  /\ up' = "boot" /\ upFile' = None /\ upHash' = {}
  /\ UNCHANGED <<fs, bucket, written, used>>

Queue(c) == QueueTake(c) \/ QueueGivesUp(c) \/ QueueMove(c) \/ QueueSweep(c)
CallerStep(c) ==
  \/ StartLogging(c) \/ StopLogging(c) \/ Rotate(c)
  \/ (\E n \in DataName : OpenLog(c, n)) \/ OpenLogFails(c)
  \/ Queue(c) \/ StopClose(c)
  \/ Download(c) \/ DownloadEnds(c)
MeteoStep ==
  \/ \E h \in BOOLEAN : MeteoRotate(h)
  \/ (\E r \in Row : MeteoWrite(r)) \/ MeteoWriteFails
UploaderStep ==
  \/ BootSweep \/ (\E n \in Name : Pick(n)) \/ Hash
  \/ PutAcked \/ PutFails \/ Archive \/ ArchiveFails \/ Cleanup

Next == \/ \E c \in Caller : CallerStep(c)
        \/ \E r \in Row : WriteRow(r)
        \/ MeteoStep \/ UploaderStep \/ ClearBatch \/ Crash

Spec == Init /\ [][Next]_vars

\* The scheduler runs a task that has a step to take, so a task that entered a
\* function leaves it; the network and the card do not fail every attempt for
\* ever, and the mutex is not busy at every attempt to list or to archive.
Fairness ==
  /\ \A c \in Caller : /\ WF_vars(Queue(c)) /\ WF_vars(StopClose(c)) /\ WF_vars(DownloadEnds(c))
                       /\ WF_vars(OpenLogFails(c) \/ \E n \in DataName : OpenLog(c, n))
  /\ WF_vars(MeteoWriteFails \/ \E r \in Row : MeteoWrite(r))
  /\ WF_vars(UploaderStep)
  /\ SF_vars(\E n \in Name : Pick(n)) /\ SF_vars(up' = "put" /\ Hash)
  /\ SF_vars(PutAcked) /\ SF_vars(Archive)
  /\ []<>(up = "archive") => []<>(up = "archive" /\ lock = None)

FairSpec == Spec /\ Fairness

-----------------------------------------------------------------------------
TypeOK ==
  /\ names \in [Dir -> SUBSET Name]
  /\ rows \in [Dir -> [Name -> SUBSET Row]]
  /\ bucket \in [Name -> SUBSET Row]
  /\ lock \in Task \cup {None}
  /\ at \in [Task -> Steps] /\ job \in [Task -> Jobs]
  /\ logFile \in DataName \cup {None} /\ logPath \in DataName \cup {None}
  /\ meteoPath \in MeteoName \cup {None}
  /\ up \in UpSteps /\ upFile \in Name \cup {None} /\ upHash \in SUBSET Row
  /\ written \in SUBSET Row /\ used \in SUBSET Name
  /\ crashes \in 0..MaxCrash

\* Every row on the card, every row in MinIO.
OnCard  == {r \in Row : \E d \in Dir, n \in Name : r \in rows[d][n]}
InCloud == {r \in Row : \E n \in Name : r \in bucket[n]}

\* The pipeline implements the custody of rows: each step is a flush, a store, a
\* discard of stored rows, or nothing at all to the rows.
Custody == INSTANCE RowCustody WITH card <- OnCard, cloud <- InCloud
KeepsCustody == Custody!Spec

\* A row whose flush returned is never lost: it is in a file of the card or in
\* an object of MinIO, across failed renames, lost answers, purges and restarts
\* (QueueCurrentLogForUpload, UploadPendingOnce, CleanupUploadedDirIfNeeded).
NoRowLost == written \subseteq OnCard \cup InCloud

\* A log that is open is in the root directory: no sweep ever moves a file that
\* log_task still writes to, although QueueCurrentLogForUpload sweeps without an
\* exception for an active file.
OpenLogInRoot == logFile # None => logFile \in names["root"] /\ logFile = logPath

\* The meteo file of the registry is never queued or archived behind the back of
\* its writer (ActiveMeteoLogPathLocked and the boot sweep of UploadTask).
ActiveMeteoNotSwept ==
  meteoPath # None => meteoPath \notin names["to_upload"] \cup names["uploaded"]

\* A purge or a clear can only delete what is safe in MinIO: every row of a file
\* of uploaded/ is in the object of that file.
ArchivedIsStored == \A n \in names["uploaded"] : rows["uploaded"][n] \subseteq bucket[n]

\* UploadFileToMinio hashes and streams the file without the storage lock; the
\* file it works on neither moves nor changes under it.
UploadIsStable ==
  /\ up \in {"hash", "put", "archive"} => upFile \in names["to_upload"]
  /\ up = "put" => upHash = rows["to_upload"][upFile]

\* Files only travel forwards, root to to_upload to uploaded, and only a file
\* of uploaded/ disappears.
ForwardStep ==
  /\ \A n \in names["root"] : n \notin names'["root"] => n \in names'["to_upload"]
  /\ \A n \in names["to_upload"] : n \notin names'["to_upload"] => n \in names'["uploaded"]
  /\ \A n \in names'["uploaded"] \ names["uploaded"] : n \in names["to_upload"]
OnlyForward == [][ForwardStep]_vars

\* What NoRowLost rests on, inductive when names are fresh.  A file is in one
\* directory; a name no file ever had is free everywhere; an object holds nothing
\* of a file of the root and no more than the queued file.
Directories ==
  /\ \A d \in Dir, n \in Name : n \notin names[d] => rows[d][n] = {}
  /\ \A a, b \in Dir, n \in Name : n \in names[a] /\ n \in names[b] => a = b
FreeNames ==
  \A n \in Name : n \notin used => bucket[n] = {} /\ \A d \in Dir : n \notin names[d]
Objects ==
  /\ \A n \in names["root"] : bucket[n] = {}
  /\ \A n \in names["to_upload"] : bucket[n] \subseteq rows["to_upload"][n]
Storage == Directories /\ FreeNames /\ Objects /\ ArchivedIsStored /\ NoRowLost

\* The holder of the mutex in a critical section is the task that entered it,
\* with the log closed; the paths in RAM name files that were created; the file
\* about to be archived is stored.
Critical ==
  /\ \A c \in Caller : at[c] \in {"move", "sweep", "hold"} => lock = c
  /\ \A c \in Caller : at[c] \in {"move", "sweep"} => logFile = None
  /\ \A c \in Caller : at[c] = "move" => logPath # None
  /\ at[Meteo] = "write" => meteoPath # None /\ lock = Meteo
Pointers ==
  /\ logPath # None => logPath \in used
  /\ meteoPath # None => meteoPath \in used /\ bucket[meteoPath] = {}
  /\ up = "archive" => rows["to_upload"][upFile] = bucket[upFile]
Control == Critical /\ Pointers /\ OpenLogInRoot /\ ActiveMeteoNotSwept /\ UploadIsStable

CustodyInv == TypeOK /\ Storage /\ Control

\* Every queued file leaves to_upload, however often the PUT, its answer or the
\* archiving failed before.
QueuedIsArchived == \A n \in Name : n \in names["to_upload"] ~> n \notin names["to_upload"]

=============================================================================
