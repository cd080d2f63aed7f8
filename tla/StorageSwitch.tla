---------------------------- MODULE StorageSwitch ----------------------------
(***************************************************************************)
(* Two storage backends, the SD card and the internal flash: the HTTP      *)
(* handlers that switch between them, move the upload queue from one to    *)
(* the other and list or delete files, next to a client that starts and    *)
(* stops logging over MQTT and to UploadTask.                              *)
(*                                                                         *)
(* httpd runs one handler at a time.  A file is a place [b, d, n] and the  *)
(* state of its contents: whole, part (cut off), or growing while a copy   *)
(* is being written.  What a handler does inside one SdLockGuard scope is  *)
(* one action, except the transfer, which a power cut or a failing card    *)
(* can stop anywhere.                                                      *)
(***************************************************************************)
EXTENDS Integers, SequencesExt

CONSTANTS
  Name,            \* names of data files; BuildLogFilename never repeats one
  None,
  Partition,       \* the partitions of the flash chip
  ConfigText,      \* the config.txt that is kept in NVS
  MaxFiles,        \* bound of one transfer, 25 at most
  LastWriteFails,  \* TRUE: fclose() of a copy may fail, which is not noticed
  MaxDelete,       \* bound on the deletions a client asks for
  MaxFault         \* bound on the failures: moves, copies, the power

ASSUME SwitchAssumption == MaxFiles \in Nat \ {0} /\ LastWriteFails \in BOOLEAN /\ MaxFault \in Nat /\ MaxDelete \in Nat
\* A list tells them by type and area.
ASSUME PartitionAssumption ==
  IsFiniteSet(Partition) /\ Partition \cap Name = {} /\ ConfigText \notin Partition \cup Name

Backend == {"sd", "flash"}
Dir == {"root", "to_upload", "uploaded"}
Other(b) == CHOOSE x \in Backend : x # b

VARIABLES
  fs,             \* the files: records [b, d, n, c]
  backend,        \* app_config.storage_backend
  log, logPath,   \* the open log and current_log_path: [b, n] or None
  busy,           \* TRUE while a transfer holds s_sd_mutex
  http,           \* the handler: its step and what it works on
  up, upFile,     \* UploadTask: its step and its file (hashing is in UploadPipeline)
  stored,         \* history: files MinIO has acknowledged whole
  used, deleted,  \* history: names ever created, names a client deleted
  faults

files    == <<fs, stored, used, deleted>>
logger   == <<log, logPath>>
uploader == <<up, upFile>>
vars     == <<files, backend, logger, busy, http, uploader, faults>>

Idle == [at |-> "idle", b |-> "sd", n |-> None, seen |-> None, scanned |-> {}]

Init ==
  /\ fs = {} /\ stored = {} /\ used = {} /\ deleted = {}
  /\ backend = "sd"
  /\ log = None /\ logPath = None /\ busy = FALSE
  /\ http = Idle
  /\ up = "idle" /\ upFile = None
  /\ faults = 0

File(b, d, n, c) == [b |-> b, d |-> d, n |-> n, c |-> c]
\* A rename, a write or the power fails.
Failure == faults < MaxFault /\ faults' = faults + 1
Fine == UNCHANGED faults

At(b, d, n) == {f \in fs : f.b = b /\ f.d = d /\ f.n = n}
In(b, d) == {f \in fs : f.b = b /\ f.d = d}

\* MoveFileToDir for the files of S: rename() refuses an existing destination
\* and another file system.
Movable(S, b, d) == {f \in S : f.b = b /\ At(b, d, f.n) = {}}
Moved(S, d) == (fs \ S) \cup {[f EXCEPT !.d = d] : f \in S}
-----------------------------------------------------------------------------
(* Logging, by MQTT.                                                        *)

StartLog(n) ==
  /\ log = None /\ ~busy /\ n \notin used
  /\ fs' = fs \cup {File(backend, "root", n, "whole")}
  /\ log' = [b |-> backend, n |-> n] /\ logPath' = log'
  /\ used' = used \cup {n}
  /\ UNCHANGED <<stored, deleted, backend, busy, http, uploader, faults>>

\* The log is closed; when its rename succeeds, the other data files of the
\* active root follow it, each unless its own rename fails.
StopLog ==
  /\ log # None /\ ~busy
  /\ log' = None
  /\ LET mine == Movable(At(logPath.b, "root", logPath.n), backend, "to_upload")
         all == Movable(In(backend, "root"), backend, "to_upload")
     IN \/ /\ mine # {} /\ fs' = Moved(all, "to_upload") /\ logPath' = None /\ Fine
        \/ /\ mine # {} /\ all # mine /\ fs' = Moved(mine, "to_upload") /\ logPath' = None /\ Failure
        \/ mine = {} /\ UNCHANGED <<fs, logPath>> /\ Fine
        \/ mine # {} /\ UNCHANGED <<fs, logPath>> /\ Failure
  /\ UNCHANGED <<stored, used, deleted, backend, busy, http, uploader>>
-----------------------------------------------------------------------------
(* HTTP: switching.                                                         *)

Keeps(x) == UNCHANGED <<x, logger, uploader>>

\* The request is refused while logging.  What follows waits up to two seconds
\* for the mutex, and the check is not repeated.
CheckStopped(step, b) ==
  /\ http.at = "idle" /\ log = None
  /\ http' = [Idle EXCEPT !.at = step, !.b = b]
  /\ Keeps(<<files, backend, busy, faults>>)

\* The configuration is then saved; what a failed save leaves is in ConfigStore.
StorageApply ==
  /\ http.at = "switch"
  /\ backend' = http.b
  /\ http' = Idle
  /\ Keeps(<<files, busy, faults>>)
-----------------------------------------------------------------------------
(* HTTP: TransferUploadQueueHandler from http.b to the other backend.       *)

TransferBegin ==
  /\ http.at = "transfer" /\ ~busy
  /\ busy' = TRUE /\ http' = [http EXCEPT !.at = "scan"]
  /\ Keeps(<<files, backend, faults>>)

\* A file that the other queue has already is left where it is, and counts.
Present == {f \in In(http.b, "to_upload") : At(Other(http.b), "to_upload", f.n) # {} /\ f.n \notin http.scanned}
Absent  == {f \in In(http.b, "to_upload") : At(Other(http.b), "to_upload", f.n) = {} /\ f.n \notin http.scanned}

CopyStarts ==
  /\ http.at = "scan" /\ Cardinality(http.scanned) < MaxFiles
  /\ \E f \in Absent :
       /\ fs' = fs \cup {File(Other(http.b), "to_upload", f.n, "growing")}
       /\ http' = [http EXCEPT !.at = "copy", !.n = f.n, !.scanned = @ \cup {f.n}]
  /\ Keeps(<<stored, used, deleted, backend, busy, faults>>)

Copy == At(Other(http.b), "to_upload", http.n)
Source == At(http.b, "to_upload", http.n)

\* Fault: what fread, fwrite and fflush return is ignored.
CopyUnchecked ==
  /\ http.at = "copy" /\ http' = [http EXCEPT !.at = "scan", !.n = None]
  /\ \E c \in {"whole", "part"} : fs' = (fs \ (Copy \cup Source)) \cup {[f EXCEPT !.c = c] : f \in Copy}
  /\ Keeps(<<stored, used, deleted, backend, busy, faults>>)

\* A read, a write or the flush fails: the copy is removed, unless the card
\* that failed fails this as well.
CopyFails ==
  \E kept \in {{}, {[f EXCEPT !.c = "part"] : f \in Copy}} : fs' = (fs \ Copy) \cup kept

\* The copy is closed, and what fclose() returns is ignored; then the source
\* is removed, or stays and the file counts as failed.
CopySucceeds(c, gone) ==
  fs' = (fs \ (Copy \cup gone)) \cup {[f EXCEPT !.c = IF c = "part" THEN c ELSE g.c] : f \in Copy, g \in Source}

CopyFileThenRemove ==
  /\ http.at = "copy" /\ http' = [http EXCEPT !.at = "scan", !.n = None]
  /\ \/ CopySucceeds("whole", Source) /\ Fine
     \/ (CopyFails \/ CopySucceeds("whole", {})) /\ Failure
     \/ LastWriteFails /\ CopySucceeds("part", Source) /\ Failure
  /\ Keeps(<<stored, used, deleted, backend, busy>>)

TransferReturns ==
  /\ http.at = "scan"
  /\ Absent = {} \/ Cardinality(http.scanned \cup {f.n : f \in Present}) >= MaxFiles
  /\ busy' = FALSE /\ http' = Idle
  /\ Keeps(<<files, backend, faults>>)
-----------------------------------------------------------------------------
(* HTTP: deleting.  A client asks for a file it has seen in a list.         *)

\* FsDeleteHandler works on the card.  It recognises the active log by its
\* name, in a state copy made before the body was received.
FsDeleteAsk ==
  /\ http.at = "idle" /\ Cardinality(deleted) < MaxDelete
  /\ \E f \in {g \in fs : g.b = "sd"} :
       http' = [at |-> "delete", b |-> f.d, n |-> f.n, seen |-> IF log = None THEN None ELSE log.n, scanned |-> {}]
  /\ Keeps(<<files, backend, busy, faults>>)

\* Fault: the log that is being written is not recognised.
Anything == TRUE

NotActiveLog == http.n # http.seen

FsDelete ==
  /\ http.at = "delete" /\ ~busy
  /\ http' = Idle
  /\ IF NotActiveLog /\ At("sd", http.b, http.n) # {}
     THEN fs' = fs \ At("sd", http.b, http.n) /\ deleted' = deleted \cup {http.n}
     ELSE UNCHANGED <<fs, deleted>>
  /\ Keeps(<<stored, used, backend, busy, faults>>)

\* FlashDeleteHandler compares with current_log_path inside the guard.
FlashDelete ==
  /\ http.at = "idle" /\ ~busy /\ Cardinality(deleted) < MaxDelete
  /\ \E f \in {g \in fs : g.b = "flash"} :
       /\ f.d = "root" => logPath # [b |-> "flash", n |-> f.n]
       /\ fs' = fs \ {f} /\ deleted' = deleted \cup {f.n}
  /\ UNCHANGED http
  /\ Keeps(<<stored, used, backend, busy, faults>>)

\* All of them, or some when removing one fails: one file at a time.
FlashClearUploaded ==
  /\ http.at = "idle" /\ ~busy
  /\ \E f \in In("flash", "uploaded") : fs' = fs \ {f}
  /\ UNCHANGED http
  /\ Keeps(<<stored, used, deleted, backend, busy, faults>>)

\* FsDownloadHandler and FlashDownloadHandler hold the mutex for as long as the
\* client reads.
Download ==
  /\ http.at = "idle" /\ ~busy /\ fs # {}
  /\ \E f \in fs : http' = [Idle EXCEPT !.at = "send", !.b = f.b]
  /\ busy' = TRUE
  /\ Keeps(<<files, backend, faults>>)

DownloadEnds ==
  /\ http.at = "send" /\ busy' = FALSE /\ http' = Idle
  /\ Keeps(<<files, backend, faults>>)
-----------------------------------------------------------------------------
(* UploadTask keeps the path it found in the queue; the directory it        *)
(* archives to is that of the backend active after the PUT.                 *)

Rest(x) == UNCHANGED <<x, backend, logger, busy, http, used, deleted>>

Pick ==
  /\ up = "idle" /\ ~busy
  /\ \E f \in In(backend, "to_upload") : upFile' = [b |-> f.b, n |-> f.n]
  /\ up' = "put"
  /\ Rest(<<fs, stored, faults>>)

Uploading == At(upFile.b, "to_upload", upFile.n)

\* MinIO stores only what has the announced digest: not what is growing.
PutAcked ==
  /\ up = "put"
  /\ \E f \in Uploading : f.c # "growing" /\ stored' = stored \cup (IF f.c = "whole" THEN {f.n} ELSE {})
  /\ up' = "archive"
  /\ Rest(<<fs, upFile, faults>>)

PutFails ==
  /\ up = "put" /\ up' = "idle" /\ upFile' = None
  /\ Rest(<<fs, stored, faults>>)

Archive ==
  /\ up = "archive" /\ up' = "idle" /\ upFile' = None
  /\ \/ ~busy /\ fs' = Moved(Movable(Uploading, backend, "uploaded"), "uploaded") /\ Fine
     \/ UNCHANGED fs /\ Failure
  /\ Rest(stored)

\* CleanupUploadedDirIfNeeded ends the cycle.
Cleanup ==
  /\ up = "idle" /\ ~busy
  /\ \E f \in In(backend, "uploaded") : fs' = fs \ {f}
  /\ Rest(<<stored, up, upFile, faults>>)

Crash ==
  /\ Failure
  /\ fs' = {[f EXCEPT !.c = IF @ = "growing" THEN "part" ELSE @] : f \in fs}
  /\ log' = None /\ logPath' = None /\ busy' = FALSE /\ http' = Idle
  /\ up' = "idle" /\ upFile' = None
  /\ UNCHANGED <<backend, stored, used, deleted>>

Handler ==
  \/ StorageApply \/ FsDelete \/ DownloadEnds
  \/ TransferBegin \/ CopyStarts \/ CopyFileThenRemove \/ TransferReturns
Ask ==
  \/ \E b \in Backend : CheckStopped("switch", b) \/ CheckStopped("transfer", b)
  \/ FsDeleteAsk \/ Download \/ FlashDelete \/ FlashClearUploaded
UploadTask == Pick \/ PutAcked \/ PutFails \/ Archive \/ Cleanup

Next == (\E n \in Name : StartLog(n)) \/ StopLog \/ Handler \/ Ask \/ UploadTask \/ Crash

Spec == Init /\ [][Next]_vars
-----------------------------------------------------------------------------
(* FsListHandler and FlashListHandler: the entries in order, cut into       *)
(* pages; a page beyond the last is the first.                              *)

\* Fault: the last, incomplete page is not counted.
FullPages(total, size) == total \div size

TotalPages(total, size) == (total + size - 1) \div size

Reply(entries, page, size) ==
  LET total == Len(entries)
      start == IF page * size >= total THEN 0 ELSE page * size
  IN [pages |-> TotalPages(total, size),
      entries |-> SubSeq(entries, start + 1, IF start + size > total THEN total ELSE start + size)]

NamesIn(b, d) == {f.n : f \in In(b, d)}

\* Whatever keeps this one from reading the directory is answered with an error.
FsList(d, page, size) == Reply(SetToSeq(NamesIn("sd", d)), page, size)

\* The root of the flash list has the partitions and the configuration in NVS
\* next to the files.
Beside(d, config) == IF d = "root" THEN Partition \cup {c \in {ConfigText} : config} ELSE {}

\* The files are left out, and the answer is a list all the same, when the mutex
\* timed out or the file system did not mount or the directory did not open.
FlashList(d, page, size, read, config) ==
  Reply(SetToSeq({n \in NamesIn("flash", d) : read} \cup Beside(d, config)), page, size)

List(b, d, page, size, read, config) ==
  IF b = "sd" THEN FsList(d, page, size) ELSE FlashList(d, page, size, read, config)
-----------------------------------------------------------------------------
FileType == [b : Backend, d : Dir, n : Name, c : {"whole", "part", "growing"}]
LogType  == [b : Backend, n : Name]

TypeOK ==
  /\ fs \subseteq FileType
  /\ \A f, g \in fs : f.b = g.b /\ f.d = g.d /\ f.n = g.n => f = g
  /\ backend \in Backend /\ busy \in BOOLEAN
  /\ log \in LogType \cup {None} /\ logPath \in LogType \cup {None}
  /\ http \in [at : {"idle", "switch", "transfer", "scan", "copy", "delete", "send"}, b : Backend \cup Dir,
               n : Name \cup {None}, seen : Name \cup {None}, scanned : SUBSET Name]
  /\ up \in {"idle", "put", "archive"} /\ upFile \in LogType \cup {None}
  /\ up # "idle" => upFile \in LogType
  /\ stored \subseteq Name /\ used \subseteq Name /\ deleted \subseteq Name

(* Whatever is moved between backends, cut off, switched or purged in any   *)
(* order, a log that no client deleted is whole on one of the backends or   *)
(* MinIO has acknowledged it whole.                                         *)
Kept ==
  \A n \in used \ deleted :
    n \in stored \/ \E f \in fs : f.n = n /\ f.c = "whole"

(* The log that is being written is never taken away from its writer, not   *)
(* by a deletion whose state copy is from before the body was received, not *)
(* by a sweep after the backend was switched under it.                      *)
OpenLogKept == log # None => At(log.b, "root", log.n) # {} /\ log = logPath

(* Why both hold.  A file of the root is the only one of its name, since a  *)
(* transfer copies from the queue.  What is whole in uploaded/ was stored.  *)
(* When UploadTask has sent a cut-off copy, the whole one is in the other   *)
(* queue, and each keeps the transfer from touching the other.              *)
Places ==
  /\ \A f \in fs : f.n \in used
  /\ \A f, g \in fs : f.d = "root" /\ g.n = f.n => g = f
  /\ \A f \in fs : f.d = "uploaded" /\ f.c = "whole" => f.n \in stored \cup deleted

SentOrCut ==
  up = "archive" /\ upFile.n \notin stored \cup deleted
    => /\ File(upFile.b, "to_upload", upFile.n, "part") \in fs
       /\ File(Other(upFile.b), "to_upload", upFile.n, "whole") \in fs

Handling ==
  /\ http.at \in {"transfer", "scan", "copy", "switch", "send"} => http.b \in Backend
  /\ http.at \in {"scan", "copy"} => busy
  /\ http.at = "copy" => Copy # {} /\ \A f \in Copy : f.c = "growing"
  /\ http.at = "delete" => /\ http.n \in used
                           /\ log # None /\ log.n = http.n => http.seen = log.n

SwitchInv == TypeOK /\ Kept /\ OpenLogKept /\ Places /\ SentOrCut /\ Handling

(* The pages of a list, when each request for one read the directory, show  *)
(* every file of it once, and in the root of the flash every partition and  *)
(* the configuration in NVS that there is.  Requests to the flash that could *)
(* not read the directory show the latter once, and no file.  (httpd runs a *)
(* handler at a time, so a list is asked for when no other one runs.)       *)
PagesCover == http.at = "idle" =>
  \A b \in Backend, d \in Dir, size \in 1..3, read, config \in BOOLEAN :
    LET Page(p) == List(b, d, p, size, read, config)
        shown == FlattenSeq([p \in 1..Page(0).pages |-> Page(p - 1).entries])
        there == {n \in NamesIn(b, d) : read} \cup (IF b = "flash" THEN Beside(d, config) ELSE {})
    IN b = "flash" \/ read => Range(shown) = there /\ Len(shown) = Cardinality(there)

(* http_handlers.cpp:2334 says "Stop logging before switching storage".     *)
SwitchedWhenStopped == [][backend' # backend /\ faults' = faults => log = None]_vars
=============================================================================
