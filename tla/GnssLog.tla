------------------------------- MODULE GnssLog -------------------------------
(***************************************************************************)
(* GpsLogTask: the RTCM3 log that is appended to for an hour and then      *)
(* queued for the upload, while clients switch the storage backend and     *)
(* delete files, the uploader empties the queue and the device restarts.   *)
(* The task keeps the path of its file; the directory it queues to is that *)
(* of the backend active at the time.  What it does inside one SdLockGuard  *)
(* scope is one action.                                                     *)
(***************************************************************************)
EXTENDS Integers

CONSTANTS
  NoPath,     \* s_gnss_log_path is empty
  Stamp,      \* names made from a time; none is made twice
  MaxChange,  \* bound on switches, deletions and failed renames
  MaxBoot     \* bound on restarts

GnssAssumption == {MaxChange, MaxBoot} \subseteq Nat

Backend == {"sd", "flash"}

VARIABLES
  gfs,        \* GNSS files: records [b, d, n, full], full is FALSE for an empty one
  active,     \* app_config.storage_backend
  gpath,      \* s_gnss_log_path: [b, n] or NoPath
  due,        \* an hour has passed since s_gnss_log_start_us
  at,         \* the task's next step
  clock,      \* a valid time is known
  boot,       \* boot id
  gchanges

gvars == <<gfs, active, gpath, due, at, clock, boot, gchanges>>

Fallback == <<"gps_log", boot>>

Init ==
  /\ gfs = {} /\ active \in Backend
  /\ gpath = NoPath /\ due = FALSE /\ at = "start" /\ clock \in BOOLEAN
  /\ boot = 0 /\ gchanges = 0

GFile(b, d, n, full) == [b |-> b, d |-> d, n |-> n, full |-> full]
Called(b, d, n) == {f \in gfs : f.b = b /\ f.d = d /\ f.n = n}
Roots(b) == {f \in gfs : f.b = b /\ f.d = "root"}
\* A time is used once; reused here when no file of the backend bears it.
Free == {n \in Stamp : \A d \in {"root", "to_upload"} : Called(active, d, n) = {}}

\* A choice of the environment: a bounded number of times.
Changes == gchanges < MaxChange /\ gchanges' = gchanges + 1
Same == UNCHANGED gchanges

\* The flash stays mounted; the card, when it is not the active backend, may be.
Mounted(b) == IF b = active \/ b = "flash" THEN {TRUE} ELSE BOOLEAN

Sweepable(S) == {f \in S : Called(active, "to_upload", f.n) = {}}
Queued(S) == (gfs \ S) \cup {[f EXCEPT !.d = "to_upload"] : f \in S}

\* Fault: only what was left over at the start of the task is swept.
MoveNothing == gfs

(* MoveRootGpsFilesToUploadLocked(""): every GNSS file of the active root,  *)
(* unless the queue has one of its name.                                    *)
MoveRootGpsFilesToUpload == Queued(Sweepable(Roots(active)))

(* QueueCurrentGnssLogForUploadLocked: what it leaves as files and whether  *)
(* the path is given up.  A file that is not there or is empty is forgotten. *)
QueueCurrent ==
  LET mine == Called(gpath.b, "root", gpath.n)
  IN {[files |-> gfs, forgot |-> TRUE] : x \in {m \in Mounted(gpath.b) : ~m \/ mine = {}}}
     \cup {[files |-> gfs \ mine, forgot |-> TRUE] : x \in {f \in mine : ~f.full}}
     \cup {[files |-> Queued({f}), forgot |-> TRUE] : f \in {g \in Sweepable(mine) : g.full /\ g.b = active}}
     \cup {[files |-> gfs, forgot |-> FALSE] : x \in {g \in mine : g.full /\ (g.b # active \/ Sweepable({g}) = {})}}

\* BuildGnssLogFilename: the time of the frame or of the device, else the boot.
NewNames == IF clock THEN Free ELSE Free \cup {Fallback}

-----------------------------------------------------------------------------
(* GpsLogTask *)

Task(x) == UNCHANGED <<x, active, clock, boot>>

Start ==
  /\ at = "start" /\ at' = "top"
  /\ \/ gfs' = MoveRootGpsFilesToUpload /\ Same
     \/ UNCHANGED gfs /\ Changes
  /\ Task(<<gpath, due>>)

(* The rotation is tried before every frame. *)
NotDue == at = "top" /\ ~due /\ at' = "write" /\ Task(<<gfs, gpath, due, gchanges>>)

Rotate ==
  /\ at = "top" /\ due /\ at' = "write"
  /\ \E r \in QueueCurrent :
       /\ gfs' = r.files
       /\ IF r.forgot THEN gpath' = NoPath /\ due' = FALSE ELSE UNCHANGED <<gpath, due>>
  /\ Same /\ Task(<<>>)

\* The card is busy or absent, or the rename fails.
RotateFails == at = "top" /\ due /\ at' = "write" /\ Task(<<gfs, gpath, due, gchanges>>)

\* The receiver sent nothing of the types asked for, the card is busy, or
\* the file cannot be opened.
NoFrame == at = "write" /\ at' = "top" /\ Task(<<gfs, gpath, due, gchanges>>)

(* fopen() for appending creates the file that is not there. *)
Append(files, p) ==
  LET mine == {f \in files : f.b = p.b /\ f.d = "root" /\ f.n = p.n}
  IN (files \ mine) \cup {GFile(p.b, "root", p.n, TRUE)}

(* The first frame of a file: sweep, name, create, append.  The file may     *)
(* stay empty, or not be created at all, and keeps its name.                 *)
WriteFirst ==
  /\ at = "write" /\ gpath = NoPath /\ at' = "top"
  /\ \E n \in NewNames :
       LET p == [b |-> active, n |-> n]
           swept == MoveRootGpsFilesToUpload
           there == \E f \in swept : f.b = active /\ f.d = "root" /\ f.n = n
       IN /\ gpath' = p /\ due' = FALSE
          /\ \/ gfs' = Append(swept, p) /\ Same
             \/ gfs' = swept \cup (IF there THEN {} ELSE {GFile(active, "root", n, FALSE)}) /\ Changes
             \/ gfs' = swept /\ Changes
  /\ Task(<<>>)

Write ==
  /\ at = "write" /\ gpath # NoPath /\ ~due /\ at' = "top"
  /\ \E m \in Mounted(gpath.b) : gfs' = IF m THEN Append(gfs, gpath) ELSE gfs
  /\ Task(<<gpath, due, gchanges>>)

(* The hour ended while the frame was collected: no sweep here. *)
WriteDue ==
  /\ at = "write" /\ gpath # NoPath /\ due /\ at' = "top"
  /\ \E r \in QueueCurrent :
       IF r.forgot
       THEN \E n \in NewNames :
              LET p == [b |-> active, n |-> n] IN
              gpath' = p /\ due' = FALSE /\ gfs' = Append(r.files, p)
       ELSE gfs' = r.files /\ UNCHANGED <<gpath, due>>
  /\ Same /\ Task(<<>>)
-----------------------------------------------------------------------------
(* The others *)

HourPasses ==
  /\ gpath # NoPath /\ ~due /\ due' = TRUE
  /\ UNCHANGED <<gfs, active, gpath, at, clock, boot, gchanges>>

SetClock ==
  /\ ~clock /\ clock' = TRUE
  /\ UNCHANGED <<gfs, active, gpath, due, at, boot, gchanges>>

StorageApply ==
  /\ Changes /\ \E b \in Backend \ {active} : active' = b
  /\ UNCHANGED <<gfs, gpath, due, at, clock, boot>>

\* The handlers protect the active data log, not this one.
Delete ==
  /\ Changes /\ \E f \in gfs : gfs' = gfs \ {f}
  /\ UNCHANGED <<active, gpath, due, at, clock, boot>>

(* UploadTask: files leave the queue of the active backend, in a pass that   *)
(* meets no failure all of them.                                            *)
Queue == {f \in gfs : f.b = active /\ f.d = "to_upload"}

UploadTask ==
  /\ \E S \in SUBSET Queue \ {{}} : gfs' = gfs \ S
  /\ UNCHANGED <<active, gpath, due, at, clock, boot, gchanges>>

UploadsAll == UploadTask /\ gfs' = gfs \ Queue

Restart ==
  /\ boot < MaxBoot /\ boot' = boot + 1
  /\ gpath' = NoPath /\ due' = FALSE /\ at' = "start" /\ clock' \in BOOLEAN
  /\ UNCHANGED <<gfs, active, gchanges>>

AnyName == Stamp \cup {<<"gps_log", i>> : i \in 0..MaxBoot}
GpsLogTask ==
  Start \/ NotDue \/ Rotate \/ RotateFails \/ NoFrame \/ WriteFirst \/ Write \/ WriteDue

Next ==
  \/ GpsLogTask \/ HourPasses \/ SetClock \/ StorageApply \/ Delete \/ UploadTask \/ Restart

\* The hour ends while the task waits for the next frame and the last file
\* of the name is uploaded.
QuietHour == at = "top" /\ Called(active, "to_upload", gpath.n) = {} /\ HourPasses

(* The task runs.  The uploader, within an hour, a receiver that sends, a    *)
(* card that is free, a rename that works and a quiet hour come again and    *)
(* again.                                                                   *)
Fairness ==
  /\ WF_gvars(GpsLogTask) /\ SF_gvars(gpath # NoPath /\ QuietHour)
  /\ SF_gvars(Rotate /\ gpath' = NoPath) /\ SF_gvars(WriteFirst \/ Write \/ WriteDue)
  /\ SF_gvars(UploadsAll) /\ SF_gvars(at = "top" /\ ~due /\ UploadsAll)
-----------------------------------------------------------------------------
TypeOK ==
  /\ gfs \subseteq [b : Backend, d : {"root", "to_upload"}, n : AnyName, full : BOOLEAN]
  /\ active \in Backend /\ gpath \in [b : Backend, n : AnyName] \cup {NoPath}
  /\ due \in BOOLEAN /\ at \in {"start", "top", "write"} /\ clock \in BOOLEAN
  /\ boot \in 0..MaxBoot

(* The path names a backend that is no longer the active one: the rename of  *)
(* its file to the other file system fails every time.                       *)
Astray == gpath # NoPath /\ gpath.b # active

(* A file of the active root that nobody writes to, or whose hour is over.   *)
Waiting(n) == Called(active, "root", n) # {} /\ (due \/ gpath # [b |-> active, n |-> n])

(* Every GNSS file gets to the queue of the active backend: the one being    *)
(* written after its hour, and what a restart, a failed rename or a queue    *)
(* that held its name left behind; unless the backend was switched under    *)
(* the file being written.                                                  *)
QueuedInTurn(n) == Waiting(n) ~> (Astray \/ ~Waiting(n))

(* An hour that ends after a switch under the file still ends it.            *)
RotatesAnyway == (Astray /\ due) ~> ~(Astray /\ due)
=============================================================================
