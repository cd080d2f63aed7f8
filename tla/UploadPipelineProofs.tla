------------------------ MODULE UploadPipelineProofs ------------------------
(***************************************************************************)
(* Proofs about UploadPipeline for every set of names, rows and callers.   *)
(***************************************************************************)
EXTENDS UploadPipeline, TLAPS

(* TypeOK is inductive once the meteo writer is known to have chosen a path.  *)
Typed == TypeOK /\ (at[Meteo] = "write" => meteoPath # None)

(* Every step preserves the types. *)
LEMMA TypedStep == ASSUME Typed, [Next]_vars PROVE Typed'
<1> USE PipelineAssumption
<1> USE DEF Typed, TypeOK, Dir, Name, Task, Steps, Jobs, UpSteps, fs, uploader, loggers
<1>1. ASSUME NEW c \in Caller, StartLogging(c) \/ StopLogging(c) \/ Rotate(c) PROVE Typed'
  BY <1>1 DEF StartLogging, StopLogging, Rotate, Begin, Goto
<1>2. ASSUME NEW c \in Caller, NEW n \in DataName, OpenLog(c, n) PROVE Typed'
  BY <1>2 DEF OpenLog, OpenReturns, Goto
<1>3. ASSUME NEW c \in Caller, OpenLogFails(c) PROVE Typed'
  BY <1>3 DEF OpenLogFails, OpenReturns, Goto
<1>4. ASSUME NEW c \in Caller, QueueTake(c) \/ QueueGivesUp(c) PROVE Typed'
  BY <1>4 DEF QueueTake, QueueGivesUp, QueueReturns, Goto
<1>5. ASSUME NEW c \in Caller, QueueMove(c) PROVE Typed'
  BY <1>5 DEF QueueMove, QueueReturns, Goto, Move, Movable
<1>6. ASSUME NEW c \in Caller, QueueSweep(c) PROVE Typed'
  BY <1>6 DEF QueueSweep, QueueReturns, Goto, Move, Movable
<1>7. ASSUME NEW c \in Caller, StopClose(c) \/ Download(c) \/ DownloadEnds(c) PROVE Typed'
  BY <1>7 DEF StopClose, Download, DownloadEnds, Goto
<1>8. ASSUME NEW r \in Row, WriteRow(r) PROVE Typed'
  <2>1. names' = names /\ logFile \in Name /\ written' = written \cup {r}
    BY <1>8 DEF WriteRow, Append
  <2>2. rows' \in [Dir -> [Name -> SUBSET Row]]
    <3>1. rows' = rows \/ rows' = [rows EXCEPT !["root"][logFile] = @ \cup {r}]
      BY <1>8 DEF WriteRow, Append
    <3>2. QED
      BY <2>1, <3>1
  <2>3. UNCHANGED <<bucket, lock, at, job, logFile, logPath, meteoPath, up, upFile, upHash, used, crashes>>
    BY <1>8 DEF WriteRow
  <2>4. QED
    BY <2>1, <2>2, <2>3
<1>9. ASSUME NEW h \in BOOLEAN, MeteoRotate(h) PROVE Typed'
  BY <1>9 DEF MeteoRotate, Move, Movable
<1>10. ASSUME NEW r \in Row, MeteoWrite(r) PROVE Typed'
  <2>1. written' = written \cup {r} /\ meteoPath \in Name
    BY <1>10 DEF MeteoWrite, Append
  <2>2. names' \in [Dir -> SUBSET Name]
    BY <1>10 DEF MeteoWrite
  <2>3. rows' \in [Dir -> [Name -> SUBSET Row]]
    BY <1>10, <2>2 DEF MeteoWrite, Append
  <2>4. QED
    BY <1>10, <2>1, <2>2, <2>3 DEF MeteoWrite
<1>11. CASE MeteoWriteFails
  <2>1. names' \in [Dir -> SUBSET Name]
    BY <1>11 DEF MeteoWriteFails
  <2>2. QED
    BY <1>11, <2>1 DEF MeteoWriteFails
<1>12. CASE BootSweep
  BY <1>12 DEF BootSweep, Move, Movable
<1>13. ASSUME NEW n \in Name, Pick(n) PROVE Typed'
  BY <1>13 DEF Pick
<1>14. CASE Hash \/ PutAcked \/ PutFails
  BY <1>14 DEF Hash, PutAcked, PutFails, Stored
<1>15. CASE Archive \/ ArchiveFails
  BY <1>15 DEF Archive, ArchiveFails, Move, Movable
<1>16. CASE Cleanup \/ ClearBatch
  BY <1>16 DEF Cleanup, ClearBatch, Remove
<1>17. CASE Crash
  BY <1>17 DEF Crash
<1>18. CASE UNCHANGED vars
  BY <1>18 DEF vars
<1>19. QED
  BY <1>1, <1>2, <1>3, <1>4, <1>5, <1>6, <1>7, <1>8, <1>9, <1>10, <1>11, <1>12,
     <1>13, <1>14, <1>15, <1>16, <1>17, <1>18
     DEF Next, CallerStep, Queue, MeteoStep, UploaderStep

(* The types hold whatever the clock does. *)
THEOREM TypeCorrect == Spec => []TypeOK
<1>1. Init => Typed
  BY PipelineAssumption DEF Init, Typed, TypeOK, Dir, Name, Task, Steps, Jobs, UpSteps
<1>2. Typed /\ [Next]_vars => Typed'
  BY TypedStep
<1>3. QED
  BY <1>1, <1>2, PTL DEF Spec, Typed

-----------------------------------------------------------------------------
(* Moving a set of files, file by file. *)
LEMMA MoveFacts ==
  ASSUME TypeOK, NEW S \in SUBSET Name, NEW a \in Dir, NEW b \in Dir, a # b, Move(S, a, b)
  PROVE  /\ names'[a] = names[a] \ S /\ names'[b] = names[b] \cup S
         /\ \A d \in Dir \ {a, b} : names'[d] = names[d]
         /\ \A n \in S : rows'[a][n] = {} /\ rows'[b][n] = rows[a][n]
         /\ \A n \in S, d \in Dir \ {a, b} : rows'[d][n] = rows[d][n]
         /\ \A n \in Name \ S, d \in Dir : rows'[d][n] = rows[d][n]
<1>1. /\ names'[a] = names[a] \ S /\ names'[b] = names[b] \cup S
      /\ \A d \in Dir \ {a, b} : names'[d] = names[d]
  BY DEF TypeOK, Move
<1>2. \A d \in Dir, n \in Name :
        rows'[d][n] = CASE n \in S /\ d = a -> {} [] n \in S /\ d = b -> rows[a][n] [] OTHER -> rows[d][n]
  BY DEF Move
<1>3. QED
  BY <1>1, <1>2

(* A rename never loses a row. *)
LEMMA MoveKeepsCard ==
  ASSUME TypeOK, TypeOK', Directories, NEW S \in SUBSET Name, NEW a \in Dir, NEW b \in Dir, a # b,
         S \subseteq Movable(S, a, b), Move(S, a, b)
  PROVE  OnCard' = OnCard /\ Directories'
<1>1. /\ names'[a] = names[a] \ S /\ names'[b] = names[b] \cup S
      /\ \A d \in Dir \ {a, b} : names'[d] = names[d]
      /\ \A n \in S : rows'[a][n] = {} /\ rows'[b][n] = rows[a][n]
      /\ \A n \in S, d \in Dir \ {a, b} : rows'[d][n] = rows[d][n]
      /\ \A n \in Name \ S, d \in Dir : rows'[d][n] = rows[d][n]
  BY MoveFacts
<1>2. \A n \in S : n \in names[a] /\ n \notin names[b] /\ rows[b][n] = {}
  BY DEF Movable, Directories
<1>3. Directories'
  BY <1>1, <1>2 DEF Directories
<1>4. ASSUME NEW r \in OnCard PROVE r \in OnCard'
  <2>1. PICK d \in Dir, n \in Name : r \in rows[d][n]
    BY DEF OnCard
  <2>2. CASE n \in S /\ d = a
    BY <1>1, <2>1, <2>2 DEF OnCard
  <2>3. CASE n \notin S \/ d # a
    BY <1>1, <1>2, <2>1, <2>3 DEF OnCard
  <2>4. QED
    BY <2>2, <2>3
<1>5. ASSUME NEW r \in OnCard' PROVE r \in OnCard
  <2>1. PICK d \in Dir, n \in Name : r \in rows'[d][n]
    BY DEF OnCard
  <2>2. CASE n \in S /\ d = b
    BY <1>1, <2>1, <2>2 DEF OnCard
  <2>3. CASE n \notin S \/ d # b
    BY <1>1, <1>2, <2>1, <2>3 DEF OnCard
  <2>4. QED
    BY <2>2, <2>3
<1>6. QED
  BY <1>3, <1>4, <1>5 DEF OnCard

-----------------------------------------------------------------------------
(* A step that leaves card, bucket and histories alone keeps the storage facts. *)
LEMMA QuietStorage ==
  ASSUME Storage, UNCHANGED <<names, rows, bucket, written, used>> PROVE Storage'
BY DEF Storage, Directories, FreeNames, Objects, ArchivedIsStored, NoRowLost, OnCard, InCloud

(* Callers that do not touch the card: they close, wait, take or give the lock. *)
LEMMA QuietCaller ==
  ASSUME CustodyInv, NEW c \in Caller,
         \/ StartLogging(c) \/ StopLogging(c) \/ Rotate(c) \/ OpenLogFails(c)
         \/ QueueTake(c) \/ QueueGivesUp(c) \/ StopClose(c) \/ Download(c) \/ DownloadEnds(c)
  PROVE  Storage' /\ Control'
<1> USE PipelineAssumption
<1>1. UNCHANGED <<names, rows, bucket, written, used, logPath, meteoPath, up, upFile, upHash>>
  BY DEF StartLogging, StopLogging, Rotate, Begin, OpenLogFails, QueueTake, QueueGivesUp,
         StopClose, Download, DownloadEnds, fs, uploader
<1>2. Storage'
  BY <1>1, QuietStorage DEF CustodyInv
<1>3. logFile' \in {logFile, None}
  BY DEF StartLogging, StopLogging, Rotate, Begin, OpenLogFails, QueueTake, QueueGivesUp,
         StopClose, Download, DownloadEnds
<1>4. Pointers' /\ OpenLogInRoot' /\ ActiveMeteoNotSwept' /\ UploadIsStable'
  BY <1>1, <1>3 DEF CustodyInv, Control, Pointers, OpenLogInRoot, ActiveMeteoNotSwept, UploadIsStable
<1>5. /\ \A t \in Task \ {c} : at'[t] = at[t]
      /\ at'[c] \in {"idle", "open", "queue", "close", "hold", "move"}
      /\ at'[c] = "hold" => lock' = c
      /\ at'[c] = "move" => lock' = c /\ logFile' = None /\ logPath # None
      /\ \/ lock' = lock
         \/ lock = None
         \/ at[c] = "hold"
  BY DEF CustodyInv, TypeOK, Task, StartLogging, StopLogging, Rotate, Begin, OpenLogFails, QueueTake,
     QueueGivesUp, StopClose, Download, DownloadEnds, Goto, OpenReturns, QueueReturns, loggers
<1>6. Critical'
  BY <1>1, <1>3, <1>5 DEF CustodyInv, Control, Critical, TypeOK, Task
<1>7. QED
  BY <1>2, <1>4, <1>6 DEF Control

(* Queueing and archiving keep the storage facts. *)
LEMMA MoveStorage ==
  ASSUME TypeOK, TypeOK', Storage, NEW S \in SUBSET Name, NEW a \in Dir, NEW b \in Dir,
         \/ a = "root" /\ b = "to_upload"
         \/ a = "to_upload" /\ b = "uploaded" /\ \A n \in S : rows[a][n] \subseteq bucket[n],
         S \subseteq Movable(S, a, b), Move(S, a, b),
         UNCHANGED <<bucket, written>>, used \subseteq used'
  PROVE  Storage'
<1>1. /\ names'[a] = names[a] \ S /\ names'[b] = names[b] \cup S
      /\ \A d \in Dir \ {a, b} : names'[d] = names[d]
      /\ \A n \in S : rows'[a][n] = {} /\ rows'[b][n] = rows[a][n]
      /\ \A n \in S, d \in Dir \ {a, b} : rows'[d][n] = rows[d][n]
      /\ \A n \in Name \ S, d \in Dir : rows'[d][n] = rows[d][n]
  BY MoveFacts
<1>2. OnCard' = OnCard /\ Directories'
  BY MoveKeepsCard DEF Storage
<1>3. S \subseteq names[a]
  BY DEF Movable
<1>4. FreeNames'
  BY <1>1, <1>3 DEF Storage, FreeNames, Dir
<1>5. Objects'
  BY <1>1, <1>3 DEF Storage, Objects, TypeOK, Dir
<1>6. ArchivedIsStored'
  BY <1>1, <1>3 DEF Storage, ArchivedIsStored, TypeOK, Dir
<1>7. NoRowLost'
  BY <1>2 DEF Storage, NoRowLost, InCloud
<1>8. QED
  BY <1>2, <1>4, <1>5, <1>6, <1>7 DEF Storage

(* Appending a row to a file of the root keeps them too. *)
LEMMA AppendStorage ==
  ASSUME TypeOK, TypeOK', Storage, NEW n \in Name, NEW r \in Row, n \in used,
         n \notin names["to_upload"], n \notin names["uploaded"], bucket[n] = {},
         names' = [names EXCEPT !["root"] = @ \cup {n}], Append(n, r), UNCHANGED <<bucket, used>>
  PROVE  Storage' /\ \A m \in Name : rows'["to_upload"][m] = rows["to_upload"][m]
<1>1. /\ names'["root"] = names["root"] \cup {n}
      /\ names'["to_upload"] = names["to_upload"] /\ names'["uploaded"] = names["uploaded"]
  BY DEF TypeOK, Dir
<1>2. rows' = [rows EXCEPT !["root"][n] = @ \cup {r}] /\ written' = written \cup {r}
  BY <1>1 DEF Append
<1>3. /\ rows'["root"][n] = rows["root"][n] \cup {r}
      /\ \A m \in Name \ {n} : rows'["root"][m] = rows["root"][m]
      /\ \A m \in Name : /\ rows'["to_upload"][m] = rows["to_upload"][m]
                         /\ rows'["uploaded"][m] = rows["uploaded"][m]
  BY <1>2 DEF TypeOK, Dir
<1>4. Directories'
  BY <1>1, <1>3 DEF Storage, Directories, Dir
<1>5. FreeNames' /\ Objects' /\ ArchivedIsStored'
  BY <1>1, <1>3 DEF Storage, FreeNames, Objects, ArchivedIsStored, Dir, TypeOK
<1>6. OnCard \subseteq OnCard' /\ r \in OnCard'
  BY <1>1, <1>3 DEF OnCard, Dir
<1>7. NoRowLost'
  BY <1>2, <1>6 DEF Storage, NoRowLost, InCloud
<1>8. QED
  BY <1>3, <1>4, <1>5, <1>7 DEF Storage

(* Deleting files of uploaded/ never loses a row, because they are stored. *)
LEMMA RemoveStorage ==
  ASSUME TypeOK, TypeOK', Storage, NEW S \in SUBSET names["uploaded"], Remove(S, "uploaded"),
         UNCHANGED <<bucket, written, used>>
  PROVE  /\ Storage'
         /\ names'["root"] = names["root"] /\ names'["to_upload"] = names["to_upload"]
         /\ names'["uploaded"] \subseteq names["uploaded"]
         /\ rows'["to_upload"] = rows["to_upload"]
<1>1. /\ names'["root"] = names["root"] /\ names'["to_upload"] = names["to_upload"]
      /\ names'["uploaded"] = names["uploaded"] \ S
  BY DEF Remove, TypeOK, Dir
<1>2. /\ rows'["root"] = rows["root"] /\ rows'["to_upload"] = rows["to_upload"]
      /\ \A n \in Name : rows'["uploaded"][n] = IF n \in S THEN {} ELSE rows["uploaded"][n]
  BY DEF Remove, TypeOK, Dir
<1>3. Directories' /\ FreeNames' /\ Objects' /\ ArchivedIsStored'
  BY <1>1, <1>2 DEF Storage, Directories, FreeNames, Objects, ArchivedIsStored, TypeOK, Dir
<1>4. ASSUME NEW r \in OnCard PROVE r \in OnCard' \cup InCloud
  <2>1. PICK d \in Dir, n \in Name : r \in rows[d][n]
    BY DEF OnCard
  <2>2. CASE d = "uploaded" /\ n \in S
    BY <2>1, <2>2 DEF Storage, ArchivedIsStored, InCloud, OnCard
  <2>3. CASE ~(d = "uploaded" /\ n \in S)
    BY <1>2, <2>1, <2>3 DEF OnCard, Dir
  <2>4. QED
    BY <2>2, <2>3
<1>5. NoRowLost'
  BY <1>4 DEF Storage, NoRowLost, InCloud
<1>6. QED
  BY <1>1, <1>2, <1>3, <1>5 DEF Storage

(* Storing the queued file only adds rows to its object. *)
LEMMA StoreStorage ==
  ASSUME TypeOK, TypeOK', Storage, upFile \in Name, Stored, UNCHANGED <<names, rows, written, used>>
  PROVE  Storage' /\ bucket'[upFile] = rows["to_upload"][upFile]
<1>1. /\ bucket'[upFile] = rows["to_upload"][upFile] /\ upFile \in names["to_upload"]
      /\ \A n \in Name \ {upFile} : bucket'[n] = bucket[n]
  BY DEF Stored, TypeOK
<1>2. \A n \in Name : bucket[n] \subseteq bucket'[n]
  BY <1>1 DEF Storage, Objects, TypeOK
<1>3. upFile \notin names["root"] /\ upFile \notin names["uploaded"] /\ upFile \in used
  BY <1>1 DEF Storage, Directories, FreeNames, Dir
<1>4. Directories' /\ FreeNames'
  BY <1>1, <1>3 DEF Storage, Directories, FreeNames
<1>5. /\ \A n \in names["root"] : n \in Name /\ n # upFile
      /\ \A n \in names["to_upload"] : n \in Name
      /\ \A n \in names["uploaded"] : n \in Name /\ n # upFile
  BY <1>3 DEF TypeOK, Dir
<1>6. Objects'
  BY <1>1, <1>5 DEF Storage, Objects
<1>7. ArchivedIsStored'
  BY <1>1, <1>5 DEF Storage, ArchivedIsStored
<1>8. NoRowLost'
  BY <1>2 DEF Storage, NoRowLost, OnCard, InCloud
<1>9. QED
  BY <1>1, <1>4, <1>6, <1>7, <1>8 DEF Storage

-----------------------------------------------------------------------------
(* Every step preserves the invariant when the clock never repeats a name. *)
LEMMA CustodyStep ==
  ASSUME FreshNames, CustodyInv, [Next]_vars PROVE CustodyInv'
<1> USE PipelineAssumption
<1>1. TypeOK /\ TypeOK'
  BY TypedStep DEF CustodyInv, Control, Critical, Typed
<1>2. Storage /\ Control
  BY DEF CustodyInv
<1> SUFFICES Storage' /\ Control'
  BY <1>1 DEF CustodyInv
<1>3. ASSUME NEW c \in Caller, NEW n \in DataName, OpenLog(c, n) PROVE Storage' /\ Control'
  <2>1. /\ n \in Name /\ n \notin used /\ bucket[n] = {} /\ lock = None
        /\ \A d \in Dir : n \notin names[d] /\ rows[d][n] = {}
    BY <1>2, <1>3 DEF OpenLog, Unused, Storage, Directories, FreeNames, Name
  <2>2. rows' = rows
    BY <1>1, <1>3, <2>1 DEF OpenLog, TypeOK, Dir
  <2>3. /\ names'["root"] = names["root"] \cup {n}
        /\ names'["to_upload"] = names["to_upload"] /\ names'["uploaded"] = names["uploaded"]
        /\ used' = used \cup {n}
        /\ UNCHANGED <<bucket, lock, meteoPath, up, upFile, upHash, written>>
    BY <1>1, <1>3 DEF OpenLog, TypeOK, Dir, uploader
  <2>4. Directories' /\ FreeNames' /\ Objects' /\ ArchivedIsStored'
    BY <1>1, <1>2, <2>1, <2>2, <2>3
       DEF Storage, Directories, FreeNames, Objects, ArchivedIsStored, Dir
  <2>5. NoRowLost'
    BY <1>2, <2>2, <2>3 DEF Storage, NoRowLost, OnCard, InCloud
  <2>6. Pointers' /\ OpenLogInRoot' /\ ActiveMeteoNotSwept' /\ UploadIsStable'
    BY <1>2, <1>3, <2>2, <2>3
       DEF OpenLog, Control, Pointers, OpenLogInRoot, ActiveMeteoNotSwept, UploadIsStable
  <2>7. /\ \A t \in Task \ {c} : at'[t] = at[t]
        /\ at'[c] = "idle"
    BY <1>1, <1>3 DEF OpenLog, OpenReturns, Goto, TypeOK, Task
  <2>8. Critical'
    BY <1>2, <2>1, <2>3, <2>7 DEF Control, Critical, Task
  <2>9. QED
    BY <2>4, <2>5, <2>6, <2>8 DEF Storage, Control
<1>4. ASSUME NEW r \in Row, WriteRow(r) PROVE Storage' /\ Control'
  <2>1. /\ logFile \in Name /\ logFile \in used /\ logFile \in names["root"]
        /\ logFile \notin names["to_upload"] /\ logFile \notin names["uploaded"]
        /\ bucket[logFile] = {}
    BY <1>1, <1>2, <1>4 DEF WriteRow, TypeOK, Name, Control, Pointers, OpenLogInRoot,
       Storage, Directories, Objects, Dir
  <2>2. /\ names' = names /\ names' = [names EXCEPT !["root"] = @ \cup {logFile}]
        /\ UNCHANGED <<bucket, lock, at, job, logFile, logPath, meteoPath, up, upFile, upHash, used>>
        /\ Append(logFile, r)
    BY <1>1, <1>4, <2>1 DEF WriteRow, uploader, loggers, TypeOK, Dir
  <2>3. Storage' /\ \A m \in Name : rows'["to_upload"][m] = rows["to_upload"][m]
    BY <1>1, <1>2, <2>1, <2>2, AppendStorage
  <2>4. Control'
    BY <1>1, <1>2, <2>2, <2>3 DEF TypeOK, Dir, Control, Critical, Pointers, OpenLogInRoot,
       ActiveMeteoNotSwept, UploadIsStable
  <2>5. QED
    BY <2>3, <2>4
<1>5. ASSUME NEW c \in Caller, QueueMove(c) \/ QueueSweep(c) PROVE Storage' /\ Control'
  <2>1. /\ lock = c /\ logFile = None
        /\ UNCHANGED <<bucket, logFile, meteoPath, up, upFile, upHash, written, used>>
    BY <1>2, <1>5 DEF Control, Critical, QueueMove, QueueSweep, uploader
  <2>2. /\ \A t \in Task \ {c} : at'[t] = at[t]
        /\ at'[c] \in {"idle", "open", "close", "sweep"}
        /\ at'[c] = "sweep" => lock' = c
        /\ logPath' \in {logPath, None} /\ lock' \in {lock, None}
    BY <1>1, <1>5, <2>1 DEF QueueMove, QueueSweep, QueueReturns, Goto, TypeOK, Task
  <2>3. Critical'
    BY <1>1, <1>2, <2>1, <2>2 DEF Control, Critical, Task, TypeOK
  <2>4. CASE UNCHANGED fs
    BY <1>1, <1>2, <2>1, <2>2, <2>3, <2>4, QuietStorage
       DEF fs, Control, Pointers, OpenLogInRoot, ActiveMeteoNotSwept, UploadIsStable
  <2>5. ASSUME NEW S \in SUBSET Movable(DataName, "root", "to_upload"), Move(S, "root", "to_upload")
        PROVE  Storage' /\ Control'
    <3>1. /\ S \in SUBSET Name /\ S \subseteq Movable(S, "root", "to_upload")
          /\ "root" \in Dir /\ "to_upload" \in Dir /\ meteoPath \notin S
      BY <1>1, <2>5 DEF Movable, Name, Dir, TypeOK
    <3>2. Storage'
      BY <1>1, <1>2, <2>1, <2>5, <3>1, MoveStorage
    <3>3. /\ names'["to_upload"] = names["to_upload"] \cup S
          /\ names'["uploaded"] = names["uploaded"]
          /\ \A n \in Name \ S : rows'["to_upload"][n] = rows["to_upload"][n]
      BY <1>1, <2>5, <3>1, MoveFacts DEF Dir
    <3>4. \A n \in names["to_upload"] : n \in Name \ S
      BY <1>1, <2>5 DEF Movable, TypeOK, Dir
    <3>5. Pointers' /\ OpenLogInRoot' /\ ActiveMeteoNotSwept' /\ UploadIsStable'
      BY <1>2, <2>1, <2>2, <3>1, <3>3, <3>4
         DEF Control, Pointers, OpenLogInRoot, ActiveMeteoNotSwept, UploadIsStable
    <3>6. QED
      BY <2>3, <3>2, <3>5 DEF Control
  <2>6. QED
    <3>1. CASE UNCHANGED fs
      BY <2>4, <3>1
    <3>2. CASE at[c] = "move" /\ Movable({logPath}, "root", "to_upload") # {} /\ Move({logPath}, "root", "to_upload")
      <4>1. {logPath} \in SUBSET Movable(DataName, "root", "to_upload")
        BY <1>1, <1>2, <3>2 DEF Control, Critical, TypeOK, Movable
      <4>2. QED
        BY <2>5, <3>2, <4>1
    <3>3. QED
      BY <1>5, <2>5, <3>1, <3>2 DEF QueueMove, QueueSweep
<1>6. ASSUME NEW h \in BOOLEAN, MeteoRotate(h) PROVE Storage' /\ Control'
  <2>1. /\ lock = None /\ at[Meteo] = "idle" /\ lock' = Meteo /\ at' = [at EXCEPT ![Meteo] = "write"]
        /\ used' = used \cup {meteoPath'} /\ used \subseteq used'
        /\ UNCHANGED <<bucket, logFile, logPath, up, upFile, upHash, written>>
    BY <1>6 DEF MeteoRotate, uploader
  <2>2. \/ meteoPath' = meteoPath /\ meteoPath # None /\ UNCHANGED fs
        \/ meteoPath' \in MeteoName /\ meteoPath' \notin used /\ meteoPath' # meteoPath
    BY <1>6 DEF MeteoRotate, Unused
  <2>3. Critical'
    BY <1>1, <1>2, <2>1, <2>2 DEF Control, Critical, Task, TypeOK, Name
  <2>4. \/ UNCHANGED fs
        \/ /\ meteoPath \in MeteoName /\ meteoPath' # meteoPath
           /\ {meteoPath} \subseteq Movable({meteoPath}, "root", "to_upload")
           /\ Move({meteoPath}, "root", "to_upload")
    BY <1>1, <1>6 DEF MeteoRotate, Movable, TypeOK
  <2>5. meteoPath' # None /\ meteoPath' \in used' /\ bucket[meteoPath'] = {}
        /\ meteoPath' \in Name
        /\ meteoPath' \notin names["to_upload"] /\ meteoPath' \notin names["uploaded"]
    BY <1>1, <1>2, <2>1, <2>2 DEF Control, Pointers, ActiveMeteoNotSwept, Storage, FreeNames, Name, Dir, TypeOK
  <2>6. CASE UNCHANGED fs
    <3>1. Storage'
      BY <1>2, <2>1, <2>6 DEF fs, Storage, Directories, FreeNames, Objects, ArchivedIsStored,
         NoRowLost, OnCard, InCloud
    <3>2. Pointers' /\ OpenLogInRoot' /\ ActiveMeteoNotSwept' /\ UploadIsStable'
      BY <1>2, <2>1, <2>5, <2>6 DEF fs, Control, Pointers, OpenLogInRoot, ActiveMeteoNotSwept, UploadIsStable
    <3>3. QED
      BY <2>3, <3>1, <3>2 DEF Control
  <2>7. CASE /\ meteoPath \in MeteoName /\ meteoPath' # meteoPath
             /\ {meteoPath} \subseteq Movable({meteoPath}, "root", "to_upload")
             /\ Move({meteoPath}, "root", "to_upload")
    <3>1. {meteoPath} \in SUBSET Name /\ "root" \in Dir /\ "to_upload" \in Dir
      BY <2>7 DEF Name, Dir
    <3>2. Storage'
      BY <1>1, <1>2, <2>1, <2>7, <3>1, MoveStorage
    <3>3. /\ names'["root"] = names["root"] \ {meteoPath}
          /\ names'["to_upload"] = names["to_upload"] \cup {meteoPath}
          /\ names'["uploaded"] = names["uploaded"]
          /\ \A n \in Name \ {meteoPath} : rows'["to_upload"][n] = rows["to_upload"][n]
      BY <1>1, <2>7, <3>1, MoveFacts DEF Dir
    <3>4. /\ \A n \in names["to_upload"] : n \in Name \ {meteoPath}
          /\ logFile # meteoPath
      BY <1>1, <2>7 DEF Movable, TypeOK, Dir, Name
    <3>5. Pointers' /\ OpenLogInRoot' /\ ActiveMeteoNotSwept' /\ UploadIsStable'
      BY <1>2, <2>1, <2>5, <2>7, <3>3, <3>4
         DEF Control, Pointers, OpenLogInRoot, ActiveMeteoNotSwept, UploadIsStable
    <3>6. QED
      BY <2>3, <3>2, <3>5 DEF Control
  <2>8. QED
    BY <2>4, <2>6, <2>7
<1>7. ASSUME NEW r \in Row, MeteoWrite(r) PROVE Storage' /\ Control'
  <2>1. /\ meteoPath \in Name /\ meteoPath \in used /\ bucket[meteoPath] = {}
        /\ meteoPath \notin names["to_upload"] /\ meteoPath \notin names["uploaded"]
    BY <1>1, <1>2, <1>7 DEF MeteoWrite, TypeOK, Name, Control, Critical, Pointers, ActiveMeteoNotSwept
  <2>2. /\ names' = [names EXCEPT !["root"] = @ \cup {meteoPath}] /\ Append(meteoPath, r)
        /\ at' = [at EXCEPT ![Meteo] = "idle"] /\ lock' = None /\ lock = Meteo
        /\ UNCHANGED <<bucket, logFile, logPath, meteoPath, up, upFile, upHash, used>>
    BY <1>2, <1>7 DEF MeteoWrite, uploader, Control, Critical
  <2>3. Storage' /\ \A m \in Name : rows'["to_upload"][m] = rows["to_upload"][m]
    BY <1>1, <1>2, <2>1, <2>2, AppendStorage
  <2>4. /\ names'["root"] = names["root"] \cup {meteoPath}
        /\ names'["to_upload"] = names["to_upload"] /\ names'["uploaded"] = names["uploaded"]
    BY <1>1, <2>2 DEF TypeOK, Dir
  <2>5. Critical'
    BY <1>1, <1>2, <2>2 DEF Control, Critical, Task, TypeOK
  <2>6. Pointers' /\ OpenLogInRoot' /\ ActiveMeteoNotSwept' /\ UploadIsStable'
    BY <1>1, <1>2, <2>2, <2>3, <2>4
       DEF TypeOK, Dir, Control, Pointers, OpenLogInRoot, ActiveMeteoNotSwept, UploadIsStable
  <2>7. QED
    BY <2>3, <2>5, <2>6 DEF Control
<1>8. CASE MeteoWriteFails
  <2>1. /\ meteoPath \in Name /\ meteoPath \in used /\ bucket[meteoPath] = {}
        /\ meteoPath \notin names["to_upload"] /\ meteoPath \notin names["uploaded"]
    BY <1>1, <1>2, <1>8 DEF MeteoWriteFails, TypeOK, Name, Control, Critical, Pointers, ActiveMeteoNotSwept
  <2>2. /\ rows' = rows
        /\ at' = [at EXCEPT ![Meteo] = "idle"] /\ lock' = None /\ lock = Meteo
        /\ UNCHANGED <<bucket, logFile, logPath, meteoPath, up, upFile, upHash, used, written>>
    BY <1>2, <1>8 DEF MeteoWriteFails, uploader, Control, Critical
  <2>3. /\ names'["root"] \in {names["root"], names["root"] \cup {meteoPath}}
        /\ names'["to_upload"] = names["to_upload"] /\ names'["uploaded"] = names["uploaded"]
    BY <1>1, <1>8 DEF MeteoWriteFails, TypeOK, Dir
  <2>4. Directories' /\ FreeNames' /\ Objects' /\ ArchivedIsStored'
    BY <1>2, <2>1, <2>2, <2>3 DEF Storage, Directories, FreeNames, Objects, ArchivedIsStored, Dir
  <2>5. NoRowLost'
    BY <1>2, <2>2 DEF Storage, NoRowLost, OnCard, InCloud
  <2>6. Critical'
    BY <1>1, <1>2, <2>2 DEF Control, Critical, Task, TypeOK
  <2>7. Pointers' /\ OpenLogInRoot' /\ ActiveMeteoNotSwept' /\ UploadIsStable'
    BY <1>2, <2>2, <2>3 DEF Control, Pointers, OpenLogInRoot, ActiveMeteoNotSwept, UploadIsStable
  <2>8. QED
    BY <2>4, <2>5, <2>6, <2>7 DEF Storage, Control
<1>9. CASE BootSweep
  <2>1. UNCHANGED <<bucket, lock, at, logFile, logPath, meteoPath, upFile, upHash, written, used>>
        /\ up = "boot" /\ up' = "idle"
    BY <1>9 DEF BootSweep, loggers
  <2>2. Critical'
    BY <1>2, <2>1 DEF Control, Critical
  <2>3. CASE UNCHANGED fs
    BY <1>2, <2>1, <2>2, <2>3, QuietStorage
       DEF fs, Control, Pointers, OpenLogInRoot, ActiveMeteoNotSwept, UploadIsStable
  <2>4. ASSUME NEW S \in SUBSET (Movable(MeteoName, "root", "to_upload") \ {meteoPath}),
               Move(S, "root", "to_upload")
        PROVE  Storage' /\ Control'
    <3>1. /\ S \in SUBSET Name /\ S \subseteq Movable(S, "root", "to_upload")
          /\ "root" \in Dir /\ "to_upload" \in Dir /\ meteoPath \notin S /\ logFile \notin S
      BY <1>1 DEF Movable, Name, Dir, TypeOK
    <3>2. Storage'
      BY <1>1, <1>2, <2>1, <2>4, <3>1, MoveStorage
    <3>3. /\ names'["root"] = names["root"] \ S
          /\ names'["to_upload"] = names["to_upload"] \cup S
          /\ names'["uploaded"] = names["uploaded"]
      BY <1>1, <2>4, <3>1, MoveFacts DEF Dir
    <3>4. Pointers' /\ OpenLogInRoot' /\ ActiveMeteoNotSwept' /\ UploadIsStable'
      BY <1>2, <2>1, <3>1, <3>3
         DEF Control, Pointers, OpenLogInRoot, ActiveMeteoNotSwept, UploadIsStable
    <3>5. QED
      BY <2>2, <3>2, <3>4 DEF Control
  <2>5. QED
    BY <1>9, <2>3, <2>4 DEF BootSweep
<1>10. CASE Hash \/ ArchiveFails \/ \E n \in Name : Pick(n)
  <2>1. UNCHANGED <<names, rows, bucket, written, used, lock, at, logFile, logPath, meteoPath>>
    BY <1>10 DEF Hash, ArchiveFails, Pick, fs, loggers
  <2>2. Pointers' /\ UploadIsStable'
    BY <1>2, <1>10, <2>1 DEF Hash, ArchiveFails, Pick, Control, Pointers, UploadIsStable
  <2>3. QED
    BY <1>2, <2>1, <2>2, QuietStorage DEF Control, Critical, OpenLogInRoot, ActiveMeteoNotSwept
<1>11. CASE PutAcked \/ PutFails
  <2>1. /\ UNCHANGED <<names, rows, written, used, lock, at, logFile, logPath, meteoPath, upFile, upHash>>
        /\ up = "put" /\ upFile \in names["to_upload"] /\ upFile \in Name
    BY <1>1, <1>2, <1>11 DEF PutAcked, PutFails, fs, loggers, Control, UploadIsStable, TypeOK, Dir
  <2>2. Critical' /\ OpenLogInRoot' /\ ActiveMeteoNotSwept' /\ UploadIsStable'
    BY <1>2, <1>11, <2>1 DEF PutAcked, PutFails, Control, Critical, OpenLogInRoot, ActiveMeteoNotSwept, UploadIsStable
  <2>3. CASE Stored
    <3>1. Storage' /\ bucket'[upFile] = rows["to_upload"][upFile]
      BY <1>1, <1>2, <2>1, <2>3, StoreStorage
    <3>2. meteoPath # None => bucket'[meteoPath] = bucket[meteoPath]
      BY <1>1, <1>2, <2>1, <2>3 DEF Stored, Control, ActiveMeteoNotSwept, TypeOK, Name
    <3>3. Pointers'
      BY <1>2, <2>1, <3>1, <3>2 DEF Control, Pointers
    <3>4. QED
      BY <2>2, <3>1, <3>3 DEF Control
  <2>4. CASE UNCHANGED bucket /\ PutFails
    BY <1>2, <2>1, <2>2, <2>4, QuietStorage DEF PutFails, Control, Pointers
  <2>5. QED
    BY <1>11, <2>3, <2>4 DEF PutAcked, PutFails
<1>12. CASE Archive
  <2>1. /\ UNCHANGED <<bucket, lock, at, logFile, logPath, meteoPath, upFile, upHash, written, used>>
        /\ up = "archive" /\ up' = "cleanup" /\ upFile \in Name
        /\ rows["to_upload"][upFile] = bucket[upFile]
    BY <1>1, <1>2, <1>12 DEF Archive, loggers, Control, Pointers, UploadIsStable, TypeOK, Dir
  <2>2. /\ {upFile} \in SUBSET Name /\ {upFile} \subseteq Movable({upFile}, "to_upload", "uploaded")
        /\ "uploaded" \in Dir /\ "to_upload" \in Dir /\ Move({upFile}, "to_upload", "uploaded")
    BY <1>12, <2>1 DEF Archive, Movable, Dir
  <2>3. Storage'
    BY <1>1, <1>2, <2>1, <2>2, MoveStorage
  <2>4. /\ names'["root"] = names["root"] /\ meteoPath # upFile
        /\ names'["to_upload"] = names["to_upload"] \ {upFile}
        /\ names'["uploaded"] = names["uploaded"] \cup {upFile}
    <3>1. meteoPath # upFile
      BY <1>2, <2>1, <2>2 DEF Control, ActiveMeteoNotSwept, Movable, Name
    <3>2. QED
      BY <1>1, <2>2, <3>1, MoveFacts DEF Dir
  <2>5. QED
    BY <1>2, <2>1, <2>3, <2>4
       DEF Control, Critical, Pointers, OpenLogInRoot, ActiveMeteoNotSwept, UploadIsStable
<1>13. CASE Cleanup \/ ClearBatch
  <2>1. /\ UNCHANGED <<bucket, lock, at, logFile, logPath, meteoPath, written, used>>
        /\ \/ up' = "idle"
           \/ UNCHANGED <<up, upFile, upHash>>
    BY <1>13 DEF Cleanup, ClearBatch, loggers, uploader
  <2>2. CASE UNCHANGED fs
    BY <1>2, <2>1, <2>2, QuietStorage
       DEF fs, Control, Critical, Pointers, OpenLogInRoot, ActiveMeteoNotSwept, UploadIsStable
  <2>3. ASSUME NEW S \in SUBSET names["uploaded"], Remove(S, "uploaded") PROVE Storage' /\ Control'
    <3>1. /\ Storage'
          /\ names'["root"] = names["root"] /\ names'["to_upload"] = names["to_upload"]
          /\ names'["uploaded"] \subseteq names["uploaded"]
          /\ rows'["to_upload"] = rows["to_upload"]
      BY <1>1, <1>2, <2>1, <2>3, RemoveStorage
    <3>2. QED
      BY <1>2, <2>1, <3>1
         DEF Control, Critical, Pointers, OpenLogInRoot, ActiveMeteoNotSwept, UploadIsStable
  <2>4. QED
    BY <1>13, <2>2, <2>3 DEF Cleanup, ClearBatch
<1>14. CASE Crash
  <2>1. Storage'
    BY <1>2, <1>14, QuietStorage DEF Crash, fs
  <2>2. QED
    BY <1>14, <2>1 DEF Crash, Control, Critical, Pointers, OpenLogInRoot, ActiveMeteoNotSwept,
       UploadIsStable, Task
<1>15. CASE UNCHANGED vars
  BY <1>2, <1>15, QuietStorage DEF vars, fs, loggers, uploader, Control, Critical, Pointers,
     OpenLogInRoot, ActiveMeteoNotSwept, UploadIsStable
<1>16. QED
  BY <1>3, <1>4, <1>5, <1>6, <1>7, <1>8, <1>9, <1>10, <1>11, <1>12, <1>13, <1>14, <1>15, QuietCaller
     DEF Next, CallerStep, Queue, MeteoStep, UploaderStep

(* With fresh names, no flushed row is ever lost and everything the argument    *)
(* needs holds: the open log stays in the root, the registered meteo file is    *)
(* never swept, uploaded/ holds stored rows only, the upload is stable.         *)
THEOREM CustodyHolds ==
  ASSUME FreshNames PROVE Spec => []CustodyInv
<1>1. Init => CustodyInv
  BY PipelineAssumption DEF Init, CustodyInv, TypeOK, Storage, Control, Directories, FreeNames, Objects,
     ArchivedIsStored, NoRowLost, Critical, Pointers, OpenLogInRoot, ActiveMeteoNotSwept,
     UploadIsStable, Dir, Name, Task, Steps, Jobs, UpSteps
<1>2. CustodyInv /\ [Next]_vars => CustodyInv'
  BY CustodyStep
<1>3. QED
  BY <1>1, <1>2, PTL DEF Spec

(* No row whose flush returned is ever lost. *)
THEOREM RowsAreSafe ==
  ASSUME FreshNames PROVE Spec => []NoRowLost
<1>1. CustodyInv => NoRowLost
  BY DEF CustodyInv, Storage
<1>2. QED
  BY <1>1, CustodyHolds, PTL

(* An open log stays in the root directory, where no sweep of another task      *)
(* moves it.                                                                    *)
THEOREM OpenLogStays ==
  ASSUME FreshNames PROVE Spec => []OpenLogInRoot
<1>1. CustodyInv => OpenLogInRoot
  BY DEF CustodyInv, Control
<1>2. QED
  BY <1>1, CustodyHolds, PTL

(* The meteo file its writer has registered is neither queued nor archived.     *)
THEOREM MeteoStays ==
  ASSUME FreshNames PROVE Spec => []ActiveMeteoNotSwept
<1>1. CustodyInv => ActiveMeteoNotSwept
  BY DEF CustodyInv, Control
<1>2. QED
  BY <1>1, CustodyHolds, PTL

(* Whatever a purge or a clear deletes is in MinIO.                             *)
THEOREM PurgeIsSafe ==
  ASSUME FreshNames PROVE Spec => []ArchivedIsStored
<1>1. CustodyInv => ArchivedIsStored
  BY DEF CustodyInv, Storage
<1>2. QED
  BY <1>1, CustodyHolds, PTL

(* The file that is hashed and streamed without the lock neither moves nor      *)
(* changes.                                                                     *)
THEOREM UploadReadsOneFile ==
  ASSUME FreshNames PROVE Spec => []UploadIsStable
<1>1. CustodyInv => UploadIsStable
  BY DEF CustodyInv, Control
<1>2. QED
  BY <1>1, CustodyHolds, PTL

-----------------------------------------------------------------------------
(* Files travel forwards, whether or not names are fresh. *)
LEMMA MoveGoesForward ==
  ASSUME TypeOK, NEW a \in Dir, NEW b \in Dir, NEW S \in SUBSET names[a], Move(S, a, b),
         <<a, b>> \in {<<"root", "to_upload">>, <<"to_upload", "uploaded">>}
  PROVE  ForwardStep
<1>1. S \in SUBSET Name /\ a # b
  BY DEF TypeOK
<1>2. /\ names'[a] = names[a] \ S /\ names'[b] = names[b] \cup S
      /\ \A d \in Dir \ {a, b} : names'[d] = names[d]
  BY <1>1 DEF Move, TypeOK
<1>3. QED
  BY <1>2 DEF ForwardStep, Dir

LEMMA StillForward == ASSUME UNCHANGED names PROVE ForwardStep
  BY DEF ForwardStep

LEMMA NewIsForward ==
  ASSUME TypeOK, NEW n, names' = [names EXCEPT !["root"] = @ \cup {n}] PROVE ForwardStep
  BY DEF TypeOK, ForwardStep, Dir

LEMMA RemovedIsForward ==
  ASSUME TypeOK, NEW S, Remove(S, "uploaded") PROVE ForwardStep
  BY DEF TypeOK, Remove, ForwardStep, Dir

LEMMA StepGoesForward == ASSUME TypeOK, [Next]_vars PROVE ForwardStep
<1>1. ASSUME NEW c \in Caller, CallerStep(c) PROVE ForwardStep
  <2>1. CASE \E n \in DataName : OpenLog(c, n)
    BY <2>1, NewIsForward DEF OpenLog
  <2>2. CASE QueueMove(c)
    <3>1. CASE UNCHANGED names
      BY <3>1, StillForward
    <3>2. CASE Movable({logPath}, "root", "to_upload") # {} /\ Move({logPath}, "root", "to_upload")
      <4>1. {logPath} \in SUBSET names["root"]
        BY <3>2 DEF Movable
      <4>2. QED
        BY <3>2, <4>1, MoveGoesForward DEF Dir
    <3>3. QED
      BY <2>2, <3>1, <3>2 DEF QueueMove, fs
  <2>3. CASE QueueSweep(c)
    <3>1. PICK S \in SUBSET Movable(DataName, "root", "to_upload") : Move(S, "root", "to_upload")
      BY <2>3 DEF QueueSweep
    <3>2. S \in SUBSET names["root"]
      BY DEF Movable
    <3>3. QED
      BY <3>1, <3>2, MoveGoesForward DEF Dir
  <2>4. CASE QueueTake(c) \/ QueueGivesUp(c) \/ StopClose(c) \/ Download(c) \/ DownloadEnds(c)
    BY <2>4, StillForward DEF QueueTake, QueueGivesUp, StopClose, Download, DownloadEnds, fs
  <2>5. CASE StartLogging(c) \/ StopLogging(c) \/ Rotate(c) \/ OpenLogFails(c)
    BY <2>5, StillForward DEF StartLogging, StopLogging, Rotate, Begin, OpenLogFails, fs
  <2>6. QED
    BY <1>1, <2>1, <2>2, <2>3, <2>4, <2>5 DEF CallerStep, Queue
<1>2. ASSUME NEW h \in BOOLEAN, MeteoRotate(h) PROVE ForwardStep
  <2>1. CASE UNCHANGED names
    BY <2>1, StillForward
  <2>2. CASE Movable({meteoPath}, "root", "to_upload") # {} /\ Move({meteoPath}, "root", "to_upload")
    <3>1. {meteoPath} \in SUBSET names["root"]
      BY <2>2 DEF Movable
    <3>2. QED
      BY <2>2, <3>1, MoveGoesForward DEF Dir
  <2>3. QED
    BY <1>2, <2>1, <2>2 DEF MeteoRotate, fs
<1>3. ASSUME NEW r \in Row, MeteoWrite(r) PROVE ForwardStep
  BY <1>3, NewIsForward DEF MeteoWrite
<1>4. CASE MeteoWriteFails
  BY <1>4, NewIsForward, StillForward DEF MeteoWriteFails
<1>5. CASE BootSweep
  <2>1. CASE UNCHANGED names
    BY <2>1, StillForward
  <2>2. ASSUME NEW S \in SUBSET (Movable(MeteoName, "root", "to_upload") \ {meteoPath}), Move(S, "root", "to_upload")
        PROVE ForwardStep
    <3>1. S \in SUBSET names["root"]
      BY DEF Movable
    <3>2. QED
      BY <2>2, <3>1, MoveGoesForward DEF Dir
  <2>3. QED
    BY <1>5, <2>1, <2>2 DEF BootSweep, fs
<1>6. CASE Archive
  <2>1. {upFile} \in SUBSET names["to_upload"]
    BY <1>6 DEF Archive, Movable
  <2>2. QED
    BY <1>6, <2>1, MoveGoesForward DEF Archive, Dir
<1>7. CASE Cleanup \/ ClearBatch
  BY <1>7, RemovedIsForward, StillForward DEF Cleanup, ClearBatch, fs
<1>8. CASE Hash \/ PutAcked \/ PutFails \/ ArchiveFails \/ (\E n \in Name : Pick(n))
  BY <1>8, StillForward DEF Hash, PutAcked, PutFails, ArchiveFails, Pick, fs
<1>9. CASE (\E r \in Row : WriteRow(r)) \/ Crash \/ UNCHANGED vars
  BY <1>9, StillForward DEF WriteRow, Crash, vars, fs
<1>10. QED
  BY <1>1, <1>2, <1>3, <1>4, <1>5, <1>6, <1>7, <1>8, <1>9 DEF Next, MeteoStep, UploaderStep

(* No file ever goes back, skips the queue or disappears from before uploaded/. *)
THEOREM FilesGoForward == Spec => OnlyForward
<1>1. TypeOK /\ [Next]_vars => [ForwardStep]_vars
  BY StepGoesForward
<1>2. QED
  BY <1>1, TypeCorrect, PTL DEF Spec, OnlyForward

-----------------------------------------------------------------------------
(* What a step may do to the rows of the card and of MinIO. *)
RowsMove == \/ UNCHANGED <<OnCard, InCloud>>
            \/ \E r \in Row : OnCard' = OnCard \cup {r} /\ UNCHANGED InCloud
            \/ OnCard' = OnCard /\ InCloud \subseteq InCloud' /\ InCloud' \subseteq InCloud \cup OnCard
            \/ InCloud' = InCloud /\ OnCard' \subseteq OnCard /\ OnCard \subseteq OnCard' \cup InCloud

LEMMA QuietRows == ASSUME UNCHANGED <<rows, bucket>> PROVE UNCHANGED <<OnCard, InCloud>>
BY DEF OnCard, InCloud

LEMMA AppendRows ==
  ASSUME TypeOK, NEW n \in Name, NEW r \in Row, UNCHANGED bucket, Append(n, r)
  PROVE  RowsMove
<1>1. CASE rows' = rows
  BY <1>1, QuietRows DEF RowsMove
<1>2. CASE rows' = [rows EXCEPT !["root"][n] = @ \cup {r}]
  <2>1. \A d \in Dir, m \in Name :
           rows'[d][m] = IF d = "root" /\ m = n THEN rows[d][m] \cup {r} ELSE rows[d][m]
    BY <1>2 DEF TypeOK, Dir
  <2>2. OnCard' = OnCard \cup {r} /\ InCloud' = InCloud
    <3>1. "root" \in Dir /\ r \in rows'["root"][n]
      BY <2>1 DEF Dir
    <3>2. r \in OnCard'
      BY <3>1 DEF OnCard
    <3>3. \A x \in Row \ {r}, d \in Dir, m \in Name : x \in rows'[d][m] <=> x \in rows[d][m]
      BY <2>1
    <3>4. \A x \in Row \ {r} : x \in OnCard' <=> x \in OnCard
      BY <3>3 DEF OnCard
    <3>5. OnCard \subseteq Row /\ OnCard' \subseteq Row
      BY DEF OnCard
    <3>6. QED
      BY <3>2, <3>4, <3>5 DEF InCloud
  <2>3. QED
    BY <2>2 DEF RowsMove
<1>3. QED
  BY <1>1, <1>2 DEF Append

LEMMA MoveRows ==
  ASSUME TypeOK, TypeOK', Directories, UNCHANGED bucket, NEW a \in Dir, NEW b \in Dir, a # b,
         NEW S \in SUBSET Name, S \subseteq Movable(S, a, b), Move(S, a, b)
  PROVE  RowsMove
BY MoveKeepsCard DEF RowsMove, InCloud

LEMMA RemoveRows ==
  ASSUME TypeOK, ArchivedIsStored, UNCHANGED bucket,
         NEW S \in SUBSET names["uploaded"], Remove(S, "uploaded")
  PROVE  RowsMove
<1>1. \A d \in Dir, n \in Name :
         rows'[d][n] = IF d = "uploaded" /\ n \in S THEN {} ELSE rows[d][n]
  BY DEF Remove, TypeOK, Dir
<1>2. OnCard' \subseteq OnCard /\ InCloud' = InCloud
  BY <1>1 DEF OnCard, InCloud
<1>3. \A n \in S : rows["uploaded"][n] \subseteq InCloud
  BY DEF ArchivedIsStored, InCloud, TypeOK, Dir
<1>4. OnCard \subseteq OnCard' \cup InCloud
  BY <1>1, <1>3 DEF OnCard
<1>5. QED
  BY <1>2, <1>4 DEF RowsMove

LEMMA StoreRows ==
  ASSUME TypeOK, Objects, UNCHANGED rows, upFile \in Name, Stored PROVE RowsMove
<1>1. /\ bucket'[upFile] = rows["to_upload"][upFile] /\ bucket[upFile] \subseteq rows["to_upload"][upFile]
      /\ \A n \in Name \ {upFile} : bucket'[n] = bucket[n]
      /\ rows["to_upload"][upFile] \subseteq OnCard
  BY DEF Stored, TypeOK, Objects, OnCard, Dir
<1>2. OnCard' = OnCard
  BY DEF OnCard
<1>3. \A n \in Name : bucket[n] \subseteq bucket'[n] /\ bucket'[n] \subseteq bucket[n] \cup OnCard
  BY <1>1 DEF TypeOK
<1>4. InCloud \subseteq InCloud' /\ InCloud' \subseteq InCloud \cup OnCard
  BY <1>3 DEF InCloud
<1>5. QED
  BY <1>2, <1>4 DEF RowsMove

(* Every step is one of them. *)
LEMMA StepMovesRows ==
  ASSUME FreshNames, CustodyInv, [Next]_vars PROVE RowsMove
<1> USE PipelineAssumption
<1>1. TypeOK /\ TypeOK' /\ Storage /\ Control
  BY CustodyStep DEF CustodyInv
<1>2. ASSUME NEW c \in Caller, \/ StartLogging(c) \/ StopLogging(c) \/ Rotate(c) \/ OpenLogFails(c)
             \/ QueueTake(c) \/ QueueGivesUp(c) \/ StopClose(c) \/ Download(c) \/ DownloadEnds(c)
      PROVE  RowsMove
  BY <1>2, QuietRows DEF RowsMove, StartLogging, StopLogging, Rotate, Begin, OpenLogFails, QueueTake,
     QueueGivesUp, StopClose, Download, DownloadEnds, fs
<1>3. ASSUME NEW c \in Caller, NEW n \in DataName, OpenLog(c, n) PROVE RowsMove
  <2>1. rows["root"][n] = {}
    BY <1>1, <1>3 DEF OpenLog, Unused, Storage, Directories, FreeNames, Name, Dir
  <2>2. rows' = rows /\ bucket' = bucket
    BY <1>1, <1>3, <2>1 DEF OpenLog, TypeOK, Dir
  <2>3. QED
    BY <2>2, QuietRows DEF RowsMove
<1>4. ASSUME NEW r \in Row, WriteRow(r) PROVE RowsMove
  BY <1>1, <1>4, AppendRows DEF WriteRow, TypeOK, Name
<1>5. ASSUME NEW r \in Row, MeteoWrite(r) PROVE RowsMove
  <2>1. meteoPath \in Name
    BY <1>1, <1>5 DEF MeteoWrite, Control, Critical, TypeOK, Name
  <2>2. QED
    BY <1>1, <1>5, <2>1, AppendRows DEF MeteoWrite
<1>6. ASSUME NEW S \in SUBSET Name, S \subseteq Movable(S, "root", "to_upload"),
             Move(S, "root", "to_upload"), UNCHANGED bucket
      PROVE  RowsMove
  BY <1>1, <1>6, MoveRows DEF Storage, Dir
<1>7. ASSUME NEW c \in Caller, QueueMove(c) \/ QueueSweep(c) PROVE RowsMove
  <2>1. bucket' = bucket
    BY <1>7 DEF QueueMove, QueueSweep
  <2>2. CASE UNCHANGED fs
    BY <2>1, <2>2, QuietRows DEF RowsMove, fs
  <2>3. ASSUME NEW S \in SUBSET Movable(DataName, "root", "to_upload"), Move(S, "root", "to_upload")
        PROVE  RowsMove
    <3>1. S \in SUBSET Name /\ S \subseteq Movable(S, "root", "to_upload")
      BY DEF Movable, Name
    <3>2. QED
      BY <1>6, <2>1, <2>3, <3>1
  <2>4. CASE QueueMove(c) /\ Movable({logPath}, "root", "to_upload") # {} /\ Move({logPath}, "root", "to_upload")
    <3>1. {logPath} \in SUBSET Movable(DataName, "root", "to_upload")
      BY <1>1, <2>4 DEF QueueMove, Control, Critical, TypeOK, Movable
    <3>2. QED
      BY <2>3, <2>4, <3>1
  <2>5. QED
    BY <1>7, <2>2, <2>3, <2>4 DEF QueueMove, QueueSweep
<1>8. ASSUME NEW h \in BOOLEAN, MeteoRotate(h) PROVE RowsMove
  <2>1. bucket' = bucket
    BY <1>8 DEF MeteoRotate
  <2>2. CASE UNCHANGED fs
    BY <2>1, <2>2, QuietRows DEF RowsMove, fs
  <2>3. CASE /\ meteoPath # None /\ Movable({meteoPath}, "root", "to_upload") # {}
             /\ Move({meteoPath}, "root", "to_upload")
    <3>1. {meteoPath} \in SUBSET Name /\ {meteoPath} \subseteq Movable({meteoPath}, "root", "to_upload")
      BY <1>1, <2>3 DEF TypeOK, Name, Movable
    <3>2. QED
      BY <1>6, <2>1, <2>3, <3>1
  <2>4. QED
    BY <1>8, <2>2, <2>3 DEF MeteoRotate
<1>9. CASE MeteoWriteFails \/ Hash \/ ArchiveFails \/ Crash \/ \E n \in Name : Pick(n)
  BY <1>9, QuietRows DEF RowsMove, MeteoWriteFails, Hash, ArchiveFails, Crash, Pick, fs
<1>10. CASE BootSweep
  <2>1. bucket' = bucket
    BY <1>10 DEF BootSweep
  <2>2. CASE UNCHANGED fs
    BY <2>1, <2>2, QuietRows DEF RowsMove, fs
  <2>3. ASSUME NEW S \in SUBSET (Movable(MeteoName, "root", "to_upload") \ {meteoPath}),
               Move(S, "root", "to_upload")
        PROVE  RowsMove
    <3>1. S \in SUBSET Name /\ S \subseteq Movable(S, "root", "to_upload")
      BY DEF Movable, Name
    <3>2. QED
      BY <1>6, <2>1, <2>3, <3>1
  <2>4. QED
    BY <1>10, <2>2, <2>3 DEF BootSweep
<1>11. CASE PutAcked \/ PutFails
  <2>1. rows' = rows
    BY <1>11 DEF PutAcked, PutFails, fs
  <2>2. CASE Stored
    BY <1>1, <2>1, <2>2, StoreRows DEF Stored, Storage, TypeOK, Dir
  <2>3. CASE UNCHANGED bucket
    BY <2>1, <2>3, QuietRows DEF RowsMove
  <2>4. QED
    BY <1>11, <2>2, <2>3 DEF PutAcked, PutFails
<1>12. CASE Archive
  <2>1. {upFile} \in SUBSET Name /\ {upFile} \subseteq Movable({upFile}, "to_upload", "uploaded")
    BY <1>1, <1>12 DEF Archive, Movable, TypeOK, Dir
  <2>2. QED
    BY <1>1, <1>12, <2>1, MoveRows DEF Archive, Storage, Dir
<1>13. CASE Cleanup \/ ClearBatch
  <2>1. bucket' = bucket
    BY <1>13 DEF Cleanup, ClearBatch
  <2>2. CASE UNCHANGED fs
    BY <2>1, <2>2, QuietRows DEF RowsMove, fs
  <2>3. CASE \E S \in SUBSET names["uploaded"] : Remove(S, "uploaded")
    BY <1>1, <2>1, <2>3, RemoveRows DEF Storage
  <2>4. QED
    BY <1>13, <2>2, <2>3 DEF Cleanup, ClearBatch
<1>14. CASE UNCHANGED vars
  BY <1>14, QuietRows DEF RowsMove, vars, fs
<1>15. QED
  BY <1>2, <1>3, <1>4, <1>5, <1>7, <1>8, <1>9, <1>10, <1>11, <1>12, <1>13, <1>14
     DEF Next, CallerStep, Queue, MeteoStep, UploaderStep

(* The pipeline implements RowCustody: each step flushes, stores or discards    *)
(* stored rows, or leaves the rows where they are.                              *)
THEOREM PipelineKeepsCustody ==
  ASSUME FreshNames PROVE Spec => KeepsCustody
<1>1. Init => Custody!Init
  BY DEF Init, Custody!Init, OnCard, InCloud
<1>2. RowsMove => [Custody!Next]_<<OnCard, InCloud>>
  <2> SUFFICES ASSUME RowsMove PROVE [Custody!Next]_<<OnCard, InCloud>>
    OBVIOUS
  <2>1. CASE UNCHANGED <<OnCard, InCloud>>
    BY <2>1
  <2>2. CASE \E r \in Row : OnCard' = OnCard \cup {r} /\ UNCHANGED InCloud
    BY <2>2 DEF Custody!Next, Custody!Flush
  <2>3. CASE OnCard' = OnCard /\ InCloud \subseteq InCloud' /\ InCloud' \subseteq InCloud \cup OnCard
    <3> DEFINE R == InCloud' \ InCloud
    <3>1. R \in SUBSET OnCard /\ InCloud' = InCloud \cup R
      BY <2>3
    <3>2. QED
      BY <2>3, <3>1 DEF Custody!Next, Custody!Store
  <2>4. CASE InCloud' = InCloud /\ OnCard' \subseteq OnCard /\ OnCard \subseteq OnCard' \cup InCloud
    <3> DEFINE R == OnCard \ OnCard'
    <3>1. R \in SUBSET (OnCard \cap InCloud) /\ OnCard' = OnCard \ R
      BY <2>4
    <3>2. QED
      BY <2>4, <3>1 DEF Custody!Next, Custody!Discard
  <2>5. QED
    BY <2>1, <2>2, <2>3, <2>4 DEF RowsMove
<1>3. CustodyInv /\ [Next]_vars => [Custody!Next]_<<OnCard, InCloud>>
  BY <1>2, StepMovesRows
<1>4. QED
  BY <1>1, <1>3, CustodyHolds, PTL DEF Spec, KeepsCustody, Custody!Spec
=============================================================================
