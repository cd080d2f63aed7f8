------------------------- MODULE StorageSwitchProofs -------------------------
(***************************************************************************)
(* Nothing that was logged disappears between the two storage backends and *)
(* the open log stays with its writer, for any names, files and failures,  *)
(* as long as fclose() of a copy does not fail unnoticed.  The pages of a  *)
(* list show every file, whatever fails.                                   *)
(***************************************************************************)
EXTENDS StorageSwitch, NaturalSets, SequenceTheorems, FiniteSetTheorems, TLAPS

USE DEF Failure, Fine

LEMMA TwoBackends ==
  \A b \in Backend : Other(b) \in Backend /\ Other(b) # b /\ \A x \in Backend : x = b \/ x = Other(b)
<1>1. \A b \in Backend : \E x \in Backend : x # b
  BY DEF Backend
<1>2. \A b \in Backend : Other(b) \in Backend /\ Other(b) # b
  BY <1>1, Zenon DEF Other
<1>3. QED
  BY <1>2 DEF Backend

-----------------------------------------------------------------------------
(* The handler.                                                            *)

HttpType == [at : {"idle", "switch", "transfer", "scan", "copy", "delete", "send"}, b : Backend \cup Dir,
             n : Name \cup {None}, seen : Name \cup {None}, scanned : SUBSET Name]

\* Only a record of the right fields can be updated.
LEMMA NewStep ==
  ASSUME NEW h \in HttpType
  PROVE  /\ Idle \in HttpType /\ Idle.at = "idle"
         /\ \A s \in {"switch", "transfer", "send"}, b \in Backend :
              LET g == [Idle EXCEPT !.at = s, !.b = b] IN g \in HttpType /\ g.at = s /\ g.b = b
         /\ \A s \in {"scan", "copy"} : LET g == [h EXCEPT !.at = s] IN g \in HttpType /\ g.at = s /\ g.b = h.b
         /\ LET g == [h EXCEPT !.at = "scan", !.n = None] IN g \in HttpType /\ g.at = "scan" /\ g.b = h.b
         /\ \A n \in Name : LET g == [h EXCEPT !.at = "copy", !.n = n, !.scanned = @ \cup {n}]
                            IN g \in HttpType /\ g.at = "copy" /\ g.b = h.b /\ g.n = n
<1> USE DEF HttpType, Idle
<1>1. Idle \in HttpType /\ Idle.at = "idle"
  BY DEF Backend
<1>2. ASSUME NEW s \in {"switch", "transfer", "send"}, NEW b \in Backend
      PROVE  LET g == [Idle EXCEPT !.at = s, !.b = b] IN g \in HttpType /\ g.at = s /\ g.b = b
  BY DEF Backend
<1>3. ASSUME NEW s \in {"scan", "copy"}
      PROVE  LET g == [h EXCEPT !.at = s] IN g \in HttpType /\ g.at = s /\ g.b = h.b
  OBVIOUS
<1>4. LET g == [h EXCEPT !.at = "scan", !.n = None] IN g \in HttpType /\ g.at = "scan" /\ g.b = h.b
  OBVIOUS
<1>5. ASSUME NEW n \in Name
      PROVE  LET g == [h EXCEPT !.at = "copy", !.n = n, !.scanned = @ \cup {n}]
             IN g \in HttpType /\ g.at = "copy" /\ g.b = h.b /\ g.n = n
  OBVIOUS
<1>6. QED
  BY <1>1, <1>2, <1>3, <1>4, <1>5

LEMMA InitSwitch == Init => SwitchInv
<1> SUFFICES ASSUME Init PROVE SwitchInv
  OBVIOUS
<1>1. http \in HttpType /\ http.at = "idle"
  BY DEF Init, HttpType, Idle, Backend
<1>2. TypeOK
  BY <1>1 DEF Init, TypeOK, HttpType, Backend
<1>3. Kept /\ OpenLogKept /\ Places /\ SentOrCut /\ Handling
  BY <1>1 DEF Init, Kept, OpenLogKept, Places, SentOrCut, Handling
<1>4. QED
  BY <1>2, <1>3 DEF SwitchInv

\* What the invariant says while the handler has nothing under way.
LEMMA Quiet == ASSUME http'.at = "idle" PROVE Handling'
  BY DEF Handling

-----------------------------------------------------------------------------
(* Steps that leave the files alone.                                       *)

LEMMA SameFiles ==
  ASSUME SwitchInv, UNCHANGED <<files, logger, uploader>>
  PROVE  /\ Kept' /\ Places' /\ OpenLogKept' /\ SentOrCut'
         /\ http' \in HttpType /\ backend' \in Backend /\ busy' \in BOOLEAN => TypeOK'
<1>1. Kept' /\ Places'
  BY DEF SwitchInv, Kept, Places, files
<1>2. OpenLogKept'
  BY DEF SwitchInv, OpenLogKept, At, files, logger
<1>3. SentOrCut'
  BY DEF SwitchInv, SentOrCut, files, uploader
<1>4. http' \in HttpType /\ backend' \in Backend /\ busy' \in BOOLEAN => TypeOK'
  BY DEF SwitchInv, TypeOK, HttpType, files, logger, uploader
<1>5. QED
  BY <1>1, <1>2, <1>3, <1>4

LEMMA HandlerStep ==
  ASSUME SwitchInv,
         \/ \E b \in Backend : CheckStopped("switch", b) \/ CheckStopped("transfer", b)
         \/ StorageApply \/ TransferBegin \/ TransferReturns \/ FsDeleteAsk \/ Download \/ DownloadEnds
  PROVE  SwitchInv'
<1> USE DEF Keeps
<1>0. /\ http \in HttpType /\ backend \in Backend /\ busy \in BOOLEAN
      /\ fs \subseteq FileType /\ log \in LogType \cup {None}
  BY DEF SwitchInv, TypeOK, HttpType
<1>1. UNCHANGED <<files, logger, uploader>>
  BY DEF CheckStopped, StorageApply, TransferBegin, TransferReturns, FsDeleteAsk, Download, DownloadEnds
<1>2. CASE \E b \in Backend : CheckStopped("switch", b) \/ CheckStopped("transfer", b)
  <2>1. PICK b \in Backend, s \in {"switch", "transfer"} :
          http' = [Idle EXCEPT !.at = s, !.b = b] /\ UNCHANGED <<backend, busy>>
    BY <1>2 DEF CheckStopped
  <2>2. http' \in HttpType /\ http'.at = s /\ http'.b = b
    BY <2>1 DEF HttpType, Idle, Backend
  <2>3. Handling'
    BY <2>2 DEF Handling
  <2>4. QED
    BY <1>0, <1>1, <2>1, <2>2, <2>3, SameFiles DEF SwitchInv
<1>3. CASE StorageApply
  <2>1. backend' \in Backend /\ http' = Idle /\ UNCHANGED busy
    BY <1>3 DEF StorageApply, SwitchInv, Handling
  <2>2. QED
    BY <1>0, <1>1, <2>1, NewStep, Quiet, SameFiles DEF SwitchInv
<1>4. CASE TransferBegin
  <2>1. /\ http' = [http EXCEPT !.at = "scan"] /\ busy' = TRUE /\ backend' = backend
        /\ http.b \in Backend
    BY <1>4 DEF TransferBegin, SwitchInv, Handling
  <2>2. http' \in HttpType /\ http'.at = "scan" /\ http'.b = http.b
    BY <1>0, <2>1, NewStep
  <2>3. Handling'
    BY <2>1, <2>2 DEF Handling
  <2>4. QED
    BY <1>0, <1>1, <2>1, <2>2, <2>3, SameFiles DEF SwitchInv
<1>5. CASE TransferReturns \/ DownloadEnds
  <2>1. http' = Idle /\ busy' = FALSE /\ backend' = backend
    BY <1>5 DEF TransferReturns, DownloadEnds
  <2>2. QED
    BY <1>0, <1>1, <2>1, NewStep, Quiet, SameFiles DEF SwitchInv
<1>6. CASE Download
  <2>1. PICK f \in fs : http' = [Idle EXCEPT !.at = "send", !.b = f.b]
    BY <1>6 DEF Download
  <2>2. f.b \in Backend /\ busy' = TRUE /\ backend' = backend
    BY <1>0, <1>6 DEF Download, FileType
  <2>3. http' \in HttpType /\ http'.at = "send" /\ http'.b = f.b
    BY <1>0, <2>1, <2>2, NewStep
  <2>4. Handling'
    BY <2>2, <2>3 DEF Handling
  <2>5. QED
    BY <1>0, <1>1, <2>2, <2>3, <2>4, SameFiles DEF SwitchInv
<1>7. CASE FsDeleteAsk
  <2>1. PICK f \in fs :
          http' = [at |-> "delete", b |-> f.d, n |-> f.n, seen |-> IF log = None THEN None ELSE log.n, scanned |-> {}]
    BY <1>7 DEF FsDeleteAsk
  <2>2. f.d \in Dir /\ f.n \in Name /\ f.n \in used /\ UNCHANGED <<backend, busy>>
    BY <1>0, <1>7 DEF FsDeleteAsk, FileType, SwitchInv, Places
  <2>3. (IF log = None THEN None ELSE log.n) \in Name \cup {None}
    BY <1>0 DEF LogType
  <2>4. http' \in HttpType
    BY <2>1, <2>2, <2>3 DEF HttpType
  <2>5. Handling'
    BY <1>1, <2>1, <2>2 DEF Handling, files, logger
  <2>6. QED
    BY <1>0, <1>1, <2>2, <2>4, <2>5, SameFiles DEF SwitchInv
<1>8. QED
  BY <1>2, <1>3, <1>4, <1>5, <1>6, <1>7

\* UploadTask before and after it has sent a file.
LEMMA UploadStep == ASSUME SwitchInv, Pick \/ PutAcked \/ PutFails PROVE SwitchInv'
<1> USE DEF Rest
<1>0. UNCHANGED <<fs, logger, used, deleted, http, backend, busy>>
  BY DEF Pick, PutAcked, PutFails
<1>1. stored \subseteq stored' /\ stored' \subseteq Name
  BY DEF Pick, PutAcked, PutFails, SwitchInv, TypeOK, FileType, Uploading, At
<1>2. TypeOK'
  <2>1. CASE Pick
    <3>1. PICK f \in In(backend, "to_upload") : upFile' = [b |-> f.b, n |-> f.n]
      BY <2>1 DEF Pick
    <3>2. upFile' \in LogType
      BY <3>1 DEF In, SwitchInv, TypeOK, FileType, LogType
    <3>3. QED
      BY <1>0, <1>1, <2>1, <3>2 DEF Pick, SwitchInv, TypeOK, logger
  <2>2. CASE PutAcked
    BY <1>0, <1>1, <2>2 DEF PutAcked, SwitchInv, TypeOK, logger
  <2>3. CASE PutFails
    BY <1>0, <1>1, <2>3 DEF PutFails, SwitchInv, TypeOK, logger
  <2>4. QED
    BY <2>1, <2>2, <2>3
<1>3. Kept' /\ Places'
  BY <1>0, <1>1 DEF SwitchInv, Kept, Places
<1>4. OpenLogKept' /\ Handling'
  BY <1>0 DEF SwitchInv, OpenLogKept, Handling, Copy, At, logger
<1>5. SentOrCut'
  <2>1. CASE up' # "archive"
    BY <2>1 DEF SentOrCut
  <2>2. CASE PutAcked
    <3> SUFFICES ASSUME upFile'.n \notin stored' \cup deleted'
                 PROVE  /\ File(upFile.b, "to_upload", upFile.n, "part") \in fs
                        /\ File(Other(upFile.b), "to_upload", upFile.n, "whole") \in fs
      BY <1>0, <2>2 DEF SentOrCut, PutAcked
    <3>1. PICK f \in Uploading : f.c # "growing" /\ stored' = stored \cup (IF f.c = "whole" THEN {f.n} ELSE {})
      BY <2>2 DEF PutAcked
    <3>2. /\ f \in fs /\ f \in FileType /\ f.b = upFile.b /\ f.d = "to_upload" /\ f.n = upFile.n
          /\ upFile' = upFile
      BY <2>2, <3>1 DEF Uploading, At, SwitchInv, TypeOK, PutAcked
    <3>3. f.c = "part" /\ f = File(upFile.b, "to_upload", upFile.n, "part")
      BY <1>0, <3>1, <3>2 DEF File, FileType
    <3>4. upFile.n \in used \ deleted /\ upFile.n \notin stored
      BY <1>0, <1>1, <3>2 DEF SwitchInv, Places
    <3>5. PICK g \in fs : g.n = upFile.n /\ g.c = "whole"
      BY <3>4 DEF SwitchInv, Kept
    <3>6. g \in FileType /\ g # f
      BY <3>3, <3>5 DEF SwitchInv, TypeOK, File
    <3>7. g.d # "root" /\ g.d # "uploaded"
      BY <3>2, <3>4, <3>5, <3>6 DEF SwitchInv, Places
    <3>8. g.d = "to_upload"
      BY <3>6, <3>7 DEF FileType, Dir
    <3>9. g.b # f.b
      BY <3>2, <3>5, <3>6, <3>8 DEF SwitchInv, TypeOK
    <3>10. g.b = Other(upFile.b)
      BY <3>2, <3>6, <3>9, TwoBackends DEF FileType
    <3>11. g = File(Other(upFile.b), "to_upload", upFile.n, "whole")
      BY <3>5, <3>6, <3>8, <3>10 DEF File, FileType
    <3>12. QED
      BY <3>2, <3>3, <3>5, <3>11
  <2>3. QED
    BY <2>1, <2>2 DEF Pick, PutFails
<1>6. QED
  BY <1>2, <1>3, <1>4, <1>5 DEF SwitchInv

-----------------------------------------------------------------------------
(* Steps that move files to another directory of their backend.            *)

Placed(S, b, d) ==
  /\ S \subseteq fs /\ b \in Backend /\ d \in Dir
  /\ \A f \in S : f.b = b /\ At(b, d, f.n) = {}
  /\ \A f, g \in S : f.n = g.n => f = g

MovedAll(S, d) ==
  /\ fs' \subseteq FileType
  /\ \A f, g \in fs' : f.b = g.b /\ f.d = g.d /\ f.n = g.n => f = g
  /\ \A g \in fs' : g \in fs \ S \/ (g.d = d /\ \E f \in S : g.b = f.b /\ g.n = f.n /\ g.c = f.c)
  /\ \A f \in fs \ S : f \in fs'
  /\ \A f \in S : \E g \in fs' : g.n = f.n /\ g.c = f.c

LEMMA MovedFiles ==
  ASSUME TypeOK, NEW S, NEW b, NEW d, Placed(S, b, d), fs' = Moved(S, d)
  PROVE  MovedAll(S, d)
<1> USE DEF Placed
<1> DEFINE To(f) == [f EXCEPT !.d = d]
<1>1. fs' = (fs \ S) \cup {To(f) : f \in S}
  BY DEF Moved
<1>2. \A f \in S : To(f) \in FileType /\ To(f).b = f.b /\ To(f).d = d /\ To(f).n = f.n /\ To(f).c = f.c
  BY DEF TypeOK, FileType
<1> HIDE DEF To
<1>3. fs' \subseteq FileType
  BY <1>1, <1>2 DEF TypeOK
<1>4. ASSUME NEW f \in fs', NEW g \in fs', f.b = g.b /\ f.d = g.d /\ f.n = g.n PROVE f = g
  <2>1. CASE f \in fs \ S /\ g \in fs \ S
    BY <1>4, <2>1 DEF TypeOK
  <2>2. ASSUME NEW h \in S, NEW k \in fs \ S, To(h).b = k.b, To(h).d = k.d, To(h).n = k.n PROVE FALSE
    BY <1>2, <2>2 DEF At
  <2>3. ASSUME NEW h \in S, NEW k \in S, f = To(h), g = To(k) PROVE f = g
    BY <1>2, <1>4, <2>3
  <2>4. QED
    BY <1>1, <1>4, <2>1, <2>2, <2>3
<1>5. \A g \in fs' : g \in fs \ S \/ (g.d = d /\ \E f \in S : g.b = f.b /\ g.n = f.n /\ g.c = f.c)
  BY <1>1, <1>2
<1>6. (\A f \in fs \ S : f \in fs') /\ (\A f \in S : \E g \in fs' : g.n = f.n /\ g.c = f.c)
  BY <1>1, <1>2
<1>7. QED
  BY <1>3, <1>4, <1>5, <1>6 DEF MovedAll

\* The files of the root go to the queue when the log is closed.
LEMMA QueueStep ==
  ASSUME SwitchInv, NEW S \in SUBSET fs, \A f \in S : f.b = backend /\ f.d = "root" /\ At(backend, "to_upload", f.n) = {},
         fs' = Moved(S, "to_upload"), log' = None, logPath' \in LogType \cup {None}, ~busy,
         UNCHANGED <<stored, used, deleted, backend, busy, http, uploader>>
  PROVE  SwitchInv'
<1>1. \A f, g \in S : f.n = g.n => f = g
  BY DEF SwitchInv, Places
<1>2. TypeOK /\ Placed(S, backend, "to_upload")
  BY <1>1 DEF SwitchInv, TypeOK, Dir, Placed
<1>3. MovedAll(S, "to_upload")
  BY <1>2, MovedFiles
<1> USE DEF MovedAll
<1>4. TypeOK'
  BY <1>2, <1>3 DEF TypeOK, uploader
<1>5. Kept'
  BY <1>3 DEF SwitchInv, Kept
<1>6. Places'
  <2>1. \A f \in fs' : f.n \in used
    BY <1>3 DEF SwitchInv, Places
  <2>2. \A f, g \in fs' : f.d = "root" /\ g.n = f.n => g = f
    BY <1>3 DEF SwitchInv, Places
  <2>3. \A f \in fs' : f.d = "uploaded" /\ f.c = "whole" => f.n \in stored \cup deleted
    BY <1>3 DEF SwitchInv, Places
  <2>4. QED
    BY <2>1, <2>2, <2>3 DEF Places
<1>7. SentOrCut'
  <2>1. \A n, c : \A b \in Backend : File(b, "to_upload", n, c) \in fs => File(b, "to_upload", n, c) \in fs'
    BY <1>3 DEF File
  <2>2. up = "archive" => upFile.b \in Backend /\ Other(upFile.b) \in Backend
    BY <1>2, TwoBackends DEF TypeOK, LogType
  <2>3. QED
    BY <2>1, <2>2 DEF SwitchInv, SentOrCut, uploader
<1>8. OpenLogKept' /\ Handling'
  BY DEF SwitchInv, OpenLogKept, Handling
<1>9. QED
  BY <1>4, <1>5, <1>6, <1>7, <1>8 DEF SwitchInv

LEMMA StopStep == ASSUME SwitchInv, StopLog PROVE SwitchInv'
<1> DEFINE mine == Movable(At(logPath.b, "root", logPath.n), backend, "to_upload")
           all  == Movable(In(backend, "root"), backend, "to_upload")
<1>1. /\ \A S \in {mine, all} : /\ S \in SUBSET fs
                                /\ \A f \in S : f.b = backend /\ f.d = "root" /\ At(backend, "to_upload", f.n) = {}
      /\ log' = None /\ ~busy /\ UNCHANGED <<stored, used, deleted, backend, busy, http, uploader>>
  BY DEF StopLog, Movable, At, In
<1>2. CASE fs' = Moved(all, "to_upload") /\ logPath' = None
  BY <1>1, <1>2, QueueStep
<1>3. CASE fs' = Moved(mine, "to_upload") /\ logPath' = None
  BY <1>1, <1>3, QueueStep
<1>4. CASE UNCHANGED <<fs, logPath>>
  <2>1. fs' = Moved({}, "to_upload")
    BY <1>4 DEF Moved
  <2>2. logPath' \in LogType \cup {None}
    BY <1>4 DEF SwitchInv, TypeOK
  <2>3. QED
    BY <1>1, <2>1, <2>2, QueueStep
<1>5. QED
  BY <1>2, <1>3, <1>4 DEF StopLog

LEMMA StartStep == ASSUME SwitchInv, NEW n \in Name, StartLog(n) PROVE SwitchInv'
<1> DEFINE new == File(backend, "root", n, "whole")
<1>1. /\ fs' = fs \cup {new} /\ log' = [b |-> backend, n |-> n] /\ logPath' = log' /\ used' = used \cup {n}
      /\ log = None /\ n \notin used
      /\ UNCHANGED <<stored, deleted, backend, busy, http, uploader, faults>>
  BY DEF StartLog
<1>2. new \in FileType /\ new.b = backend /\ new.d = "root" /\ new.n = n /\ new.c = "whole"
  BY DEF File, FileType, SwitchInv, TypeOK, Dir
<1> HIDE DEF new
<1>3. \A f \in fs : f.n # n
  BY <1>1 DEF SwitchInv, Places
<1>4. TypeOK'
  <2>1. fs' \subseteq FileType /\ \A f, g \in fs' : f.b = g.b /\ f.d = g.d /\ f.n = g.n => f = g
    BY <1>1, <1>2, <1>3 DEF SwitchInv, TypeOK
  <2>2. log' \in LogType
    BY <1>1 DEF SwitchInv, TypeOK, LogType
  <2>3. QED
    BY <1>1, <2>1, <2>2 DEF SwitchInv, TypeOK, uploader
<1>5. Kept' /\ Places'
  BY <1>1, <1>2, <1>3 DEF SwitchInv, Kept, Places
<1>6. OpenLogKept'
  <2>1. log'.b = backend /\ log'.n = n
    BY <1>1
  <2>2. QED
    BY <1>1, <1>2, <2>1 DEF OpenLogKept, At
<1>7. SentOrCut'
  BY <1>1 DEF SwitchInv, SentOrCut, uploader
<1>8. Handling'
  <2>1. log'.n = n
    BY <1>1
  <2>2. http.at = "copy" => Copy' = Copy
    BY <1>1, <1>2 DEF Copy, At
  <2>3. QED
    BY <1>1, <2>1, <2>2 DEF SwitchInv, Handling
<1>9. QED
  BY <1>4, <1>5, <1>6, <1>7, <1>8 DEF SwitchInv

LEMMA ArchiveStep == ASSUME SwitchInv, Archive PROVE SwitchInv'
<1> USE DEF Rest
<1>0. /\ up = "archive" /\ up' = "idle" /\ upFile' = None /\ upFile \in LogType /\ TypeOK
      /\ UNCHANGED <<stored, used, deleted, logger, http, backend, busy>>
  BY DEF Archive, SwitchInv, TypeOK
<1>1. CASE UNCHANGED fs
  BY <1>0, <1>1 DEF SwitchInv, TypeOK, Kept, Places, OpenLogKept, SentOrCut, Handling, Copy, At, logger
<1>2. CASE ~busy /\ fs' = Moved(Movable(Uploading, backend, "uploaded"), "uploaded")
  <2> DEFINE S == Movable(Uploading, backend, "uploaded")
  <2>1. /\ \A f \in S : f \in fs /\ f.b = backend /\ f.b = upFile.b /\ f.d = "to_upload" /\ f.n = upFile.n
                        /\ At(backend, "uploaded", f.n) = {}
    BY DEF Movable, Uploading, At
  <2>2. Placed(S, backend, "uploaded")
    <3>1. \A f, g \in S : f.n = g.n => f = g
      BY <1>0, <2>1 DEF TypeOK
    <3>2. backend \in Backend /\ "uploaded" \in Dir
      BY <1>0 DEF TypeOK, Dir
    <3>3. QED
      BY <2>1, <3>1, <3>2 DEF Placed
  <2>3. fs' = Moved(S, "uploaded")
    BY <1>2
  <2> HIDE DEF S
  <2>4. MovedAll(S, "uploaded")
    BY <1>0, <2>2, <2>3, MovedFiles
  <2> USE DEF MovedAll
  <2>5. TypeOK'
    BY <1>0, <2>4 DEF TypeOK, logger
  <2>6. Kept'
    BY <1>0, <2>4 DEF SwitchInv, Kept
  <2>7. \A f \in fs' : f.n \in used
    BY <2>1, <2>4 DEF SwitchInv, Places
  <2>8. \A f, g \in fs' : f.d = "root" /\ g.n = f.n => g = f
    <3> SUFFICES ASSUME NEW f \in fs', NEW g \in fs', f.d = "root", g.n = f.n PROVE g = f
      OBVIOUS
    <3>1. f \in fs
      BY <2>4
    <3>2. ASSUME NEW h \in S, h.n = f.n PROVE FALSE
      BY <2>1, <3>1, <3>2 DEF SwitchInv, Places
    <3>3. QED
      BY <2>4, <3>1, <3>2 DEF SwitchInv, Places
  <2>9. \A f \in fs' : f.d = "uploaded" /\ f.c = "whole" => f.n \in stored \cup deleted
    <3> SUFFICES ASSUME NEW f \in fs', f.d = "uploaded", f.c = "whole", f.n \notin stored \cup deleted PROVE FALSE
      OBVIOUS
    <3>1. f \notin fs \ S
      BY DEF SwitchInv, Places
    <3>2. PICK g \in S : g.b = f.b /\ g.n = f.n /\ g.c = f.c
      BY <2>4, <3>1
    <3>3. File(upFile.b, "to_upload", upFile.n, "part") \in fs
      BY <1>0, <2>1, <3>2 DEF SwitchInv, SentOrCut
    <3>4. g = File(upFile.b, "to_upload", upFile.n, "part")
      BY <1>0, <2>1, <3>2, <3>3 DEF TypeOK, File
    <3>5. g.c = "part"
      BY <3>4 DEF File
    <3>6. QED
      BY <3>2, <3>5
  <2>10. Places'
    BY <1>0, <2>7, <2>8, <2>9 DEF Places
  <2>11. OpenLogKept'
    BY <1>0, <2>1, <2>4 DEF SwitchInv, OpenLogKept, At, logger
  <2>12. SentOrCut' /\ Handling'
    BY <1>0, <1>2 DEF SwitchInv, SentOrCut, Handling, logger
  <2>13. QED
    BY <2>5, <2>6, <2>10, <2>11, <2>12 DEF SwitchInv
<1>3. QED
  BY <1>1, <1>2 DEF Archive

-----------------------------------------------------------------------------
(* Steps that remove files.                                                *)

\* S may go: its files were deleted by a client or are done with, and none of them
\* is the open log.
Removal(S) ==
  /\ S \subseteq fs /\ fs' = fs \ S
  /\ deleted \subseteq deleted' /\ deleted' \subseteq Name
  /\ \A f \in S : f.n \in deleted' \/ f.d = "uploaded"
  /\ \A f \in S : log # None => f.d # "root" \/ f.b # log.b \/ f.n # log.n
  /\ UNCHANGED <<stored, used, backend, logger, busy, up, upFile>>
  /\ http' = http \/ http' = Idle
  /\ http.at # "copy"

LEMMA RemoveStep == ASSUME SwitchInv, NEW S, Removal(S) PROVE SwitchInv'
<1> USE DEF Removal
<1>1. TypeOK'
  <2>1. http' \in HttpType
    BY DEF SwitchInv, TypeOK, HttpType, Idle, Backend
  <2>2. QED
    BY <2>1 DEF SwitchInv, TypeOK, HttpType, logger
<1>2. Kept'
  <2> SUFFICES ASSUME NEW n \in used \ deleted', n \notin stored PROVE \E f \in fs' : f.n = n /\ f.c = "whole"
    BY DEF Kept
  <2>1. PICK f \in fs : f.n = n /\ f.c = "whole"
    BY DEF SwitchInv, Kept
  <2>2. f.d # "uploaded"
    BY <2>1 DEF SwitchInv, Places
  <2>3. QED
    BY <2>1, <2>2
<1>3. Places'
  BY DEF SwitchInv, Places
<1>4. OpenLogKept'
  BY DEF SwitchInv, OpenLogKept, At, logger
<1>5. SentOrCut'
  <2> SUFFICES ASSUME up = "archive", upFile.n \notin stored \cup deleted'
               PROVE  \A b, c : LET f == File(b, "to_upload", upFile.n, c) IN f \in fs => f \in fs'
    BY DEF SwitchInv, SentOrCut
  <2>1. QED
    BY DEF File
<1>6. Handling'
  BY DEF SwitchInv, Handling, Idle, logger
<1>7. QED
  BY <1>1, <1>2, <1>3, <1>4, <1>5, <1>6 DEF SwitchInv

LEMMA DeleteStep ==
  ASSUME SwitchInv, FsDelete \/ FlashDelete \/ FlashClearUploaded \/ Cleanup PROVE SwitchInv'
<1> USE DEF Keeps, Rest
<1>0. fs \subseteq FileType /\ log \in LogType \cup {None}
  BY DEF SwitchInv, TypeOK
<1>1. CASE FsDelete
  <2>1. /\ http.at = "delete" /\ http' = Idle
        /\ UNCHANGED <<stored, used, backend, logger, busy, up, upFile>>
    BY <1>1 DEF FsDelete, uploader
  <2>2. CASE NotActiveLog /\ fs' = fs \ At("sd", http.b, http.n) /\ deleted' = deleted \cup {http.n}
    <3> DEFINE S == At("sd", http.b, http.n)
    <3>1. S \in SUBSET fs /\ \A f \in S : f.n = http.n
      BY DEF At
    <3>2. http.n \in Name
      BY <2>1 DEF SwitchInv, Handling, TypeOK
    <3>3. \A f \in S : log # None => f.n # log.n
      BY <2>1, <2>2, <3>1 DEF SwitchInv, Handling, NotActiveLog
    <3>4. deleted' \subseteq Name /\ deleted \subseteq deleted'
      BY <2>2, <3>2 DEF SwitchInv, TypeOK
    <3> HIDE DEF S
    <3>5. fs' = fs \ S
      BY <2>2 DEF S
    <3>6. Removal(S)
      BY <2>1, <2>2, <3>1, <3>3, <3>4, <3>5 DEF Removal
    <3>7. QED
      BY <3>6, RemoveStep
  <2>3. CASE UNCHANGED <<fs, deleted>>
    <3>1. fs' = fs \ {} /\ deleted \subseteq deleted' /\ deleted' \subseteq Name
      BY <2>3 DEF SwitchInv, TypeOK
    <3>2. Removal({})
      BY <2>1, <3>1 DEF Removal
    <3>3. QED
      BY <3>2, RemoveStep
  <2>4. QED
    BY <1>1, <2>2, <2>3 DEF FsDelete
<1>2. CASE FlashDelete
  <2>1. PICK f \in fs : f.b = "flash" /\ (f.d = "root" => logPath # [b |-> "flash", n |-> f.n])
                        /\ fs' = fs \ {f} /\ deleted' = deleted \cup {f.n}
    BY <1>2 DEF FlashDelete
  <2>2. /\ UNCHANGED <<stored, used, backend, logger, busy, up, upFile>> /\ http.at = "idle" /\ http' = http
    BY <1>2 DEF FlashDelete, uploader
  <2>3. f.n \in Name /\ deleted \subseteq deleted' /\ deleted' \subseteq Name
    BY <1>0, <2>1 DEF FileType, SwitchInv, TypeOK
  <2>4. ASSUME log # None, f.d = "root", f.b = log.b, f.n = log.n PROVE FALSE
    <3>1. log = [b |-> log.b, n |-> log.n] /\ log = logPath
      BY <1>0, <2>4 DEF LogType, SwitchInv, OpenLogKept
    <3>2. QED
      BY <2>1, <2>4, <3>1
  <2>5. Removal({f})
    BY <2>1, <2>2, <2>3, <2>4 DEF Removal
  <2>6. QED
    BY <2>5, RemoveStep
<1>3. CASE FlashClearUploaded \/ Cleanup
  <2>1. PICK f \in fs : f.d = "uploaded" /\ fs' = fs \ {f}
    BY <1>3 DEF FlashClearUploaded, Cleanup, In
  <2>2. /\ UNCHANGED <<stored, used, deleted, backend, logger, busy, up, upFile>> /\ http' = http
    <3>1. CASE FlashClearUploaded
      BY <3>1 DEF FlashClearUploaded, uploader
    <3>2. CASE Cleanup
      BY <3>2 DEF Cleanup
    <3>3. QED
      BY <1>3, <3>1, <3>2
  <2>3. http.at # "copy"
    BY <1>3 DEF FlashClearUploaded, Cleanup, SwitchInv, Handling
  <2>4. deleted \subseteq deleted' /\ deleted' \subseteq Name
    BY <2>2 DEF SwitchInv, TypeOK
  <2>5. Removal({f})
    BY <2>1, <2>2, <2>3, <2>4 DEF Removal
  <2>6. QED
    BY <2>5, RemoveStep
<1>4. QED
  BY <1>1, <1>2, <1>3

\* A restart cuts off what was being copied.
LEMMA CrashStep == ASSUME SwitchInv, Crash PROVE SwitchInv'
<1> DEFINE Cut(f) == [f EXCEPT !.c = IF @ = "growing" THEN "part" ELSE @]
<1>1. /\ fs' = {Cut(f) : f \in fs} /\ log' = None /\ logPath' = None /\ busy' = FALSE /\ http' = Idle
      /\ up' = "idle" /\ upFile' = None /\ UNCHANGED <<backend, stored, used, deleted>>
  BY DEF Crash
<1>2. \A f \in fs : /\ Cut(f) \in FileType /\ Cut(f).b = f.b /\ Cut(f).d = f.d /\ Cut(f).n = f.n
                    /\ (Cut(f).c = "whole" <=> f.c = "whole")
  BY DEF SwitchInv, TypeOK, FileType
<1> HIDE DEF Cut
<1>3. http' \in HttpType /\ http'.at = "idle"
  BY <1>1 DEF HttpType, Idle, Backend
<1>4. fs' \subseteq FileType /\ \A f, g \in fs' : f.b = g.b /\ f.d = g.d /\ f.n = g.n => f = g
  BY <1>1, <1>2 DEF SwitchInv, TypeOK
<1>5. TypeOK'
  BY <1>1, <1>3, <1>4 DEF SwitchInv, TypeOK, HttpType
<1>6. Kept' /\ Places'
  BY <1>1, <1>2 DEF SwitchInv, Kept, Places
<1>7. OpenLogKept' /\ SentOrCut' /\ Handling'
  BY <1>1, <1>3 DEF OpenLogKept, SentOrCut, Handling
<1>8. QED
  BY <1>5, <1>6, <1>7 DEF SwitchInv

-----------------------------------------------------------------------------
(* The transfer.                                                           *)

LEMMA CopyStartStep == ASSUME SwitchInv, CopyStarts PROVE SwitchInv'
<1> USE DEF Keeps
<1> DEFINE to == Other(http.b)
<1>1. PICK f \in Absent :
        /\ fs' = fs \cup {File(to, "to_upload", f.n, "growing")}
        /\ http' = [http EXCEPT !.at = "copy", !.n = f.n, !.scanned = @ \cup {f.n}]
  BY DEF CopyStarts
<1>2. /\ f \in fs /\ f \in FileType /\ f.b = http.b /\ f.d = "to_upload" /\ At(to, "to_upload", f.n) = {}
      /\ http \in HttpType /\ http.b \in Backend /\ to \in Backend /\ busy /\ f.n \in Name
  BY <1>1, TwoBackends DEF CopyStarts, Absent, In, SwitchInv, TypeOK, HttpType, Handling, FileType
<1>3. UNCHANGED <<stored, used, deleted, backend, busy, logger, uploader>>
  BY DEF CopyStarts
<1> HIDE DEF to
<1> DEFINE new == File(to, "to_upload", f.n, "growing")
<1>4. new \in FileType /\ new.b = to /\ new.d = "to_upload" /\ new.n = f.n /\ new.c = "growing"
  BY <1>2 DEF File, FileType, Dir
<1>5. fs' = fs \cup {new}
  BY <1>1
<1> HIDE DEF new
<1>6. http' \in HttpType /\ http'.at = "copy" /\ http'.b = http.b /\ http'.n = f.n
  BY <1>1, <1>2 DEF HttpType
<1>7. TypeOK'
  <2>1. fs' \subseteq FileType /\ \A g, h \in fs' : g.b = h.b /\ g.d = h.d /\ g.n = h.n => g = h
    BY <1>2, <1>4, <1>5 DEF SwitchInv, TypeOK, At
  <2>2. QED
    BY <1>3, <1>6, <2>1 DEF SwitchInv, TypeOK, HttpType, logger, uploader
<1>8. Kept'
  BY <1>3, <1>5 DEF SwitchInv, Kept
<1>9. Places'
  <2>1. f.n \in used /\ \A g \in fs : g.d = "root" => g.n # f.n
    BY <1>2 DEF SwitchInv, Places
  <2>2. QED
    BY <1>3, <1>4, <1>5, <2>1 DEF SwitchInv, Places
<1>10. OpenLogKept' /\ SentOrCut'
  BY <1>3, <1>5 DEF SwitchInv, OpenLogKept, SentOrCut, At, logger, uploader
<1>11. Handling'
  <2>1. Copy' = {new}
    <3>1. Copy' = {g \in fs' : g.b = to /\ g.d = "to_upload" /\ g.n = f.n}
      BY <1>6 DEF Copy, At, to
    <3>2. QED
      BY <1>2, <1>4, <1>5, <3>1 DEF At
  <2>2. QED
    BY <1>2, <1>3, <1>4, <1>6, <2>1 DEF Handling
<1>12. QED
  BY <1>7, <1>8, <1>9, <1>10, <1>11 DEF SwitchInv

\* The copy k and the sources in gone are replaced by at most one copy, whole if a
\* whole source is gone.
CopyEnds(k, gone, new) ==
  /\ fs' = (fs \ ({k} \cup gone)) \cup new
  /\ \A x, y \in new : x = y
  /\ \A x \in new : x.b = Other(http.b) /\ x.d = "to_upload" /\ x.n = http.n
  /\ \A g \in gone : g.c = "whole" => \E x \in new : x.c = "whole"

LEMMA CopyEndStep == ASSUME ~LastWriteFails, SwitchInv, CopyFileThenRemove PROVE SwitchInv'
<1> USE DEF Keeps
<1> DEFINE to == Other(http.b)
           n  == http.n
<1>1. /\ http.at = "copy" /\ http' = [http EXCEPT !.at = "scan", !.n = None] /\ busy
      /\ http \in HttpType /\ http.b \in Backend /\ to \in Backend /\ to # http.b
      /\ UNCHANGED <<stored, used, deleted, backend, busy, logger, uploader>>
  BY TwoBackends DEF CopyFileThenRemove, SwitchInv, TypeOK, HttpType, Handling
<1>2. PICK k \in Copy : Copy = {k} /\ k.c = "growing"
  BY <1>1 DEF SwitchInv, Handling, TypeOK, Copy, At
<1>3. k \in fs /\ k \in FileType /\ k.b = to /\ k.d = "to_upload" /\ k.n = n
  BY <1>2 DEF Copy, At, SwitchInv, TypeOK
<1>4. \A g \in Source : g \in fs /\ g \in FileType /\ g.b = http.b /\ g.d = "to_upload" /\ g.n = n /\ g # k
  BY <1>1, <1>3 DEF Source, At, SwitchInv, TypeOK
\* What is in the directories afterwards.
<1>5. \E gone \in SUBSET Source, new \in SUBSET FileType : CopyEnds(k, gone, new)
  <2>1. ASSUME NEW gone, gone = Source \/ gone = {}, CopySucceeds("whole", gone)
        PROVE  \E new \in SUBSET FileType : CopyEnds(k, gone, new)
    <3> DEFINE new == {[k EXCEPT !.c = g.c] : g \in Source}
    <3>1. fs' = (fs \ (Copy \cup gone)) \cup {[f EXCEPT !.c = IF "whole" = "part" THEN "whole" ELSE g.c] : f \in Copy, g \in Source}
      BY <2>1 DEF CopySucceeds
    <3>2. {[f EXCEPT !.c = IF "whole" = "part" THEN "whole" ELSE g.c] : f \in Copy, g \in Source} = new
      BY <1>2
    <3>3. fs' = (fs \ ({k} \cup gone)) \cup new
      BY <1>2, <3>1, <3>2
    <3>4. \A g \in Source : LET x == [k EXCEPT !.c = g.c]
                            IN x \in FileType /\ x.b = to /\ x.d = "to_upload" /\ x.n = n /\ x.c = g.c
      BY <1>3, <1>4 DEF FileType
    <3>5. \A g, h \in Source : g = h
      BY <1>4 DEF SwitchInv, TypeOK
    <3>6. new \in SUBSET FileType /\ \A x, y \in new : x = y
      BY <3>4, <3>5
    <3>7. \A x \in new : x.b = to /\ x.d = "to_upload" /\ x.n = n
      BY <3>4
    <3>8. \A g \in gone : g.c = "whole" => \E x \in new : x.c = "whole"
      BY <2>1, <3>4
    <3> HIDE DEF new
    <3>9. CopyEnds(k, gone, new)
      BY <3>3, <3>6, <3>7, <3>8 DEF CopyEnds
    <3>10. QED
      BY <3>6, <3>9
  <2>2. CASE CopyFails
    <3> DEFINE cut == [k EXCEPT !.c = "part"]
    <3>1. cut \in FileType /\ cut.b = to /\ cut.d = "to_upload" /\ cut.n = n
      BY <1>3 DEF FileType
    <3>2. PICK kept \in {{}, {[f EXCEPT !.c = "part"] : f \in Copy}} : fs' = (fs \ Copy) \cup kept
      BY <2>2 DEF CopyFails
    <3>3. kept = {} \/ kept = {cut}
      BY <1>2, <3>2
    <3> HIDE DEF cut
    <3>4. fs' = (fs \ ({k} \cup {})) \cup kept /\ kept \in SUBSET FileType
      BY <1>2, <3>1, <3>2, <3>3
    <3>5. CopyEnds(k, {}, kept)
      BY <3>1, <3>3, <3>4 DEF CopyEnds
    <3>6. QED
      BY <3>4, <3>5
  <2>3. CopySucceeds("whole", Source) \/ CopyFails \/ CopySucceeds("whole", {})
    BY DEF CopyFileThenRemove
  <2>4. QED
    BY <2>1, <2>2, <2>3
<1>6. PICK gone \in SUBSET Source, new \in SUBSET FileType : CopyEnds(k, gone, new)
  BY <1>5
<1> USE DEF CopyEnds
<1>7. http' \in HttpType /\ http'.at = "scan" /\ http'.b = http.b
  BY <1>1 DEF HttpType
<1>8. TypeOK'
  <2>1. \A x \in new, g \in fs \ {k} : ~(x.b = g.b /\ x.d = g.d /\ x.n = g.n)
    BY <1>3, <1>6 DEF SwitchInv, TypeOK
  <2>2. \A x, y \in fs' : x.b = y.b /\ x.d = y.d /\ x.n = y.n => x = y
    BY <1>6, <2>1 DEF SwitchInv, TypeOK
  <2>3. fs' \subseteq FileType
    BY <1>6 DEF SwitchInv, TypeOK
  <2>4. QED
    BY <1>1, <1>7, <2>2, <2>3 DEF SwitchInv, TypeOK, HttpType, logger, uploader
<1>9. Kept'
  <2> SUFFICES ASSUME NEW m \in used \ deleted, m \notin stored PROVE \E x \in fs' : x.n = m /\ x.c = "whole"
    BY <1>1 DEF Kept
  <2>1. PICK f \in fs : f.n = m /\ f.c = "whole"
    BY DEF SwitchInv, Kept
  <2>2. CASE f \in gone
    BY <1>4, <1>6, <2>1, <2>2
  <2>3. CASE f \notin gone
    BY <1>2, <1>6, <2>1, <2>3
  <2>4. QED
    BY <2>2, <2>3
<1>10. Places'
  <2>1. n \in used /\ \A g \in fs : g.d = "root" => g.n # n
    BY <1>3 DEF SwitchInv, Places
  <2>2. QED
    BY <1>1, <1>6, <2>1 DEF SwitchInv, Places
<1>11. OpenLogKept'
  BY <1>1, <1>3, <1>4, <1>6 DEF SwitchInv, OpenLogKept, At, logger
<1>12. SentOrCut'
  <2> SUFFICES ASSUME up = "archive", upFile.n \notin stored \cup deleted
               PROVE  /\ File(upFile.b, "to_upload", upFile.n, "part") \in fs'
                      /\ File(Other(upFile.b), "to_upload", upFile.n, "whole") \in fs'
    BY <1>1 DEF SentOrCut, uploader
  <2> DEFINE p == File(upFile.b, "to_upload", upFile.n, "part")
             q == File(Other(upFile.b), "to_upload", upFile.n, "whole")
  <2>1. /\ p \in fs /\ p.b = upFile.b /\ p.d = "to_upload" /\ p.n = upFile.n /\ p.c = "part"
        /\ q \in fs /\ q.b = Other(upFile.b) /\ q.d = "to_upload" /\ q.n = upFile.n /\ q.c = "whole"
    <3>1. p \in fs /\ q \in fs
      BY DEF SwitchInv, SentOrCut
    <3>2. QED
      BY <3>1 DEF File
  <2>2. to = upFile.b \/ to = Other(upFile.b)
    <3>1. upFile.b \in Backend
      BY DEF SwitchInv, TypeOK, LogType
    <3>2. QED
      BY <1>1, <3>1, TwoBackends
  <2> HIDE DEF p, q
  <2>3. upFile.n # n
    BY <1>2, <1>3, <2>1, <2>2 DEF SwitchInv, TypeOK
  <2>4. p \in fs' /\ q \in fs'
    BY <1>3, <1>4, <1>6, <2>1, <2>3
  <2>5. QED
    BY <2>4 DEF p, q
<1>13. Handling'
  BY <1>1, <1>7 DEF Handling
<1>14. QED
  BY <1>8, <1>9, <1>10, <1>11, <1>12, <1>13 DEF SwitchInv

-----------------------------------------------------------------------------
LEMMA SwitchStep == ASSUME ~LastWriteFails, SwitchInv, [Next]_vars PROVE SwitchInv'
<1>1. CASE UNCHANGED vars
  <2>1. UNCHANGED <<files, logger, uploader, http, backend, busy>>
    BY <1>1 DEF vars
  <2>2. TypeOK' /\ Kept' /\ Places' /\ OpenLogKept' /\ SentOrCut'
    BY <2>1, SameFiles DEF SwitchInv, TypeOK, HttpType
  <2>3. Handling'
    BY <2>1 DEF SwitchInv, Handling, Copy, At, files, logger
  <2>4. QED
    BY <2>2, <2>3 DEF SwitchInv
<1>2. CASE Handler
  BY <1>2, HandlerStep, DeleteStep, CopyStartStep, CopyEndStep DEF Handler
<1>3. CASE Ask
  BY <1>3, HandlerStep, DeleteStep DEF Ask
<1>4. CASE UploadTask
  BY <1>4, UploadStep, ArchiveStep, DeleteStep DEF UploadTask
<1>5. CASE (\E n \in Name : StartLog(n)) \/ StopLog \/ Crash
  BY <1>5, StartStep, StopStep, CrashStep
<1>6. QED
  BY <1>1, <1>2, <1>3, <1>4, <1>5 DEF Next

\* The inductive invariant, for any names, transfers, deletions and failures.
THEOREM SwitchHolds == ASSUME ~LastWriteFails PROVE Spec => []SwitchInv
<1>1. SwitchInv /\ [Next]_vars => SwitchInv'
  BY SwitchStep
<1>2. QED
  BY InitSwitch, <1>1, PTL DEF Spec

\* Whatever is moved, cut off, switched, uploaded or purged, a log no client deleted
\* is whole on a backend or in MinIO, when fclose() of a copy does not fail.
THEOREM LogsAreKept == ASSUME ~LastWriteFails PROVE Spec => []Kept
<1>1. SwitchInv => Kept
  BY DEF SwitchInv
<1>2. QED
  BY <1>1, SwitchHolds, PTL

\* No deletion, transfer or sweep takes the open log from its writer.
THEOREM OpenLogIsKept == ASSUME ~LastWriteFails PROVE Spec => []OpenLogKept
<1>1. SwitchInv => OpenLogKept
  BY DEF SwitchInv
<1>2. QED
  BY <1>1, SwitchHolds, PTL

-----------------------------------------------------------------------------
(* The lists                                                               *)

\* A set in some order: each element once.
LEMMA EachOnce ==
  ASSUME NEW S, IsFiniteSet(S), NEW s, s = SetToSeq(S)
  PROVE  s \in Seq(S) /\ Len(s) = Cardinality(S) /\ Range(s) = S
<1> DEFINE n == Cardinality(S)
           Order(f) == f \in [1..n -> S] /\ IsInjective(f)
<1>1. n \in Nat /\ \E f : Order(f)
  BY FS_CardinalityType DEF ExistsBijection, Bijection, Injection
<1>2. s = CHOOSE f \in [1..n -> S] : IsInjective(f)
  BY DEF SetToSeq
<1> HIDE DEF n
<1>3. s \in [1..n -> S] /\ IsInjective(s)
  BY <1>1, <1>2
<1>4. s \in Injection(1..n, S)
  BY <1>3 DEF Injection
<1>5. Cardinality(1..n) = n
  BY <1>1, FS_Interval
<1>6. s \in Surjection(1..n, S)
  BY <1>4, <1>5, FS_Injection DEF n
<1>7. Range(s) = S
  BY <1>6 DEF Surjection, Range
<1>8. QED
  BY <1>1, <1>3, <1>7 DEF n

LEMMA PageCount ==
  ASSUME NEW total \in Nat, NEW size \in Nat \ {0}, NEW q, q = TotalPages(total, size)
  PROVE  /\ q \in Nat /\ q * size >= total
         /\ \A p \in 1..q : (p - 1) * size \in Nat /\ (p - 1) * size < total /\ (p - 1) * size + size = p * size
<1>1. q \in Nat /\ q * size <= total + size - 1 /\ total + size - 1 < q * size + size
  BY DEF TotalPages
<1>2. q * size >= total
  BY <1>1
<1>3. ASSUME NEW p \in 1..q
      PROVE  (p - 1) * size \in Nat /\ (p - 1) * size < total /\ (p - 1) * size + size = p * size
  <2>1. (p - 1) * size \in Nat /\ (p - 1) * size + size = p * size
    OBVIOUS
  <2>2. p * size <= q * size
    BY <1>1
  <2>3. p * size \in Nat /\ q * size \in Nat
    BY <1>1
  <2>4. QED
    BY <1>1, <2>1, <2>2, <2>3
<1>4. QED
  BY <1>1, <1>2, <1>3

\* The pages one after the other are the list.
LEMMA PagesJoin ==
  ASSUME NEW X, NEW e \in Seq(X), NEW size \in Nat \ {0}
  PROVE  FlattenSeq([p \in 1..Reply(e, 0, size).pages |-> Reply(e, p - 1, size).entries]) = e
<1> DEFINE total == Len(e)
           q == TotalPages(total, size)
           End(p) == IF p * size > total THEN total ELSE p * size
           pages == [p \in 1..q |-> Reply(e, p - 1, size).entries]
           Made(f) == f = [i \in 1..q |-> IF i = 1 THEN pages[i] ELSE f[i - 1] \o pages[i]]
           first == [i \in 1..q |-> SubSeq(e, 1, End(i))]
           flat == CHOOSE f : Made(f)
<1>1. total \in Nat
  BY LenProperties
<1>2. /\ q \in Nat /\ q * size >= total
      /\ \A p \in 1..q : (p - 1) * size \in Nat /\ (p - 1) * size < total /\ (p - 1) * size + size = p * size
  BY <1>1, PageCount
<1>3. Reply(e, 0, size).pages = q
  BY DEF Reply
<1> HIDE DEF total, q
<1>4. ASSUME NEW p \in 1..q
      PROVE  /\ pages[p] = SubSeq(e, (p - 1) * size + 1, End(p))
             /\ End(p) \in 1..total /\ (p - 1) * size \in 0..End(p)
  <2> DEFINE from == (p - 1) * size
  <2>1. from \in Nat /\ from < total /\ from + size = p * size
    BY <1>2
  <2> DEFINE start == IF from >= total THEN 0 ELSE from
  <2>2. pages[p] = SubSeq(e, start + 1, IF start + size > total THEN total ELSE start + size)
    BY DEF Reply, total
  <2> HIDE DEF pages, from
  <2>3. start = from
    BY <1>1, <2>1
  <2>4. pages[p] = SubSeq(e, from + 1, End(p))
    BY <2>1, <2>2, <2>3
  <2>5. End(p) \in 1..total /\ from \in 0..End(p)
    BY <1>1, <2>1
  <2>6. QED
    BY <2>4, <2>5 DEF from
<1> HIDE DEF pages
<1>5. ASSUME NEW i \in 1..q PROVE first[i] = IF i = 1 THEN pages[i] ELSE first[i - 1] \o pages[i]
  <2>1. CASE i = 1
    <3>1. (i - 1) * size + 1 = 1
      BY <2>1
    <3>2. QED
      BY <1>4, <2>1, <3>1
  <2>2. CASE i # 1
    <3> DEFINE m == (i - 1) * size
    <3>1. i - 1 \in 1..q
      BY <1>2, <2>2
    <3>2. End(i - 1) = m
      BY <1>1, <1>2
    <3>3. m \in 0..End(i) /\ End(i) \in 0..total /\ m \in 0..total
      BY <1>1, <1>4
    <3>4. pages[i] = SubSeq(e, m + 1, End(i)) /\ first[i] = SubSeq(e, 1, End(i)) /\ first[i - 1] = SubSeq(e, 1, m)
      BY <1>4, <3>1, <3>2
    <3> HIDE DEF m, End, first
    <3>5. SubSeq(e, 1, m) \o SubSeq(e, m + 1, End(i)) = SubSeq(e, 1, End(i))
      BY <1>1, <3>3, ConcatAdjacentSubSeq DEF total
    <3>6. QED
      BY <2>2, <3>4, <3>5
  <2>3. QED
    BY <2>1, <2>2
<1>6. Made(flat)
  <2>1. Made(first)
    BY <1>5
  <2> HIDE DEF first
  <2>2. QED
    BY <2>1
<1> HIDE DEF flat
<1>7. CASE q = 0
  <2>1. total = 0
    BY <1>1, <1>2, <1>7
  <2>2. e = <<>>
    BY <2>1, EmptySeq DEF total
  <2>3. pages = <<>>
    BY <1>7 DEF pages
  <2>4. FlattenSeq(pages) = <<>>
    BY <2>3 DEF FlattenSeq
  <2>5. QED
    BY <1>3, <2>2, <2>4 DEF pages
<1>8. CASE q # 0
  <2> DEFINE T == {n \in Nat : n + 1 \in 1..q => flat[n + 1] = first[n + 1]}
  <2>1. \A i \in 1..q : flat[i] = IF i = 1 THEN pages[i] ELSE flat[i - 1] \o pages[i]
    BY <1>6
  <2> HIDE DEF first
  <2>2. 0 \in T
    BY <1>5, <2>1
  <2>3. ASSUME NEW n \in T PROVE n + 1 \in T
    <3>1. SUFFICES ASSUME n + 2 \in 1..q PROVE flat[n + 2] = first[n + 2]
      OBVIOUS
    <3>2. n + 1 \in 1..q /\ (n + 2) - 1 = n + 1 /\ n + 2 # 1
      BY <1>2, <3>1
    <3>3. flat[n + 1] = first[n + 1]
      BY <3>2
    <3>4. flat[n + 2] = flat[n + 1] \o pages[n + 2] /\ first[n + 2] = first[n + 1] \o pages[n + 2]
      BY <1>5, <2>1, <3>1, <3>2
    <3>5. QED
      BY <3>3, <3>4
  <2>4. T = Nat
    <3> HIDE DEF T
    <3>1. T \in SUBSET Nat
      BY DEF T
    <3>2. QED
      BY <2>2, <2>3, <3>1, NaturalsByStep
  <2>5. q - 1 \in Nat /\ (q - 1) + 1 = q /\ q \in 1..q
    BY <1>2, <1>8
  <2>6. flat[q] = first[q]
    BY <2>4, <2>5
  <2>7. first[q] = SubSeq(e, 1, total)
    <3>1. End(q) = total
      BY <1>1, <1>2
    <3>2. QED
      BY <2>5, <3>1 DEF first
  <2>8. Len(pages) = q
    BY <1>2 DEF pages
  <2>9. FlattenSeq(pages) = flat[q]
    BY <1>8, <2>8 DEF FlattenSeq, flat
  <2>10. QED
    BY <1>3, <2>6, <2>7, <2>9, SubSeqFull DEF pages, total
<1>9. QED
  BY <1>7, <1>8

\* What a list needs: finitely many names were ever created, and each file has one.
Listed ==
  /\ IsFiniteSet(used) /\ used \subseteq Name
  /\ \A f \in fs : f = File(f.b, f.d, f.n, f.c) /\ f.n \in used

\* Moving or cutting off a file leaves it its name.
LEMMA SameName ==
  ASSUME NEW f, f = File(f.b, f.d, f.n, f.c), NEW x, NEW g, g = [f EXCEPT !.d = x] \/ g = [f EXCEPT !.c = x]
  PROVE  g = File(g.b, g.d, g.n, g.c) /\ g.n = f.n
  BY DEF File

LEMMA StartListed == ASSUME Listed, NEW n \in Name, StartLog(n) PROVE Listed'
<1>1. used' = used \cup {n} /\ fs' = fs \cup {File(backend, "root", n, "whole")}
  BY DEF StartLog
<1>2. IsFiniteSet(used') /\ used' \subseteq Name
  BY <1>1, FS_AddElement DEF Listed
<1>3. LET g == File(backend, "root", n, "whole") IN g = File(g.b, g.d, g.n, g.c) /\ g.n = n
  BY DEF File
<1>4. QED
  BY <1>1, <1>2, <1>3 DEF Listed

\* No other step gives a file a name that it had not.
LEMMA NamesStay ==
  ASSUME Listed, UNCHANGED used,
         \A g \in fs' : g \in fs \/ (\E f \in fs : g = [f EXCEPT !.d = g.d] \/ g = [f EXCEPT !.c = g.c])
                       \/ (\E f \in fs : g = File(g.b, g.d, f.n, g.c))
  PROVE  Listed'
<1>1. ASSUME NEW g \in fs' PROVE g = File(g.b, g.d, g.n, g.c) /\ g.n \in used
  <2>1. CASE g \in fs
    BY <2>1 DEF Listed
  <2>2. ASSUME NEW f \in fs, g = [f EXCEPT !.d = g.d] \/ g = [f EXCEPT !.c = g.c]
        PROVE  g = File(g.b, g.d, g.n, g.c) /\ g.n \in used
    <3>1. f = File(f.b, f.d, f.n, f.c) /\ f.n \in used
      BY DEF Listed
    <3>2. g = File(g.b, g.d, g.n, g.c) /\ g.n = f.n
      BY <2>2, <3>1, SameName
    <3>3. QED
      BY <3>1, <3>2
  <2>3. ASSUME NEW f \in fs, g = File(g.b, g.d, f.n, g.c)
        PROVE  g = File(g.b, g.d, g.n, g.c) /\ g.n \in used
    <3>1. g.n = f.n
      BY <2>3 DEF File
    <3>2. QED
      BY <2>3, <3>1 DEF Listed
  <2>4. QED
    BY <2>1, <2>2, <2>3
<1>2. QED
  BY <1>1 DEF Listed

\* Moving, cutting off or copying, as the actions write it.
LEMMA MovedNames ==
  ASSUME Listed, NEW S \in SUBSET fs, NEW d, NEW g \in Moved(S, d)
  PROVE  g \in fs \/ \E f \in fs : g = [f EXCEPT !.d = g.d]
<1>1. ASSUME NEW f \in S, g = [f EXCEPT !.d = d] PROVE g = [f EXCEPT !.d = g.d]
  <2>1. f = File(f.b, f.d, f.n, f.c)
    BY DEF Listed
  <2>2. g.d = d
    BY <1>1, <2>1 DEF File
  <2>3. QED
    BY <1>1, <2>2
<1>2. QED
  BY <1>1 DEF Moved

LEMMA CutNames ==
  ASSUME Listed, NEW f \in fs, NEW c, NEW g, g = [f EXCEPT !.c = c]
  PROVE  g = [f EXCEPT !.c = g.c]
<1>1. f = File(f.b, f.d, f.n, f.c)
  BY DEF Listed
<1>2. g.c = c
  BY <1>1 DEF File
<1>3. QED
  BY <1>2

LEMMA StepListed == ASSUME Listed, [Next]_vars PROVE Listed'
<1> USE DEF Keeps, Rest
<1>1. CASE UNCHANGED <<fs, used>>
  BY <1>1 DEF Listed
<1>2. ASSUME NEW n \in Name, StartLog(n) PROVE Listed'
  BY <1>2, StartListed
<1>3. CASE StopLog
  <2>1. UNCHANGED used
    BY <1>3 DEF StopLog
  <2>2. UNCHANGED fs \/ \E S \in SUBSET fs : fs' = Moved(S, "to_upload")
    BY <1>3 DEF StopLog, Movable, At, In
  <2>3. QED
    BY <2>1, <2>2, MovedNames, NamesStay
<1>4. CASE CopyStarts
  <2>1. PICK f \in fs : fs' = fs \cup {File(Other(http.b), "to_upload", f.n, "growing")}
    BY <1>4 DEF CopyStarts, Absent, In
  <2>2. UNCHANGED used
    BY <1>4 DEF CopyStarts
  <2>3. LET g == File(Other(http.b), "to_upload", f.n, "growing") IN g = File(g.b, g.d, f.n, g.c)
    BY DEF File
  <2>4. QED
    BY <2>1, <2>2, <2>3, NamesStay
<1>5. CASE CopyFileThenRemove
  <2>1. UNCHANGED used
    BY <1>5 DEF CopyFileThenRemove
  <2>2. ASSUME NEW g \in fs', g \notin fs PROVE \E f \in fs, c \in {"part"} \cup {h.c : h \in fs} : g = [f EXCEPT !.c = c]
    <3>1. Copy \subseteq fs /\ Source \subseteq fs
      BY DEF Copy, Source, At
    <3>2. CASE CopyFails
      BY <2>2, <3>1, <3>2 DEF CopyFails
    <3>3. ASSUME NEW c \in {"whole", "part"}, NEW gone, CopySucceeds(c, gone)
          PROVE  \E f \in fs, x \in {"part"} \cup {h.c : h \in fs} : g = [f EXCEPT !.c = x]
      BY <2>2, <3>1, <3>3 DEF CopySucceeds
    <3>4. QED
      BY <1>5, <3>2, <3>3 DEF CopyFileThenRemove
  <2>3. QED
    BY <2>1, <2>2, CutNames, NamesStay
<1>6. CASE Archive
  <2>1. UNCHANGED used
    BY <1>6 DEF Archive
  <2>2. UNCHANGED fs \/ \E S \in SUBSET fs : fs' = Moved(S, "uploaded")
    BY <1>6 DEF Archive, Movable, Uploading, At
  <2>3. QED
    BY <2>1, <2>2, MovedNames, NamesStay
<1>7. CASE Crash
  <2>1. UNCHANGED used /\ \A g \in fs' : \E f \in fs : g = [f EXCEPT !.c = IF f.c = "growing" THEN "part" ELSE f.c]
    BY <1>7 DEF Crash
  <2>2. QED
    BY <2>1, CutNames, NamesStay
<1>8. CASE FsDelete \/ FlashDelete \/ FlashClearUploaded \/ Cleanup
  <2>1. UNCHANGED used /\ fs' \subseteq fs
    BY <1>8 DEF FsDelete, FlashDelete, FlashClearUploaded, Cleanup
  <2>2. QED
    BY <2>1, NamesStay
<1>9. CASE \/ \E b \in Backend : CheckStopped("switch", b) \/ CheckStopped("transfer", b)
           \/ StorageApply \/ TransferBegin \/ TransferReturns \/ FsDeleteAsk \/ Download \/ DownloadEnds
           \/ Pick \/ PutAcked \/ PutFails \/ UNCHANGED vars
  BY <1>1, <1>9 DEF CheckStopped, StorageApply, TransferBegin, TransferReturns, FsDeleteAsk, Download,
     DownloadEnds, Pick, PutAcked, PutFails, files, vars
<1>10. QED
  BY <1>2, <1>3, <1>4, <1>5, <1>6, <1>7, <1>8, <1>9 DEF Next, Handler, Ask, UploadTask

THEOREM ListedAlways == Spec => []Listed
<1>1. Init => Listed
  BY FS_EmptySet DEF Init, Listed
<1>2. Listed /\ [Next]_vars => Listed'
  BY StepListed
<1>3. QED
  BY <1>1, <1>2, PTL DEF Spec

\* The entries FsListHandler and FlashListHandler sort and cut.
Entries(b, d, read, config) ==
  {n \in NamesIn(b, d) : read} \cup (IF b = "flash" THEN Beside(d, config) ELSE {})

LEMMA ListIsReply ==
  ASSUME NEW b \in Backend, NEW d \in Dir, NEW read \in BOOLEAN, NEW config \in BOOLEAN, NEW page, NEW size,
         b = "flash" \/ read
  PROVE  List(b, d, page, size, read, config) = Reply(SetToSeq(Entries(b, d, read, config)), page, size)
<1>1. CASE b = "flash"
  BY <1>1 DEF List, FlashList, Entries
<1>2. CASE b = "sd"
  <2>1. Entries(b, d, read, config) = NamesIn("sd", d)
    BY <1>2 DEF Entries
  <2>2. QED
    BY <1>2, <2>1 DEF List, FsList
<1>3. QED
  BY <1>1, <1>2 DEF Backend

LEMMA EntriesFinite ==
  ASSUME Listed, NEW b \in Backend, NEW d \in Dir, NEW read \in BOOLEAN, NEW config \in BOOLEAN
  PROVE  IsFiniteSet(Entries(b, d, read, config))
<1>1. IsFiniteSet(NamesIn(b, d))
  BY FS_Subset DEF Listed, NamesIn, In
<1>2. IsFiniteSet({n \in NamesIn(b, d) : read})
  BY <1>1, FS_Subset
<1>3. IsFiniteSet({c \in {ConfigText} : config})
  BY FS_Singleton, FS_Subset
<1>4. IsFiniteSet(Partition \cup {c \in {ConfigText} : config})
  BY <1>3, FS_Union, PartitionAssumption
<1>5. IsFiniteSet(Beside(d, config)) /\ IsFiniteSet({})
  BY <1>4, FS_EmptySet DEF Beside
<1>6. QED
  BY <1>2, <1>5, FS_Union DEF Entries

\* For any names, files and partitions: the pages of a list show every file once,
\* or, of a flash that could not be read, what lies beside its files.
THEOREM PagesAreComplete == Spec => []PagesCover
<1>1. ASSUME Listed PROVE PagesCover
  <2>1. ASSUME NEW b \in Backend, NEW d \in Dir, NEW size \in 1..3, NEW read \in BOOLEAN, NEW config \in BOOLEAN,
               b = "flash" \/ read
        PROVE  LET Page(p) == List(b, d, p, size, read, config)
                   shown == FlattenSeq([p \in 1..Page(0).pages |-> Page(p - 1).entries])
               IN Range(shown) = Entries(b, d, read, config) /\ Len(shown) = Cardinality(Entries(b, d, read, config))
    <3> DEFINE Page(p) == List(b, d, p, size, read, config)
               shown == FlattenSeq([p \in 1..Page(0).pages |-> Page(p - 1).entries])
               there == Entries(b, d, read, config)
               e == SetToSeq(there)
    <3>1. \A p : Page(p) = Reply(e, p, size)
      BY <2>1, ListIsReply
    <3>2. IsFiniteSet(there)
      BY <1>1, EntriesFinite
    <3> HIDE DEF there
    <3>3. e \in Seq(there) /\ Range(e) = there /\ Len(e) = Cardinality(there)
      BY <3>2, EachOnce
    <3>4. size \in Nat \ {0}
      OBVIOUS
    <3> HIDE DEF e, Page
    <3>5. FlattenSeq([p \in 1..Reply(e, 0, size).pages |-> Reply(e, p - 1, size).entries]) = e
      BY <3>3, <3>4, PagesJoin
    <3>6. shown = e
      <4>1. \A n : [p \in 1..n |-> Page(p - 1).entries] = [p \in 1..n |-> Reply(e, p - 1, size).entries]
        BY <3>1
      <4>2. QED
        BY <3>1, <3>5, <4>1
    <3> HIDE DEF shown
    <3>7. Range(shown) = there /\ Len(shown) = Cardinality(there)
      BY <3>3, <3>6
    <3>8. QED
      BY <3>7 DEF shown, there, Page
  <2>2. QED
    BY <2>1 DEF PagesCover, Entries
<1>2. QED
  BY <1>1, ListedAlways, PTL
=============================================================================
