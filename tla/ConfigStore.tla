----------------------------- MODULE ConfigStore -----------------------------
(***************************************************************************)
(* Saving and loading the configuration: SaveConfigEverywhere and          *)
(* LoadConfigFromSdCard of config_loader.cpp with the requests that call   *)
(* them.  A save serialises app_config before it holds any lock, writes the*)
(* text to NVS, then replaces config.txt through config.tmp and config.bak *)
(* under the storage mutex.  Every step can fail and the device can restart*)
(* between any two.                                                        *)
(*                                                                         *)
(* A text is the configuration it holds: the meteo intervals, which must be*)
(* saved in both places or rolled back, and one other setting.             *)
(***************************************************************************)
EXTENDS Naturals

CONSTANTS Saver,    \* tasks that save: HTTP server, MQTT
          Value,    \* values of a setting; 0 is the built-in default
          NvsFails, \* NVS writes may fail
          MaxCrash, \* BOUND: restarts
          None, Torn

Config == [meteo : Value, other : Value]

ASSUME ConfigAssumption ==
  /\ 0 \in Value /\ NvsFails \in BOOLEAN /\ MaxCrash \in Nat
  /\ None \notin Config /\ Torn \notin Config /\ None # Torn
  /\ None \notin Saver

VARIABLES cfg,             \* app_config
          nvs,             \* the NVS copy
          file, tmp, bak,  \* config.txt, config.tmp, config.bak
          lock,            \* owner of the storage mutex
          pc, kind, text, old, inNvs, inSd,  \* of each save
          rollback,        \* of each meteo request: the second save
          answer,          \* the answer to the last meteo request
          crashes

card == <<file, tmp, bak>>
save == <<kind, text, old, inNvs, inSd, rollback>>
vars == <<cfg, nvs, card, lock, pc, save, answer, crashes>>

CardSteps == {"tmp", "flush", "unbak", "backup", "replace", "drop"}
Steps == {"idle", "build", "nvs", "card", "answer"} \cup CardSteps
Default == [meteo |-> 0, other |-> 0]

Init ==
  /\ cfg = Default /\ nvs = None
  /\ file = None /\ tmp = None /\ bak = None
  /\ lock = None
  /\ pc = [s \in Saver |-> "idle"]
  /\ kind = [s \in Saver |-> "other"]
  /\ text = [s \in Saver |-> Default]
  /\ old = [s \in Saver |-> 0]
  /\ inNvs = [s \in Saver |-> FALSE] /\ inSd = [s \in Saver |-> FALSE]
  /\ rollback = [s \in Saver |-> FALSE]
  /\ answer = "none" /\ crashes = 0

At(s, step) == pc[s] = step
Goto(s, step) == pc' = [pc EXCEPT ![s] = step]

-----------------------------------------------------------------------------
(* Requests.                                                                *)

\* ActionMeteoConfigApply keeps the old value; the others just assign.
Request(s, k, v) ==
  /\ At(s, "idle") /\ Goto(s, "build")
  /\ cfg' = [cfg EXCEPT ![k] = v]
  /\ kind' = [kind EXCEPT ![s] = k]
  /\ old' = [old EXCEPT ![s] = cfg.meteo]
  /\ rollback' = [rollback EXCEPT ![s] = FALSE]
  /\ answer' = IF k = "meteo" THEN "none" ELSE answer
  /\ UNCHANGED <<nvs, card, lock, text, inNvs, inSd, crashes>>

\* Fault: a save that reached the card only is not rolled back.
AnswerByCard(s) ==
  /\ At(s, "answer") /\ Goto(s, "idle")
  /\ answer' = IF kind[s] # "meteo" THEN answer
               ELSE IF inSd[s] THEN "accepted" ELSE "not_synchronized"
  /\ UNCHANGED <<cfg, nvs, card, lock, save, crashes>>

\* Meteo: accepted only when both copies were written, else rolled back once.
Answer(s) ==
  /\ At(s, "answer")
  /\ \/ /\ kind[s] = "other"
        /\ Goto(s, "idle") /\ UNCHANGED <<cfg, rollback, answer>>
     \/ /\ kind[s] = "meteo" /\ inNvs[s] /\ inSd[s]
        /\ Goto(s, "idle")
        /\ answer' = IF rollback[s] THEN "rejected" ELSE "accepted"
        /\ UNCHANGED <<cfg, rollback>>
     \/ /\ kind[s] = "meteo" /\ ~(inNvs[s] /\ inSd[s]) /\ ~rollback[s]
        /\ Goto(s, "build")
        /\ cfg' = [cfg EXCEPT !.meteo = old[s]]
        /\ rollback' = [rollback EXCEPT ![s] = TRUE]
        /\ UNCHANGED answer
     \/ /\ kind[s] = "meteo" /\ ~(inNvs[s] /\ inSd[s]) /\ rollback[s]
        /\ Goto(s, "idle")
        /\ answer' = "not_synchronized" /\ UNCHANGED <<cfg, rollback>>
  /\ UNCHANGED <<nvs, card, lock, kind, text, old, inNvs, inSd, crashes>>

-----------------------------------------------------------------------------
(* SaveConfigEverywhere.                                                    *)

\* BuildConfigText, without the mutex.
Build(s) ==
  /\ At(s, "build") /\ Goto(s, "nvs")
  /\ text' = [text EXCEPT ![s] = cfg]
  /\ UNCHANGED <<cfg, nvs, card, lock, kind, old, inNvs, inSd, rollback, answer, crashes>>

\* Fault: the NVS copy is left as it was.
SkipNvs(s) ==
  /\ At(s, "nvs") /\ Goto(s, "card")
  /\ inNvs' = [inNvs EXCEPT ![s] = TRUE]
  /\ UNCHANGED <<cfg, nvs, card, lock, kind, text, old, inSd, rollback, answer, crashes>>

SaveNvs(s) ==
  /\ At(s, "nvs") /\ Goto(s, "card")
  /\ \/ nvs' = text[s] /\ inNvs' = [inNvs EXCEPT ![s] = TRUE]
     \/ NvsFails /\ UNCHANGED nvs /\ inNvs' = [inNvs EXCEPT ![s] = FALSE]
  /\ UNCHANGED <<cfg, card, lock, kind, text, old, inSd, rollback, answer, crashes>>

Ends(s, ok) ==
  /\ Goto(s, "answer")
  /\ inSd' = [inSd EXCEPT ![s] = ok]

\* The mutex timed out or the card did not mount.
NoCard(s) ==
  /\ At(s, "card") /\ Ends(s, FALSE)
  /\ UNCHANGED <<cfg, nvs, card, lock, kind, text, old, inNvs, rollback, answer, crashes>>

TakeCard(s) ==
  /\ At(s, "card") /\ lock = None
  /\ lock' = s /\ Goto(s, "tmp")
  /\ UNCHANGED <<cfg, nvs, card, save, answer, crashes>>

OpenTmp(s) ==
  /\ At(s, "tmp") /\ Goto(s, "flush")
  /\ tmp' = Torn
  /\ UNCHANGED <<cfg, nvs, file, bak, lock, save, answer, crashes>>

\* Fault: a failed write is not noticed.
FlushUnchecked(s) ==
  /\ At(s, "flush") /\ Goto(s, "unbak")
  /\ tmp' \in {text[s], Torn}
  /\ UNCHANGED <<cfg, nvs, file, bak, lock, save, answer, crashes>>

\* fwrite, fflush, fsync and fclose all succeeded.
Flush(s) ==
  /\ At(s, "flush") /\ Goto(s, "unbak")
  /\ tmp' = text[s]
  /\ UNCHANGED <<cfg, nvs, file, bak, lock, save, answer, crashes>>

\* One of them, or the fopen, failed.
FlushFails(s) ==
  /\ pc[s] \in {"tmp", "flush"} /\ Ends(s, FALSE) /\ lock' = None
  /\ tmp' = IF At(s, "flush") THEN None ELSE tmp
  /\ UNCHANGED <<cfg, nvs, file, bak, kind, text, old, inNvs, rollback, answer, crashes>>

RemoveBackup(s) ==
  /\ At(s, "unbak") /\ Goto(s, "backup")
  /\ bak' \in {None, bak}
  /\ UNCHANGED <<cfg, nvs, file, tmp, lock, save, answer, crashes>>

\* rename(config.txt, config.bak); FAT refuses a name that exists.
Backup(s) ==
  /\ At(s, "backup") /\ Goto(s, "replace")
  /\ \/ bak = None /\ bak' = file /\ file' = None
     \/ UNCHANGED <<file, bak>>
  /\ UNCHANGED <<cfg, nvs, tmp, lock, save, answer, crashes>>

\* rename(config.tmp, config.txt).
Replace(s) ==
  /\ At(s, "replace") /\ file = None
  /\ file' = tmp /\ tmp' = None
  /\ Goto(s, "drop")
  /\ UNCHANGED <<cfg, nvs, bak, lock, save, answer, crashes>>

\* It failed: the backup goes back, if it can, and config.tmp is removed.
ReplaceFails(s) ==
  /\ At(s, "replace") /\ Ends(s, FALSE) /\ lock' = None
  /\ \/ file = None /\ file' = bak /\ bak' = None
     \/ UNCHANGED <<file, bak>>
  /\ tmp' = None
  /\ UNCHANGED <<cfg, nvs, kind, text, old, inNvs, rollback, answer, crashes>>

DropBackup(s) ==
  /\ At(s, "drop") /\ Ends(s, TRUE) /\ lock' = None
  /\ bak' \in {None, bak}
  /\ UNCHANGED <<cfg, nvs, file, tmp, kind, text, old, inNvs, rollback, answer, crashes>>

-----------------------------------------------------------------------------
(* A restart and LoadConfigFromSdCard.                                      *)

Loaded(mounts) == CASE mounts /\ file # None -> file
                    [] mounts /\ file = None /\ bak # None -> bak
                    [] OTHER -> nvs

Restart(mounts) ==
  /\ crashes < MaxCrash /\ crashes' = crashes + 1
  /\ cfg' = IF Loaded(mounts) = None THEN Default ELSE Loaded(mounts)
  /\ pc' = [s \in Saver |-> "idle"] /\ lock' = None
  /\ UNCHANGED <<nvs, card, save, answer>>

-----------------------------------------------------------------------------
Saving(s) ==
  \/ Answer(s) \/ Build(s) \/ SaveNvs(s) \/ NoCard(s) \/ TakeCard(s) \/ OpenTmp(s) \/ Flush(s) \/ FlushFails(s)
  \/ RemoveBackup(s) \/ Backup(s) \/ Replace(s) \/ ReplaceFails(s) \/ DropBackup(s)

Next ==
  \/ \E s \in Saver, k \in {"meteo", "other"}, v \in Value : Request(s, k, v)
  \/ \E s \in Saver : Saving(s)
  \/ \E mounts \in BOOLEAN : Restart(mounts)

Spec == Init /\ [][Next]_vars

TypeOK ==
  /\ cfg \in Config /\ nvs \in Config \cup {None}
  /\ file \in Config \cup {None, Torn} /\ tmp \in Config \cup {None, Torn} /\ bak \in Config \cup {None, Torn}
  /\ lock \in Saver \cup {None}
  /\ pc \in [Saver -> Steps] /\ kind \in [Saver -> {"meteo", "other"}]
  /\ text \in [Saver -> Config] /\ old \in [Saver -> Value]
  /\ inNvs \in [Saver -> BOOLEAN] /\ inSd \in [Saver -> BOOLEAN] /\ rollback \in [Saver -> BOOLEAN]
  /\ answer \in {"none", "accepted", "rejected", "not_synchronized"}
  /\ crashes \in Nat

\* Whatever fails, and wherever the device restarts, config.txt and config.bak
\* are whole texts: a torn write stays in config.tmp, which is never loaded.
WholeFiles == file # Torn /\ bak # Torn

\* Why it holds: the file a save renames is the one it flushed, under the mutex.
StoreInv ==
  /\ TypeOK
  /\ WholeFiles
  /\ \A s \in Saver : pc[s] \in CardSteps => lock = s
  /\ \A s \in Saver : pc[s] \in {"unbak", "backup", "replace"} => tmp = text[s]

Idle == \A s \in Saver : pc[s] = "idle"

\* One task saving: after a meteo request was accepted or rejected, app_config and
\* the next boot agree on it, with or without a card, until the next request, also
\* after a restart.  (A restart in the middle of a request answers nothing.)
AnswerIsDurable ==
  (answer \in {"accepted", "rejected"} /\ Idle /\ \A s \in Saver : kind[s] = "meteo")
    => Loaded(TRUE) = cfg /\ Loaded(FALSE) = cfg

\* One task saving: what the next boot would load changes only to the text being
\* saved, never to an older one or to nothing.  The exception is a save whose NVS
\* write failed: it removes config.bak, which an earlier save whose rename failed
\* may have left as the only copy.
BootMovesForward ==
  [][Loaded(TRUE)' # Loaded(TRUE) =>
       \E s \in Saver : Loaded(TRUE)' = text[s] \/ (At(s, "unbak") /\ ~inNvs[s])]_vars

-----------------------------------------------------------------------------
\* docs/CHANGELOG.md, 2026-07-11: partial saves are rolled back to the previous
\* values.  A rejected meteo interval is not what the next boot loads.
RolledBack == (answer = "rejected" /\ Idle) => Loaded(TRUE).meteo = cfg.meteo
=============================================================================
