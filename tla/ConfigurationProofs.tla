------------------------- MODULE ConfigurationProofs -------------------------
(***************************************************************************)
(* First what ConfigStore promises: config.txt and config.bak are whole    *)
(* for any number of saving tasks, any configurations, failures and        *)
(* restarts, and with one task saving an answer lasts and a boot goes      *)
(* forward.  Then what Settings promises, for any lengths of the texts and *)
(* any number of sensors: the front ends agree, an SSID keeps its          *)
(* password, and a restart loses nothing that config.txt can hold.  The    *)
(* last two rest on SettingsSound, which every request and every restart   *)
(* keeps; that a list of message types comes back is an induction over the *)
(* list.                                                                   *)
(***************************************************************************)
EXTENDS MCConfiguration, Sequences, NaturalSets, TLAPS

USE DEF At, Goto, Ends, card, save

LEMMA StoreInit == Init => StoreInv
BY ConfigAssumption DEF Init, StoreInv, TypeOK, WholeFiles, Config, Default, Steps, CardSteps

\* A step of a save that does not hold the mutex touches no file.
LEMMA BeforeCard ==
  ASSUME StoreInv, NEW s \in Saver,
         Answer(s) \/ Build(s) \/ SaveNvs(s) \/ NoCard(s) \/ TakeCard(s)
  PROVE  StoreInv'
<1> USE ConfigAssumption DEF StoreInv, WholeFiles, Steps, CardSteps
<1>1. CASE Answer(s)
  <2>1. cfg' \in Config
    BY <1>1 DEF Answer, TypeOK, Config
  <2>2. /\ \A r \in Saver : pc'[r] \in CardSteps => pc[r] \in CardSteps
        /\ pc' \in [Saver -> Steps]
        /\ \A r \in Saver : pc'[r] \in CardSteps => pc'[r] = pc[r]
    BY <1>1 DEF Answer, TypeOK
  <2>3. /\ answer' \in {"none", "accepted", "rejected", "not_synchronized"}
        /\ rollback' \in [Saver -> BOOLEAN]
    BY <1>1 DEF Answer, TypeOK
  <2>4. UNCHANGED <<nvs, file, tmp, bak, lock, kind, text, old, inNvs, inSd, crashes>>
    BY <1>1 DEF Answer
  <2>5. TypeOK'
    BY <2>1, <2>2, <2>3, <2>4 DEF TypeOK
  <2> QED BY <2>2, <2>4, <2>5
<1>2. CASE Build(s)
  BY <1>2 DEF Build, TypeOK
<1>3. CASE SaveNvs(s)
  <2>1. nvs' \in Config \cup {None}
    <3>1. nvs' = text[s] \/ nvs' = nvs
      BY <1>3 DEF SaveNvs
    <3> QED BY <3>1 DEF TypeOK
  <2>2. inNvs' \in [Saver -> BOOLEAN]
    <3>1. \E b \in BOOLEAN : inNvs' = [inNvs EXCEPT ![s] = b]
      BY <1>3 DEF SaveNvs
    <3> QED BY <3>1 DEF TypeOK
  <2>3. /\ UNCHANGED <<cfg, file, tmp, bak, lock, kind, text, old, inSd, rollback, answer, crashes>>
        /\ pc' = [pc EXCEPT ![s] = "card"]
    BY <1>3 DEF SaveNvs
  <2> QED BY <2>1, <2>2, <2>3 DEF TypeOK
<1>4. CASE NoCard(s)
  BY <1>4 DEF NoCard, TypeOK
<1>5. CASE TakeCard(s)
  BY <1>5 DEF TakeCard, TypeOK
<1> QED BY <1>1, <1>2, <1>3, <1>4, <1>5

\* The holder of the mutex is the only one between the open and the rename.
LEMMA OnCard ==
  ASSUME StoreInv, NEW s \in Saver,
         OpenTmp(s) \/ Flush(s) \/ FlushFails(s) \/ RemoveBackup(s) \/ Backup(s)
           \/ Replace(s) \/ ReplaceFails(s) \/ DropBackup(s)
  PROVE  StoreInv'
<1> USE ConfigAssumption DEF StoreInv, WholeFiles, Steps, CardSteps
<1>0. /\ pc[s] \in CardSteps /\ lock = s
      /\ \A r \in Saver : r # s => pc[r] \notin CardSteps
  BY DEF OpenTmp, Flush, FlushFails, RemoveBackup, Backup, Replace, ReplaceFails, DropBackup
<1>1. CASE OpenTmp(s)
  BY <1>0, <1>1 DEF OpenTmp, TypeOK
<1>2. CASE Flush(s)
  BY <1>0, <1>2 DEF Flush, TypeOK
<1>3. CASE FlushFails(s)
  BY <1>0, <1>3 DEF FlushFails, TypeOK
<1>4. CASE RemoveBackup(s)
  BY <1>0, <1>4 DEF RemoveBackup, TypeOK
<1>5. CASE Backup(s)
  BY <1>0, <1>5 DEF Backup, TypeOK
<1>6. CASE Replace(s)
  BY <1>0, <1>6 DEF Replace, TypeOK
<1>7. CASE ReplaceFails(s)
  BY <1>0, <1>7 DEF ReplaceFails, TypeOK
<1>8. CASE DropBackup(s)
  BY <1>0, <1>8 DEF DropBackup, TypeOK
<1> QED BY <1>1, <1>2, <1>3, <1>4, <1>5, <1>6, <1>7, <1>8

\* A boot reads a whole text because nothing renames a torn one into its place.
LEMMA BootReads ==
  ASSUME StoreInv, NEW mounts \in BOOLEAN, Restart(mounts)
  PROVE  StoreInv'
<1>1. Loaded(mounts) \in Config \cup {None}
  BY DEF StoreInv, TypeOK, WholeFiles, Loaded
<1>2. cfg' \in Config
  BY <1>1, ConfigAssumption DEF Restart, Default, Config
<1> QED BY <1>2, ConfigAssumption DEF Restart, StoreInv, TypeOK, WholeFiles, Steps, CardSteps

LEMMA StoreStep == StoreInv /\ [Next]_vars => StoreInv'
<1> SUFFICES ASSUME StoreInv, [Next]_vars PROVE StoreInv'
  OBVIOUS
<1>1. ASSUME NEW s \in Saver, NEW k \in {"meteo", "other"}, NEW v \in Value, Request(s, k, v)
      PROVE  StoreInv'
  BY <1>1, ConfigAssumption DEF Request, StoreInv, TypeOK, WholeFiles, Config, Steps, CardSteps
<1>2. ASSUME NEW s \in Saver, Saving(s)
      PROVE  StoreInv'
  BY <1>2, BeforeCard, OnCard DEF Saving
<1>3. ASSUME NEW mounts \in BOOLEAN, Restart(mounts)
      PROVE  StoreInv'
  BY <1>3, BootReads
<1>4. CASE UNCHANGED vars
  BY <1>4 DEF vars, StoreInv, TypeOK, WholeFiles
<1> QED BY <1>1, <1>2, <1>3, <1>4 DEF Next

\* The inductive invariant, for any saving tasks and any configurations.
THEOREM StoreHolds == Spec => []StoreInv
BY StoreInit, StoreStep, PTL DEF Spec

\* Whatever fails and wherever the device restarts, config.txt and config.bak
\* are whole (SaveConfigEverywhere).
THEOREM FilesAreWhole == Spec => []WholeFiles
<1>1. StoreInv => WholeFiles
  BY DEF StoreInv
<1> QED BY <1>1, StoreHolds, PTL

-----------------------------------------------------------------------------
(* With one task saving at a time an answer is what the next boot loads.   *)
(* Two savers break it (RolledBack, ConfigTwo.cfg).                        *)

OneSaver == \E s : Saver = {s}

\* What a save has written so far is the configuration in memory, and a meteo
\* request is answered only in the step that ends it.
SavedSoFar(s) ==
  /\ pc[s] \notin {"idle", "build"} => text[s] = cfg
  /\ pc[s] \in CardSteps \cup {"card", "answer"} /\ inNvs[s] => nvs = text[s]
  /\ pc[s] = "drop" \/ (pc[s] = "answer" /\ inSd[s]) => file = text[s]
  /\ pc[s] # "idle" /\ kind[s] = "meteo" => answer = "none"
  /\ pc[s] = "idle" /\ kind[s] = "meteo" /\ answer \in {"accepted", "rejected"}
       => Loaded(TRUE) = cfg /\ Loaded(FALSE) = cfg

AnswerInv == StoreInv /\ \A s \in Saver : SavedSoFar(s)

\* What a boot loads with and without a card.
LEMMA Boots ==
  /\ Loaded(FALSE) = nvs
  /\ file # None => Loaded(TRUE) = file
  /\ file = None /\ bak # None => Loaded(TRUE) = bak
  /\ file = None /\ bak = None => Loaded(TRUE) = nvs
  BY DEF Loaded

LEMMA AnswerStep ==
  ASSUME OneSaver, AnswerInv, StoreInv', NEW s \in Saver, Saving(s) PROVE SavedSoFar(s)'
<1>0. StoreInv /\ TypeOK /\ SavedSoFar(s) /\ text[s] # None /\ cfg # None
  <2>1. StoreInv /\ TypeOK /\ SavedSoFar(s)
    BY DEF AnswerInv, StoreInv
  <2>2. text[s] \in Config /\ cfg \in Config
    BY <2>1 DEF TypeOK
  <2>3. QED
    BY <2>1, <2>2, ConfigAssumption
<1> USE DEF SavedSoFar, CardSteps
<1>1. CASE Answer(s)
  <2>1. CASE kind[s] = "other"
    <3>1. /\ pc' = [pc EXCEPT ![s] = "idle"]
          /\ UNCHANGED <<nvs, file, tmp, bak, lock, kind, text, old, inNvs, inSd, crashes>>
      BY <1>1, <2>1 DEF Answer
    <3>2. QED
      BY <1>0, <2>1, <3>1 DEF TypeOK
  <2>2. CASE kind[s] = "meteo" /\ inNvs[s] /\ inSd[s]
    <3>1. text[s] = cfg /\ nvs = cfg /\ file = cfg
      BY <1>0, <1>1, <2>2 DEF Answer
    <3>2. Loaded(TRUE) = cfg /\ Loaded(FALSE) = cfg
      BY <1>0, <3>1, Boots
    <3>3. /\ pc' = [pc EXCEPT ![s] = "idle"]
          /\ UNCHANGED <<cfg, nvs, file, tmp, bak, lock, kind, text, old, inNvs, inSd, crashes>>
      BY <1>1, <2>2 DEF Answer
    <3>4. Loaded(TRUE)' = cfg' /\ Loaded(FALSE)' = cfg'
      BY <3>2, <3>3 DEF Loaded
    <3>5. QED
      BY <1>0, <3>3, <3>4 DEF TypeOK
  <2>3. CASE kind[s] = "meteo" /\ ~(inNvs[s] /\ inSd[s]) /\ ~rollback[s]
    BY <1>0, <1>1, <2>3 DEF Answer, TypeOK
  <2>4. CASE kind[s] = "meteo" /\ ~(inNvs[s] /\ inSd[s]) /\ rollback[s]
    BY <1>0, <1>1, <2>4 DEF Answer, TypeOK
  <2>5. QED
    BY <1>1, <2>1, <2>2, <2>3, <2>4 DEF Answer
<1>2. CASE Build(s)
  BY <1>0, <1>2 DEF Build, TypeOK
<1>3. CASE SaveNvs(s)
  <2>1. CASE nvs' = text[s] /\ inNvs' = [inNvs EXCEPT ![s] = TRUE]
    BY <1>0, <1>3, <2>1 DEF SaveNvs, TypeOK
  <2>2. CASE UNCHANGED nvs /\ inNvs' = [inNvs EXCEPT ![s] = FALSE]
    BY <1>0, <1>3, <2>2 DEF SaveNvs, TypeOK
  <2>3. QED
    BY <1>3, <2>1, <2>2 DEF SaveNvs
<1>4. CASE NoCard(s) \/ TakeCard(s)
  BY <1>0, <1>4 DEF NoCard, TakeCard, TypeOK
<1>5. CASE OpenTmp(s) \/ Flush(s) \/ FlushFails(s)
  BY <1>0, <1>5 DEF OpenTmp, Flush, FlushFails, TypeOK
<1>6. CASE RemoveBackup(s) \/ Backup(s)
  BY <1>0, <1>6 DEF RemoveBackup, Backup, TypeOK
<1>7. CASE Replace(s)
  <2>1. tmp = text[s]
    BY <1>0, <1>7 DEF Replace, StoreInv
  <2>2. QED
    BY <1>0, <1>7, <2>1 DEF Replace, TypeOK
<1>8. CASE ReplaceFails(s) \/ DropBackup(s)
  BY <1>0, <1>8 DEF ReplaceFails, DropBackup, TypeOK
<1>9. QED
  BY <1>1, <1>2, <1>3, <1>4, <1>5, <1>6, <1>7, <1>8 DEF Saving

LEMMA AnswerInvStep == ASSUME OneSaver, AnswerInv, [Next]_vars PROVE AnswerInv'
<1>0. StoreInv' /\ StoreInv /\ TypeOK
  BY StoreStep DEF AnswerInv, StoreInv
<1>1. ASSUME NEW s \in Saver, NEW k \in {"meteo", "other"}, NEW v \in Value, Request(s, k, v)
      PROVE  \A r \in Saver : SavedSoFar(r)'
  <2>1. \A r \in Saver : r = s
    BY DEF OneSaver
  <2>2. SavedSoFar(s)'
    BY <1>0, <1>1 DEF Request, SavedSoFar, CardSteps, TypeOK
  <2>3. QED
    BY <2>1, <2>2
<1>2. ASSUME NEW s \in Saver, Saving(s) PROVE \A r \in Saver : SavedSoFar(r)'
  <2>1. \A r \in Saver : r = s
    BY DEF OneSaver
  <2>2. QED
    BY <1>0, <1>2, <2>1, AnswerStep
<1>3. ASSUME NEW mounts \in BOOLEAN, Restart(mounts) PROVE \A r \in Saver : SavedSoFar(r)'
  <2> SUFFICES ASSUME NEW r \in Saver PROVE SavedSoFar(r)'
    OBVIOUS
  <2>1. pc'[r] = "idle" /\ UNCHANGED <<nvs, card, save, answer>> /\ SavedSoFar(r)
    BY <1>3 DEF Restart, AnswerInv
  <2>2. ASSUME kind[r] = "meteo", answer \in {"accepted", "rejected"}
        PROVE  Loaded(TRUE) = cfg /\ Loaded(FALSE) = cfg /\ cfg' = cfg
    <3>1. pc[r] = "idle" /\ Loaded(TRUE) = cfg /\ Loaded(FALSE) = cfg
      BY <1>0, <2>1, <2>2 DEF SavedSoFar
    <3>2. Loaded(mounts) = cfg /\ cfg # None
      BY <1>0, <3>1, ConfigAssumption DEF TypeOK
    <3>3. QED
      BY <1>3, <3>1, <3>2 DEF Restart
  <2>3. Loaded(TRUE)' = Loaded(TRUE) /\ Loaded(FALSE)' = Loaded(FALSE)
    BY <2>1 DEF Loaded
  <2>4. QED
    BY <2>1, <2>2, <2>3 DEF SavedSoFar, CardSteps
<1>4. CASE UNCHANGED vars
  BY <1>0, <1>4 DEF AnswerInv, SavedSoFar, Loaded, vars
<1>5. QED
  BY <1>0, <1>1, <1>2, <1>3, <1>4 DEF Next, AnswerInv

THEOREM AnswerInvHolds == ASSUME OneSaver PROVE Spec => []AnswerInv
<1>1. Init => AnswerInv
  BY StoreInit DEF Init, AnswerInv, SavedSoFar, CardSteps
<1>2. AnswerInv /\ [Next]_vars => AnswerInv'
  BY AnswerInvStep
<1>3. QED
  BY <1>1, <1>2, PTL DEF Spec

\* One task saving: an accepted or rejected meteo request is what the next boot
\* loads, with or without the card.
THEOREM AnswersLast == ASSUME OneSaver PROVE Spec => []AnswerIsDurable
<1>1. AnswerInv => AnswerIsDurable
  <2> SUFFICES ASSUME AnswerInv, answer \in {"accepted", "rejected"}, Idle, \A s \in Saver : kind[s] = "meteo"
               PROVE  Loaded(TRUE) = cfg /\ Loaded(FALSE) = cfg
    BY DEF AnswerIsDurable
  <2>1. PICK s \in Saver : TRUE
    BY DEF OneSaver
  <2>2. QED
    BY <2>1 DEF AnswerInv, SavedSoFar, Idle
<1>2. QED
  BY <1>1, AnswerInvHolds, PTL

-----------------------------------------------------------------------------
(* What the next boot loads.                                               *)

Forward(s) == Loaded(TRUE)' = text[s] \/ (At(s, "unbak") /\ ~inNvs[s])

LEMMA SaveMovesForward ==
  ASSUME OneSaver, AnswerInv, NEW s \in Saver, Saving(s), Loaded(TRUE)' # Loaded(TRUE)
  PROVE  Forward(s)
<1>0. StoreInv /\ TypeOK /\ SavedSoFar(s) /\ text[s] # None
  <2>1. StoreInv /\ TypeOK /\ SavedSoFar(s)
    BY DEF AnswerInv, StoreInv
  <2>2. text[s] \in Config
    BY <2>1 DEF TypeOK
  <2>3. QED
    BY <2>1, <2>2, ConfigAssumption
<1>1. CASE \/ Answer(s) \/ Build(s) \/ NoCard(s) \/ TakeCard(s) \/ OpenTmp(s) \/ Flush(s) \/ FlushFails(s)
  <2>1. UNCHANGED <<nvs, file, bak>>
    BY <1>1 DEF Answer, Build, NoCard, TakeCard, OpenTmp, Flush, FlushFails
  <2>2. QED
    BY <2>1 DEF Loaded
<1>2. CASE SaveNvs(s)
  <2>1. UNCHANGED <<file, bak>> /\ (nvs' = text[s] \/ nvs' = nvs)
    BY <1>2 DEF SaveNvs
  <2>2. QED
    BY <2>1 DEF Loaded, Forward
<1>3. CASE RemoveBackup(s)
  <2>1. UNCHANGED <<file, nvs>> /\ bak' \in {None, bak} /\ (inNvs[s] => nvs = text[s])
    BY <1>0, <1>3 DEF RemoveBackup, SavedSoFar, CardSteps
  <2>2. Loaded(TRUE)' = nvs
    BY <2>1 DEF Loaded
  <2>3. QED
    BY <1>3, <2>1, <2>2 DEF RemoveBackup, Forward
<1>4. CASE Backup(s)
  <2>1. UNCHANGED nvs /\ ((bak = None /\ bak' = file /\ file' = None) \/ UNCHANGED <<file, bak>>)
    BY <1>4 DEF Backup
  <2>2. QED
    BY <2>1 DEF Loaded
<1>5. CASE Replace(s)
  <2>1. file' = text[s]
    BY <1>0, <1>5 DEF Replace, StoreInv
  <2>2. QED
    BY <1>0, <2>1 DEF Loaded, Forward
<1>6. CASE ReplaceFails(s)
  <2>1. UNCHANGED nvs /\ ((file = None /\ file' = bak /\ bak' = None) \/ UNCHANGED <<file, bak>>)
    BY <1>6 DEF ReplaceFails
  <2>2. QED
    BY <2>1 DEF Loaded
<1>7. CASE DropBackup(s)
  <2>1. file # None /\ file' = file
    BY <1>0, <1>7 DEF DropBackup, SavedSoFar
  <2>2. QED
    BY <2>1 DEF Loaded
<1>8. QED
  BY <1>1, <1>2, <1>3, <1>4, <1>5, <1>6, <1>7 DEF Saving

LEMMA BootStep ==
  ASSUME OneSaver, AnswerInv, [Next]_vars, Loaded(TRUE)' # Loaded(TRUE)
  PROVE  \E s \in Saver : Forward(s)
<1>1. CASE \E s \in Saver : Saving(s)
  BY <1>1, SaveMovesForward
<1>2. CASE \/ \E s \in Saver, k \in {"meteo", "other"}, v \in Value : Request(s, k, v)
           \/ \E mounts \in BOOLEAN : Restart(mounts)
           \/ UNCHANGED vars
  <2>1. UNCHANGED <<nvs, file, bak>>
    BY <1>2 DEF Request, Restart, vars
  <2>2. QED
    BY <2>1 DEF Loaded
<1>3. QED
  BY <1>1, <1>2 DEF Next

\* One task saving: what the next boot would load changes only to the text being
\* saved, but for the save that removes the last backup after its NVS write failed.
THEOREM BootsGoForward == ASSUME OneSaver PROVE Spec => BootMovesForward
<1>1. AnswerInv /\ [Next]_vars =>
        [Loaded(TRUE)' # Loaded(TRUE) => \E s \in Saver : Loaded(TRUE)' = text[s] \/ (At(s, "unbak") /\ ~inNvs[s])]_vars
  BY BootStep DEF Forward
<1>2. QED
  BY <1>1, AnswerInvHolds, PTL DEF Spec, BootMovesForward
-----------------------------------------------------------------------------
(* The settings: what both front ends make of a complete body              *)

Same(k, b, c) == \A count : S!Http(k, b, c, count) = S!Mqtt(k, b, c, count)

\* The front ends make the same of b exactly when ReadApart does not name it.
Fits(k, b, c) == \A count : S!Http(k, b, c, count) = S!Mqtt(k, b, c, count) <=> ~S!ReadApart(k, b, c)

\* A speed that is none leaves the one in the settings.
HomeSpeed(c, v) == IF v > 0 THEN v ELSE c.speed

LEMMA SameWifi == ASSUME NEW c, NEW b \in S!Complete("wifi") PROVE Same("wifi", b, c)
<1>1. DOMAIN b = {"mode", "ssid", "password"} /\ b.mode.t = "str"
  BY DEF S!Complete, S!Str
<1>2. S!GetStr(b, "mode", "sta") = b.mode.v /\ S!GetStr(b, "mode", "") = b.mode.v
  BY <1>1 DEF S!GetStr, S!Item
<1>3. S!HttpWifiApply(b, c) = S!MqttWifiApply(b, c)
  BY <1>2 DEF S!HttpWifiApply, S!MqttWifiApply
<1>4. QED
  BY <1>3 DEF Same, S!Http, S!Mqtt

LEMMA FitsNet == ASSUME NEW c, NEW b \in S!Complete("net") PROVE Fits("net", b, c)
<1>1. /\ DOMAIN b = {"mode", "priority", "ethDhcp", "ethIp"}
      /\ b.ethDhcp.t = "bool" /\ b.ethDhcp.v \in BOOLEAN /\ b.ethIp.t = "str"
  <2>1. /\ DOMAIN b = {"mode", "priority", "ethDhcp", "ethIp"}
        /\ b.ethDhcp \in {S!Bool(TRUE), S!Bool(FALSE)}
        /\ b.ethIp \in {S!Str("10.0.0.9"), S!Str("10.0.0.8"), S!Str("0.0.0.0"), S!Str("")}
    <3>1. b \in S!NetBodies
      BY DEF S!Complete
    <3>2. QED
      BY <3>1 DEF S!NetBodies
  <2>2. \A x : S!Bool(x).t = "bool" /\ S!Bool(x).v = x /\ S!Str(x).t = "str" /\ S!Str(x).v = x
    BY DEF S!Bool, S!Str
  <2>3. QED
    BY <2>1, <2>2
<1> DEFINE mode == S!GetStr(b, "mode", "")
           priority == S!GetStr(b, "priority", "")
           dhcp == b.ethDhcp.v
           address == b.ethIp.v
           filled == IF address = "" THEN c.address ELSE address
<1>2. S!IsTrue(S!Item(b, "ethDhcp"), TRUE) = dhcp /\ S!GetBool(b, "ethDhcp", c.dhcp) = dhcp
  BY <1>1 DEF S!GetBool, S!Truth, S!IsTrue, S!Item
<1>3. S!GetStr(b, "ethIp", "") = address
  BY <1>1 DEF S!GetStr, S!Item
<1>4. /\ S!HttpNetApply(b, c) = S!NetApply(c, mode, priority, dhcp, address)
      /\ S!MqttNetApply(b, c) = S!NetApply(c, mode, priority, dhcp, filled)
  BY <1>1, <1>2, <1>3 DEF S!HttpNetApply, S!MqttNetApply
<1>5. S!ReadApart("net", b, c) <=> ~dhcp /\ address = "" /\ S!MqttNetApply(b, c) # Refused
  BY DEF S!ReadApart
<1>6. dhcp \in BOOLEAN
  BY <1>1
<1> HIDE DEF mode, priority, dhcp, address
<1>7. S!HttpNetApply(b, c) = S!MqttNetApply(b, c)
        <=> ~(~dhcp /\ address = "" /\ S!MqttNetApply(b, c) # Refused)
  <2>1. CASE address # ""
    BY <1>4, <2>1
  <2>2. CASE dhcp
    <3>1. \A a : S!NetApply(c, mode, priority, dhcp, a) = S!NetApply(c, mode, priority, dhcp, c.address)
      BY <2>2 DEF S!NetApply
    <3>2. QED
      BY <1>4, <2>2, <3>1
  <2>3. CASE ~dhcp /\ address = ""
    <3>1. S!NetApply(c, mode, priority, dhcp, address) = Refused
      BY <2>3 DEF S!NetApply, S!ValidAddress
    <3>2. QED
      BY <1>4, <2>3, <3>1
  <2>4. QED
    BY <1>6, <2>1, <2>2, <2>3
<1>8. QED
  BY <1>5, <1>7 DEF Fits, S!Http, S!Mqtt

LEMMA SameCloud == ASSUME NEW c, NEW b PROVE Same("cloud", b, c)
  BY DEF Same, S!Http, S!Mqtt, S!HttpCloudApply, S!MqttCloudApply

LEMMA FitsGps == ASSUME NEW c, NEW b \in S!Complete("gps") PROVE Fits("gps", b, c)
<1> DEFINE types == S!ParseRtcmTypes(S!Item(b, "rtcmTypes"))
           mode == b.mode.v
           filled == IF mode = "" THEN "base_time_60" ELSE mode
<1>1. DOMAIN b = {"mode", "rtcmTypes"} /\ b.mode.t = "str"
  <2> DEFINE modes == {S!Str("base"), S!Str("rover"), S!Str("junk"), S!Str("")}
  <2>1. DOMAIN b = {"mode", "rtcmTypes"} /\ b.mode \in modes
    <3>1. b \in S!GpsBodies
      BY DEF S!Complete
    <3>2. b \in [mode : modes, rtcmTypes : S!TypeLists]
      BY <3>1 DEF S!GpsBodies
    <3> HIDE DEF modes
    <3>3. QED
      BY <3>2
  <2>2. \A x : S!Str(x).t = "str"
    BY DEF S!Str
  <2>3. QED
    BY <2>1, <2>2
<1>2. \A d : S!GetStr(b, "mode", d) = mode
  BY <1>1 DEF S!GetStr, S!Item
<1>3. S!HttpGpsApply(b, c) = S!GpsApply(c, types, mode)
  <2> DEFINE d == IF c.gps = "" THEN "base_time_60" ELSE c.gps
  <2>1. S!GetStr(b, "mode", d) = mode
    <3> HIDE DEF d
    <3>1. QED
      BY <1>2
  <2>2. QED
    BY <2>1 DEF S!HttpGpsApply
<1>4. S!MqttGpsApply(b, c) = S!GpsApply(c, types, filled)
  <2>1. S!GetStr(b, "mode", "") = mode
    <3> HIDE DEF mode
    <3>1. QED
      BY <1>2
  <2>2. QED
    BY <2>1 DEF S!MqttGpsApply
<1>5. S!ReadApart("gps", b, c) <=> mode = "" /\ S!MqttGpsApply(b, c) # Refused
  BY DEF S!ReadApart
<1> HIDE DEF types, mode
<1>6. S!GpsApply(c, types, "") = Refused
  BY DEF S!GpsApply, S!GpsModes
<1>7. S!HttpGpsApply(b, c) = S!MqttGpsApply(b, c) <=> ~(mode = "" /\ S!MqttGpsApply(b, c) # Refused)
  BY <1>3, <1>4, <1>6
<1>8. QED
  BY <1>5, <1>7 DEF Fits, S!Http, S!Mqtt

LEMMA SameMeteo == ASSUME NEW c, NEW b \in S!Complete("meteo") PROVE Same("meteo", b, c)
<1>1. DOMAIN b = {"pollIntervalS", "fileIntervalS"} /\ b.pollIntervalS.t = "num" /\ b.fileIntervalS.t = "num"
  BY DEF S!Complete, S!Num
<1>2. S!Integers2(b)
  BY <1>1 DEF S!Integers2, S!Item
<1>3. S!HttpMeteoConfig(b, c) = S!MqttMeteoConfig(b, c)
  BY <1>2 DEF S!HttpMeteoConfig, S!MqttMeteoConfig
<1>4. QED
  BY <1>3 DEF Same, S!Http, S!Mqtt

LEMMA SamePid == ASSUME NEW c, NEW b PROVE Same("pid", b, c)
  BY DEF Same, S!Http, S!Mqtt, S!HttpPidApply, S!MqttPidApply, S!GetNum

LEMMA MovesApart ==
  ASSUME NEW c, NEW n, NEW f, NEW s, NEW g, NEW t
  PROVE  S!StepperMove(n, f, s, c) = S!StepperMove(n, g, t, c) <=> f = g /\ HomeSpeed(c, s) = HomeSpeed(c, t)
<1> DEFINE number == S!Limited(n, 1, 10000)
<1>1. /\ S!StepperMove(n, f, s, c) = [steps |-> number, forward |-> f, speed |-> HomeSpeed(c, s)]
      /\ S!StepperMove(n, g, t, c) = [steps |-> number, forward |-> g, speed |-> HomeSpeed(c, t)]
  BY DEF S!StepperMove, HomeSpeed
<1> HIDE DEF number
<1>2. QED
  BY <1>1

LEMMA FitsMove == ASSUME NEW c, NEW b \in S!Complete("move") PROVE Fits("move", b, c)
<1> DEFINE steps == b.steps.v
           yes == TRUE
<1>1. \A x : S!Num(x).t = "num" /\ S!Num(x).v = x /\ S!Bool(x).t = "bool" /\ S!Bool(x).v = x
             /\ S!Str(x).t = "str" /\ S!Str(x).v = x
  BY DEF S!Num, S!Bool, S!Str
<1>2. /\ b.steps.t = "num" /\ "steps" \in DOMAIN b
      /\ \/ /\ DOMAIN b = {"steps", "direction", "speed"}
            /\ b.direction \in {S!Str("forward"), S!Str("back")} /\ b.speed \in {S!Num(0), S!Num(7)}
         \/ /\ DOMAIN b = {"steps", "reverse", "speedUs"}
            /\ b.reverse \in {S!Bool(TRUE), S!Bool(FALSE)} /\ b.speedUs \in {S!Num(0), S!Num(7)}
  <2>1. b \in S!HttpMoves \/ b \in S!MqttMoves
    BY DEF S!Complete
  <2>2. \A n \in S!Counts : n.t = "num"
    BY <1>1 DEF S!Counts
  <2> DEFINE speeds == {S!Num(0), S!Num(7)}
             ways == {S!Str("forward"), S!Str("back")}
             turns == {S!Bool(TRUE), S!Bool(FALSE)}
  <2>3. CASE b \in S!HttpMoves
    <3>1. b \in [steps : S!Counts, direction : ways, speed : speeds]
      BY <2>3 DEF S!HttpMoves
    <3> HIDE DEF speeds, ways
    <3>2. b.steps \in S!Counts /\ DOMAIN b = {"steps", "direction", "speed"} /\ b.direction \in ways /\ b.speed \in speeds
      BY <3>1
    <3>3. QED
      BY <2>2, <3>2 DEF speeds, ways
  <2>4. CASE b \in S!MqttMoves
    <3>1. b \in [steps : S!Counts, reverse : turns, speedUs : speeds]
      BY <2>4 DEF S!MqttMoves
    <3> HIDE DEF speeds, turns
    <3>2. b.steps \in S!Counts /\ DOMAIN b = {"steps", "reverse", "speedUs"} /\ b.reverse \in turns /\ b.speedUs \in speeds
      BY <3>1
    <3>3. QED
      BY <2>2, <3>2 DEF speeds, turns
  <2>5. QED
    BY <2>1, <2>3, <2>4
<1>3. S!IntOf(b["steps"]) = steps /\ S!GetNum(b, "steps", 400) = steps
  BY <1>2 DEF S!IntOf, S!GetNum, S!Item
<1> DEFINE back == ~S!HttpForward(S!Item(b, "direction")) \/ S!GetBool(b, "reverse", FALSE)
           own == \E f \in {"speed", "speedUs"} : S!GetNum(b, f, 0) > 0 /\ S!GetNum(b, f, 0) # c.speed
<1>6. S!ReadApart("move", b, c) <=> back \/ own
  BY DEF S!ReadApart
<1>7. CASE DOMAIN b = {"steps", "direction", "speed"}
  <2>1. /\ b.direction.t = "str" /\ b.direction.v \in {"forward", "back"}
        /\ b.speed.t = "num" /\ b.speed.v \in {0, 7}
    <3>1. b.direction \in {S!Str("forward"), S!Str("back")} /\ b.speed \in {S!Num(0), S!Num(7)}
      BY <1>2, <1>7
    <3>2. QED
      BY <1>1, <3>1
  <2> DEFINE forward == b.direction.v = "forward"
             speed == b.speed.v
  <2>2. S!HttpForward(S!Item(b, "direction")) = forward
    BY <1>7, <2>1 DEF S!HttpForward, S!Item
  <2>3. /\ S!GetBool(b, "reverse", FALSE) = FALSE /\ S!GetNum(b, "speedUs", 0) = 0
        /\ S!GetNum(b, "speedUs", c.speed) = c.speed /\ S!GetNum(b, "speed", 0) = speed
    BY <1>7, <2>1 DEF S!GetBool, S!GetNum, S!Truth, S!Item, S!Missing
  <2>4. (IF "speed" \in DOMAIN b THEN S!IntOf(b["speed"]) ELSE c.speed) = speed
    BY <1>7, <2>1 DEF S!IntOf
  <2>5. S!HttpStepperMove(b, c) = S!StepperMove(steps, forward, speed, c)
    BY <1>2, <1>3, <2>2, <2>4 DEF S!HttpStepperMove
  <2>6. S!MqttStepperMove(b, c) = S!StepperMove(steps, yes, c.speed, c)
    BY <1>3, <2>3 DEF S!MqttStepperMove
  <2>7. back \/ own <=> ~forward \/ (speed > 0 /\ speed # c.speed)
    <3>1. back <=> ~forward
      BY <2>2, <2>3
    <3>2. own <=> speed > 0 /\ speed # c.speed
      BY <2>3
    <3>3. QED
      BY <3>1, <3>2
  <2>8. HomeSpeed(c, c.speed) = c.speed
    BY DEF HomeSpeed
  <2>9. HomeSpeed(c, speed) # c.speed <=> speed > 0 /\ speed # c.speed
    BY <2>1 DEF HomeSpeed
  <2>10. forward = yes <=> forward
    OBVIOUS
  <2> HIDE DEF forward, speed, back, own, steps, yes
  <2>11. S!HttpStepperMove(b, c) = S!MqttStepperMove(b, c) <=> forward = yes /\ HomeSpeed(c, speed) = c.speed
    BY <2>5, <2>6, <2>8, MovesApart
  <2>12. S!HttpStepperMove(b, c) = S!MqttStepperMove(b, c) <=> ~(back \/ own)
    BY <2>7, <2>9, <2>10, <2>11
  <2>13. QED
    BY <1>6, <2>12 DEF Fits, S!Http, S!Mqtt
<1>8. CASE DOMAIN b = {"steps", "reverse", "speedUs"}
  <2>1. /\ b.reverse.t = "bool" /\ b.reverse.v \in BOOLEAN
        /\ b.speedUs.t = "num" /\ b.speedUs.v \in {0, 7}
    <3>1. b.reverse \in {S!Bool(TRUE), S!Bool(FALSE)} /\ b.speedUs \in {S!Num(0), S!Num(7)}
      BY <1>2, <1>8
    <3>2. b.speedUs.t = "num" /\ b.speedUs.v \in {0, 7}
      BY <1>1, <3>1
    <3>3. b.reverse.t = "bool" /\ b.reverse.v \in BOOLEAN
      BY <1>1, <3>1
    <3>4. QED
      BY <3>2, <3>3
  <2> DEFINE reverse == b.reverse.v
             speed == b.speedUs.v
  <2>2. S!GetBool(b, "reverse", FALSE) = reverse
    BY <1>8, <2>1 DEF S!GetBool, S!Truth, S!Item
  <2>3. /\ S!HttpForward(S!Item(b, "direction")) = TRUE /\ S!GetNum(b, "speed", 0) = 0
        /\ S!GetNum(b, "speedUs", 0) = speed /\ S!GetNum(b, "speedUs", c.speed) = speed
    BY <1>8, <2>1 DEF S!HttpForward, S!GetNum, S!Truth, S!Item, S!Missing
  <2>4. (IF "speed" \in DOMAIN b THEN S!IntOf(b["speed"]) ELSE c.speed) = c.speed
    BY <1>8
  <2>5. S!HttpStepperMove(b, c) = S!StepperMove(steps, yes, c.speed, c)
    BY <1>2, <1>3, <2>3, <2>4 DEF S!HttpStepperMove
  <2> DEFINE forward == ~reverse
  <2>6. S!MqttStepperMove(b, c) = S!StepperMove(steps, forward, speed, c)
    BY <1>3, <2>2, <2>3 DEF S!MqttStepperMove
  <2>7. back \/ own <=> reverse \/ (speed > 0 /\ speed # c.speed)
    <3>1. back <=> reverse
      BY <2>2, <2>3
    <3>2. own <=> speed > 0 /\ speed # c.speed
      BY <2>3
    <3>3. QED
      BY <3>1, <3>2
  <2>8. HomeSpeed(c, c.speed) = c.speed
    BY DEF HomeSpeed
  <2>9. HomeSpeed(c, speed) # c.speed <=> speed > 0 /\ speed # c.speed
    BY <2>1 DEF HomeSpeed
  <2>10. forward = yes <=> ~reverse
    BY <2>1
  <2> HIDE DEF forward, reverse, speed, back, own, steps, yes
  <2>11. S!HttpStepperMove(b, c) = S!MqttStepperMove(b, c) <=> forward = yes /\ HomeSpeed(c, speed) = c.speed
    BY <2>5, <2>6, <2>8, MovesApart
  <2>12. S!HttpStepperMove(b, c) = S!MqttStepperMove(b, c) <=> ~(back \/ own)
    BY <2>7, <2>9, <2>10, <2>11
  <2>13. QED
    BY <1>6, <2>12 DEF Fits, S!Http, S!Mqtt
<1>9. QED
  BY <1>2, <1>7, <1>8

LEMMA SamePower == ASSUME NEW c, NEW b \in S!Complete("power") PROVE Same("power", b, c)
<1>1. \/ DOMAIN b = {"enabled"} /\ b.enabled.t = "bool"
      \/ DOMAIN b = {"on"} /\ b.on.t = "num"
  BY DEF S!Complete, S!Num, S!Bool
<1>2. S!HttpPowerSet(b) = S!MqttPowerSet(b)
  BY <1>1 DEF S!HttpPowerSet, S!MqttPowerSet, S!First, S!Item, S!GetBool, S!Truth, S!Missing
<1>3. QED
  BY <1>2 DEF Same, S!Http, S!Mqtt

LEMMA FitsCycle == ASSUME NEW c, NEW b \in S!Complete("cycle") PROVE Fits("cycle", b, c)
<1> DEFINE off == b.offMs.v
<1>1. DOMAIN b = {"offMs"} /\ b.offMs.t = "num" /\ off \in {-1, 0, 1, 99, 100, 30000, 30001}
  BY DEF S!Complete, S!Num
<1>2. \A d : S!GetNum(b, "offMs", d) = off
  BY <1>1 DEF S!GetNum, S!Item
<1>3. S!ReadApart("cycle", b, c) <=> off <= 0
  BY DEF S!ReadApart
<1>4. /\ S!HttpPowerCycle(b) = S!CycleExternalPower(IF off > 0 THEN off ELSE 1000)
      /\ S!MqttPowerCycle(b) = S!CycleExternalPower(IF off < 0 THEN Huge ELSE off)
  BY <1>2 DEF S!HttpPowerCycle, S!MqttPowerCycle
<1>5. Huge \in Int /\ Huge > 30000
  BY SettingsAssumption
<1> HIDE DEF off
<1>6. /\ S!CycleExternalPower(1000) = 1000 /\ S!CycleExternalPower(0) = 100 /\ S!CycleExternalPower(Huge) = 30000
  BY <1>5 DEF S!CycleExternalPower, S!Limited
<1>7. S!HttpPowerCycle(b) = S!MqttPowerCycle(b) <=> ~(off <= 0)
  BY <1>1, <1>4, <1>6
<1>8. QED
  BY <1>3, <1>7 DEF Fits, S!Http, S!Mqtt

LEMMA SamePercent == ASSUME NEW c, NEW b \in S!Complete("percent") PROVE Same("percent", b, c)
<1>1. DOMAIN b = {"power"} /\ b.power.t = "num"
  BY DEF S!Complete, S!Num
<1>2. S!HttpPercent(b) = S!MqttPercent(b)
  BY <1>1 DEF S!HttpPercent, S!MqttPercent, S!GetNum, S!Item
<1>3. QED
  BY <1>2 DEF Same, S!Http, S!Mqtt

LEMMA FitsLog == ASSUME NEW c, NEW b \in S!Complete("log") PROVE Fits("log", b, c)
<1> DEFINE d == b.durationSec.v
           motor == b.useMotor.v
<1>1. /\ DOMAIN b = {"useMotor", "durationSec"} /\ b.useMotor.t = "bool"
      /\ b.durationSec.t = "num" /\ d \in {-3, 0, 1, 2, 30}
  BY DEF S!Complete, S!Num, S!Bool
<1>2. \A x : S!GetNum(b, "durationSec", x) = d
  BY <1>1 DEF S!GetNum, S!Item
<1>3. S!IsTrue(S!Item(b, "useMotor"), FALSE) = motor /\ S!GetBool(b, "useMotor", FALSE) = motor
  BY <1>1 DEF S!GetBool, S!IsTrue, S!Truth, S!Item
<1>4. S!ReadApart("log", b, c) <=> d = 1
  BY DEF S!ReadApart
<1>5. S!HttpLogStart(b) = [motor |-> motor, duration |-> S!LogDuration(IF d > 1 THEN d ELSE 10)]
  BY <1>2, <1>3 DEF S!HttpLogStart
<1>6. S!MqttLogStart(b, c) = [motor |-> motor, duration |-> S!LogDuration(d)]
  BY <1>2, <1>3 DEF S!MqttLogStart
<1> HIDE DEF d, motor
<1>7. S!LogDuration(IF d > 1 THEN d ELSE 10) = S!LogDuration(d) <=> d # 1
  BY <1>1 DEF S!LogDuration
<1>8. S!HttpLogStart(b) = S!MqttLogStart(b, c) <=> d # 1
  BY <1>5, <1>6, <1>7
<1>9. QED
  BY <1>4, <1>8 DEF Fits, S!Http, S!Mqtt

LEMMA SameClear == ASSUME NEW c, NEW b PROVE Same("clear", b, c)
  BY DEF Same, S!Http, S!Mqtt, S!HttpUploadedClear, S!MqttUploadedClear, S!GetNum

\* What the request makes of the settings depends on its speed only through HomeSpeed.
HomeSettings(c, b, offset, speed) ==
  LET steps == S!Item(b, "loggingMotorSteps")
      hall == S!First(b, "hallActiveLevel", "motorHallActiveLevel")
  IN [c EXCEPT !.offset = offset, !.speed = speed,
               !.steps = IF steps.t = "num" THEN S!Limited(steps.v, 1, 20000) ELSE @,
               !.each = S!IsTrue(S!Item(b, "loggingHomeEachCycle"), @),
               !.hall = IF hall.t = "num" THEN (IF hall.v # 0 THEN 1 ELSE 0) ELSE @]

LEMMA HomeOutcome ==
  ASSUME NEW c, NEW b, NEW offset, NEW speed
  PROVE  S!StepperHomeOffset(c, S!HomeRequest(b, offset, speed)) = HomeSettings(c, b, offset, HomeSpeed(c, speed))
<1> DEFINE q == S!HomeRequest(b, offset, speed)
<1>1. /\ q.offset = offset /\ q.speed = speed /\ q.steps = S!Item(b, "loggingMotorSteps")
      /\ q.each = S!Item(b, "loggingHomeEachCycle") /\ q.hall = S!First(b, "hallActiveLevel", "motorHallActiveLevel")
  BY DEF S!HomeRequest
<1> HIDE DEF q
<1>2. S!StepperHomeOffset(c, q) = HomeSettings(c, b, offset, HomeSpeed(c, speed))
  BY <1>1 DEF S!StepperHomeOffset, HomeSettings, HomeSpeed
<1>3. QED
  BY <1>2 DEF q

LEMMA SameHome == ASSUME NEW c, NEW b \in S!Complete("home") PROVE Same("home", b, c)
<1> DEFINE offset == S!First(b, "offsetSteps", "offset")
           speed == S!First(b, "speedUs", "speed")
<1>1. \/ /\ {"offset", "speed"} \subseteq DOMAIN b /\ "offsetSteps" \notin DOMAIN b /\ "speedUs" \notin DOMAIN b
         /\ b.offset.t = "num" /\ b.speed.t = "num" /\ b.speed.v \in {0, 7}
      \/ /\ {"offsetSteps", "speedUs"} \subseteq DOMAIN b /\ "offset" \notin DOMAIN b /\ "speed" \notin DOMAIN b
         /\ b.offsetSteps.t = "num" /\ b.speedUs.t = "num" /\ b.speedUs.v \in {0, 7}
  <2> DEFINE steps == {S!Num(0), S!Num(20001)}
             each == {S!Bool(FALSE)}
             level == {S!Num(0), S!Num(2)}
             offsets == {S!Num(-1), S!Num(4)}
             speeds == {S!Num(0), S!Num(7)}
             Old == [loggingMotorSteps : steps, loggingHomeEachCycle : each, hallActiveLevel : level,
                     offset : offsets, speed : speeds]
             New == [loggingMotorSteps : steps, loggingHomeEachCycle : each, hallActiveLevel : level,
                     offsetSteps : offsets, speedUs : speeds]
  <2>1. b \in Old \/ b \in New
    BY DEF S!Complete, S!Num, S!Bool
  <2>2. \A n : S!Num(n).t = "num" /\ S!Num(n).v = n
    BY DEF S!Num
  <2>3. \/ /\ DOMAIN b = {"loggingMotorSteps", "loggingHomeEachCycle", "hallActiveLevel", "offset", "speed"}
           /\ b.offset \in {S!Num(-1), S!Num(4)} /\ b.speed \in {S!Num(0), S!Num(7)}
        \/ /\ DOMAIN b = {"loggingMotorSteps", "loggingHomeEachCycle", "hallActiveLevel", "offsetSteps", "speedUs"}
           /\ b.offsetSteps \in {S!Num(-1), S!Num(4)} /\ b.speedUs \in {S!Num(0), S!Num(7)}
    <3> HIDE DEF steps, each, level
    <3>1. CASE b \in Old
      <4>1. /\ DOMAIN b = {"loggingMotorSteps", "loggingHomeEachCycle", "hallActiveLevel", "offset", "speed"}
            /\ b.offset \in offsets /\ b.speed \in speeds
        <5> HIDE DEF offsets, speeds
        <5>1. QED
          BY <3>1
      <4>2. QED
        BY <4>1
    <3>2. CASE b \in New
      <4>1. /\ DOMAIN b = {"loggingMotorSteps", "loggingHomeEachCycle", "hallActiveLevel", "offsetSteps", "speedUs"}
            /\ b.offsetSteps \in offsets /\ b.speedUs \in speeds
        <5> HIDE DEF offsets, speeds
        <5>1. QED
          BY <3>2
      <4>2. QED
        BY <4>1
    <3>3. QED
      BY <2>1, <3>1, <3>2
  <2>4. QED
    BY <2>2, <2>3
<1>2. offset.t = "num" /\ speed.t = "num" /\ speed.v \in {0, 7}
  BY <1>1 DEF S!First, S!Item
<1>3. /\ S!GetNum(b, "offsetSteps", S!GetNum(b, "offset", c.offset)) = offset.v
      /\ S!GetNum(b, "speedUs", S!GetNum(b, "speed", c.speed)) = speed.v
  BY <1>1 DEF S!GetNum, S!First, S!Item, S!Missing
<1>4. (IF offset.t = "num" THEN offset.v ELSE c.offset) = offset.v
  BY <1>2
<1> HIDE DEF offset, speed
<1>5. HomeSpeed(c, IF speed.t = "num" /\ speed.v > 0 THEN speed.v ELSE c.speed) = HomeSpeed(c, speed.v)
  BY <1>2 DEF HomeSpeed
<1>6. S!HttpHomeOffset(b, c) = HomeSettings(c, b, offset.v, HomeSpeed(c, speed.v))
  BY <1>4, <1>5, HomeOutcome DEF S!HttpHomeOffset, offset, speed
<1>7. S!MqttHomeOffset(b, c) = HomeSettings(c, b, offset.v, HomeSpeed(c, speed.v))
  BY <1>3, HomeOutcome DEF S!MqttHomeOffset
<1>8. QED
  BY <1>6, <1>7 DEF Same, S!Http, S!Mqtt

LEMMA FrontEnds == ASSUME NEW k \in S!Kinds, NEW b \in S!Complete(k), NEW c PROVE Fits(k, b, c)
<1>1. CASE k \in {"net", "gps", "move", "cycle", "log"}
  BY <1>1, FitsNet, FitsGps, FitsMove, FitsCycle, FitsLog
<1>2. CASE k \notin {"net", "gps", "move", "cycle", "log"}
  <2>1. Same(k, b, c)
    BY <1>2, SameWifi, SameCloud, SameMeteo, SameHome, SamePid, SamePower, SamePercent, SameClear
       DEF S!Kinds, S!Stored
  <2>2. ~S!ReadApart(k, b, c)
    BY <1>2 DEF S!ReadApart
  <2>3. QED
    BY <2>1, <2>2 DEF Same, Fits
<1>3. QED
  BY <1>1, <1>2

LEMMA KindInit == TwoInit => command \in S!Kinds
  BY DEF TwoInit, S!Init

LEMMA KindStays == [Storing \/ Applying]_<<part, command, settings, vars>> => command' = command
  BY DEF Storing, Applying, S!Next, S!Request, S!Apply, S!Restart

\* The two front ends, each with a parser of its own, make the same of a complete body
\* exactly when ReadApart does not name it, in whatever settings the device has.
THEOREM FrontEndsAlike == TwoSpec => []FrontEndsAgree
<1>1. command \in S!Kinds => FrontEndsAgree
  BY FrontEnds DEF FrontEndsAgree, S!FrontEndsAgree, Fits
<1>2. command \in S!Kinds /\ [Storing \/ Applying]_<<part, command, settings, vars>> => (command \in S!Kinds)'
  BY KindStays
<1>3. QED
  BY <1>1, <1>2, KindInit, PTL DEF TwoSpec
-----------------------------------------------------------------------------
(* The settings: what holds of them whatever is requested                  *)

\* The SSID and password are the two built in, or two that came in one request.
BuiltIn(c) == c.ssid = S!Text(5) /\ c.password = S!Text(PasswordMin + 1)
Given == {S!Blank, S!Text(PasswordMin - 1), S!Text(PasswordMin), [S!Text(PasswordMin) EXCEPT !.padded = TRUE]}
Asked(c) == c.ssid = S!Text(SsidMax - 1) /\ c.password \in Given /\ c.password.size < PasswordMax

TypeNumbers == 1..4095
IsTypes(s) ==
  /\ s \in Seq(TypeNumbers) /\ s # <<>>
  /\ \A i, j \in 1..Len(s) : s[i] = s[j] => i = j

OneNetwork(c) == BuiltIn(c) \/ Asked(c)
NetSound(c) ==
  /\ c.mode = "wifi" \/ S!NetModeOf(c.mode) # Refused
  /\ c.priority = "wifi" \/ S!NetPriorityOf(c.priority) # Refused
GpsSound(c) == IsTypes(c.types) /\ c.gps \in S!GpsModes
StepCounts == 1..20000
MotorSound(c) == c.steps \in StepCounts /\ c.speed > 0 /\ c.hall \in {0, 1} /\ c.duration > 0
MeteoSound(c) == S!ValidIntervals(c.poll, c.file)
MaskSound(c) ==
  c.mask \subseteq 0..(MaxTemp - 1) /\ c.index \in Int /\ (c.mask # {} => c.index = S!FirstSetBitIndex(c.mask))

Fields == DOMAIN S!Default
Sound(c) ==
  /\ c = [f \in Fields |-> c[f]]
  /\ OneNetwork(c) /\ NetSound(c) /\ GpsSound(c) /\ MotorSound(c) /\ MeteoSound(c) /\ MaskSound(c)

LEMMA HasFields ==
  {"ssid", "password", "ap", "mode", "priority", "dhcp", "address", "types", "gps", "steps", "each", "speed",
   "offset", "hall", "gain", "setpoint", "index", "mask", "device", "cloud", "minio", "uri", "mqtt", "poll",
   "file", "duration"} \subseteq Fields
  BY DEF Fields, S!Default

\* A request changes the settings of its command only.
Only(F, c, o) == o = [f \in DOMAIN c |-> o[f]] /\ \A f \in DOMAIN c \ F : o[f] = c[f]

LEMMA Frame ==
  ASSUME NEW c, Sound(c), NEW F, NEW o, Only(F, c, o)
  PROVE  /\ o = [f \in Fields |-> o[f]]
         /\ F \cap {"ssid", "password"} = {} => OneNetwork(o)
         /\ F \cap {"mode", "priority"} = {} => NetSound(o)
         /\ F \cap {"types", "gps"} = {} => GpsSound(o)
         /\ F \cap {"steps", "speed", "hall", "duration"} = {} => MotorSound(o)
         /\ F \cap {"poll", "file"} = {} => MeteoSound(o)
         /\ F \cap {"mask", "index"} = {} => MaskSound(o)
<1>1. o = [f \in Fields |-> o[f]] /\ \A f \in Fields \ F : o[f] = c[f]
  BY DEF Only, Sound
<1>2. F \cap {"ssid", "password"} = {} => OneNetwork(o)
  <2>1. F \cap {"ssid", "password"} = {} => o.ssid = c.ssid /\ o.password = c.password
    BY <1>1, HasFields
  <2>2. QED
    BY <2>1 DEF Sound, OneNetwork, BuiltIn, Asked
<1>3. F \cap {"mode", "priority"} = {} => NetSound(o)
  <2>1. F \cap {"mode", "priority"} = {} => o.mode = c.mode /\ o.priority = c.priority
    BY <1>1, HasFields
  <2>2. QED
    BY <2>1 DEF Sound, NetSound
<1>4. F \cap {"types", "gps"} = {} => GpsSound(o)
  <2>1. F \cap {"types", "gps"} = {} => o.types = c.types /\ o.gps = c.gps
    BY <1>1, HasFields
  <2>2. QED
    BY <2>1 DEF Sound, GpsSound
<1>5. F \cap {"steps", "speed", "hall", "duration"} = {} => MotorSound(o)
  <2>1. F \cap {"steps", "speed", "hall", "duration"} = {}
          => o.steps = c.steps /\ o.speed = c.speed /\ o.hall = c.hall /\ o.duration = c.duration
    BY <1>1, HasFields
  <2>2. MotorSound(c)
    BY DEF Sound
  <2>3. QED
    BY <2>1, <2>2 DEF MotorSound
<1>6. F \cap {"poll", "file"} = {} => MeteoSound(o)
  <2>1. F \cap {"poll", "file"} = {} => o.poll = c.poll /\ o.file = c.file
    BY <1>1, HasFields
  <2>2. QED
    BY <2>1 DEF Sound, MeteoSound
<1>7. F \cap {"mask", "index"} = {} => MaskSound(o)
  <2>1. F \cap {"mask", "index"} = {} => o.mask = c.mask /\ o.index = c.index
    BY <1>1, HasFields
  <2>2. QED
    BY <2>1 DEF Sound, MaskSound
<1>8. QED
  BY <1>1, <1>2, <1>3, <1>4, <1>5, <1>6, <1>7

\* What a body says of a field is what some complete body says of it, or nothing.
LEMMA BodyItems ==
  ASSUME NEW k, NEW b \in S!Complete(k) \cup S!Partial(k)
  PROVE  \E r \in S!Complete(k) : \A f : S!Item(b, f) \in {S!Item(r, f), S!Missing}
<1>1. CASE b \in S!Complete(k)
  BY <1>1
<1>2. CASE b \in S!Partial(k)
  <2>1. PICK r \in S!Complete(k) : \E g \in DOMAIN r : b = S!Restrict(r, DOMAIN r \ {g})
    BY <1>2 DEF S!Partial
  <2>2. DOMAIN b \subseteq DOMAIN r /\ \A f \in DOMAIN b : b[f] = r[f]
    BY <2>1 DEF S!Restrict
  <2>3. \A f : S!Item(b, f) \in {S!Item(r, f), S!Missing}
    BY <2>2 DEF S!Item
  <2>4. QED
    BY <2>3
<1>3. QED
  BY <1>1, <1>2

LEMMA NoItem == S!Missing.t = "none"
  BY DEF S!Missing

LEMMA NetStep ==
  ASSUME NEW c, Sound(c), NEW mode, NEW priority, NEW dhcp, NEW address, NEW o,
         o = S!NetApply(c, mode, priority, dhcp, address), o # Refused
  PROVE  Sound(o)
<1> DEFINE m == IF mode = "" THEN c.mode ELSE S!NetModeOf(mode)
           p == IF priority = "" THEN c.priority ELSE S!NetPriorityOf(priority)
           a == IF dhcp THEN c.address ELSE address
<1>1. o = [c EXCEPT !.mode = m, !.priority = p, !.dhcp = dhcp, !.address = a] /\ m # Refused /\ p # Refused
  BY DEF S!NetApply
<1>2. m = c.mode \/ S!NetModeOf(m) # Refused
  BY <1>1 DEF S!NetModeOf
<1>3. p = c.priority \/ S!NetPriorityOf(p) # Refused
  BY <1>1 DEF S!NetPriorityOf
<1> HIDE DEF m, p, a
<1>4. Only({"mode", "priority", "dhcp", "address"}, c, o) /\ o.mode = m /\ o.priority = p
  BY <1>1, HasFields DEF Only, Sound
<1>5. NetSound(o)
  BY <1>2, <1>3, <1>4 DEF Sound, NetSound
<1>6. QED
  BY <1>4, <1>5, Frame DEF Sound

LEMMA CloudStep ==
  ASSUME NEW c, Sound(c), NEW device, NEW cloud, NEW minio, NEW uri, NEW mqtt
  PROVE  Sound(S!CloudApply(c, device, cloud, minio, uri, mqtt))
<1> DEFINE o == S!CloudApply(c, device, cloud, minio, uri, mqtt)
<1>1. Only({"device", "cloud", "minio", "uri", "mqtt"}, c, o)
  BY HasFields DEF Only, Sound, S!CloudApply
<1> HIDE DEF o
<1>2. Sound(o)
  BY <1>1, Frame DEF Sound
<1>3. QED
  BY <1>2 DEF o

LEMMA GpsStep ==
  ASSUME NEW c, Sound(c), NEW types, types = <<>> \/ IsTypes(types), NEW mode, NEW o,
         o = S!GpsApply(c, types, mode), o # Refused
  PROVE  Sound(o)
<1>1. o = [c EXCEPT !.types = types, !.gps = mode] /\ types # <<>> /\ mode \in S!GpsModes
  BY DEF S!GpsApply
<1>2. Only({"types", "gps"}, c, o) /\ o.types = types /\ o.gps = mode
  BY <1>1, HasFields DEF Only, Sound
<1>3. GpsSound(o)
  BY <1>1, <1>2 DEF GpsSound
<1>4. QED
  BY <1>2, <1>3, Frame DEF Sound

LEMMA MeteoStep ==
  ASSUME NEW c, Sound(c), NEW poll, NEW write, NEW o, o = S!MeteoConfigApply(c, poll, write), o # Refused
  PROVE  Sound(o)
<1>1. o = [c EXCEPT !.poll = poll, !.file = write] /\ S!ValidIntervals(poll, write)
  BY DEF S!MeteoConfigApply
<1>2. Only({"poll", "file"}, c, o) /\ o.poll = poll /\ o.file = write
  BY <1>1, HasFields DEF Only, Sound
<1>3. MeteoSound(o)
  BY <1>1, <1>2 DEF MeteoSound
<1>4. QED
  BY <1>2, <1>3, Frame DEF Sound

LEMMA WithinLimits ==
  ASSUME NEW v \in Int, NEW lo \in Int, NEW hi \in Int, lo <= hi
  PROVE  S!Limited(v, lo, hi) \in lo..hi /\ (v \in lo..hi => S!Limited(v, lo, hi) = v)
  BY DEF S!Limited

LEMMA StepCount ==
  /\ \A v \in Int : S!Limited(v, 1, 20000) \in StepCounts
  /\ \A v \in StepCounts : v \in Int /\ v > 0 /\ S!Limited(v, 1, 20000) = v
<1> DEFINE most == 20000
<1>1. most \in Int /\ 1 <= most
  OBVIOUS
<1>2. StepCounts = 1..most
  BY DEF StepCounts
<1> HIDE DEF most
<1>3. /\ \A v \in Int : S!Limited(v, 1, most) \in StepCounts
      /\ \A v \in StepCounts : v \in Int /\ v > 0 /\ S!Limited(v, 1, most) = v
  BY <1>1, <1>2, WithinLimits
<1>4. QED
  BY <1>3 DEF most

LEMMA HomeStep ==
  ASSUME NEW c, Sound(c), NEW b, NEW offset, NEW speed,
         LET n == S!Item(b, "loggingMotorSteps") IN n.t = "num" => n.v \in Int
  PROVE  Sound(S!StepperHomeOffset(c, S!HomeRequest(b, offset, speed)))
<1> DEFINE s == HomeSpeed(c, speed)
           n == S!Item(b, "loggingMotorSteps")
           h == S!First(b, "hallActiveLevel", "motorHallActiveLevel")
           steps == IF n.t = "num" THEN S!Limited(n.v, 1, 20000) ELSE c.steps
           each == S!IsTrue(S!Item(b, "loggingHomeEachCycle"), c.each)
           hall == IF h.t = "num" THEN (IF h.v # 0 THEN 1 ELSE 0) ELSE c.hall
           o == HomeSettings(c, b, offset, s)
<1>1. o = [c EXCEPT !.offset = offset, !.speed = s, !.steps = steps, !.each = each, !.hall = hall]
  BY DEF HomeSettings
<1>2. MotorSound(c)
  BY DEF Sound
<1>3. steps \in StepCounts
  BY <1>2, StepCount DEF MotorSound
<1>4. s > 0 /\ hall \in {0, 1}
  BY <1>2 DEF MotorSound, HomeSpeed
<1> HIDE DEF o, s, steps, each, hall
<1>5. Only({"offset", "speed", "steps", "each", "hall"}, c, o) /\ o.speed = s /\ o.steps = steps /\ o.hall = hall
      /\ o.duration = c.duration
  BY <1>1, HasFields DEF Only, Sound
<1>6. MotorSound(o)
  BY <1>2, <1>3, <1>4, <1>5 DEF MotorSound
<1>7. Sound(o)
  BY <1>5, <1>6, Frame DEF Sound
<1>8. QED
  BY <1>7, HomeOutcome DEF o, s

LEMMA FirstBit ==
  ASSUME NEW n \in Int, NEW mask \in SUBSET (0..n)
  PROVE  S!FirstSetBitIndex(mask) \in 0..n \cup {0} /\ (mask # {} => S!FirstSetBitIndex(mask) \in mask)
<1>1. CASE mask = {}
  BY <1>1 DEF S!FirstSetBitIndex
<1>2. CASE mask # {}
  <2>1. PICK i \in mask : \A j \in mask : i <= j
    BY <1>2, LeastNatural
  <2>2. S!Min(mask) \in mask
    BY <2>1 DEF S!Min
  <2>3. QED
    BY <1>2, <2>2 DEF S!FirstSetBitIndex
<1>3. QED
  BY <1>1, <1>2

LEMMA FirstBitOfOne == ASSUME NEW i \in Int PROVE S!FirstSetBitIndex({i}) = i
<1>1. S!Min({i}) = i
  BY DEF S!Min
<1>2. QED
  BY <1>1 DEF S!FirstSetBitIndex

LEMMA PidStep ==
  ASSUME NEW c, Sound(c), NEW b, LET i == S!Item(b, "sensor") IN i.t = "num" => i.v \in Int,
         NEW count \in {0, MaxTemp}
  PROVE  Sound(S!MqttPidApply(b, c, count))
<1> DEFINE list == S!Item(b, "sensors")
           bits == S!Item(b, "sensorMask")
           q == [sensor |-> S!GetNum(b, "sensor", c.index), maskSet |-> list.t = "arr" \/ bits.t = "num",
                 mask |-> IF list.t = "arr" THEN S!SensorsOf(list) ELSE IF bits.t = "num" THEN bits.v ELSE c.mask]
           x == [c EXCEPT !.gain = S!GetNum(b, "kp", c.gain), !.setpoint = S!GetNum(b, "setpoint", c.setpoint)]
           sensor == IF count > 0 THEN S!Limited(q.sensor, 0, count - 1) ELSE S!Limited(q.sensor, 0, q.sensor)
           clamped == q.mask \cap S!Available(count)
           mask == IF ~q.maskSet \/ (clamped = {} /\ count > 0) THEN S!Bit(sensor) ELSE clamped
           index == IF q.maskSet THEN S!FirstSetBitIndex(mask) ELSE sensor
           o == [x EXCEPT !.mask = mask, !.index = index]
<1>1. MaxTemp \in Nat \ {0}
  BY SettingsAssumption DEF S!MaxTempAssumption
<1>2. q.sensor \in Int
  <2>1. q.sensor = S!GetNum(b, "sensor", c.index)
    OBVIOUS
  <2>2. c.index \in Int
    BY DEF Sound, MaskSound
  <2>3. QED
    BY <2>1, <2>2 DEF S!GetNum
<1>3. S!MqttPidApply(b, c, count) = o
  BY DEF S!MqttPidApply, S!PidRequest, S!PidApply
<1>4. Only({"gain", "setpoint"}, c, x)
  BY HasFields DEF Only, Sound
<1> HIDE DEF q, x
<1>5. sensor \in Int
  BY <1>1, <1>2, WithinLimits DEF S!Limited
<1>6. mask \subseteq 0..(MaxTemp - 1)
  <2>1. S!Limited(count, 0, MaxTemp) = count
    BY <1>1 DEF S!Limited
  <2>2. clamped \subseteq 0..(MaxTemp - 1)
    BY <1>1, <2>1 DEF S!Available
  <2>3. QED
    BY <2>2 DEF S!Bit
<1>7. index \in Int /\ (mask # {} => index = S!FirstSetBitIndex(mask))
  <2>1. CASE q.maskSet
    <3>1. S!FirstSetBitIndex(mask) \in Int
      BY <1>1, <1>6, FirstBit
    <3>2. QED
      BY <2>1, <3>1
  <2>2. CASE ~q.maskSet
    <3>1. mask = S!Bit(sensor) /\ index = sensor
      BY <2>2
    <3> HIDE DEF mask, index, sensor
    <3>2. mask # {} => mask = {sensor}
      BY <3>1 DEF S!Bit
    <3>3. S!FirstSetBitIndex({sensor}) = sensor
      BY <1>5, FirstBitOfOne
    <3>4. QED
      BY <1>5, <3>1, <3>2, <3>3
  <2>3. QED
    BY <2>1, <2>2
<1> HIDE DEF mask, index
<1>8. Only({"gain", "setpoint", "mask", "index"}, c, o) /\ o.mask = mask /\ o.index = index
  BY <1>4, HasFields DEF Only, Sound
<1>9. MaskSound(o)
  BY <1>6, <1>7, <1>8 DEF MaskSound
<1> HIDE DEF o
<1>10. Sound(o)
  BY <1>8, <1>9, Frame DEF Sound
<1>11. QED
  BY <1>3, <1>10
-----------------------------------------------------------------------------
(* The settings: lists of RTCM message types                               *)

LEMMA AddTypeKeeps ==
  ASSUME NEW s, s = <<>> \/ IsTypes(s), NEW n
  PROVE  S!AddType(s, n) = <<>> \/ IsTypes(S!AddType(s, n))
<1>1. s \in Seq(TypeNumbers)
  <2>1. CASE s = <<>>
    BY <2>1
  <2>2. CASE IsTypes(s)
    BY <2>2 DEF IsTypes
  <2>3. QED
    BY <2>1, <2>2
<1>2. CASE ~(n \in TypeNumbers /\ ~S!Contains(s, n))
  BY <1>2 DEF S!AddType, TypeNumbers
<1>3. CASE n \in TypeNumbers /\ ~S!Contains(s, n)
  <2>1. S!AddType(s, n) = Append(s, n)
    BY <1>3 DEF S!AddType, TypeNumbers
  <2>2. \A i \in 1..Len(s) : s[i] # n
    BY <1>3 DEF S!Contains
  <2>3. \A i, j \in 1..Len(s) : s[i] = s[j] => i = j
    BY DEF IsTypes
  <2> DEFINE longer == Append(s, n)
  <2>4. /\ longer \in Seq(TypeNumbers) /\ Len(longer) = Len(s) + 1 /\ longer # <<>>
        /\ \A i \in 1..Len(longer) : longer[i] = IF i = Len(s) + 1 THEN n ELSE s[i]
    BY <1>1, <1>3
  <2> HIDE DEF longer
  <2>6. \A i, j \in 1..Len(longer) : longer[i] = longer[j] => i = j
    BY <1>1, <2>2, <2>3, <2>4
  <2>7. IsTypes(longer)
    BY <2>4, <2>6 DEF IsTypes
  <2>8. QED
    BY <2>1, <2>7 DEF longer
<1>4. QED
  BY <1>2, <1>3

LEMMA TakenExist ==
  ASSUME NEW numbers, NEW n \in Nat
  PROVE  \E f : f = [k \in 0..n |-> IF k = 0 THEN <<>> ELSE S!AddType(f[k - 1], numbers[k])]
<1> DEFINE Made(f, j) == f = [k \in 0..j |-> IF k = 0 THEN <<>> ELSE S!AddType(f[k - 1], numbers[k])]
           T == {j \in Nat : \E f : Made(f, j)}
<1>1. 0 \in T
  <2> DEFINE f == [k \in 0..0 |-> <<>>]
  <2>1. Made(f, 0)
    OBVIOUS
  <2>2. QED
    BY <2>1
<1>2. ASSUME NEW j \in T PROVE j + 1 \in T
  <2>1. PICK f : Made(f, j)
    OBVIOUS
  <2> DEFINE g == [k \in 0..(j + 1) |-> IF k = 0 THEN <<>> ELSE S!AddType(f[k - 1], numbers[k])]
  <2>2. \A k \in 0..j : g[k] = f[k]
    BY <2>1
  <2>3. \A k \in 0..(j + 1) : k # 0 => k - 1 \in 0..j
    OBVIOUS
  <2>4. Made(g, j + 1)
    <3>1. \A k \in 0..(j + 1) : k # 0 => g[k - 1] = f[k - 1]
      BY <2>2, <2>3
    <3>2. QED
      BY <3>1
  <2> HIDE DEF g
  <2>5. QED
    BY <2>4
<1>3. T = Nat
  <2> HIDE DEF T
  <2>1. T \in SUBSET Nat
    BY DEF T
  <2>2. QED
    BY <1>1, <1>2, <2>1, NaturalsByStep
<1>4. QED
  BY <1>3

\* The numbers are taken one after the other.
LEMMA TakenOneByOne ==
  ASSUME NEW numbers, Len(numbers) \in Nat
  PROVE  \E f : /\ f[0] = <<>>
                /\ \A k \in 0..(Len(numbers) - 1) : f[k + 1] = S!AddType(f[k], numbers[k + 1])
                /\ S!TypesOf(numbers) = f[Len(numbers)]
<1> DEFINE n == Len(numbers)
           Made(f) == f = [k \in 0..n |-> IF k = 0 THEN <<>> ELSE S!AddType(f[k - 1], numbers[k])]
           taken == CHOOSE f : Made(f)
<1>1. Made(taken)
  BY TakenExist
<1>2. S!TypesOf(numbers) = taken[n]
  BY DEF S!TypesOf
<1> HIDE DEF taken
<1>3. taken[0] = <<>> /\ \A k \in 0..(n - 1) : taken[k + 1] = S!AddType(taken[k], numbers[k + 1])
  BY <1>1
<1>4. QED
  BY <1>2, <1>3

LEMMA TypesAreTypes ==
  ASSUME NEW numbers, Len(numbers) \in Nat
  PROVE  S!TypesOf(numbers) = <<>> \/ IsTypes(S!TypesOf(numbers))
<1>1. PICK f : /\ f[0] = <<>>
               /\ \A k \in 0..(Len(numbers) - 1) : f[k + 1] = S!AddType(f[k], numbers[k + 1])
               /\ S!TypesOf(numbers) = f[Len(numbers)]
  BY TakenOneByOne
<1> DEFINE T == {k \in Nat : k <= Len(numbers) => f[k] = <<>> \/ IsTypes(f[k])}
<1>2. 0 \in T
  BY <1>1
<1>3. ASSUME NEW k \in T PROVE k + 1 \in T
  <2>1. SUFFICES ASSUME k + 1 <= Len(numbers) PROVE f[k + 1] = <<>> \/ IsTypes(f[k + 1])
    OBVIOUS
  <2>2. k \in 0..(Len(numbers) - 1)
    BY <2>1
  <2>3. f[k] = <<>> \/ IsTypes(f[k])
    BY <2>2
  <2>4. f[k + 1] = S!AddType(f[k], numbers[k + 1])
    BY <1>1, <2>2
  <2>5. QED
    BY <2>3, <2>4, AddTypeKeeps
<1>4. T = Nat
  <2> HIDE DEF T
  <2>1. T \in SUBSET Nat
    BY DEF T
  <2>2. QED
    BY <1>2, <1>3, <2>1, NaturalsByStep
<1>5. QED
  BY <1>1, <1>4

\* A list in which every type is valid and there once is taken as it is.
LEMMA TypesComeBack == ASSUME NEW s, IsTypes(s) PROVE S!TypesOf(s) = s
<1> DEFINE n == Len(s)
           Taken(k) == [i \in 1..k |-> s[i]]
<1>1. /\ n \in Nat /\ \A i \in 1..n : s[i] \in TypeNumbers
      /\ \A i, j \in 1..n : s[i] = s[j] => i = j
      /\ s = Taken(n)
  BY DEF IsTypes
<1>2. PICK f : /\ f[0] = <<>>
               /\ \A k \in 0..(n - 1) : f[k + 1] = S!AddType(f[k], s[k + 1])
               /\ S!TypesOf(s) = f[n]
  BY <1>1, TakenOneByOne
<1>3. ASSUME NEW k \in 0..(n - 1) PROVE S!AddType(Taken(k), s[k + 1]) = Taken(k + 1)
  <2> DEFINE t == Taken(k)
             e == s[k + 1]
  <2>1. k + 1 \in 1..n /\ k \in Nat /\ \A i \in 1..k : i \in 1..n /\ i # k + 1
    BY <1>1
  <2>2. e \in TypeNumbers
    BY <1>1, <2>1
  <2>3. t \in Seq(TypeNumbers) /\ Len(t) = k
    BY <1>1, <2>1
  <2>4. ~S!Contains(t, e)
    <3>1. \A i \in 1..k : t[i] # e
      BY <1>1, <2>1
    <3> HIDE DEF t, e
    <3>2. QED
      BY <2>3, <3>1 DEF S!Contains
  <2>5. Append(t, e) = Taken(k + 1)
    BY <2>1, <2>2, <2>3
  <2> HIDE DEF t, e
  <2>6. S!AddType(t, e) = Append(t, e)
    BY <2>2, <2>4 DEF S!AddType, TypeNumbers
  <2>7. QED
    BY <2>5, <2>6 DEF t, e
<1> DEFINE T == {k \in Nat : k <= n => f[k] = Taken(k)}
<1>4. 0 \in T
  <2>1. Taken(0) = <<>>
    OBVIOUS
  <2>2. QED
    BY <1>2, <2>1
<1>5. ASSUME NEW k \in T PROVE k + 1 \in T
  <2>1. SUFFICES ASSUME k + 1 <= n PROVE f[k + 1] = Taken(k + 1)
    OBVIOUS
  <2>2. k \in 0..(n - 1) /\ f[k] = Taken(k)
    BY <1>1, <2>1
  <2> HIDE DEF Taken
  <2>3. QED
    BY <1>2, <1>3, <2>2
<1>6. T = Nat
  <2> HIDE DEF T
  <2>1. T \in SUBSET Nat
    BY DEF T
  <2>2. QED
    BY <1>4, <1>5, <2>1, NaturalsByStep
<1>7. f[n] = Taken(n)
  BY <1>1, <1>6
<1>8. QED
  BY <1>1, <1>2, <1>7

LEMMA ParsedTypes ==
  ASSUME NEW i, i.t \in {"arr", "str"} => \E n \in Nat : DOMAIN i.v = 1..n
  PROVE  S!ParseRtcmTypes(i) = <<>> \/ IsTypes(S!ParseRtcmTypes(i))
<1> DEFINE numbers == [k \in DOMAIN i.v |-> IF i.v[k].t \in {"num", "str"} THEN i.v[k].v ELSE 0]
<1>1. CASE i.t \in {"arr", "str"}
  <2>1. S!ParseRtcmTypes(i) = S!TypesOf(numbers)
    BY <1>1 DEF S!ParseRtcmTypes
  <2>2. PICK n \in Nat : DOMAIN numbers = 1..n
    BY <1>1
  <2>3. Len(numbers) \in Nat
    <3>1. numbers = [k \in 1..n |-> numbers[k]]
      BY <2>2
    <3> HIDE DEF numbers
    <3>2. Len(numbers) = n
      BY <2>2, <3>1
    <3>3. QED
      BY <3>2
  <2> HIDE DEF numbers
  <2>4. QED
    BY <2>1, <2>3, TypesAreTypes
<1>2. CASE i.t \notin {"arr", "str"}
  BY <1>2 DEF S!ParseRtcmTypes
<1>3. QED
  BY <1>1, <1>2

LEMMA GpsBodies ==
  ASSUME NEW b \in S!Complete("gps") \cup S!Partial("gps")
  PROVE  LET types == S!ParseRtcmTypes(S!Item(b, "rtcmTypes")) IN types = <<>> \/ IsTypes(types)
<1> DEFINE i == S!Item(b, "rtcmTypes")
           arrays == {<<S!Num(1006), S!Num(0), S!Num(1006)>>, <<S!Num(5000)>>, <<S!Str(1033), S!Num(4095)>>}
           texts == {<<>>, <<S!Num(1033), S!Num(1033)>>}
           lists == {[t |-> "arr", v |-> s] : s \in arrays} \cup {[t |-> "str", v |-> s] : s \in texts}
<1>1. PICK r \in S!Complete("gps") : i \in {S!Item(r, "rtcmTypes"), S!Missing}
  BY BodyItems
<1>2. S!Item(r, "rtcmTypes") \in lists
  <2> DEFINE modes == {S!Str("base"), S!Str("rover"), S!Str("junk"), S!Str("")}
  <2>1. r \in S!GpsBodies
    BY DEF S!Complete
  <2>2. r \in [mode : modes, rtcmTypes : S!TypeLists]
    BY <2>1 DEF S!GpsBodies
  <2> HIDE DEF modes, lists
  <2>3. S!Item(r, "rtcmTypes") \in S!TypeLists
    BY <2>2 DEF S!Item
  <2>4. QED
    BY <2>3 DEF S!TypeLists, lists
<1>3. ASSUME NEW s \in arrays \cup texts PROVE \E n \in Nat : DOMAIN s = 1..n
  <2>1. \A x, y, z : DOMAIN <<x>> = 1..1 /\ DOMAIN <<x, y>> = 1..2 /\ DOMAIN <<x, y, z>> = 1..3
    OBVIOUS
  <2>2. DOMAIN s = 1..0 \/ DOMAIN s = 1..1 \/ DOMAIN s = 1..2 \/ DOMAIN s = 1..3
    BY <2>1
  <2>3. 0 \in Nat /\ 1 \in Nat /\ 2 \in Nat /\ 3 \in Nat
    OBVIOUS
  <2> HIDE DEF arrays, texts
  <2>4. QED
    BY <2>2, <2>3, Zenon
<1> HIDE DEF arrays, texts
<1>4. ASSUME NEW j \in lists PROVE j.v \in arrays \cup texts
  OBVIOUS
<1> HIDE DEF lists, i
<1>5. i.t \in {"arr", "str"} => \E n \in Nat : DOMAIN i.v = 1..n
  BY <1>1, <1>2, <1>3, <1>4, NoItem
<1>6. QED
  BY <1>5, ParsedTypes DEF i

LEMMA Numbers == \A n : S!Num(n).t = "num" /\ S!Num(n).v = n
  BY DEF S!Num

LEMMA HomeBodies ==
  ASSUME NEW b \in S!Complete("home") \cup S!Partial("home")
  PROVE  LET i == S!Item(b, "loggingMotorSteps") IN i.t = "num" => i.v \in Int
<1> DEFINE i == S!Item(b, "loggingMotorSteps")
           steps == {S!Num(0), S!Num(20001)}
           each == {S!Bool(FALSE)}
           level == {S!Num(0), S!Num(2)}
           offsets == {S!Num(-1), S!Num(4)}
           speeds == {S!Num(0), S!Num(7)}
           Old == [loggingMotorSteps : steps, loggingHomeEachCycle : each, hallActiveLevel : level,
                   offset : offsets, speed : speeds]
           New == [loggingMotorSteps : steps, loggingHomeEachCycle : each, hallActiveLevel : level,
                   offsetSteps : offsets, speedUs : speeds]
<1>1. PICK r \in S!Complete("home") : i \in {S!Item(r, "loggingMotorSteps"), S!Missing}
  BY BodyItems
<1>2. r \in Old \/ r \in New
  BY DEF S!Complete, S!Num, S!Bool
<1>3. S!Item(r, "loggingMotorSteps") \in steps
  <2> HIDE DEF steps, each, level, offsets, speeds
  <2>1. "loggingMotorSteps" \in DOMAIN r /\ r.loggingMotorSteps \in steps
    BY <1>2
  <2>2. QED
    BY <2>1 DEF S!Item
<1>4. \A j \in steps : j.v \in Int
  BY Numbers
<1> HIDE DEF steps, i
<1>5. i.t = "num" => i.v \in Int
  BY <1>1, <1>3, <1>4, NoItem
<1>6. QED
  BY <1>5 DEF i

LEMMA PidBodies ==
  ASSUME NEW b \in S!Complete("pid") \cup S!Partial("pid")
  PROVE  LET i == S!Item(b, "sensor") IN i.t = "num" => i.v \in Int
<1> DEFINE i == S!Item(b, "sensor")
           gain == {S!Num(0), S!Num(2)}
           set == {S!Num(1)}
           one == {S!Num(n) : n \in {-1, 0, MaxTemp}}
           lists == {[t |-> "arr", v |-> s] : s \in {<<>>, <<S!Num(1), S!Num(0)>>, <<S!Num(MaxTemp), S!Str(0)>>}}
           masks == {S!Num(m) : m \in SUBSET (0..MaxTemp)}
           Index == [kp : gain, setpoint : set, sensor : one]
           List == [kp : gain, setpoint : set, sensor : one, sensors : lists]
           Mask == [kp : gain, setpoint : set, sensor : one, sensorMask : masks]
<1>1. PICK r \in S!Complete("pid") : i \in {S!Item(r, "sensor"), S!Missing}
  BY BodyItems
<1>2. r \in Index \/ r \in List \/ r \in Mask
  BY DEF S!Complete
<1>3. S!Item(r, "sensor") \in one
  <2> HIDE DEF gain, set, one, lists, masks
  <2>1. "sensor" \in DOMAIN r /\ r.sensor \in one
    BY <1>2
  <2>2. QED
    BY <2>1 DEF S!Item
<1>4. MaxTemp \in Int
  BY SettingsAssumption DEF S!MaxTempAssumption
<1>5. ASSUME NEW j \in one PROVE j.v \in Int
  <2>1. PICK n \in {-1, 0, MaxTemp} : j = S!Num(n)
    OBVIOUS
  <2>2. QED
    BY <1>4, <2>1, Numbers
<1> HIDE DEF one, i
<1>6. i.t = "num" => i.v \in Int
  BY <1>1, <1>3, <1>5, NoItem
<1>7. QED
  BY <1>6 DEF i
-----------------------------------------------------------------------------
(* The settings: an SSID and its password                                  *)

LEMMA TextFields == \A n : S!Text(n).size = n /\ S!Text(n).padded = FALSE /\ S!Text(n).lines = FALSE
  BY DEF S!Text

LEMMA LineOfPlain == ASSUME NEW t, t.padded = FALSE, t.lines = FALSE PROVE S!Line(t) = t
  BY DEF S!Line, S!Trim

LEMMA LineOfText == ASSUME NEW n PROVE S!Line(S!Text(n)) = S!Text(n)
<1> DEFINE t == S!Text(n)
<1>1. t.padded = FALSE /\ t.lines = FALSE
  BY TextFields
<1> HIDE DEF t
<1>2. S!Line(t) = t
  BY <1>1, LineOfPlain
<1>3. QED
  BY <1>2 DEF t

LEMMA GivenSizes ==
  /\ \A t \in Given : t.size \in {0, PasswordMin - 1, PasswordMin}
  /\ \A t \in Given : S!Line(t) \in Given
<1> DEFINE padded == [S!Text(PasswordMin) EXCEPT !.padded = TRUE]
<1>1. padded.size = PasswordMin /\ padded.padded = TRUE /\ padded.lines = FALSE
  BY DEF S!Text
<1>2. S!Blank = S!Text(0)
  BY DEF S!Blank, S!Text
<1>3. S!Line(padded) = S!Text(PasswordMin - 1)
  <2>1. [padded EXCEPT !.padded = FALSE, !.size = PasswordMin - 1] = S!Text(PasswordMin - 1)
    <3> DEFINE n == PasswordMin - 1
               trimmed == [padded EXCEPT !.padded = FALSE, !.size = n]
    <3>1. DOMAIN padded = {"size", "padded", "lines"}
      BY DEF S!Text
    <3> HIDE DEF padded, n
    <3>2. /\ trimmed = [f \in {"size", "padded", "lines"} |-> trimmed[f]]
          /\ trimmed.size = n /\ trimmed.padded = FALSE /\ trimmed.lines = FALSE
      BY <1>1, <3>1
    <3>3. S!Text(n) = [f \in {"size", "padded", "lines"} |-> S!Text(n)[f]]
      BY DEF S!Text
    <3> HIDE DEF trimmed
    <3>4. trimmed = S!Text(n)
      BY <3>2, <3>3, TextFields
    <3>5. QED
      BY <3>4 DEF trimmed, n
  <2> HIDE DEF padded
  <2>2. S!Line(padded) = [padded EXCEPT !.padded = FALSE, !.size = PasswordMin - 1]
    BY <1>1 DEF S!Line, S!Trim
  <2>3. QED
    BY <2>1, <2>2
<1>4. Given = {S!Text(0), S!Text(PasswordMin - 1), S!Text(PasswordMin), padded}
  BY <1>2 DEF Given
<1> HIDE DEF padded
<1>5. \A t \in Given : t.size \in {0, PasswordMin - 1, PasswordMin}
  BY <1>1, <1>4, TextFields
<1>6. \A t \in Given : S!Line(t) \in Given
  BY <1>3, <1>4, LineOfText
<1>7. QED
  BY <1>5, <1>6

\* The bodies with a network in them.
LEMMA WifiBodies ==
  ASSUME NEW b \in S!Complete("wifi") \cup S!Partial("wifi")
  PROVE  /\ S!GetStr(b, "ssid", S!Blank) \in {S!Blank, S!Text(SsidMax - 1), S!Text(SsidMax)}
         /\ S!GetStr(b, "password", S!Blank) \in Given \cup {S!Text(PasswordMax)}
<1> DEFINE modes == {S!Str("sta"), S!Str("ap")}
           names == {S!Blank, S!Text(SsidMax - 1), S!Text(SsidMax)}
           ssids == {S!Str(S!Blank), S!Str(S!Text(SsidMax - 1)), S!Str(S!Text(SsidMax))}
           texts == Given \cup {S!Text(PasswordMax)}
           passwords == {S!Str(t) : t \in texts}
           ssid == S!Item(b, "ssid")
           password == S!Item(b, "password")
<1>1. PICK r \in S!Complete("wifi") :
        ssid \in {S!Item(r, "ssid"), S!Missing} /\ password \in {S!Item(r, "password"), S!Missing}
  BY BodyItems
<1>2. r \in [mode : modes, ssid : ssids, password : passwords]
  <2> DEFINE listed == {S!Blank, S!Text(PasswordMin - 1), S!Text(PasswordMin), S!Text(PasswordMax),
                        [S!Text(PasswordMin) EXCEPT !.padded = TRUE]}
  <2>1. texts = listed
    BY Zenon DEF Given
  <2>2. r \in [mode : modes, ssid : ssids, password : {S!Str(t) : t \in listed}]
    BY SMT DEF S!Complete
  <2> HIDE DEF texts, listed, modes, ssids
  <2>3. QED
    BY <2>1, <2>2
<1>3. S!Item(r, "ssid") \in ssids /\ S!Item(r, "password") \in passwords
  <2> HIDE DEF modes, ssids, passwords
  <2>1. QED
    BY <1>2 DEF S!Item
<1>4. \A t : S!Str(t).t = "str" /\ S!Str(t).v = t
  BY DEF S!Str
<1>5. \A i \in ssids : i.v \in names
  BY <1>4
<1>6. ASSUME NEW i \in passwords PROVE i.v \in texts
  <2> HIDE DEF texts
  <2>1. PICK t \in texts : i = S!Str(t)
    OBVIOUS
  <2>2. QED
    BY <1>4, <2>1
<1> HIDE DEF ssids, passwords, ssid, password
<1>7. (IF ssid.t = "str" THEN ssid.v ELSE S!Blank) \in names
  BY <1>1, <1>3, <1>5, NoItem
<1>8. S!Blank \in texts
  BY DEF Given
<1>9. (IF password.t = "str" THEN password.v ELSE S!Blank) \in texts
  <2> HIDE DEF texts
  <2>1. QED
    BY <1>1, <1>3, <1>6, <1>8, NoItem
<1>10. QED
  BY <1>7, <1>9 DEF S!GetStr, ssid, password

LEMMA WifiStep ==
  ASSUME NEW c, Sound(c), NEW b \in S!Complete("wifi") \cup S!Partial("wifi"), NEW mode, NEW o,
         o = S!WifiApply(c, mode, S!GetStr(b, "ssid", S!Blank), S!GetStr(b, "password", S!Blank)), o # Refused
  PROVE  Sound(o)
<1> DEFINE ssid == S!GetStr(b, "ssid", S!Blank)
           password == S!GetStr(b, "password", S!Blank)
<1>1. ssid \in {S!Blank, S!Text(SsidMax - 1), S!Text(SsidMax)} /\ password \in Given \cup {S!Text(PasswordMax)}
  BY WifiBodies
<1>2. /\ ssid.size # 0 /\ ~(ssid.size >= SsidMax) /\ ~(password.size >= PasswordMax)
      /\ o = [c EXCEPT !.ssid = ssid, !.password = password, !.ap = (mode = "ap")]
  BY DEF S!WifiApply
<1>3. {SsidMax, PasswordMin, PasswordMax} \subseteq Nat
  BY SettingsAssumption
<1> HIDE DEF ssid, password
<1>4. ssid = S!Text(SsidMax - 1)
  <2>1. S!Blank.size = 0
    BY DEF S!Blank
  <2>2. QED
    BY <1>1, <1>2, <1>3, <2>1, TextFields
<1>5. password \in Given
  BY <1>1, <1>2, <1>3, TextFields
<1>6. password.size \in Int
  BY <1>3, <1>5, GivenSizes
<1>7. password.size < PasswordMax
  BY <1>2, <1>3, <1>6
<1> DEFINE ap == mode = "ap"
<1>8. o = [c EXCEPT !.ssid = ssid, !.password = password, !.ap = ap]
  BY <1>2
<1> HIDE DEF ap
<1>9. Only({"ssid", "password", "ap"}, c, o) /\ o.ssid = ssid /\ o.password = password
  BY <1>8, HasFields DEF Only, Sound
<1>10. OneNetwork(o)
  BY <1>4, <1>5, <1>7, <1>9 DEF OneNetwork, Asked
<1>11. QED
  BY <1>9, <1>10, Frame DEF Sound

\* Both front ends leave the settings sound, whatever part of a command they are sent.
LEMMA RequestStep ==
  ASSUME NEW k \in S!Stored, NEW c, Sound(c), NEW b \in S!Complete(k) \cup S!Partial(k), NEW count \in {0, MaxTemp},
         NEW o, o = S!Http(k, b, c, count) \/ o = S!Mqtt(k, b, c, count), o # Refused
  PROVE  Sound(o)
<1>1. CASE k = "wifi"
  <2> DEFINE ssid == S!GetStr(b, "ssid", S!Blank)
             password == S!GetStr(b, "password", S!Blank)
  <2>1. S!Http(k, b, c, count) = S!HttpWifiApply(b, c) /\ S!Mqtt(k, b, c, count) = S!MqttWifiApply(b, c)
    BY <1>1 DEF S!Http, S!Mqtt
  <2>2. PICK mode : o = S!WifiApply(c, mode, ssid, password)
    BY <2>1 DEF S!HttpWifiApply, S!MqttWifiApply
  <2>3. QED
    BY <1>1, <2>2, WifiStep
<1>2. CASE k = "net"
  BY <1>2, NetStep DEF S!Http, S!Mqtt, S!HttpNetApply, S!MqttNetApply
<1>3. CASE k = "cloud"
  BY <1>3, CloudStep DEF S!Http, S!Mqtt, S!HttpCloudApply, S!MqttCloudApply
<1>4. CASE k = "gps"
  <2> DEFINE types == S!ParseRtcmTypes(S!Item(b, "rtcmTypes"))
  <2>1. types = <<>> \/ IsTypes(types)
    BY <1>4, GpsBodies
  <2>2. S!Http(k, b, c, count) = S!HttpGpsApply(b, c) /\ S!Mqtt(k, b, c, count) = S!MqttGpsApply(b, c)
    BY <1>4 DEF S!Http, S!Mqtt
  <2>3. PICK mode : o = S!GpsApply(c, types, mode)
    BY <2>2 DEF S!HttpGpsApply, S!MqttGpsApply
  <2>4. QED
    BY <2>1, <2>3, GpsStep
<1>5. CASE k = "meteo"
  BY <1>5, MeteoStep DEF S!Http, S!Mqtt, S!HttpMeteoConfig, S!MqttMeteoConfig
<1>6. CASE k = "home"
  <2>1. S!Http(k, b, c, count) = S!HttpHomeOffset(b, c) /\ S!Mqtt(k, b, c, count) = S!MqttHomeOffset(b, c)
    BY <1>6 DEF S!Http, S!Mqtt
  <2>2. PICK offset, speed : o = S!StepperHomeOffset(c, S!HomeRequest(b, offset, speed))
    BY <2>1 DEF S!HttpHomeOffset, S!MqttHomeOffset
  <2>3. QED
    BY <1>6, <2>2, HomeBodies, HomeStep
<1>7. CASE k = "pid"
  <2>1. o = S!MqttPidApply(b, c, count)
    BY <1>7, SamePid DEF Same, S!Http, S!Mqtt
  <2>2. QED
    BY <1>7, <2>1, PidBodies, PidStep
<1>8. QED
  BY <1>1, <1>2, <1>3, <1>4, <1>5, <1>6, <1>7 DEF S!Stored
-----------------------------------------------------------------------------
(* The settings: config.txt at the next start                              *)

\* Field by field: what is written of c is what the loader sees.
LEMMA RestartFields ==
  ASSUME NEW d, NEW c
  PROVE  LET w == S!BuildConfigText(c)
             o == S!AfterRestart(d, c)
         IN /\ DOMAIN w = DOMAIN c /\ \A f \in DOMAIN c : w[f] = S!Written(f, c[f])
            /\ o = [f \in DOMAIN c |-> o[f]] /\ \A f \in DOMAIN c : o[f] = S!Loaded(f, d, w)
  BY DEF S!BuildConfigText, S!ParseConfigText, S!AfterRestart

\* A setting that is not a free text, the types or the mode of the receiver is written as it is.
LEMMA WrittenAsIs ==
  ASSUME NEW f, f \notin {"ssid", "password", "device", "cloud", "uri", "types", "gps"}, NEW v
  PROVE  S!Written(f, v) = v
  BY DEF S!Written, S!FreeTexts

LEMMA BuiltInNetwork == S!Default.ssid = S!Text(5) /\ S!Default.password = S!Text(PasswordMin + 1)
  BY DEF S!Default

\* The loader takes an SSID and a password together, or neither.
LEMMA RestartNetwork ==
  ASSUME NEW c, Sound(c)
  PROVE  LET o == S!AfterRestart(S!Default, c)
             ssid == S!Line(c.ssid)
             password == S!Line(c.password)
             both == /\ ssid.size > 0 /\ ssid.size < SsidMax
                     /\ password.size >= PasswordMin /\ password.size < PasswordMax
         IN /\ both => o.ssid = ssid /\ o.password = password
            /\ ~both => o.ssid = S!Text(5) /\ o.password = S!Text(PasswordMin + 1)
<1> DEFINE w == S!BuildConfigText(c)
           o == S!AfterRestart(S!Default, c)
<1>1. "ssid" \in DOMAIN c /\ "password" \in DOMAIN c
  BY HasFields DEF Sound
<1>2. w.ssid = S!Line(c.ssid) /\ w.password = S!Line(c.password)
  BY <1>1, RestartFields DEF S!Written, S!FreeTexts
<1>3. o.ssid = S!Loaded("ssid", S!Default, w) /\ o.password = S!Loaded("password", S!Default, w)
  BY <1>1, RestartFields
<1> HIDE DEF w, o
<1> DEFINE both == /\ w.ssid.size > 0 /\ w.ssid.size < SsidMax
                   /\ w.password.size >= PasswordMin /\ w.password.size < PasswordMax
<1>4. /\ S!Loaded("ssid", S!Default, w) = IF both THEN w.ssid ELSE S!Default.ssid
      /\ S!Loaded("password", S!Default, w) = IF both THEN w.password ELSE S!Default.password
  BY DEF S!Loaded, S!SsidTaken
<1>5. QED
  BY <1>2, <1>3, <1>4, BuiltInNetwork DEF o

LEMMA RestartOneNetwork == ASSUME NEW c, Sound(c) PROVE OneNetwork(S!AfterRestart(S!Default, c))
<1> DEFINE o == S!AfterRestart(S!Default, c)
           ssid == S!Line(c.ssid)
           password == S!Line(c.password)
<1>1. \/ ssid = S!Text(5) /\ password = S!Text(PasswordMin + 1)
      \/ ssid = S!Text(SsidMax - 1) /\ password \in Given
  BY LineOfText, GivenSizes DEF Sound, OneNetwork, BuiltIn, Asked
<1>2. \/ o.ssid = ssid /\ o.password = password /\ password.size < PasswordMax
      \/ o.ssid = S!Text(5) /\ o.password = S!Text(PasswordMin + 1)
  BY RestartNetwork
<1> HIDE DEF o, ssid, password
<1>3. OneNetwork(o)
  BY <1>1, <1>2 DEF OneNetwork, BuiltIn, Asked
<1>4. QED
  BY <1>3 DEF o

\* The mask comes back unless it is that of no sensor.
LEMMA LoadedMaskIs ==
  ASSUME NEW c, MaskSound(c), NEW w, w.mask = c.mask, w.index = c.index
  PROVE  LET mask == S!LoadedMask(w)
         IN /\ mask \subseteq 0..(MaxTemp - 1) /\ mask # {} /\ S!FirstSetBitIndex(mask) \in Int
            /\ c.mask # {} => mask = c.mask /\ S!FirstSetBitIndex(mask) = c.index
<1> DEFINE mask == S!LoadedMask(w)
           clamped == c.mask \cap S!Available(MaxTemp)
           single == S!Limited(c.index, 0, MaxTemp - 1)
<1>1. MaxTemp \in Nat \ {0}
  BY SettingsAssumption DEF S!MaxTempAssumption
<1>2. S!Available(MaxTemp) = 0..(MaxTemp - 1)
  <2>1. S!Limited(MaxTemp, 0, MaxTemp) = MaxTemp
    BY <1>1 DEF S!Limited
  <2>2. QED
    BY <2>1 DEF S!Available
<1>3. clamped = c.mask
  BY <1>2 DEF MaskSound
<1>4. single \in 0..(MaxTemp - 1)
  <2>1. c.index \in Int /\ MaxTemp - 1 \in Int /\ 0 <= MaxTemp - 1
    BY <1>1 DEF MaskSound
  <2>2. QED
    BY <2>1 DEF S!Limited
<1>5. mask = IF clamped # {} THEN clamped ELSE {single}
  BY DEF S!LoadedMask
<1> HIDE DEF mask, clamped, single
<1>6. mask \subseteq 0..(MaxTemp - 1) /\ mask # {} /\ (c.mask # {} => mask = c.mask)
  BY <1>3, <1>4, <1>5 DEF MaskSound
<1>7. S!FirstSetBitIndex(mask) \in Int
  BY <1>1, <1>6, FirstBit
<1>8. QED
  BY <1>6, <1>7 DEF mask, MaskSound

\* The settings that a restart may change.
Lost == {"ssid", "password", "device", "cloud", "uri", "mask", "index"}

LEMMA RestartOnly == ASSUME NEW c, Sound(c) PROVE Only(Lost, c, S!AfterRestart(S!Default, c))
<1> DEFINE w == S!BuildConfigText(c)
           o == S!AfterRestart(S!Default, c)
<1>1. DOMAIN c = Fields /\ o = [f \in Fields |-> o[f]] /\ \A f \in Fields : o[f] = S!Loaded(f, S!Default, w)
  BY RestartFields DEF Sound
<1>2. \A f \in Fields : w[f] = S!Written(f, c[f])
  BY RestartFields DEF Sound
<1> HIDE DEF w, o
<1>3. \A f \in Fields \ (Lost \cup {"types", "gps"}) : w[f] = c[f]
  BY <1>2, WrittenAsIs DEF Lost
<1>4. o.mode = c.mode /\ o.priority = c.priority
  <2>1. S!Default.mode = "wifi" /\ S!Default.priority = "wifi"
    BY DEF S!Default
  <2>2. w.mode = c.mode /\ w.priority = c.priority
    BY <1>3, HasFields DEF Lost
  <2>3. o.mode = S!Loaded("mode", S!Default, w) /\ o.priority = S!Loaded("priority", S!Default, w)
    BY <1>1, HasFields
  <2>4. /\ S!Loaded("mode", S!Default, w) = IF S!NetModeOf(w.mode) # Refused THEN w.mode ELSE S!Default.mode
        /\ S!Loaded("priority", S!Default, w) =
             IF S!NetPriorityOf(w.priority) # Refused THEN w.priority ELSE S!Default.priority
    BY DEF S!Loaded
  <2>5. QED
    BY <2>1, <2>2, <2>3, <2>4 DEF Sound, NetSound
<1>5. o.types = c.types
  <2>1. c.types # <<>> /\ S!TypesOf(c.types) = c.types
    BY TypesComeBack DEF Sound, GpsSound, IsTypes
  <2>2. w.types = c.types
    <3>1. w.types = S!Written("types", c.types)
      BY <1>2, HasFields
    <3>2. S!Written("types", c.types) = IF c.types = <<>> THEN <<1004, 1006, 1033>> ELSE c.types
      BY DEF S!Written, S!FreeTexts
    <3>3. QED
      BY <2>1, <3>1, <3>2
  <2>3. o.types = S!Loaded("types", S!Default, w)
    BY <1>1, HasFields
  <2>4. S!TypesOf(w.types) # <<>> => S!Loaded("types", S!Default, w) = S!TypesOf(w.types)
    BY DEF S!Loaded
  <2>5. QED
    BY <2>1, <2>2, <2>3, <2>4
<1>6. o.gps = c.gps
  <2>1. c.gps \in S!GpsModes /\ c.gps # ""
    BY DEF Sound, GpsSound, S!GpsModes
  <2>2. w.gps = c.gps
    BY <1>2, <2>1, HasFields DEF S!Written, S!FreeTexts
  <2>3. o.gps = S!Loaded("gps", S!Default, w)
    BY <1>1, HasFields
  <2>4. w.gps \in S!GpsModes => S!Loaded("gps", S!Default, w) = w.gps
    BY DEF S!Loaded
  <2>5. QED
    BY <2>1, <2>2, <2>3, <2>4
<1>7. o.steps = c.steps /\ o.speed = c.speed /\ o.hall = c.hall /\ o.duration = c.duration
  <2>1. MotorSound(c)
    BY DEF Sound
  <2>2. w.steps = c.steps /\ w.speed = c.speed /\ w.hall = c.hall /\ w.duration = c.duration
    BY <1>3, HasFields DEF Lost
  <2>3. /\ o.steps = S!Loaded("steps", S!Default, w) /\ o.speed = S!Loaded("speed", S!Default, w)
        /\ o.hall = S!Loaded("hall", S!Default, w) /\ o.duration = S!Loaded("duration", S!Default, w)
    BY <1>1, HasFields
  <2>4. /\ w.steps > 0 => S!Loaded("steps", S!Default, w) = S!Limited(w.steps, 1, 20000)
        /\ w.speed > 0 => S!Loaded("speed", S!Default, w) = w.speed
        /\ S!Loaded("hall", S!Default, w) = IF w.hall # 0 THEN 1 ELSE 0
        /\ w.duration > 0 => S!Loaded("duration", S!Default, w) = w.duration
    BY DEF S!Loaded
  <2>5. c.steps \in Int /\ c.steps > 0 /\ S!Limited(c.steps, 1, 20000) = c.steps
    <3>1. c.steps \in StepCounts
      BY <2>1 DEF MotorSound
    <3>2. QED
      BY <3>1, StepCount
  <2>6. c.speed > 0 /\ c.duration > 0 /\ c.hall \in {0, 1}
    BY <2>1 DEF MotorSound
  <2>7. QED
    BY <2>2, <2>3, <2>4, <2>5, <2>6
<1>8. o.poll = c.poll /\ o.file = c.file
  <2>1. c.poll \in S!PollSeconds /\ c.file \in S!FileSeconds
    BY DEF Sound, MeteoSound, S!ValidIntervals
  <2>2. w.poll = c.poll /\ w.file = c.file
    BY <1>3, HasFields DEF Lost
  <2>3. o.poll = S!Loaded("poll", S!Default, w) /\ o.file = S!Loaded("file", S!Default, w)
    BY <1>1, HasFields
  <2>4. /\ w.poll \in S!PollSeconds => S!Loaded("poll", S!Default, w) = w.poll
        /\ w.file \in S!FileSeconds => S!Loaded("file", S!Default, w) = w.file
    BY DEF S!Loaded
  <2>5. QED
    BY <2>1, <2>2, <2>3, <2>4
<1> DEFINE Checked == {"mode", "priority", "types", "gps", "steps", "speed", "hall", "duration", "poll", "file"}
<1>9. ASSUME NEW f \in Fields \ (Lost \cup Checked) PROVE o[f] = c[f]
  <2>1. S!Loaded(f, S!Default, w) = w[f]
    BY <1>9 DEF S!Loaded, Lost
  <2>2. QED
    BY <1>1, <1>3, <2>1
<1>10. \A f \in Fields \ Lost : o[f] = c[f]
  BY <1>4, <1>5, <1>6, <1>7, <1>8, <1>9
<1>11. QED
  BY <1>1, <1>10 DEF Only, o

LEMMA RestartStep == ASSUME NEW c, Sound(c) PROVE Sound(S!AfterRestart(S!Default, c))
<1> DEFINE w == S!BuildConfigText(c)
           o == S!AfterRestart(S!Default, c)
<1>1. Only(Lost, c, o) /\ OneNetwork(o)
  BY RestartOnly, RestartOneNetwork
<1>2. MaskSound(o)
  <2>1. w.mask = c.mask /\ w.index = c.index
    BY RestartFields, WrittenAsIs, HasFields DEF Sound
  <2>2. o.mask = S!Loaded("mask", S!Default, w) /\ o.index = S!Loaded("index", S!Default, w)
    BY RestartFields, HasFields DEF Sound
  <2> HIDE DEF w, o
  <2>3. /\ S!Loaded("mask", S!Default, w) = S!LoadedMask(w)
        /\ S!Loaded("index", S!Default, w) = S!FirstSetBitIndex(S!LoadedMask(w))
    BY DEF S!Loaded
  <2>4. QED
    BY <2>1, <2>2, <2>3, LoadedMaskIs DEF Sound, MaskSound
<1> HIDE DEF o
<1>3. Sound(o)
  BY <1>1, <1>2, Frame DEF Sound, Lost
<1>4. QED
  BY <1>3 DEF o

LEMMA TextComesBack ==
  ASSUME NEW f \in {"device", "cloud", "uri"}, NEW c, Sound(c),
         c[f] = S!Default[f] \/ (c[f].size > 0 /\ ~c[f].padded /\ ~c[f].lines)
  PROVE  S!AfterRestart(S!Default, c)[f] = c[f]
<1> DEFINE w == S!BuildConfigText(c)
           o == S!AfterRestart(S!Default, c)
<1>1. f \in Fields
  BY HasFields
<1>2. w[f] = S!Line(c[f]) /\ o[f] = S!Loaded(f, S!Default, w)
  <2>1. w[f] = S!Written(f, c[f]) /\ o[f] = S!Loaded(f, S!Default, w)
    BY <1>1, RestartFields DEF Sound
  <2>2. S!Written(f, c[f]) = S!Line(c[f])
    BY DEF S!Written, S!FreeTexts
  <2>3. QED
    BY <2>1, <2>2
<1> HIDE DEF w, o
<1>3. S!Loaded(f, S!Default, w) = IF w[f].size # 0 THEN w[f] ELSE S!Default[f]
  BY DEF S!Loaded
<1>4. S!Default[f].padded = FALSE /\ S!Default[f].lines = FALSE
  <2>1. S!Default.device = S!Text(7) /\ S!Default.cloud = S!Blank /\ S!Default.uri = S!Blank
    BY DEF S!Default
  <2>2. S!Blank.padded = FALSE /\ S!Blank.lines = FALSE
    BY DEF S!Blank
  <2>3. QED
    BY <2>1, <2>2, TextFields
<1>5. w[f] = c[f]
  <2>1. S!Line(c[f]) = c[f]
    BY <1>4 DEF S!Line, S!Trim
  <2>2. QED
    BY <1>2, <2>1
<1>6. c[f] = S!Default[f] \/ c[f].size # 0
  OBVIOUS
<1>7. o[f] = c[f]
  BY <1>2, <1>3, <1>5, <1>6
<1>8. QED
  BY <1>7 DEF o

LEMMA RestartIsNothing ==
  ASSUME NEW c, Sound(c), S!Storable(c)
  PROVE  S!AfterRestart(S!Default, c) = c
<1> DEFINE w == S!BuildConfigText(c)
           o == S!AfterRestart(S!Default, c)
<1>1. /\ o = [f \in Fields |-> o[f]] /\ c = [f \in Fields |-> c[f]]
      /\ \A f \in Fields \ Lost : o[f] = c[f]
  BY RestartOnly DEF Only, Sound
<1>2. c.mask # {} /\ c.password.size >= PasswordMin
  BY DEF S!Storable
<1>3. o.mask = c.mask /\ o.index = c.index
  <2>1. w.mask = c.mask /\ w.index = c.index
    BY RestartFields, WrittenAsIs, HasFields DEF Sound
  <2>2. o.mask = S!Loaded("mask", S!Default, w) /\ o.index = S!Loaded("index", S!Default, w)
    BY RestartFields, HasFields DEF Sound
  <2> HIDE DEF w, o
  <2>3. /\ S!Loaded("mask", S!Default, w) = S!LoadedMask(w)
        /\ S!Loaded("index", S!Default, w) = S!FirstSetBitIndex(S!LoadedMask(w))
    BY DEF S!Loaded
  <2>4. QED
    BY <1>2, <2>1, <2>2, <2>3, LoadedMaskIs DEF Sound
<1>4. o.device = c.device /\ o.cloud = c.cloud /\ o.uri = c.uri
  BY TextComesBack DEF S!Storable
<1>5. o.ssid = c.ssid /\ o.password = c.password
  <2>1. {SsidMax, PasswordMin, PasswordMax} \subseteq Nat /\ 6 < SsidMax
    BY SettingsAssumption
  <2>2. CASE BuiltIn(c)
    <3>1. S!Line(c.ssid) = S!Text(5) /\ S!Line(c.password) = S!Text(PasswordMin + 1)
      BY <2>2, LineOfText DEF BuiltIn
    <3>2. QED
      BY <2>2, <3>1, RestartNetwork DEF BuiltIn
  <2>3. CASE Asked(c)
    <3>1. S!Line(c.ssid) = c.ssid /\ c.ssid.size = SsidMax - 1
      BY <2>3, LineOfText, TextFields DEF Asked
    <3>2. c.password # S!Text(PasswordMin + 1)
      BY <2>1, <2>3, GivenSizes, TextFields DEF Asked
    <3>3. ~c.password.padded /\ ~c.password.lines
      BY <3>2, BuiltInNetwork DEF S!Storable
    <3>4. S!Line(c.password) = c.password
      BY <3>3 DEF S!Line, S!Trim
    <3>5. c.password.size < PasswordMax
      BY <2>3 DEF Asked
    <3>6. QED
      BY <1>2, <2>1, <3>1, <3>4, <3>5, RestartNetwork
  <2>4. QED
    BY <2>2, <2>3 DEF Sound, OneNetwork
<1>6. \A f \in Fields : o[f] = c[f]
  BY <1>1, <1>3, <1>4, <1>5 DEF Lost
<1> HIDE DEF o
<1>7. [f \in Fields |-> o[f]] = [f \in Fields |-> c[f]]
  BY <1>6
<1>8. o = c
  BY <1>1, <1>7, Zenon
<1>9. QED
  BY <1>8 DEF o
-----------------------------------------------------------------------------
(* The settings: the theorems                                              *)

SettingsSound == Sound(settings)

LEMMA SoundInit == TwoInit => SettingsSound
<1>1. S!Default = [f \in Fields |-> S!Default[f]]
  BY SMT DEF Fields, S!Default
<1>2. OneNetwork(S!Default)
  BY BuiltInNetwork DEF OneNetwork, BuiltIn
<1>3. /\ S!Default.mode = "wifi" /\ S!Default.priority = "wifi" /\ S!Default.gps = "base_time_60"
      /\ S!Default.types = <<1004, 1006, 1033>> /\ S!Default.steps = 100 /\ S!Default.speed = 1500
      /\ S!Default.hall = 0 /\ S!Default.duration = 10 /\ S!Default.poll = 9 /\ S!Default.file = 60
      /\ S!Default.mask = S!Bit(0) /\ S!Default.index = 0
  BY DEF S!Default
<1>4. NetSound(S!Default)
  BY <1>3 DEF NetSound
<1>5. GpsSound(S!Default)
  <2>1. IsTypes(<<1004, 1006, 1033>>)
    BY DEF IsTypes, TypeNumbers
  <2>2. QED
    BY <1>3, <2>1 DEF GpsSound, S!GpsModes
<1>6. MotorSound(S!Default)
  BY <1>3 DEF MotorSound, StepCounts
<1>7. MeteoSound(S!Default)
  BY <1>3 DEF MeteoSound, S!ValidIntervals, S!PollSeconds, S!FileSeconds
<1>8. MaskSound(S!Default)
  <2>1. MaxTemp \in Nat \ {0}
    BY SettingsAssumption DEF S!MaxTempAssumption
  <2>2. S!Bit(0) = {0}
    BY <2>1 DEF S!Bit
  <2>3. QED
    BY <1>3, <2>1, <2>2, FirstBitOfOne DEF MaskSound
<1>9. Sound(S!Default)
  BY <1>1, <1>2, <1>4, <1>5, <1>6, <1>7, <1>8 DEF Sound
<1>10. QED
  BY <1>9 DEF SettingsSound, TwoInit, S!Init

LEMMA SoundStep ==
  SettingsSound /\ [Storing \/ Applying]_<<part, command, settings, vars>> => SettingsSound'
<1> SUFFICES ASSUME SettingsSound, [Storing \/ Applying]_<<part, command, settings, vars>>
             PROVE  Sound(settings')
  BY DEF SettingsSound
<1>1. CASE S!Request
  <2>1. PICK b \in S!Complete(command) \cup S!Partial(command), count \in {0, MaxTemp} :
          /\ command \in S!Stored /\ settings' # Refused
          /\ settings' = S!Http(command, b, settings, count) \/ settings' = S!Mqtt(command, b, settings, count)
    BY <1>1 DEF S!Request, S!Apply
  <2>2. QED
    BY <2>1, RequestStep DEF SettingsSound
<1>2. CASE S!Restart
  BY <1>2, RestartStep DEF SettingsSound, S!Restart
<1>3. CASE settings' = settings
  BY <1>3 DEF SettingsSound
<1>4. QED
  BY <1>1, <1>2, <1>3 DEF Storing, Applying, S!Next

\* No restart pairs the SSID of one network with the password of another, whatever requests
\* of whatever kind came before it and however often the device was restarted.
THEOREM CredentialsStayTogether == TwoSpec => []CredentialsTogether
<1>1. SettingsSound => CredentialsTogether
  <2>1. {SsidMax, PasswordMin} \subseteq Nat /\ 6 < SsidMax
    BY SettingsAssumption
  <2>2. S!Text(SsidMax - 1) # S!Text(5)
    <3>1. SsidMax - 1 # 5
      BY <2>1
    <3>2. QED
      BY <3>1, TextFields
  <2>3. S!Text(PasswordMin + 1) \notin Given
    <3>1. PasswordMin + 1 \notin {0, PasswordMin - 1, PasswordMin}
      BY <2>1
    <3>2. QED
      BY <3>1, TextFields, GivenSizes
  <2>4. QED
    BY <2>2, <2>3, BuiltInNetwork
       DEF SettingsSound, Sound, OneNetwork, BuiltIn, Asked, CredentialsTogether, S!CredentialsTogether
<1>2. QED
  BY <1>1, SoundInit, SoundStep, PTL DEF TwoSpec

\* What config.txt can hold comes back at every restart exactly as it was applied: every
\* setting, after any requests and restarts before.
THEOREM RestartsKeep == TwoSpec => RestartKeeps
<1>1. SettingsSound => [S!Restart /\ S!Storable(settings) => settings' = settings]_S!vars
  BY RestartIsNothing DEF SettingsSound, S!Restart
<1>2. QED
  BY <1>1, SoundInit, SoundStep, PTL DEF TwoSpec, RestartKeeps, S!RestartKeeps
=============================================================================
