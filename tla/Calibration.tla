---------------------------- MODULE Calibration ----------------------------
(***************************************************************************)
(* Zero calibration of the ADCs next to AdcTask.  The relay connects the   *)
(* reference load.  An LTC2440 gives out the conversion that the previous   *)
(* read started, so a reading tells where the relay was then; a read that   *)
(* is given up before anything is clocked out leaves the old conversion     *)
(* there.  HTTP and MQTT may ask for a calibration at the same time; AdcTask*)
(* never looks at calibrating.  What AdcTask publishes is read by nothing   *)
(* here.                                                                   *)
(***************************************************************************)
EXTENDS Integers, FiniteSets

CONSTANTS
  Client,   \* tasks that call ActionCalibrate
  CalTask,  \* calibration tasks that can be created
  Channels, \* the ADCs, read in this order
  Samples,  \* kSamples
  Ignored,  \* kIgnoreSamples
  Drops,    \* UpdateState may give up after 50 ms
  None

ASSUME CalibrationAssumption ==
  /\ Channels \in Nat /\ Samples \in Nat /\ Ignored \in 1..Samples /\ Drops \in BOOLEAN
  /\ None \notin CalTask

Adc == 1..Channels
Source == {"sky", "load"}

VARIABLES
  relay,        \* where the relay is
  conv,         \* what the conversion to be read from each ADC saw
  calibrating,  \* SharedState.calibrating
  offsets,      \* of each ADC: the conversions of the sky in its offset
  unheard,      \* ADCs that gave nothing out while the samples before these
                \* offsets were ignored (history)
  handle,       \* calibration_task
  cal,          \* the calibration tasks
  asking,       \* clients between the check of the handle and the creation
  broken        \* an update was dropped, or a calibration began before the
                \* one before it had switched its relay off (history)

vars == <<relay, conv, calibrating, offsets, unheard, handle, cal, asking, broken>>

(* A calibration task: its step, the samples made, the ADCs that gave       *)
(* something out while they were ignored (history), whether a sample was     *)
(* valid, and the conversions of the sky in the sum of each ADC.             *)
Nothing == [a \in Adc |-> 0]
Task(pc) == [pc |-> pc, i |-> 0, heard |-> {}, valid |-> FALSE, sky |-> Nothing]
Absent == Task("off")

Init ==
  /\ relay = "sky" /\ conv = [a \in Adc |-> "sky"] /\ calibrating = FALSE
  /\ offsets = Nothing /\ unheard = {} /\ handle = None
  /\ cal = [t \in CalTask |-> Absent] /\ asking = {} /\ broken = FALSE

(* ReadAllAdc, told by the ADCs that clocked a frame out, those that read    *)
(* well, and those of them that did with their first frame.  An error of the *)
(* first ADC reads as zero, one of a later one ends the reading, and those   *)
(* after it are not asked.                                                  *)
Asked(good) == {a \in Adc : 2..(a - 1) \subseteq good}
Readings == {r \in [out : SUBSET Adc, good : SUBSET Adc, first : SUBSET Adc] :
               /\ r.first \subseteq r.good /\ r.good \subseteq r.out
               /\ r.out \subseteq Asked(r.good)}
Ok(r) == 2..Channels \subseteq r.good

(* LTC2440::ReadRaw_: the rising chip select after a frame starts the next   *)
(* conversion; a time-out of DRDY or an error of the bus clocks nothing out. *)
(* After a bad frame the read tries once more, on that next conversion.      *)
Convert(r) == conv' = [a \in Adc |-> IF a \in r.out THEN relay ELSE conv[a]]

(* UpdateState takes effect or, after 50 ms, does not. *)
Update(done) == done \/ Drops
-----------------------------------------------------------------------------
(* ActionCalibrate checks the handle, then creates the task. *)
Ask(c) ==
  /\ c \notin asking /\ handle = None /\ asking' = asking \cup {c}
  /\ UNCHANGED <<relay, conv, calibrating, offsets, unheard, handle, cal, broken>>

Create(c, t) ==
  /\ c \in asking /\ cal[t].pc = "off"
  /\ asking' = asking \ {c} /\ handle' = t
  /\ cal' = [cal EXCEPT ![t] = Task("begin")]
  /\ UNCHANGED <<relay, conv, calibrating, offsets, unheard, broken>>

(* The flag is tested and set in one update; a dropped one leaves           *)
(* already_running FALSE.                                                   *)
\* Fault: the flag is set but not tested.
BeginUntested(t) ==
  /\ cal[t].pc = "begin" /\ calibrating' = TRUE
  /\ cal' = [cal EXCEPT ![t].pc = "relay"] /\ UNCHANGED broken
  /\ UNCHANGED <<relay, conv, offsets, unheard, handle, asking>>

Begin(t) ==
  /\ cal[t].pc = "begin"
  /\ \E done \in BOOLEAN :
       /\ Update(done) /\ calibrating' = (calibrating \/ done)
       /\ cal' = [cal EXCEPT ![t].pc = IF done /\ calibrating THEN "end" ELSE "relay"]
       /\ broken' = (broken \/ ~done \/ (~calibrating /\ relay = "load"))
  /\ UNCHANGED <<relay, conv, offsets, unheard, handle, asking>>

SwitchOn(t) ==
  /\ cal[t].pc = "relay" /\ relay' = "load" /\ cal' = [cal EXCEPT ![t].pc = "sample"]
  /\ UNCHANGED <<conv, calibrating, offsets, unheard, handle, asking, broken>>

(* The first samples are read but not averaged; a reading that ends in an   *)
(* error is no sample.  AdcTask may read an ADC in the middle of a sample,   *)
(* which for that ADC is before or after it: the relay stays as it is.       *)
\* Fault: every sample counts.
FromTheFirst(i) == TRUE

Counts(i) == i >= Ignored

FromSky(r) == {a \in r.good : (IF a \in r.first THEN conv[a] ELSE relay) = "sky"}

Sampled(c, r) ==
  LET counts == Ok(r) /\ Counts(c.i)
  IN [c EXCEPT !.i = c.i + 1,
               !.heard = IF c.i < Ignored THEN c.heard \cup r.out ELSE c.heard,
               !.valid = c.valid \/ counts,
               !.sky = [a \in Adc |-> IF counts /\ a \in FromSky(r) THEN c.sky[a] + 1 ELSE c.sky[a]]]

Sample(t) ==
  /\ cal[t].pc = "sample" /\ cal[t].i < Samples
  /\ \E r \in Readings : Convert(r) /\ cal' = [cal EXCEPT ![t] = Sampled(cal[t], r)]
  /\ UNCHANGED <<relay, calibrating, offsets, unheard, handle, asking, broken>>

(* Offsets and flag in one update, before the relay goes back; without a    *)
(* valid sample the flag alone.                                             *)
\* Fault: the flag is cleared with the offsets only.
ClearedWithOffsets(done, valid) == done /\ valid

Cleared(done, valid) == done

Finish(t) ==
  /\ cal[t].pc = "sample" /\ cal[t].i = Samples
  /\ \E done \in BOOLEAN :
       /\ Update(done) /\ broken' = (broken \/ ~done)
       /\ calibrating' = (calibrating /\ ~Cleared(done, cal[t].valid))
       /\ IF done /\ cal[t].valid
          THEN offsets' = cal[t].sky /\ unheard' = Adc \ cal[t].heard
          ELSE UNCHANGED <<offsets, unheard>>
  /\ cal' = [cal EXCEPT ![t].pc = "release"]
  /\ UNCHANGED <<relay, conv, handle, asking>>

SwitchOff(t) ==
  /\ cal[t].pc = "release" /\ relay' = "sky" /\ cal' = [cal EXCEPT ![t].pc = "end"]
  /\ UNCHANGED <<conv, calibrating, offsets, unheard, handle, asking, broken>>

(* Clears the handle, whose task ever it names. *)
End(t) ==
  /\ cal[t].pc = "end" /\ handle' = None /\ cal' = [cal EXCEPT ![t] = Absent]
  /\ UNCHANGED <<relay, conv, calibrating, offsets, unheard, asking, broken>>
-----------------------------------------------------------------------------
(* AdcTask reads the ADCs one after the other; their order is left open. A  *)
(* read that clocks nothing out changes nothing.                             *)
AdcTask ==
  /\ \E a \in Adc : conv' = [conv EXCEPT ![a] = relay]
  /\ UNCHANGED <<relay, calibrating, offsets, unheard, handle, cal, asking, broken>>

CalibrationTask(t) == Begin(t) \/ SwitchOn(t) \/ Sample(t) \/ Finish(t) \/ SwitchOff(t) \/ End(t)

Next ==
  \/ \E c \in Client : Ask(c) \/ \E t \in CalTask : Create(c, t)
  \/ \E t \in CalTask : CalibrationTask(t)
  \/ AdcTask

Spec == Init /\ [][Next]_vars

(* Tasks run again when they are ready; nobody has to ask. *)
FairSpec == Spec /\ WF_vars(AdcTask) /\ \A t \in CalTask : WF_vars(CalibrationTask(t))
-----------------------------------------------------------------------------
(* Several clients may pass the check of the handle, and every task that     *)
(* ends clears it, whose task ever it names; the flag still lets one task    *)
(* measure at a time.                                                        *)
Measuring == {t \in CalTask : cal[t].pc \in {"relay", "sample"}}
OneMeasures == broken \/ Cardinality(Measuring) <= 1

(* No conversion of the sky gets into the offset of an ADC that gave         *)
(* something out while the samples were ignored, and one at most into that   *)
(* of an ADC that did not, whatever fails and whatever AdcTask reads.        *)
OffsetsFromLoad == broken \/ \A a \in Adc : offsets[a] <= IF a \in unheard THEN 1 ELSE 0

(* Why both hold.  One task at most has the relay, from its flag to its     *)
(* switching off; the flag stands while it measures, the relay while it may *)
(* sample or is about to give it back.  An ADC that gave something out since *)
(* holds a conversion of the load: one that was heard, and one whose         *)
(* conversion of the sky is in the sum.                                      *)
Steps == {"off", "begin", "relay", "sample", "release", "end"}
HasRelay == {t \in CalTask : cal[t].pc \in {"relay", "sample", "release"}}
Counted == [Adc -> Nat]
Tasks == [pc : Steps, i : Nat, heard : SUBSET Adc, valid : BOOLEAN, sky : Counted]

CalTypes ==
  /\ relay \in Source /\ conv \in [Adc -> Source] /\ calibrating \in BOOLEAN /\ broken \in BOOLEAN
  /\ offsets \in Counted /\ unheard \subseteq Adc
  /\ cal \in [CalTask -> Tasks]

OneAtATime ==
  /\ \A t, u \in HasRelay : t = u
  /\ calibrating <=> Measuring # {}
  /\ \A t \in CalTask : cal[t].pc \in {"sample", "release"} => relay = "load"

Fits(c, v) ==
  /\ c.pc \in {"begin", "relay"} => c.i = 0 /\ c.heard = {} /\ c.sky = Nothing
  /\ c.pc = "sample" => \A a \in Adc :
       /\ a \in c.heard => v[a] = "load"
       /\ c.sky[a] > 0 => c.sky[a] = 1 /\ c.i >= Ignored /\ a \notin c.heard /\ v[a] = "load"

LoadIsSampled ==
  /\ \A a \in Adc : offsets[a] <= IF a \in unheard THEN 1 ELSE 0
  /\ \A t \in CalTask : Fits(cal[t], conv)
CalInv == CalTypes /\ (broken \/ (OneAtATime /\ LoadIsSampled))

(* A calibration gives the ADCs back: the flag is cleared and the relay      *)
(* returns to the sky.                                                       *)
CalibrationEnds == (calibrating \/ relay = "load") ~> (broken \/ (~calibrating /\ relay = "sky"))
=============================================================================
