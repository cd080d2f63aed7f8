---------------------------- MODULE SensingProofs ----------------------------
(***************************************************************************)
(* Calibration, however many clients ask, for any number of calibration    *)
(* tasks, ADCs and samples: one task at a time measures, and a conversion of *)
(* the sky gets into the offset of no ADC that was heard in an ignored       *)
(* sample, and of any other once, until an update of the flag was dropped or *)
(* a calibration began in the other's way back (broken).  The heater, for any*)
(* number of sensors and any gains: it is regulated on sensors that exist   *)
(* and answered, and switches off when it has been too warm for long        *)
(* enough.  The 1-Wire search, for ROMs of any width: it finds every M1820. *)
(* The bytes of the GNSS receiver, for any payloads, noise and sizes of the *)
(* reads: handleBytes tells of every frame, once and in its place.          *)
(***************************************************************************)
EXTENDS MCSensing, NaturalSets, FiniteSetTheorems, SequenceTheorems

Core == OneAtATime /\ LoadIsSampled

(* One calibration task goes a step; what it has to keep to. *)
LEMMA TaskStep ==
  ASSUME NEW t \in CalTask, NEW r \in Tasks, CalTypes, cal' = [cal EXCEPT ![t] = r]
  PROVE  /\ cal' \in [CalTask -> Tasks]
         /\ cal'[t] = r
         /\ \A u \in CalTask : u # t => cal'[u] = cal[u]
  BY DEF CalTypes

LEMMA TaskTypes ==
  ASSUME NEW p \in Steps
  PROVE  /\ Task(p) \in Tasks /\ Task(p).pc = p /\ Task(p).i = 0
         /\ Task(p).heard = {} /\ Task(p).sky = Nothing
  BY DEF Task, Tasks, Nothing, Counted

(* A step of pc alone. *)
LEMMA Moved ==
  ASSUME NEW c \in Tasks, NEW p \in Steps
  PROVE  /\ [c EXCEPT !.pc = p] \in Tasks /\ [c EXCEPT !.pc = p].pc = p
         /\ [c EXCEPT !.pc = p].i = c.i /\ [c EXCEPT !.pc = p].heard = c.heard
         /\ [c EXCEPT !.pc = p].sky = c.sky
  BY DEF Tasks

(* Conversions of the load stay so while what is started is one of the load. *)
LEMMA FitsLonger ==
  ASSUME NEW c, NEW v, NEW w, Fits(c, v), \A a \in Adc : v[a] = "load" => w[a] = "load"
  PROVE  Fits(c, w)
  BY DEF Fits

(* Before its first sample and after its last nothing is asked of the ADCs.  *)
LEMMA FitsAtRest ==
  ASSUME NEW c, NEW v, c.pc \in {"off", "release", "end"}
  PROVE  Fits(c, v)
  BY DEF Fits

LEMMA FitsBefore ==
  ASSUME NEW c, NEW v, c.i = 0, c.heard = {}, c.sky = Nothing
  PROVE  Fits(c, v)
<1>1. \A a \in Adc : c.sky[a] = 0 BY DEF Nothing
<1> QED BY <1>1 DEF Fits

(* Asking, AdcTask and stuttering leave the relay and the tasks alone; a    *)
(* conversion they start is one of where the relay is.                      *)
LEMMA QuietStep ==
  ASSUME CalInv, UNCHANGED <<relay, calibrating, offsets, unheard, cal, broken>>,
         conv' \in [Adc -> Source], \A a \in Adc : conv'[a] \in {conv[a], relay}
  PROVE  CalInv'
<1>1. CalTypes' BY DEF CalInv, CalTypes
<1>2. ASSUME ~broken PROVE Core'
  <2>1. Core BY <1>2 DEF CalInv, Core
  <2>2. OneAtATime' BY <2>1 DEF Core, OneAtATime, HasRelay, Measuring
  <2>3. ASSUME NEW t \in CalTask PROVE Fits(cal[t], conv')
    <3>1. CASE cal[t].pc = "sample"
      <4>1. relay = "load" BY <2>1, <3>1 DEF Core, OneAtATime
      <4>2. \A a \in Adc : conv[a] = "load" => conv'[a] = "load" BY <4>1
      <4> QED BY <2>1, <4>2, FitsLonger DEF Core, LoadIsSampled
    <3>2. CASE cal[t].pc # "sample" BY <2>1, <3>2 DEF Core, LoadIsSampled, Fits
    <3> QED BY <3>1, <3>2
  <2>4. LoadIsSampled' BY <2>1, <2>3 DEF Core, LoadIsSampled
  <2> QED BY <2>2, <2>4 DEF Core
<1> QED BY <1>1, <1>2 DEF CalInv, Core

LEMMA CreateStep ==
  ASSUME CalInv, NEW c \in Client, NEW t \in CalTask, Create(c, t)
  PROVE  CalInv'
<1> DEFINE r == Task("begin")
<1>1. r \in Tasks /\ r.pc = "begin" /\ r.i = 0 /\ r.heard = {} /\ r.sky = Nothing BY TaskTypes DEF Steps
<1>2. cal' = [cal EXCEPT ![t] = r] /\ cal[t].pc = "off" BY DEF Create
<1>3. UNCHANGED <<relay, conv, calibrating, offsets, unheard, broken>> BY DEF Create
<1>4. CalTypes BY DEF CalInv
<1> HIDE DEF r
<1>5. /\ cal' \in [CalTask -> Tasks]
      /\ cal'[t] = r /\ \A u \in CalTask : u # t => cal'[u] = cal[u]
  BY <1>1, <1>2, <1>4, TaskStep
<1>6. CalTypes' BY <1>3, <1>4, <1>5 DEF CalTypes
<1>7. ASSUME ~broken PROVE Core'
  <2>1. Core BY <1>7 DEF CalInv, Core
  <2>2. HasRelay' = HasRelay /\ Measuring' = Measuring BY <1>1, <1>2, <1>5 DEF HasRelay, Measuring
  <2>3. OneAtATime' BY <1>1, <1>3, <1>5, <2>1, <2>2 DEF Core, OneAtATime
  <2>4. Fits(r, conv) BY <1>1, FitsBefore
  <2>5. LoadIsSampled' BY <1>3, <1>5, <2>1, <2>4 DEF Core, LoadIsSampled
  <2> QED BY <2>3, <2>5 DEF Core
<1> QED BY <1>3, <1>6, <1>7 DEF CalInv, Core

(* A calibration begins only when nobody has the relay: the flag keeps the   *)
(* others off while one measures, and afterwards the relay tells of it.      *)
LEMMA BeginStep ==
  ASSUME CalInv, NEW t \in CalTask, Begin(t)
  PROVE  CalInv'
<1>1. PICK done \in BOOLEAN :
        /\ calibrating' = (calibrating \/ done)
        /\ cal' = [cal EXCEPT ![t].pc = IF done /\ calibrating THEN "end" ELSE "relay"]
        /\ broken' = (broken \/ ~done \/ (~calibrating /\ relay = "load"))
  BY DEF Begin
<1>2. cal[t].pc = "begin" /\ UNCHANGED <<relay, conv, offsets, unheard>> BY DEF Begin
<1>3. CalTypes /\ cal[t] \in Tasks BY DEF CalInv, CalTypes
<1> DEFINE p == IF done /\ calibrating THEN "end" ELSE "relay"
           r == [cal[t] EXCEPT !.pc = p]
<1>4. p \in Steps BY DEF Steps
<1>5. cal' = [cal EXCEPT ![t] = r] BY <1>1
<1>6. p = IF done /\ calibrating THEN "end" ELSE "relay" OBVIOUS
<1> HIDE DEF p
<1>7. r \in Tasks /\ r.pc = p /\ r.i = cal[t].i /\ r.heard = cal[t].heard /\ r.sky = cal[t].sky
  BY <1>3, <1>4, Moved
<1> HIDE DEF r
<1>8. /\ cal' \in [CalTask -> Tasks]
      /\ cal'[t] = r /\ \A u \in CalTask : u # t => cal'[u] = cal[u]
  BY <1>3, <1>5, <1>7, TaskStep
<1>9. CalTypes' BY <1>1, <1>2, <1>3, <1>8 DEF CalTypes
<1>10. ASSUME ~broken' PROVE Core'
  <2>1. ~broken /\ done /\ (calibrating \/ relay # "load") BY <1>1, <1>10
  <2>2. Core BY <2>1 DEF CalInv, Core
  <2>3. Fits(r, conv)
    <3>1. cal[t].i = 0 /\ cal[t].heard = {} /\ cal[t].sky = Nothing
      BY <1>2, <2>2 DEF Core, LoadIsSampled, Fits
    <3> QED BY <1>7, <3>1, FitsBefore
  <2>4. LoadIsSampled' BY <1>2, <1>8, <2>2, <2>3 DEF Core, LoadIsSampled
  <2>5. CASE calibrating
    <3>1. r.pc = "end" /\ calibrating' = calibrating BY <1>1, <1>6, <1>7, <2>1, <2>5
    <3>2. HasRelay' = HasRelay /\ Measuring' = Measuring BY <1>2, <1>8, <3>1 DEF HasRelay, Measuring
    <3>3. OneAtATime' BY <1>2, <1>8, <2>2, <3>1, <3>2 DEF Core, OneAtATime
    <3> QED BY <2>4, <3>3 DEF Core
  <2>6. CASE ~calibrating
    <3>1. r.pc = "relay" /\ calibrating' BY <1>1, <1>6, <1>7, <2>1, <2>6
    <3>2. HasRelay = {} BY <2>1, <2>2, <2>6 DEF Core, OneAtATime, HasRelay, Measuring
    <3>3. HasRelay' = {t} /\ Measuring' = {t} BY <1>8, <3>1, <3>2 DEF HasRelay, Measuring
    <3>4. OneAtATime' BY <1>2, <1>8, <3>1, <3>2, <3>3 DEF OneAtATime, HasRelay
    <3> QED BY <2>4, <3>4 DEF Core
  <2> QED BY <2>5, <2>6
<1> QED BY <1>9, <1>10 DEF CalInv, Core

(* A calibration that has the relay switches it on. *)
LEMMA SwitchOnStep ==
  ASSUME CalInv, NEW t \in CalTask, SwitchOn(t)
  PROVE  CalInv'
<1>1. /\ cal[t].pc = "relay" /\ relay' = "load"
      /\ cal' = [cal EXCEPT ![t].pc = "sample"]
      /\ UNCHANGED <<conv, calibrating, offsets, unheard, broken>>
  BY DEF SwitchOn
<1>2. CalTypes /\ cal[t] \in Tasks BY DEF CalInv, CalTypes
<1> DEFINE r == [cal[t] EXCEPT !.pc = "sample"]
<1>3. r \in Tasks /\ r.pc = "sample" /\ r.i = cal[t].i /\ r.heard = cal[t].heard /\ r.sky = cal[t].sky
  BY <1>2, Moved DEF Steps
<1>4. cal' = [cal EXCEPT ![t] = r] BY <1>1
<1> HIDE DEF r
<1>5. /\ cal' \in [CalTask -> Tasks]
      /\ cal'[t] = r /\ \A u \in CalTask : u # t => cal'[u] = cal[u]
  BY <1>2, <1>3, <1>4, TaskStep
<1>6. CalTypes' BY <1>1, <1>2, <1>5 DEF CalTypes, Source
<1>7. ASSUME ~broken PROVE Core'
  <2>1. Core BY <1>7 DEF CalInv, Core
  <2>2. HasRelay' = HasRelay /\ Measuring' = Measuring BY <1>1, <1>3, <1>5 DEF HasRelay, Measuring
  <2>3. OneAtATime' BY <1>1, <2>1, <2>2 DEF Core, OneAtATime
  <2>4. Fits(r, conv)
    <3>1. cal[t].i = 0 /\ cal[t].heard = {} /\ cal[t].sky = Nothing
      BY <1>1, <2>1 DEF Core, LoadIsSampled, Fits
    <3> QED BY <1>3, <3>1, FitsBefore
  <2>5. LoadIsSampled' BY <1>1, <1>5, <2>1, <2>4 DEF Core, LoadIsSampled
  <2> QED BY <2>3, <2>5 DEF Core
<1> QED BY <1>1, <1>6, <1>7 DEF CalInv, Core

(* What a sample makes of its task. *)
LEMMA SampledTask ==
  ASSUME NEW c \in Tasks, NEW r \in Readings
  PROVE  /\ Sampled(c, r) \in Tasks
         /\ Sampled(c, r).pc = c.pc /\ Sampled(c, r).i = c.i + 1
         /\ Sampled(c, r).heard = IF c.i < Ignored THEN c.heard \cup r.out ELSE c.heard
         /\ \A a \in Adc : Sampled(c, r).sky[a] =
              IF Ok(r) /\ Counts(c.i) /\ a \in FromSky(r) THEN c.sky[a] + 1 ELSE c.sky[a]
<1> DEFINE h == IF c.i < Ignored THEN c.heard \cup r.out ELSE c.heard
           v == c.valid \/ (Ok(r) /\ Counts(c.i))
           s == [a \in Adc |-> IF (Ok(r) /\ Counts(c.i)) /\ a \in FromSky(r) THEN c.sky[a] + 1 ELSE c.sky[a]]
<1>1. r.out \subseteq Adc BY DEF Readings
<1>2. c.i + 1 \in Nat /\ c.heard \subseteq Adc /\ c.sky \in [Adc -> Nat] /\ c.valid \in BOOLEAN
  BY DEF Tasks, Counted
<1>3. h \in SUBSET Adc BY <1>1, <1>2
<1>4. v \in BOOLEAN BY <1>2 DEF Ok, Counts
<1>5. s \in Counted
  <2>1. \A a \in Adc : c.sky[a] \in Nat /\ c.sky[a] + 1 \in Nat BY <1>2
  <2> QED BY <2>1 DEF Counted
<1>6. Sampled(c, r) = [c EXCEPT !.i = c.i + 1, !.heard = h, !.valid = v, !.sky = s] BY DEF Sampled
<1>7. \A a \in Adc : s[a] = IF Ok(r) /\ Counts(c.i) /\ a \in FromSky(r) THEN c.sky[a] + 1 ELSE c.sky[a]
  OBVIOUS
<1> HIDE DEF h, v, s
<1>8. /\ Sampled(c, r) \in Tasks
      /\ Sampled(c, r).pc = c.pc /\ Sampled(c, r).i = c.i + 1
      /\ Sampled(c, r).heard = h /\ Sampled(c, r).sky = s
  BY <1>2, <1>3, <1>4, <1>5, <1>6 DEF Tasks
<1> QED BY <1>7, <1>8 DEF h

(* An ADC that was heard, or whose conversion of the sky is in the sum,      *)
(* holds one of the load; so a sample takes the sky in at most once, and     *)
(* only from an ADC that was not heard.                                     *)
LEMMA SampleFits ==
  ASSUME NEW c \in Tasks, NEW r \in Readings, c.pc = "sample", Fits(c, conv), relay = "load",
         conv \in [Adc -> Source], NEW v, v = [a \in Adc |-> IF a \in r.out THEN relay ELSE conv[a]]
  PROVE  Fits(Sampled(c, r), v)
<1> DEFINE d == Sampled(c, r)
<1>1. /\ d.pc = "sample" /\ d.i = c.i + 1
      /\ d.heard = IF c.i < Ignored THEN c.heard \cup r.out ELSE c.heard
      /\ \A a \in Adc : d.sky[a] =
           IF Ok(r) /\ Counts(c.i) /\ a \in FromSky(r) THEN c.sky[a] + 1 ELSE c.sky[a]
  BY SampledTask
<1> HIDE DEF d
<1>2. c.i \in Nat /\ Ignored \in Nat /\ \A a \in Adc : c.sky[a] \in Nat
  BY CalibrationAssumption DEF Tasks, Counted
<1> SUFFICES ASSUME NEW a \in Adc
             PROVE  /\ a \in d.heard => v[a] = "load"
                    /\ d.sky[a] > 0 => d.sky[a] = 1 /\ d.i >= Ignored /\ a \notin d.heard /\ v[a] = "load"
  BY <1>1 DEF Fits, d
<1>3. /\ a \in c.heard => conv[a] = "load"
      /\ c.sky[a] > 0 => c.sky[a] = 1 /\ c.i >= Ignored /\ a \notin c.heard /\ conv[a] = "load"
  BY DEF Fits
<1>4. v[a] = IF a \in r.out THEN "load" ELSE conv[a] OBVIOUS
<1>5. a \in d.heard => v[a] = "load" BY <1>1, <1>3, <1>4
<1>6. CASE Ok(r) /\ Counts(c.i) /\ a \in FromSky(r)
  <2>1. c.i >= Ignored BY <1>6 DEF Counts
  <2>2. a \in r.out /\ conv[a] = "sky" BY <1>6 DEF FromSky, Readings
  <2>3. c.sky[a] = 0 /\ a \notin c.heard BY <1>2, <1>3, <2>2
  <2>4. d.sky[a] = 1 /\ d.heard = c.heard /\ d.i >= Ignored BY <1>1, <1>2, <1>6, <2>1, <2>3
  <2> QED BY <1>4, <1>5, <2>2, <2>3, <2>4
<1>7. CASE ~(Ok(r) /\ Counts(c.i) /\ a \in FromSky(r))
  <2>1. d.sky[a] = c.sky[a] BY <1>1, <1>7
  <2>2. ASSUME c.sky[a] > 0
        PROVE  c.sky[a] = 1 /\ d.i >= Ignored /\ d.heard = c.heard /\ a \notin c.heard /\ v[a] = "load"
    <3>1. c.sky[a] = 1 /\ c.i >= Ignored /\ a \notin c.heard /\ conv[a] = "load" BY <1>3, <2>2
    <3>2. ~(c.i < Ignored) /\ c.i + 1 >= Ignored BY <1>2, <3>1
    <3> QED BY <1>1, <1>4, <3>1, <3>2
  <2> QED BY <1>5, <2>1, <2>2
<1> QED BY <1>6, <1>7

LEMMA SampleStep ==
  ASSUME CalInv, NEW t \in CalTask, Sample(t)
  PROVE  CalInv'
<1>1. PICK r \in Readings : Convert(r) /\ cal' = [cal EXCEPT ![t] = Sampled(cal[t], r)] BY DEF Sample
<1>2. cal[t].pc = "sample" /\ UNCHANGED <<relay, calibrating, offsets, unheard, broken>> BY DEF Sample
<1>3. CalTypes /\ cal[t] \in Tasks /\ conv \in [Adc -> Source] /\ relay \in Source BY DEF CalInv, CalTypes
<1> DEFINE d == Sampled(cal[t], r)
<1>4. d \in Tasks /\ d.pc = "sample" BY <1>2, <1>3, SampledTask
<1>5. cal' = [cal EXCEPT ![t] = d] BY <1>1
<1>6. conv' = [a \in Adc |-> IF a \in r.out THEN relay ELSE conv[a]] BY <1>1 DEF Convert
<1>7. conv' \in [Adc -> Source] BY <1>3, <1>6
<1>8. ASSUME Fits(cal[t], conv), relay = "load" PROVE Fits(d, conv')
  BY <1>2, <1>3, <1>6, <1>8, SampleFits
<1> HIDE DEF d
<1>9. /\ cal' \in [CalTask -> Tasks]
      /\ cal'[t] = d /\ \A u \in CalTask : u # t => cal'[u] = cal[u]
  BY <1>3, <1>4, <1>5, TaskStep
<1>10. CalTypes' BY <1>2, <1>3, <1>7, <1>9 DEF CalTypes
<1>11. ASSUME ~broken PROVE Core'
  <2>1. Core BY <1>11 DEF CalInv, Core
  <2>2. HasRelay' = HasRelay /\ Measuring' = Measuring BY <1>2, <1>4, <1>9 DEF HasRelay, Measuring
  <2>3. OneAtATime' BY <1>2, <1>4, <1>9, <2>1, <2>2 DEF Core, OneAtATime
  <2>4. relay = "load" BY <1>2, <2>1 DEF Core, OneAtATime
  <2>5. \A a \in Adc : conv[a] = "load" => conv'[a] = "load" BY <1>6, <2>4
  <2>6. \A u \in CalTask : Fits(cal[u], conv) BY <2>1 DEF Core, LoadIsSampled
  <2>7. \A u \in CalTask : Fits(cal'[u], conv') BY <1>8, <1>9, <2>4, <2>5, <2>6, FitsLonger
  <2>8. LoadIsSampled' BY <1>2, <2>1, <2>7 DEF Core, LoadIsSampled
  <2> QED BY <2>3, <2>8 DEF Core
<1> QED BY <1>2, <1>10, <1>11 DEF CalInv, Core

(* The sums become the offsets. *)
LEMMA FinishStep ==
  ASSUME CalInv, NEW t \in CalTask, Finish(t)
  PROVE  CalInv'
<1>1. PICK done \in BOOLEAN :
        /\ calibrating' = (calibrating /\ ~done) /\ broken' = (broken \/ ~done)
        /\ \/ offsets' = cal[t].sky /\ unheard' = Adc \ cal[t].heard
           \/ UNCHANGED <<offsets, unheard>>
  BY DEF Finish, Cleared
<1>2. /\ cal[t].pc = "sample" /\ cal' = [cal EXCEPT ![t].pc = "release"] /\ UNCHANGED <<relay, conv>>
  BY DEF Finish
<1>3. CalTypes /\ cal[t] \in Tasks BY DEF CalInv, CalTypes
<1> DEFINE r == [cal[t] EXCEPT !.pc = "release"]
<1>4. r \in Tasks /\ r.pc = "release" BY <1>3, Moved DEF Steps
<1>5. cal' = [cal EXCEPT ![t] = r] BY <1>2
<1> HIDE DEF r
<1>6. /\ cal' \in [CalTask -> Tasks]
      /\ cal'[t] = r /\ \A u \in CalTask : u # t => cal'[u] = cal[u]
  BY <1>3, <1>4, <1>5, TaskStep
<1>7. CalTypes'
  <2>1. cal[t].sky \in Counted /\ Adc \ cal[t].heard \subseteq Adc BY <1>3 DEF Tasks
  <2>2. offsets' \in Counted /\ unheard' \subseteq Adc BY <1>1, <1>3, <2>1 DEF CalTypes
  <2>3. calibrating' \in BOOLEAN /\ broken' \in BOOLEAN BY <1>1, <1>3 DEF CalTypes
  <2> QED BY <1>2, <1>3, <1>6, <2>2, <2>3 DEF CalTypes
<1>8. ASSUME ~broken' PROVE Core'
  <2>1. ~broken /\ done BY <1>1, <1>8
  <2>2. Core BY <2>1 DEF CalInv, Core
  <2>3. HasRelay' = HasRelay BY <1>2, <1>4, <1>6 DEF HasRelay
  <2>4. Measuring' = {}
    <3>1. \A u \in CalTask : cal[u].pc \in {"relay", "sample"} => u = t
      BY <1>2, <2>2 DEF Core, OneAtATime, HasRelay
    <3> QED BY <1>4, <1>6, <3>1 DEF Measuring
  <2>5. OneAtATime' BY <1>1, <1>2, <1>6, <2>1, <2>2, <2>3, <2>4 DEF Core, OneAtATime
  <2>6. \A u \in CalTask : Fits(cal'[u], conv')
    <3>1. Fits(r, conv) BY <1>4, FitsAtRest
    <3> QED BY <1>2, <1>6, <2>2, <3>1 DEF Core, LoadIsSampled
  <2>7. \A a \in Adc : offsets'[a] <= IF a \in unheard' THEN 1 ELSE 0
    <3>1. CASE UNCHANGED <<offsets, unheard>> BY <2>2, <3>1 DEF Core, LoadIsSampled
    <3>2. CASE offsets' = cal[t].sky /\ unheard' = Adc \ cal[t].heard
      <4> SUFFICES ASSUME NEW a \in Adc PROVE cal[t].sky[a] <= IF a \in cal[t].heard THEN 0 ELSE 1
        BY <3>2
      <4>1. cal[t].sky[a] > 0 => cal[t].sky[a] = 1 /\ a \notin cal[t].heard
        BY <1>2, <2>2 DEF Core, LoadIsSampled, Fits
      <4>2. cal[t].sky[a] \in Nat BY <1>3 DEF Tasks, Counted
      <4> QED BY <4>1, <4>2
    <3> QED BY <1>1, <3>1, <3>2
  <2>8. LoadIsSampled' BY <2>6, <2>7 DEF LoadIsSampled
  <2> QED BY <2>5, <2>8 DEF Core
<1> QED BY <1>7, <1>8 DEF CalInv, Core

(* The task that gives the relay back was the only one that had it. *)
LEMMA SwitchOffStep ==
  ASSUME CalInv, NEW t \in CalTask, SwitchOff(t)
  PROVE  CalInv'
<1>1. /\ cal[t].pc = "release" /\ relay' = "sky" /\ cal' = [cal EXCEPT ![t].pc = "end"]
      /\ UNCHANGED <<conv, calibrating, offsets, unheard, broken>>
  BY DEF SwitchOff
<1>2. CalTypes /\ cal[t] \in Tasks BY DEF CalInv, CalTypes
<1> DEFINE r == [cal[t] EXCEPT !.pc = "end"]
<1>3. r \in Tasks /\ r.pc = "end" BY <1>2, Moved DEF Steps
<1>4. cal' = [cal EXCEPT ![t] = r] BY <1>1
<1> HIDE DEF r
<1>5. /\ cal' \in [CalTask -> Tasks]
      /\ cal'[t] = r /\ \A u \in CalTask : u # t => cal'[u] = cal[u]
  BY <1>2, <1>3, <1>4, TaskStep
<1>6. CalTypes' BY <1>1, <1>2, <1>5 DEF CalTypes, Source
<1>7. ASSUME ~broken PROVE Core'
  <2>1. Core BY <1>7 DEF CalInv, Core
  <2>2. HasRelay' = {}
    <3>1. \A u \in HasRelay : u = t BY <1>1, <2>1 DEF Core, OneAtATime, HasRelay
    <3> QED BY <1>3, <1>5, <3>1 DEF HasRelay
  <2>3. Measuring' = Measuring BY <1>1, <1>3, <1>5 DEF Measuring
  <2>4. OneAtATime' BY <1>1, <2>1, <2>2, <2>3 DEF Core, OneAtATime, HasRelay
  <2>5. Fits(r, conv) BY <1>3, FitsAtRest
  <2>6. LoadIsSampled' BY <1>1, <1>5, <2>1, <2>5 DEF Core, LoadIsSampled
  <2> QED BY <2>4, <2>6 DEF Core
<1> QED BY <1>1, <1>6, <1>7 DEF CalInv, Core

LEMMA EndStep ==
  ASSUME CalInv, NEW t \in CalTask, End(t)
  PROVE  CalInv'
<1>1. /\ cal[t].pc = "end" /\ cal' = [cal EXCEPT ![t] = Absent]
      /\ UNCHANGED <<relay, conv, calibrating, offsets, unheard, broken>>
  BY DEF End
<1>2. CalTypes BY DEF CalInv
<1>3. Absent \in Tasks /\ Absent.pc = "off" BY TaskTypes DEF Absent, Steps
<1>4. /\ cal' \in [CalTask -> Tasks]
      /\ cal'[t] = Absent /\ \A u \in CalTask : u # t => cal'[u] = cal[u]
  BY <1>1, <1>2, <1>3, TaskStep
<1>5. CalTypes' BY <1>1, <1>2, <1>4 DEF CalTypes
<1>6. ASSUME ~broken PROVE Core'
  <2>1. Core BY <1>6 DEF CalInv, Core
  <2>2. HasRelay' = HasRelay /\ Measuring' = Measuring BY <1>1, <1>3, <1>4 DEF HasRelay, Measuring
  <2>3. OneAtATime' BY <1>1, <1>3, <1>4, <2>1, <2>2 DEF Core, OneAtATime
  <2>4. Fits(Absent, conv) BY <1>3, FitsAtRest
  <2>5. LoadIsSampled' BY <1>1, <1>4, <2>1, <2>4 DEF Core, LoadIsSampled
  <2> QED BY <2>3, <2>5 DEF Core
<1> QED BY <1>1, <1>5, <1>6 DEF CalInv, Core

LEMMA CalInit == Init => CalInv
<1> SUFFICES ASSUME Init PROVE CalInv OBVIOUS
<1>1. Absent \in Tasks /\ Absent.pc = "off" BY TaskTypes DEF Absent, Steps
<1>2. cal = [t \in CalTask |-> Absent] BY DEF Init
<1> HIDE DEF Absent
<1>3. \A t \in CalTask : cal[t] = Absent BY <1>2
<1>4. Nothing \in Counted /\ \A a \in Adc : Nothing[a] = 0 BY DEF Nothing, Counted
<1>5. conv \in [Adc -> Source] /\ relay \in Source BY DEF Init, Source
<1>6. cal \in [CalTask -> Tasks] BY <1>1, <1>2
<1>7. CalTypes BY <1>4, <1>5, <1>6 DEF Init, CalTypes
<1>8. OneAtATime BY <1>1, <1>3 DEF Init, OneAtATime, HasRelay, Measuring
<1>9. LoadIsSampled
  <2>1. Fits(Absent, conv) BY <1>1, FitsAtRest
  <2> QED BY <1>3, <1>4, <2>1 DEF Init, LoadIsSampled
<1> QED BY <1>7, <1>8, <1>9 DEF CalInv

LEMMA CalStep == CalInv /\ [Next]_vars => CalInv'
<1> SUFFICES ASSUME CalInv, [Next]_vars PROVE CalInv' OBVIOUS
<1>0. conv \in [Adc -> Source] /\ relay \in Source BY DEF CalInv, CalTypes
<1>1. CASE UNCHANGED vars BY <1>0, <1>1, QuietStep DEF vars
<1>2. ASSUME NEW c \in Client, Ask(c) PROVE CalInv' BY <1>0, <1>2, QuietStep DEF Ask
<1>3. ASSUME NEW c \in Client, NEW t \in CalTask, Create(c, t) PROVE CalInv' BY <1>3, CreateStep
<1>4. ASSUME NEW t \in CalTask, CalibrationTask(t) PROVE CalInv'
  BY <1>4, BeginStep, SwitchOnStep, SampleStep, FinishStep, SwitchOffStep, EndStep DEF CalibrationTask
<1>5. CASE AdcTask
  <2>1. PICK a \in Adc : conv' = [conv EXCEPT ![a] = relay] BY <1>5 DEF AdcTask
  <2>2. conv' \in [Adc -> Source] /\ \A b \in Adc : conv'[b] \in {conv[b], relay} BY <1>0, <2>1
  <2> QED BY <1>5, <2>2, QuietStep DEF AdcTask
<1> QED BY <1>1, <1>2, <1>3, <1>4, <1>5 DEF Next

(* For any clients, tasks and numbers of samples: the inductive invariant.  *)
THEOREM CalHolds == Spec => []CalInv
<1>1. Init => CalInv BY CalInit
<1>2. CalInv /\ [Next]_vars => CalInv' BY CalStep
<1> QED BY <1>1, <1>2, PTL DEF Spec

(* However many clients pass the check of calibration_task at once, one     *)
(* calibration task at a time reads the ADCs.                               *)
THEOREM OneTaskMeasures == Spec => []OneMeasures
<1>1. CalInv => OneMeasures
  <2> SUFFICES ASSUME CalInv, ~broken PROVE Cardinality(Measuring) <= 1 BY DEF OneMeasures
  <2>1. \A t, u \in Measuring : t = u BY DEF CalInv, OneAtATime, HasRelay, Measuring
  <2>2. CASE Measuring = {} BY <2>2, FS_EmptySet
  <2>3. CASE Measuring # {}
    <3>1. PICK t : t \in Measuring BY <2>3
    <3>2. Measuring = {t} BY <2>1, <3>1
    <3> QED BY <3>2, FS_Singleton
  <2> QED BY <2>2, <2>3
<1> QED BY <1>1, CalHolds, PTL

(* No conversion of the sky gets into the offset of an ADC that gave         *)
(* something out while the samples were ignored, and one at most into any    *)
(* other, however the readings fail and whichever task reads next to it.    *)
THEOREM OffsetsAreOfTheLoad == Spec => []OffsetsFromLoad
<1>1. CalInv => OffsetsFromLoad BY DEF CalInv, LoadIsSampled, OffsetsFromLoad
<1> QED BY <1>1, CalHolds, PTL
-----------------------------------------------------------------------------
(* The sensors that the heater is regulated on                             *)

Exists(n) == 0..(n - 1)

LEMMA AvailableIsExists == ASSUME NEW n \in 0..MaxTemp PROVE Available(n) = Exists(n)
  BY MaxTempAssumption DEF Available, Limited, Exists

Controller(k, t, m, j) ==
  [enabled |-> Boot.enabled, setpoint |-> Boot.setpoint, count |-> k, temps |-> t, mask |-> m, index |-> j]

WithReading(x, n, r) == [x EXCEPT !.count = n, !.temps = r]
WithMask(x, m, j) == [x EXCEPT !.mask = m, !.index = j]

LEMMA CountAndTemps ==
  ASSUME NEW k, NEW t, NEW m, NEW j, NEW n, NEW r
  PROVE  WithReading(Controller(k, t, m, j), n, r) = Controller(n, r, m, j)
<1> DEFINE x == Controller(k, t, m, j)
           y == Controller(n, t, m, j)
<1>1. [x EXCEPT !.count = n] = y
  BY DEF Controller
<1>2. [y EXCEPT !.temps = r] = Controller(n, r, m, j)
  BY DEF Controller
<1>3. [x EXCEPT !.count = n, !.temps = r] = [[x EXCEPT !.count = n] EXCEPT !.temps = r]
  OBVIOUS
<1> HIDE DEF x, y
<1>4. [[x EXCEPT !.count = n] EXCEPT !.temps = r] = [y EXCEPT !.temps = r]
  BY <1>1
<1>5. QED
  BY <1>2, <1>3, <1>4 DEF x, WithReading

LEMMA MaskAndIndex ==
  ASSUME NEW k, NEW t, NEW m, NEW j, NEW n, NEW i
  PROVE  WithMask(Controller(k, t, m, j), n, i) = Controller(k, t, n, i)
<1> DEFINE x == Controller(k, t, m, j)
           y == Controller(k, t, n, j)
<1>1. [x EXCEPT !.mask = n] = y
  BY DEF Controller
<1>2. [y EXCEPT !.index = i] = Controller(k, t, n, i)
  BY DEF Controller
<1>3. [x EXCEPT !.mask = n, !.index = i] = [[x EXCEPT !.mask = n] EXCEPT !.index = i]
  OBVIOUS
<1> HIDE DEF x, y
<1>4. [[x EXCEPT !.mask = n] EXCEPT !.index = i] = [y EXCEPT !.index = i]
  BY <1>1
<1>5. QED
  BY <1>2, <1>3, <1>4 DEF x, WithMask

LEMMA ControllerFields ==
  ASSUME NEW k, NEW t, NEW m, NEW j, NEW x, x = Controller(k, t, m, j)
  PROVE  x.count = k /\ x.temps = t /\ x.mask = m /\ x.index = j
  BY DEF Controller

LEMMA BootAsController == Boot = Controller(0, <<>>, {0}, 0)
  BY DEF Boot, Controller

\* What the first good attempt of a reading leaves.
LEMMA GoodReading ==
  ASSUME NEW n \in 1..MaxTemp, NEW attempts \in Attempt \X Attempt, NEW celsius,
         ReadTemperatures(n, attempts, celsius).ok
  PROVE  DOMAIN ReadTemperatures(n, attempts, celsius).temps = Exists(n)
<1> DEFINE good == {k \in DOMAIN attempts : attempts[k].started /\ attempts[k].ok # {}}
           temps == [i \in 0..(n - 1) |-> IF i \in attempts[Min(good)].ok THEN celsius[i] ELSE NaN]
<1>1. ReadTemperatures(n, attempts, celsius) =
        IF n = 0 \/ good = {} THEN [ok |-> FALSE] ELSE [ok |-> TRUE, temps |-> temps]
  BY DEF ReadTemperatures
<1>2. DOMAIN temps = Exists(n)
  BY DEF Exists
<1> HIDE DEF good, temps
<1>3. ~(n = 0 \/ good = {})
  BY <1>1
<1>4. QED
  BY <1>1, <1>2, <1>3

OnSensors(c, n, m, j) ==
  c.mask = IF m \cap Exists(n) # {} THEN m \cap Exists(n) ELSE {IF j \in Exists(n) THEN j ELSE 0}

\* A reading of n sensors brings the mask inside them; it is never empty.
LEMMA AfterReading ==
  ASSUME NEW k, NEW t, NEW m \in SUBSET Int, NEW j \in Int, NEW n \in 1..MaxTemp,
         NEW got, got.ok, DOMAIN got.temps = Exists(n),
         NEW c, c = TempTask(Controller(k, t, m, j), got)
  PROVE  c.count = n /\ c.temps = got.temps /\ OnSensors(c, n, m, j)
<1> DEFINE x == Controller(k, t, m, j)
           temps == got.temps
           y == Controller(n, temps, m, j)
           mask == MaskOnSensors(y)
           index == IF j \in Available(n) THEN j ELSE FirstSetBitIndex(mask)
<1>1. Cardinality(Exists(n)) = n
  <2>1. n - 1 \in Int /\ 0 <= n - 1
    OBVIOUS
  <2>2. Cardinality(0..(n - 1)) = (n - 1) - 0 + 1
    BY <2>1, FS_Interval
  <2>3. QED
    BY <2>2 DEF Exists
<1>2. WithReading(x, n, temps) = y
  BY CountAndTemps
<1>3. y.count = n /\ y.mask = m /\ y.index = j
  BY ControllerFields
<1>4. mask = IF m \cap Exists(n) # {} THEN m \cap Exists(n) ELSE {IF j \in Exists(n) THEN j ELSE 0}
  <2>1. Available(n) = Exists(n)
    BY AvailableIsExists
  <2>2. QED
    BY <1>3, <2>1 DEF MaskOnSensors
<1>5. c = WithMask(y, mask, index)
  <2> HIDE DEF x, y, mask
  <2>1. c = [y EXCEPT !.mask = mask, !.index = IF @ \in Available(y.count) THEN @ ELSE FirstSetBitIndex(mask)]
    BY <1>1, <1>2 DEF TempTask, WithReading, x, mask
  <2>2. QED
    BY <1>3, <2>1 DEF WithMask
<1>6. c = Controller(n, temps, mask, index)
  BY <1>5, MaskAndIndex
<1> HIDE DEF mask, index
<1>7. QED
  BY <1>4, <1>6, ControllerFields DEF OnSensors

\* PidTask averages the sensors of such a mask that answered.
LEMMA RegulatesOnMask ==
  ASSUME NEW n \in 1..MaxTemp, NEW c, c.count = n, c.mask # {}, c.mask \subseteq Exists(n)
  PROVE  PidMask(c) = c.mask /\ Regulating(c) = c.mask \cap {i \in Exists(n) : c.temps[i] # NaN}
  BY AvailableIsExists DEF PidMask, Regulating
-----------------------------------------------------------------------------
\* What a request leaves in the mask: the sensors asked for, if it saw them.
LEMMA AskedMask ==
  ASSUME NEW count \in 0..MaxTemp, NEW t,
         NEW q, q.sensor \in Int, q.mask \in SUBSET Int, q.maskSet \in BOOLEAN,
         NEW x, x = PidApply(WithReading(Boot, count, t), q, count)
  PROVE  \E m \in SUBSET Int, j \in Int :
           /\ x = Controller(count, t, m, j)
           /\ q.maskSet /\ q.mask \cap Exists(count) # {} => m = q.mask \cap Exists(count)
<1> DEFINE sensor == q.sensor
           mask == q.mask
           set == q.maskSet
           s == IF count > 0 THEN Limited(sensor, 0, count - 1) ELSE Limited(sensor, 0, sensor)
           clamped == mask \cap Available(count)
           m == IF ~set \/ (clamped = {} /\ count > 0) THEN Bit(s) ELSE clamped
           j == IF set THEN FirstSetBitIndex(m) ELSE s
<1>1. s \in Int
  BY DEF Limited
<1>2. clamped = mask \cap Exists(count)
  BY AvailableIsExists
<1>3. m \in SUBSET Nat
  <2>1. clamped \in SUBSET Nat
    BY <1>2 DEF Exists
  <2>2. Bit(s) \in SUBSET Nat
    BY DEF Bit
  <2>3. QED
    BY <2>1, <2>2
<1>4. FirstSetBitIndex(m) \in Int
  <2>1. CASE m = {}
    BY <2>1 DEF FirstSetBitIndex
  <2>2. CASE m # {}
    <3>1. \E i \in m : \A k \in m : i <= k
      BY <1>3, <2>2, LeastNatural
    <3>2. Min(m) \in m
      BY <3>1 DEF Min
    <3>3. QED
      BY <1>3, <2>2, <3>2 DEF FirstSetBitIndex
  <2>3. QED
    BY <2>1, <2>2
<1>5. x = [WithReading(Boot, count, t) EXCEPT !.mask = m, !.index = j]
  BY DEF PidApply
<1>6. set /\ mask \cap Exists(count) # {} => m = mask \cap Exists(count)
  BY <1>2
<1>7. m \in SUBSET Int /\ j \in Int
  BY <1>1, <1>3, <1>4
<1> HIDE DEF m, j
<1>8. x = Controller(count, t, m, j)
  <2>1. WithReading(Boot, count, t) = Controller(count, t, {0}, 0)
    BY BootAsController, CountAndTemps
  <2>2. x = WithMask(WithReading(Boot, count, t), m, j)
    BY <1>5 DEF WithMask
  <2>3. QED
    BY <2>1, <2>2, MaskAndIndex
<1>9. QED
  BY <1>6, <1>7, <1>8

LEMMA SensorsAsAsked == part = "mask" => RegulatesAsAsked
<1> SUFFICES ASSUME NEW input \in Selections
             PROVE  LET n == input.n
                        req == input.req
                        before == IF input.seen THEN [Boot EXCEPT !.count = n, !.temps = [i \in 0..(n - 1) |-> i]] ELSE Boot
                        got == ReadTemperatures(n, input.attempts, [i \in Sensor |-> i])
                        c == TempTask(PidApply(before, req, before.count), got)
                        asked == req.mask \cap 0..(n - 1)
                        answered == {i \in 0..(n - 1) : c.temps[i] # NaN}
                    IN got.ok =>
                         /\ PidMask(c) # {} /\ PidMask(c) \subseteq 0..(n - 1)
                         /\ Regulating(c) = PidMask(c) \cap answered
                         /\ input.seen /\ req.maskSet /\ asked # {} => PidMask(c) = asked
  BY DEF RegulatesAsAsked
<1> DEFINE n == input.n
           req == input.req
           count == IF input.seen THEN n ELSE 0
           t == IF input.seen THEN [i \in 0..(n - 1) |-> i] ELSE <<>>
           before == IF input.seen THEN [Boot EXCEPT !.count = n, !.temps = [i \in 0..(n - 1) |-> i]] ELSE Boot
           got == ReadTemperatures(n, input.attempts, [i \in Sensor |-> i])
           x == PidApply(before, req, before.count)
           c == TempTask(x, got)
<1>1. /\ n \in 1..MaxTemp /\ input.attempts \in Attempt \X Attempt /\ input.seen \in BOOLEAN
      /\ req.sensor \in Int /\ req.mask \in SUBSET Int /\ req.maskSet \in BOOLEAN
  BY MaxTempAssumption DEF Selections, Sensor
<1>2. before = WithReading(Boot, count, t) /\ before.count = count /\ count \in 0..MaxTemp
  <2>1. CASE input.seen
    <3>0. before = WithReading(Boot, n, t)
      BY <2>1 DEF WithReading
    <3>1. before = Controller(n, t, {0}, 0)
      BY <3>0, BootAsController, CountAndTemps
    <3>2. QED
      BY <1>1, <2>1, <3>0, <3>1, ControllerFields
  <2>2. CASE ~input.seen
    <3>1. before = Boot /\ count = 0 /\ t = <<>>
      BY <2>2
    <3>2. WithReading(Boot, 0, <<>>) = Boot /\ Boot.count = 0
      BY BootAsController, CountAndTemps, ControllerFields
    <3>3. 0 \in 0..MaxTemp
      BY MaxTempAssumption
    <3>4. QED
      <4> HIDE DEF before, count, t
      <4>1. QED
        BY <3>1, <3>2, <3>3
  <2>3. QED
    BY <2>1, <2>2
<1>3. PICK m \in SUBSET Int, j \in Int :
        /\ x = Controller(count, t, m, j)
        /\ req.maskSet /\ req.mask \cap Exists(count) # {} => m = req.mask \cap Exists(count)
  <2> HIDE DEF before, count, t, req
  <2>1. x = PidApply(WithReading(Boot, count, t), req, count)
    BY <1>1, <1>2
  <2>2. QED
    BY <1>1, <1>2, <2>1, AskedMask
<1> HIDE DEF got, x, t
<1>4. ASSUME got.ok
      PROVE  /\ PidMask(c) # {} /\ PidMask(c) \subseteq Exists(n)
             /\ Regulating(c) = PidMask(c) \cap {i \in Exists(n) : c.temps[i] # NaN}
             /\ input.seen /\ req.maskSet /\ req.mask \cap Exists(n) # {} => PidMask(c) = req.mask \cap Exists(n)
  <2>1. DOMAIN got.temps = Exists(n)
    BY <1>1, <1>4, GoodReading DEF got
  <2>2. c.count = n /\ OnSensors(c, n, m, j)
    <3>1. c = TempTask(Controller(count, t, m, j), got)
      BY <1>3
    <3> HIDE DEF c, n, req, count
    <3>2. QED
      BY <1>1, <1>4, <2>1, <3>1, AfterReading
  <2> HIDE DEF c, n, req
  <2>3. c.mask # {} /\ c.mask \subseteq Exists(n)
    <3>1. 0 \in Exists(n)
      BY <1>1 DEF Exists
    <3>2. QED
      BY <2>2, <3>1 DEF OnSensors
  <2>4. PidMask(c) = c.mask /\ Regulating(c) = c.mask \cap {i \in Exists(n) : c.temps[i] # NaN}
    BY <1>1, <2>2, <2>3, RegulatesOnMask
  <2>5. input.seen /\ req.maskSet /\ req.mask \cap Exists(n) # {} => c.mask = req.mask \cap Exists(n)
    BY <1>3, <2>2 DEF OnSensors
  <2>6. QED
    BY <2>3, <2>4, <2>5
<1>5. QED
  BY <1>4 DEF Exists, got, x

(* For any number of sensors, any attempts of the reading and any request:   *)
(* the heater is regulated on sensors that exist and answered, and on those  *)
(* asked for when the request saw the sensors.                               *)
THEOREM HeaterRegulatesAsAsked == SensingSpec => []RegulatesAsAsked
<1>1. RegulatesAsAsked
  BY SensorsAsAsked DEF RegulatesAsAsked
<1> QED BY <1>1, PTL
-----------------------------------------------------------------------------
(* The heater that was too warm                                            *)

LEMMA RoundsExist ==
  ASSUME NEW m, NEW gain, NEW c, NEW n \in Nat
  PROVE  \E f : f = [k \in 0..n |-> IF k = 0 THEN m ELSE PidTask(f[k - 1], gain, c)]
<1> DEFINE Made(f, j) == f = [k \in 0..j |-> IF k = 0 THEN m ELSE PidTask(f[k - 1], gain, c)]
           T == {j \in Nat : \E f : Made(f, j)}
<1>1. 0 \in T
  <2> DEFINE f == [k \in 0..0 |-> m]
  <2>1. Made(f, 0)
    OBVIOUS
  <2>2. QED
    BY <2>1
<1>2. ASSUME NEW j \in T PROVE j + 1 \in T
  <2>1. PICK f : Made(f, j)
    OBVIOUS
  <2> DEFINE g == [k \in 0..(j + 1) |-> IF k = 0 THEN m ELSE PidTask(f[k - 1], gain, c)]
  <2>2. \A k \in 0..j : g[k] = f[k]
    BY <2>1
  <2>3. \A k \in 0..(j + 1) : k # 0 => k - 1 \in 0..j
    OBVIOUS
  <2>4. Made(g, j + 1)
    <3>1. \A k \in 0..(j + 1) : k # 0 => g[k - 1] = f[k - 1]
      BY <2>2, <2>3
    <3>2. QED
      BY <3>1
  <2> HIDE DEF g
  <2>5. QED
    BY <2>4
<1>3. T = Nat
  <2> HIDE DEF T
  <2>1. T \in SUBSET Nat
    BY DEF T
  <2>2. QED
    BY <1>1, <1>2, <2>1, NaturalsByStep
<1>4. QED
  BY <1>3

\* The rounds of PidTask, one after the other.
LEMMA RoundByRound ==
  ASSUME NEW m, NEW gain, NEW c, NEW n \in Nat
  PROVE  \E f : /\ f[0] = m /\ \A k \in 0..(n - 1) : f[k + 1] = PidTask(f[k], gain, c)
                /\ PidRounds(m, gain, c, n) = f[n]
<1> DEFINE Made(f) == f = [k \in 0..n |-> IF k = 0 THEN m ELSE PidTask(f[k - 1], gain, c)]
           after == CHOOSE f : Made(f)
<1>1. Made(after)
  BY RoundsExist
<1>2. PidRounds(m, gain, c, n) = after[n]
  BY DEF PidRounds
<1> HIDE DEF after
<1>3. after[0] = m /\ \A k \in 0..(n - 1) : after[k + 1] = PidTask(after[k], gain, c)
  BY <1>1
<1>4. QED
  BY <1>2, <1>3

LEMMA Products ==
  ASSUME NEW a \in Nat, NEW b \in Int, NEW c \in Int
  PROVE  a * b \in Int /\ a * 0 = 0 /\ (b <= 0 => a * b <= 0) /\ (b <= c => a * b <= a * c)
  OBVIOUS

\* What stands in for the integral in the sum of a round whose error is e.
Fallen(i, e) == Limited(i + e, 0, IntegralMax)
Below(gain, e, i) == gain.p * e + gain.i * Fallen(i, e) <= 0

LEMMA FallenBounds ==
  ASSUME NEW e \in Int, e < 0, NEW i \in 0..IntegralMax
  PROVE  /\ Fallen(i, e) \in 0..IntegralMax
         /\ i = 0 => Fallen(i, e) = 0
         /\ i # 0 => Fallen(i, e) < i
         /\ \A j \in 0..IntegralMax : j <= i => Fallen(j, e) <= Fallen(i, e)
<1> IntegralMax \in Nat
  BY SensorsAssumption
<1> QED
  BY DEF Fallen, Limited

\* One round above the setpoint: once the sum is not positive it stays so, and
\* until then the integral falls.
LEMMA RoundFalls ==
  ASSUME NEW e \in Int, e < 0,
         NEW gain, gain.p \in Nat, gain.i \in Nat, gain.d \in Nat,
         NEW m, m.integral \in 0..IntegralMax, m.prev \in Int \cup {NaN},
         NEW r, r = PidRound(m, gain, e)
  PROVE  /\ r.integral \in 0..IntegralMax /\ r.prev = e
         /\ m.prev = e =>
              /\ Below(gain, e, m.integral) => Below(gain, e, r.integral) /\ r.heater = 0
              /\ ~Below(gain, e, m.integral) => r.integral < m.integral
<1> DEFINE n == m.integral
           candidate == Fallen(n, e)
           derivative == IF m.prev = NaN THEN 0 ELSE e - m.prev
           raw == gain.p * e + gain.i * candidate + gain.d * derivative
<1>1. r = [integral |-> IF Held(raw, e) THEN n ELSE candidate, prev |-> e, heater |-> Limited(raw, 0, OutputMax)]
  BY DEF PidRound, Fallen
<1> HIDE DEF raw
<1>2. /\ r.integral = IF Held(raw, e) THEN n ELSE candidate
      /\ r.prev = e /\ r.heater = Limited(raw, 0, OutputMax)
  BY <1>1
<1>3. candidate \in 0..IntegralMax /\ (n = 0 => candidate = 0) /\ (n # 0 => candidate < n)
  BY FallenBounds
<1>4. r.integral \in 0..IntegralMax
  BY <1>2, <1>3
<1>5. ASSUME m.prev = e
      PROVE  /\ Below(gain, e, n) => Below(gain, e, r.integral) /\ r.heater = 0
             /\ ~Below(gain, e, n) => r.integral < n
  <2>1. e # NaN
    BY SensorsAssumption
  <2>2. derivative = 0
    BY <1>5, <2>1
  <2>3. gain.p * e \in Int /\ gain.p * e <= 0 /\ gain.i * candidate \in Int /\ gain.d * 0 = 0 /\ gain.i * 0 = 0
    BY <1>3, Products
  <2>4. raw = gain.p * e + gain.i * candidate
    <3>1. raw = gain.p * e + gain.i * candidate + gain.d * 0
      BY <2>2 DEF raw
    <3>2. QED
      BY <2>3, <3>1
  <2>5. Below(gain, e, n) <=> raw <= 0
    BY <2>4 DEF Below
  <2>6. raw \in Int /\ OutputMax \in Nat
    BY <2>3, <2>4, SensorsAssumption
  <2>7. CASE Below(gain, e, n)
    <3>1. r.heater = 0
      BY <1>2, <2>5, <2>6, <2>7 DEF Limited
    <3>2. Fallen(candidate, e) \in Int /\ Fallen(candidate, e) <= Fallen(n, e)
      <4>1. candidate <= n
        BY <1>3
      <4>2. QED
        BY <1>3, <4>1, FallenBounds
    <3>3. gain.i * Fallen(candidate, e) \in Int /\ gain.i * Fallen(candidate, e) <= gain.i * Fallen(n, e)
      BY <1>3, <3>2, Products
    <3>4. Below(gain, e, candidate)
      <4>1. gain.p * e + gain.i * Fallen(n, e) <= 0
        BY <2>7 DEF Below
      <4>2. QED
        BY <2>3, <3>3, <4>1 DEF Below
    <3>5. QED
      BY <1>2, <2>7, <3>1, <3>4
  <2>8. CASE ~Below(gain, e, n)
    <3>1. ~Held(raw, e)
      BY <2>5, <2>6, <2>8 DEF Held
    <3>2. n # 0
      <4>1. SUFFICES ASSUME n = 0 PROVE FALSE
        OBVIOUS
      <4>2. candidate = 0
        BY <1>3, <4>1
      <4>3. QED
        BY <2>3, <2>4, <2>5, <2>8, <4>2
    <3>3. QED
      BY <1>2, <1>3, <2>8, <3>1, <3>2
  <2>9. QED
    BY <2>7, <2>8
<1>6. QED
  BY <1>2, <1>4, <1>5

\* One sensor, at over, is what every round regulates on.
Hot(over) == [Boot EXCEPT !.count = 1, !.temps = [i \in {0} |-> over]]

LEMMA HotRound ==
  ASSUME NEW over \in Nat \ {0}, NEW m, NEW gain
  PROVE  PidTask(m, gain, Hot(over)) = PidRound(m, gain, 0 - over)
<1> DEFINE hot == Hot(over)
           temps == [i \in {0} |-> over]
           total(s) == MapThenSumSet(LAMBDA i : hot.temps[i], s)
<1>1. hot = Controller(1, temps, {0}, 0)
  <2> HIDE DEF temps
  <2>1. hot = WithReading(Boot, 1, temps)
    BY DEF WithReading, Hot, temps
  <2>2. QED
    BY <2>1, BootAsController, CountAndTemps
<1>2. hot.count = 1 /\ hot.temps = temps /\ hot.mask = {0}
  <2> HIDE DEF temps, hot
  <2>1. QED
    BY <1>1, ControllerFields
<1>3. hot.enabled = TRUE /\ hot.setpoint = 0
  BY <1>1 DEF Controller, Boot
<1>4. Exists(1) = {0} /\ 1 \in 1..MaxTemp
  BY MaxTempAssumption DEF Exists
<1>5. over # NaN /\ hot.temps[0] = over
  BY <1>2, SensorsAssumption
<1> HIDE DEF hot
<1>6. Regulating(hot) = {0}
  <2>1. Regulating(hot) = hot.mask \cap {i \in Exists(1) : hot.temps[i] # NaN}
    BY <1>2, <1>4, RegulatesOnMask
  <2>2. QED
    BY <1>2, <1>4, <1>5, <2>1
<1>7. total({0}) = over
  <2> DEFINE Made(g) == g = [s \in SUBSET {0} |-> IF s = {} THEN 0
                               ELSE LET x == CHOOSE x \in s : TRUE IN hot.temps[x] + g[s \ {x}]]
             sum == CHOOSE g : Made(g)
             sums == [s \in SUBSET {0} |-> IF s = {} THEN 0 ELSE over]
  <2>1. total({0}) = sum[{0}]
    BY DEF MapThenSumSet, MapThenFoldSet
  <2>2. \A s \in SUBSET {0} : s # {} => s = {0} /\ (CHOOSE x \in s : TRUE) = 0 /\ s \ {0} = {}
    OBVIOUS
  <2>3. {} \in SUBSET {0} /\ {0} \in SUBSET {0} /\ over + 0 = over
    OBVIOUS
  <2>4. Made(sums)
    BY <1>5, <2>2, <2>3
  <2>5. Made(sum)
    <3> HIDE DEF sums
    <3>1. QED
      BY <2>4
  <2> HIDE DEF sum
  <2>6. sum[{}] = 0
    BY <2>3, <2>5
  <2>7. sum[{0}] = over + sum[{}]
    BY <1>5, <2>2, <2>3, <2>5
  <2>8. QED
    BY <2>1, <2>3, <2>6, <2>7
<1>8. PidTask(m, gain, hot) =
        PidRound(m, gain, hot.setpoint - total(Regulating(hot)) \div Cardinality(Regulating(hot)))
  BY <1>2, <1>3, <1>6 DEF PidTask
<1> HIDE DEF total
<1>9. total(Regulating(hot)) \div Cardinality(Regulating(hot)) = over
  <2>1. Cardinality({0}) = 1
    BY FS_Singleton
  <2>2. over \div 1 = over
    OBVIOUS
  <2>3. QED
    BY <1>6, <1>7, <2>1, <2>2
<1>10. QED
  BY <1>3, <1>8, <1>9 DEF hot

\* However far the integral is up, that many rounds and one more bring the sum down.
LEMMA RoundsUnwind ==
  ASSUME NEW e \in Int, e < 0,
         NEW gain, gain.p \in Nat, gain.i \in Nat, gain.d \in Nat,
         NEW f, f[0].integral \in 0..IntegralMax, f[0].prev \in Int \cup {NaN},
         \A k \in 0..(IntegralMax + 1) : f[k + 1] = PidRound(f[k], gain, e)
  PROVE  f[IntegralMax + 2].heater = 0
<1> DEFINE Falling(k) == /\ f[k].prev = e /\ f[k].integral \in 0..IntegralMax
                         /\ Below(gain, e, f[k].integral) \/ f[k].integral <= IntegralMax - (k - 1)
           T == {k \in Nat : k \in 1..(IntegralMax + 1) => Falling(k)}
<1> IntegralMax \in Nat
  BY SensorsAssumption
<1>1. 0 \in T
  OBVIOUS
<1>2. ASSUME NEW k \in T PROVE k + 1 \in T
  <2>1. SUFFICES ASSUME k + 1 \in 1..(IntegralMax + 1) PROVE Falling(k + 1)
    OBVIOUS
  <2>2. k \in 0..(IntegralMax + 1) /\ f[k + 1] = PidRound(f[k], gain, e)
    BY <2>1
  <2>3. CASE k = 0
    <3>1. f[1].integral \in 0..IntegralMax /\ f[1].prev = e
      BY <2>2, <2>3, RoundFalls
    <3>2. QED
      BY <2>3, <3>1
  <2>4. CASE k # 0
    <3>1. Falling(k)
      BY <2>2, <2>4
    <3>2. /\ f[k + 1].integral \in 0..IntegralMax /\ f[k + 1].prev = e
          /\ Below(gain, e, f[k].integral) => Below(gain, e, f[k + 1].integral)
          /\ ~Below(gain, e, f[k].integral) => f[k + 1].integral < f[k].integral
      BY <2>2, <3>1, RoundFalls
    <3>3. QED
      BY <3>1, <3>2
  <2>5. QED
    BY <2>3, <2>4
<1>3. T = Nat
  <2> HIDE DEF T
  <2>1. T \in SUBSET Nat
    BY DEF T
  <2>2. QED
    BY <1>1, <1>2, <2>1, NaturalsByStep
<1>4. Falling(IntegralMax + 1)
  BY <1>3
<1>5. Below(gain, e, f[IntegralMax + 1].integral)
  <2>1. SUFFICES ASSUME f[IntegralMax + 1].integral = 0 PROVE Below(gain, e, 0)
    BY <1>4
  <2>2. Fallen(0, e) = 0
    BY FallenBounds
  <2>3. gain.p * e \in Int /\ gain.p * e <= 0 /\ gain.i * 0 = 0
    BY Products
  <2>4. QED
    BY <2>2, <2>3 DEF Below
<1>6. f[IntegralMax + 2] = PidRound(f[IntegralMax + 1], gain, e)
  OBVIOUS
<1>7. QED
  BY <1>4, <1>5, <1>6, RoundFalls

LEMMA HotUnwinds == part = "pid" => PidUnwinds
<1> SUFFICES ASSUME NEW input \in Overheated
             PROVE  LET hot == [Boot EXCEPT !.count = 1, !.temps = [i \in {0} |-> input.over]]
                    IN PidRounds(input.memory, input.gain, hot, IntegralMax + 2).heater = 0
  BY DEF PidUnwinds
<1> DEFINE hot == [Boot EXCEPT !.count = 1, !.temps = [i \in {0} |-> input.over]]
           n == IntegralMax + 2
           e == 0 - input.over
<1>1. /\ input.over \in Nat \ {0} /\ input.gain.p \in Nat /\ input.gain.i \in Nat /\ input.gain.d \in Nat
      /\ input.memory.integral \in 0..IntegralMax /\ input.memory.prev \in Int \cup {NaN}
  BY DEF Overheated
<1>2. n \in Nat /\ n - 1 = IntegralMax + 1 /\ e \in Int /\ e < 0
  <2>1. IntegralMax \in Nat
    BY SensorsAssumption
  <2>2. QED
    BY <1>1, <2>1
<1> HIDE DEF hot, n, e
<1>3. PICK f : /\ f[0] = input.memory
               /\ \A k \in 0..(n - 1) : f[k + 1] = PidTask(f[k], input.gain, hot)
               /\ PidRounds(input.memory, input.gain, hot, n) = f[n]
  BY <1>2, RoundByRound
<1>4. \A k \in 0..(IntegralMax + 1) : f[k + 1] = PidRound(f[k], input.gain, e)
  <2>1. hot = Hot(input.over)
    BY DEF hot, Hot
  <2>2. \A m : PidTask(m, input.gain, hot) = PidRound(m, input.gain, e)
    BY <1>1, <2>1, HotRound DEF e
  <2>3. QED
    BY <1>2, <1>3, <2>2
<1>5. f[IntegralMax + 2].heater = 0
  BY <1>1, <1>2, <1>3, <1>4, RoundsUnwind
<1>6. QED
  BY <1>3, <1>5 DEF hot, n

(* No wind-up, for any limits, gains and memory: once the temperature stays  *)
(* above the setpoint the heater is off after as many rounds as the integral *)
(* can have units, and two more.                                             *)
THEOREM HeaterUnwinds == SensingSpec => []PidUnwinds
<1>1. PidUnwinds
  BY HotUnwinds DEF PidUnwinds
<1> QED BY <1>1, PTL

-----------------------------------------------------------------------------
(* The search                                                              *)

LEMMA Widths == RomBits \in Nat /\ FamilyBits \in 1..RomBits /\ Passes \in Nat /\ MaxDevices \in Nat
  BY SensorsAssumption

\* q and r have their first n bits in common.
Agree(r, q, n) == \A i \in 1..n : r[i] = q[i]
\* r is the way not taken where q took 0 in position n.
Branch(r, q, n) == Agree(r, q, n - 1) /\ q[n] = 0 /\ r[n] = 1
\* The ROMs the search meets after q.
Above(bus, q) == {r \in bus : \E n \in 1..RomBits : Branch(r, q, n)}
\* Of the first m positions, last is the highest with a way not taken; 0: none.
Highest(bus, q, last, m) ==
  /\ last \in 0..m
  /\ last # 0 => \E r \in bus : Branch(r, q, last)
  /\ \A n \in (last + 1)..m, r \in bus : ~Branch(r, q, n)

LEMMA Bits ==
  ASSUME NEW S \in SUBSET {0, 1}, S # {}
  PROVE  \/ S = {0} /\ Cardinality(S) = 1
         \/ S = {1} /\ Cardinality(S) = 1
         \/ S = {0, 1} /\ Cardinality(S) = 2
<1>1. Cardinality({0}) = 1 /\ Cardinality({1}) = 1 /\ IsFiniteSet({0})
  BY FS_Singleton
<1>2. Cardinality({0, 1}) = 2
  <2>1. {0, 1} = {0} \cup {1} /\ 1 \notin {0}
    OBVIOUS
  <2>2. QED
    BY <1>1, <2>1, FS_AddElement
<1>3. S = {0} \/ S = {1} \/ S = {0, 1}
  OBVIOUS
<1>4. QED
  BY <1>1, <1>2, <1>3

\* One position: the bit is one that a device answered, the direction decides
\* when both are, and a 0 chosen over a 1 is remembered.
LEMMA BitChosen ==
  ASSUME NEW s, s.live \in SUBSET Roms, s.live # {}, NEW n \in 1..RomBits, NEW last \in Nat, s.rom \in Roms
  PROVE  \E bit \in {0, 1} :
           /\ SearchBit(s, n, last) =
                [rom |-> [s.rom EXCEPT ![n] = bit], live |-> {r \in s.live : r[n] = bit},
                 zero |-> IF bit = 0 /\ (\E r \in s.live : r[n] = 1) THEN n ELSE s.zero]
           /\ \E r \in s.live : r[n] = bit
           /\ (\E r \in s.live : r[n] # bit) => bit = Direction(n, last, s.rom)
<1> DEFINE S == {r[n] : r \in s.live}
           bit == IF Cardinality(S) = 1 THEN CHOOSE b \in S : TRUE ELSE Direction(n, last, s.rom)
<1>1. S \in SUBSET {0, 1} /\ S # {}
  <2>1. \A r \in s.live : r[n] \in {0, 1}
    BY DEF Roms
  <2>2. PICK r \in s.live : TRUE
    OBVIOUS
  <2>3. r[n] \in S
    OBVIOUS
  <2>4. QED
    BY <2>1, <2>3
<1>2. SearchBit(s, n, last) =
        [rom |-> [s.rom EXCEPT ![n] = bit], live |-> {r \in s.live : r[n] = bit},
         zero |-> IF Cardinality(S) = 2 /\ bit = 0 THEN n ELSE s.zero]
  BY <1>1 DEF SearchBit
<1>3. Direction(n, last, s.rom) \in {0, 1}
  BY DEF Direction, Roms
<1>4. /\ bit \in S
      /\ Cardinality(S) = 2 <=> S = {0, 1}
      /\ S = {0, 1} => bit = Direction(n, last, s.rom)
  <2> HIDE DEF S
  <2>1. QED
    BY <1>1, <1>3, Bits
<1> HIDE DEF bit
<1>5. bit = 0 => (Cardinality(S) = 2 <=> \E r \in s.live : r[n] = 1)
  BY <1>1, <1>4
<1>6. (\E r \in s.live : r[n] # bit) => S = {0, 1}
  BY <1>1, <1>4
<1>7. QED
  BY <1>1, <1>2, <1>4, <1>5, <1>6

\* What a pass starts from: the first one, or the ROM found before.
Ready(bus, rom, last) ==
  /\ bus \subseteq Roms /\ bus # {} /\ rom \in Roms /\ last \in 0..RomBits
  /\ last # 0 => rom \in bus /\ Highest(bus, rom, last, RomBits)

\* A pass after n positions.
Searched(s, n, bus, rom, last) ==
  /\ s.rom \in Roms /\ s.live = {r \in bus : Agree(r, s.rom, n)} /\ s.live # {}
  /\ Highest(bus, s.rom, s.zero, n)
  /\ \A i \in (n + 1)..RomBits : s.rom[i] = rom[i]
  /\ n < last => Agree(s.rom, rom, n)
  /\ n >= last /\ last # 0 => Branch(s.rom, rom, last)
  /\ \A i \in (last + 1)..n, r \in bus : Agree(r, s.rom, i - 1) /\ r[i] = 0 => s.rom[i] = 0

LEMMA BitKeeps ==
  ASSUME NEW bus, NEW rom, NEW last, Ready(bus, rom, last), NEW n \in 0..(RomBits - 1),
         NEW s, Searched(s, n, bus, rom, last)
  PROVE  Searched(SearchBit(s, n + 1, last), n + 1, bus, rom, last)
<1> DEFINE m == n + 1
<1>1. /\ RomBits \in Nat /\ m \in 1..RomBits /\ n \in Nat /\ last \in Nat /\ m - 1 = n /\ m = n + 1
      /\ \A i \in 1..n : i \in 1..RomBits /\ i # m /\ i - 1 \in 0..n
  BY Widths DEF Ready
<1>2. bus \subseteq Roms /\ s.rom \in Roms /\ s.live \in SUBSET Roms /\ s.live # {}
  BY DEF Ready, Searched
<1> HIDE DEF m
<1>3. PICK bit \in {0, 1} :
        /\ SearchBit(s, m, last) =
             [rom |-> [s.rom EXCEPT ![m] = bit], live |-> {r \in s.live : r[m] = bit},
              zero |-> IF bit = 0 /\ (\E r \in s.live : r[m] = 1) THEN m ELSE s.zero]
        /\ \E r \in s.live : r[m] = bit
        /\ (\E r \in s.live : r[m] # bit) => bit = Direction(m, last, s.rom)
  BY <1>1, <1>2, BitChosen
<1> DEFINE q == [s.rom EXCEPT ![m] = bit]
           live == {r \in s.live : r[m] = bit}
           zero == IF bit = 0 /\ (\E r \in s.live : r[m] = 1) THEN m ELSE s.zero
<1>4. q \in Roms /\ q[m] = bit /\ \A i \in 1..RomBits : i # m => q[i] = s.rom[i]
  BY <1>1, <1>2 DEF Roms
<1> HIDE DEF q
<1>5. \A r : \A i \in 0..n : Agree(r, q, i) <=> Agree(r, s.rom, i)
  BY <1>1, <1>4 DEF Agree
<1>6. \A r : Agree(r, q, m) <=> Agree(r, s.rom, n) /\ r[m] = bit
  <2>1. \A i : i \in 1..m <=> i \in 1..n \/ i = m
    BY <1>1
  <2>2. \A r : Agree(r, q, m) <=> Agree(r, q, n) /\ r[m] = q[m]
    BY <2>1 DEF Agree
  <2>3. QED
    BY <1>1, <1>4, <1>5, <2>2
<1>7. live = {r \in bus : Agree(r, q, m)} /\ live # {}
  BY <1>3, <1>6 DEF Searched
<1>8. \A r : \A i \in 1..n : Branch(r, q, i) <=> Branch(r, s.rom, i)
  BY <1>1, <1>4, <1>5 DEF Branch
<1>9. \A r \in bus : Branch(r, q, m) <=> r \in s.live /\ bit = 0 /\ r[m] = 1
  BY <1>1, <1>4, <1>5 DEF Branch, Searched
<1>10. Highest(bus, q, zero, m)
  <2>1. CASE bit = 0 /\ \E r \in s.live : r[m] = 1
    <3>1. zero = m /\ \E r \in bus : Branch(r, q, m)
      BY <1>9, <2>1 DEF Searched
    <3>2. QED
      BY <1>1, <3>1 DEF Highest
  <2>2. CASE ~(bit = 0 /\ \E r \in s.live : r[m] = 1)
    <3>1. zero = s.zero /\ \A r \in bus : ~Branch(r, q, m)
      BY <1>9, <2>2
    <3>2. /\ s.zero \in 0..n /\ (s.zero # 0 => \E r \in bus : Branch(r, s.rom, s.zero))
          /\ \A i \in (s.zero + 1)..n, r \in bus : ~Branch(r, s.rom, i)
      BY DEF Searched, Highest
    <3>3. \A i \in (s.zero + 1)..m : i = m \/ (i \in (s.zero + 1)..n /\ i \in 1..n)
      BY <1>1, <3>2
    <3>4. s.zero \in 0..m /\ (s.zero # 0 => s.zero \in 1..n)
      BY <1>1, <3>2
    <3>5. QED
      BY <1>8, <3>1, <3>2, <3>3, <3>4 DEF Highest
  <2>3. QED
    BY <2>1, <2>2
<1>11. \A i \in (m + 1)..RomBits : q[i] = rom[i]
  <2>1. \A i \in (m + 1)..RomBits : i \in (n + 1)..RomBits /\ i \in 1..RomBits /\ i # m
    BY <1>1
  <2>2. QED
    BY <1>4, <2>1 DEF Searched
\* Up to the last discrepancy the pass follows the ROM found before.
<1>12. n < last => rom \in s.live /\ s.rom[m] = rom[m]
  <2>1. SUFFICES ASSUME n < last PROVE rom \in s.live /\ s.rom[m] = rom[m]
    OBVIOUS
  <2>2. rom \in bus
    BY <1>1, <2>1 DEF Ready
  <2>3. Agree(s.rom, rom, n)
    BY <2>1 DEF Searched
  <2>4. m \in (n + 1)..RomBits
    BY <1>1
  <2>5. QED
    BY <2>2, <2>3, <2>4 DEF Searched, Agree
<1>13. m < last => Agree(q, rom, m)
  <2>1. SUFFICES ASSUME m < last PROVE Agree(q, rom, m)
    OBVIOUS
  <2>2. n < last /\ Direction(m, last, s.rom) = s.rom[m]
    BY <1>1, <2>1 DEF Direction
  <2>3. bit = rom[m]
    BY <1>3, <1>12, <2>2
  <2>4. Agree(s.rom, rom, n)
    BY <2>2 DEF Searched
  <2>5. \A i \in 1..m : i = m \/ i \in 1..n
    BY <1>1
  <2>6. QED
    BY <1>1, <1>4, <2>3, <2>4, <2>5 DEF Agree
<1>14. m >= last /\ last # 0 => Branch(q, rom, last)
  <2>1. SUFFICES ASSUME m >= last, last # 0 PROVE Branch(q, rom, last)
    OBVIOUS
  <2>2. CASE m = last
    <3>1. n < last /\ Direction(m, last, s.rom) = 1
      BY <1>1, <2>2 DEF Direction
    <3>2. Agree(s.rom, rom, n)
      BY <3>1 DEF Searched
    <3>3. PICK r \in bus : Branch(r, rom, last)
      BY <2>1 DEF Ready, Highest
    <3>4. Agree(r, rom, n) /\ rom[m] = 0 /\ r[m] = 1
      BY <1>1, <2>2, <3>3 DEF Branch
    <3>5. r \in s.live
      BY <3>2, <3>4 DEF Searched, Agree
    <3>6. bit = 1
      BY <1>3, <1>12, <3>1, <3>4, <3>5
    <3>7. Agree(q, rom, n)
      BY <1>1, <1>4, <3>2 DEF Agree
    <3>8. QED
      BY <1>1, <1>4, <2>2, <3>4, <3>6, <3>7 DEF Branch
  <2>3. CASE m # last
    <3>1. n >= last /\ last \in 1..n
      BY <1>1, <2>1, <2>3
    <3>2. Branch(s.rom, rom, last)
      BY <2>1, <3>1 DEF Searched
    <3>3. \A i \in 1..last : i \in 1..n
      BY <1>1, <3>1
    <3>4. \A i \in 1..(last - 1) : i \in 1..last
      BY <3>1
    <3>5. last \in 1..last
      BY <3>1
    <3>6. \A i \in 1..last : q[i] = s.rom[i]
      BY <1>1, <1>4, <3>3
    <3>7. QED
      BY <3>2, <3>4, <3>5, <3>6 DEF Branch, Agree
  <2>4. QED
    BY <2>2, <2>3
<1>15. \A i \in (last + 1)..m, r \in bus : Agree(r, q, i - 1) /\ r[i] = 0 => q[i] = 0
  <2>1. SUFFICES ASSUME NEW i \in (last + 1)..m, NEW r \in bus, Agree(r, q, i - 1), r[i] = 0 PROVE q[i] = 0
    OBVIOUS
  <2>2. CASE i = m
    <3>1. r \in s.live
      BY <1>1, <1>5, <2>1, <2>2 DEF Searched
    <3>2. Direction(m, last, s.rom) = 0
      BY <1>1, <2>1, <2>2 DEF Direction
    <3>3. QED
      BY <1>3, <1>4, <2>1, <2>2, <3>1, <3>2
  <2>3. CASE i # m
    <3>1. i \in (last + 1)..n /\ i \in 1..n
      BY <1>1, <2>1, <2>3
    <3>2. Agree(r, s.rom, i - 1)
      BY <1>1, <1>5, <2>1, <3>1
    <3>3. s.rom[i] = 0
      BY <2>1, <3>1, <3>2 DEF Searched
    <3>4. QED
      BY <1>1, <1>4, <3>1, <3>3
  <2>4. QED
    BY <2>2, <2>3
<1>16. SearchBit(s, m, last) = [rom |-> q, live |-> live, zero |-> zero]
  BY <1>3 DEF q
<1> HIDE DEF live, zero
<1>17. Searched(SearchBit(s, m, last), m, bus, rom, last)
  BY <1>4, <1>7, <1>10, <1>11, <1>13, <1>14, <1>15, <1>16 DEF Searched
<1>18. QED
  BY <1>17 DEF m

\* The positions of a pass, one after the other.
LEMMA BitsExist ==
  ASSUME NEW a, NEW last, NEW n \in Nat
  PROVE  \E f : f = [k \in 0..n |-> IF k = 0 THEN a ELSE SearchBit(f[k - 1], k, last)]
<1> DEFINE Made(f, j) == f = [k \in 0..j |-> IF k = 0 THEN a ELSE SearchBit(f[k - 1], k, last)]
           T == {j \in Nat : \E f : Made(f, j)}
<1>1. 0 \in T
  <2> DEFINE f == [k \in 0..0 |-> a]
  <2>1. Made(f, 0)
    OBVIOUS
  <2>2. QED
    BY <2>1
<1>2. ASSUME NEW j \in T PROVE j + 1 \in T
  <2>1. PICK f : Made(f, j)
    OBVIOUS
  <2> DEFINE g == [k \in 0..(j + 1) |-> IF k = 0 THEN a ELSE SearchBit(f[k - 1], k, last)]
  <2>2. \A k \in 0..j : g[k] = f[k]
    BY <2>1
  <2>3. \A k \in 0..(j + 1) : k # 0 => k - 1 \in 0..j
    OBVIOUS
  <2>4. Made(g, j + 1)
    <3>1. \A k \in 0..(j + 1) : k # 0 => g[k - 1] = f[k - 1]
      BY <2>2, <2>3
    <3>2. QED
      BY <3>1
  <2> HIDE DEF g
  <2>5. QED
    BY <2>4
<1>3. T = Nat
  <2> HIDE DEF T
  <2>1. T \in SUBSET Nat
    BY DEF T
  <2>2. QED
    BY <1>1, <1>2, <2>1, NaturalsByStep
<1>4. QED
  BY <1>3

LEMMA BitByBit ==
  ASSUME NEW bus, NEW last, NEW rom
  PROVE  \E f : /\ f[0] = [rom |-> rom, live |-> bus, zero |-> 0]
                /\ \A k \in 0..(RomBits - 1) : f[k + 1] = SearchBit(f[k], k + 1, last)
                /\ SearchNext(bus, last, rom) = f[RomBits]
<1> DEFINE a == [rom |-> rom, live |-> bus, zero |-> 0]
           Made(f) == f = [k \in 0..RomBits |-> IF k = 0 THEN a ELSE SearchBit(f[k - 1], k, last)]
           after == CHOOSE f : Made(f)
<1>1. SearchNext(bus, last, rom) = after[RomBits]
  BY DEF SearchNext
<1> HIDE DEF a
<1>2. Made(after)
  BY Widths, BitsExist
<1> HIDE DEF after
<1>3. after[0] = a /\ \A k \in 0..(RomBits - 1) : after[k + 1] = SearchBit(after[k], k + 1, last)
  BY <1>2, Widths
<1>4. QED
  BY <1>1, <1>3 DEF a

\* No device answers in an empty bus.
LEMMA NobodyAnswers == ASSUME NEW last, NEW rom PROVE SearchNext({}, last, rom).live = {}
<1>1. PICK f : /\ f[0] = [rom |-> rom, live |-> {}, zero |-> 0]
               /\ \A k \in 0..(RomBits - 1) : f[k + 1] = SearchBit(f[k], k + 1, last)
               /\ SearchNext({}, last, rom) = f[RomBits]
  BY BitByBit
<1> DEFINE T == {k \in Nat : k <= RomBits => f[k].live = {}}
<1>2. 0 \in T
  BY <1>1
<1>3. ASSUME NEW k \in T PROVE k + 1 \in T
  <2>1. SUFFICES ASSUME k + 1 <= RomBits PROVE f[k + 1].live = {}
    OBVIOUS
  <2>2. k \in 0..(RomBits - 1) /\ f[k].live = {}
    BY <2>1, Widths
  <2>3. f[k + 1] = f[k]
    BY <1>1, <2>2 DEF SearchBit
  <2>4. QED
    BY <2>2, <2>3
<1>4. T = Nat
  <2> HIDE DEF T
  <2>1. T \in SUBSET Nat
    BY DEF T
  <2>2. QED
    BY <1>2, <1>3, <2>1, NaturalsByStep
<1>5. QED
  BY <1>1, <1>4, Widths

\* What the search has still to meet.
Todo(bus, rom, last) == IF last = 0 THEN bus ELSE Above(bus, rom)

LEMMA PassFound ==
  ASSUME NEW bus, NEW rom, NEW last, Ready(bus, rom, last)
  PROVE  Searched(SearchNext(bus, last, rom), RomBits, bus, rom, last)
<1>1. PICK f : /\ f[0] = [rom |-> rom, live |-> bus, zero |-> 0]
               /\ \A k \in 0..(RomBits - 1) : f[k + 1] = SearchBit(f[k], k + 1, last)
               /\ SearchNext(bus, last, rom) = f[RomBits]
  BY BitByBit
<1> DEFINE T == {k \in Nat : k <= RomBits => Searched(f[k], k, bus, rom, last)}
<1>2. 0 \in T
  <2>1. f[0].rom = rom /\ f[0].live = bus /\ f[0].zero = 0
    BY <1>1
  <2>2. \A r, q : Agree(r, q, 0)
    BY DEF Agree
  <2>3. Highest(bus, rom, 0, 0)
    BY DEF Highest
  <2>4. last \in Nat /\ ~(0 >= last /\ last # 0) /\ (last + 1)..0 = {}
    BY Widths DEF Ready
  <2>5. Searched(f[0], 0, bus, rom, last)
    BY <2>1, <2>2, <2>3, <2>4 DEF Searched, Ready
  <2>6. QED
    BY <2>5
<1>3. ASSUME NEW k \in T PROVE k + 1 \in T
  <2>1. SUFFICES ASSUME k + 1 <= RomBits PROVE Searched(f[k + 1], k + 1, bus, rom, last)
    OBVIOUS
  <2>2. k \in 0..(RomBits - 1) /\ Searched(f[k], k, bus, rom, last)
    BY <2>1, Widths
  <2>3. QED
    BY <1>1, <2>2, BitKeeps
<1>4. T = Nat
  <2> HIDE DEF T
  <2>1. T \in SUBSET Nat
    BY DEF T
  <2>2. QED
    BY <1>2, <1>3, <2>1, NaturalsByStep
<1>5. QED
  BY <1>1, <1>4, Widths

LEMMA SameBits == ASSUME NEW q \in Roms, NEW r \in Roms, \A i \in 1..RomBits : r[i] = q[i] PROVE r = q
<1>1. q = [i \in 1..RomBits |-> q[i]] /\ r = [i \in 1..RomBits |-> r[i]]
  BY DEF Roms
<1>2. QED
  BY <1>1

\* Two ROMs that differ have a first position in which they do.
LEMMA FirstDifference ==
  ASSUME NEW q \in Roms, NEW r \in Roms, q # r
  PROVE  \E n \in 1..RomBits : Agree(r, q, n - 1) /\ r[n] # q[n]
<1> DEFINE T == {n \in 1..RomBits : r[n] # q[n]}
<1>1. T # {} /\ T \in SUBSET Nat
  BY SameBits
<1>2. PICK n \in T : \A m \in T : n <= m
  BY <1>1, LeastNatural
<1>3. \A i \in 1..(n - 1) : i \in 1..RomBits /\ ~(n <= i)
  BY Widths
<1>4. Agree(r, q, n - 1)
  BY <1>2, <1>3 DEF Agree
<1>5. QED
  BY <1>4

(* One pass meets one ROM more: the next one in the order of the search.    *)
LEMMA PassFinds ==
  ASSUME NEW bus, NEW rom, NEW last, Ready(bus, rom, last), NEW s, s = SearchNext(bus, last, rom)
  PROVE  /\ s.live # {} /\ s.rom \in Todo(bus, rom, last)
         /\ Above(bus, s.rom) = Todo(bus, rom, last) \ {s.rom}
         /\ s.zero = 0 => Above(bus, s.rom) = {}
         /\ s.zero # 0 => Ready(bus, s.rom, s.zero)
<1> DEFINE q == s.rom
<1>1. /\ RomBits \in Nat /\ last \in 0..RomBits /\ bus \subseteq Roms
      /\ last # 0 => rom \in bus /\ Highest(bus, rom, last, RomBits)
  BY Widths DEF Ready
<1>2. /\ q \in Roms /\ s.live = {r \in bus : Agree(r, q, RomBits)} /\ s.live # {}
      /\ Highest(bus, q, s.zero, RomBits)
      /\ last # 0 => Branch(q, rom, last)
      /\ \A i \in (last + 1)..RomBits, r \in bus : Agree(r, q, i - 1) /\ r[i] = 0 => q[i] = 0
  BY <1>1, PassFound DEF Searched
<1> HIDE DEF q
<1>3. q \in bus
  <2>1. PICK r \in bus : Agree(r, q, RomBits)
    BY <1>2
  <2>2. r \in Roms
    BY <1>1
  <2>3. r = q
    BY <1>2, <2>1, <2>2, SameBits DEF Agree
  <2>4. QED
    BY <2>3
<1>4. \A r, p, i, j : Agree(r, p, i) /\ j \in Int /\ i \in Int /\ j <= i => Agree(r, p, j)
  BY DEF Agree
<1>5. q \in Todo(bus, rom, last)
  <2>1. CASE last = 0
    BY <1>3, <2>1 DEF Todo
  <2>2. CASE last # 0
    <3>1. last \in 1..RomBits
      BY <1>1, <2>2
    <3>2. QED
      BY <1>2, <1>3, <2>2, <3>1 DEF Todo, Above
  <2>3. QED
    BY <2>1, <2>2
\* A branch off the ROM found is one off the ROM before it, or is met below the last.
<1>6. ASSUME NEW r \in Above(bus, q) PROVE r \in Todo(bus, rom, last) /\ r # q
  <2>1. PICK n \in 1..RomBits : Branch(r, q, n)
    BY DEF Above
  <2>2. r \in bus /\ r # q
    BY <2>1 DEF Above, Branch
  <2>3. CASE last = 0
    BY <2>2, <2>3 DEF Todo
  <2>4. CASE last # 0
    <3>1. last \in 1..RomBits /\ Branch(q, rom, last)
      BY <1>1, <1>2, <2>4
    <3>2. CASE n < last
      <4>1. Agree(q, rom, n - 1) /\ q[n] = rom[n]
        <5>1. n \in 1..(last - 1) /\ \A i \in 1..(n - 1) : i \in 1..(last - 1)
          BY <3>1, <3>2
        <5>2. QED
          BY <3>1, <5>1 DEF Branch, Agree
      <4>2. Branch(r, rom, n)
        BY <2>1, <4>1 DEF Branch, Agree
      <4>3. QED
        BY <2>2, <2>4, <4>2 DEF Todo, Above
    <3>3. CASE n > last
      <4>1. Agree(r, q, last - 1) /\ r[last] = q[last]
        <5>1. last \in 1..(n - 1) /\ \A i \in 1..(last - 1) : i \in 1..(n - 1)
          BY <3>1, <3>3
        <5>2. QED
          BY <2>1, <5>1 DEF Branch, Agree
      <4>2. Branch(r, rom, last)
        BY <3>1, <4>1 DEF Branch, Agree
      <4>3. QED
        BY <2>2, <2>4, <3>1, <4>2 DEF Todo, Above
    <3>4. n # last
      BY <2>1, <3>1 DEF Branch
    <3>5. QED
      BY <3>1, <3>2, <3>3, <3>4
  <2>5. QED
    BY <2>2, <2>3, <2>4
<1>7. ASSUME NEW r \in Todo(bus, rom, last), r # q PROVE r \in Above(bus, q)
  <2>1. r \in bus /\ r \in Roms
    BY <1>1 DEF Todo, Above
  <2>2. PICK n \in 1..RomBits : Agree(r, q, n - 1) /\ r[n] # q[n]
    BY <1>2, <1>7, <2>1, FirstDifference
  <2>3. r[n] \in {0, 1} /\ q[n] \in {0, 1}
    BY <1>2, <2>1 DEF Roms
  <2>4. CASE n > last
    <3>1. n \in (last + 1)..RomBits
      BY <1>1, <2>4
    <3>2. q[n] = 0
      BY <1>2, <2>1, <2>2, <2>3, <3>1
    <3>3. QED
      BY <2>1, <2>2, <2>3, <3>2 DEF Above, Branch
  <2>5. CASE n <= last
    <3>1. last # 0 /\ last \in 1..RomBits
      BY <1>1, <2>5
    <3>2. PICK m \in 1..RomBits : Branch(r, rom, m)
      BY <3>1 DEF Todo, Above
    <3>3. m <= last
      <4>1. \A i \in (last + 1)..RomBits : ~Branch(r, rom, i)
        BY <1>1, <2>1, <3>1 DEF Highest
      <4>2. QED
        BY <3>1, <3>2, <4>1
    <3>4. Branch(q, rom, last)
      BY <1>2, <3>1
    <3>5. CASE m = last
      <4>1. Agree(r, q, last)
        <5>1. \A i \in 1..last : i = last \/ i \in 1..(last - 1)
          BY <3>1
        <5>2. QED
          BY <3>2, <3>4, <3>5, <5>1 DEF Branch, Agree
      <4>2. QED
        BY <2>2, <2>5, <4>1 DEF Agree
    <3>6. CASE m < last
      <4>1. m \in 1..(last - 1) /\ \A i \in 1..(m - 1) : i \in 1..(last - 1)
        BY <3>1, <3>6
      <4>2. Agree(r, q, m - 1) /\ q[m] = 0 /\ r[m] = 1
        BY <3>2, <3>4, <4>1 DEF Branch, Agree
      <4>3. QED
        BY <2>1, <4>2 DEF Above, Branch
    <3>7. QED
      BY <3>1, <3>3, <3>5, <3>6
  <2>6. QED
    BY <1>1, <2>4, <2>5
<1>8. Above(bus, q) = Todo(bus, rom, last) \ {q}
  BY <1>6, <1>7
<1>9. s.zero = 0 => Above(bus, q) = {}
  <2>1. SUFFICES ASSUME s.zero = 0 PROVE \A n \in 1..RomBits, r \in bus : ~Branch(r, q, n)
    BY DEF Above
  <2>2. 0 + 1 = 1
    OBVIOUS
  <2>3. QED
    BY <1>2, <2>1, <2>2 DEF Highest
<1>10. s.zero # 0 => Ready(bus, q, s.zero)
  BY <1>1, <1>2, <1>3 DEF Ready, Highest
<1>11. QED
  BY <1>2, <1>5, <1>8, <1>9, <1>10 DEF q

LEMMA PassesExist ==
  ASSUME NEW a, NEW bus, NEW cut, NEW n \in Nat
  PROVE  \E f : f = [k \in 0..n |-> IF k = 0 THEN a ELSE ScanPass(f[k - 1], k, bus, cut)]
<1> DEFINE Made(f, j) == f = [k \in 0..j |-> IF k = 0 THEN a ELSE ScanPass(f[k - 1], k, bus, cut)]
           T == {j \in Nat : \E f : Made(f, j)}
<1>1. 0 \in T
  <2> DEFINE f == [k \in 0..0 |-> a]
  <2>1. Made(f, 0)
    OBVIOUS
  <2>2. QED
    BY <2>1
<1>2. ASSUME NEW j \in T PROVE j + 1 \in T
  <2>1. PICK f : Made(f, j)
    OBVIOUS
  <2> DEFINE g == [k \in 0..(j + 1) |-> IF k = 0 THEN a ELSE ScanPass(f[k - 1], k, bus, cut)]
  <2>2. \A k \in 0..j : g[k] = f[k]
    BY <2>1
  <2>3. \A k \in 0..(j + 1) : k # 0 => k - 1 \in 0..j
    OBVIOUS
  <2>4. Made(g, j + 1)
    <3>1. \A k \in 0..(j + 1) : k # 0 => g[k - 1] = f[k - 1]
      BY <2>2, <2>3
    <3>2. QED
      BY <3>1
  <2> HIDE DEF g
  <2>5. QED
    BY <2>4
<1>3. T = Nat
  <2> HIDE DEF T
  <2>1. T \in SUBSET Nat
    BY DEF T
  <2>2. QED
    BY <1>1, <1>2, <2>1, NaturalsByStep
<1>4. QED
  BY <1>3

\* Where a scan begins.
Begun == [rom |-> [n \in 1..RomBits |-> 0], last |-> 0, done |-> FALSE, found |-> <<>>]

LEMMA PassByPass ==
  ASSUME NEW bus, NEW cut
  PROVE  \E f : /\ f[0] = Begun
                /\ \A k \in 0..(Passes - 1) : f[k + 1] = ScanPass(f[k], k + 1, bus, cut)
                /\ ScanSensors(bus, cut) = f[Passes].found
<1> DEFINE Made(f) == f = [k \in 0..Passes |-> IF k = 0 THEN Begun ELSE ScanPass(f[k - 1], k, bus, cut)]
           after == CHOOSE f : Made(f)
<1>1. ScanSensors(bus, cut) = after[Passes].found
  BY DEF ScanSensors, Begun
<1>2. Made(after)
  BY Widths, PassesExist
<1> HIDE DEF after
<1>3. after[0] = Begun /\ \A k \in 0..(Passes - 1) : after[k + 1] = ScanPass(after[k], k + 1, bus, cut)
  BY <1>2, Widths
<1>4. QED
  BY <1>1, <1>3

\* The M1820 among the devices of S.
Mine(S) == {r \in S : SubSeq(r, 1, FamilyBits) = Family}

LEMMA OneMore ==
  ASSUME NEW S, NEW s \in Seq(S), IsInjective(s), NEW e \in S, e \notin Range(s), NEW t, t = Append(s, e)
  PROVE  t \in Seq(S) /\ IsInjective(t) /\ Range(t) = Range(s) \cup {e} /\ Len(t) = Len(s) + 1
<1> DEFINE n == Len(s)
<1>1. n \in Nat /\ DOMAIN s = 1..n
  OBVIOUS
<1>2. /\ t \in Seq(S) /\ Len(t) = n + 1 /\ DOMAIN t = 1..(n + 1)
      /\ \A i \in 1..n : t[i] = s[i]
      /\ t[n + 1] = e
  OBVIOUS
<1> HIDE DEF n
<1>3. \A i \in 1..(n + 1) : i = n + 1 \/ i \in 1..n
  BY <1>1
<1>4. n + 1 \in 1..(n + 1) /\ \A i \in 1..n : i \in 1..(n + 1)
  BY <1>1
<1>5. IsInjective(t)
  <2>1. \A i \in 1..n : s[i] # e
    BY <1>1 DEF Range
  <2>2. QED
    BY <1>1, <1>2, <1>3, <2>1 DEF IsInjective
<1>6. Range(t) = Range(s) \cup {e}
  BY <1>1, <1>2, <1>3, <1>4 DEF Range
<1>7. QED
  BY <1>2, <1>5, <1>6 DEF n

LEMMA LenOfAll ==
  ASSUME NEW S, NEW s \in Seq(S), IsInjective(s)
  PROVE  IsFiniteSet(Range(s)) /\ Cardinality(Range(s)) = Len(s)
<1>1. Len(s) \in Nat /\ s \in [1..Len(s) -> Range(s)] /\ DOMAIN s = 1..Len(s)
  BY DEF Range
<1>2. s \in Bijection(1..Len(s), Range(s))
  BY <1>1 DEF Bijection, Injection, Surjection, Range
<1>3. IsFiniteSet(1..Len(s)) /\ Cardinality(1..Len(s)) = Len(s)
  BY <1>1, FS_Interval
<1>4. QED
  BY <1>2, <1>3, FS_Bijection DEF ExistsBijection

\* After k passes: the M1820 among k devices, none twice; or the end.
Reached(s, k, seen, bus, cut) ==
  \/ /\ ~s.done /\ Cardinality(seen) = k
     /\ bus # {} => Ready(bus, s.rom, s.last) /\ seen = bus \ Todo(bus, s.rom, s.last)
  \/ s.done /\ (cut = {} => seen = bus)
  \/ Len(s.found) = MaxDevices

IsScan(s) == s = [rom |-> s.rom, last |-> s.last, done |-> s.done, found |-> s.found] /\ s.done \in BOOLEAN

Scanned(s, k, bus, cut) ==
  /\ IsScan(s)
  /\ s.found \in Seq(Roms) /\ IsInjective(s.found) /\ Len(s.found) <= MaxDevices
  /\ \E seen \in SUBSET bus : Range(s.found) = Mine(seen) /\ Reached(s, k, seen, bus, cut)

LEMMA PassKeeps ==
  ASSUME NEW bus \in SUBSET Roms, IsFiniteSet(bus), NEW cut, NEW k \in Nat,
         NEW s, Scanned(s, k, bus, cut), NEW t, t = ScanPass(s, k + 1, bus, cut)
  PROVE  Scanned(t, k + 1, bus, cut)
<1> DEFINE next == SearchNext(bus, s.last, s.rom)
           q == next.rom
           mine == SubSeq(q, 1, FamilyBits) = Family
           twice == mine /\ Contains(s.found, q)
<1>1. PICK seen \in SUBSET bus : Range(s.found) = Mine(seen) /\ Reached(s, k, seen, bus, cut)
  BY DEF Scanned
<1>2. IsScan(s)
  BY DEF Scanned
<1>3. s.found \in Seq(Roms) /\ IsInjective(s.found) /\ Len(s.found) <= MaxDevices /\ Len(s.found) \in Nat
  BY DEF Scanned
<1>4. CASE s.done \/ Len(s.found) = MaxDevices
  <2>1. t = s
    BY <1>4 DEF ScanPass
  <2>2. Reached(s, k + 1, seen, bus, cut)
    BY <1>1, <1>4 DEF Reached
  <2>3. QED
    BY <1>1, <1>2, <1>3, <2>1, <2>2 DEF Scanned
<1>5. CASE ~s.done /\ Len(s.found) # MaxDevices
  <2>1. /\ Cardinality(seen) = k
        /\ bus # {} => Ready(bus, s.rom, s.last) /\ seen = bus \ Todo(bus, s.rom, s.last)
    BY <1>1, <1>5 DEF Reached
  <2>2. CASE k + 1 \in cut \/ next.live = {}
    <3>1. t = [s EXCEPT !.done = TRUE]
      BY <1>5, <2>2 DEF ScanPass
    <3>2. t = [rom |-> s.rom, last |-> s.last, done |-> TRUE, found |-> s.found]
      BY <1>2, <3>1 DEF IsScan
    <3>3. cut = {} => seen = bus
      <4>1. SUFFICES ASSUME cut = {}, bus # {} PROVE FALSE
        OBVIOUS
      <4>2. next.live # {}
        BY <2>1, <4>1, PassFinds
      <4>3. QED
        BY <2>2, <4>1, <4>2
    <3>4. Reached(t, k + 1, seen, bus, cut)
      BY <3>2, <3>3 DEF Reached
    <3>5. IsScan(t) /\ t.found = s.found
      <4>1. t.rom = s.rom /\ t.last = s.last /\ t.done = TRUE /\ t.found = s.found
        BY <3>2
      <4>2. QED
        BY <3>2, <4>1 DEF IsScan
    <3>6. QED
      BY <1>1, <1>3, <3>4, <3>5 DEF Scanned
  <2>3. CASE ~(k + 1 \in cut) /\ next.live # {}
    <3>1. bus # {}
      BY <2>3, NobodyAnswers
    <3>2. Ready(bus, s.rom, s.last) /\ seen = bus \ Todo(bus, s.rom, s.last)
      BY <2>1, <3>1
    <3>3. /\ q \in Todo(bus, s.rom, s.last) /\ Above(bus, q) = Todo(bus, s.rom, s.last) \ {q}
          /\ next.zero = 0 => Above(bus, q) = {}
          /\ next.zero # 0 => Ready(bus, q, next.zero)
      BY <3>2, PassFinds
    <3>4. Todo(bus, s.rom, s.last) \subseteq bus
      BY DEF Todo, Above
    <3>5. t = [rom |-> q, last |-> next.zero, done |-> twice \/ next.zero = 0,
               found |-> IF mine /\ ~twice THEN Append(s.found, q) ELSE s.found]
      BY <1>5, <2>3 DEF ScanPass
    <3> HIDE DEF next
    <3>6. q \notin seen /\ q \in bus /\ q \in Roms
      BY <3>2, <3>3, <3>4
    <3>7. q \notin Range(s.found)
      BY <1>1, <3>6 DEF Mine
    <3>8. ~twice
      BY <1>3, <3>7 DEF Contains, Range
    <3> DEFINE met == seen \cup {q}
    <3> HIDE DEF twice
    <3>9. /\ t.rom = q /\ t.last = next.zero /\ (t.done <=> next.zero = 0) /\ t.done \in BOOLEAN
          /\ t.found = IF mine THEN Append(s.found, q) ELSE s.found
          /\ IsScan(t)
      <4> DEFINE list == IF mine THEN Append(s.found, q) ELSE s.found
                 end == next.zero = 0
      <4>1. t = [rom |-> q, last |-> next.zero, done |-> end, found |-> list]
        BY <3>5, <3>8
      <4>2. end \in BOOLEAN
        OBVIOUS
      <4> HIDE DEF list, q, end
      <4>3. t.rom = q /\ t.last = next.zero /\ t.done = end /\ t.found = list
        BY <4>1
      <4>4. IsScan(t)
        BY <4>1, <4>2 DEF IsScan
      <4>5. QED
        BY <4>2, <4>3, <4>4 DEF list, end
    <3>10. Cardinality(met) = k + 1
      <4>1. IsFiniteSet(seen)
        BY FS_Subset
      <4>2. QED
        BY <2>1, <3>6, <4>1, FS_AddElement
    <3>11. /\ t.found \in Seq(Roms) /\ IsInjective(t.found) /\ Len(t.found) <= MaxDevices
           /\ Range(t.found) = Mine(met)
      <4>1. CASE mine
        <5>1. t.found = Append(s.found, q) /\ Mine(met) = Mine(seen) \cup {q}
          BY <3>9, <4>1 DEF Mine
        <5> HIDE DEF q, mine, met
        <5>2. /\ t.found \in Seq(Roms) /\ IsInjective(t.found) /\ Range(t.found) = Range(s.found) \cup {q}
              /\ Len(t.found) = Len(s.found) + 1
          BY <1>3, <3>6, <3>7, <5>1, OneMore
        <5>3. Len(t.found) <= MaxDevices
          BY <1>3, <1>5, <5>2, Widths
        <5>4. QED
          BY <1>1, <5>1, <5>2, <5>3
      <4>2. CASE ~mine
        <5>1. t.found = s.found /\ Mine(met) = Mine(seen)
          BY <3>9, <4>2 DEF Mine
        <5>2. QED
          BY <1>1, <1>3, <5>1
      <4>3. QED
        BY <4>1, <4>2
    <3>12. CASE next.zero = 0
      <4>1. met = bus
        BY <3>2, <3>3, <3>6, <3>12
      <4> HIDE DEF met
      <4>2. Reached(t, k + 1, met, bus, cut)
        BY <3>9, <3>12, <4>1 DEF Reached
      <4>3. QED
        BY <3>9, <3>11, <4>1, <4>2 DEF Scanned
    <3>13. CASE next.zero # 0
      <4>1. ~t.done
        BY <3>9, <3>13
      <4>2. Ready(bus, t.rom, t.last) /\ met = bus \ Todo(bus, t.rom, t.last)
        <5>1. Todo(bus, t.rom, t.last) = Above(bus, q)
          BY <3>9, <3>13 DEF Todo
        <5>2. QED
          BY <3>2, <3>3, <3>4, <3>6, <3>9, <3>13, <5>1
      <4>3. met \in SUBSET bus
        BY <3>6
      <4> HIDE DEF met
      <4>4. Reached(t, k + 1, met, bus, cut)
        BY <3>10, <4>1, <4>2 DEF Reached
      <4>5. QED
        BY <3>9, <3>11, <4>3, <4>4 DEF Scanned
    <3>14. QED
      BY <3>12, <3>13
  <2>4. QED
    BY <2>2, <2>3
<1>6. QED
  BY <1>4, <1>5

LEMMA BegunScanned == ASSUME NEW bus \in SUBSET Roms, NEW cut PROVE Scanned(Begun, 0, bus, cut)
<1>1. Begun.rom \in Roms /\ Begun.last = 0 /\ Begun.done = FALSE /\ Begun.found = <<>>
  BY DEF Begun, Roms
<1>2. Begun.found \in Seq(Roms) /\ IsInjective(Begun.found) /\ Range(Begun.found) = {} /\ Len(Begun.found) = 0
  BY <1>1 DEF IsInjective, Range
<1>3. bus # {} => Ready(bus, Begun.rom, Begun.last) /\ {} = bus \ Todo(bus, Begun.rom, Begun.last)
  BY <1>1, Widths DEF Ready, Todo
<1>4. Cardinality({}) = 0 /\ Mine({}) = {}
  BY FS_EmptySet DEF Mine
<1>5. Reached(Begun, 0, {}, bus, cut)
  BY <1>1, <1>3, <1>4 DEF Reached
<1>6. IsScan(Begun)
  BY DEF Begun, IsScan
<1>7. Range(Begun.found) = Mine({}) /\ {} \in SUBSET bus
  BY <1>2, <1>4
<1>8. QED
  BY <1>1, <1>2, <1>5, <1>6, <1>7, Widths DEF Scanned

(* The search enumerates, for any width of the ROMs, any family and any bus *)
(* of no more devices than there are passes.                                *)
LEMMA ScanEnumerates ==
  ASSUME NEW bus \in SUBSET Roms, IsFiniteSet(bus), Cardinality(bus) <= Passes, NEW cut
  PROVE  LET scan == ScanSensors(bus, cut)
         IN /\ IsInjective(scan) /\ Range(scan) \subseteq Mine(bus)
            /\ cut = {} => Len(scan) = Min({MaxDevices, Cardinality(Mine(bus))})
<1> DEFINE scan == ScanSensors(bus, cut)
           all == Cardinality(Mine(bus))
<1>1. PICK f : /\ f[0] = Begun
               /\ \A k \in 0..(Passes - 1) : f[k + 1] = ScanPass(f[k], k + 1, bus, cut)
               /\ scan = f[Passes].found
  BY PassByPass
<1> DEFINE T == {k \in Nat : k <= Passes => Scanned(f[k], k, bus, cut)}
<1>2. 0 \in T
  BY <1>1, BegunScanned
<1>3. ASSUME NEW k \in T PROVE k + 1 \in T
  <2>1. SUFFICES ASSUME k + 1 <= Passes PROVE Scanned(f[k + 1], k + 1, bus, cut)
    OBVIOUS
  <2>2. k \in 0..(Passes - 1) /\ Scanned(f[k], k, bus, cut)
    BY <2>1, Widths
  <2>3. QED
    BY <1>1, <2>2, PassKeeps
<1>4. T = Nat
  <2> HIDE DEF T
  <2>1. T \in SUBSET Nat
    BY DEF T
  <2>2. QED
    BY <1>2, <1>3, <2>1, NaturalsByStep
<1> DEFINE s == f[Passes]
<1>5. Scanned(s, Passes, bus, cut)
  BY <1>4, Widths
<1> HIDE DEF s, scan, T
<1>6. scan = s.found
  BY <1>1 DEF s
<1>7. scan \in Seq(Roms) /\ IsInjective(scan) /\ Len(scan) <= MaxDevices /\ Len(scan) \in Nat
  BY <1>5, <1>6 DEF Scanned
<1>8. PICK seen \in SUBSET bus :
        /\ Range(scan) = Mine(seen)
        /\ \/ Cardinality(seen) = Passes
           \/ cut = {} => seen = bus
           \/ Len(scan) = MaxDevices
  BY <1>5, <1>6 DEF Scanned, Reached
<1>9. Mine(seen) \subseteq Mine(bus)
  BY DEF Mine
<1>10. IsFiniteSet(Mine(bus)) /\ all \in Nat /\ Len(scan) <= all
  <2>1. IsFiniteSet(Mine(bus))
    BY FS_Subset DEF Mine
  <2>2. Cardinality(Mine(seen)) <= all
    BY <1>9, <2>1, FS_Subset
  <2>3. Cardinality(Mine(seen)) = Len(scan)
    BY <1>7, <1>8, LenOfAll
  <2>4. QED
    BY <2>1, <2>2, <2>3, FS_CardinalityType
<1>11. ASSUME cut = {} PROVE Len(scan) = all \/ Len(scan) = MaxDevices
  <2>1. CASE Cardinality(seen) = Passes
    <3>1. Cardinality(seen) <= Cardinality(bus) /\ (Cardinality(bus) = Cardinality(seen) => seen = bus)
      BY FS_Subset
    <3>2. Cardinality(bus) \in Nat
      BY FS_CardinalityType
    <3>3. seen = bus
      BY <2>1, <3>1, <3>2, Widths
    <3>4. QED
      BY <1>7, <1>8, <3>3, LenOfAll
  <2>2. CASE seen = bus
    BY <1>7, <1>8, <2>2, LenOfAll
  <2>3. QED
    BY <1>8, <1>11, <2>1, <2>2
<1> HIDE DEF all
<1>12. ASSUME cut = {} PROVE Len(scan) = Min({MaxDevices, all})
  <2>1. \A m \in {MaxDevices, all} : Len(scan) <= m
    BY <1>7, <1>10
  <2>2. Len(scan) \in {MaxDevices, all}
    BY <1>11, <1>12
  <2>3. \A m \in {MaxDevices, all} : (\A y \in {MaxDevices, all} : m <= y) => m = Len(scan)
    BY <1>7, <1>10, <2>1, <2>2, Widths
  <2>4. QED
    BY <2>1, <2>2, <2>3 DEF Min
<1>13. QED
  BY <1>7, <1>8, <1>9, <1>12 DEF scan, all

\* There are finitely many ROMs.
LEMMA RomsAreFinite == IsFiniteSet(Roms)
<1> DEFINE T == {n \in Nat : IsFiniteSet([1..n -> {0, 1}])}
<1>1. 0 \in T
  <2>1. [1..0 -> {0, 1}] = {[i \in 1..0 |-> 0]}
    <3>1. 1..0 = {}
      OBVIOUS
    <3>2. \A f \in [{} -> {0, 1}] : f = [i \in {} |-> 0]
      OBVIOUS
    <3>3. [i \in {} |-> 0] \in [{} -> {0, 1}]
      OBVIOUS
    <3>4. QED
      BY <3>1, <3>2, <3>3
  <2>2. QED
    BY <2>1, FS_Singleton
<1>2. ASSUME NEW n \in T PROVE n + 1 \in T
  <2> DEFINE A == [1..n -> {0, 1}]
             B == [1..(n + 1) -> {0, 1}]
             longer == [p \in A \X {0, 1} |-> [i \in 1..(n + 1) |-> IF i = n + 1 THEN p[2] ELSE p[1][i]]]
  <2>1. IsFiniteSet(A \X {0, 1})
    <3>1. IsFiniteSet(A)
      OBVIOUS
    <3>2. IsFiniteSet({0, 1})
      <4>1. {0, 1} = {0} \cup {1} /\ IsFiniteSet({0})
        BY FS_Singleton
      <4>2. QED
        BY <4>1, FS_AddElement
    <3> HIDE DEF A
    <3>3. QED
      BY <3>1, <3>2, FS_Product
  <2>2. ASSUME NEW p \in A \X {0, 1} PROVE longer[p] \in B
    <3>1. p[2] \in {0, 1} /\ p[1] \in A
      OBVIOUS
    <3>2. \A i \in 1..(n + 1) : i = n + 1 \/ i \in 1..n
      OBVIOUS
    <3>3. QED
      BY <3>1, <3>2
  <2>3. ASSUME NEW b \in B PROVE \E p \in A \X {0, 1} : longer[p] = b
    <3> DEFINE a == [i \in 1..n |-> b[i]]
    <3>1. n \in Nat /\ n + 1 \in 1..(n + 1) /\ \A i \in 1..(n + 1) : i = n + 1 \/ i \in 1..n
      OBVIOUS
    <3>2. a \in A /\ b[n + 1] \in {0, 1}
      BY <3>1
    <3>3. <<a, b[n + 1]>> \in A \X {0, 1}
      BY <3>2
    <3>4. longer[<<a, b[n + 1]>>] = [i \in 1..(n + 1) |-> IF i = n + 1 THEN b[n + 1] ELSE a[i]]
      <4>1. \A p \in A \X {0, 1} : longer[p] = [i \in 1..(n + 1) |-> IF i = n + 1 THEN p[2] ELSE p[1][i]]
        BY Zenon
      <4> HIDE DEF longer, A, a
      <4>2. <<a, b[n + 1]>>[1] = a /\ <<a, b[n + 1]>>[2] = b[n + 1]
        OBVIOUS
      <4>3. QED
        BY <3>3, <4>1, <4>2
    <3>5. [i \in 1..(n + 1) |-> IF i = n + 1 THEN b[n + 1] ELSE a[i]] = b
      BY <3>1
    <3>6. QED
      BY <3>3, <3>4, <3>5
  <2>4. longer \in Surjection(A \X {0, 1}, B)
    <3>1. DOMAIN longer = A \X {0, 1}
      OBVIOUS
    <3> HIDE DEF A, B
    <3>2. longer \in [A \X {0, 1} -> B]
      BY <2>2
    <3> HIDE DEF longer
    <3>3. QED
      BY <2>3, <3>2 DEF Surjection
  <2>5. IsFiniteSet(B)
    <3> HIDE DEF A, B, longer
    <3>1. QED
      BY <2>1, <2>4, FS_Surjection
  <2>6. QED
    BY <2>5
<1>3. T = Nat
  <2> HIDE DEF T
  <2>1. T \in SUBSET Nat
    BY DEF T
  <2>2. QED
    BY <1>1, <1>2, <2>1, NaturalsByStep
<1>4. QED
  BY <1>3, Widths DEF Roms

(* Whatever hangs on the bus and however the ROMs share their bits, for any *)
(* width, family, table and number of passes: every M1820 is next once.    *)
THEOREM ScanFindsAll == SensingSpec => []ScanIsComplete
<1>1. ASSUME NEW input \in Scans
      PROVE  LET scan == ScanSensors(input.bus, input.broken)
                 mine == {r \in input.bus : SubSeq(r, 1, FamilyBits) = Family}
             IN /\ IsInjective(scan) /\ Range(scan) \subseteq mine
                /\ input.broken = {} => Len(scan) = Min({MaxDevices, Cardinality(mine)})
  <2>1. PICK k \in 0..4 : input.bus \in kSubset(k, Roms)
    BY DEF Scans
  <2>2. input.bus \in SUBSET Roms /\ Cardinality(input.bus) = k
    BY <2>1 DEF kSubset
  <2>3. IsFiniteSet(input.bus)
    BY <2>2, RomsAreFinite, FS_Subset
  <2>4. Cardinality(input.bus) <= Passes
    BY <2>2, Widths, SensingAssumption
  <2>5. QED
    BY <2>2, <2>3, <2>4, ScanEnumerates DEF Mine
<1>2. ScanIsComplete
  BY <1>1 DEF ScanIsComplete
<1>3. QED
  BY <1>2, PTL
-----------------------------------------------------------------------------
(* The checksum of data, byte by byte. *)
ChecksumOf(crc, d) ==
  /\ crc \in [0..Len(d) -> Nat] /\ crc[0] = Rtcm!FirstCrc
  /\ \A k \in 1..Len(d) : crc[k] = 2 * crc[k - 1] + d[k]

CrcAfter(d, x, k) == 2 * x + d[k]

\* The checksum is what a pass over the bytes leaves.
LEMMA CrcByByte ==
  ASSUME NEW d \in Seq(Nat)
  PROVE  \E crc : ChecksumOf(crc, d) /\ Rtcm!Crc24q(d) = crc[Len(d)]
<1> DEFINE n == Len(d)
           Made(f) == f = [k \in 0..n |-> IF k = 0 THEN Rtcm!FirstCrc ELSE CrcAfter(d, f[k - 1], k)]
           crc == CHOOSE f : Made(f)
           step == [k \in Nat |-> [x \in Nat |-> IF k \in 1..n THEN CrcAfter(d, x, k) ELSE 0]]
<1>1. Rtcm!Crc24q(d) = crc[n]
  BY DEF Rtcm!Crc24q, CrcAfter
<1>2. n \in Nat /\ \A k \in 1..n : d[k] \in Nat
  OBVIOUS
<1> HIDE DEF n
<1>3. \A k \in 1..n, x \in Nat : CrcAfter(d, x, k) \in Nat
  BY <1>2 DEF CrcAfter
<1>4. \A k \in 0..n : k # 0 => k \in 1..n /\ k \in Nat /\ k - 1 \in 0..n
  BY <1>2
<1>5. step \in [Nat -> [Nat -> Nat]]
  BY <1>3
<1>6. \A k \in 1..n, x \in Nat : k \in Nat /\ step[k][x] = CrcAfter(d, x, k)
  OBVIOUS
<1> HIDE DEF step
<1>7. PICK f \in [0..n -> Nat] : Follows(f, Rtcm!FirstCrc, step, n)
  <2>1. Rtcm!FirstCrc \in Nat
    BY DEF Rtcm!FirstCrc
  <2>2. QED
    BY <1>2, <1>5, <2>1, StepByStep
<1>8. \A k \in 1..n : f[k] = CrcAfter(d, f[k - 1], k)
  <2>1. \A k \in 1..n : f[k - 1] \in Nat
    BY <1>2
  <2>2. QED
    BY <1>6, <1>7, <2>1 DEF Follows
<1>9. Made(f)
  BY <1>4, <1>7, <1>8 DEF Follows
<1> HIDE DEF Made
<1>10. Made(crc)
  BY <1>9
<1> HIDE DEF crc
<1>11. crc[0] = Rtcm!FirstCrc /\ \A k \in 1..n : crc[k] = CrcAfter(d, crc[k - 1], k)
  BY <1>2, <1>10 DEF Made
<1>12. \A k \in 1..n : crc[k - 1] \in Nat => crc[k] \in Nat
  BY <1>3, <1>11
<1>13. crc = [k \in 0..n |-> crc[k]]
  BY <1>10 DEF Made
<1>14. crc \in [0..n -> Nat]
  <2>1. crc[0] \in Nat
    BY <1>11 DEF Rtcm!FirstCrc
  <2>2. QED
    BY <1>2, <1>12, <1>13, <2>1, StepsStay
<1>15. QED
  BY <1>1, <1>11, <1>14 DEF ChecksumOf, n, CrcAfter

\* A checksum is no byte.
LEMMA CrcIsLarge ==
  ASSUME NEW d \in Seq(Nat)
  PROVE  Rtcm!Crc24q(d) \in Nat /\ Rtcm!Crc24q(d) >= Rtcm!FirstCrc
<1>1. PICK crc : ChecksumOf(crc, d) /\ Rtcm!Crc24q(d) = crc[Len(d)]
  BY CrcByByte
<1> DEFINE n == Len(d)
           S == {c \in Nat : c >= Rtcm!FirstCrc}
<1>2. n \in Nat /\ \A k \in 1..n : d[k] \in Nat
  OBVIOUS
<1>3. /\ crc \in [0..n -> Nat] /\ crc[0] = Rtcm!FirstCrc
      /\ \A k \in 1..n : crc[k] = 2 * crc[k - 1] + d[k]
  BY <1>1 DEF ChecksumOf
<1> HIDE DEF n
<1>4. \A k \in 1..n : crc[k - 1] \in S => crc[k] \in S
  <2> TAKE k \in 1..n
  <2>1. crc[k - 1] \in Nat /\ d[k] \in Nat /\ crc[k] = 2 * crc[k - 1] + d[k]
    BY <1>2, <1>3
  <2>2. QED
    BY <2>1 DEF Rtcm!FirstCrc
<1>5. crc[0] \in S
  BY <1>3 DEF Rtcm!FirstCrc
<1>6. crc = [k \in 0..n |-> crc[k]]
  BY <1>3
<1> HIDE DEF S
<1>7. crc \in [0..n -> S]
  BY <1>2, <1>4, <1>5, <1>6, StepsStay
<1>8. crc[n] \in S
  BY <1>2, <1>7
<1>9. QED
  BY <1>1, <1>8 DEF S, n

\* What stands before the data is in the checksum: it is another one.
LEMMA CrcTellsMore ==
  ASSUME NEW u \in Seq(Nat), NEW v \in Seq(Nat), u # <<>>
  PROVE  Rtcm!Crc24q(u \o v) # Rtcm!Crc24q(v)
<1> DEFINE d == u \o v
           m == Len(u)
           n == Len(v)
<1>1. d \in Seq(Nat) /\ Len(d) = m + n /\ m \in Nat \ {0} /\ n \in Nat
  BY ConcatProperties, EmptySeq
<1>2. /\ \A k \in 1..n : d[m + k] = v[k] /\ v[k] \in Nat
      /\ \A k \in 1..(m + n) : d[k] \in Nat
  BY <1>1, ConcatProperties, ElementOfSeq
<1>3. PICK a : ChecksumOf(a, d) /\ Rtcm!Crc24q(d) = a[m + n]
  BY <1>1, CrcByByte
<1>4. PICK b : ChecksumOf(b, v) /\ Rtcm!Crc24q(v) = b[n]
  BY CrcByByte
<1>5. /\ a \in [0..(m + n) -> Nat] /\ a[0] = Rtcm!FirstCrc
      /\ \A k \in 1..(m + n) : a[k] = 2 * a[k - 1] + d[k]
  BY <1>1, <1>3 DEF ChecksumOf
<1>6. /\ b \in [0..n -> Nat] /\ b[0] = Rtcm!FirstCrc
      /\ \A k \in 1..n : b[k] = 2 * b[k - 1] + v[k]
  BY <1>4 DEF ChecksumOf
<1> HIDE DEF d, m, n
<1>7. a[m] > Rtcm!FirstCrc
  <2> DEFINE S == {c \in Nat : c > Rtcm!FirstCrc}
             f == [k \in 0..(m - 1) |-> a[k + 1]]
  <2>1. f[0] \in S /\ m - 1 \in Nat
    <3>1. a[1] = 2 * a[0] + d[1] /\ d[1] \in Nat
      BY <1>1, <1>2, <1>5
    <3>2. a[1] \in Nat /\ a[1] > Rtcm!FirstCrc
      BY <1>5, <3>1 DEF Rtcm!FirstCrc
    <3>3. m - 1 \in Nat /\ 0 \in 0..(m - 1) /\ 0 + 1 = 1
      BY <1>1
    <3>4. f[0] = a[1]
      BY <3>3
    <3> HIDE DEF f
    <3>5. QED
      BY <3>2, <3>3, <3>4
  <2>2. \A k \in 1..(m - 1) : f[k - 1] \in S => f[k] \in S
    <3> TAKE k \in 1..(m - 1)
    <3>1. f[k - 1] = a[k] /\ f[k] = a[k + 1]
      BY <1>1
    <3>2. k + 1 \in 1..(m + n) /\ (k + 1) - 1 = k /\ k \in 0..(m + n)
      BY <1>1
    <3> a[k] \in Nat
      BY <1>5, <3>2
    <3>3. a[k + 1] = 2 * a[k] + d[k + 1] /\ d[k + 1] \in Nat
      BY <1>2, <1>5, <3>2
    <3>4. QED
      BY <3>1, <3>2, <3>3 DEF Rtcm!FirstCrc
  <2>3. f = [k \in 0..(m - 1) |-> f[k]]
    OBVIOUS
  <2>4. f[m - 1] = a[m]
    BY <1>1
  <2> HIDE DEF f, S
  <2>5. f \in [0..(m - 1) -> S]
    BY <2>1, <2>2, <2>3, StepsStay
  <2>6. f[m - 1] \in S
    BY <2>1, <2>5
  <2>7. QED
    BY <2>4, <2>6 DEF S
<1>8. a[m + n] > b[n]
  <2> DEFINE S == {x \in Nat \X Nat : x[1] > x[2]}
             f == [k \in 0..n |-> <<a[m + k], b[k]>>]
  <2>1. f[0] \in S
    <3>1. m + 0 = m /\ m \in 0..(m + n)
      BY <1>1
    <3>2. QED
      BY <1>1, <1>5, <1>6, <1>7, <3>1
  <2>2. \A k \in 1..n : f[k - 1] \in S => f[k] \in S
    <3> TAKE k \in 1..n
    <3>1. HAVE f[k - 1] \in S
    <3>2. f[k - 1] = <<a[m + (k - 1)], b[k - 1]>> /\ f[k] = <<a[m + k], b[k]>>
      <4>1. k - 1 \in 0..n /\ k \in 0..n
        BY <1>1
      <4>2. QED
        BY <4>1
    <3>3. a[m + (k - 1)] > b[k - 1]
      BY <3>1, <3>2
    <3>4. m + k \in 1..(m + n) /\ (m + k) - 1 = m + (k - 1) /\ m + (k - 1) \in 0..(m + n) /\ k - 1 \in 0..n
      BY <1>1
    <3>5. a[m + k] = 2 * a[m + (k - 1)] + v[k] /\ b[k] = 2 * b[k - 1] + v[k] /\ v[k] \in Nat
      BY <1>2, <1>5, <1>6, <3>4
    <3>6. a[m + (k - 1)] \in Nat /\ b[k - 1] \in Nat
      BY <1>5, <1>6, <3>4
    <3>7. a[m + k] \in Nat /\ b[k] \in Nat /\ a[m + k] > b[k]
      <4>1. \A x, y, z \in Nat : x > y => 2 * x + z \in Nat /\ 2 * y + z \in Nat /\ 2 * x + z > 2 * y + z
        OBVIOUS
      <4> DEFINE x == a[m + (k - 1)]
                 y == b[k - 1]
                 z == v[k]
      <4>2. x \in Nat /\ y \in Nat /\ z \in Nat /\ x > y
        BY <3>3, <3>5, <3>6
      <4>3. a[m + k] = 2 * x + z /\ b[k] = 2 * y + z
        BY <3>5
      <4> HIDE DEF x, y, z
      <4>4. QED
        BY <4>1, <4>2, <4>3
    <3>8. <<a[m + k], b[k]>> \in S
      BY <3>7
    <3>9. QED
      BY <3>2, <3>8
  <2>3. f = [k \in 0..n |-> f[k]]
    OBVIOUS
  <2>4. f[n] = <<a[m + n], b[n]>>
    BY <1>1
  <2> HIDE DEF f, S
  <2>5. f \in [0..n -> S]
    BY <1>1, <2>1, <2>2, <2>3, StepsStay
  <2>6. f[n] \in S
    BY <1>1, <2>5
  <2>7. QED
    BY <2>4, <2>6 DEF S
<1>9. QED
  BY <1>1, <1>3, <1>4, <1>5, <1>6, <1>8 DEF d

\* What the bound on a payload and the silence rest on.
LEMMA StreamSizes ==
  /\ MaxPayload \in Nat \ {0} /\ MaxPayload < Rtcm!FirstCrc /\ MaxChunk \in Nat \ {0} /\ MaxBuffer \in Nat
  /\ MaxBuffer >= MaxPayload + 3 + MaxChunk
  /\ Rtcm!Byte \subseteq Nat /\ \A b \in Rtcm!Byte : b < Rtcm!FirstCrc
  /\ Rtcm!Preamble \in Nat /\ Rtcm!Preamble \in Rtcm!Byte
  /\ \A i \in 1..MaxPayload : i \in Rtcm!Byte
  /\ \A p \in Payload : p \in Seq(Nat) /\ Len(p) \in 1..MaxPayload /\ \A i \in 1..Len(p) : p[i] \in Rtcm!Byte
  /\ \A s \in Noise : s \in Seq(Nat) /\ Len(s) >= 1 /\ \A i \in 1..Len(s) : s[i] \in Rtcm!Byte
<1>1. Rtcm!RtcmAssumption
  BY SensingAssumption
<1>2. Rtcm!Byte = 0..1023 /\ Rtcm!FirstCrc = 1024 /\ Rtcm!Preamble = 211
  BY DEF Rtcm!Byte, Rtcm!FirstCrc, Rtcm!Preamble
<1>3. ASSUME NEW s \in Seq(Rtcm!Byte)
      PROVE  s \in Seq(Nat) /\ (s # <<>> => Len(s) >= 1) /\ \A i \in 1..Len(s) : s[i] \in Rtcm!Byte
  <2>1. Rtcm!Byte \subseteq Nat
    BY <1>2
  <2>2. \A i \in 1..Len(s) : s[i] \in Rtcm!Byte
    BY ElementOfSeq
  <2>3. s \in Seq(Nat)
    BY <2>1, SeqMonotonic
  <2>4. QED
    BY <2>2, <2>3, EmptySeq
<1>4. \A p \in Payload : p \in Seq(Nat) /\ Len(p) \in 1..MaxPayload /\ \A i \in 1..Len(p) : p[i] \in Rtcm!Byte
  BY <1>1, <1>3 DEF Rtcm!RtcmAssumption
<1>5. \A s \in Noise : s \in Seq(Nat) /\ Len(s) >= 1 /\ \A i \in 1..Len(s) : s[i] \in Rtcm!Byte
  BY <1>1, <1>3 DEF Rtcm!RtcmAssumption
<1>6. MaxPayload \in 1..1023 /\ MaxChunk \in Nat \ {0} /\ MaxBuffer \in Nat /\ MaxBuffer >= MaxPayload + 3 + MaxChunk
  BY <1>1, <1>2 DEF Rtcm!RtcmAssumption
<1>7. QED
  BY <1>2, <1>4, <1>5, <1>6

(* A frame as it goes over the line, whatever its payload. *)
Whole(s) ==
  /\ s[1] = Rtcm!Preamble /\ s[2] \in 1..MaxPayload /\ Len(s) = s[2] + 3
  /\ \A i \in 1..(Len(s) - 1) : s[i] \in Rtcm!Byte
  /\ s[Len(s)] = Rtcm!Crc24q(SubSeq(s, 1, Len(s) - 1))

\* What the receiver makes of a payload is a frame.
LEMMA FramedIsWhole ==
  ASSUME NEW p \in Payload
  PROVE  Rtcm!Framed(p) \in Seq(Nat) /\ Whole(Rtcm!Framed(p)) /\ Rtcm!Framed(p)[2] = Len(p)
<1> DEFINE head == <<Rtcm!Preamble, Len(p)>>
           data == head \o p
           f == Rtcm!Framed(p)
           n == Len(p)
<1>1. p \in Seq(Nat) /\ n \in 1..MaxPayload /\ n \in Nat /\ \A i \in 1..n : p[i] \in Rtcm!Byte
  BY StreamSizes
<1>2. head \in Seq(Nat) /\ Len(head) = 2 /\ head[1] = Rtcm!Preamble /\ head[2] = n
  BY <1>1, StreamSizes
<1>3. f = Append(data, Rtcm!Crc24q(data))
  BY DEF Rtcm!Framed
<1> HIDE DEF head, f, n
<1>4. /\ data \in Seq(Nat) /\ Len(data) = n + 2 /\ data[1] = Rtcm!Preamble /\ data[2] = n
      /\ \A i \in 3..(n + 2) : data[i] = p[i - 2]
  <2>1. /\ data \in Seq(Nat) /\ Len(data) = Len(head) + Len(p)
        /\ \A i \in 1..(Len(head) + Len(p)) : data[i] = IF i <= Len(head) THEN head[i] ELSE p[i - Len(head)]
    BY <1>1, <1>2, ConcatProperties
  <2> HIDE DEF data
  <2>2. \A i \in 3..(n + 2) : i \in 1..(2 + n) /\ ~(i <= 2)
    BY <1>1
  <2>3. 1 \in 1..(2 + n) /\ 2 \in 1..(2 + n) /\ 2 + n = n + 2
    BY <1>1
  <2>4. data \in Seq(Nat) /\ Len(data) = 2 + n /\ \A i \in 1..(2 + n) : data[i] = IF i <= 2 THEN head[i] ELSE p[i - 2]
    BY <1>2, <2>1 DEF n
  <2>5. QED
    BY <1>2, <2>2, <2>3, <2>4
<1>5. \A i \in 1..(n + 2) : data[i] \in Rtcm!Byte
  <2> TAKE i \in 1..(n + 2)
  <2>1. CASE i = 1
    BY <1>4, <2>1, StreamSizes
  <2>2. CASE i = 2
    BY <1>1, <1>4, <2>2, StreamSizes
  <2>3. CASE i \in 3..(n + 2)
    <3>1. i - 2 \in 1..n
      BY <1>1, <2>3
    <3>2. QED
      BY <1>1, <1>4, <2>3, <3>1
  <2>4. i = 1 \/ i = 2 \/ i \in 3..(n + 2)
    BY <1>1
  <2>5. QED
    BY <2>1, <2>2, <2>3, <2>4
<1> HIDE DEF data
<1>6. /\ f \in Seq(Nat) /\ Len(f) = n + 3 /\ f[n + 3] = Rtcm!Crc24q(data)
      /\ \A i \in 1..(n + 2) : f[i] = data[i]
  BY <1>1, <1>3, <1>4, CrcIsLarge, AppendProperties
<1>7. SubSeq(f, 1, n + 2) = data
  <2>1. SubSeq(f, 1, n + 2) \in Seq(Nat) /\ Len(SubSeq(f, 1, n + 2)) = n + 2
    BY <1>1, <1>6, SubSeqProperties
  <2>2. \A i \in 1..(n + 2) : SubSeq(f, 1, n + 2)[i] = data[i]
    BY <1>1, <1>6
  <2>3. QED
    BY <1>4, <2>1, <2>2, SeqEqual
<1>8. 1 \in 1..(n + 2) /\ 2 \in 1..(n + 2) /\ (n + 3) - 1 = n + 2
  BY <1>1
<1>9. f[1] = Rtcm!Preamble /\ f[2] = n
  BY <1>4, <1>6, <1>8
<1>10. Whole(f)
  BY <1>1, <1>5, <1>6, <1>7, <1>8, <1>9 DEF Whole
<1>11. QED
  BY <1>6, <1>9, <1>10 DEF f, n

\* A segment is a frame or has no checksum in it; the ones of two bytes and more are told of.
LEMMA Segments ==
  ASSUME NEW s \in Rtcm!Segment
  PROVE  /\ s \in Seq(Nat) /\ Len(s) >= 1
         /\ Whole(s) \/ \A i \in 1..Len(s) : s[i] \in Rtcm!Byte
         /\ s \in Rtcm!Frame <=> Whole(s) /\ s[2] > 1
<1>1. \A q \in Rtcm!Frame : Whole(q) /\ q[2] > 1
  BY FramedIsWhole DEF Rtcm!Frame
<1>2. CASE s \in Noise
  <2>1. s \in Seq(Nat) /\ Len(s) >= 1 /\ \A i \in 1..Len(s) : s[i] \in Rtcm!Byte
    BY <1>2, StreamSizes
  <2>2. ~Whole(s)
    <3>1. SUFFICES ASSUME Whole(s) PROVE FALSE
      OBVIOUS
    <3>2. Len(s) \in Nat /\ SubSeq(s, 1, Len(s) - 1) \in Seq(Nat)
      BY <2>1
    <3>3. s[Len(s)] >= Rtcm!FirstCrc /\ s[Len(s)] \in Nat
      BY <3>1, <3>2, CrcIsLarge DEF Whole
    <3>4. s[Len(s)] \in Rtcm!Byte
      BY <2>1, <3>2
    <3>5. QED
      BY <3>3, <3>4, StreamSizes DEF Rtcm!FirstCrc
  <2>3. QED
    BY <1>1, <2>1, <2>2
<1>3. CASE s \notin Noise
  <2>1. PICK p \in Payload : s = Rtcm!Framed(p)
    BY <1>3 DEF Rtcm!Segment
  <2>2. s \in Seq(Nat) /\ Whole(s) /\ s[2] = Len(p)
    BY <2>1, FramedIsWhole
  <2>3. s[2] > 1 => s \in Rtcm!Frame
    BY <2>1, <2>2 DEF Rtcm!Frame
  <2>4. Len(s) >= 1
    BY <2>2, StreamSizes DEF Whole
  <2>5. QED
    BY <1>1, <2>2, <2>3, <2>4
<1>4. QED
  BY <1>2, <1>3

(* Where in the bytes B the segments of s end, and what stands there. *)
Laid(B, s, end) ==
  /\ s \in Seq(Rtcm!Segment) /\ B \in Seq(Nat)
  /\ end \in [0..Len(s) -> Nat] /\ end[0] = 0 /\ Len(B) = end[Len(s)] + MaxPayload + 3
  /\ \A k \in 1..Len(s) : end[k] = end[k - 1] + Len(s[k])
  /\ \A k \in 1..Len(s) : \A i \in 1..Len(s[k]) : B[end[k - 1] + i] = s[k][i]
  /\ \A i \in 1..(MaxPayload + 3) : B[end[Len(s)] + i] = 0

Joined(s, sent) ==
  /\ sent \in [0..Len(s) -> Seq(Nat)] /\ sent[0] = <<>>
  /\ \A k \in 1..Len(s) : sent[k] = sent[k - 1] \o s[k]

\* The bytes of the stream, segment by segment.
LEMMA SentByPart ==
  ASSUME stream \in Seq(Rtcm!Segment)
  PROVE  \E sent : Joined(stream, sent) /\ Rtcm!Bytes = sent[Len(stream)] \o Rtcm!Trailer
<1> DEFINE n == Len(stream)
           Made(f) == f = [k \in 0..n |-> IF k = 0 THEN <<>> ELSE f[k - 1] \o stream[k]]
           sent == CHOOSE f : Made(f)
           step == [k \in Nat |-> [x \in Seq(Nat) |-> IF k \in 1..n THEN x \o stream[k] ELSE <<>>]]
<1>1. Rtcm!Bytes = sent[n] \o Rtcm!Trailer
  BY DEF Rtcm!Bytes
<1>2. n \in Nat /\ \A k \in 1..n : stream[k] \in Seq(Nat)
  BY Segments
<1> HIDE DEF n
<1>3. \A k \in 1..n, x \in Seq(Nat) : x \o stream[k] \in Seq(Nat)
  BY <1>2, ConcatProperties
<1>4. \A k \in 0..n : k # 0 => k \in 1..n /\ k \in Nat /\ k - 1 \in 0..n
  BY <1>2
<1>5. step \in [Nat -> [Seq(Nat) -> Seq(Nat)]]
  <2>1. <<>> \in Seq(Nat)
    BY EmptySeq
  <2>2. QED
    BY <1>3, <2>1
<1>6. \A k \in 1..n, x \in Seq(Nat) : k \in Nat /\ step[k][x] = x \o stream[k]
  OBVIOUS
<1> HIDE DEF step
<1>7. PICK f \in [0..n -> Seq(Nat)] : Follows(f, <<>>, step, n)
  <2>1. <<>> \in Seq(Nat)
    BY EmptySeq
  <2>2. QED
    BY <1>2, <1>5, <2>1, StepByStep
<1>8. \A k \in 1..n : f[k] = f[k - 1] \o stream[k]
  <2>1. \A k \in 1..n : f[k - 1] \in Seq(Nat)
    BY <1>2
  <2>2. QED
    BY <1>6, <1>7, <2>1 DEF Follows
<1>9. Made(f)
  BY <1>4, <1>7, <1>8 DEF Follows
<1> HIDE DEF Made
<1>10. Made(sent)
  BY <1>9
<1> HIDE DEF sent
<1>11. sent[0] = <<>> /\ \A k \in 1..n : sent[k] = sent[k - 1] \o stream[k]
  <2>1. 0 \in 0..n /\ \A k \in 1..n : k \in 0..n /\ k # 0
    BY <1>2
  <2>2. \A k \in 0..n : sent[k] = IF k = 0 THEN <<>> ELSE sent[k - 1] \o stream[k]
    BY <1>10 DEF Made
  <2>3. QED
    BY <2>1, <2>2
<1>12. \A k \in 1..n : sent[k - 1] \in Seq(Nat) => sent[k] \in Seq(Nat)
  BY <1>3, <1>11, Zenon
<1>13. sent = [k \in 0..n |-> sent[k]]
  BY <1>10 DEF Made
<1>14. sent \in [0..n -> Seq(Nat)]
  <2>1. sent[0] \in Seq(Nat)
    BY <1>11, EmptySeq
  <2>2. QED
    BY <1>2, <1>12, <1>13, <2>1, StepsStay
<1>15. QED
  BY <1>1, <1>11, <1>14 DEF Joined, n

\* What was sent up to a segment stays at the front of what is sent later.
LEMMA PartsStay ==
  ASSUME NEW s \in Seq(Rtcm!Segment), NEW sent, Joined(s, sent), NEW n \in 0..Len(s), NEW k \in 0..n
  PROVE  /\ Len(sent[k]) \in Nat /\ Len(sent[n]) \in Nat /\ Len(sent[k]) <= Len(sent[n])
         /\ \A i \in 1..Len(sent[k]) : sent[n][i] = sent[k][i]
<1> DEFINE m == Len(s)
           Stays(j) == /\ Len(sent[k]) <= Len(sent[j])
                       /\ \A i \in 1..Len(sent[k]) : sent[j][i] = sent[k][i]
           T == {d \in Nat : k + d <= n => Stays(k + d)}
<1>1. m \in Nat /\ n \in 0..m /\ k \in Nat /\ \A j \in 1..m : s[j] \in Seq(Nat)
  BY Segments
<1>2. /\ sent \in [0..m -> Seq(Nat)]
      /\ \A j \in 1..m : sent[j] = sent[j - 1] \o s[j]
  BY DEF Joined
<1> HIDE DEF m
<1>3. \A j \in 0..m : sent[j] \in Seq(Nat) /\ Len(sent[j]) \in Nat
  BY <1>2, LenProperties
<1>4. 0 \in T
  BY <1>1
<1>5. ASSUME NEW d \in T PROVE d + 1 \in T
  <2> DEFINE j == k + d
  <2>1. SUFFICES ASSUME j + 1 <= n PROVE Stays(j + 1)
    BY <1>1
  <2>2. j \in 0..m /\ j + 1 \in 1..m /\ (j + 1) - 1 = j /\ j <= n
    BY <1>1, <2>1
  <2>3. Stays(j)
    BY <2>2
  <2> HIDE DEF j
  <2>4. sent[j + 1] = sent[j] \o s[j + 1] /\ sent[j] \in Seq(Nat) /\ s[j + 1] \in Seq(Nat)
    BY <1>1, <1>2, <1>3, <2>2
  <2>5. /\ Len(sent[j + 1]) = Len(sent[j]) + Len(s[j + 1]) /\ Len(s[j + 1]) \in Nat /\ Len(sent[j]) \in Nat
        /\ \A i \in 1..Len(sent[j]) : sent[j + 1][i] = sent[j][i]
    <3> DEFINE x == sent[j]
               y == s[j + 1]
    <3>1. x \in Seq(Nat) /\ y \in Seq(Nat) /\ sent[j + 1] = x \o y
      BY <2>4
    <3> HIDE DEF x, y
    <3>2. Len(x) \in Nat /\ Len(y) \in Nat
      BY <3>1, LenProperties
    <3>3. /\ Len(x \o y) = Len(x) + Len(y)
          /\ \A i \in 1..(Len(x) + Len(y)) : (x \o y)[i] = IF i <= Len(x) THEN x[i] ELSE y[i - Len(x)]
      BY <3>1, ConcatProperties
    <3>4. \A i \in 1..Len(x) : (x \o y)[i] = x[i]
      BY <3>2, <3>3
    <3>5. QED
      BY <3>1, <3>2, <3>3, <3>4 DEF x, y
  <2>6. Len(sent[k]) \in Nat
    BY <1>1, <1>3
  <2>7. \A i \in 1..Len(sent[k]) : i \in 1..Len(sent[j])
    BY <2>3, <2>5, <2>6
  <2>8. Len(sent[k]) <= Len(sent[j + 1])
    <3> DEFINE a == Len(sent[k])
               b == Len(sent[j])
               c == Len(s[j + 1])
    <3>1. a \in Nat /\ b \in Nat /\ c \in Nat /\ a <= b /\ Len(sent[j + 1]) = b + c
      BY <2>3, <2>5, <2>6
    <3> HIDE DEF a, b, c
    <3>2. a <= b + c
      BY <3>1
    <3>3. QED
      BY <3>1, <3>2 DEF a
  <2>9. QED
    BY <2>3, <2>5, <2>7, <2>8
<1>6. T = Nat
  <2> HIDE DEF T
  <2>1. T \in SUBSET Nat
    BY DEF T
  <2>2. QED
    BY <1>4, <1>5, <2>1, NaturalsByStep
<1>7. n - k \in Nat /\ k + (n - k) = n /\ k \in 0..m
  BY <1>1
<1>8. Stays(n)
  <2>1. n - k \in T
    BY <1>6, <1>7
  <2>2. Stays(k + (n - k))
    BY <1>1, <1>7, <2>1
  <2>3. QED
    BY <1>7, <2>2
<1>9. QED
  BY <1>1, <1>3, <1>7, <1>8

\* The bytes of every stream lie so.
LEMMA Layout ==
  ASSUME stream \in Seq(Rtcm!Segment)
  PROVE  \E end : Laid(Rtcm!Bytes, stream, end)
<1> DEFINE B == Rtcm!Bytes
           m == Len(stream)
<1>1. PICK sent : Joined(stream, sent) /\ B = sent[m] \o Rtcm!Trailer
  BY SentByPart
<1> DEFINE end == [k \in 0..m |-> Len(sent[k])]
           tail == Rtcm!Trailer
<1>2. m \in Nat /\ \A j \in 1..m : stream[j] \in Seq(Nat)
  BY Segments
<1>3. /\ sent \in [0..m -> Seq(Nat)] /\ sent[0] = <<>>
      /\ \A j \in 1..m : sent[j] = sent[j - 1] \o stream[j]
  BY <1>1 DEF Joined
<1>4. tail \in Seq(Nat) /\ Len(tail) = MaxPayload + 3 /\ \A i \in 1..(MaxPayload + 3) : tail[i] = 0
  <2>1. MaxPayload + 3 \in Nat
    BY StreamSizes
  <2>2. QED
    BY <2>1 DEF Rtcm!Trailer
<1>5. B = sent[m] \o tail
  BY <1>1
<1> HIDE DEF m, B, tail
<1>6. \A j \in 0..m : sent[j] \in Seq(Nat) /\ Len(sent[j]) \in Nat /\ end[j] = Len(sent[j])
  BY <1>3, LenProperties
<1>7. MaxPayload \in Nat
  BY StreamSizes
<1>8. /\ B \in Seq(Nat) /\ Len(B) = end[m] + MaxPayload + 3
      /\ \A i \in 1..end[m] : B[i] = sent[m][i]
      /\ \A i \in 1..(MaxPayload + 3) : B[end[m] + i] = 0
  <2> DEFINE x == sent[m]
  <2>1. x \in Seq(Nat) /\ Len(x) \in Nat /\ end[m] = Len(x) /\ B = x \o tail
    BY <1>2, <1>5, <1>6
  <2> HIDE DEF x, end
  <2>2. /\ x \o tail \in Seq(Nat) /\ Len(x \o tail) = Len(x) + Len(tail)
        /\ \A i \in 1..(Len(x) + Len(tail)) : (x \o tail)[i] = IF i <= Len(x) THEN x[i] ELSE tail[i - Len(x)]
    BY <1>4, <2>1, ConcatProperties
  <2>3. \A i \in 1..Len(x) : (x \o tail)[i] = x[i]
    BY <1>4, <1>7, <2>1, <2>2
  <2>4. ASSUME NEW i \in 1..(MaxPayload + 3) PROVE (x \o tail)[Len(x) + i] = 0
    <3>1. Len(x) + i \in 1..(Len(x) + Len(tail)) /\ ~(Len(x) + i <= Len(x)) /\ (Len(x) + i) - Len(x) = i
      BY <1>4, <1>7, <2>1
    <3>2. (x \o tail)[Len(x) + i] = tail[(Len(x) + i) - Len(x)]
      BY <2>2, <3>1
    <3>3. QED
      BY <1>4, <3>1, <3>2
  <2>5. Len(x \o tail) = Len(x) + MaxPayload + 3
    BY <1>4, <1>7, <2>1, <2>2
  <2>6. QED
    BY <2>1, <2>2, <2>3, <2>4, <2>5 DEF x
<1>9. ASSUME NEW k \in 1..m
      PROVE  /\ end[k] = end[k - 1] + Len(stream[k])
             /\ \A i \in 1..Len(stream[k]) : B[end[k - 1] + i] = stream[k][i]
  <2> DEFINE x == sent[k - 1]
             y == stream[k]
  <2>1. k - 1 \in 0..m /\ k \in 0..m /\ k \in 0..m
    BY <1>2
  <2>2. /\ x \in Seq(Nat) /\ Len(x) \in Nat /\ end[k - 1] = Len(x) /\ sent[k] = x \o y /\ y \in Seq(Nat)
        /\ end[k] = Len(sent[k]) /\ end[k] \in Nat
    BY <1>2, <1>3, <1>6, <2>1
  <2>3. end[k] <= end[m] /\ \A i \in 1..end[k] : sent[m][i] = sent[k][i]
    <3>1. k \in 0..m /\ m \in 0..m
      BY <1>2, <2>1
    <3>2. /\ Len(sent[k]) <= Len(sent[m])
          /\ \A i \in 1..Len(sent[k]) : sent[m][i] = sent[k][i]
      BY <1>1, <3>1, PartsStay DEF m
    <3>3. QED
      BY <1>6, <3>1, <3>2
  <2>4. end[m] \in Nat
    BY <1>2, <1>6
  <2> HIDE DEF x, y, end
  <2>5. Len(y) \in Nat
    BY <2>2, LenProperties
  <2>6. /\ Len(x \o y) = Len(x) + Len(y)
        /\ \A i \in 1..(Len(x) + Len(y)) : (x \o y)[i] = IF i <= Len(x) THEN x[i] ELSE y[i - Len(x)]
    BY <2>2, ConcatProperties
  <2>7. end[k] = end[k - 1] + Len(y)
    BY <2>2, <2>6
  <2>8. ASSUME NEW i \in 1..Len(y) PROVE B[end[k - 1] + i] = y[i]
    <3> DEFINE q == end[k - 1] + i
    <3>1. /\ q \in 1..(Len(x) + Len(y)) /\ ~(q <= Len(x)) /\ q - Len(x) = i
          /\ q \in 1..end[k] /\ q \in 1..end[m]
      BY <2>2, <2>3, <2>4, <2>5, <2>7
    <3> HIDE DEF q
    <3>2. sent[k][q] = y[q - Len(x)]
      BY <2>2, <2>6, <3>1
    <3>3. B[q] = sent[k][q]
      BY <1>8, <2>3, <3>1
    <3>4. QED
      BY <3>1, <3>2, <3>3 DEF q
  <2>9. QED
    BY <2>7, <2>8 DEF y
<1>10. end \in [0..m -> Nat] /\ end[0] = 0
  <2>1. 0 \in 0..m
    BY <1>2
  <2>2. QED
    BY <1>3, <1>6, <2>1, EmptySeq
<1> HIDE DEF end
<1>11. Laid(B, stream, end)
  BY <1>8, <1>9, <1>10 DEF Laid, m
<1>12. QED
  BY <1>11 DEF B

\* One segment among the bytes.
LEMMA LaidSegments ==
  ASSUME NEW B, NEW s, NEW end, Laid(B, s, end), NEW k \in 1..Len(s)
  PROVE  /\ Len(s) \in Nat /\ k - 1 \in 0..Len(s) /\ k \in 0..Len(s)
         /\ s[k] \in Rtcm!Segment /\ s[k] \in Seq(Nat) /\ Len(s[k]) \in Nat \ {0}
         /\ end[k - 1] \in Nat /\ end[k] \in Nat /\ end[k] = end[k - 1] + Len(s[k]) /\ end[k - 1] < end[k]
         /\ \A i \in 1..Len(s[k]) : B[end[k - 1] + i] = s[k][i]
<1>1. s \in Seq(Rtcm!Segment) /\ Len(s) \in Nat
  BY LenProperties DEF Laid
<1>2. s[k] \in Rtcm!Segment
  BY <1>1, ElementOfSeq
<1>3. s[k] \in Seq(Nat) /\ Len(s[k]) >= 1 /\ Len(s[k]) \in Nat
  BY <1>2, Segments, LenProperties
<1>4. k - 1 \in 0..Len(s) /\ k \in 0..Len(s)
  BY <1>1
<1>5. end[k - 1] \in Nat /\ end[k] \in Nat
  BY <1>4 DEF Laid
<1>6. end[k] = end[k - 1] + Len(s[k]) /\ \A i \in 1..Len(s[k]) : B[end[k - 1] + i] = s[k][i]
  BY DEF Laid
<1>7. end[k - 1] < end[k]
  BY <1>3, <1>5, <1>6
<1>8. QED
  BY <1>1, <1>2, <1>3, <1>4, <1>5, <1>6, <1>7

\* All of them, and the silence.
LEMMA LaidBytes ==
  ASSUME NEW B, NEW s, NEW end, Laid(B, s, end)
  PROVE  /\ Len(s) \in Nat /\ B \in Seq(Nat) /\ Len(B) \in Nat /\ \A i \in 1..Len(B) : B[i] \in Nat
         /\ \A k \in 0..Len(s) : end[k] \in Nat
         /\ end[0] = 0 /\ Len(B) = end[Len(s)] + MaxPayload + 3
         /\ \A i \in 1..(MaxPayload + 3) : B[end[Len(s)] + i] = 0
  BY LenProperties, ElementOfSeq DEF Laid

\* A later segment ends later.
LEMMA EndsGrow ==
  ASSUME NEW B, NEW s, NEW end, Laid(B, s, end), NEW i \in 0..Len(s), NEW k \in 0..Len(s), i < k
  PROVE  end[i] < end[k]
<1> DEFINE m == Len(s)
           T == {d \in Nat : i + 1 + d <= m => end[i] < end[i + 1 + d]}
<1>1. m \in Nat /\ i \in 0..m /\ k \in 0..m /\ \A j \in 0..m : end[j] \in Nat
  BY LaidBytes
<1>2. \A j \in 1..m : end[j - 1] < end[j]
  BY LaidSegments
<1> HIDE DEF m
<1>3. 0 \in T
  <2>1. SUFFICES ASSUME i + 1 <= m PROVE end[i] < end[i + 1]
    BY <1>1
  <2>2. i + 1 \in 1..m /\ (i + 1) - 1 = i
    BY <1>1, <2>1
  <2>3. QED
    BY <1>2, <2>2
<1>4. ASSUME NEW d \in T PROVE d + 1 \in T
  <2> DEFINE j == i + 1 + d
  <2>1. SUFFICES ASSUME j + 1 <= m PROVE end[i] < end[j + 1]
    BY <1>1
  <2>2. j \in 0..m /\ j + 1 \in 1..m /\ (j + 1) - 1 = j /\ j + 1 \in 0..m
    BY <1>1, <2>1
  <2>3. end[i] < end[j]
    BY <2>2
  <2> HIDE DEF j
  <2>4. end[j] < end[j + 1]
    BY <1>2, <2>2
  <2>5. QED
    BY <1>1, <2>2, <2>3, <2>4
<1>5. T = Nat
  <2> HIDE DEF T
  <2>1. T \in SUBSET Nat
    BY DEF T
  <2>2. QED
    BY <1>3, <1>4, <2>1, NaturalsByStep
<1>6. k - i - 1 \in Nat /\ i + 1 + (k - i - 1) = k /\ k <= m
  BY <1>1
<1>7. k - i - 1 \in T
  BY <1>5, <1>6
<1>8. i + 1 + (k - i - 1) <= m => end[i] < end[i + 1 + (k - i - 1)]
  BY <1>7
<1>9. QED
  BY <1>6, <1>8

\* A byte stands in a segment or in the silence after them.
LEMMA SegmentOfByte ==
  ASSUME NEW B, NEW s, NEW end, Laid(B, s, end), NEW q \in 1..Len(B)
  PROVE  B[q] = 0 \/ \E k \in 1..Len(s) : end[k - 1] < q /\ q <= end[k]
<1> DEFINE m == Len(s)
           T == {k \in 0..m : q <= end[k]}
<1>1. /\ m \in Nat /\ Len(B) \in Nat /\ \A k \in 0..m : end[k] \in Nat
      /\ end[0] = 0 /\ Len(B) = end[m] + MaxPayload + 3 /\ MaxPayload \in Nat
      /\ \A i \in 1..(MaxPayload + 3) : B[end[m] + i] = 0
  BY LaidBytes, StreamSizes
<1> HIDE DEF m
<1>2. CASE T = {}
  <2>1. end[m] \in Nat /\ q > end[m]
    BY <1>1, <1>2
  <2>2. q - end[m] \in 1..(MaxPayload + 3) /\ end[m] + (q - end[m]) = q
    BY <1>1, <2>1
  <2>3. B[end[m] + (q - end[m])] = 0
    BY <1>1, <2>2
  <2>4. QED
    BY <2>2, <2>3
<1>3. CASE T # {}
  <2>1. PICK k \in T : \A j \in T : k <= j
    <3> HIDE DEF T
    <3>1. T \in SUBSET Nat
      BY <1>1 DEF T
    <3>2. QED
      BY <1>3, <3>1, LeastNatural
  <2>2. k \in 0..m /\ q <= end[k]
    OBVIOUS
  <2>3. k # 0
    BY <1>1, <2>2
  <2>4. k \in 1..m /\ k - 1 \in 0..m /\ k - 1 < k /\ ~(k <= k - 1)
    BY <1>1, <2>2, <2>3
  <2>5. k - 1 \notin T
    BY <2>1, <2>4
  <2>6. ~(q <= end[k - 1])
    BY <2>4, <2>5
  <2>7. end[k - 1] < q
    BY <1>1, <2>4, <2>6
  <2>8. QED
    BY <2>2, <2>4, <2>7 DEF m
<1>4. QED
  BY <1>2, <1>3

(* The parser stands before byte p + 1, behind segment j: at the beginning  *)
(* of the next one or within it, but never within a frame.                  *)
At(B, s, end, p, j) ==
  /\ j \in 0..Len(s) /\ p \in end[j]..Len(B)
  /\ j < Len(s) => p = end[j] \/ (p < end[j + 1] /\ ~Whole(s[j + 1]))

(* The payloads of the frames, segment by segment. *)
ToldBy(s, told) ==
  /\ told \in [0..Len(s) -> Seq(Seq(Nat))] /\ told[0] = <<>>
  /\ \A k \in 1..Len(s) :
       told[k] = IF s[k] \in Rtcm!Frame THEN Append(told[k - 1], SubSeq(s[k], 3, Len(s[k]) - 1)) ELSE told[k - 1]

\* A byte that begins no frame is passed.
LEMMA PassByte ==
  ASSUME NEW B, NEW s, NEW end, Laid(B, s, end), NEW told, ToldBy(s, told),
         NEW p, NEW j, At(B, s, end, p, j), p < Len(B),
         B[p + 1] # Rtcm!Preamble \/ j = Len(s) \/ ~Whole(s[j + 1])
  PROVE  \E i : At(B, s, end, p + 1, i) /\ told[i] = told[j]
<1> DEFINE m == Len(s)
<1>1. /\ m \in Nat /\ Len(B) \in Nat /\ j \in 0..m /\ p \in end[j]..Len(B) /\ end[j] \in Nat
      /\ j < m => p = end[j] \/ (p < end[j + 1] /\ ~Whole(s[j + 1]))
  BY LaidBytes DEF At
<1>2. p \in Nat /\ p + 1 \in end[j]..Len(B)
  BY <1>1
<1>3. CASE j = m
  BY <1>1, <1>2, <1>3 DEF At
<1>4. CASE j < m
  <2>1. j + 1 \in 1..m /\ (j + 1) - 1 = j
    BY <1>1, <1>4
  <2>2. /\ j + 1 \in 0..m /\ s[j + 1] \in Rtcm!Segment /\ Len(s[j + 1]) \in Nat \ {0}
        /\ end[j + 1] \in Nat /\ end[j] < end[j + 1]
        /\ \A i \in 1..Len(s[j + 1]) : B[end[j] + i] = s[j + 1][i]
    BY <2>1, LaidSegments
  <2>3. ~Whole(s[j + 1])
    <3>1. SUFFICES ASSUME Whole(s[j + 1]) PROVE FALSE
      OBVIOUS
    <3>2. p = end[j] /\ B[p + 1] # Rtcm!Preamble
      BY <1>1, <1>4, <3>1
    <3>3. B[end[j] + 1] = s[j + 1][1]
      BY <2>2
    <3>4. QED
      BY <3>1, <3>2, <3>3 DEF Whole
  <2>4. p < end[j + 1]
    BY <1>1, <1>4, <2>2
  <2>5. CASE p + 1 < end[j + 1]
    BY <1>1, <1>2, <1>4, <2>3, <2>5 DEF At
  <2>6. CASE p + 1 = end[j + 1]
    <3>1. s[j + 1] \notin Rtcm!Frame
      BY <2>2, <2>3, Segments
    <3>2. told[j + 1] = told[j]
      BY <2>1, <3>1 DEF ToldBy
    <3>3. At(B, s, end, p + 1, j + 1)
      BY <1>1, <1>2, <2>2, <2>6 DEF At
    <3>4. QED
      BY <3>2, <3>3
  <2>7. QED
    BY <1>2, <2>2, <2>4, <2>5, <2>6
<1>5. QED
  BY <1>1, <1>3, <1>4

\* Bytes without a preamble are passed.
LEMMA PassBytes ==
  ASSUME NEW B, NEW s, NEW end, Laid(B, s, end), NEW told, ToldBy(s, told),
         NEW p, NEW j, At(B, s, end, p, j), NEW q \in p..Len(B),
         \A i \in (p + 1)..q : B[i] # Rtcm!Preamble
  PROVE  \E i : At(B, s, end, q, i) /\ told[i] = told[j]
<1> DEFINE Passed(r) == \E i : At(B, s, end, r, i) /\ told[i] = told[j]
           T == {d \in Nat : p + d <= q => Passed(p + d)}
<1>1. p \in Nat /\ Len(B) \in Nat /\ q \in p..Len(B)
  <2>1. end[j] \in Nat /\ p \in end[j]..Len(B) /\ Len(B) \in Nat
    BY LaidBytes DEF At
  <2>2. QED
    BY <2>1
<1> HIDE DEF Passed
<1>2. 0 \in T
  <2>1. Passed(p) /\ p + 0 = p
    BY <1>1 DEF Passed
  <2>2. QED
    BY <2>1
<1>3. ASSUME NEW d \in T PROVE d + 1 \in T
  <2> DEFINE r == p + d
  <2>1. SUFFICES ASSUME r + 1 <= q PROVE Passed(r + 1)
    <3>1. r + 1 = p + (d + 1)
      BY <1>1
    <3>2. QED
      BY <3>1
  <2>2. r < Len(B) /\ r + 1 \in (p + 1)..q /\ r <= q
    BY <1>1, <2>1
  <2>3. Passed(r)
    BY <2>2
  <2> HIDE DEF r
  <2>4. PICK i : At(B, s, end, r, i) /\ told[i] = told[j]
    BY <2>3 DEF Passed
  <2>5. B[r + 1] # Rtcm!Preamble
    BY <2>2
  <2>6. PICK h : At(B, s, end, r + 1, h) /\ told[h] = told[i]
    BY <2>2, <2>4, <2>5, PassByte
  <2>7. QED
    BY <2>4, <2>6 DEF Passed
<1>4. T = Nat
  <2> HIDE DEF T
  <2>1. T \in SUBSET Nat
    BY DEF T
  <2>2. QED
    BY <1>2, <1>3, <2>1, NaturalsByStep
<1>5. q - p \in Nat /\ p + (q - p) = q
  BY <1>1
<1>6. q - p \in T
  BY <1>4, <1>5
<1>7. Passed(q)
  BY <1>1, <1>5, <1>6
<1>8. QED
  BY <1>7 DEF Passed

\* The bytes of B behind p up to e.
Between(B, p, e) == SubSeq(B, p + 1, e)

\* Its length and its bytes.
LEMMA Piece ==
  ASSUME NEW B \in Seq(Nat), NEW e \in 0..Len(B), NEW p \in 0..e
  PROVE  /\ Between(B, p, e) \in Seq(Nat) /\ Len(Between(B, p, e)) = e - p
         /\ \A i \in 1..(e - p) : Between(B, p, e)[i] = B[p + i]
<1>1. Len(B) \in Nat /\ e \in Nat /\ p \in Nat /\ p <= e
  BY LenProperties
<1>2. CASE p = e
  <2>1. e < p + 1 /\ e \in Int /\ p + 1 \in Int
    BY <1>1, <1>2
  <2>2. SubSeq(B, p + 1, e) = <<>>
    BY <2>1, SubSeqEmpty
  <2>3. QED
    BY <1>1, <1>2, <2>2, EmptySeq DEF Between
<1>3. CASE p < e
  <2> DEFINE x == p + 1
             t == SubSeq(B, x, e)
  <2>1. x \in Int /\ e \in Int /\ x <= e /\ \A i \in x..e : i \in 1..Len(B)
    BY <1>1, <1>3
  <2> HIDE DEF x
  <2>2. t \in Seq(Nat) /\ Len(t) = (IF x <= e THEN e - x + 1 ELSE 0) /\ \A i \in 1..(e - x + 1) : t[i] = B[x + i - 1]
    <3>1. \A i \in x..e : B[i] \in Nat
      BY <2>1, ElementOfSeq
    <3>2. t \in Seq(Nat)
      BY <2>1, <3>1, SubSeqProperties
    <3>3. Len(t) = IF x <= e THEN e - x + 1 ELSE 0
      BY <2>1, <3>1, SubSeqProperties
    <3>4. \A i \in 1..(e - x + 1) : t[i] = B[x + i - 1]
      BY <2>1, <3>1, SubSeqProperties
    <3>5. QED
      BY <3>2, <3>3, <3>4
  <2> HIDE DEF t
  <2>3. e - x + 1 = e - p /\ \A i \in 1..(e - p) : x + i - 1 = p + i
    BY <1>1 DEF x
  <2>4. t \in Seq(Nat) /\ Len(t) = e - p /\ \A i \in 1..(e - p) : t[i] = B[p + i]
    BY <2>1, <2>2, <2>3
  <2>5. QED
    BY <2>4 DEF t, x, Between
<1>4. QED
  BY <1>1, <1>2, <1>3

\* They say which one it is.
LEMMA PieceIs ==
  ASSUME NEW B \in Seq(Nat), NEW e \in 0..Len(B), NEW p \in 0..e,
         NEW t \in Seq(Nat), Len(t) = e - p, \A i \in 1..(e - p) : t[i] = B[p + i]
  PROVE  Between(B, p, e) = t
<1> DEFINE u == Between(B, p, e)
<1>1. u \in Seq(Nat) /\ Len(u) = e - p /\ \A i \in 1..(e - p) : u[i] = B[p + i]
  BY Piece
<1> HIDE DEF u
<1>2. u = t
  BY <1>1, SeqEqual
<1>3. QED
  BY <1>2 DEF u

\* Two pieces that meet are one.
LEMMA PiecesJoin ==
  ASSUME NEW B \in Seq(Nat), NEW y \in 0..Len(B), NEW e \in 0..y, NEW p \in 0..e
  PROVE  Between(B, p, e) \o Between(B, e, y) = Between(B, p, y)
<1> DEFINE u == Between(B, p, e)
           v == Between(B, e, y)
<1>1. Len(B) \in Nat /\ e \in 0..Len(B) /\ p \in 0..y
  BY LenProperties
<1>2. u \in Seq(Nat) /\ Len(u) = e - p /\ \A i \in 1..(e - p) : u[i] = B[p + i]
  BY <1>1, Piece
<1>3. v \in Seq(Nat) /\ Len(v) = y - e /\ \A i \in 1..(y - e) : v[i] = B[e + i]
  BY Piece
<1> HIDE DEF u, v
<1>4. /\ u \o v \in Seq(Nat) /\ Len(u \o v) = Len(u) + Len(v)
      /\ \A i \in 1..(Len(u) + Len(v)) : (u \o v)[i] = IF i <= Len(u) THEN u[i] ELSE v[i - Len(u)]
  BY <1>2, <1>3, ConcatProperties
<1>5. Len(u \o v) = y - p
  BY <1>1, <1>2, <1>3, <1>4
<1>6. ASSUME NEW i \in 1..(y - p) PROVE (u \o v)[i] = B[p + i]
  <2>1. CASE i <= e - p
    <3>1. i \in 1..(Len(u) + Len(v)) /\ i <= Len(u) /\ i \in 1..(e - p)
      BY <1>1, <1>2, <1>3, <2>1
    <3>2. QED
      BY <1>2, <1>4, <3>1
  <2>2. CASE i > e - p
    <3>1. /\ i \in 1..(Len(u) + Len(v)) /\ ~(i <= Len(u)) /\ i - Len(u) \in 1..(y - e)
          /\ e + (i - Len(u)) = p + i
      BY <1>1, <1>2, <1>3, <2>2
    <3>2. (u \o v)[i] = v[i - Len(u)]
      BY <1>4, <3>1
    <3>3. QED
      BY <1>3, <3>1, <3>2
  <2>3. i <= e - p \/ i > e - p
    OBVIOUS
  <2>4. QED
    BY <2>1, <2>2, <2>3
<1>7. Between(B, p, y) = u \o v
  BY <1>1, <1>4, <1>5, <1>6, PieceIs
<1>8. QED
  BY <1>7 DEF u, v

\* A piece of a segment is that piece of the stream.
LEMMA PieceOfSegment ==
  ASSUME NEW B, NEW s, NEW end, Laid(B, s, end), NEW k \in 1..Len(s), NEW b \in 0..Len(s[k]), NEW a \in 0..b
  PROVE  Between(B, end[k - 1] + a, end[k - 1] + b) = Between(s[k], a, b) /\ end[k] <= Len(B)
<1> DEFINE e == end[k - 1]
           t == s[k]
<1>1. /\ t \in Seq(Nat) /\ Len(t) \in Nat /\ e \in Nat /\ end[k] = e + Len(t) /\ end[k] \in Nat
      /\ \A i \in 1..Len(t) : B[e + i] = t[i]
      /\ Len(s) \in Nat /\ k \in 0..Len(s)
  BY LaidSegments
<1>2. /\ B \in Seq(Nat) /\ Len(B) \in Nat /\ Len(B) = end[Len(s)] + MaxPayload + 3
      /\ end[Len(s)] \in Nat /\ MaxPayload \in Nat
  BY LaidBytes, StreamSizes
<1>3. end[k] <= end[Len(s)]
  <2>1. k = Len(s) \/ k < Len(s)
    BY <1>1
  <2>2. k < Len(s) => end[k] < end[Len(s)]
    BY <1>1, EndsGrow
  <2>3. QED
    BY <1>1, <1>2, <2>1, <2>2
<1>4. end[k] <= Len(B)
  BY <1>1, <1>2, <1>3
<1>5. b \in 0..Len(t) /\ a \in 0..b
  OBVIOUS
<1> HIDE DEF e, t
<1>6. e + b \in 0..Len(B) /\ e + a \in 0..(e + b) /\ (e + b) - (e + a) = b - a
  BY <1>1, <1>2, <1>4, <1>5
<1> DEFINE u == Between(t, a, b)
<1>7. u \in Seq(Nat) /\ Len(u) = b - a /\ \A i \in 1..(b - a) : u[i] = t[a + i]
  BY <1>1, <1>5, Piece
<1> HIDE DEF u
<1>8. ASSUME NEW i \in 1..(b - a) PROVE u[i] = B[(e + a) + i]
  <2>1. a + i \in 1..Len(t) /\ e + (a + i) = (e + a) + i
    BY <1>1, <1>5
  <2>2. B[e + (a + i)] = t[a + i]
    BY <1>1, <2>1
  <2>3. QED
    BY <1>7, <2>1, <2>2
<1> DEFINE x == e + a
           y == e + b
<1>9. x \in 0..y /\ y \in 0..Len(B) /\ Len(u) = y - x /\ \A i \in 1..(y - x) : u[i] = B[x + i]
  BY <1>6, <1>7, <1>8
<1> HIDE DEF x, y
<1>10. Between(B, x, y) = u
  BY <1>2, <1>7, <1>9, PieceIs
<1>11. QED
  BY <1>4, <1>10 DEF x, y, u, e, t

\* So is what a segment begins with.
LEMMA FrontOfSegment ==
  ASSUME NEW B, NEW s, NEW end, Laid(B, s, end), NEW k \in 1..Len(s), NEW b \in 0..Len(s[k])
  PROVE  Between(B, end[k - 1], end[k - 1] + b) = Between(s[k], 0, b) /\ end[k] <= Len(B)
<1> DEFINE e == end[k - 1]
<1>1. e \in Nat /\ Len(s[k]) \in Nat
  BY LaidSegments
<1>2. 0 \in 0..b
  BY <1>1
<1>3. Between(B, e + 0, e + b) = Between(s[k], 0, b) /\ end[k] <= Len(B)
  BY <1>2, PieceOfSegment
<1> HIDE DEF e
<1>4. e + 0 = e
  BY <1>1
<1>5. Between(B, e, e + b) = Between(s[k], 0, b)
  BY <1>3, <1>4
<1>6. QED
  BY <1>3, <1>5 DEF e

(* What the parser asks of the bytes behind byte p to take a frame there.   *)
Candidate(B, p, n) ==
  B[p + 1] = Rtcm!Preamble /\ B[p + 2] = n /\ n \in 1..MaxPayload /\ p + n + 3 <= Len(B)
Accepted(B, p, n) == Candidate(B, p, n) /\ B[p + n + 3] = Rtcm!Crc24q(Between(B, p, p + n + 2))

\* A frame of the stream is accepted.
LEMMA FrameIsSeen ==
  ASSUME NEW B, NEW s, NEW end, Laid(B, s, end), NEW j \in 0..(Len(s) - 1), Whole(s[j + 1])
  PROVE  Accepted(B, end[j], s[j + 1][2]) /\ end[j + 1] = end[j] + s[j + 1][2] + 3
<1> DEFINE t == s[j + 1]
           n == t[2]
           e == end[j]
<1>1. j + 1 \in 1..Len(s) /\ (j + 1) - 1 = j
  BY LaidBytes
<1>2. /\ e \in Nat /\ end[j + 1] = e + Len(t) /\ Len(t) \in Nat
      /\ \A i \in 1..Len(t) : B[e + i] = t[i]
  <2> DEFINE k == j + 1
  <2>1. /\ Len(s[k]) \in Nat /\ end[k - 1] \in Nat /\ end[k] = end[k - 1] + Len(s[k])
        /\ \A i \in 1..Len(s[k]) : B[end[k - 1] + i] = s[k][i]
    <3>1. k \in 1..Len(s)
      BY <1>1
    <3> HIDE DEF k
    <3>2. QED
      BY <3>1, LaidSegments
  <2>2. QED
    BY <1>1, <2>1
<1>3. /\ t[1] = Rtcm!Preamble /\ n \in 1..MaxPayload /\ Len(t) = n + 3
      /\ t[Len(t)] = Rtcm!Crc24q(Between(t, 0, Len(t) - 1))
  BY DEF Whole, Between
<1> DEFINE k == j + 1
<1>4. ASSUME NEW b \in 0..Len(t) PROVE Between(B, e, e + b) = Between(t, 0, b) /\ end[k] <= Len(B)
  <2>1. k \in 1..Len(s) /\ k - 1 = j /\ b \in 0..Len(s[k]) /\ s[k] = t
    BY <1>1
  <2> HIDE DEF k
  <2>2. Between(B, end[k - 1], end[k - 1] + b) = Between(s[k], 0, b) /\ end[k] <= Len(B)
    BY <2>1, FrontOfSegment
  <2>3. QED
    BY <2>1, <2>2
<1> HIDE DEF t, n, e
<1>5. /\ n \in Nat /\ 1 \in 1..Len(t) /\ 2 \in 1..Len(t) /\ Len(t) \in 1..Len(t)
      /\ Len(t) - 1 = n + 2 /\ n + 2 \in 0..Len(t)
  BY <1>3, StreamSizes
<1>6. B[e + 1] = Rtcm!Preamble /\ B[e + 2] = n /\ B[e + (n + 3)] = t[Len(t)]
  BY <1>2, <1>3, <1>5 DEF n
<1>7. Between(B, e, e + (n + 2)) = Between(t, 0, n + 2) /\ end[k] <= Len(B)
  BY <1>4, <1>5
<1>8. e + (n + 3) = e + n + 3 /\ e + (n + 2) = e + n + 2
  BY <1>2, <1>5
<1>9. Accepted(B, e, n)
  <2>1. e + n + 3 <= Len(B)
    BY <1>2, <1>3, <1>7, <1>8
  <2>2. B[e + n + 3] = Rtcm!Crc24q(Between(t, 0, n + 2))
    BY <1>3, <1>5, <1>6, <1>8
  <2>3. QED
    BY <1>3, <1>6, <1>7, <1>8, <2>1, <2>2 DEF Accepted, Candidate
<1>10. QED
  BY <1>2, <1>3, <1>8, <1>9 DEF t, n, e

\* What is accepted is a frame of the stream.
LEMMA AcceptedIsFrame ==
  ASSUME NEW B, NEW s, NEW end, Laid(B, s, end), NEW p, NEW j, At(B, s, end, p, j), NEW n, Accepted(B, p, n)
  PROVE  j < Len(s) /\ p = end[j] /\ Whole(s[j + 1]) /\ s[j + 1][2] = n
<1> DEFINE q == p + n + 3
<1>1. /\ Len(s) \in Nat /\ B \in Seq(Nat) /\ Len(B) \in Nat /\ \A i \in 1..Len(B) : B[i] \in Nat
      /\ \A k \in 0..Len(s) : end[k] \in Nat
  BY LaidBytes
<1>2. /\ j \in 0..Len(s) /\ p \in end[j]..Len(B) /\ p \in Nat
      /\ j < Len(s) => p = end[j] \/ (p < end[j + 1] /\ ~Whole(s[j + 1]))
  BY <1>1 DEF At
<1>3. /\ n \in Nat /\ q \in 1..Len(B) /\ p + n + 2 = q - 1 /\ p + 1 <= q - 1
      /\ B[q] = Rtcm!Crc24q(Between(B, p, p + n + 2))
  BY <1>1, <1>2, StreamSizes DEF Accepted, Candidate
<1>4. B[q] >= Rtcm!FirstCrc /\ B[q] \in Nat
  <2>1. p + n + 2 \in 0..Len(B) /\ p \in 0..(p + n + 2)
    BY <1>2, <1>3
  <2>2. Between(B, p, p + n + 2) \in Seq(Nat)
    BY <1>1, <2>1, Piece
  <2>3. QED
    BY <1>3, <2>2, CrcIsLarge
<1>5. PICK k \in 1..Len(s) : end[k - 1] < q /\ q <= end[k]
  <2>1. B[q] # 0
    BY <1>4 DEF Rtcm!FirstCrc
  <2>2. QED
    BY <1>3, <2>1, SegmentOfByte
<1> DEFINE t == s[k]
           e == end[k - 1]
<1>6. /\ t \in Rtcm!Segment /\ t \in Seq(Nat) /\ Len(t) \in Nat /\ e \in Nat /\ end[k] = e + Len(t)
      /\ \A i \in 1..Len(t) : B[e + i] = t[i]
      /\ k - 1 \in 0..Len(s) /\ k \in 0..Len(s)
  BY LaidSegments
<1> HIDE DEF t, e, q
<1>7. q - e \in 1..Len(t) /\ e + (q - e) = q
  <2>1. e < q /\ q <= e + Len(t) /\ q \in Nat
    BY <1>1, <1>3, <1>5, <1>6 DEF e
  <2>2. QED
    BY <1>6, <2>1
<1>8. B[q] = t[q - e]
  BY <1>6, <1>7
<1>9. t[q - e] \notin Rtcm!Byte
  BY <1>4, <1>8, StreamSizes DEF Rtcm!FirstCrc
<1>10. Whole(t) /\ q - e = Len(t)
  <2>1. Whole(t)
    BY <1>6, <1>7, <1>9, Segments
  <2>2. q - e \notin 1..(Len(t) - 1)
    BY <1>9, <2>1 DEF Whole
  <2>3. QED
    BY <1>6, <1>7, <2>1, <2>2
<1>11. p <= e
  <2>1. CASE k - 1 < j
    <3>1. k = j \/ k < j
      BY <1>2, <1>5, <1>6, <2>1
    <3>2. k < j => end[k] < end[j]
      BY <1>2, <1>6, EndsGrow
    <3>3. end[k] <= end[j] /\ end[j] <= p /\ end[k] \in Nat /\ end[j] \in Nat
      BY <1>1, <1>2, <1>6, <3>1, <3>2
    <3>4. QED
      BY <1>2, <1>3, <1>5, <3>3
  <2>2. CASE k - 1 = j
    <3>1. j < Len(s) /\ j + 1 = k
      BY <1>1, <1>2, <1>5, <2>2
    <3>2. p = end[j]
      BY <1>2, <1>10, <3>1 DEF t
    <3>3. QED
      BY <1>6, <2>2, <3>2 DEF e
  <2>3. CASE k - 1 > j
    <3>1. j < Len(s) /\ j + 1 \in 0..Len(s) /\ j + 1 <= k - 1
      BY <1>1, <1>2, <1>6, <2>3
    <3>2. end[j] < end[j + 1]
      BY <1>2, <3>1, EndsGrow
    <3>3. end[j + 1] <= e
      <4>1. j + 1 < k - 1 => end[j + 1] < end[k - 1]
        BY <1>6, <3>1, EndsGrow
      <4>2. j + 1 = k - 1 \/ j + 1 < k - 1
        BY <1>2, <1>6, <3>1
      <4>3. QED
        BY <1>1, <1>6, <3>1, <4>1, <4>2 DEF e
    <3>4. end[j] \in Nat /\ end[j + 1] \in Nat
      BY <1>1, <1>2, <3>1
    <3>5. QED
      BY <1>2, <1>6, <3>1, <3>2, <3>3, <3>4
  <2>4. QED
    BY <1>2, <1>6, <2>1, <2>2, <2>3
<1>12. Len(t) \in Nat \ {0} /\ t[Len(t)] = Rtcm!Crc24q(Between(t, 0, Len(t) - 1)) /\ Len(t) = t[2] + 3 /\ t[2] \in Nat
  <2>1. t[Len(t)] = Rtcm!Crc24q(Between(t, 0, Len(t) - 1)) /\ Len(t) = t[2] + 3 /\ t[2] \in 1..MaxPayload
    BY <1>10 DEF Whole, Between
  <2>2. \A i \in 1..MaxPayload : i \in Nat /\ i + 3 # 0
    BY StreamSizes
  <2>3. t[2] \in Nat /\ t[2] + 3 # 0
    BY <2>1, <2>2
  <2>4. Len(t) \in Nat \ {0}
    BY <1>6, <2>1, <2>3
  <2>5. QED
    BY <2>1, <2>3, <2>4
<1>13. Between(B, e, q - 1) = Between(t, 0, Len(t) - 1)
  <2> DEFINE b == Len(t) - 1
  <2>1. b \in 0..Len(t) /\ e + b = q - 1
    <3> DEFINE l == Len(t)
    <3>1. l \in Nat \ {0} /\ q - e = l /\ q \in Nat /\ e \in Nat
      BY <1>3, <1>6, <1>10, <1>12
    <3>2. b = l - 1
      OBVIOUS
    <3> HIDE DEF l, b
    <3>3. b \in 0..l /\ e + b = q - 1
      BY <3>1, <3>2
    <3>4. QED
      BY <3>3 DEF l
  <2> HIDE DEF b
  <2>2. b \in 0..Len(s[k])
    BY <2>1 DEF t
  <2>3. Between(B, end[k - 1], end[k - 1] + b) = Between(s[k], 0, b)
    BY <2>2, FrontOfSegment
  <2>4. Between(B, e, q - 1) = Between(t, 0, b)
    BY <2>1, <2>3 DEF e, t
  <2>5. QED
    BY <2>4 DEF b
<1>14. p = e
  <2>1. SUFFICES ASSUME p < e PROVE FALSE
    BY <1>2, <1>6, <1>11
  <2> DEFINE u == Between(B, p, e)
             v == Between(B, e, q - 1)
  <2>2. e \in 0..(q - 1) /\ q - 1 \in 0..Len(B) /\ e \in 0..Len(B) /\ p \in 0..e
    <3>1. q \in Nat /\ q <= Len(B) /\ e < q
      BY <1>1, <1>3, <1>5 DEF e
    <3>2. QED
      BY <1>1, <1>2, <1>6, <2>1, <3>1
  <2>3. u \in Seq(Nat) /\ Len(u) = e - p /\ v \in Seq(Nat)
    BY <1>1, <2>2, Piece
  <2>4. u \o v = Between(B, p, q - 1)
    BY <1>1, <2>2, PiecesJoin
  <2> HIDE DEF u, v
  <2>5. u # <<>>
    BY <1>2, <1>6, <2>1, <2>3, EmptySeq
  <2>6. Rtcm!Crc24q(u \o v) # Rtcm!Crc24q(v)
    BY <2>3, <2>5, CrcTellsMore
  <2>7. B[q] = Rtcm!Crc24q(u \o v)
    BY <1>3, <2>4 DEF q
  <2>8. B[q] = Rtcm!Crc24q(v)
    BY <1>8, <1>10, <1>12, <1>13 DEF v
  <2>9. QED
    BY <2>6, <2>7, <2>8
<1>15. k - 1 = j
  <2>1. end[j] <= p /\ end[j] \in Nat
    BY <1>1, <1>2
  <2>2. ~(k - 1 < j)
    <3>1. k - 1 < j => end[k - 1] < end[j]
      BY <1>2, <1>6, EndsGrow
    <3>2. QED
      BY <1>6, <1>14, <2>1, <3>1 DEF e
  <2>3. ~(j < k - 1)
    <3>1. SUFFICES ASSUME j < k - 1 PROVE FALSE
      OBVIOUS
    <3>2. j < Len(s) /\ j + 1 \in 0..Len(s) /\ (j + 1 = k - 1 \/ j + 1 < k - 1)
      BY <1>1, <1>2, <1>6, <3>1
    <3>3. end[j] < end[k - 1] /\ (j + 1 < k - 1 => end[j + 1] < end[k - 1])
      BY <1>2, <1>6, <3>1, <3>2, EndsGrow
    <3>4. p = end[j] \/ p < end[j + 1]
      BY <1>2, <3>2
    <3>5. end[j + 1] \in Nat /\ end[k - 1] \in Nat
      BY <1>1, <1>6, <3>2
    <3>6. QED
      BY <1>2, <1>14, <2>1, <3>2, <3>3, <3>4, <3>5 DEF e
  <2>4. QED
    BY <1>2, <1>6, <2>2, <2>3
<1>16. j < Len(s) /\ j + 1 = k
  BY <1>1, <1>2, <1>5, <1>15
<1>17. n = t[2]
  <2>1. (p + n + 3) - e = t[2] + 3
    BY <1>10, <1>12 DEF q
  <2>2. QED
    <3> DEFINE w == t[2]
    <3>1. (p + n + 3) - e = w + 3 /\ w \in Nat
      BY <1>12, <2>1
    <3> HIDE DEF w
    <3>2. n = w
      BY <1>2, <1>3, <1>14, <3>1
    <3>3. QED
      BY <3>2 DEF w
<1>18. QED
  BY <1>10, <1>14, <1>15, <1>16, <1>17 DEF t, e

\* A piece of a piece is a piece.
LEMMA PieceOfPiece ==
  ASSUME NEW B \in Seq(Nat), NEW e \in 0..Len(B), NEW p \in 0..e, NEW b \in 0..(e - p), NEW a \in 0..b
  PROVE  Between(Between(B, p, e), a, b) = Between(B, p + a, p + b)
<1> DEFINE t == Between(B, p, e)
           u == Between(t, a, b)
           x == p + a
           y == p + b
<1>1. Len(B) \in Nat
  BY LenProperties
<1>2. t \in Seq(Nat) /\ Len(t) = e - p /\ \A i \in 1..(e - p) : t[i] = B[p + i]
  BY Piece
<1>3. y \in 0..Len(B) /\ x \in 0..y /\ y - x = b - a
  BY <1>1
<1> HIDE DEF t
<1>4. b \in 0..Len(t) /\ a \in 0..b
  BY <1>2
<1>5. u \in Seq(Nat) /\ Len(u) = b - a /\ \A i \in 1..(b - a) : u[i] = t[a + i]
  BY <1>2, <1>4, Piece
<1> HIDE DEF u
<1>6. ASSUME NEW i \in 1..(b - a) PROVE u[i] = B[x + i]
  <2>1. a + i \in 1..(e - p) /\ p + (a + i) = x + i
    BY <1>1
  <2>2. t[a + i] = B[p + (a + i)]
    BY <1>2, <2>1
  <2>3. QED
    BY <1>5, <2>1, <2>2
<1> HIDE DEF x, y
<1>7. Len(u) = y - x /\ \A i \in 1..(y - x) : u[i] = B[x + i]
  BY <1>3, <1>5, <1>6
<1>8. Between(B, x, y) = u
  BY <1>3, <1>5, <1>7, PieceIs
<1>9. QED
  BY <1>8 DEF t, u, x, y

\* The first byte of a kind.
LEMMA FirstIs ==
  ASSUME NEW buf \in Seq(Nat), NEW kind, NEW i, i = Rtcm!First(buf, kind)
  PROVE  \/ i = 0 /\ \A k \in 1..Len(buf) : buf[k] \notin kind
         \/ i \in 1..Len(buf) /\ buf[i] \in kind /\ \A k \in 1..(i - 1) : buf[k] \notin kind
<1> DEFINE I == {k \in 1..Len(buf) : buf[k] \in kind}
           x == CHOOSE x \in I : \A y \in I : x <= y
<1>1. i = IF I # {} THEN x ELSE 0
  BY DEF Rtcm!First, Rtcm!SelectInSeq, Rtcm!Min
<1>2. Len(buf) \in Nat /\ I \in SUBSET Nat
  BY LenProperties
<1>3. CASE I = {}
  BY <1>1, <1>3
<1>4. CASE I # {}
  <2>1. x \in I /\ \A y \in I : x <= y
    <3> HIDE DEF I
    <3>1. \E k \in I : \A y \in I : k <= y
      BY <1>2, <1>4, LeastNatural
    <3>2. QED
      BY <3>1
  <2>2. i = x
    BY <1>1, <1>4
  <2> HIDE DEF x
  <2>3. i \in 1..Len(buf) /\ buf[i] \in kind
    BY <2>1, <2>2
  <2>4. \A k \in 1..(i - 1) : k \in 1..Len(buf) /\ ~(i <= k)
    BY <1>2, <2>3
  <2>5. QED
    BY <2>1, <2>2, <2>3, <2>4
<1>5. QED
  BY <1>3, <1>4

\* A frame is passed and told of.
LEMMA FrameTaken ==
  ASSUME NEW B, NEW s, NEW end, Laid(B, s, end), NEW told, ToldBy(s, told),
         NEW p, NEW j, At(B, s, end, p, j), NEW n, Accepted(B, p, n)
  PROVE  /\ At(B, s, end, p + n + 3, j + 1)
         /\ told[j + 1] = IF n > 1 THEN Append(told[j], Between(B, p + 2, p + n + 2)) ELSE told[j]
<1> DEFINE k == j + 1
<1>1. j < Len(s) /\ p = end[j] /\ Whole(s[k]) /\ s[k][2] = n
  BY AcceptedIsFrame
<1>2. j \in 0..Len(s) /\ Len(s) \in Nat /\ n \in 1..MaxPayload /\ MaxPayload \in Nat /\ n \in Nat
  BY LaidBytes, StreamSizes DEF At, Accepted, Candidate
<1>3. k \in 1..Len(s) /\ k - 1 = j
  BY <1>1, <1>2
<1> HIDE DEF k
<1>4. /\ k \in 0..Len(s) /\ s[k] \in Rtcm!Segment /\ end[j] \in Nat /\ end[k] \in Nat
      /\ end[k] = end[j] + Len(s[k]) /\ Len(s[k]) \in Nat
  BY <1>3, LaidSegments
<1>5. Len(s[k]) = n + 3
  BY <1>1 DEF Whole
<1>6. end[k] = p + n + 3 /\ p \in Nat
  BY <1>1, <1>2, <1>4, <1>5
<1>7. n + 2 \in 0..Len(s[k]) /\ 2 \in 0..(n + 2) /\ Len(s[k]) - 1 = n + 2
  BY <1>2, <1>5
<1>8. Between(B, end[k - 1] + 2, end[k - 1] + (n + 2)) = Between(s[k], 2, n + 2) /\ end[k] <= Len(B)
  BY <1>3, <1>7, PieceOfSegment
<1>9. Between(B, p + 2, p + n + 2) = Between(s[k], 2, n + 2)
  <2>1. end[k - 1] = p /\ p + (n + 2) = p + n + 2
    BY <1>1, <1>2, <1>3, <1>6
  <2>2. QED
    BY <1>8, <2>1
<1>10. SubSeq(s[k], 3, Len(s[k]) - 1) = Between(s[k], 2, n + 2)
  BY <1>7 DEF Between
<1>11. At(B, s, end, p + n + 3, k)
  <2>1. Len(B) \in Nat /\ end[k] \in end[k]..Len(B)
    BY <1>4, <1>8, LaidBytes
  <2>2. QED
    BY <1>4, <1>6, <2>1 DEF At
<1>12. s[k] \in Rtcm!Frame <=> n > 1
  BY <1>1, <1>4, Segments
<1>13. told[k] = IF s[k] \in Rtcm!Frame THEN Append(told[k - 1], SubSeq(s[k], 3, Len(s[k]) - 1)) ELSE told[k - 1]
  BY <1>3 DEF ToldBy
<1>14. told[k] = IF n > 1 THEN Append(told[j], Between(B, p + 2, p + n + 2)) ELSE told[j]
  BY <1>3, <1>9, <1>10, <1>12, <1>13
<1>15. QED
  BY <1>11, <1>14 DEF k

(* The stream, what of it was read and what was told before this chunk.     *)
Course(B, s, end, told, base, e) ==
  Laid(B, s, end) /\ ToldBy(s, told) /\ e \in 0..Len(B) /\ base \in Seq(Seq(Nat))

Parsing == [buf : Seq(Nat), out : Seq(Seq(Nat)), done : BOOLEAN]

(* The parser has the bytes behind p and told of every frame before them.   *)
Stands(B, s, end, told, base, e, z, p, j) ==
  /\ z \in Parsing /\ p \in 0..e /\ z.buf = Between(B, p, e)
  /\ At(B, s, end, p, j) /\ base \o z.out = told[j]

(* It waits before no preamble at all or before what may become a frame.    *)
Stuck(B, p, e) ==
  \/ \A i \in (p + 1)..e : B[i] # Rtcm!Preamble
  \/ /\ p < e /\ B[p + 1] = Rtcm!Preamble
     /\ e < p + 2 \/ (B[p + 2] \in 1..MaxPayload /\ e < p + B[p + 2] + 3)

\* What the parser has in its hands.
LEMMA Standing ==
  ASSUME NEW B, NEW s, NEW end, NEW told, NEW base, NEW e, Course(B, s, end, told, base, e),
         NEW z, NEW p, NEW j, Stands(B, s, end, told, base, e, z, p, j)
  PROVE  /\ B \in Seq(Nat) /\ Len(B) \in Nat /\ e \in 0..Len(B) /\ p \in 0..e /\ p \in 0..Len(B)
         /\ z.buf \in Seq(Nat) /\ Len(z.buf) = e - p
         /\ \A i \in 1..(e - p) : z.buf[i] = B[p + i]
         /\ Laid(B, s, end) /\ ToldBy(s, told) /\ At(B, s, end, p, j)
<1>1. B \in Seq(Nat) /\ Len(B) \in Nat
  BY LaidBytes DEF Course
<1>2. e \in 0..Len(B) /\ p \in 0..e
  BY DEF Course, Stands
<1>3. p \in 0..Len(B)
  BY <1>1, <1>2
<1>4. /\ Between(B, p, e) \in Seq(Nat) /\ Len(Between(B, p, e)) = e - p
      /\ \A i \in 1..(e - p) : Between(B, p, e)[i] = B[p + i]
  BY <1>1, <1>2, Piece
<1>5. z.buf = Between(B, p, e)
  BY DEF Stands
<1>6. QED
  BY <1>1, <1>2, <1>3, <1>4, <1>5 DEF Course, Stands

\* It drops the bytes up to q.
LEMMA DropStands ==
  ASSUME NEW B, NEW s, NEW end, NEW told, NEW base, NEW e, Course(B, s, end, told, base, e),
         NEW z, NEW p, NEW j, Stands(B, s, end, told, base, e, z, p, j),
         NEW q \in p..e, NEW i, At(B, s, end, q, i), NEW n, n = q - p
  PROVE  /\ Rtcm!Drop(z, n) \in Parsing /\ Rtcm!Drop(z, n).buf = Between(B, q, e)
         /\ Rtcm!Drop(z, n).out = z.out /\ Rtcm!Drop(z, n).done = z.done
         /\ told[i] = told[j] => Stands(B, s, end, told, base, e, Rtcm!Drop(z, n), q, i)
<1> DEFINE w == Rtcm!Drop(z, n)
           b == Rtcm!From(z.buf, n + 1)
<1>1. z \in Parsing /\ w = [z EXCEPT !.buf = b]
  BY DEF Stands, Rtcm!Drop
<1>2. /\ B \in Seq(Nat) /\ Len(B) \in Nat /\ e \in 0..Len(B) /\ p \in 0..e
      /\ Len(z.buf) = e - p /\ z.buf = Between(B, p, e)
  BY Standing DEF Stands
<1>3. n \in 0..(e - p) /\ e - p \in 0..(e - p) /\ p + n = q /\ p + (e - p) = e /\ q \in 0..e
  BY <1>2
<1>4. Between(Between(B, p, e), n, e - p) = Between(B, p + n, p + (e - p))
  BY <1>2, <1>3, PieceOfPiece
<1>5. b = Between(z.buf, n, e - p)
  BY <1>2 DEF Rtcm!From, Between
<1>6. b = Between(B, q, e)
  BY <1>2, <1>3, <1>4, <1>5
<1>7. b \in Seq(Nat)
  BY <1>2, <1>3, <1>6, Piece
<1> HIDE DEF w, b
<1>8. w \in Parsing /\ w.buf = b /\ w.out = z.out /\ w.done = z.done
  BY <1>1, <1>7 DEF Parsing
<1>9. told[i] = told[j] => Stands(B, s, end, told, base, e, w, q, i)
  BY <1>3, <1>6, <1>8 DEF Stands
<1>10. QED
  BY <1>6, <1>8, <1>9 DEF w

\* It waits where it stands.
LEMMA WaitStands ==
  ASSUME NEW B, NEW s, NEW end, NEW told, NEW base, NEW e,
         NEW z, NEW p, NEW j, Stands(B, s, end, told, base, e, z, p, j)
  PROVE  Stands(B, s, end, told, base, e, Rtcm!Wait(z), p, j) /\ Rtcm!Wait(z).done
<1>1. z \in Parsing
  BY DEF Stands
<1>2. /\ Rtcm!Wait(z) \in Parsing /\ Rtcm!Wait(z).buf = z.buf /\ Rtcm!Wait(z).out = z.out
      /\ Rtcm!Wait(z).done = TRUE
  BY <1>1 DEF Rtcm!Wait, Parsing
<1>3. QED
  BY <1>2 DEF Stands

(* What a pass leads to: it waits where it is stuck, or it has passed p.    *)
Moves(B, s, end, told, base, e, w, p) ==
  \E q, i : /\ Stands(B, s, end, told, base, e, w, q, i)
            /\ w.done => Stuck(B, q, e)
            /\ ~w.done => q > p

\* To drop bytes in which no frame begins is to move.
LEMMA DropMoves ==
  ASSUME NEW B, NEW s, NEW end, NEW told, NEW base, NEW e, Course(B, s, end, told, base, e),
         NEW z, NEW p, NEW j, Stands(B, s, end, told, base, e, z, p, j), ~z.done,
         NEW n, p + n \in (p + 1)..e, n \in Int, \E i : At(B, s, end, p + n, i) /\ told[i] = told[j]
  PROVE  Moves(B, s, end, told, base, e, Rtcm!Drop(z, n), p)
<1> DEFINE q == p + n
<1>1. PICK i : At(B, s, end, q, i) /\ told[i] = told[j]
  OBVIOUS
<1>2. e \in Nat /\ p \in Nat
  <2>1. Len(B) \in Nat /\ e \in 0..Len(B) /\ p \in 0..e
    BY Standing
  <2>2. QED
    BY <2>1
<1>3. q \in p..e /\ q > p /\ n = q - p
  BY <1>2
<1> HIDE DEF q
<1>4. Stands(B, s, end, told, base, e, Rtcm!Drop(z, n), q, i) /\ Rtcm!Drop(z, n).done = z.done
  BY <1>1, <1>3, DropStands
<1>5. QED
  BY <1>3, <1>4 DEF Moves

\* To wait where it is stuck is one, too.
LEMMA WaitMoves ==
  ASSUME NEW B, NEW s, NEW end, NEW told, NEW base, NEW e,
         NEW z, NEW p, NEW j, Stands(B, s, end, told, base, e, z, p, j), Stuck(B, p, e)
  PROVE  Moves(B, s, end, told, base, e, Rtcm!Wait(z), p)
  BY WaitStands DEF Moves

\* A line is passed, up to a preamble in it: no frame begins in what is dropped.
LEMMA TextPassMoves ==
  ASSUME NEW B, NEW s, NEW end, NEW told, NEW base, NEW e, Course(B, s, end, told, base, e),
         NEW z, NEW p, NEW j, Stands(B, s, end, told, base, e, z, p, j), ~z.done,
         p < e, B[p + 1] = Rtcm!Dollar
  PROVE  Moves(B, s, end, told, base, e, Rtcm!TextPass(z), p)
<1>1. /\ B \in Seq(Nat) /\ Len(B) \in Nat /\ e \in 0..Len(B) /\ p \in 0..e /\ p \in 0..Len(B)
      /\ z.buf \in Seq(Nat) /\ Len(z.buf) = e - p /\ \A k \in 1..(e - p) : z.buf[k] = B[p + k]
      /\ Laid(B, s, end) /\ ToldBy(s, told) /\ At(B, s, end, p, j)
  <2>1. Course(B, s, end, told, base, e) /\ Stands(B, s, end, told, base, e, z, p, j)
    OBVIOUS
  <2>2. Laid(B, s, end) /\ ToldBy(s, told) /\ At(B, s, end, p, j)
    BY <2>1, Standing
  <2>3. B \in Seq(Nat) /\ Len(B) \in Nat /\ e \in 0..Len(B) /\ p \in 0..e /\ p \in 0..Len(B)
    BY <2>1, Standing
  <2>4. z.buf \in Seq(Nat) /\ Len(z.buf) = e - p
    BY <2>1, Standing
  <2>5. \A k \in 1..(e - p) : z.buf[k] = B[p + k]
    BY <2>1, Standing
  <2>6. QED
    BY <2>2, <2>3, <2>4, <2>5
<1> DEFINE kind == {Rtcm!NewLine, Rtcm!Preamble}
           i == Rtcm!First(z.buf, kind)
           n == IF z.buf[i] = Rtcm!Preamble THEN i - 1 ELSE i
<1>2. Rtcm!TextPass(z) = IF i = 0 THEN Rtcm!Wait(z) ELSE Rtcm!Drop(z, n)
  BY DEF Rtcm!TextPass
<1>3. \/ i = 0 /\ \A k \in 1..Len(z.buf) : z.buf[k] \notin kind
      \/ i \in 1..Len(z.buf) /\ z.buf[i] \in kind /\ \A k \in 1..(i - 1) : z.buf[k] \notin kind
  <2> HIDE DEF kind
  <2>1. QED
    BY <1>1, FirstIs
<1>4. Rtcm!Dollar # Rtcm!Preamble /\ Rtcm!NewLine # Rtcm!Preamble
  BY DEF Rtcm!Dollar, Rtcm!Preamble, Rtcm!NewLine
<1> HIDE DEF i
<1>5. CASE i = 0
  <2>1. \A k \in 1..(e - p) : B[p + k] # Rtcm!Preamble
    <3>1. \A k \in 1..(e - p) : z.buf[k] \notin kind
      BY <1>1, <1>3, <1>5
    <3>2. \A k \in 1..(e - p) : z.buf[k] # Rtcm!Preamble
      BY <3>1
    <3>3. QED
      BY <1>1, <3>2
  <2>2. ASSUME NEW x \in (p + 1)..e PROVE B[x] # Rtcm!Preamble
    <3>1. x - p \in 1..(e - p) /\ p + (x - p) = x
      BY <1>1
    <3>2. B[p + (x - p)] # Rtcm!Preamble
      BY <2>1, <3>1
    <3>3. QED
      BY <3>1, <3>2
  <2>3. Stuck(B, p, e)
    BY <2>2 DEF Stuck
  <2>4. QED
    BY <1>2, <1>5, <2>3, WaitMoves
<1>6. CASE i # 0
  <2>1. i \in 1..(e - p) /\ z.buf[i] \in kind /\ \A k \in 1..(i - 1) : z.buf[k] # Rtcm!Preamble
    BY <1>1, <1>3, <1>6
  <2>2. n \in 1..i /\ \A k \in 1..n : z.buf[k] # Rtcm!Preamble
    <3>1. CASE z.buf[i] = Rtcm!Preamble
      <4>1. i # 1
        BY <1>1, <1>4, <2>1, <3>1
      <4>2. n = i - 1 /\ i - 1 \in 1..i
        BY <1>1, <2>1, <3>1, <4>1
      <4>3. QED
        BY <2>1, <4>2
    <3>2. CASE z.buf[i] # Rtcm!Preamble
      <4>1. n = i /\ i \in 1..i /\ \A k \in 1..i : k = i \/ k \in 1..(i - 1)
        BY <1>1, <2>1, <3>2
      <4>2. QED
        BY <2>1, <3>2, <4>1
    <3>3. QED
      BY <3>1, <3>2
  <2> HIDE DEF n
  <2>3. p + n \in (p + 1)..e /\ p + n \in p..Len(B) /\ n \in Int
    <3>1. Len(B) \in Nat /\ e \in 0..Len(B) /\ p \in 0..e /\ i \in 1..(e - p) /\ n \in 1..i
      BY <1>1, <2>1, <2>2
    <3>2. QED
      BY <3>1
  <2>4. ASSUME NEW x \in (p + 1)..(p + n) PROVE B[x] # Rtcm!Preamble
    <3>1. x - p \in 1..n /\ x - p \in 1..(e - p) /\ p + (x - p) = x
      BY <1>1, <2>1, <2>2
    <3>2. z.buf[x - p] = B[p + (x - p)]
      BY <1>1, <3>1
    <3>3. QED
      BY <2>2, <3>1, <3>2
  <2>5. \E h : At(B, s, end, p + n, h) /\ told[h] = told[j]
    <3> DEFINE q == p + n
    <3>1. q \in p..Len(B) /\ \A x \in (p + 1)..q : B[x] # Rtcm!Preamble
      BY <2>3, <2>4
    <3>2. Laid(B, s, end) /\ ToldBy(s, told) /\ At(B, s, end, p, j)
      BY <1>1
    <3> HIDE DEF q
    <3>3. \E h : At(B, s, end, q, h) /\ told[h] = told[j]
      BY <3>1, <3>2, PassBytes
    <3>4. QED
      BY <3>3 DEF q
  <2>6. Moves(B, s, end, told, base, e, Rtcm!Drop(z, n), p)
    BY <2>3, <2>5, DropMoves
  <2>7. QED
    BY <1>2, <1>6, <2>6
<1>7. QED
  BY <1>5, <1>6

\* A byte where no frame is accepted is passed.
LEMMA PassNoFrame ==
  ASSUME NEW B, NEW s, NEW end, Laid(B, s, end), NEW told, ToldBy(s, told),
         NEW p, NEW j, At(B, s, end, p, j), p < Len(B), \A n : ~Accepted(B, p, n)
  PROVE  \E i : At(B, s, end, p + 1, i) /\ told[i] = told[j]
<1>1. /\ j \in 0..Len(s) /\ Len(s) \in Nat
      /\ j < Len(s) => p = end[j] \/ (p < end[j + 1] /\ ~Whole(s[j + 1]))
  BY LaidBytes DEF At
<1>2. j = Len(s) \/ ~Whole(s[j + 1])
  <2>1. SUFFICES ASSUME j # Len(s), Whole(s[j + 1]) PROVE FALSE
    OBVIOUS
  <2>2. j < Len(s) /\ j \in 0..(Len(s) - 1)
    BY <1>1, <2>1
  <2>3. p = end[j]
    BY <1>1, <2>1, <2>2
  <2>4. Accepted(B, end[j], s[j + 1][2])
    BY <2>1, <2>2, FrameIsSeen
  <2>5. QED
    BY <2>3, <2>4
<1>3. QED
  BY <1>2, PassByte

\* At a preamble: a frame is told of, anything else dropped by a byte or waited for.
LEMMA FramePassMoves ==
  ASSUME NEW B, NEW s, NEW end, NEW told, NEW base, NEW e, Course(B, s, end, told, base, e),
         NEW z, NEW p, NEW j, Stands(B, s, end, told, base, e, z, p, j), ~z.done,
         p < e, B[p + 1] = Rtcm!Preamble
  PROVE  Moves(B, s, end, told, base, e, Rtcm!FramePass(z), p)
<1>1. Course(B, s, end, told, base, e) /\ Stands(B, s, end, told, base, e, z, p, j)
  OBVIOUS
<1>2. Laid(B, s, end) /\ ToldBy(s, told) /\ At(B, s, end, p, j)
  BY <1>1, Standing
<1>3. B \in Seq(Nat) /\ Len(B) \in Nat /\ e \in 0..Len(B) /\ p \in 0..e /\ p < Len(B)
  <2>1. B \in Seq(Nat) /\ Len(B) \in Nat /\ e \in 0..Len(B) /\ p \in 0..e
    BY <1>1, Standing
  <2>2. QED
    BY <2>1
<1>4. z.buf \in Seq(Nat) /\ Len(z.buf) = e - p
  BY <1>1, Standing
<1>5. \A k \in 1..(e - p) : z.buf[k] = B[p + k]
  BY <1>1, Standing
<1>6. z \in Parsing /\ z.buf = Between(B, p, e) /\ base \o z.out = told[j] /\ base \in Seq(Seq(Nat))
  BY <1>1 DEF Stands, Course
<1> DEFINE n == z.buf[2]
           w == Rtcm!FramePass(z)
           crc == Rtcm!Crc24q(SubSeq(z.buf, 1, n + 2))
<1>7. /\ Len(z.buf) < 2 => w = Rtcm!Wait(z)
      /\ Len(z.buf) >= 2 =>
           /\ n \notin 1..MaxPayload => w = Rtcm!Drop(z, 1)
           /\ n \in 1..MaxPayload =>
                /\ Len(z.buf) < n + 3 => w = Rtcm!Wait(z)
                /\ Len(z.buf) >= n + 3 =>
                     /\ z.buf[n + 3] # crc => w = Rtcm!Drop(z, 1)
                     /\ z.buf[n + 3] = crc =>
                          /\ n < 2 => w = Rtcm!Drop(z, n + 3)
                          /\ ~(n < 2) => w = [Rtcm!Drop(z, n + 3) EXCEPT !.out = Append(@, SubSeq(z.buf, 3, n + 2))]
  <2> DEFINE x == Rtcm!Crc24q(SubSeq(z.buf, 1, n + 2))
             d == Rtcm!Drop(z, 1)
             f == Rtcm!Drop(z, n + 3)
             v == Rtcm!Wait(z)
             g == [f EXCEPT !.out = Append(@, SubSeq(z.buf, 3, n + 2))]
  <2>1. w = IF Len(z.buf) < 2 THEN v
            ELSE IF n \notin 1..MaxPayload THEN d
            ELSE IF Len(z.buf) < n + 3 THEN v
            ELSE IF z.buf[n + 3] # x THEN d
            ELSE IF n < 2 THEN f ELSE g
    BY DEF Rtcm!FramePass, Rtcm!CrcDropped
  <2>2. MaxPayload \in Nat /\ Len(z.buf) \in Int
    BY <1>3, <1>4, StreamSizes
  <2> HIDE DEF w, x, d, f, v, g
  <2>3. /\ Len(z.buf) < 2 => w = v
        /\ Len(z.buf) >= 2 =>
             /\ n \notin 1..MaxPayload => w = d
             /\ n \in 1..MaxPayload =>
                  /\ Len(z.buf) < n + 3 => w = v
                  /\ Len(z.buf) >= n + 3 =>
                       /\ z.buf[n + 3] # x => w = d
                       /\ z.buf[n + 3] = x => (n < 2 => w = f) /\ (~(n < 2) => w = g)
    BY <2>1, <2>2
  <2>4. QED
    BY <2>3 DEF x, d, f, v, g
<1>8. Len(z.buf) >= 2 => n = B[p + 2]
  BY <1>3, <1>4, <1>5
<1> SUFFICES Moves(B, s, end, told, base, e, w, p)
  OBVIOUS
<1> HIDE DEF w, crc
<1>9. ASSUME \A m : ~Accepted(B, p, m), w = Rtcm!Drop(z, 1)
      PROVE  Moves(B, s, end, told, base, e, w, p)
  <2>1. \E i : At(B, s, end, p + 1, i) /\ told[i] = told[j]
    BY <1>2, <1>3, <1>9, PassNoFrame
  <2>2. p + 1 \in (p + 1)..e /\ 1 \in Int
    BY <1>3
  <2>3. QED
    BY <1>1, <1>9, <2>1, <2>2, DropMoves
<1>10. CASE Len(z.buf) < 2
  <2>1. e < p + 2
    BY <1>3, <1>4, <1>10
  <2>2. Stuck(B, p, e)
    BY <2>1 DEF Stuck
  <2>3. QED
    BY <1>7, <1>10, <2>2, WaitMoves
<1>11. CASE Len(z.buf) >= 2 /\ n \notin 1..MaxPayload
  <2>1. \A m : ~Accepted(B, p, m)
    BY <1>8, <1>11 DEF Accepted, Candidate
  <2>2. QED
    BY <1>7, <1>9, <1>11, <2>1
<1>12. CASE Len(z.buf) >= 2 /\ n \in 1..MaxPayload /\ Len(z.buf) < n + 3
  <2>1. n \in Nat
    BY <1>12, StreamSizes
  <2>2. e < p + n + 3
    <3> DEFINE m == n
    <3>1. m \in Nat /\ e - p < m + 3
      BY <1>4, <1>12, <2>1
    <3> HIDE DEF m
    <3>2. e < p + m + 3
      BY <1>3, <3>1
    <3>3. QED
      BY <3>2 DEF m
  <2>3. Stuck(B, p, e)
    BY <1>8, <1>12, <2>2 DEF Stuck
  <2>4. QED
    BY <1>7, <1>12, <2>3, WaitMoves
<1>13. CASE Len(z.buf) >= 2 /\ n \in 1..MaxPayload /\ Len(z.buf) >= n + 3
  <2> DEFINE l == e - p
  <2>1. n \in Nat /\ n >= 1
    BY <1>13, StreamSizes
  <2>2. n + 3 \in 1..l /\ n + 2 \in 0..l /\ p + n + 3 <= e /\ p + (n + 2) = p + n + 2 /\ p + (n + 3) = p + n + 3
    <3> HIDE DEF n
    <3>1. QED
      BY <1>3, <1>4, <1>13, <2>1
  <2>3. z.buf[n + 3] = B[p + n + 3]
    <3> HIDE DEF n
    <3>1. z.buf[n + 3] = B[p + (n + 3)]
      BY <1>5, <2>2
    <3>2. QED
      BY <2>2, <3>1
  <2>4. ASSUME NEW a \in 0..(n + 2) PROVE Between(z.buf, a, n + 2) = Between(B, p + a, p + n + 2)
    <3> HIDE DEF n
    <3>1. Between(Between(B, p, e), a, n + 2) = Between(B, p + a, p + (n + 2))
      BY <1>3, <2>2, PieceOfPiece
    <3>2. QED
      BY <1>6, <2>2, <3>1
  <2>5. crc = Rtcm!Crc24q(Between(B, p, p + n + 2))
    <3> HIDE DEF n
    <3>1. SubSeq(z.buf, 1, n + 2) = Between(z.buf, 0, n + 2)
      BY DEF Between
    <3>2. Between(z.buf, 0, n + 2) = Between(B, p, p + n + 2)
      <4>1. 0 \in 0..(n + 2) /\ p + 0 = p
        BY <1>3, <2>1
      <4>2. Between(z.buf, 0, n + 2) = Between(B, p + 0, p + n + 2)
        BY <2>4, <4>1
      <4>3. QED
        BY <4>1, <4>2
    <3>3. QED
      BY <3>1, <3>2 DEF crc
  <2>6. Candidate(B, p, n) /\ \A m : Candidate(B, p, m) => m = n
    <3>1. p + n + 3 <= Len(B)
      <4> HIDE DEF n
      <4>1. QED
        BY <1>3, <2>1, <2>2
    <3>2. QED
      BY <1>8, <1>13, <3>1 DEF Candidate
  <2>7. CASE z.buf[n + 3] # crc
    <3>1. \A m : ~Accepted(B, p, m)
      BY <2>3, <2>5, <2>6, <2>7 DEF Accepted
    <3>2. QED
      BY <1>7, <1>9, <1>13, <2>7, <3>1
  <2>8. CASE z.buf[n + 3] = crc
    <3>1. Accepted(B, p, n)
      BY <2>3, <2>5, <2>6, <2>8 DEF Accepted
    <3> DEFINE q == p + n + 3
               y == Between(B, p + 2, p + n + 2)
    <3>2. /\ At(B, s, end, q, j + 1)
          /\ told[j + 1] = IF n > 1 THEN Append(told[j], y) ELSE told[j]
      BY <1>2, <3>1, FrameTaken
    <3>3. q \in p..e /\ q > p /\ n + 3 = q - p
      <4> HIDE DEF n
      <4>1. QED
        BY <1>3, <2>1, <2>2
    <3> DEFINE d == Rtcm!Drop(z, n + 3)
    <3> HIDE DEF q, y
    <3>4. /\ d \in Parsing /\ d.buf = Between(B, q, e) /\ d.out = z.out /\ d.done = z.done
          /\ told[j + 1] = told[j] => Stands(B, s, end, told, base, e, d, q, j + 1)
      BY <1>1, <3>2, <3>3, DropStands
    <3>5. CASE n < 2
      <4>1. ~(n > 1)
        BY <2>1, <3>5
      <4>2. w = d /\ Stands(B, s, end, told, base, e, d, q, j + 1)
        BY <1>7, <1>13, <2>8, <3>2, <3>4, <3>5, <4>1
      <4>3. Stands(B, s, end, told, base, e, w, q, j + 1) /\ ~w.done /\ q > p
        BY <3>3, <3>4, <4>2
      <4>4. QED
        BY <4>3 DEF Moves
    <3>6. CASE ~(n < 2)
      <4>1. n > 1
        BY <2>1, <3>6
      <4>2. w = [d EXCEPT !.out = Append(@, SubSeq(z.buf, 3, n + 2))]
        BY <1>7, <1>13, <2>8, <3>6
      <4>3. SubSeq(z.buf, 3, n + 2) = y
        <5> HIDE DEF n
        <5>1. 2 \in 0..(n + 2)
          BY <2>1
        <5>2. Between(z.buf, 2, n + 2) = y
          BY <2>4, <5>1 DEF y
        <5>3. 2 + 1 = 3
          OBVIOUS
        <5>4. QED
          BY <5>2, <5>3 DEF Between
      <4>4. y \in Seq(Nat)
        <5> HIDE DEF n
        <5>1. p + n + 2 \in 0..Len(B) /\ p + 2 \in 0..(p + n + 2)
          BY <1>3, <2>1, <2>2
        <5>2. QED
          BY <1>3, <5>1, Piece DEF y
      <4> HIDE DEF d
      <4>5. z.out \in Seq(Seq(Nat)) /\ Append(z.out, y) \in Seq(Seq(Nat))
        <5>1. z.out \in Seq(Seq(Nat))
          BY <1>6 DEF Parsing
        <5>2. QED
          BY <4>4, <5>1, AppendProperties
      <4>6. w \in Parsing /\ w.buf = Between(B, q, e) /\ w.out = Append(z.out, y) /\ w.done = z.done
        BY <3>4, <4>2, <4>3, <4>5 DEF Parsing
      <4>7. base \o Append(z.out, y) = Append(base \o z.out, y)
        <5> DEFINE r == <<y>>
        <5>1. Append(z.out, y) = z.out \o r /\ r \in Seq(Seq(Nat))
          BY <4>4, <4>5, AppendIsConcat
        <5>2. base \o z.out \in Seq(Seq(Nat))
          BY <1>6, <4>5, ConcatProperties
        <5>3. Append(base \o z.out, y) = (base \o z.out) \o r
          BY <4>4, <5>2, AppendIsConcat
        <5> HIDE DEF r
        <5>4. (base \o z.out) \o r = base \o (z.out \o r)
          <6> DEFINE o == z.out
                     S == Seq(Nat)
          <6>1. base \in Seq(S) /\ o \in Seq(S) /\ r \in Seq(S)
            BY <1>6, <4>5, <5>1
          <6> HIDE DEF o, S
          <6>2. (base \o o) \o r = base \o (o \o r)
            BY <6>1, ConcatAssociative
          <6>3. QED
            BY <6>2 DEF o
        <5>5. QED
          BY <5>1, <5>3, <5>4
      <4>8. base \o w.out = told[j + 1]
        BY <1>6, <3>2, <4>1, <4>6, <4>7
      <4>9. q \in 0..e
        BY <1>3, <3>3
      <4>10. Stands(B, s, end, told, base, e, w, q, j + 1)
        BY <3>2, <4>6, <4>8, <4>9 DEF Stands
      <4>11. ~w.done /\ q > p
        BY <3>3, <3>4, <4>6
      <4>12. QED
        BY <4>10, <4>11 DEF Moves
    <3>7. QED
      BY <3>5, <3>6
  <2>9. QED
    BY <2>7, <2>8
<1>14. QED
  <2>1. MaxPayload \in Nat /\ Len(z.buf) \in Int
    BY <1>3, <1>4, StreamSizes
  <2>2. n \in 1..MaxPayload => n \in Nat
    BY <2>1
  <2>3. QED
    <3> DEFINE l == Len(z.buf)
    <3>1. l \in Int /\ (n \in 1..MaxPayload => n \in Nat)
      BY <2>1, <2>2
    <3> HIDE DEF l, n
    <3>2. l < 2 \/ l >= 2
      BY <3>1
    <3>3. n \in Nat => l < n + 3 \/ l >= n + 3
      BY <3>1
    <3>4. QED
      BY <1>10, <1>11, <1>12, <1>13, <3>1, <3>2, <3>3 DEF l, n

\* Whatever it has in its hands, a pass of handleBytes moves.
LEMMA PassMoves ==
  ASSUME NEW B, NEW s, NEW end, NEW told, NEW base, NEW e, Course(B, s, end, told, base, e),
         NEW z, NEW p, NEW j, Stands(B, s, end, told, base, e, z, p, j), ~z.done
  PROVE  Moves(B, s, end, told, base, e, Rtcm!Pass(z), p)
<1>1. Course(B, s, end, told, base, e) /\ Stands(B, s, end, told, base, e, z, p, j)
  OBVIOUS
<1>2. Laid(B, s, end) /\ ToldBy(s, told) /\ At(B, s, end, p, j)
  BY <1>1, Standing
<1>3. B \in Seq(Nat) /\ Len(B) \in Nat /\ e \in 0..Len(B) /\ p \in 0..e
  BY <1>1, Standing
<1>4. z.buf \in Seq(Nat) /\ Len(z.buf) = e - p
  BY <1>1, Standing
<1>5. \A k \in 1..(e - p) : z.buf[k] = B[p + k]
  BY <1>1, Standing
<1>6. z \in Parsing /\ base \o z.out = told[j]
  BY <1>1 DEF Stands
<1> DEFINE kind == {Rtcm!Dollar, Rtcm!Preamble}
           i == Rtcm!First(z.buf, kind)
           w == Rtcm!Pass(z)
           here == Rtcm!Drop(z, i - 1)
           none == [z EXCEPT !.buf = <<>>]
<1>7. /\ i = 0 => w = Rtcm!Wait(none)
      /\ i # 0 => w = IF z.buf[i] = Rtcm!Dollar THEN Rtcm!TextPass(here) ELSE Rtcm!FramePass(here)
  <2> DEFINE a == Rtcm!Wait(none)
             b == IF z.buf[i] = Rtcm!Dollar THEN Rtcm!TextPass(here) ELSE Rtcm!FramePass(here)
  <2>1. w = IF z.done THEN z ELSE IF i = 0 THEN a ELSE b
    BY DEF Rtcm!Pass
  <2> HIDE DEF w, a, b, i
  <2>2. (i = 0 => w = a) /\ (i # 0 => w = b)
    BY <2>1
  <2>3. QED
    BY <2>2 DEF a, b
<1>8. \/ i = 0 /\ \A k \in 1..Len(z.buf) : z.buf[k] \notin kind
      \/ i \in 1..Len(z.buf) /\ z.buf[i] \in kind /\ \A k \in 1..(i - 1) : z.buf[k] \notin kind
  <2> HIDE DEF kind
  <2>1. QED
    BY <1>4, FirstIs
<1> SUFFICES Moves(B, s, end, told, base, e, w, p)
  OBVIOUS
<1> HIDE DEF w, i, here, none
<1>9. ASSUME NEW q \in p..e, \A k \in 1..(q - p) : z.buf[k] \notin kind
      PROVE  \E h : At(B, s, end, q, h) /\ told[h] = told[j]
  <2>1. ASSUME NEW x \in (p + 1)..q PROVE B[x] # Rtcm!Preamble
    <3>1. x - p \in 1..(q - p) /\ x - p \in 1..(e - p) /\ p + (x - p) = x
      BY <1>3
    <3>2. z.buf[x - p] = B[p + (x - p)] /\ z.buf[x - p] # Rtcm!Preamble
      BY <1>5, <1>9, <3>1
    <3>3. QED
      BY <3>1, <3>2
  <2>2. q \in p..Len(B)
    BY <1>3
  <2>3. QED
    BY <1>2, <2>1, <2>2, PassBytes
<1>10. CASE i = 0
  <2>1. e \in p..e /\ e \in 0..e /\ e <= e /\ ~(e + 1 <= e)
    BY <1>3
  <2>2. \A k \in 1..(e - p) : z.buf[k] \notin kind
    <3> HIDE DEF kind
    <3>1. Len(z.buf) \in Nat /\ ~(0 \in 1..Len(z.buf))
      BY <1>4, LenProperties
    <3>2. QED
      BY <1>4, <1>8, <1>10, <3>1
  <2>3. PICK h : At(B, s, end, e, h) /\ told[h] = told[j]
    BY <1>9, <2>1, <2>2
  <2>4. <<>> = Between(B, e, e)
    <3>1. Between(B, e, e) \in Seq(Nat) /\ Len(Between(B, e, e)) = e - e /\ e - e = 0
      BY <1>3, <2>1, Piece
    <3>2. QED
      BY <3>1, EmptySeq
  <2>5. none \in Parsing /\ none.buf = <<>> /\ none.out = z.out
    <3>1. <<>> \in Seq(Nat)
      BY EmptySeq
    <3>2. QED
      BY <1>6, <3>1 DEF none, Parsing
  <2>6. Stands(B, s, end, told, base, e, none, e, h)
    BY <1>6, <2>1, <2>3, <2>4, <2>5 DEF Stands
  <2>7. Stuck(B, e, e)
    <3>1. \A x \in (e + 1)..e : FALSE
      BY <1>3
    <3>2. QED
      BY <3>1 DEF Stuck
  <2>8. Stands(B, s, end, told, base, e, Rtcm!Wait(none), e, h) /\ Rtcm!Wait(none).done
    BY <2>6, WaitStands
  <2>9. QED
    BY <1>7, <1>10, <2>7, <2>8 DEF Moves
<1>11. CASE i # 0
  <2>1. i \in 1..(e - p) /\ z.buf[i] \in kind /\ \A k \in 1..(i - 1) : z.buf[k] \notin kind
    <3> HIDE DEF kind
    <3>1. QED
      BY <1>4, <1>8, <1>11
  <2> DEFINE q == p + (i - 1)
  <2>2. q \in p..e /\ q - p = i - 1 /\ q < e /\ q + 1 = p + i /\ i - 1 = q - p /\ q >= p /\ q \in Nat
    BY <1>3, <2>1
  <2>3. z.buf[i] = B[q + 1]
    BY <1>5, <2>1, <2>2
  <2> HIDE DEF q
  <2>4. PICK h : At(B, s, end, q, h) /\ told[h] = told[j]
    <3> HIDE DEF kind
    <3>1. \A k \in 1..(q - p) : z.buf[k] \notin kind
      BY <2>1, <2>2
    <3>2. QED
      BY <1>9, <2>2, <3>1
  <2>5. Stands(B, s, end, told, base, e, here, q, h) /\ ~here.done
    <3>1. /\ told[h] = told[j] => Stands(B, s, end, told, base, e, Rtcm!Drop(z, i - 1), q, h)
          /\ Rtcm!Drop(z, i - 1).done = z.done
      BY <1>1, <2>2, <2>4, DropStands
    <3>2. QED
      BY <2>4, <3>1 DEF here
  <2>6. Moves(B, s, end, told, base, e, w, q)
    <3>1. CASE z.buf[i] = Rtcm!Dollar
      <4>1. Moves(B, s, end, told, base, e, Rtcm!TextPass(here), q)
        BY <1>1, <2>2, <2>3, <2>5, <3>1, TextPassMoves
      <4>2. QED
        BY <1>7, <1>11, <3>1, <4>1
    <3>2. CASE z.buf[i] # Rtcm!Dollar
      <4>1. B[q + 1] = Rtcm!Preamble
        BY <2>1, <2>3, <3>2
      <4>2. Moves(B, s, end, told, base, e, Rtcm!FramePass(here), q)
        BY <1>1, <2>2, <2>5, <4>1, FramePassMoves
      <4>3. QED
        BY <1>7, <1>11, <3>2, <4>2
    <3>3. QED
      BY <3>1, <3>2
  <2>7. PICK r, g : /\ Stands(B, s, end, told, base, e, w, r, g)
                    /\ w.done => Stuck(B, r, e)
                    /\ ~w.done => r > q
    BY <2>6 DEF Moves
  <2>8. r \in Nat
    <3>1. r \in 0..e
      BY <2>7 DEF Stands
    <3>2. QED
      BY <1>3, <3>1
  <2>9. ~w.done => r > p
    BY <1>3, <2>2, <2>7, <2>8
  <2>10. QED
    BY <2>7, <2>9 DEF Moves
<1>12. QED
  BY <1>10, <1>11

\* Enough passes leave the parser stuck.
LEMMA PassesEnd ==
  ASSUME NEW B, NEW s, NEW end, NEW told, NEW base, NEW e, Course(B, s, end, told, base, e),
         NEW z, NEW p, NEW j, Stands(B, s, end, told, base, e, z, p, j), ~z.done,
         NEW n \in Nat, n > e - p,
         NEW after, after = CHOOSE f : f = [k \in 0..n |-> IF k = 0 THEN z ELSE Rtcm!Pass(f[k - 1])]
  PROVE  \E q, i : Stands(B, s, end, told, base, e, after[n], q, i) /\ Stuck(B, q, e)
<1> DEFINE Good(x) == \E q, i : Stands(B, s, end, told, base, e, x, q, i) /\ (x.done => Stuck(B, q, e))
           S == {x \in Parsing : Good(x)}
           step == [k \in Nat |-> [x \in S |-> Rtcm!Pass(x)]]
           Made(f) == f = [k \in 0..n |-> IF k = 0 THEN z ELSE Rtcm!Pass(f[k - 1])]
<1>1. Course(B, s, end, told, base, e) /\ Stands(B, s, end, told, base, e, z, p, j) /\ after = CHOOSE f : Made(f)
  OBVIOUS
<1>2. Len(B) \in Nat /\ e \in 0..Len(B) /\ p \in 0..e
  BY <1>1, Standing
<1>3. z \in S
  <2>1. z \in Parsing
    BY DEF Stands
  <2>2. Good(z)
    BY <1>1
  <2>3. QED
    BY <2>1, <2>2
<1>4. \A x : x.done => Rtcm!Pass(x) = x
  BY DEF Rtcm!Pass
<1>5. ASSUME NEW x \in S PROVE Rtcm!Pass(x) \in S
  <2>1. PICK q, i : Stands(B, s, end, told, base, e, x, q, i) /\ (x.done => Stuck(B, q, e))
    OBVIOUS
  <2>2. CASE x.done
    BY <1>4, <2>2
  <2>3. CASE ~x.done
    <3> DEFINE y == Rtcm!Pass(x)
    <3>1. Moves(B, s, end, told, base, e, y, q)
      BY <1>1, <2>1, <2>3, PassMoves
    <3> HIDE DEF y
    <3>2. PICK r, h : Stands(B, s, end, told, base, e, y, r, h) /\ (y.done => Stuck(B, r, e))
      BY <3>1 DEF Moves
    <3>3. y \in Parsing
      BY <3>2 DEF Stands
    <3>4. y \in S
      BY <3>2, <3>3
    <3>5. QED
      BY <3>4 DEF y
  <2>4. QED
    BY <2>2, <2>3
<1> HIDE DEF S
<1>6. step \in [Nat -> [S -> S]]
  BY <1>5
<1>7. \A k \in 1..n, x \in S : k \in Nat /\ step[k][x] = Rtcm!Pass(x)
  OBVIOUS
<1> HIDE DEF step
<1>8. PICK f \in [0..n -> S] : Follows(f, z, step, n)
  BY <1>3, <1>6, StepByStep
<1>9. Made(f)
  <2>1. \A k \in 0..n : k # 0 => k \in 1..n /\ k - 1 \in 0..n
    OBVIOUS
  <2>2. f[0] = z /\ \A k \in 1..n : f[k] = step[k][f[k - 1]]
    BY <1>8 DEF Follows
  <2>3. \A k \in 1..n : f[k - 1] \in S
    BY <1>8
  <2>4. \A k \in 1..n : f[k] = Rtcm!Pass(f[k - 1])
    BY <1>7, <2>2, <2>3
  <2>5. \A k \in 0..n : f[k] = IF k = 0 THEN z ELSE Rtcm!Pass(f[k - 1])
    BY <2>1, <2>2, <2>4
  <2>6. QED
    BY <1>8, <2>5
<1> HIDE DEF Made
<1>10. Made(after)
  BY <1>1, <1>9
<1>11. after[0] = z /\ \A k \in 1..n : after[k] = Rtcm!Pass(after[k - 1])
  <2>1. 0 \in 0..n /\ \A k \in 1..n : k \in 0..n /\ k # 0
    OBVIOUS
  <2>2. \A k \in 0..n : after[k] = IF k = 0 THEN z ELSE Rtcm!Pass(after[k - 1])
    BY <1>10 DEF Made
  <2>3. QED
    BY <2>1, <2>2
<1> DEFINE Far(x, k) == \E q, i : /\ Stands(B, s, end, told, base, e, x, q, i)
                                  /\ x.done => Stuck(B, q, e)
                                  /\ ~x.done => q >= p + k
           T == {k \in Nat : k <= n => Far(after[k], k)}
<1> HIDE DEF Far
<1>12. 0 \in T
  <2>1. p >= p + 0
    BY <1>2
  <2>2. Far(z, 0)
    BY <1>1, <2>1 DEF Far
  <2>3. QED
    BY <1>11, <2>2
<1>13. ASSUME NEW k \in T PROVE k + 1 \in T
  <2> DEFINE x == after[k]
             y == after[k + 1]
  <2>1. SUFFICES ASSUME k + 1 <= n PROVE Far(y, k + 1)
    OBVIOUS
  <2>2. k + 1 \in 1..n /\ (k + 1) - 1 = k /\ k <= n /\ k \in Nat
    BY <2>1
  <2>3. Far(x, k) /\ y = Rtcm!Pass(x)
    BY <1>11, <2>2
  <2> HIDE DEF x, y
  <2>4. PICK q, i : /\ Stands(B, s, end, told, base, e, x, q, i)
                    /\ x.done => Stuck(B, q, e)
                    /\ ~x.done => q >= p + k
    BY <2>3 DEF Far
  <2>5. CASE x.done
    <3>1. y = x
      BY <1>4, <2>3, <2>5
    <3>2. QED
      BY <2>4, <2>5, <3>1 DEF Far
  <2>6. CASE ~x.done
    <3>1. Moves(B, s, end, told, base, e, y, q)
      BY <1>1, <2>3, <2>4, <2>6, PassMoves
    <3>2. PICK r, h : /\ Stands(B, s, end, told, base, e, y, r, h)
                      /\ y.done => Stuck(B, r, e)
                      /\ ~y.done => r > q
      BY <3>1 DEF Moves
    <3>3. r \in 0..e /\ q \in 0..e
      BY <2>4, <3>2 DEF Stands
    <3>4. ~y.done => r >= p + (k + 1)
      BY <1>2, <2>2, <2>4, <2>6, <3>2, <3>3
    <3>5. QED
      BY <3>2, <3>4 DEF Far
  <2>7. QED
    BY <2>5, <2>6
<1>14. T = Nat
  <2> HIDE DEF T
  <2>1. T \in SUBSET Nat
    BY DEF T
  <2>2. QED
    BY <1>12, <1>13, <2>1, NaturalsByStep
<1>15. Far(after[n], n)
  <2>1. n \in T /\ n <= n
    BY <1>14
  <2>2. QED
    BY <2>1
<1>16. PICK q, i : /\ Stands(B, s, end, told, base, e, after[n], q, i)
                   /\ after[n].done => Stuck(B, q, e)
                   /\ ~after[n].done => q >= p + n
  BY <1>15 DEF Far
<1>17. q \in 0..e
  BY <1>16 DEF Stands
<1>18. ~(q >= p + n)
  BY <1>2, <1>17
<1>19. QED
  BY <1>16, <1>18

\* What rx_buffer_ keeps of a stuck parser loses nothing when it is cleared.
LEMMA KeptStands ==
  ASSUME NEW B, NEW s, NEW end, Laid(B, s, end), NEW told, ToldBy(s, told),
         NEW f \in 0..Len(B), NEW p \in 0..f, NEW j, At(B, s, end, p, j), Stuck(B, p, f),
         NEW n \in 0..MaxChunk, NEW kept,
         kept = IF Len(Between(B, p, f)) + n > MaxBuffer THEN <<>> ELSE Between(B, p, f)
  PROVE  \E q, i : q \in 0..f /\ kept = Between(B, q, f) /\ At(B, s, end, q, i) /\ told[i] = told[j]
<1>1. B \in Seq(Nat) /\ Len(B) \in Nat
  BY LaidBytes
<1>2. /\ MaxPayload \in Nat /\ MaxChunk \in Nat /\ MaxBuffer \in Nat
      /\ MaxBuffer >= MaxPayload + 3 + MaxChunk
  BY StreamSizes
<1> DEFINE buf == Between(B, p, f)
<1>3. Len(buf) = f - p
  BY <1>1, Piece
<1>4. CASE ~(Len(buf) + n > MaxBuffer)
  BY <1>4
<1>5. CASE Len(buf) + n > MaxBuffer
  <2>1. f - p >= MaxPayload + 3
    BY <1>1, <1>2, <1>3, <1>5
  <2>2. \A i \in (p + 1)..f : B[i] # Rtcm!Preamble
    <3>1. ~(f < p + 2)
      BY <1>1, <1>2, <2>1
    <3>2. ASSUME B[p + 2] \in 1..MaxPayload, f < p + B[p + 2] + 3 PROVE FALSE
      <4> DEFINE x == B[p + 2]
      <4>1. x \in 1..MaxPayload /\ f < p + x + 3
        BY <3>2
      <4> HIDE DEF x
      <4>2. QED
        BY <1>1, <1>2, <2>1, <4>1
    <3>3. QED
      BY <3>1, <3>2 DEF Stuck
  <2>3. f \in p..Len(B) /\ f \in 0..f
    BY <1>1
  <2>4. PICK i : At(B, s, end, f, i) /\ told[i] = told[j]
    BY <2>2, <2>3, PassBytes
  <2>5. Between(B, f, f) \in Seq(Nat) /\ Len(Between(B, f, f)) = f - f /\ f - f = 0
    BY <1>1, <2>3, Piece
  <2>6. kept = Between(B, f, f)
    BY <1>5, <2>5, EmptySeq
  <2>7. QED
    BY <2>3, <2>4, <2>6
<1>6. QED
  BY <1>4, <1>5

(* Between two reads: of the bytes up to f, rx_buffer_ holds those from     *)
(* where the parser is stuck, and got is what the frames before it hold.    *)
InStep(B, s, end, told, f, buf, got) ==
  \E p, j : /\ p \in 0..f /\ buf = Between(B, p, f) /\ Stuck(B, p, f)
            /\ At(B, s, end, p, j) /\ got = told[j]

\* handleBytes leaves the parser stuck, with every frame before it told of.
LEMMA BytesHandled ==
  ASSUME NEW B, NEW s, NEW end, Laid(B, s, end), NEW told, ToldBy(s, told),
         NEW f \in 0..Len(B), NEW buf, NEW got, InStep(B, s, end, told, f, buf, got),
         NEW e \in f..Len(B), e - f <= MaxChunk,
         NEW w, w = Rtcm!HandleBytes(buf, Between(B, f, e))
  PROVE  InStep(B, s, end, told, e, w.buf, got \o w.out)
<1>0. PICK p, j : /\ p \in 0..f /\ buf = Between(B, p, f) /\ Stuck(B, p, f)
                  /\ At(B, s, end, p, j) /\ got = told[j]
  BY DEF InStep
<1> DEFINE chunk == Between(B, f, e)
           kept == IF Len(buf) + Len(chunk) > MaxBuffer THEN <<>> ELSE buf
           n == Len(kept) + Len(chunk) + 1
           z == [buf |-> kept \o chunk, out |-> <<>>, done |-> FALSE]
           after == CHOOSE g : g = [k \in 0..n |-> IF k = 0 THEN z ELSE Rtcm!Pass(g[k - 1])]
<1>1. w = after[n]
  BY DEF Rtcm!HandleBytes
<1>2. B \in Seq(Nat) /\ Len(B) \in Nat /\ Len(s) \in Nat /\ j \in 0..Len(s)
  BY <1>0, LaidBytes DEF At
<1>3. e \in 0..Len(B) /\ f \in 0..e /\ f \in Nat /\ e \in Nat /\ e - f \in 0..MaxChunk
  BY <1>2, StreamSizes
<1>4. chunk \in Seq(Nat) /\ Len(chunk) = e - f
  BY <1>2, <1>3, Piece
<1> HIDE DEF chunk, after
<1>5. /\ Len(chunk) \in 0..MaxChunk /\ buf = Between(B, p, f)
      /\ kept = IF Len(buf) + Len(chunk) > MaxBuffer THEN <<>> ELSE buf
  BY <1>0, <1>3, <1>4
<1> HIDE DEF kept
<1>6. PICK q, i : q \in 0..f /\ kept = Between(B, q, f) /\ At(B, s, end, q, i) /\ told[i] = told[j]
  <2> DEFINE l == Len(chunk)
  <2>1. l \in 0..MaxChunk /\ kept = IF Len(Between(B, p, f)) + l > MaxBuffer THEN <<>> ELSE Between(B, p, f)
    BY <1>5
  <2> HIDE DEF l
  <2>2. Laid(B, s, end) /\ ToldBy(s, told) /\ f \in 0..Len(B) /\ p \in 0..f /\ At(B, s, end, p, j) /\ Stuck(B, p, f)
    BY <1>0
  <2>3. \E q, i : q \in 0..f /\ kept = Between(B, q, f) /\ At(B, s, end, q, i) /\ told[i] = told[j]
    BY <2>1, <2>2, KeptStands
  <2>4. QED
    BY <2>3
<1>7. kept \in Seq(Nat) /\ Len(kept) = f - q /\ kept \o chunk = Between(B, q, e) /\ q \in 0..e
  <2>1. Between(B, q, f) \in Seq(Nat) /\ Len(Between(B, q, f)) = f - q
    BY <1>2, <1>6, Piece
  <2>2. Between(B, q, f) \o Between(B, f, e) = Between(B, q, e)
    BY <1>2, <1>3, <1>6, PiecesJoin
  <2>3. q \in 0..e
    BY <1>3, <1>6
  <2>4. QED
    BY <1>6, <2>1, <2>2, <2>3 DEF chunk
<1>8. n \in Nat /\ n > e - q
  <2>1. q \in 0..f /\ Len(kept) = f - q /\ Len(chunk) = e - f /\ f \in Nat /\ e \in Nat
    BY <1>3, <1>4, <1>6, <1>7
  <2>2. Len(kept) + Len(chunk) + 1 \in Nat /\ Len(kept) + Len(chunk) + 1 > e - q
    BY <1>3, <2>1
  <2>3. QED
    BY <2>2
<1> DEFINE base == told[j]
<1>9. base \in Seq(Seq(Nat))
  BY <1>2 DEF ToldBy
<1>10. Course(B, s, end, told, base, e)
  BY <1>3, <1>9 DEF Course
<1> HIDE DEF base
<1>11. z \in Parsing /\ z.buf = Between(B, q, e) /\ z.out = <<>> /\ ~z.done
  <2>1. kept \o chunk \in Seq(Nat) /\ <<>> \in Seq(Seq(Nat))
    BY <1>4, <1>7, ConcatProperties, EmptySeq
  <2>2. QED
    BY <1>7, <2>1 DEF Parsing
<1> HIDE DEF n, z
<1>12. base \o z.out = told[i]
  <2>1. base \o <<>> = base
    BY <1>9, ConcatEmptySeq
  <2>2. QED
    BY <1>6, <1>11, <2>1 DEF base
<1>13. Stands(B, s, end, told, base, e, z, q, i)
  BY <1>6, <1>7, <1>11, <1>12 DEF Stands
<1>14. PICK r, h : Stands(B, s, end, told, base, e, after[n], r, h) /\ Stuck(B, r, e)
  <2>1. after = CHOOSE g : g = [k \in 0..n |-> IF k = 0 THEN z ELSE Rtcm!Pass(g[k - 1])]
    BY DEF after
  <2>2. QED
    BY <1>8, <1>10, <1>11, <1>13, <2>1, PassesEnd
<1>15. /\ r \in 0..e /\ after[n].buf = Between(B, r, e) /\ At(B, s, end, r, h)
       /\ base \o after[n].out = told[h]
  BY <1>14 DEF Stands
<1>16. got \o w.out = told[h] /\ w.buf = Between(B, r, e)
  BY <1>0, <1>1, <1>15 DEF base
<1>17. QED
  BY <1>14, <1>15, <1>16 DEF InStep

\* A parser that is stuck when all is read told of every frame.
LEMMA AllIsTold ==
  ASSUME NEW B, NEW s, NEW end, Laid(B, s, end), NEW told, ToldBy(s, told),
         NEW p, NEW j, At(B, s, end, p, j), Stuck(B, p, Len(B))
  PROVE  told[j] = told[Len(s)]
<1> DEFINE m == Len(s)
<1>1. /\ m \in Nat /\ Len(B) \in Nat /\ \A k \in 0..m : end[k] \in Nat
      /\ Len(B) = end[m] + MaxPayload + 3 /\ MaxPayload \in Nat
      /\ \A i \in 1..(MaxPayload + 3) : B[end[m] + i] = 0
  BY LaidBytes, StreamSizes
<1>2. end[m] \in Nat /\ j \in 0..m /\ end[j] \in Nat /\ p \in end[j]..Len(B)
  BY <1>1 DEF At
<1>3. p \in 0..Len(B)
  BY <1>1, <1>2
<1>4. \A i \in (p + 1)..Len(B) : B[i] # Rtcm!Preamble
  <2>1. SUFFICES ASSUME p < Len(B), B[p + 1] = Rtcm!Preamble,
                        Len(B) < p + 2 \/ (B[p + 2] \in 1..MaxPayload /\ Len(B) < p + B[p + 2] + 3)
                 PROVE  FALSE
    BY DEF Stuck
  <2>2. p >= end[m]
    <3>1. CASE Len(B) < p + 2
      BY <1>1, <1>2, <1>3, <3>1
    <3>2. CASE B[p + 2] \in 1..MaxPayload /\ Len(B) < p + B[p + 2] + 3
      <4> DEFINE x == B[p + 2]
      <4>1. x \in 1..MaxPayload /\ Len(B) < p + x + 3
        BY <3>2
      <4> HIDE DEF x
      <4>2. QED
        BY <1>1, <1>2, <1>3, <4>1
    <3>3. QED
      BY <2>1, <3>1, <3>2
  <2>3. (p + 1) - end[m] \in 1..(MaxPayload + 3) /\ end[m] + ((p + 1) - end[m]) = p + 1
    <3> DEFINE x == end[m]
    <3>1. x \in Nat /\ p >= x /\ p \in Nat /\ p < x + MaxPayload + 3 /\ MaxPayload \in Nat
      BY <1>1, <1>2, <1>3, <2>1, <2>2
    <3> HIDE DEF x
    <3>2. (p + 1) - x \in 1..(MaxPayload + 3) /\ x + ((p + 1) - x) = p + 1
      BY <3>1
    <3>3. QED
      BY <3>2 DEF x
  <2>4. B[p + 1] = 0
    BY <1>1, <2>3
  <2>5. QED
    BY <2>1, <2>4 DEF Rtcm!Preamble
<1>5. Len(B) \in p..Len(B)
  BY <1>1, <1>3
<1>6. PICK i : At(B, s, end, Len(B), i) /\ told[i] = told[j]
  BY <1>4, <1>5, PassBytes
<1>7. i = m
  <2>1. SUFFICES ASSUME i # m PROVE FALSE
    OBVIOUS
  <2>2. i \in 0..m /\ i < m /\ (Len(B) = end[i] \/ Len(B) < end[i + 1])
    BY <1>1, <1>6, <2>1 DEF At
  <2>3. i + 1 \in 0..m /\ end[i] < end[m] /\ end[i] \in Nat
    BY <1>1, <2>2, EndsGrow
  <2>4. end[i + 1] <= end[m] /\ end[i + 1] \in Nat
    <3>1. i + 1 = m \/ i + 1 < m
      BY <1>1, <2>2
    <3>2. i + 1 < m => end[i + 1] < end[m]
      BY <1>1, <2>3, EndsGrow
    <3>3. QED
      BY <1>1, <1>2, <2>3, <3>1, <3>2
  <2>5. QED
    <3> DEFINE x == end[i]
               y == end[i + 1]
               v == end[m]
               l == Len(B)
    <3>1. x \in Nat /\ y \in Nat /\ v \in Nat /\ l = v + MaxPayload + 3 /\ MaxPayload \in Nat
      BY <1>1, <1>2, <2>3, <2>4
    <3>2. x < v /\ y <= v /\ (l = x \/ l < y)
      BY <2>2, <2>3, <2>4
    <3> HIDE DEF x, y, v, l
    <3>3. QED
      BY <3>1, <3>2
<1>8. QED
  BY <1>6, <1>7

\* The payloads of the frames exist: what a run compares found with.
LEMMA ToldByParts ==
  ASSUME stream \in Seq(Rtcm!Segment)
  PROVE  \E told : /\ ToldBy(stream, told)
                   /\ Rtcm!EveryFrameFound <=> (fed = Len(Rtcm!Bytes) => found = told[Len(stream)])
<1> DEFINE n == Len(stream)
           S == Seq(Seq(Nat))
           More(k, x) == IF stream[k] \in Rtcm!Frame THEN Append(x, SubSeq(stream[k], 3, Len(stream[k]) - 1)) ELSE x
           Made(f) == f = [k \in 0..n |-> IF k = 0 THEN <<>> ELSE More(k, f[k - 1])]
           told == CHOOSE f : Made(f)
           step == [k \in Nat |-> [x \in S |-> IF k \in 1..n THEN More(k, x) ELSE <<>>]]
<1>1. Rtcm!EveryFrameFound <=> (fed = Len(Rtcm!Bytes) => found = told[n])
  BY DEF Rtcm!EveryFrameFound
<1>2. n \in Nat /\ \A k \in 1..n : stream[k] \in Seq(Nat)
  BY Segments
<1>3. <<>> \in S
  BY EmptySeq
<1>4. ASSUME NEW k \in 1..n, NEW x \in S PROVE More(k, x) \in S
  <2> DEFINE t == stream[k]
             y == SubSeq(t, 3, Len(t) - 1)
  <2>1. t \in Seq(Nat) /\ Len(t) \in Nat /\ \A i \in 3..(Len(t) - 1) : i \in 1..Len(t)
    BY <1>2, LenProperties
  <2> HIDE DEF t
  <2>2. \A i \in 3..(Len(t) - 1) : t[i] \in Nat
    BY <2>1, ElementOfSeq
  <2>3. Len(t) - 1 \in Int /\ 3 \in Int
    BY <2>1
  <2>4. y \in Seq(Nat)
    BY <2>2, <2>3, SubSeqProperties
  <2> HIDE DEF y
  <2>5. Append(x, y) \in S
    BY <2>4, AppendProperties
  <2>6. QED
    BY <2>5 DEF y, t
<1> HIDE DEF n, S, More
<1>5. step \in [Nat -> [S -> S]]
  BY <1>3, <1>4
<1>6. \A k \in 1..n, x \in S : k \in Nat /\ step[k][x] = More(k, x)
  OBVIOUS
<1> HIDE DEF step
<1>7. PICK f \in [0..n -> S] : Follows(f, <<>>, step, n)
  BY <1>2, <1>3, <1>5, StepByStep
<1>8. Made(f)
  <2>1. \A k \in 0..n : k # 0 => k \in 1..n /\ k - 1 \in 0..n
    BY <1>2
  <2>2. f[0] = <<>> /\ \A k \in 1..n : f[k] = step[k][f[k - 1]]
    BY <1>7 DEF Follows
  <2>3. \A k \in 1..n : f[k - 1] \in S
    BY <1>2, <1>7
  <2>4. \A k \in 1..n : f[k] = More(k, f[k - 1])
    BY <1>6, <2>2, <2>3
  <2>5. \A k \in 0..n : f[k] = IF k = 0 THEN <<>> ELSE More(k, f[k - 1])
    BY <2>1, <2>2, <2>4
  <2>6. QED
    BY <1>7, <2>5
<1> HIDE DEF Made
<1>9. Made(told)
  BY <1>8
<1> HIDE DEF told
<1>10. told[0] = <<>> /\ \A k \in 1..n : told[k] = More(k, told[k - 1])
  <2>1. 0 \in 0..n /\ \A k \in 1..n : k \in 0..n /\ k # 0
    BY <1>2
  <2>2. \A k \in 0..n : told[k] = IF k = 0 THEN <<>> ELSE More(k, told[k - 1])
    BY <1>9 DEF Made
  <2>3. QED
    BY <2>1, <2>2
<1>11. \A k \in 1..n : told[k - 1] \in S => told[k] \in S
  BY <1>4, <1>10, Zenon
<1>12. told = [k \in 0..n |-> told[k]]
  BY <1>9 DEF Made
<1>13. told \in [0..n -> S]
  <2>1. told[0] \in S
    BY <1>3, <1>10
  <2>2. QED
    BY <1>2, <1>11, <1>12, <2>1, StepsStay
<1>14. QED
  BY <1>1, <1>10, <1>13 DEF ToldBy, More, S, n

(* Between two reads: handleBytes is stuck, and told of all before it.      *)
StreamInv ==
  /\ stream \in Seq(Rtcm!Segment) /\ fed \in 0..Len(Rtcm!Bytes)
  /\ \E end : /\ Laid(Rtcm!Bytes, stream, end)
              /\ \A told : ToldBy(stream, told) => InStep(Rtcm!Bytes, stream, end, told, fed, rx, found)

\* Before the first byte, and of a stream of none, nothing is held.
LEMMA StreamAtRest ==
  ASSUME stream \in Seq(Rtcm!Segment), stream = <<>> \/ fed = 0, fed \in 0..Len(Rtcm!Bytes), rx = <<>>, found = <<>>
  PROVE  StreamInv
<1> DEFINE B == Rtcm!Bytes
<1>1. PICK end : Laid(B, stream, end)
  BY Layout
<1>2. /\ B \in Seq(Nat) /\ Len(B) \in Nat /\ Len(stream) \in Nat /\ end[0] = 0
      /\ Len(B) = end[Len(stream)] + MaxPayload + 3
  BY <1>1, LaidBytes
<1>3. fed \in 0..Len(B) /\ fed \in 0..fed /\ fed \in Nat
  BY <1>2
<1> HIDE DEF B
<1>4. rx = Between(B, fed, fed)
  <2>1. Between(B, fed, fed) \in Seq(Nat) /\ Len(Between(B, fed, fed)) = fed - fed /\ fed - fed = 0
    BY <1>2, <1>3, Piece
  <2>2. QED
    BY <2>1, EmptySeq
<1>5. Stuck(B, fed, fed)
  <2>1. \A i \in (fed + 1)..fed : FALSE
    BY <1>3
  <2>2. QED
    BY <2>1 DEF Stuck
<1>6. At(B, stream, end, fed, 0)
  <2>1. stream = <<>> => Len(stream) = 0
    BY EmptySeq
  <2>2. QED
    BY <1>2, <1>3, <2>1 DEF At
<1>7. \A told : ToldBy(stream, told) => found = told[0]
  BY DEF ToldBy
<1>8. \A told : ToldBy(stream, told) => InStep(B, stream, end, told, fed, rx, found)
  BY <1>3, <1>4, <1>5, <1>6, <1>7 DEF InStep
<1>9. QED
  BY <1>1, <1>8 DEF StreamInv, B

\* handleBytes begins so.
LEMMA StreamBegins ==
  ASSUME SensingInit
  PROVE  StreamInv
<1>1. CASE NoStream
  <2>1. stream \in Seq(Rtcm!Segment)
    BY <1>1, EmptySeq DEF NoStream
  <2>2. PICK end : Laid(Rtcm!Bytes, stream, end)
    BY <2>1, Layout
  <2>3. Len(Rtcm!Bytes) \in Nat
    BY <2>2, LaidBytes
  <2>4. QED
    BY <1>1, <2>1, <2>3, StreamAtRest DEF NoStream
<1>2. CASE Rtcm!RInit
  <2>1. stream \in Seq(Rtcm!Segment)
    <3>1. PICK n \in 0..MaxSegments : stream \in [1..n -> Rtcm!Segment]
      BY <1>2 DEF Rtcm!RInit
    <3>2. n \in Nat
      BY SensingAssumption DEF Rtcm!RtcmAssumption
    <3>3. QED
      BY <3>1, <3>2
  <2>2. PICK end : Laid(Rtcm!Bytes, stream, end)
    BY <2>1, Layout
  <2>3. Len(Rtcm!Bytes) \in Nat
    BY <2>2, LaidBytes
  <2>4. fed = 0 /\ rx = <<>> /\ found = <<>>
    BY <1>2 DEF Rtcm!RInit
  <2>5. QED
    BY <2>1, <2>3, <2>4, StreamAtRest
<1>3. QED
  BY <1>1, <1>2 DEF SensingInit

\* A step that leaves the stream alone leaves its bytes alone.
LEMMA BytesStay ==
  ASSUME stream' = stream
  PROVE  Rtcm!Bytes' = Rtcm!Bytes
  BY DEF Rtcm!Bytes, Rtcm!Trailer

\* However many bytes a read returns.
LEMMA ReadKeeps ==
  ASSUME StreamInv, NEW n \in 1..MaxChunk, Rtcm!Read(n)
  PROVE  StreamInv'
<1> DEFINE B == Rtcm!Bytes
           e == fed + n
           chunk == SubSeq(B, fed + 1, e)
           w == Rtcm!HandleBytes(rx, chunk)
<1>1. e <= Len(B) /\ fed' = e /\ rx' = w.buf /\ found' = found \o w.out /\ stream' = stream
  BY DEF Rtcm!Read
<1>2. B' = B
  BY <1>1, BytesStay
<1>3. PICK end : /\ Laid(B, stream, end)
                 /\ \A told : ToldBy(stream, told) => InStep(B, stream, end, told, fed, rx, found)
  BY DEF StreamInv
<1>4. stream \in Seq(Rtcm!Segment) /\ fed \in 0..Len(B) /\ B \in Seq(Nat) /\ Len(B) \in Nat
  BY <1>3, LaidBytes DEF StreamInv
<1>5. e \in fed..Len(B) /\ e \in 0..Len(B) /\ e - fed <= MaxChunk
  BY <1>1, <1>4, StreamSizes
<1>6. chunk = Between(B, fed, e)
  BY DEF Between
<1> HIDE DEF B, e, chunk
<1>7. ASSUME NEW told, ToldBy(stream, told) PROVE InStep(B, stream, end, told, e, rx', found')
  <2>1. InStep(B, stream, end, told, fed, rx, found)
    BY <1>3, <1>7
  <2>2. w = Rtcm!HandleBytes(rx, Between(B, fed, e))
    BY <1>6
  <2>3. Laid(B, stream, end) /\ fed \in 0..Len(B)
    BY <1>3, <1>4
  <2> HIDE DEF w
  <2>4. InStep(B, stream, end, told, e, w.buf, found \o w.out)
    BY <1>5, <1>7, <2>1, <2>2, <2>3, BytesHandled
  <2>5. QED
    BY <1>1, <2>4
<1>8. /\ Laid(B', stream', end) /\ stream' \in Seq(Rtcm!Segment) /\ fed' \in 0..Len(B')
      /\ \A told : ToldBy(stream', told) => InStep(B', stream', end, told, fed', rx', found')
  BY <1>1, <1>2, <1>3, <1>4, <1>5, <1>7
<1>9. QED
  BY <1>8 DEF StreamInv, B

\* When all is read, every frame is told of.
LEMMA StreamTells ==
  ASSUME StreamInv
  PROVE  Rtcm!EveryFrameFound
<1> DEFINE B == Rtcm!Bytes
<1>1. PICK end : /\ Laid(B, stream, end)
                 /\ \A told : ToldBy(stream, told) => InStep(B, stream, end, told, fed, rx, found)
  BY DEF StreamInv
<1>2. stream \in Seq(Rtcm!Segment)
  BY DEF StreamInv
<1>3. PICK told : /\ ToldBy(stream, told)
                  /\ Rtcm!EveryFrameFound <=> (fed = Len(B) => found = told[Len(stream)])
  BY <1>2, ToldByParts
<1> HIDE DEF B
<1>4. PICK p, j : Stuck(B, p, fed) /\ At(B, stream, end, p, j) /\ found = told[j]
  BY <1>1, <1>3 DEF InStep
<1>5. fed = Len(B) => told[j] = told[Len(stream)]
  BY <1>1, <1>3, <1>4, AllIsTold
<1>6. QED
  BY <1>3, <1>4, <1>5

(* Wherever the reads cut the bytes, whatever payloads and noise there are,  *)
(* of any sizes the buffer allows: handleBytes tells of every frame, once    *)
(* and in its place, and of nothing else.                                   *)
THEOREM FramesAreFound == SensingSpec => []EveryFrameFound
<1>1. SensingInit => StreamInv
  BY StreamBegins
<1>2. StreamInv /\ [Calibrating \/ Receives \/ Rests]_allVars => StreamInv'
  <2>1. SUFFICES ASSUME StreamInv, [Calibrating \/ Receives \/ Rests]_allVars PROVE StreamInv'
    OBVIOUS
  <2>2. CASE Receives
    <3>1. PICK n \in 1..MaxChunk : Rtcm!Read(n)
      BY <2>2 DEF Receives, Rtcm!RNext
    <3>2. QED
      BY <2>1, <3>1, ReadKeeps
  <2>3. CASE UNCHANGED streamVars
    <3>1. stream' = stream /\ fed' = fed /\ rx' = rx /\ found' = found
      BY <2>3 DEF streamVars
    <3>2. Rtcm!Bytes' = Rtcm!Bytes
      BY <3>1, BytesStay
    <3>3. QED
      BY <2>1, <3>1, <3>2 DEF StreamInv
  <2>4. QED
    BY <2>1, <2>2, <2>3 DEF Calibrating, Rests, allVars
<1>3. StreamInv => EveryFrameFound
  BY StreamTells DEF EveryFrameFound
<1>4. QED
  BY <1>1, <1>2, <1>3, PTL DEF SensingSpec
=============================================================================
