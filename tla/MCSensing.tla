----------------------------- MODULE MCSensing -----------------------------
(***************************************************************************)
(* Parts that share no state, told apart by part: calibration and the bytes *)
(* of the GNSS receiver as state machines, the calculations of the sensors  *)
(* on every input of a small instance.  A part that does not run rests where*)
(* none of its actions is enabled.                                          *)
(***************************************************************************)
EXTENDS Calibration, Sensors, TLC

CONSTANTS Payload, Noise, MaxPayload, MaxChunk, MaxBuffer, MaxSegments

VARIABLES part, stream, fed, rx, found

Rtcm == INSTANCE RtcmStream

ASSUME SensingAssumption == Rtcm!RtcmAssumption /\ Passes >= 4

streamVars == <<stream, fed, rx, found>>
allVars == <<vars, part, streamVars>>

M1820 == [n \in 1..FamilyBits |-> 0]
Boot == [enabled |-> TRUE, setpoint |-> 0, count |-> 0, temps |-> <<>>, mask |-> {0}, index |-> 0]
Sensor == 0..(MaxTemp - 1)
Attempt == [started : BOOLEAN, ok : SUBSET Sensor]

Scans == [bus : UNION {kSubset(k, Roms) : k \in 0..4}, broken : SUBSET (1..2)]
Selections == [n : 1..MaxTemp, seen : BOOLEAN, attempts : Attempt \X Attempt,
               req : [sensor : -1..MaxTemp, mask : SUBSET Sensor, maskSet : BOOLEAN]]
Overheated == [over : 1..2, gain : [p : 0..1, i : 0..2, d : 0..1],
               memory : [integral : 0..IntegralMax, prev : -2..2 \cup {NaN}, heater : 0..OutputMax]]

(* Frames with preambles (211), line starts (36) and line ends (10) in them  *)
(* and one of a single byte; a line; a line and a header that are cut off;   *)
(* headers that lie; noise.                                                 *)
Payloads == {<<5, 5>>, <<211, 2>>, <<36, 10, 211>>, <<5>>}
Broken == {<<36, 5, 10>>, <<36>>, <<211>>, <<211, 2, 5>>, <<211, 0>>, <<5, 10>>}

NoStream == stream = <<>> /\ fed = Len(Rtcm!Bytes) /\ rx = <<>> /\ found = <<>>

SensingInit ==
  /\ Init
  /\ \/ part \in {"calibration", "scan", "mask", "pid"} /\ NoStream
     \/ part = "stream" /\ Rtcm!RInit

(* Nothing is claimed of a calibration once broken, so it is not followed.  *)
Calibrating == part = "calibration" /\ ~broken /\ Next /\ UNCHANGED <<part, streamVars>>
Receives == part = "stream" /\ Rtcm!RNext /\ UNCHANGED <<vars, part>>
Rests ==
  /\ \/ part \in {"scan", "mask", "pid"}
     \/ part = "stream" /\ fed = Len(Rtcm!Bytes)
     \/ part = "calibration" /\ broken
  /\ UNCHANGED allVars

SensingSpec ==
  /\ SensingInit /\ [][Calibrating \/ Receives \/ Rests]_allVars
  /\ WF_vars(part = "calibration" /\ ~broken /\ AdcTask)
  /\ \A t \in CalTask : WF_vars(part = "calibration" /\ ~broken /\ CalibrationTask(t))

-----------------------------------------------------------------------------
(* The search enumerates: whatever hangs on the bus, the scan finds every  *)
(* M1820 once, as many as the table holds, however the ROMs share their    *)
(* bits; a scan in which a pass breaks off finds a part of them, each once. *)
ScanIsComplete ==
  part = "scan" => \A input \in Scans :
    LET scan == ScanSensors(input.bus, input.broken)
        mine == {r \in input.bus : SubSeq(r, 1, FamilyBits) = Family}
    IN /\ IsInjective(scan) /\ Range(scan) \subseteq mine
       /\ input.broken = {} => Len(scan) = Min({MaxDevices, Cardinality(mine)})

(* A mask asked for while there are n sensors, at a moment when TempTask    *)
(* has or has not published its first reading: after its next reading       *)
(* PidTask regulates on sensors that exist and answered, on those asked for *)
(* when the request saw the sensors and named any, and on all of them that  *)
(* the attempt read.                                                        *)
RegulatesAsAsked ==
  part = "mask" => \A input \in Selections :
    LET n == input.n
        req == input.req
        before == IF input.seen THEN [Boot EXCEPT !.count = n, !.temps = [i \in 0..(n - 1) |-> i]] ELSE Boot
        got == ReadTemperatures(n, input.attempts, [i \in Sensor |-> i])
        c == TempTask(PidApply(before, req, before.count), got)
        asked == req.mask \cap 0..(n - 1)
        answered == {i \in 0..(n - 1) : c.temps[i] # NaN}
    IN got.ok =>
         /\ PidMask(c) # {} /\ PidMask(c) \subseteq 0..(n - 1)
         /\ Regulating(c) = PidMask(c) \cap answered
         /\ input.seen /\ req.maskSet /\ asked # {} => PidMask(c) = asked

(* No wind-up: however long the heater was at its limit, once the           *)
(* temperature stays above the setpoint the controller switches it off      *)
(* within the rounds that empty the integral.                               *)
PidUnwinds ==
  part = "pid" => \A input \in Overheated :
    LET hot == [Boot EXCEPT !.count = 1, !.temps = [i \in {0} |-> input.over]]
    IN PidRounds(input.memory, input.gain, hot, IntegralMax + 2).heater = 0

(* A property of the module that this one instantiates: see RtcmStream. *)
EveryFrameFound == Rtcm!EveryFrameFound
=============================================================================
