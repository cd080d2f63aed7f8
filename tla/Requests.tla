------------------------------ MODULE Requests ------------------------------
(***************************************************************************)
(* The commands of a client, from the JSON body to the settings they       *)
(* change, and config.txt, from the settings to the text and back at the   *)
(* next start.  HTTP and MQTT read the same commands each in its own code; *)
(* both call the actions of control_actions.cpp.                           *)
(*                                                                         *)
(* A body is a function from field names to items, an item has the type    *)
(* and the value cJSON gives it; a mask is the set of its bits.  A free    *)
(* text is its length, whether it has blanks around it and whether it      *)
(* contains a line end.  One gain stands for kp, ki and kd, one address    *)
(* for the four of the static Ethernet interface, one text for the texts   *)
(* that only the cloud settings hold.  The outcome of a request is the     *)
(* settings it leads to, or Refused.                                       *)
(***************************************************************************)
EXTENDS SensorMask, Sequences, SequencesExt

CONSTANTS
  Refused,
  SsidMax, PasswordMin, PasswordMax,  \* 32, 8 and 64
  Huge                                \* what a negative number is as uint32_t

Blank == [size |-> 0, padded |-> FALSE, lines |-> FALSE]
Missing == [t |-> "none", v |-> 0]

Item(b, f) == IF f \in DOMAIN b THEN b[f] ELSE Missing
First(b, f, g) == IF f \in DOMAIN b THEN b[f] ELSE Item(b, g)
IntOf(i) == IF i.t = "num" THEN i.v ELSE IF i.t = "bool" /\ i.v THEN 1 ELSE 0
GetNum(b, f, default) == IF Item(b, f).t = "num" THEN Item(b, f).v ELSE default
GetStr(b, f, empty) == IF Item(b, f).t = "str" THEN Item(b, f).v ELSE empty
Truth(i, default) == CASE i.t = "bool" -> i.v [] i.t = "num" -> i.v # 0 [] OTHER -> default
GetBool(b, f, default) == Truth(Item(b, f), default)
IsTrue(i, default) == IF i.t = "bool" THEN i.v ELSE default
-----------------------------------------------------------------------------
(* Actuators: the outcome is what is set. *)

HttpPowerSet(b) ==
  LET on == First(b, "enabled", "on") IN IF on.t \in {"bool", "num"} THEN Truth(on, FALSE) ELSE Refused
MqttPowerSet(b) == GetBool(b, "enabled", GetBool(b, "on", TRUE))

CycleExternalPower(off) == Limited(off, 100, 30000)
HttpPowerCycle(b) == CycleExternalPower(IF GetNum(b, "offMs", 0) > 0 THEN b["offMs"].v ELSE 1000)
MqttPowerCycle(b) ==
  LET off == GetNum(b, "offMs", 1000) IN CycleExternalPower(IF off < 0 THEN Huge ELSE off)

HttpPercent(b) == IF Item(b, "power").t = "num" THEN Limited(b["power"].v, 0, 100) ELSE Refused
MqttPercent(b) == Limited(GetNum(b, "power", 0), 0, 100)

(* A direction is a word, a number or a boolean; only words that begin as   *)
(* backwards do turn the motor back.                                        *)
HttpForward(i) == CASE i.t = "str" -> i.v \notin {"back", "rev"} [] OTHER -> Truth(i, TRUE)
StepperMove(steps, forward, speed, c) ==
  [steps |-> Limited(steps, 1, 10000), forward |-> forward, speed |-> IF speed > 0 THEN speed ELSE c.speed]
HttpStepperMove(b, c) ==
  StepperMove(IF "steps" \in DOMAIN b THEN IntOf(b["steps"]) ELSE 400, HttpForward(Item(b, "direction")),
              IF "speed" \in DOMAIN b THEN IntOf(b["speed"]) ELSE c.speed, c)
MqttStepperMove(b, c) ==
  StepperMove(GetNum(b, "steps", 400), ~GetBool(b, "reverse", FALSE), GetNum(b, "speedUs", c.speed), c)

(* The duration a session starts with, in tenths of a second. *)
LogDuration(d) == IF d <= 0 THEN 10 ELSE d
HttpLogStart(b) ==
  [motor |-> IsTrue(Item(b, "useMotor"), FALSE),
   duration |-> LogDuration(IF GetNum(b, "durationSec", 0) > 1 THEN b["durationSec"].v ELSE 10)]
MqttLogStart(b, c) ==
  [motor |-> GetBool(b, "useMotor", FALSE), duration |-> LogDuration(GetNum(b, "durationSec", c.duration))]

UploadedClear(n) == Limited(IF n > 0 THEN n ELSE 1000, 1, 1000)
HttpUploadedClear(b) ==
  LET most == Item(b, "maxFiles") IN UploadedClear(IF most.t = "num" THEN most.v ELSE 1000)
MqttUploadedClear(b) == UploadedClear(GetNum(b, "maxFiles", 1000))
-----------------------------------------------------------------------------
(* Settings. *)

StepperHomeOffset(c, q) ==
  [c EXCEPT !.offset = q.offset, !.speed = IF q.speed > 0 THEN q.speed ELSE @,
            !.steps = IF q.steps.t = "num" THEN Limited(q.steps.v, 1, 20000) ELSE @,
            !.each = IsTrue(q.each, @),
            !.hall = IF q.hall.t = "num" THEN (IF q.hall.v # 0 THEN 1 ELSE 0) ELSE @]
HomeRequest(b, offset, speed) ==
  [offset |-> offset, speed |-> speed, steps |-> Item(b, "loggingMotorSteps"),
   each |-> Item(b, "loggingHomeEachCycle"), hall |-> First(b, "hallActiveLevel", "motorHallActiveLevel")]
HttpHomeOffset(b, c) ==
  LET offset == First(b, "offsetSteps", "offset")
      speed == First(b, "speedUs", "speed")
  IN StepperHomeOffset(c, HomeRequest(b, IF offset.t = "num" THEN offset.v ELSE c.offset,
                                         IF speed.t = "num" /\ speed.v > 0 THEN speed.v ELSE c.speed))
\* Fault: the second name of a field is not known.
MqttHomeOneName(b, c) ==
  StepperHomeOffset(c, HomeRequest(b, GetNum(b, "offsetSteps", c.offset), GetNum(b, "speedUs", c.speed)))

MqttHomeOffset(b, c) ==
  StepperHomeOffset(c, HomeRequest(b, GetNum(b, "offsetSteps", GetNum(b, "offset", c.offset)),
                                      GetNum(b, "speedUs", GetNum(b, "speed", c.speed))))

(* The list of sensors wins over the mask. *)
SensorsOf(list) == {i.v : i \in {j \in Range(list.v) : j.t = "num"}} \cap 0..(MaxTemp - 1)
PidRequest(c, gain, setpoint, sensor, list, mask, count) ==
  PidApply([c EXCEPT !.gain = gain, !.setpoint = setpoint],
           [sensor |-> sensor, maskSet |-> list.t = "arr" \/ mask.t = "num",
            mask |-> IF list.t = "arr" THEN SensorsOf(list) ELSE IF mask.t = "num" THEN mask.v ELSE c.mask], count)
HttpPidApply(b, c, count) ==
  LET gain == Item(b, "kp")
      setpoint == Item(b, "setpoint")
      sensor == Item(b, "sensor")
  IN PidRequest(c, IF gain.t = "num" THEN gain.v ELSE c.gain, IF setpoint.t = "num" THEN setpoint.v ELSE c.setpoint,
                IF sensor.t = "num" THEN sensor.v ELSE c.index, Item(b, "sensors"), Item(b, "sensorMask"), count)
MqttPidApply(b, c, count) ==
  PidRequest(c, GetNum(b, "kp", c.gain), GetNum(b, "setpoint", c.setpoint), GetNum(b, "sensor", c.index),
             Item(b, "sensors"), Item(b, "sensorMask"), count)

WifiApply(c, mode, ssid, password) ==
  IF ssid.size = 0 \/ ssid.size >= SsidMax \/ password.size >= PasswordMax THEN Refused
  ELSE [c EXCEPT !.ssid = ssid, !.password = password, !.ap = (mode = "ap")]
HttpWifiApply(b, c) ==
  WifiApply(c, GetStr(b, "mode", "sta"), GetStr(b, "ssid", Blank), GetStr(b, "password", Blank))
MqttWifiApply(b, c) ==
  WifiApply(c, GetStr(b, "mode", ""), GetStr(b, "ssid", Blank), GetStr(b, "password", Blank))

NetModeOf(s) ==
  CASE s \in {"wifi", "wifi_only", "wifi-only"} -> "wifi"
    [] s \in {"eth", "ethernet", "eth_only", "eth-only"} -> "eth"
    [] s \in {"both", "wifi+eth", "wifi_eth", "wifi-eth"} -> "both"
    [] OTHER -> Refused
NetPriorityOf(s) == CASE s = "wifi" -> "wifi" [] s \in {"eth", "ethernet"} -> "eth" [] OTHER -> Refused

(* A static interface needs four addresses other than zero. *)
ValidAddress(address) == address \notin {"", "junk", "0.0.0.0"}

NetApply(c, mode, priority, dhcp, address) ==
  LET m == IF mode = "" THEN c.mode ELSE NetModeOf(mode)
      p == IF priority = "" THEN c.priority ELSE NetPriorityOf(priority)
  IN IF m = Refused \/ p = Refused \/ (~dhcp /\ ~ValidAddress(address)) THEN Refused
     ELSE [c EXCEPT !.mode = m, !.priority = p, !.dhcp = dhcp, !.address = IF dhcp THEN @ ELSE address]
HttpNetApply(b, c) ==
  NetApply(c, GetStr(b, "mode", ""), GetStr(b, "priority", ""), IsTrue(Item(b, "ethDhcp"), TRUE),
           GetStr(b, "ethIp", ""))
MqttNetApply(b, c) ==
  LET address == GetStr(b, "ethIp", "")
  IN NetApply(c, GetStr(b, "mode", ""), GetStr(b, "priority", ""), GetBool(b, "ethDhcp", c.dhcp),
              IF address = "" THEN c.address ELSE address)

(* NormalizeMqttUri trims; what it does to scheme and quotes is left out. *)
Trim(t) == IF t.padded THEN [t EXCEPT !.padded = FALSE, !.size = @ - 1] ELSE t
CloudApply(c, device, cloud, minio, uri, mqtt) ==
  [c EXCEPT !.device = device, !.cloud = cloud, !.minio = minio, !.uri = Trim(uri), !.mqtt = mqtt]
HttpCloudApply(b, c) ==
  CloudApply(c, GetStr(b, "deviceId", Blank), GetStr(b, "minioEndpoint", Blank), GetBool(b, "minioEnabled", c.minio),
             GetStr(b, "mqttUri", Blank), GetBool(b, "mqttEnabled", c.mqtt))
MqttCloudApply(b, c) ==
  CloudApply(c, GetStr(b, "deviceId", Blank), GetStr(b, "minioEndpoint", Blank), GetBool(b, "minioEnabled", c.minio),
             GetStr(b, "mqttUri", Blank), GetBool(b, "mqttEnabled", c.mqtt))

(* RTCM message types, from a list of numbers and strings or from one text  *)
(* split at its separators; out of range or twice is left out.              *)
AddType(types, n) == IF n \in 1..4095 /\ ~Contains(types, n) THEN Append(types, n) ELSE types
TypesOf(numbers) ==
  LET taken[n \in 0..Len(numbers)] == IF n = 0 THEN <<>> ELSE AddType(taken[n - 1], numbers[n])
  IN taken[Len(numbers)]
ParseRtcmTypes(i) ==
  CASE i.t \in {"arr", "str"} ->
         TypesOf([k \in DOMAIN i.v |-> IF i.v[k].t \in {"num", "str"} THEN i.v[k].v ELSE 0])
    [] OTHER -> <<>>
GpsModes == {"keep", "base_time_60", "base", "rover_uav", "rover"}
GpsApply(c, types, mode) ==
  IF types = <<>> \/ mode \notin GpsModes THEN Refused ELSE [c EXCEPT !.types = types, !.gps = mode]
HttpGpsApply(b, c) ==
  GpsApply(c, ParseRtcmTypes(Item(b, "rtcmTypes")),
           GetStr(b, "mode", IF c.gps = "" THEN "base_time_60" ELSE c.gps))
MqttGpsApply(b, c) ==
  LET mode == GetStr(b, "mode", "")
  IN GpsApply(c, ParseRtcmTypes(Item(b, "rtcmTypes")), IF mode = "" THEN "base_time_60" ELSE mode)

PollSeconds == 1..3600
FileSeconds == 10..86400
ValidIntervals(poll, file) == poll \in PollSeconds /\ file \in FileSeconds
MeteoConfigApply(c, poll, file) ==
  IF ValidIntervals(poll, file) THEN [c EXCEPT !.poll = poll, !.file = file] ELSE Refused
Integers2(b) == Item(b, "pollIntervalS").t = "num" /\ Item(b, "fileIntervalS").t = "num"
HttpMeteoConfig(b, c) ==
  IF Integers2(b) THEN MeteoConfigApply(c, b["pollIntervalS"].v, b["fileIntervalS"].v) ELSE Refused
MqttMeteoConfig(b, c) ==
  IF Integers2(b) THEN MeteoConfigApply(c, b["pollIntervalS"].v, b["fileIntervalS"].v)
  ELSE MeteoConfigApply(c, 0, 0)
-----------------------------------------------------------------------------
(* config.txt.  A text loses the blanks around it, ends at its first line   *)
(* end, and is not written at all when it is empty and optional.            *)

Line(t) == Trim(IF t.lines THEN [t EXCEPT !.lines = FALSE, !.size = @ - 1] ELSE t)

(* BuildConfigText writes every setting; empty lists and modes get their    *)
(* defaults.                                                                *)
FreeTexts == {"ssid", "password", "device", "cloud", "uri"}
Written(f, v) ==
  CASE f \in FreeTexts -> Line(v)
    [] f = "types" -> IF v = <<>> THEN <<1004, 1006, 1033>> ELSE v
    [] f = "gps" -> IF v = "" THEN "base_time_60" ELSE v
    [] OTHER -> v
BuildConfigText(c) == [f \in DOMAIN c |-> Written(f, c[f])]

\* Fault: only the single sensor of older firmware is read.
OldMask(c) == {Limited(c.index, 0, MaxTemp - 1)}

LoadedMask(c) ==
  LET clamped == c.mask \cap Available(MaxTemp)
  IN IF clamped # {} THEN clamped ELSE {Limited(c.index, 0, MaxTemp - 1)}

\* Fault: each of the two counts alone.
EachAlone(ssidSet, passSet) == ssidSet

(* SSID and password count only together.                                   *)
SsidTaken(ssidSet, passSet) == ssidSet /\ passSet

(* The value of a setting after ParseConfigText, d being the settings the   *)
(* firmware is built with: a line with an invalid value counts as absent.   *)
Loaded(f, d, c) ==
  LET v == c[f]
      Kept(valid) == IF valid THEN v ELSE d[f]
      ssidSet == c.ssid.size > 0 /\ c.ssid.size < SsidMax
      passSet == c.password.size >= PasswordMin /\ c.password.size < PasswordMax
  IN CASE f = "ssid" -> Kept(SsidTaken(ssidSet, passSet))
       [] f = "password" -> Kept(ssidSet /\ passSet)
       [] f \in {"device", "cloud", "uri"} -> Kept(v.size # 0)
       [] f = "mode" -> Kept(NetModeOf(v) # Refused)
       [] f = "priority" -> Kept(NetPriorityOf(v) # Refused)
       [] f = "types" -> (IF TypesOf(v) = <<>> THEN <<1004, 1006, 1033>> ELSE TypesOf(v))
       [] f = "gps" -> Kept(v \in GpsModes)
       [] f = "steps" -> (IF v > 0 THEN Limited(v, 1, 20000) ELSE d[f])
       [] f \in {"speed", "duration"} -> Kept(v > 0)
       [] f = "hall" -> (IF v # 0 THEN 1 ELSE 0)
       [] f = "poll" -> Kept(v \in PollSeconds)
       [] f = "file" -> Kept(v \in FileSeconds)
       [] f = "mask" -> LoadedMask(c)
       [] f = "index" -> FirstSetBitIndex(LoadedMask(c))
       [] OTHER -> v
ParseConfigText(d, c) == [f \in DOMAIN c |-> Loaded(f, d, c)]

AfterRestart(default, c) == ParseConfigText(default, BuildConfigText(c))
=============================================================================
