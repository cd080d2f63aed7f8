------------------------------ MODULE Settings ------------------------------
(***************************************************************************)
(* The settings of a device whose clients send commands of one kind, in    *)
(* any order and over both front ends, and which is restarted in between.  *)
(* Every save reaches config.txt (ConfigStore is about those that do not). *)
(***************************************************************************)
EXTENDS Requests, Functions

VARIABLES
  kind,      \* the command the clients of this behaviour send
  settings   \* app_config and pid_config

vars == <<kind, settings>>

Num(n) == [t |-> "num", v |-> n]
Str(s) == [t |-> "str", v |-> s]
Bool(x) == [t |-> "bool", v |-> x]
Text(n) == [size |-> n, padded |-> FALSE, lines |-> FALSE]

\* What the firmware is built with.
Default ==
  [ssid |-> Text(5), password |-> Text(PasswordMin + 1), ap |-> FALSE, mode |-> "wifi", priority |-> "wifi",
   dhcp |-> TRUE, address |-> "192.168.1.50", types |-> <<1004, 1006, 1033>>, gps |-> "base_time_60",
   steps |-> 100, each |-> TRUE, speed |-> 1500, offset |-> 0, hall |-> 0, gain |-> 1, setpoint |-> 25,
   index |-> 0, mask |-> Bit(0), device |-> Text(7), cloud |-> Blank, minio |-> FALSE, uri |-> Blank, mqtt |-> FALSE,
   poll |-> 9, file |-> 60, duration |-> 10]

Texts == {Blank, Text(3), [Text(4) EXCEPT !.padded = TRUE], [Text(4) EXCEPT !.lines = TRUE]}

(* Bodies with every field of their command, each of the type it should be  *)
(* and by one of its names.                                                 *)
NetBodies ==
  [mode : {Str("wifi"), Str("both"), Str("junk")}, priority : {Str("wifi"), Str("ethernet"), Str("junk")},
   ethDhcp : {Bool(TRUE), Bool(FALSE)}, ethIp : {Str("10.0.0.9"), Str("10.0.0.8"), Str("0.0.0.0"), Str("")}]
TypeLists ==
  {[t |-> "arr", v |-> s] : s \in {<<Num(1006), Num(0), Num(1006)>>, <<Num(5000)>>, <<Str(1033), Num(4095)>>}}
  \cup {[t |-> "str", v |-> s] : s \in {<<>>, <<Num(1033), Num(1033)>>}}
GpsBodies == [mode : {Str("base"), Str("rover"), Str("junk"), Str("")}, rtcmTypes : TypeLists]
Counts == {Num(-5), Num(0), Num(400), Num(10001)}
HttpMoves == [steps : Counts, direction : {Str("forward"), Str("back")}, speed : {Num(0), Num(7)}]
MqttMoves == [steps : Counts, reverse : {Bool(TRUE), Bool(FALSE)}, speedUs : {Num(0), Num(7)}]
Complete(k) ==
  CASE k = "wifi" ->
         [mode : {Str("sta"), Str("ap")}, ssid : {Str(Blank), Str(Text(SsidMax - 1)), Str(Text(SsidMax))},
          password : {Str(t) : t \in {Blank, Text(PasswordMin - 1), Text(PasswordMin), Text(PasswordMax),
                                      [Text(PasswordMin) EXCEPT !.padded = TRUE]}}]
    [] k = "net" -> NetBodies
    [] k = "cloud" ->
         [deviceId : {Str(t) : t \in Texts}, minioEndpoint : {Str(t) : t \in Texts},
          mqttUri : {Str(t) : t \in Texts}, minioEnabled : {Bool(FALSE)}, mqttEnabled : {Bool(TRUE), Bool(FALSE)}]
    [] k = "gps" -> GpsBodies
    [] k = "meteo" -> [pollIntervalS : {Num(n) : n \in {0, 1, 3600, 3601}}, fileIntervalS : {Num(n) : n \in {9, 10, 86400, 86401}}]
    [] k = "home" ->
         LET steps == {Num(0), Num(20001)}
             each == {Bool(FALSE)}
             level == {Num(0), Num(2)}
             offsets == {Num(-1), Num(4)}
             speeds == {Num(0), Num(7)}
         IN [loggingMotorSteps : steps, loggingHomeEachCycle : each, hallActiveLevel : level,
             offset : offsets, speed : speeds]
            \cup [loggingMotorSteps : steps, loggingHomeEachCycle : each, hallActiveLevel : level,
                  offsetSteps : offsets, speedUs : speeds]
    [] k = "pid" ->
         LET gain == {Num(0), Num(2)}
             one == {Num(n) : n \in {-1, 0, MaxTemp}}
             lists == {[t |-> "arr", v |-> s] : s \in {<<>>, <<Num(1), Num(0)>>, <<Num(MaxTemp), Str(0)>>}}
             masks == {Num(m) : m \in SUBSET (0..MaxTemp)}
         IN [kp : gain, setpoint : {Num(1)}, sensor : one]
            \cup [kp : gain, setpoint : {Num(1)}, sensor : one, sensors : lists]
            \cup [kp : gain, setpoint : {Num(1)}, sensor : one, sensorMask : masks]
    [] k = "move" -> HttpMoves \cup MqttMoves
    [] k = "power" -> [enabled : {Bool(TRUE), Bool(FALSE)}] \cup [on : {Num(0), Num(1)}]
    [] k = "cycle" -> [offMs : {Num(n) : n \in {-1, 0, 1, 99, 100, 30000, 30001}}]
    [] k = "percent" -> [power : {Num(n) : n \in {-1, 0, 100, 101}}]
    [] k = "log" -> [useMotor : {Bool(TRUE), Bool(FALSE)}, durationSec : {Num(n) : n \in {-3, 0, 1, 2, 30}}]
    [] k = "clear" -> [maxFiles : {Num(n) : n \in {-1, 0, 1, 1000, 1001}}]

Stored == {"wifi", "net", "cloud", "gps", "meteo", "home", "pid"}
Kinds == Stored \cup {"move", "power", "cycle", "percent", "log", "clear"}

(* The outcome of a body; count is the number of sensors that the state     *)
(* shows, zero before the first reading.                                    *)
Http(k, b, c, count) ==
  CASE k = "wifi" -> HttpWifiApply(b, c) [] k = "net" -> HttpNetApply(b, c) [] k = "cloud" -> HttpCloudApply(b, c)
    [] k = "gps" -> HttpGpsApply(b, c) [] k = "meteo" -> HttpMeteoConfig(b, c) [] k = "home" -> HttpHomeOffset(b, c)
    [] k = "pid" -> HttpPidApply(b, c, count) [] k = "move" -> HttpStepperMove(b, c) [] k = "power" -> HttpPowerSet(b)
    [] k = "cycle" -> HttpPowerCycle(b) [] k = "percent" -> HttpPercent(b) [] k = "log" -> HttpLogStart(b)
    [] k = "clear" -> HttpUploadedClear(b)
Mqtt(k, b, c, count) ==
  CASE k = "wifi" -> MqttWifiApply(b, c) [] k = "net" -> MqttNetApply(b, c) [] k = "cloud" -> MqttCloudApply(b, c)
    [] k = "gps" -> MqttGpsApply(b, c) [] k = "meteo" -> MqttMeteoConfig(b, c) [] k = "home" -> MqttHomeOffset(b, c)
    [] k = "pid" -> MqttPidApply(b, c, count) [] k = "move" -> MqttStepperMove(b, c) [] k = "power" -> MqttPowerSet(b)
    [] k = "cycle" -> MqttPowerCycle(b) [] k = "percent" -> MqttPercent(b) [] k = "log" -> MqttLogStart(b, c)
    [] k = "clear" -> MqttUploadedClear(b)

Partial(k) == UNION {{Restrict(b, DOMAIN b \ {f}) : f \in DOMAIN b} : b \in Complete(k)}

Init == kind \in Kinds /\ settings = Default

Apply(outcome) == outcome # Refused /\ settings' = outcome /\ UNCHANGED kind
Request ==
  /\ kind \in Stored
  /\ \E b \in Complete(kind) \cup Partial(kind), count \in {0, MaxTemp} :
       Apply(Http(kind, b, settings, count)) \/ Apply(Mqtt(kind, b, settings, count))
Restart == settings' = AfterRestart(Default, settings) /\ UNCHANGED kind

Next == Request \/ Restart
Spec == Init /\ [][Next]_vars
-----------------------------------------------------------------------------
(* The complete bodies of which the front ends make something different in *)
(* settings c.  Power is cut for a time that is no time; a log row lasts a *)
(* tenth of a second; a move goes back or has a speed of its own, which    *)
(* HTTP calls direction and speed, MQTT reverse and speedUs; an empty      *)
(* address or mode, which only MQTT fills in.                              *)
ReadApart(k, b, c) ==
  CASE k = "cycle" -> b.offMs.v <= 0
    [] k = "log" -> b.durationSec.v = 1
    [] k = "move" -> \/ ~HttpForward(Item(b, "direction")) \/ GetBool(b, "reverse", FALSE)
                     \/ \E f \in {"speed", "speedUs"} : GetNum(b, f, 0) > 0 /\ GetNum(b, f, 0) # c.speed
    [] k = "net" -> ~b.ethDhcp.v /\ b.ethIp.v = "" /\ MqttNetApply(b, c) # Refused
    [] k = "gps" -> b.mode.v = "" /\ MqttGpsApply(b, c) # Refused
    [] OTHER -> FALSE

(* The two front ends, each with a parser of its own, make the same of a   *)
(* body that has all its fields, by whichever of its names a field comes   *)
(* and however far its value is out of range, in every settings a device   *)
(* can have: of every such body but those of ReadApart, and of none of     *)
(* those.  (What they make of a body with fields missing: README.)         *)
FrontEndsAgree ==
  \A b \in Complete(kind), count \in {0, MaxTemp} :
    Http(kind, b, settings, count) = Mqtt(kind, b, settings, count) <=> ~ReadApart(kind, b, settings)

(* What config.txt can hold comes back at the next start as it was applied. *)
(* What it cannot: a text with blanks around it, with a line end or newly   *)
(* empty, a password shorter than the loader takes, the mask of no sensor.  *)
Storable(c) ==
  /\ \A f \in {"ssid", "password", "device", "cloud", "uri"} :
       c[f] = Default[f] \/ (c[f].size > 0 /\ ~c[f].padded /\ ~c[f].lines)
  /\ c.password.size >= PasswordMin /\ c.mask # {}
RestartKeeps == [][Restart /\ Storable(settings) => settings' = settings]_vars

(* The loader never pairs the SSID of one network with the password of      *)
(* another, whatever was accepted before the restart.                       *)
CredentialsTogether == settings.ssid = Default.ssid <=> settings.password = Default.password

(* README.md:17 gives the password 8 to 63 characters: a network that was   *)
(* accepted is the one the device is on after a restart.                    *)
AcceptedWifiBoots ==
  [][Restart /\ ~settings.password.padded => settings'.ssid = settings.ssid /\ settings'.password = settings.password]_vars
=============================================================================
