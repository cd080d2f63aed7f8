------------------------------ MODULE MCNetwork ------------------------------
(***************************************************************************)
(* Two questions about the network that are checked apart: whether the     *)
(* interfaces get up and stay up (Connectivity), and which of them carries *)
(* the default route (Routes, where addresses come and go at will).  A     *)
(* behaviour is about one; the variables of the other keep their values.   *)
(***************************************************************************)
EXTENDS Connectivity

CONSTANT None

VARIABLES part, prio, up, good, ntp, route, mqtt, via, since, probe, events

routing == <<prio, up, good, ntp, route, mqtt, via, since, probe, events>>

R == INSTANCE Routes WITH changes <- events

ASSUME NetworkAssumption == R!RoutesAssumption

AllModes == Config
\* The links of a behaviour about the routes: nothing is started, nothing fair enabled.
Inert ==
  /\ cfg = [mode |-> "wifi", prio |-> "wifi"] /\ cable = FALSE /\ range = FALSE /\ changes = 0
  /\ ethOn = FALSE /\ ethUp = FALSE /\ wifi = [on |-> FALSE, kind |-> "none"]
  /\ sta = "off" /\ lately = FALSE /\ retry = 0 /\ bits = {}
  /\ fallback = FALSE /\ recover = FALSE /\ sleeping = {} /\ step = [t \in Task |-> "off"]

TwoInit ==
  /\ R!Init
  /\ \/ part = "links" /\ Init /\ prio = "wifi" /\ good = {} /\ ntp = {}
     \/ part = "routes" /\ Inert

Linking == part = "links" /\ Next /\ UNCHANGED <<part, routing>>
Routing == part = "routes" /\ R!Next /\ UNCHANGED <<part, vars>>

\* No fair step of the part that rests is ever enabled.
TwoSpec == TwoInit /\ [][Linking \/ Routing]_<<part, vars, routing>> /\ Fairness /\ R!Fairness
-----------------------------------------------------------------------------
(* The device is again and again reachable (Connectivity).                  *)
StaysReachable == part = "links" => Reachable

(* A station whose network stays in range returns to it (Connectivity).     *)
ComesBack == part = "links" => StationReturns

(* A working way to the broker is found and kept (Routes).                  *)
BrokerIsReached == part = "routes" => R!MqttConnects

(* The default route settles on an interface with an address (Routes).      *)
RouteIsAlive == part = "routes" => R!RouteSettles
=============================================================================
