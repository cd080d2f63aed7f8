-------------------------------- MODULE Routes --------------------------------
(***************************************************************************)
(* The default route in the Wi-Fi + Ethernet mode.  Four parties set it:   *)
(* the event handlers of the interfaces, the MQTT client that loses its     *)
(* connection, and the network monitor, which points it at an interface     *)
(* for up to 1.5 s to see whether SNTP answers there.  There is no lock.    *)
(***************************************************************************)
EXTENDS Integers

CONSTANTS None, MaxChange   \* MaxChange bounds what happens to the interfaces

RoutesAssumption == MaxChange \in Nat

Interface == {"wifi", "eth"}
Other(i) == CHOOSE j \in Interface : j # i

VARIABLES
  prio,       \* net_priority
  up,         \* interfaces with an address
  good, ntp,  \* interfaces through which the broker, an NTP server, answers
  route,      \* the default interface
  mqtt, via,  \* is the client connected, and over which interface
  since,      \* age of the last switch by MQTT: fresh < 15 s, recent < 60 s, old
  probe,      \* the monitor: where it is and what it has read
  changes

surroundings == <<prio, up, good, ntp, changes>>
vars == <<surroundings, route, mqtt, via, since, probe>>

Resting == [at |-> "idle", netif |-> None, prev |-> None, ips |-> {}]

Init ==
  /\ prio \in Interface /\ up = {} /\ changes = 0
  /\ good \in SUBSET Interface /\ ntp \in SUBSET Interface
  /\ route = None /\ mqtt = FALSE /\ via = None /\ since = "old"
  /\ probe = Resting

\* UpdateDefaultNetif, for the interfaces u that have an address.
Default(u) == IF prio \in u THEN prio ELSE IF Other(prio) \in u THEN Other(prio) ELSE route
-----------------------------------------------------------------------------
GotIp(i) ==
  /\ changes < MaxChange /\ changes' = changes + 1
  /\ i \notin up /\ up' = up \cup {i}
  /\ route' = Default(up')
  /\ UNCHANGED <<prio, good, ntp, mqtt, via, since, probe>>

\* With Ethernet first and up, the loss of Wi-Fi leaves the route alone.
LostIp(i) ==
  /\ changes < MaxChange /\ changes' = changes + 1
  /\ i \in up /\ up' = up \ {i}
  /\ route' = IF i = "wifi" /\ prio = "eth" /\ "eth" \in up THEN route ELSE Default(up')
  /\ UNCHANGED <<prio, good, ntp, mqtt, via, since, probe>>

NetworkBeyond ==
  /\ changes < MaxChange /\ changes' = changes + 1
  /\ good' \in SUBSET Interface /\ ntp' \in SUBSET Interface
  /\ UNCHANGED <<prio, up, route, mqtt, via, since, probe>>
-----------------------------------------------------------------------------
Works(i) == i \in up \cap good

\* The client connects by itself; a connection stays on its interface.
Connected ==
  /\ ~mqtt /\ Works(route)
  /\ mqtt' = TRUE /\ via' = route
  /\ UNCHANGED <<surroundings, route, since, probe>>

\* Fault: the other interface, whether it has an address or not.
TheOther == {i \in Interface : i # route}

\* The other interface, when it has an address.
Alternates == {i \in up : i # route}
Alternate == IF "wifi" \in Alternates THEN "wifi" ELSE "eth"

\* Fault: a lost connection changes nothing.
StayOnRoute ==
  /\ IF mqtt THEN ~Works(via) ELSE route # None /\ ~Works(route)
  /\ mqtt' = FALSE /\ via' = None
  /\ UNCHANGED <<surroundings, route, since, probe>>

\* NotifyMqttDisconnected: a lost connection or a failed attempt.
Disconnected ==
  /\ IF mqtt THEN ~Works(via) ELSE route # None /\ ~Works(route)
  /\ mqtt' = FALSE /\ via' = None
  /\ IF since # "fresh" /\ Alternates # {} THEN route' = Alternate /\ since' = "fresh"
     ELSE UNCHANGED <<route, since>>
  /\ UNCHANGED <<surroundings, probe>>

TimePasses ==
  /\ since # "old" /\ since' = IF since = "fresh" THEN "recent" ELSE "old"
  /\ UNCHANGED <<surroundings, route, mqtt, via, probe>>
-----------------------------------------------------------------------------
(* NetworkMonitorTask.                                                      *)

\* MQTT decides: the monitor only looks whether SNTP answers.
Watch ==
  /\ probe.at = "idle" /\ (mqtt \/ since # "old")
  /\ route # None /\ probe' = [Resting EXCEPT !.at = "watch", !.netif = route]
  /\ UNCHANGED <<surroundings, route, mqtt, via, since>>

\* TrySyncTimeOnNetif sets the route to the interface it asks about.
WatchStarts ==
  /\ probe.at = "watch"
  /\ probe' = [probe EXCEPT !.at = "watching", !.prev = route] /\ route' = probe.netif
  /\ UNCHANGED <<surroundings, mqtt, via, since>>

\* It restores the route it found, whatever has happened since.
WatchEnds ==
  /\ probe.at = "watching" /\ probe' = Resting
  /\ route' = IF probe.prev # probe.netif THEN probe.prev ELSE route
  /\ UNCHANGED <<surroundings, mqtt, via, since>>

\* MQTT is not connected: the preferred interface is asked, then the other.
Ask ==
  /\ probe.at = "idle" /\ ~mqtt /\ since = "old"
  /\ IF prio \in up
     THEN probe' = [at |-> "asking", netif |-> prio, prev |-> route, ips |-> up] /\ route' = prio
     ELSE IF Other(prio) \in up
     THEN probe' = [at |-> "asking", netif |-> Other(prio), prev |-> route, ips |-> up] /\ route' = Other(prio)
     ELSE probe' = Resting /\ route' = Default(up)
  /\ UNCHANGED <<surroundings, mqtt, via, since>>

\* The one that answered becomes the route, over any switch in the meantime.
Answered ==
  /\ probe.at = "asking" /\ probe.netif \in ntp \cap up
  /\ route' = probe.netif /\ probe' = Resting
  /\ UNCHANGED <<surroundings, mqtt, via, since>>

NoAnswer ==
  /\ probe.at = "asking" /\ probe.netif \notin ntp \cap up
  /\ IF probe.netif = prio /\ Other(prio) \in probe.ips
     THEN probe' = [probe EXCEPT !.netif = Other(prio)] /\ route' = Other(prio)
     ELSE probe' = Resting /\ route' = Default(up)
  /\ UNCHANGED <<surroundings, mqtt, via, since>>

Monitor == Watch \/ WatchStarts \/ WatchEnds \/ Ask \/ Answered \/ NoAnswer
-----------------------------------------------------------------------------
Next ==
  \/ \E i \in Interface : GotIp(i) \/ LostIp(i)
  \/ NetworkBeyond \/ Connected \/ Disconnected \/ TimePasses \/ Monitor

Spec == Init /\ [][Next]_vars

\* The monitor runs, the client goes on trying, time passes.  The probes take
\* 3 s of 15, so attempts to connect find the route between two of them as well.
Fairness == WF_vars(Monitor) /\ SF_vars(Connected) /\ WF_vars(Disconnected) /\ WF_vars(TimePasses)

FairSpec == Spec /\ Fairness
-----------------------------------------------------------------------------
TypeOK ==
  /\ prio \in Interface /\ up \subseteq Interface /\ good \subseteq Interface /\ ntp \subseteq Interface
  /\ route \in Interface \cup {None} /\ via \in Interface \cup {None} /\ mqtt \in BOOLEAN
  /\ since \in {"fresh", "recent", "old"} /\ changes \in 0..MaxChange
  /\ probe \in [at : {"idle", "watch", "watching", "asking"}, netif : Interface \cup {None},
                prev : Interface \cup {None}, ips : SUBSET Interface]

(* When some interface reaches the broker for good, the client is connected  *)
(* in the end and stays so, wherever the monitor has pointed the route.      *)
MqttConnects == <>[](\E i \in Interface : Works(i)) => <>[]mqtt

(* When some interface keeps an address, the default route settles on such  *)
(* an interface, through all rotations and probes, unless MQTT is connected  *)
(* over the other one: then the monitor only watches, and a dead route may   *)
(* stay.                                                                     *)
RouteSettles == <>[](up # {}) => <>[](route \in up \/ (mqtt /\ via # route))
=============================================================================
