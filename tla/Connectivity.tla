----------------------------- MODULE Connectivity -----------------------------
(***************************************************************************)
(* How the device gets and keeps a network: network_manager.cpp.           *)
(*                                                                         *)
(* ApplyNetworkConfig, NetworkMonitorTask and two one-shot fallback tasks   *)
(* bring Wi-Fi and Ethernet up; the event handlers of both drivers and a    *)
(* retry task keep them up; when nothing works an access point is opened.   *)
(* They share their task handles and flags without a lock, and InitWifi     *)
(* blocks its caller for up to 15 s, in which any of the others may run.    *)
(*                                                                         *)
(* The drivers are external: an attempt to connect succeeds when the        *)
(* network is in range.  wifi_ap_mode is off.                               *)
(***************************************************************************)
EXTENDS Integers

CONSTANTS
  MaxRetry,    \* attempts before the fallback AP is opened (5 in the code)
  MaxChange,   \* bound on what a user or the surroundings change
  Modes,       \* the pairs [mode, prio] a user may choose
  Patient      \* TRUE: the user changes nothing while a task is pending or at work

ASSUME ConnectivityAssumption == MaxRetry \in Nat /\ MaxChange \in Nat /\ Patient \in BOOLEAN

Config == [mode : {"wifi", "eth", "both"}, prio : {"wifi", "eth"}]
Task == {"apply", "monitor", "ethFb", "apFb"}

VARIABLES
  cfg,          \* app_config.net_mode and net_priority
  cable, range, \* the surroundings: is there a link, is the network in range
  ethOn, ethUp, \* s_eth_started; eth_ip_up
  wifi,         \* the Wi-Fi driver: started, and its mode ("none": not initialised)
  sta,          \* the station: off, idle, trying, up (wifi_ip_sta is set)
  lately,       \* s_last_wifi_connect_us is less than 2 s old
  retry, bits,  \* s_retry_count, s_wifi_event_group
  fallback,     \* s_fallback_ap_active
  recover,      \* the retry task exists
  sleeping,     \* fallback tasks that wait and whose handle is set
  step,         \* what a task does: idle, start, init, wait (InitWifi), ap
  changes

env     == <<cable, range, changes>>
station == <<sta, lately, retry, bits>>
vars    == <<cfg, env, ethOn, ethUp, wifi, station, fallback, recover, sleeping, step>>

Init ==
  /\ cfg \in Modes
  /\ cable \in BOOLEAN /\ range \in BOOLEAN /\ changes = 0
  /\ ethOn = FALSE /\ ethUp = FALSE
  /\ wifi = [on |-> FALSE, kind |-> "none"]
  /\ sta = "off" /\ lately = FALSE /\ retry = 0 /\ bits = {}
  /\ fallback = FALSE /\ recover = FALSE /\ sleeping = {}
  /\ step = [t \in Task |-> IF t = "apply" THEN "start" ELSE IF t = "monitor" THEN "off" ELSE "idle"]

WifiUp == sta = "up"
WifiInited == wifi.kind # "none"
EthFirst == cfg = [mode |-> "both", prio |-> "eth"]
WifiFirst == cfg.mode = "wifi" \/ cfg = [mode |-> "both", prio |-> "wifi"]
Goes(t, s) == step' = [step EXCEPT ![t] = s]

\* app_main starts the monitor when its own ApplyNetworkConfig has returned.
Returns(t) ==
  step' = [step EXCEPT ![t] = "idle", !["monitor"] = IF t = "apply" /\ @ = "off" THEN "idle" ELSE @]
-----------------------------------------------------------------------------
(* Wi-Fi.                                                                   *)

\* EnableFallbackAp ends an attempt and puts the driver in AP+STA mode; it does
\* not start a driver that was stopped.
EnableFallbackAp ==
  IF fallback THEN UNCHANGED <<fallback, wifi, sta>>
  ELSE /\ fallback' = TRUE
       /\ wifi' = [wifi EXCEPT !.kind = "apsta"]
       /\ sta' = IF sta = "off" THEN "off" ELSE "idle"

\* Fault: s_fallback_ap_active outlives the access point.
StopWifiKeepsFlag ==
  /\ recover' = FALSE /\ lately' = FALSE /\ sta' = "off" /\ UNCHANGED fallback
  /\ wifi' = IF WifiInited THEN [on |-> FALSE, kind |-> "null"] ELSE wifi

StopWifi ==
  /\ recover' = FALSE /\ fallback' = FALSE /\ lately' = FALSE /\ sta' = "off"
  /\ wifi' = IF WifiInited THEN [on |-> FALSE, kind |-> "null"] ELSE wifi

\* Up to the wait for an address: the driver restarts, and its start event
\* makes the first attempt.
InitWifi(t) ==
  /\ step[t] = "init" /\ Goes(t, "wait")
  /\ sleeping' = sleeping \ {"apFb"} /\ recover' = FALSE /\ fallback' = FALSE
  /\ wifi' = [on |-> TRUE, kind |-> "sta"]
  /\ sta' = "trying" /\ lately' = TRUE /\ retry' = 0 /\ bits' = {}
  /\ UNCHANGED <<cfg, env, ethOn, ethUp>>

\* An address, a failure or 15 s end the wait; an attempt that is going to
\* succeed takes less.
InitWifiReturns(t) ==
  /\ step[t] = "wait" /\ Returns(t)
  /\ bits # {} \/ ~(sta = "trying" /\ range)
  /\ IF "connected" \in bits
     THEN UNCHANGED <<bits, fallback, wifi, sta, recover>>
     ELSE EnableFallbackAp /\ bits' = bits \cup {"fail"} /\ recover' = TRUE
  /\ UNCHANGED <<cfg, env, ethOn, ethUp, lately, retry, sleeping>>

\* WifiEventHandler: an address.
StaGotIp ==
  /\ sta = "trying" /\ range /\ sta' = "up"
  /\ retry' = 0 /\ lately' = FALSE /\ bits' = bits \cup {"connected"}
  /\ recover' = FALSE /\ fallback' = FALSE
  /\ wifi' = [wifi EXCEPT !.kind = "sta"]
  /\ UNCHANGED <<cfg, env, ethOn, ethUp, sleeping, step>>

\* WifiEventHandler: disconnected, or the attempt failed.  With Ethernet first
\* and up, Wi-Fi is left alone.  An attempt less than 2 s after the last one is
\* not made, and not counted.
StaDisconnected ==
  /\ sta \in {"trying", "up"} /\ ~range
  /\ \/ /\ EthFirst /\ ethUp
        /\ sta' = "idle" /\ recover' = FALSE
        /\ UNCHANGED <<lately, retry, bits, fallback, wifi>>
     \/ /\ ~(EthFirst /\ ethUp) /\ retry < MaxRetry
        /\ IF lately THEN sta' = "idle" /\ UNCHANGED <<lately, retry>>
           ELSE sta' = "trying" /\ lately' = TRUE /\ retry' = retry + 1
        /\ UNCHANGED <<bits, fallback, wifi, recover>>
     \/ /\ ~(EthFirst /\ ethUp) /\ retry >= MaxRetry
        /\ bits' = bits \cup {"fail"} /\ recover' = TRUE
        /\ IF fallback THEN sta' = "idle" /\ UNCHANGED <<fallback, wifi>> ELSE EnableFallbackAp
        /\ UNCHANGED <<lately, retry>>
  /\ UNCHANGED <<cfg, env, ethOn, ethUp, sleeping, step>>

\* Fault: the task retries only next to a fallback AP.
RecoverOnlyNextToAp ==
  /\ recover /\ ~lately /\ sta = "idle" /\ wifi.on /\ wifi.kind = "apsta"
  /\ sta' = "trying" /\ lately' = TRUE
  /\ UNCHANGED <<cfg, env, ethOn, ethUp, wifi, retry, bits, fallback, recover, sleeping, step>>

\* WifiRecoverTask every 15 s; the driver refuses when it is stopped or an AP.
Recover ==
  /\ recover /\ ~lately /\ sta = "idle" /\ wifi.on /\ wifi.kind \in {"sta", "apsta"}
  /\ sta' = "trying" /\ lately' = TRUE
  /\ UNCHANGED <<cfg, env, ethOn, ethUp, wifi, retry, bits, fallback, recover, sleeping, step>>

TimePasses ==
  /\ lately /\ lately' = FALSE
  /\ UNCHANGED <<cfg, env, ethOn, ethUp, wifi, sta, retry, bits, fallback, recover, sleeping, step>>
-----------------------------------------------------------------------------
(* Ethernet.                                                                *)

EthGotIp ==
  /\ ethOn /\ cable /\ ~ethUp /\ ethUp' = TRUE
  /\ sleeping' = {}
  /\ IF cfg.mode = "eth" /\ WifiInited THEN StopWifi
     ELSE UNCHANGED <<wifi, sta, lately, fallback, recover>>
  /\ UNCHANGED <<cfg, env, ethOn, retry, bits, step>>

EthDisconnected ==
  /\ ethUp /\ ~cable /\ ethUp' = FALSE
  /\ sleeping' = sleeping \cup
       (IF cfg.mode = "eth" /\ ~fallback THEN {"apFb"} ELSE IF EthFirst THEN {"ethFb"} ELSE {})
  /\ UNCHANGED <<cfg, env, ethOn, wifi, station, fallback, recover, step>>
-----------------------------------------------------------------------------
(* The tasks.  A fallback task clears its handle when it wakes: from then   *)
(* on nobody can stop it.  A second one wakes when the first has ended.     *)

\* A wait that began after a request outlasts the 0.7 s before it is applied.
Ripe == Patient => step["apply"] # "start"

EthFbWakes ==
  /\ "ethFb" \in sleeping /\ step["ethFb"] = "idle" /\ Ripe
  /\ sleeping' = sleeping \ {"ethFb"}
  /\ Goes("ethFb", IF EthFirst /\ ~ethUp /\ ~WifiUp THEN "init" ELSE "idle")
  /\ UNCHANGED <<cfg, env, ethOn, ethUp, wifi, station, fallback, recover>>

ApFbWakes ==
  /\ "apFb" \in sleeping /\ step["apFb"] = "idle" /\ Ripe
  /\ sleeping' = sleeping \ {"apFb"}
  /\ Goes("apFb", IF ~ethUp /\ ~WifiUp THEN "ap" ELSE "idle")
  /\ UNCHANGED <<cfg, env, ethOn, ethUp, wifi, station, fallback, recover>>

\* Nothing is started when the flag says that an AP is active.
StartConfigAp ==
  /\ step["apFb"] = "ap" /\ Goes("apFb", "idle")
  /\ recover' = FALSE /\ sleeping' = sleeping \ {"apFb"}
  /\ IF fallback /\ WifiInited THEN UNCHANGED <<wifi, sta, bits, fallback>>
     ELSE /\ wifi' = [on |-> TRUE, kind |-> "ap"] /\ sta' = "off"
          /\ bits' = {} /\ fallback' = TRUE
  /\ UNCHANGED <<cfg, env, ethOn, ethUp, lately, retry>>

\* EnsureConfiguredNetworkProgress, by NetworkMonitorTask every 15 s and by a
\* lost MQTT connection.
EnsureConfiguredNetworkProgress ==
  /\ step["monitor"] = "idle"
  /\ ethOn' = (ethOn \/ cfg.mode # "wifi")
  /\ IF cfg.mode = "wifi" /\ ~WifiInited THEN Goes("monitor", "init") ELSE UNCHANGED step
  /\ recover' = (recover \/ (WifiFirst /\ WifiInited /\ ~WifiUp /\ ~fallback))
  /\ sleeping' = sleeping \cup
       (IF cfg.mode = "eth" /\ ~ethUp /\ ~fallback THEN {"apFb"}
        ELSE IF EthFirst /\ ~ethUp /\ ~WifiUp /\ ~recover /\ ~fallback THEN {"ethFb"} ELSE {})
  /\ UNCHANGED <<cfg, env, ethUp, wifi, station, fallback>>

ApplyNetworkConfig ==
  /\ step["apply"] = "start"
  /\ \/ /\ cfg.mode = "wifi" /\ Goes("apply", "init")
        /\ sleeping' = {} /\ ethOn' = FALSE /\ ethUp' = FALSE
        /\ UNCHANGED <<wifi, sta, lately, fallback, recover>>
     \/ /\ cfg.mode = "eth" /\ Returns("apply")
        /\ StopWifi /\ ethOn' = TRUE /\ sleeping' = {"apFb"}
        /\ UNCHANGED ethUp
     \/ /\ cfg.mode = "both" /\ Goes("apply", "init")
        /\ sleeping' = {} /\ ethOn' = TRUE
        /\ UNCHANGED <<ethUp, wifi, sta, lately, fallback, recover>>
  /\ UNCHANGED <<cfg, env, retry, bits>>

\* ActionNetApply: ScheduleNetworkApply ignores a request while its task runs.
NetApply(c) ==
  /\ changes < MaxChange /\ step["monitor"] # "off" /\ c # cfg
  /\ Patient => sleeping = {} /\ \A t \in Task : step[t] = "idle"
  /\ cfg' = c /\ changes' = changes + 1
  /\ step' = [step EXCEPT !["apply"] = IF @ = "idle" THEN "start" ELSE @]
  /\ UNCHANGED <<cable, range, ethOn, ethUp, wifi, station, fallback, recover, sleeping>>

Surroundings ==
  /\ changes < MaxChange /\ changes' = changes + 1
  /\ \/ cable' = ~cable /\ UNCHANGED range
     \/ range' = ~range /\ UNCHANGED cable
  /\ UNCHANGED <<cfg, ethOn, ethUp, wifi, station, fallback, recover, sleeping, step>>
-----------------------------------------------------------------------------
Drivers == StaGotIp \/ StaDisconnected \/ TimePasses \/ EthGotIp \/ EthDisconnected
Fallback == EthFbWakes \/ ApFbWakes \/ StartConfigAp
InitWifiStep(t) == InitWifi(t) \/ InitWifiReturns(t)

Next ==
  \/ Drivers \/ Fallback \/ Recover \/ EnsureConfiguredNetworkProgress \/ ApplyNetworkConfig
  \/ \E t \in Task : InitWifiStep(t)
  \/ \E c \in Modes : NetApply(c)
  \/ Surroundings

Spec == Init /\ [][Next]_vars

\* Every task is scheduled, timers expire and the drivers report what happens.
\* Not all attempts to connect fail within 2 s.
Fairness ==
  /\ WF_vars(StaGotIp) /\ WF_vars(StaDisconnected) /\ WF_vars(TimePasses)
  /\ SF_vars(TimePasses /\ sta = "trying")
  /\ WF_vars(EthGotIp) /\ WF_vars(EthDisconnected)
  /\ WF_vars(EthFbWakes) /\ WF_vars(ApFbWakes) /\ WF_vars(StartConfigAp)
  /\ WF_vars(Recover) /\ WF_vars(EnsureConfiguredNetworkProgress) /\ WF_vars(ApplyNetworkConfig)
  /\ \A t \in Task : WF_vars(InitWifiStep(t))

FairSpec == Spec /\ Fairness
-----------------------------------------------------------------------------
TypeOK ==
  /\ cfg \in Config /\ cable \in BOOLEAN /\ range \in BOOLEAN /\ changes \in 0..MaxChange
  /\ ethOn \in BOOLEAN /\ ethUp \in BOOLEAN
  /\ wifi \in [on : BOOLEAN, kind : {"none", "null", "sta", "ap", "apsta"}]
  /\ sta \in {"off", "idle", "trying", "up"} /\ lately \in BOOLEAN
  /\ retry \in 0..MaxRetry /\ bits \subseteq {"connected", "fail"}
  /\ fallback \in BOOLEAN /\ recover \in BOOLEAN /\ sleeping \subseteq {"ethFb", "apFb"}
  /\ step \in [Task -> {"off", "idle", "start", "init", "wait", "ap"}]

ApOnAir == wifi.on /\ wifi.kind \in {"ap", "apsta"}

(* Whatever the surroundings do, the device is again and again reachable:   *)
(* it has an address or it has opened its access point.                     *)
Reachable == []<>(ethUp \/ WifiUp \/ ApOnAir)

(* When the network stays in range, a device that relies on Wi-Fi ends up   *)
(* connected to it, although the event handler gives up without a retry     *)
(* when two attempts are close together.                                    *)
StationReturns == <>[](range /\ (cfg.mode = "wifi" \/ (~ethUp /\ cfg.mode = "both"))) => <>[]WifiUp

(* docs/CHANGELOG.md:75 says of the Wi-Fi + Ethernet mode "Kept both        *)
(* interfaces active".                                                      *)
BothActive == <>[](cfg.mode = "both" /\ range /\ cable) => <>[](WifiUp /\ ethUp)
=============================================================================
