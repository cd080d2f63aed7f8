--------------------------- MODULE MCConfiguration ---------------------------
(***************************************************************************)
(* Two questions about the configuration that share no state: how a save   *)
(* replaces config.txt (ConfigStore), and what requests and restarts make  *)
(* of the settings (Settings, where every save succeeds).  A behaviour is  *)
(* about one of them; the variables of the other keep an initial value.    *)
(***************************************************************************)
EXTENDS ConfigStore

CONSTANTS Refused, SsidMax, PasswordMin, PasswordMax, Huge, MaxTemp

VARIABLES part, command, settings

S == INSTANCE Settings WITH kind <- command

\* The longest SSID that fits is longer than the one built in (Text(5)), and a
\* negative number becomes one above every limit.
ASSUME SettingsAssumption ==
  /\ S!MaxTempAssumption /\ {SsidMax, PasswordMin, PasswordMax, Huge} \subseteq Nat
  /\ 6 < SsidMax /\ 30000 < Huge

TwoInit ==
  /\ part \in {"store", "settings"}
  /\ Init /\ S!Init
  /\ part = "store" => command = "wifi"

Storing == part = "store" /\ Next /\ UNCHANGED <<part, command, settings>>
Applying == part = "settings" /\ S!Next /\ UNCHANGED <<part, vars>>

TwoSpec == TwoInit /\ [][Storing \/ Applying]_<<part, command, settings, vars>>
-----------------------------------------------------------------------------
(* Both front ends make the same of a complete body, ReadApart excepted     *)
(* (Settings).                                                              *)
FrontEndsAgree == part = "settings" => S!FrontEndsAgree

(* No restart pairs one network's SSID with another's password (Settings).  *)
CredentialsTogether == part = "settings" => S!CredentialsTogether

(* A restart keeps what config.txt can hold (Settings).                     *)
RestartKeeps == S!RestartKeeps
=============================================================================
