---------------------------- MODULE MCConnectivity ----------------------------
EXTENDS Connectivity

AllModes == Config
EthernetFirst == {[mode |-> "both", prio |-> "eth"]}
=============================================================================
