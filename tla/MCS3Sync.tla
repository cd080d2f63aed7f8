------------------------------ MODULE MCS3Sync ------------------------------
(* Instances of S3Sync for TLC. *)
EXTENDS S3Sync, TLC

\* Every object holds a sample of its own; its second version adds a shared one.
MCRow == Key \cup {0}
MCContent == [kv \in Key \X Version |-> IF kv[2] = 1 THEN {kv[1]} ELSE {kv[1], 0}]

\* The first object is malformed until it is uploaded a second time.
RepairedLater == {<<1, 1>>}

\* The first object stays malformed.
NeverRepaired == {1} \X Version

Nothing == {}
Symmetric == Permutations(Worker)
=============================================================================
