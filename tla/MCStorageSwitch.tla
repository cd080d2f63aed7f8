-------------------------- MODULE MCStorageSwitch --------------------------
EXTENDS StorageSwitch

Names == Permutations(Name)
=============================================================================
