-------------------------- MODULE MCUploadPipeline --------------------------
(* Instances of UploadPipeline for TLC. *)
EXTENDS UploadPipeline, TLC

Symmetric == Permutations(DataName) \cup Permutations(MeteoName)
             \cup Permutations(Row) \cup Permutations(Caller)
=============================================================================
