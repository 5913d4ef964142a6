-------------------------- MODULE MCTableVersions --------------------------
(* Instances of TableVersions for TLC. *)
EXTENDS TableVersions, TLC

ThreadSymmetry == Permutations(Readers) \cup Permutations(Writers)
=============================================================================
