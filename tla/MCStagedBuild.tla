---------------------------- MODULE MCStagedBuild ----------------------------
(* Small instances of StagedBuild for TLC.                                  *)
EXTENDS StagedBuild, TLC

Symmetry == Permutations(Procs)
=============================================================================
