---------------------------- MODULE MCReviewApply ----------------------------
(* Small instances of ReviewApply for TLC.                                  *)
EXTENDS ReviewApply, TLC

Symmetry ==
    Permutations(Procs) \cup Permutations(Candidates)
    \cup Permutations(Deps) \cup Permutations(Upstreams)
=============================================================================
