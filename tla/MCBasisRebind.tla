--------------------------- MODULE MCBasisRebind -----------------------------
(* Small instances of BasisRebind. *)
EXTENDS BasisRebind, TLC

CONSTANTS p1, p2, c1, c2, o1, o2, s1, s2, d1, d2, k1, k2

Symmetry == UNION {Permutations(S) : S \in {{p1, p2}, {c1, c2}, {o1, o2}, {s1, s2}, {d1, d2}, {k1, k2}}}
=============================================================================
