--------------------------- MODULE MCReleaseInstall ---------------------------
(* ReleaseInstall on small instances; the cfg files choose the faults.      *)
EXTENDS ReleaseInstall, TLC

CONSTANTS r1, r2, d1, d2

Symmetric == Permutations(Dest) \cup Permutations(Run)
=============================================================================
