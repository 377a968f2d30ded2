----------------------------- MODULE MCEnvStore -----------------------------
(* EnvStore on small instances; the cfg files choose the faults.           *)
EXTENDS EnvStore, TLC

CONSTANTS p1, p2, p3, h1, h2, e0, e1, e2, e3, k1, k2, k3

OneHome == [p \in Proc |-> h1]
TwoHomes == [p \in Proc |-> IF p = p2 THEN h2 ELSE h1]

NoLegacy == {}
OneLegacy == {{e0}}

Symmetric == Permutations(Edit \ UNION Legacy) \cup Permutations(Key)

\* The third process only reads, as shells do.
ThirdReads == cmd[p3] = "read"
=============================================================================
