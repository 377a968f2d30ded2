----------------------------- MODULE MCBackupKey -----------------------------
(* BackupKey on small instances.                                             *)
EXTENDS BackupKey, TLC

CONSTANTS p1, p2, k1, k2, w1, v1, b1

Symmetric == Permutations(Proc) \cup Permutations(Key)
=============================================================================
