---------------------------- MODULE MCShellLoaders ----------------------------
(* ShellLoaders on small instances.                                          *)
EXTENDS ShellLoaders, TLC

CONSTANTS p1, p2, r1, r2, s1

OneRc == <<".bashrc">>
SomeProfiles == {".bash_profile"}
FirstProfiles == {{".profile", ".bash_login"}}

Symmetric == Permutations(Proc) \cup Permutations(Release)
=============================================================================
