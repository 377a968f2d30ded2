------------------------------ MODULE MCCatalog ------------------------------
(* Catalog with a variable of each kind.                                    *)
(* 1 KEY, 2 KURL, 3 MAIN_API_KEY_ENV, 4 NOTE; 5 is the empty value, 6 a URL *)
(* with a password, 7 what its mask leaves.                                 *)
EXTENDS Catalog

MCUpper == [n \in Name |-> n]
MCEdge == [v \in Value |-> 7]
\* The empty pattern, and one that the password and a name have in common.
MCPattern == {Text, {1, 6}}
\* KEY and a reference to it.
MCEnvironment == {[n \in Name |-> CASE n = 1 -> 6 [] n = 3 -> 1 [] OTHER -> None]}
=============================================================================
