---------------------------- MODULE EditRegister ----------------------------
(***************************************************************************)
(* What the managed environment promises, without files, locks or keys.    *)
(*                                                                         *)
(* Every configuration home holds a set of edits.  A save adds one edit    *)
(* and removes none; an edit whose save was reported as done can no longer *)
(* be taken back, not even by a power loss.  Only a home that is not       *)
(* anchored yet (its directory is new) may vanish in one, as a whole.      *)
(*                                                                         *)
(* EnvStore implements this register (EnvStore!ImplementsRegister).        *)
(***************************************************************************)
CONSTANTS
    Home,   \* configuration homes, each with its own environment.conf
    Edit    \* the changes users make; each is made at most once

VARIABLES
    content,   \* [Home -> SUBSET Edit]: what a reader of the file sees
    floor,     \* [Home -> SUBSET Edit]: what a power loss cannot take away
    acked,     \* [Home -> SUBSET Edit]: edits whose save reported success
    anchored   \* [Home -> BOOLEAN]: the home can no longer vanish

registerVars == <<content, floor, acked, anchored>>

Init ==
    /\ content = [h \in Home |-> {}]
    /\ floor   = [h \in Home |-> {}]
    /\ acked   = [h \in Home |-> {}]
    /\ anchored \in [Home -> BOOLEAN]

\* A save becomes visible: exactly one edit joins, none leaves.
Add(h, e) ==
    /\ e \notin content[h]
    /\ content' = [content EXCEPT ![h] = @ \cup {e}]
    /\ UNCHANGED <<floor, acked, anchored>>

\* What is visible reaches the disk, and the edits in `done` (one or none)
\* are reported to their user.
Settle(h, done) ==
    /\ done \subseteq content[h]
    /\ floor' = [floor EXCEPT ![h] = content[h]]
    /\ acked' = [acked EXCEPT ![h] = @ \cup done]
    /\ UNCHANGED <<content, anchored>>

\* A power loss may take back what has not settled, and with a home that is
\* not anchored all there is.
LosePower ==
    /\ content' \in [Home -> SUBSET Edit]
    /\ \E gone \in SUBSET {h \in Home : ~anchored[h]} :
          /\ \A h \in Home \ gone :
                floor[h] \subseteq content'[h] /\ content'[h] \subseteq content[h]
          /\ \A h \in gone : content'[h] = {}
          /\ acked' = [h \in Home |-> IF h \in gone THEN {} ELSE acked[h]]
    /\ floor' = content'
    /\ anchored' \in [Home -> BOOLEAN]
    /\ \A h \in Home : anchored[h] => anchored'[h]

Next ==
    \/ \E h \in Home, e \in Edit : Add(h, e) \/ Settle(h, {e})
    \/ \E h \in Home : Settle(h, {})
    \/ LosePower

Spec == Init /\ [][Next]_registerVars

=============================================================================
