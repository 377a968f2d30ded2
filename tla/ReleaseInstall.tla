--------------------------- MODULE ReleaseInstall ---------------------------
(***************************************************************************)
(* Installing and updating envman from a release (_release_protocol.py):   *)
(* the uv tool, the receipt install.json and the agent skill files, put in *)
(* place one after the other and taken back in the opposite order.         *)
(*                                                                         *)
(* A run is one execution of the installer or of `envman update`.  A step  *)
(* of a run is what it does between two operations another run, a user or  *)
(* a crash could tell apart.  A release is its version; uv's exit status   *)
(* says truly whether the tool was put in place.                           *)
(***************************************************************************)
EXTENDS Naturals

CONSTANTS
    Run,         \* the installers and updaters that may be running
    Dest,        \* the SKILL.md files of the selected skill roots
    MaxVersion,  \* releases are numbered 1..MaxVersion
    Own,         \* a SKILL.md without envman's marker: the user's own
    Faults       \* subset of {"io", "late", "kill", "race"}

ASSUME VersionAssumption == MaxVersion \in Nat /\ Own \notin Nat
ASSUME DestAssumption == Dest # {}

VARIABLES
    latest,      \* the release behind GitHub's releases/latest route
    tool,        \* the version of the uv tool, or None
    receipt,     \* the version install.json records, or None
    skill,       \* skill[d]: the version at a skill destination, None or Own
    run,         \* run[r]: a run's position and local variables
    \* history
    outcome,     \* outcome[r]: what r's last execution reported
    found,       \* found[r]: the installation as r's execution found it
    authored     \* destinations at which the user keeps a skill of their own

installation == <<tool, receipt, skill>>
vars == <<latest, tool, receipt, skill, run, outcome, found, authored>>

None == 0
Version == 1..MaxVersion
Installed == Version \cup {None}
Content == Installed \cup {Own}
Mode == {"install", "update", "skill"}
Outcome == {"none", "refused", "current", "installed", "undone", "broken", "killed"}
PCs == {"idle", "manifest", "present", "owner", "prepare", "tool", "verify",
        "validate", "skill", "receipt", "restore", "undoSkill", "undoTool",
        "undoReceipt"}

Local == [pc : PCs, mode : Mode, withSkill : BOOLEAN, sees : BOOLEAN,
          manifest : Installed, recorded : Installed,
          snap : [Dest -> Content], todo : SUBSET Dest, failed : BOOLEAN]

Idle == [pc |-> "idle", mode |-> "install", withSkill |-> FALSE, sees |-> FALSE,
         manifest |-> None, recorded |-> None,
         snap |-> [d \in Dest |-> None], todo |-> {}, failed |-> FALSE]

\* A machine without envman, one with it, one that got it from elsewhere, or
\* one whose tool the user uninstalled; with any skills.
Init ==
    /\ latest \in Version
    /\ tool \in Installed /\ receipt \in Installed
    /\ tool = None \/ receipt = None \/ tool = receipt
    /\ skill \in [Dest -> Content]
    /\ run = [r \in Run |-> Idle]
    /\ outcome = [r \in Run |-> "none"]
    /\ found = [r \in Run |-> [tool |-> None, receipt |-> None, skill |-> Idle.snap]]
    /\ authored = {d \in Dest : skill[d] = Own}

IO == "io" \in Faults

At(r, label) == run[r].pc = label
GoTo(r, label) ==
    run' = [run EXCEPT ![r].pc = label] /\ UNCHANGED <<outcome, found, latest, authored>>
End(r, o) ==
    /\ run' = [run EXCEPT ![r] = Idle]
    /\ outcome' = [outcome EXCEPT ![r] = o]
    /\ UNCHANGED <<found, latest, authored>>

-----------------------------------------------------------------------------
(* Up to the first change: which release, who owns the tool, the assets of *)
(* the new and of the recorded release, and a snapshot of the skill files. *)

Start(r, local) ==
    /\ At(r, "idle")
    /\ run' = [run EXCEPT ![r] = local]
    /\ found' = [found EXCEPT ![r] = [tool |-> tool, receipt |-> receipt, skill |-> skill]]
    /\ UNCHANGED <<latest, installation, outcome, authored>>

StartInstall(r, withSkill) ==
    Start(r, [Idle EXCEPT !.pc = "present", !.withSkill = withSkill, !.manifest = latest])

StartUpdate(r, withSkill) ==
    /\ receipt # None
    /\ Start(r, [Idle EXCEPT !.pc = "manifest", !.mode = "update",
                             !.withSkill = withSkill, !.recorded = receipt])

\* Only a release newer than the recorded one is installed; an equal one may
\* still bring its skill.
AnyOther(r) == latest # run[r].recorded
IsNewer(r) == latest > run[r].recorded

ReadManifest(r) ==
    /\ At(r, "manifest")
    /\ \/ (IO \/ latest < run[r].recorded) /\ End(r, "refused")
       \/ latest >= run[r].recorded /\ End(r, "current")  \* or --check
       \/ /\ latest = run[r].recorded /\ run[r].withSkill
          /\ run' = [run EXCEPT ![r].pc = "prepare", ![r].mode = "skill", ![r].manifest = latest]
          /\ UNCHANGED <<outcome, found, latest, authored>>
       \/ /\ IsNewer(r)
          /\ run' = [run EXCEPT ![r].pc = "present", ![r].manifest = latest]
          /\ UNCHANGED <<outcome, found, latest, authored>>
    /\ UNCHANGED installation

Present(r) ==
    /\ At(r, "present")
    /\ run' = [run EXCEPT ![r].pc = "owner", ![r].sees = (tool # None)]
    /\ UNCHANGED <<installation, outcome, found, latest, authored>>

\* A tool without a receipt is not envman's to replace; a receipt without a
\* tool is refused as well.
CheckOwner(r) ==
    /\ At(r, "owner")
    /\ \/ (IO \/ run[r].sees # (receipt # None)) /\ End(r, "refused")
       \/ /\ run[r].sees = (receipt # None)
          /\ run' = [run EXCEPT ![r].pc = "prepare", ![r].recorded = receipt]
          /\ UNCHANGED <<outcome, found, latest, authored>>
    /\ UNCHANGED installation

\* _validated_skill_destinations: an unmarked skill is never adopted.
Anything(r) == TRUE
Acceptable(r) == run[r].withSkill => \A d \in Dest : skill[d] # Own

\* Anything that cannot be fetched or verified ends the run here.
Prepare(r) ==
    /\ At(r, "prepare")
    /\ \/ End(r, "refused")
       \/ /\ Acceptable(r)
          /\ run' = [run EXCEPT ![r].pc = IF run[r].mode = "skill" THEN "skill" ELSE "tool",
                                ![r].snap = skill, ![r].todo = Dest]
          /\ UNCHANGED <<outcome, found, latest, authored>>
    /\ UNCHANGED installation

-----------------------------------------------------------------------------
(* The replacement.                                                        *)

\* The exception handler of install_manifest: skill files, tool, receipt.
Undo(r) ==
    /\ run' = [run EXCEPT ![r].pc = IF run[r].withSkill THEN "undoSkill" ELSE "undoTool",
                          ![r].todo = Dest]
    /\ UNCHANGED <<outcome, found, latest, authored>>

\* uv tool install --force.  When it fails it may have kept the tool, removed
\* it or replaced it.
InstallTool(r) ==
    /\ At(r, "tool")
    /\ \/ tool' = run[r].manifest /\ GoTo(r, "verify")
       \/ IO /\ tool' \in {tool, None, run[r].manifest} /\ Undo(r)
    /\ UNCHANGED <<receipt, skill>>

\* uv tool list and envman --version must both name the new version.
Verify(r) ==
    /\ At(r, "verify")
    /\ \/ tool = run[r].manifest /\ GoTo(r, IF run[r].withSkill THEN "validate" ELSE "receipt")
       \/ (IO \/ tool # run[r].manifest) /\ Undo(r)
    /\ UNCHANGED installation

Validate(r) ==
    /\ At(r, "validate")
    /\ \/ Acceptable(r) /\ GoTo(r, "skill")
       \/ (IO \/ ~Acceptable(r)) /\ Undo(r)
    /\ UNCHANGED installation

\* Where a skill installation stands when only `rest` is left to write.
NeverDone(rest) == "skill"
OneIsEnough(rest) == "receipt"
AfterSkill(rest) == IF rest = {} THEN "receipt" ELSE "skill"

\* One destination after the other; a failed write may have replaced its file.
WriteSkill(r) ==
    /\ At(r, "skill")
    /\ \E d \in run[r].todo :
          \/ /\ skill' = [skill EXCEPT ![d] = run[r].manifest]
             /\ LET rest == run[r].todo \ {d}
                IN IF rest = {} /\ run[r].mode = "skill"
                   THEN End(r, "installed")
                   ELSE /\ run' = [run EXCEPT ![r].pc = AfterSkill(rest), ![r].todo = rest]
                        /\ UNCHANGED <<outcome, found, latest, authored>>
          \/ /\ IO
             /\ skill' \in {skill, [skill EXCEPT ![d] = run[r].manifest]}
             /\ run' = [run EXCEPT ![r].pc = "restore", ![r].todo = Dest]
             /\ UNCHANGED <<outcome, found, latest, authored>>
    /\ UNCHANGED <<tool, receipt>>

\* write_receipt is atomic, but can fail after the replacement ("late").
WriteReceipt(r) ==
    /\ At(r, "receipt")
    /\ \/ receipt' = run[r].manifest /\ End(r, "installed")
       \/ IO /\ receipt' = receipt /\ Undo(r)
       \/ "late" \in Faults /\ receipt' = run[r].manifest /\ Undo(r)
    /\ UNCHANGED <<tool, skill>>

-----------------------------------------------------------------------------
(* Taking it back.                                                         *)

\* _restore_skill_snapshot: a destination that was missing is removed.
Removed(r, d) == None
RestoredTo(r, d) == run[r].snap[d]

\* install_skill_asset restores the snapshot itself ("restore"), and the
\* handler of install_manifest does so again ("undoSkill"); both stop at the
\* first failure.
RestoreSkill(r) ==
    /\ run[r].pc \in {"restore", "undoSkill"}
    /\ \E d \in run[r].todo :
          /\ skill' = [skill EXCEPT ![d] = RestoredTo(r, d)]
          /\ run' = [run EXCEPT ![r].todo = @ \ {d}]
    /\ UNCHANGED <<tool, receipt, outcome, found, latest, authored>>

SkillRestored(r) ==
    /\ \/ /\ run[r].todo = {}
          /\ \/ At(r, "restore") /\ run[r].mode = "skill" /\ End(r, "undone")
             \/ At(r, "restore") /\ run[r].mode # "skill" /\ Undo(r)
             \/ At(r, "undoSkill") /\ GoTo(r, "undoTool")
       \/ /\ IO
          /\ \/ At(r, "restore") /\ run[r].mode = "skill" /\ End(r, "broken")
             \/ At(r, "restore") /\ run[r].mode # "skill" /\ Undo(r)
             \/ /\ At(r, "undoSkill")
                /\ run' = [run EXCEPT ![r].pc = "undoTool", ![r].failed = TRUE]
                /\ UNCHANGED <<outcome, found, latest, authored>>
    /\ UNCHANGED installation

UndoneAs(r) == IF run[r].failed THEN "broken" ELSE "undone"

\* A tool that could not be put back keeps the receipt from being put back.
CarryOn(r) ==
    /\ run' = [run EXCEPT ![r].pc = "undoReceipt", ![r].failed = TRUE]
    /\ UNCHANGED <<outcome, found, latest, authored>>
GiveUp(r) == End(r, "broken")

\* uv refuses to uninstall a tool that is not there.
UndoTool(r) ==
    /\ At(r, "undoTool")
    /\ \/ run[r].recorded = None /\ tool # None /\ tool' = None /\ End(r, UndoneAs(r))
       \/ run[r].recorded = None /\ (IO \/ tool = None) /\ tool' \in {tool, None} /\ GiveUp(r)
       \/ run[r].recorded # None /\ tool' = run[r].recorded /\ GoTo(r, "undoReceipt")
       \/ run[r].recorded # None /\ IO /\ tool' \in {tool, None, run[r].recorded} /\ GiveUp(r)
    /\ UNCHANGED <<receipt, skill>>

UndoReceipt(r) ==
    /\ At(r, "undoReceipt")
    /\ \/ receipt' = run[r].recorded /\ End(r, UndoneAs(r))
       \/ IO /\ receipt' = receipt /\ End(r, "broken")
       \/ "late" \in Faults /\ receipt' = run[r].recorded /\ End(r, "broken")
    /\ UNCHANGED <<tool, skill>>

-----------------------------------------------------------------------------
(* Around the runs.                                                        *)

\* The process dies or is interrupted from the keyboard, which no handler
\* catches; a uv it was running may leave no tool.
Kill(r) ==
    /\ "kill" \in Faults
    /\ ~At(r, "idle")
    /\ tool' \in {tool} \cup (IF run[r].pc \in {"tool", "undoTool"} THEN {None} ELSE {})
    /\ End(r, "killed")
    /\ UNCHANGED <<receipt, skill>>

\* A release is published, or withdrawn.
Publish ==
    /\ latest' \in Version \ {latest}
    /\ UNCHANGED <<installation, run, outcome, found, authored>>

\* The user writes a skill of their own where there is none; while a run is
\* on its way only as a fault ("race").
Author(d) ==
    /\ "race" \in Faults \/ \A r \in Run : At(r, "idle")
    /\ skill[d] = None
    /\ skill' = [skill EXCEPT ![d] = Own]
    /\ authored' = authored \cup {d}
    /\ UNCHANGED <<latest, tool, receipt, run, outcome, found>>

Step(r) ==
    \/ ReadManifest(r) \/ Present(r) \/ CheckOwner(r) \/ Prepare(r)
    \/ InstallTool(r) \/ Verify(r) \/ Validate(r) \/ WriteSkill(r) \/ WriteReceipt(r)
    \/ RestoreSkill(r) \/ SkillRestored(r) \/ UndoTool(r) \/ UndoReceipt(r)

Next ==
    \/ \E r \in Run : \/ \E withSkill \in BOOLEAN : StartInstall(r, withSkill) \/ StartUpdate(r, withSkill)
                      \/ Step(r)
                      \/ Kill(r)
    \/ Publish
    \/ \E d \in Dest : Author(d)

Spec == Init /\ [][Next]_vars

-----------------------------------------------------------------------------
(* Properties.                                                             *)

TypeOK ==
    /\ latest \in Version
    /\ tool \in Installed /\ receipt \in Installed
    /\ skill \in [Dest -> Content]
    /\ run \in [Run -> Local]
    /\ outcome \in [Run -> Outcome]
    /\ found \in [Run -> [tool : Installed, receipt : Installed, skill : [Dest -> Content]]]
    /\ authored \subseteq Dest
    /\ \A r \in Run : At(r, "skill") => run[r].todo # {}

Ends(r) == ~At(r, "idle") /\ run'[r].pc = "idle"

\* A run that reports success leaves the tool, the receipt and every skill it
\* was asked for at one version.  (For runs that do not overlap.)
SuccessConsistent ==
    [][\A r \in Run :
          Ends(r) /\ outcome'[r] = "installed" =>
              /\ run[r].mode # "skill" => tool' = run[r].manifest
              /\ receipt' = run[r].manifest
              /\ run[r].withSkill => \A d \in Dest : skill'[d] = run[r].manifest]_vars

\* A run that reports failure, and not that its rollback failed too, leaves
\* the installation it found.  (For runs that do not overlap.  The receipt of
\* a first installation is NoStaleReceipt's matter.)
FailureRestores ==
    [][\A r \in Run :
          Ends(r) /\ outcome'[r] \in {"refused", "current", "undone"} =>
              /\ skill' = found[r].skill
              /\ found[r].tool \in {found[r].receipt, None} => tool' = found[r].tool
              /\ found[r].receipt # None => receipt' = found[r].receipt]_vars

\* The receipt is only ever written with the version of the tool in place, in
\* a rollback too.  (For runs that do not overlap.)
ReceiptNamesTool == [][receipt' # receipt => receipt' = tool]_vars

\* A skill without envman's marker that was there before the run is never
\* replaced or removed.
UnmarkedKept == \A d \in authored : skill[d] = Own

\* A skill without envman's marker is preserved: whatever else happens to it,
\* it is not removed, also if it was written while a run was on its way.
UnmarkedPreserved == \A d \in authored : skill[d] # None

\* An update that goes ahead never replaces a newer recorded version.
NoDowngrade ==
    \A r \in Run :
        run[r].mode = "update" /\ run[r].pc \in {"tool", "verify", "validate", "skill", "receipt"}
            => run[r].recorded <= run[r].manifest

\* A failed installation that was rolled back leaves no receipt without a
\* tool, which every later run would refuse.
NoStaleReceipt ==
    \A r \in Run : At(r, "idle") /\ outcome[r] = "undone" => ~(receipt # None /\ tool = None)

=============================================================================
