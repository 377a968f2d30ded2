-------------------------- MODULE ReleaseRunProofs --------------------------
(* Theorems about one run of the installer after another: what a run that  *)
(* reports success has done, and what a run that reports failure has not.  *)
(* Overlapping runs replace tool, receipt and skill files in a mixed order *)
(* (see the hazards), so these theorems assume at most one run at a time.  *)
EXTENDS ReleaseInstallProofs

OneRun == \A q, r \in Run : q = r

-----------------------------------------------------------------------------
(* How far a run has got, in terms of the installation it found.           *)

\* The tool and the receipt, and the skill files already written.
Progress(r) ==
    LET l == run[r]
        f == found[r]
    IN  /\ l.pc \in {"manifest", "present", "owner", "prepare", "tool"} => tool = f.tool
        /\ l.pc \notin {"idle", "undoSkill", "undoTool", "undoReceipt"} => receipt = f.receipt
        /\ l.pc = "manifest" => l.mode = "update"
        /\ l.pc # "idle" /\ l.mode = "update" => l.recorded = f.receipt
        /\ l.pc \notin {"idle", "manifest"} =>
              /\ l.manifest \in Version
              /\ l.mode = "update" => l.recorded < l.manifest
        /\ l.pc = "owner" => l.sees = (tool # None)
        /\ l.mode = "skill" => /\ l.pc \in {"prepare", "skill", "restore"}
                               /\ tool = f.tool /\ f.receipt = l.manifest
        /\ l.mode # "skill" /\ l.pc \notin {"idle", "manifest", "present", "owner"} =>
              l.recorded = f.receipt /\ (f.tool = None <=> f.receipt = None)
        /\ l.mode # "skill" /\ l.pc \in {"verify", "validate", "skill", "receipt"} =>
              tool = l.manifest
        /\ l.pc = "skill" => \A d \in Dest \ l.todo : skill[d] = l.manifest
        /\ l.pc = "receipt" /\ l.withSkill => \A d \in Dest : skill[d] = l.manifest
        /\ l.pc = "undoReceipt" => tool = l.recorded

\* The skill files it found, on its way in and on its way back.
Kept(r) ==
    LET l == run[r]
        f == found[r]
    IN  /\ l.pc \in {"manifest", "present", "owner", "prepare", "tool", "verify", "validate"} =>
              skill = f.skill
        /\ l.pc = "receipt" /\ ~l.withSkill => skill = f.skill
        /\ l.pc \notin {"idle", "manifest", "present", "owner", "prepare"} => l.snap = f.skill
        /\ l.pc \in {"restore", "undoSkill"} => \A d \in Dest \ l.todo : skill[d] = f.skill[d]
        /\ l.pc \in {"undoTool", "undoReceipt"} /\ ~l.failed => skill = f.skill

ProgressInv == \A r \in Run : Progress(r)
KeptInv == \A r \in Run : Kept(r)

\* What most steps leave of a run's local variables.
Same(r) ==
    /\ run'[r].mode = run[r].mode /\ run'[r].withSkill = run[r].withSkill
    /\ run'[r].manifest = run[r].manifest /\ run'[r].recorded = run[r].recorded
    /\ run'[r].snap = run[r].snap /\ found' = found

\* A run that has ended has nothing to keep.
LEMMA EndRun ==
    ASSUME TypeInv, NEW r \in Run, NEW o, End(r, o)
    PROVE  Progress(r)' /\ Kept(r)' /\ run'[r].pc = "idle" /\ outcome'[r] = o
<1>1. run'[r].pc = "idle" /\ run'[r].mode = "install"
  BY DEF End, TypeInv, TypeOK, Idle
<1>2. outcome'[r] = o
  BY DEF End, TypeInv, TypeOK
<1> QED BY <1>1, <1>2 DEF Progress, Kept

LEMMA GoToRun ==
    ASSUME TypeInv, NEW r \in Run, NEW label, GoTo(r, label)
    PROVE  run'[r].pc = label /\ Same(r) /\ run'[r].todo = run[r].todo /\ run'[r].failed = run[r].failed
  BY DEF GoTo, Same, TypeInv, TypeOK, Local

\* The handler is entered with the receipt found on disk or the new one.
LEMMA UndoRun ==
    ASSUME TypeInv, NEW r \in Run, Progress(r), Undo(r), run[r].mode # "skill",
           run[r].pc \in {"tool", "verify", "validate", "receipt", "restore"}
    PROVE  /\ Progress(r)' /\ Same(r) /\ run'[r].todo = Dest
           /\ run'[r].pc = IF run[r].withSkill THEN "undoSkill" ELSE "undoTool"
<1>1. /\ Same(r) /\ run'[r].todo = Dest
      /\ run'[r].pc = IF run[r].withSkill THEN "undoSkill" ELSE "undoTool"
  BY DEF Undo, Same, TypeInv, TypeOK, Local
<1>2. Progress(r)'
  BY <1>1 DEF Progress, Same
<1> QED BY <1>1, <1>2

-----------------------------------------------------------------------------
LEMMA StepProgress ==
    ASSUME TypeInv, NEW r \in Run, Progress(r), Step(r)
    PROVE  Progress(r)'
<1>r. /\ run[r] \in Local /\ run \in [Run -> Local] /\ tool \in Installed /\ receipt \in Installed
      /\ skill \in [Dest -> Content] /\ latest \in Version
      /\ latest \in Nat /\ run[r].recorded \in Nat /\ run[r].todo \subseteq Dest
  BY VersionAssumption DEF TypeInv, TypeOK, Local, Installed, Version, None
<1>1. CASE ReadManifest(r)
  <2>1. CASE End(r, "refused") \/ End(r, "current")
    BY <2>1, EndRun
  <2>2. CASE /\ latest = run[r].recorded
             /\ run' = [run EXCEPT ![r].pc = "prepare", ![r].mode = "skill", ![r].manifest = latest]
             /\ found' = found
    <3>1. /\ run'[r].pc = "prepare" /\ run'[r].mode = "skill" /\ run'[r].manifest = latest
          /\ UNCHANGED <<tool, receipt, found>>
      BY <1>1, <2>2, <1>r DEF ReadManifest, installation, Local
    <3> QED BY <1>1, <2>2, <3>1, <1>r DEF Progress, ReadManifest, At
  <2>3. CASE /\ IsNewer(r)
             /\ run' = [run EXCEPT ![r].pc = "present", ![r].manifest = latest]
             /\ found' = found
    <3>1. /\ run'[r].pc = "present" /\ run'[r].mode = run[r].mode /\ run'[r].manifest = latest
          /\ run'[r].recorded = run[r].recorded
          /\ UNCHANGED <<tool, receipt, found>>
      BY <1>1, <2>3, <1>r DEF ReadManifest, installation, Local
    <3>2. run[r].recorded < latest
      BY <2>3, <1>r DEF IsNewer
    <3> QED BY <1>1, <3>1, <3>2, <1>r DEF Progress, ReadManifest, At
  <2> QED BY <1>1, <2>1, <2>2, <2>3 DEF ReadManifest
<1>2. CASE Present(r)
  <2>1. /\ Same(r) /\ run'[r].pc = "owner" /\ run'[r].sees = (tool # None) /\ run[r].pc = "present"
        /\ UNCHANGED <<tool, receipt>>
    BY <1>2, <1>r DEF Present, At, installation, Local, Same
  <2> QED BY <2>1 DEF Progress, Same
<1>3. CASE CheckOwner(r)
  <2>1. CASE End(r, "refused")
    BY <2>1, EndRun
  <2>2. CASE ~End(r, "refused")
    <3>1. /\ run[r].pc = "owner" /\ run'[r].pc = "prepare" /\ run[r].sees = (receipt # None)
          /\ run'[r].mode = run[r].mode /\ run'[r].manifest = run[r].manifest
          /\ run'[r].recorded = receipt /\ UNCHANGED <<tool, receipt, found>>
      BY <1>3, <2>2, <1>r DEF CheckOwner, At, installation, Local
    <3> QED BY <3>1 DEF Progress
  <2> QED BY <2>1, <2>2
<1>4. CASE Prepare(r)
  <2>1. CASE End(r, "refused")
    BY <2>1, EndRun
  <2>2. CASE ~End(r, "refused")
    <3>1. /\ run[r].pc = "prepare" /\ run'[r].pc = IF run[r].mode = "skill" THEN "skill" ELSE "tool"
          /\ run'[r].mode = run[r].mode /\ run'[r].manifest = run[r].manifest
          /\ run'[r].recorded = run[r].recorded /\ run'[r].todo = Dest
          /\ UNCHANGED <<tool, receipt, found>>
      BY <1>4, <2>2, <1>r DEF Prepare, At, installation, Local
    <3> QED BY <3>1 DEF Progress
  <2> QED BY <2>1, <2>2
<1>5. CASE InstallTool(r)
  <2>0. run[r].pc = "tool" /\ run[r].mode # "skill" /\ receipt' = receipt
    BY <1>5 DEF InstallTool, At, Progress
  <2>1. CASE tool' = run[r].manifest /\ GoTo(r, "verify")
    BY <2>0, <2>1, GoToRun DEF Progress, Same
  <2>2. CASE Undo(r)
    BY <2>0, <2>2, UndoRun
  <2> QED BY <1>5, <2>1, <2>2 DEF InstallTool
<1>6. CASE Verify(r)
  <2>0. run[r].pc = "verify" /\ run[r].mode # "skill" /\ UNCHANGED <<tool, receipt>>
    BY <1>6 DEF Verify, At, Progress, installation
  <2>1. CASE GoTo(r, IF run[r].withSkill THEN "validate" ELSE "receipt")
    BY <2>0, <2>1, GoToRun DEF Progress, Same
  <2>2. CASE Undo(r)
    BY <2>0, <2>2, UndoRun
  <2> QED BY <1>6, <2>1, <2>2 DEF Verify
<1>7. CASE Validate(r)
  <2>0. run[r].pc = "validate" /\ run[r].mode # "skill" /\ UNCHANGED <<tool, receipt>>
    BY <1>7 DEF Validate, At, Progress, installation
  <2>1. CASE GoTo(r, "skill")
    <3>1. run'[r].todo = Dest
      BY <2>0, <2>1, GoToRun DEF TypeInv, AllToWrite
    <3> QED BY <2>0, <2>1, <3>1, GoToRun DEF Progress, Same
  <2>2. CASE Undo(r)
    BY <2>0, <2>2, UndoRun
  <2> QED BY <1>7, <2>1, <2>2 DEF Validate
<1>8. CASE WriteSkill(r)
  <2>0. run[r].pc = "skill" /\ UNCHANGED <<tool, receipt>>
    BY <1>8 DEF WriteSkill, At
  <2>1. PICK d \in run[r].todo :
          \/ /\ skill' = [skill EXCEPT ![d] = run[r].manifest]
             /\ LET rest == run[r].todo \ {d}
                IN IF rest = {} /\ run[r].mode = "skill"
                   THEN End(r, "installed")
                   ELSE /\ run' = [run EXCEPT ![r].pc = AfterSkill(rest), ![r].todo = rest]
                        /\ UNCHANGED <<outcome, found, latest, authored>>
          \/ /\ IO
             /\ skill' \in {skill, [skill EXCEPT ![d] = run[r].manifest]}
             /\ run' = [run EXCEPT ![r].pc = "restore", ![r].todo = Dest]
             /\ UNCHANGED <<outcome, found, latest, authored>>
    BY <1>8 DEF WriteSkill
  <2>2. CASE End(r, "installed")
    BY <2>2, EndRun
  <2>3. CASE run' = [run EXCEPT ![r].pc = "restore", ![r].todo = Dest] /\ found' = found
    <3>1. run'[r].pc = "restore" /\ Same(r)
      BY <2>3, <1>r DEF Same, Local
    <3> QED BY <2>0, <3>1 DEF Progress, Same
  <2>4. CASE ~End(r, "installed") /\ run' # [run EXCEPT ![r].pc = "restore", ![r].todo = Dest]
    <3> DEFINE rest == run[r].todo \ {d}
    <3>1. /\ skill' = [skill EXCEPT ![d] = run[r].manifest]
          /\ run' = [run EXCEPT ![r].pc = AfterSkill(rest), ![r].todo = rest]
          /\ found' = found /\ ~(rest = {} /\ run[r].mode = "skill")
      BY <2>1, <2>4
    <3>2. /\ run'[r].pc = IF rest = {} THEN "receipt" ELSE "skill"
          /\ run'[r].todo = rest /\ Same(r)
      BY <3>1, <1>r DEF Same, Local, AfterSkill
    <3>3. \A e \in Dest \ rest : skill'[e] = run[r].manifest
      BY <2>0, <3>1, <1>r DEF Progress
    <3>4. CASE rest = {}
      <4>1. \A e \in Dest : skill'[e] = run[r].manifest
        BY <3>3, <3>4
      <4>2. run'[r].pc = "receipt" /\ run[r].mode # "skill"
        BY <3>1, <3>2, <3>4
      <4> HIDE DEF rest
      <4> QED BY <2>0, <3>2, <4>1, <4>2 DEF Progress, Same
    <3>5. CASE rest # {}
      <4>1. run'[r].pc = "skill" /\ run'[r].todo = rest
        BY <3>2, <3>5
      <4>2. \A e \in Dest \ run'[r].todo : skill'[e] = run[r].manifest
        BY <3>3, <4>1
      <4> HIDE DEF rest
      <4> QED BY <2>0, <3>2, <4>1, <4>2 DEF Progress, Same
    <3> QED BY <3>4, <3>5
  <2> QED BY <2>1, <2>2, <2>3, <2>4
<1>9. CASE WriteReceipt(r)
  <2>0. run[r].pc = "receipt" /\ run[r].mode # "skill"
    BY <1>9 DEF WriteReceipt, At, Progress
  <2>1. CASE End(r, "installed")
    BY <2>1, EndRun
  <2>2. CASE Undo(r)
    BY <2>0, <2>2, UndoRun
  <2> QED BY <1>9, <2>1, <2>2 DEF WriteReceipt
<1>10. CASE RestoreSkill(r)
  <2>1. /\ run[r].pc \in {"restore", "undoSkill"} /\ run'[r].pc = run[r].pc /\ Same(r)
        /\ UNCHANGED <<tool, receipt>>
    BY <1>10, <1>r DEF RestoreSkill, Same, Local
  <2> QED BY <2>1 DEF Progress, Same
<1>11. CASE SkillRestored(r)
  <2>0. UNCHANGED <<tool, receipt>>
    BY <1>11 DEF SkillRestored, installation
  <2>1. CASE End(r, "undone") \/ End(r, "broken")
    BY <2>1, EndRun
  <2>2. CASE run[r].pc = "restore" /\ run[r].mode # "skill" /\ Undo(r)
    BY <2>2, UndoRun
  <2>3. CASE run[r].pc = "undoSkill" /\ GoTo(r, "undoTool")
    BY <2>0, <2>3, GoToRun DEF Progress, Same
  <2>4. CASE run[r].pc = "undoSkill" /\ run' = [run EXCEPT ![r].pc = "undoTool", ![r].failed = TRUE]
             /\ found' = found
    <3>1. run'[r].pc = "undoTool" /\ Same(r)
      BY <2>4, <1>r DEF Same, Local
    <3> QED BY <2>0, <2>4, <3>1 DEF Progress, Same
  <2> QED BY <1>11, <2>1, <2>2, <2>3, <2>4 DEF SkillRestored, At
<1>12. CASE UndoTool(r)
  <2>1. CASE End(r, UndoneAs(r)) \/ End(r, "broken")
    BY <2>1, EndRun
  <2>2. CASE tool' = run[r].recorded /\ GoTo(r, "undoReceipt")
    <3>1. run[r].pc = "undoTool" /\ receipt' = receipt
      BY <1>12 DEF UndoTool, At
    <3> QED BY <2>2, <3>1, GoToRun DEF Progress, Same
  <2> QED BY <1>12, <2>1, <2>2 DEF UndoTool, GiveUp
<1>13. CASE UndoReceipt(r)
  BY <1>13, EndRun DEF UndoReceipt
<1> QED BY <1>1, <1>2, <1>3, <1>4, <1>5, <1>6, <1>7, <1>8, <1>9, <1>10, <1>11, <1>12, <1>13 DEF Step

\* A run starts from the installation as it is.
LEMMA StartRun ==
    ASSUME TypeInv, NEW r \in Run, NEW withSkill \in BOOLEAN,
           StartInstall(r, withSkill) \/ StartUpdate(r, withSkill)
    PROVE  Progress(r)' /\ Kept(r)'
<1>1. /\ UNCHANGED <<tool, receipt, skill>>
      /\ found'[r] = [tool |-> tool, receipt |-> receipt, skill |-> skill]
  BY DEF StartInstall, StartUpdate, Start, installation, TypeInv, TypeOK
<1>2. \/ run'[r].pc = "present" /\ run'[r].mode = "install" /\ run'[r].manifest = latest
      \/ run'[r].pc = "manifest" /\ run'[r].mode = "update" /\ run'[r].recorded = receipt
  <2>1. CASE StartInstall(r, withSkill)
    BY <2>1 DEF StartInstall, Start, Idle, TypeInv, TypeOK
  <2>2. CASE StartUpdate(r, withSkill)
    BY <2>2 DEF StartUpdate, Start, Idle, TypeInv, TypeOK
  <2> QED BY <2>1, <2>2
<1>3. latest' \in Version
  BY DEF StartInstall, StartUpdate, Start, TypeInv, TypeOK
<1>4. tool' = found'[r].tool /\ receipt' = found'[r].receipt /\ skill' = found'[r].skill
  BY <1>1
<1>5. latest' = latest
  BY DEF StartInstall, StartUpdate, Start
<1>6. Progress(r)'
  BY <1>1, <1>2, <1>3, <1>4, <1>5 DEF Progress
<1>7. Kept(r)'
  BY <1>2, <1>4 DEF Kept
<1> QED BY <1>6, <1>7

LEMMA ProgressStep ==
    ASSUME OneRun
    PROVE  TypeInv /\ ProgressInv /\ [Next]_vars => ProgressInv'
<1> SUFFICES ASSUME TypeInv, ProgressInv, [Next]_vars, NEW r \in Run PROVE Progress(r)'
  BY DEF ProgressInv
<1>0. Progress(r) /\ \A q \in Run : q = r
  BY DEF ProgressInv, OneRun
<1>1. CASE \E withSkill \in BOOLEAN : StartInstall(r, withSkill) \/ StartUpdate(r, withSkill)
  BY <1>1, StartRun
<1>2. CASE Step(r)
  BY <1>0, <1>2, StepProgress
<1>3. CASE Kill(r)
  BY <1>3, EndRun DEF Kill
<1>4. CASE Publish \/ UNCHANGED vars
  BY <1>0, <1>4 DEF Publish, installation, vars, Progress
<1>5. ASSUME NEW d \in Dest, Author(d) PROVE Progress(r)'
  <2>1. UNCHANGED <<tool, receipt, run, found>> /\ skill[d] = None /\ skill' = [skill EXCEPT ![d] = Own]
    BY <1>5 DEF Author
  <2>2. run[r].manifest \in Version => run[r].manifest # None
    BY VersionAssumption DEF Version, None
  <2>3. \A e \in Dest : skill[e] = run[r].manifest /\ run[r].manifest \in Version =>
            skill'[e] = run[r].manifest
    BY <2>1, <2>2 DEF TypeInv, TypeOK
  <2> QED BY <1>0, <2>1, <2>3 DEF Progress
<1> QED BY <1>0, <1>1, <1>2, <1>3, <1>4, <1>5 DEF Next

LEMMA ProgressInit == Init => ProgressInv
<1> SUFFICES ASSUME Init, NEW r \in Run PROVE Progress(r)
  BY DEF ProgressInv
<1>1. run[r].pc = "idle" /\ run[r].mode = "install"
  BY DEF Init, Idle
<1> QED BY <1>1 DEF Progress

LEMMA AlwaysType == Spec => []TypeInv
  BY InitType, NextType, PTL DEF Spec

\* `envman update` (_plan_update) never replaces a newer recorded version,
\* whatever is published meanwhile and however earlier runs failed.
THEOREM NeverDowngrades == ASSUME OneRun PROVE Spec => []NoDowngrade
<1>1. TypeInv /\ ProgressInv => NoDowngrade
  <2> SUFFICES ASSUME TypeInv, ProgressInv, NEW r \in Run, run[r].mode = "update",
                      run[r].pc \in {"tool", "verify", "validate", "skill", "receipt"}
               PROVE  run[r].recorded <= run[r].manifest
    BY DEF NoDowngrade
  <2>1. run[r].recorded \in Nat /\ run[r].manifest \in Nat
    BY VersionAssumption DEF TypeInv, TypeOK, Local, Installed, Version, None
  <2> QED BY <2>1 DEF ProgressInv, Progress
<1> QED BY <1>1, AlwaysType, ProgressInit, ProgressStep, PTL DEF Spec

\* The steps that write the receipt.
LEMMA ReceiptSteps ==
    ASSUME [Next]_vars, receipt' # receipt
    PROVE  \E r \in Run : WriteReceipt(r) \/ UndoReceipt(r)
  BY DEF Next, Step, Start, StartInstall, StartUpdate, Kill, Publish, Author, vars, installation,
     ReadManifest, Present, CheckOwner, Prepare, InstallTool, Verify, Validate, WriteSkill,
     RestoreSkill, SkillRestored, UndoTool

\* install_manifest writes the receipt after it has verified the tool, and
\* its handler puts the receipt back after the tool: the receipt names the
\* tool that is in place whenever it is written.
THEOREM ReceiptIsOfTheTool == ASSUME OneRun PROVE Spec => ReceiptNamesTool
<1>1. TypeInv /\ ProgressInv /\ [Next]_vars => [receipt' # receipt => receipt' = tool]_vars
  <2> SUFFICES ASSUME TypeInv, ProgressInv, [Next]_vars, receipt' # receipt PROVE receipt' = tool
    OBVIOUS
  <2>1. PICK r \in Run : WriteReceipt(r) \/ UndoReceipt(r)
    BY ReceiptSteps
  <2>2. Progress(r)
    BY DEF ProgressInv
  <2> QED BY <2>1, <2>2 DEF WriteReceipt, UndoReceipt, At, Progress
<1> QED BY <1>1, AlwaysType, ProgressInit, ProgressStep, PTL DEF Spec, ReceiptNamesTool
-----------------------------------------------------------------------------
(* How a run ends.                                                         *)

EndsBefore(r) ==
    /\ run[r].pc \in {"manifest", "owner", "prepare"}
    /\ outcome'[r] \in {"refused", "current"} /\ UNCHANGED installation

EndsWithSkill(r) ==
    /\ run[r].pc = "skill" /\ run[r].mode = "skill" /\ outcome'[r] = "installed"
    /\ \E d \in run[r].todo : run[r].todo = {d} /\ skill' = [skill EXCEPT ![d] = run[r].manifest]
    /\ UNCHANGED <<tool, receipt>>

EndsWithReceipt(r) ==
    /\ run[r].pc = "receipt" /\ outcome'[r] = "installed"
    /\ receipt' = run[r].manifest /\ UNCHANGED <<tool, skill>>

EndsRestored(r) ==
    /\ run[r].pc = "restore" /\ run[r].mode = "skill" /\ run[r].todo = {}
    /\ outcome'[r] = "undone" /\ UNCHANGED installation

EndsUndone(r) ==
    /\ ~run[r].failed /\ outcome'[r] = "undone" /\ skill' = skill
    /\ \/ run[r].pc = "undoTool" /\ run[r].recorded = None /\ tool' = None /\ receipt' = receipt
       \/ run[r].pc = "undoReceipt" /\ receipt' = run[r].recorded /\ tool' = tool

EndsOtherwise(r) == outcome'[r] \in {"broken", "killed"}

LEMMA StepEnds ==
    ASSUME TypeInv, NEW r \in Run, Step(r), Ends(r)
    PROVE  \/ EndsBefore(r) \/ EndsWithSkill(r) \/ EndsWithReceipt(r)
           \/ EndsRestored(r) \/ EndsUndone(r) \/ EndsOtherwise(r)
<1>r. run[r] \in Local /\ run \in [Run -> Local] /\ run'[r].pc = "idle"
  BY DEF TypeInv, TypeOK, Ends
<1>e. \A o : End(r, o) => outcome'[r] = o
  BY EndRun
<1>g. \A label : GoTo(r, label) => label = "idle"
  BY <1>r, GoToRun
<1>u. ~Undo(r)
  BY <1>r DEF Undo, Local
<1>1. CASE ReadManifest(r) \/ CheckOwner(r) \/ Prepare(r)
  <2>1. CASE End(r, "refused") \/ End(r, "current")
    BY <1>1, <1>e, <2>1 DEF ReadManifest, CheckOwner, Prepare, At, EndsBefore
  <2>2. CASE ~(End(r, "refused") \/ End(r, "current"))
    BY <1>1, <1>r, <2>2 DEF ReadManifest, CheckOwner, Prepare, Local
  <2> QED BY <2>1, <2>2
<1>2. CASE Present(r) \/ RestoreSkill(r)
  BY <1>2, <1>r DEF Present, RestoreSkill, Local
<1>3. CASE InstallTool(r) \/ Verify(r) \/ Validate(r)
  BY <1>3, <1>g, <1>u DEF InstallTool, Verify, Validate
<1>4. CASE WriteSkill(r)
  <2>1. run[r].pc = "skill" /\ UNCHANGED <<tool, receipt>>
    BY <1>4 DEF WriteSkill, At
  <2>2. PICK d \in run[r].todo :
          \/ /\ skill' = [skill EXCEPT ![d] = run[r].manifest]
             /\ IF run[r].todo \ {d} = {} /\ run[r].mode = "skill"
                THEN End(r, "installed")
                ELSE run' = [run EXCEPT ![r].pc = AfterSkill(run[r].todo \ {d}),
                                        ![r].todo = run[r].todo \ {d}]
          \/ run' = [run EXCEPT ![r].pc = "restore", ![r].todo = Dest]
    BY <1>4 DEF WriteSkill
  <2>3. /\ skill' = [skill EXCEPT ![d] = run[r].manifest]
        /\ run[r].todo \ {d} = {} /\ run[r].mode = "skill" /\ End(r, "installed")
    BY <1>r, <2>2 DEF AfterSkill, Local
  <2>4. run[r].todo = {d}
    BY <2>2, <2>3
  <2> QED BY <1>e, <2>1, <2>3, <2>4 DEF EndsWithSkill
<1>5. CASE WriteReceipt(r)
  BY <1>5, <1>e, <1>u DEF WriteReceipt, At, EndsWithReceipt
<1>6. CASE SkillRestored(r)
  <2>1. run'[r].pc # "undoTool"
    BY <1>r
  <2>2. run' # [run EXCEPT ![r].pc = "undoTool", ![r].failed = TRUE]
    BY <1>r, <2>1 DEF Local
  <2> QED BY <1>6, <1>e, <1>g, <1>u, <2>2 DEF SkillRestored, At, EndsRestored, EndsOtherwise
<1>7. CASE UndoTool(r)
  BY <1>7, <1>e, <1>g DEF UndoTool, UndoneAs, GiveUp, At, EndsUndone, EndsOtherwise
<1>8. CASE UndoReceipt(r)
  BY <1>8, <1>e DEF UndoReceipt, UndoneAs, At, EndsUndone, EndsOtherwise
<1> QED BY <1>1, <1>2, <1>3, <1>4, <1>5, <1>6, <1>7, <1>8 DEF Step

LEMMA RunEnds ==
    ASSUME OneRun, TypeInv, [Next]_vars, NEW r \in Run, Ends(r)
    PROVE  \/ EndsBefore(r) \/ EndsWithSkill(r) \/ EndsWithReceipt(r)
           \/ EndsRestored(r) \/ EndsUndone(r) \/ EndsOtherwise(r)
<1>0. \A q \in Run : q = r
  BY DEF OneRun
<1>1. CASE Step(r)
  BY <1>1, StepEnds
<1>2. CASE Kill(r)
  BY <1>2, EndRun DEF Kill, EndsOtherwise
<1>3. ~\E withSkill \in BOOLEAN : StartInstall(r, withSkill) \/ StartUpdate(r, withSkill)
  BY DEF StartInstall, StartUpdate, Start, Ends
<1>4. ~UNCHANGED run
  BY DEF Ends, At
<1> QED BY <1>0, <1>1, <1>2, <1>3, <1>4 DEF Next, Publish, Author, vars

\* install_manifest and the skill-only update report success only when the
\* tool, the receipt and every skill file asked for are at one version: after
\* any failed, killed or half undone runs before, and also if the user writes
\* a skill file or a release is published meanwhile.
THEOREM SuccessIsWhole == ASSUME OneRun PROVE Spec => SuccessConsistent
<1>1. TypeInv /\ ProgressInv /\ [Next]_vars =>
        [\A r \in Run :
          Ends(r) /\ outcome'[r] = "installed" =>
              /\ run[r].mode # "skill" => tool' = run[r].manifest
              /\ receipt' = run[r].manifest
              /\ run[r].withSkill => \A d \in Dest : skill'[d] = run[r].manifest]_vars
  <2> SUFFICES ASSUME TypeInv, ProgressInv, [Next]_vars, NEW r \in Run,
                      Ends(r), outcome'[r] = "installed"
               PROVE  /\ run[r].mode # "skill" => tool' = run[r].manifest
                      /\ receipt' = run[r].manifest
                      /\ run[r].withSkill => \A d \in Dest : skill'[d] = run[r].manifest
    OBVIOUS
  <2>0. Progress(r)
    BY DEF ProgressInv
  <2>1. EndsWithSkill(r) \/ EndsWithReceipt(r)
    BY RunEnds DEF EndsBefore, EndsRestored, EndsUndone, EndsOtherwise
  <2>2. CASE EndsWithSkill(r)
    <3>1. PICK d \in run[r].todo : run[r].todo = {d} /\ skill' = [skill EXCEPT ![d] = run[r].manifest]
      BY <2>2 DEF EndsWithSkill
    <3>2. \A e \in Dest \ {d} : skill[e] = run[r].manifest
      BY <2>0, <2>2, <3>1 DEF EndsWithSkill, Progress
    <3>3. \A e \in Dest : skill'[e] = run[r].manifest
      BY <3>1, <3>2 DEF TypeInv, TypeOK
    <3> QED BY <2>0, <2>2, <3>3 DEF EndsWithSkill, Progress
  <2>3. CASE EndsWithReceipt(r)
    BY <2>0, <2>3 DEF EndsWithReceipt, Progress
  <2> QED BY <2>1, <2>2, <2>3
<1> QED BY <1>1, AlwaysType, ProgressInit, ProgressStep, PTL DEF Spec, SuccessConsistent

-----------------------------------------------------------------------------
(* What a failed run leaves.  Here the user's own writes matter: a skill   *)
(* file that appears while a run is on its way is not one the run found.   *)

LEMMA UndoKept ==
    ASSUME TypeInv, NEW r \in Run, Progress(r), Kept(r), Undo(r), run[r].mode # "skill",
           run[r].pc \in {"tool", "verify", "validate", "receipt", "restore"},
           run[r].pc \in {"validate", "restore"} => run[r].withSkill, skill' = skill
    PROVE  Kept(r)'
<1>1. /\ Same(r) /\ run'[r].todo = Dest
      /\ run'[r].pc = IF run[r].withSkill THEN "undoSkill" ELSE "undoTool"
  BY UndoRun
<1>2. Dest \ run'[r].todo = {}
  BY <1>1
<1>3. CASE run[r].withSkill
  BY <1>1, <1>2, <1>3 DEF Kept, Same
<1>4. CASE ~run[r].withSkill
  BY <1>1, <1>4 DEF Kept, Same
<1> QED BY <1>3, <1>4

LEMMA StepKept ==
    ASSUME TypeInv, OwnInv, NEW r \in Run, Progress(r), Kept(r), Step(r)
    PROVE  Kept(r)'
<1>r. /\ run[r] \in Local /\ run \in [Run -> Local]
      /\ skill \in [Dest -> Content] /\ run[r].todo \subseteq Dest
      /\ found[r].skill \in [Dest -> Content]
  BY DEF TypeInv, TypeOK, Local
<1>n. run[r].pc \in {"validate", "skill", "restore", "undoSkill"} => run[r].withSkill
  BY DEF OwnInv, NoneInTheWay
<1>e. \A o : End(r, o) => Kept(r)'
  BY EndRun
<1>1. CASE ReadManifest(r) \/ Present(r) \/ CheckOwner(r)
  <2>1. CASE run'[r].pc \in {"present", "owner", "prepare"}
    <3>1. /\ run[r].pc \in {"manifest", "present", "owner"}
          /\ found' = found /\ skill' = skill
      BY <1>1, <2>1 DEF ReadManifest, Present, CheckOwner, At, installation, End, Idle, TypeInv, TypeOK
    <3> QED BY <2>1, <3>1 DEF Kept
  <2>2. CASE run'[r].pc \notin {"present", "owner", "prepare"}
    BY <1>1, <1>e, <1>r, <2>2 DEF ReadManifest, Present, CheckOwner, Local
  <2> QED BY <2>1, <2>2
<1>2. CASE Prepare(r)
  <2>1. CASE ~End(r, "refused")
    <3>1. /\ run[r].pc = "prepare" /\ run'[r].pc \in {"skill", "tool"}
          /\ run'[r].snap = skill /\ UNCHANGED <<skill, found>>
      BY <1>2, <2>1, <1>r DEF Prepare, At, installation, Local
    <3> QED BY <3>1 DEF Kept
  <2> QED BY <1>e, <2>1
<1>3. CASE InstallTool(r) \/ Verify(r) \/ Validate(r)
  <2>0. run[r].pc \in {"tool", "verify", "validate"} /\ run[r].mode # "skill" /\ skill' = skill
    BY <1>3 DEF InstallTool, Verify, Validate, At, installation, Progress
  <2>1. CASE \E label \in {"verify", "validate", "skill"} : GoTo(r, label)
    BY <2>0, <2>1, GoToRun DEF Kept, Same
  <2>2. CASE GoTo(r, "receipt")
    BY <2>0, <2>2, GoToRun DEF Kept, Same
  <2>3. CASE Undo(r)
    BY <1>n, <2>0, <2>3, UndoKept
  <2> QED BY <1>3, <2>1, <2>2, <2>3 DEF InstallTool, Verify, Validate
<1>4. CASE WriteSkill(r)
  <2>0. run[r].pc = "skill" /\ run[r].withSkill
    BY <1>4, <1>n DEF WriteSkill, At
  <2>1. CASE ~End(r, "installed")
    <3>1. PICK d \in run[r].todo :
             /\ found' = found
             /\ \/ run' = [run EXCEPT ![r].pc = AfterSkill(run[r].todo \ {d}),
                                      ![r].todo = run[r].todo \ {d}]
                \/ run' = [run EXCEPT ![r].pc = "restore", ![r].todo = Dest]
      BY <1>4, <2>1 DEF WriteSkill
    <3>2. /\ Same(r)
          /\ run'[r].pc \in {"receipt", "skill"} \/ (run'[r].pc = "restore" /\ run'[r].todo = Dest)
      BY <3>1, <1>r DEF Same, AfterSkill, Local
    <3> QED BY <2>0, <3>2 DEF Kept, Same
  <2> QED BY <1>e, <2>1
<1>5. CASE WriteReceipt(r)
  <2>0. run[r].pc = "receipt" /\ run[r].mode # "skill" /\ skill' = skill
    BY <1>5 DEF WriteReceipt, At, Progress
  <2> QED BY <1>5, <1>e, <2>0, UndoKept DEF WriteReceipt
<1>6. CASE RestoreSkill(r)
  <2>1. PICK d \in run[r].todo :
          /\ skill' = [skill EXCEPT ![d] = run[r].snap[d]]
          /\ run' = [run EXCEPT ![r].todo = @ \ {d}]
    BY <1>6 DEF RestoreSkill, RestoredTo
  <2>2. /\ run[r].pc \in {"restore", "undoSkill"} /\ run'[r].pc = run[r].pc /\ Same(r)
        /\ run'[r].todo = run[r].todo \ {d}
    BY <1>6, <1>r, <2>1 DEF RestoreSkill, Same, Local
  <2>3. run[r].snap = found[r].skill
    BY <2>2 DEF Kept
  <2>4. \A e \in Dest \ run'[r].todo : skill'[e] = found[r].skill[e]
    BY <1>r, <2>1, <2>2, <2>3 DEF Kept
  <2> QED BY <2>2, <2>3, <2>4 DEF Kept, Same
<1>7. CASE SkillRestored(r)
  <2>0. skill' = skill
    BY <1>7 DEF SkillRestored, installation
  <2>1. CASE run[r].pc = "restore" /\ run[r].mode # "skill" /\ Undo(r)
    BY <1>n, <2>0, <2>1, UndoKept
  <2>2. CASE run[r].pc = "undoSkill" /\ run[r].todo = {} /\ GoTo(r, "undoTool")
    <3>1. \A d \in Dest : skill[d] = found[r].skill[d]
      BY <2>2 DEF Kept
    <3>2. skill = found[r].skill
      BY <1>r, <3>1
    <3> QED BY <2>0, <2>2, <3>2, GoToRun DEF Kept, Same
  <2>3. CASE run[r].pc = "undoSkill" /\ run' = [run EXCEPT ![r].pc = "undoTool", ![r].failed = TRUE]
             /\ found' = found
    <3>1. run'[r].pc = "undoTool" /\ run'[r].failed /\ Same(r)
      BY <2>3, <1>r DEF Same, Local
    <3> QED BY <2>0, <2>3, <3>1 DEF Kept, Same
  <2> QED BY <1>7, <1>e, <2>1, <2>2, <2>3 DEF SkillRestored, At
<1>8. CASE UndoTool(r)
  <2>1. CASE GoTo(r, "undoReceipt")
    <3>1. run[r].pc = "undoTool" /\ skill' = skill
      BY <1>8 DEF UndoTool, At
    <3> QED BY <2>1, <3>1, GoToRun DEF Kept, Same
  <2> QED BY <1>8, <1>e, <2>1 DEF UndoTool, GiveUp
<1>9. CASE UndoReceipt(r)
  BY <1>9, <1>e DEF UndoReceipt
<1> QED BY <1>1, <1>2, <1>3, <1>4, <1>5, <1>6, <1>7, <1>8, <1>9 DEF Step

LEMMA KeptStep ==
    ASSUME OneRun, "race" \notin Faults
    PROVE  OwnInv /\ ProgressInv /\ KeptInv /\ [Next]_vars => KeptInv'
<1> SUFFICES ASSUME OwnInv, ProgressInv, KeptInv, [Next]_vars, NEW r \in Run PROVE Kept(r)'
  BY DEF KeptInv
<1>0. TypeInv /\ Progress(r) /\ Kept(r) /\ \A q \in Run : q = r
  BY DEF OwnInv, ProgressInv, KeptInv, OneRun
<1>1. CASE \E withSkill \in BOOLEAN : StartInstall(r, withSkill) \/ StartUpdate(r, withSkill)
  BY <1>0, <1>1, StartRun
<1>2. CASE Step(r)
  BY <1>0, <1>2, StepKept
<1>3. CASE Kill(r)
  BY <1>0, <1>3, EndRun DEF Kill
<1>4. CASE Publish \/ UNCHANGED vars
  BY <1>0, <1>4 DEF Publish, installation, vars, Kept
<1>5. ASSUME NEW d \in Dest, Author(d) PROVE Kept(r)'
  BY <1>5 DEF Author, At, Kept
<1> QED BY <1>0, <1>1, <1>2, <1>3, <1>4, <1>5 DEF Next

LEMMA KeptInit == Init => KeptInv
<1> SUFFICES ASSUME Init, NEW r \in Run PROVE Kept(r)
  BY DEF KeptInv
<1>1. run[r].pc = "idle"
  BY DEF Init, Idle
<1> QED BY <1>1 DEF Kept

LEMMA AlwaysOwn == ASSUME "race" \notin Faults PROVE Spec => []OwnInv
<1>1. OwnInv /\ [Next]_vars => OwnInv'
  BY NextOwn
<1> QED BY InitOwn, <1>1, PTL DEF Spec

\* A run that refuses, has nothing to do or reports a completed rollback
\* leaves the tool, the receipt and the skill files it found, whichever of
\* its operations failed and whatever earlier runs left behind; only the
\* receipt of a first installation may stay (see NoStaleReceipt).
THEOREM FailureIsUndone == ASSUME OneRun, "race" \notin Faults PROVE Spec => FailureRestores
<1>1. OwnInv /\ ProgressInv /\ KeptInv /\ [Next]_vars =>
        [\A r \in Run :
          Ends(r) /\ outcome'[r] \in {"refused", "current", "undone"} =>
              /\ skill' = found[r].skill
              /\ found[r].tool \in {found[r].receipt, None} => tool' = found[r].tool
              /\ found[r].receipt # None => receipt' = found[r].receipt]_vars
  <2> SUFFICES ASSUME OwnInv, ProgressInv, KeptInv, [Next]_vars, NEW r \in Run,
                      Ends(r), outcome'[r] \in {"refused", "current", "undone"}
               PROVE  /\ skill' = found[r].skill
                      /\ found[r].tool \in {found[r].receipt, None} => tool' = found[r].tool
                      /\ found[r].receipt # None => receipt' = found[r].receipt
    OBVIOUS
  <2>0. TypeInv /\ Progress(r) /\ Kept(r)
    BY DEF OwnInv, ProgressInv, KeptInv
  <2>1. EndsBefore(r) \/ EndsRestored(r) \/ EndsUndone(r)
    BY <2>0, RunEnds DEF EndsWithSkill, EndsWithReceipt, EndsOtherwise
  <2>2. CASE EndsBefore(r)
    BY <2>0, <2>2 DEF EndsBefore, installation, Progress, Kept
  <2>3. CASE EndsRestored(r)
    <3>1. \A d \in Dest : skill[d] = found[r].skill[d]
      BY <2>0, <2>3 DEF EndsRestored, Kept
    <3>2. skill = found[r].skill
      BY <2>0, <3>1 DEF TypeInv, TypeOK
    <3> QED BY <2>0, <2>3, <3>2 DEF EndsRestored, installation, Progress
  <2>4. CASE EndsUndone(r)
    <3>1. skill' = found[r].skill
      BY <2>0, <2>4 DEF EndsUndone, Kept
    <3>2. run[r].mode # "skill" /\ run[r].recorded = found[r].receipt
          /\ (found[r].tool = None <=> found[r].receipt = None)
      BY <2>0, <2>4 DEF EndsUndone, Progress
    <3>3. CASE run[r].pc = "undoTool"
      BY <2>4, <3>1, <3>2, <3>3 DEF EndsUndone
    <3>4. CASE run[r].pc = "undoReceipt"
      <4>1. tool' = run[r].recorded /\ receipt' = run[r].recorded
        BY <2>0, <2>4, <3>4 DEF EndsUndone, Progress
      <4>2. found[r].tool \in {found[r].receipt, None} => found[r].tool = found[r].receipt
        BY <3>2
      <4> QED BY <3>1, <3>2, <4>1, <4>2
    <3> QED BY <2>4, <3>3, <3>4 DEF EndsUndone
  <2> QED BY <2>1, <2>2, <2>3, <2>4
<1> QED
  BY <1>1, AlwaysType, AlwaysOwn, ProgressInit, ProgressStep, KeptInit, KeptStep, PTL
     DEF Spec, FailureRestores

=============================================================================
