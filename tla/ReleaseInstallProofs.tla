------------------------ MODULE ReleaseInstallProofs ------------------------
(* Theorems about ReleaseInstall, for any number of overlapping runs, any   *)
(* destinations and releases, and any faults unless one is excluded.        *)
EXTENDS ReleaseInstall, TLAPS

-----------------------------------------------------------------------------
(* Types.  A run reaches the skill files with all of them still to write.   *)

AllToWrite ==
    \A r \in Run : run[r].pc \in {"tool", "verify", "validate"} => run[r].todo = Dest

TypeInv == TypeOK /\ AllToWrite

LEMMA IdleType == Idle \in Local
  BY DEF Idle, Local, PCs, Mode, Installed, Content, None

LEMMA InitType == Init => TypeInv
<1> SUFFICES ASSUME Init PROVE TypeInv
  OBVIOUS
<1>1. run \in [Run -> Local] /\ \A r \in Run : run[r].pc = "idle"
  BY IdleType DEF Init, Idle
<1>2. Idle.snap \in [Dest -> Content]
  BY DEF Idle, Content, Installed, None
<1>3. found \in [Run -> [tool : Installed, receipt : Installed, skill : [Dest -> Content]]]
  BY <1>2 DEF Init, Installed, None
<1> QED BY <1>1, <1>3 DEF Init, TypeInv, TypeOK, AllToWrite, At, Outcome

\* What a step may do to one run: any new local state that is in its type and
\* keeps its promises about todo.
LEMMA RunType ==
    ASSUME TypeInv, NEW r \in Run, NEW local \in Local,
           run' = [run EXCEPT ![r] = local],
           local.pc = "skill" => local.todo # {},
           local.pc \in {"tool", "verify", "validate"} => local.todo = Dest
    PROVE  /\ run' \in [Run -> Local]
           /\ \A q \in Run : run'[q].pc = "skill" => run'[q].todo # {}
           /\ AllToWrite'
  BY DEF TypeInv, TypeOK, AllToWrite, At

LEMMA EndType ==
    ASSUME TypeInv, NEW r \in Run, NEW o \in Outcome, End(r, o),
           tool' \in Installed, receipt' \in Installed, skill' \in [Dest -> Content]
    PROVE  TypeInv'
<1>1. Idle.pc = "idle" /\ Idle \in Local
  BY IdleType DEF Idle
<1>2. run' = [run EXCEPT ![r] = Idle]
  BY DEF End
<1>3. /\ run' \in [Run -> Local]
      /\ \A q \in Run : run'[q].pc = "skill" => run'[q].todo # {}
      /\ AllToWrite'
  BY <1>1, <1>2, RunType
<1> QED BY <1>3 DEF End, TypeInv, TypeOK, At

\* A run that goes on with other local variables.
LEMMA GoOnType ==
    ASSUME TypeInv, NEW r \in Run, NEW local \in Local,
           run' = [run EXCEPT ![r] = local],
           local.pc = "skill" => local.todo # {},
           local.pc \in {"tool", "verify", "validate"} => local.todo = Dest,
           UNCHANGED <<latest, outcome, found, authored>>,
           tool' \in Installed, receipt' \in Installed, skill' \in [Dest -> Content]
    PROVE  TypeInv'
<1>1. /\ run' \in [Run -> Local]
      /\ \A q \in Run : run'[q].pc = "skill" => run'[q].todo # {}
      /\ AllToWrite'
  BY RunType
<1> QED BY <1>1 DEF TypeInv, TypeOK, At

LEMMA GoToType ==
    ASSUME TypeInv, NEW r \in Run, NEW label \in PCs, GoTo(r, label),
           label = "skill" => run[r].todo # {},
           label \in {"tool", "verify", "validate"} => run[r].todo = Dest,
           tool' \in Installed, receipt' \in Installed, skill' \in [Dest -> Content]
    PROVE  TypeInv'
<1> DEFINE local == [run[r] EXCEPT !.pc = label]
<1>1. run[r] \in Local
  BY DEF TypeInv, TypeOK
<1>2. local \in Local /\ local.pc = label /\ local.todo = run[r].todo
  BY <1>1 DEF Local
<1>3. run' = [run EXCEPT ![r] = local] /\ UNCHANGED <<latest, outcome, found, authored>>
  BY DEF GoTo
<1> HIDE DEF local
<1> QED BY <1>2, <1>3, GoOnType

LEMMA UndoType ==
    ASSUME TypeInv, NEW r \in Run, Undo(r),
           tool' \in Installed, receipt' \in Installed, skill' \in [Dest -> Content]
    PROVE  TypeInv'
<1> DEFINE label == IF run[r].withSkill THEN "undoSkill" ELSE "undoTool"
           local == [run[r] EXCEPT !.pc = label, !.todo = Dest]
<1>1. run[r] \in Local
  BY DEF TypeInv, TypeOK
<1>2. local \in Local /\ local.pc \in {"undoSkill", "undoTool"}
  BY <1>1 DEF Local, PCs
<1>3. run' = [run EXCEPT ![r] = local] /\ UNCHANGED <<latest, outcome, found, authored>>
  BY <1>1 DEF Undo
<1> HIDE DEF local
<1> QED BY <1>2, <1>3, GoOnType

-----------------------------------------------------------------------------
LEMMA StepType ==
    ASSUME TypeInv, NEW r \in Run, Step(r)
    PROVE  TypeInv'
<1> USE DestAssumption
<1>r. /\ run[r] \in Local /\ tool \in Installed /\ receipt \in Installed
      /\ skill \in [Dest -> Content] /\ latest \in Version
  BY DEF TypeInv, TypeOK
<1>o. /\ "refused" \in Outcome /\ "current" \in Outcome /\ "installed" \in Outcome
      /\ "undone" \in Outcome /\ "broken" \in Outcome /\ UndoneAs(r) \in Outcome
  BY DEF Outcome, UndoneAs
<1>v. /\ None \in Installed /\ latest \in Installed
      /\ run[r].manifest \in Installed /\ run[r].recorded \in Installed
      /\ run[r].snap \in [Dest -> Content] /\ run[r].todo \subseteq Dest
      /\ run[r].manifest \in Content
  BY <1>r DEF Installed, Local, Content
<1>p. /\ "verify" \in PCs /\ "validate" \in PCs /\ "receipt" \in PCs /\ "skill" \in PCs
      /\ "undoTool" \in PCs /\ "undoReceipt" \in PCs
  BY DEF PCs
<1>1. CASE ReadManifest(r)
  <2>1. UNCHANGED installation
    BY <1>1 DEF ReadManifest
  <2>2. CASE End(r, "refused") \/ End(r, "current")
    BY <2>1, <2>2, <1>r, <1>o, EndType DEF installation
  <2>3. CASE /\ run' = [run EXCEPT ![r].pc = "prepare", ![r].mode = "skill", ![r].manifest = latest]
             /\ UNCHANGED <<outcome, found, latest, authored>>
    <3> DEFINE local == [run[r] EXCEPT !.pc = "prepare", !.mode = "skill", !.manifest = latest]
    <3>1. local \in Local /\ local.pc = "prepare"
      BY <1>r, <1>v DEF Local, PCs, Mode
    <3>2. run' = [run EXCEPT ![r] = local]
      BY <2>3, <1>r
    <3> HIDE DEF local
    <3> QED BY <2>1, <2>3, <3>1, <3>2, <1>r, GoOnType DEF installation
  <2>4. CASE /\ run' = [run EXCEPT ![r].pc = "present", ![r].manifest = latest]
             /\ UNCHANGED <<outcome, found, latest, authored>>
    <3> DEFINE local == [run[r] EXCEPT !.pc = "present", !.manifest = latest]
    <3>1. local \in Local /\ local.pc = "present"
      BY <1>r, <1>v DEF Local, PCs
    <3>2. run' = [run EXCEPT ![r] = local]
      BY <2>4, <1>r
    <3> HIDE DEF local
    <3> QED BY <2>1, <2>4, <3>1, <3>2, <1>r, GoOnType DEF installation
  <2> QED BY <1>1, <2>2, <2>3, <2>4 DEF ReadManifest
<1>2. CASE Present(r)
  <2> DEFINE local == [run[r] EXCEPT !.pc = "owner", !.sees = (tool # None)]
  <2>1. local \in Local /\ local.pc = "owner"
    BY <1>r DEF Local, PCs
  <2>2. run' = [run EXCEPT ![r] = local] /\ UNCHANGED <<installation, outcome, found, latest, authored>>
    BY <1>2, <1>r DEF Present
  <2> HIDE DEF local
  <2> QED BY <2>1, <2>2, <1>r, GoOnType DEF installation
<1>3. CASE CheckOwner(r)
  <2>1. UNCHANGED installation
    BY <1>3 DEF CheckOwner
  <2>2. CASE End(r, "refused")
    BY <2>1, <2>2, <1>r, <1>o, EndType DEF installation
  <2>3. CASE ~End(r, "refused")
    <3> DEFINE local == [run[r] EXCEPT !.pc = "prepare", !.recorded = receipt]
    <3>1. local \in Local /\ local.pc = "prepare"
      BY <1>r DEF Local, PCs
    <3>2. run' = [run EXCEPT ![r] = local] /\ UNCHANGED <<outcome, found, latest, authored>>
      BY <1>3, <2>3, <1>r DEF CheckOwner
    <3> HIDE DEF local
    <3> QED BY <2>1, <3>1, <3>2, <1>r, GoOnType DEF installation
  <2> QED BY <2>2, <2>3
<1>4. CASE Prepare(r)
  <2>1. UNCHANGED installation
    BY <1>4 DEF Prepare
  <2>2. CASE End(r, "refused")
    BY <2>1, <2>2, <1>r, <1>o, EndType DEF installation
  <2>3. CASE ~End(r, "refused")
    <3> DEFINE label == IF run[r].mode = "skill" THEN "skill" ELSE "tool"
               local == [run[r] EXCEPT !.pc = label, !.snap = skill, !.todo = Dest]
    <3>1. local \in Local /\ local.todo = Dest
      BY <1>r DEF Local, PCs
    <3>2. run' = [run EXCEPT ![r] = local] /\ UNCHANGED <<outcome, found, latest, authored>>
      BY <1>4, <2>3, <1>r DEF Prepare
    <3> HIDE DEF local
    <3> QED BY <2>1, <3>1, <3>2, <1>r, GoOnType DEF installation
  <2> QED BY <2>2, <2>3
<1>5. CASE InstallTool(r)
  <2>1. /\ tool' \in Installed /\ receipt' \in Installed /\ skill' \in [Dest -> Content]
        /\ GoTo(r, "verify") \/ Undo(r)
    BY <1>5, <1>r, <1>v DEF InstallTool
  <2>2. run[r].todo = Dest
    BY <1>5 DEF InstallTool, At, TypeInv, AllToWrite
  <2> QED BY <2>1, <2>2, <1>p, GoToType, UndoType
<1>6. CASE Verify(r)
  <2>1. /\ UNCHANGED installation
        /\ \/ GoTo(r, "validate") \/ GoTo(r, "receipt") \/ Undo(r)
    BY <1>6 DEF Verify
  <2>2. run[r].todo = Dest
    BY <1>6 DEF Verify, At, TypeInv, AllToWrite
  <2> QED BY <2>1, <2>2, <1>r, <1>p, GoToType, UndoType DEF installation
<1>7. CASE Validate(r)
  <2>1. UNCHANGED installation /\ (GoTo(r, "skill") \/ Undo(r))
    BY <1>7 DEF Validate
  <2>2. run[r].todo = Dest
    BY <1>7 DEF Validate, At, TypeInv, AllToWrite
  <2> QED BY <2>1, <2>2, <1>r, <1>p, GoToType, UndoType DEF installation
<1>8. CASE WriteSkill(r)
  <2>0. UNCHANGED <<tool, receipt>>
    BY <1>8 DEF WriteSkill
  <2>1. PICK d \in run[r].todo :
          \/ /\ skill' = [skill EXCEPT ![d] = run[r].manifest]
             /\ LET rest == run[r].todo \ {d}
                IN IF rest = {} /\ run[r].mode = "skill"
                   THEN End(r, "installed")
                   ELSE /\ run' = [run EXCEPT ![r].pc = AfterSkill(rest), ![r].todo = rest]
                        /\ UNCHANGED <<outcome, found, latest, authored>>
          \/ /\ IO
             /\ skill' \in {skill, [skill EXCEPT ![d] = run[r].manifest]}
             /\ run' = [run EXCEPT ![r].pc = "restore", ![r].todo = Dest]
             /\ UNCHANGED <<outcome, found, latest, authored>>
    BY <1>8 DEF WriteSkill
  <2>2. skill' \in [Dest -> Content]
    BY <2>1, <1>r, <1>v
  <2> DEFINE rest == run[r].todo \ {d}
  <2>3. CASE End(r, "installed")
    BY <2>0, <2>2, <2>3, <1>r, <1>o, EndType
  <2>4. CASE /\ run' = [run EXCEPT ![r].pc = AfterSkill(rest), ![r].todo = rest]
             /\ UNCHANGED <<outcome, found, latest, authored>>
    <3> DEFINE local == [run[r] EXCEPT !.pc = AfterSkill(rest), !.todo = rest]
    <3>1. /\ local \in Local /\ local.pc \in {"skill", "receipt"}
          /\ local.pc = "skill" => local.todo # {}
      BY <1>r, <1>v DEF Local, PCs, AfterSkill
    <3>2. run' = [run EXCEPT ![r] = local]
      BY <2>4, <1>r
    <3> HIDE DEF local
    <3> QED BY <2>0, <2>2, <2>4, <3>1, <3>2, <1>r, GoOnType
  <2>5. CASE /\ run' = [run EXCEPT ![r].pc = "restore", ![r].todo = Dest]
             /\ UNCHANGED <<outcome, found, latest, authored>>
    <3> DEFINE local == [run[r] EXCEPT !.pc = "restore", !.todo = Dest]
    <3>1. local \in Local /\ local.pc = "restore"
      BY <1>r DEF Local, PCs
    <3>2. run' = [run EXCEPT ![r] = local]
      BY <2>5, <1>r
    <3> HIDE DEF local
    <3> QED BY <2>0, <2>2, <2>5, <3>1, <3>2, <1>r, GoOnType
  <2> QED BY <2>1, <2>3, <2>4, <2>5
<1>9. CASE WriteReceipt(r)
  BY <1>9, <1>r, <1>v, <1>o, EndType, UndoType DEF WriteReceipt
<1>10. CASE RestoreSkill(r)
  <2>1. PICK d \in run[r].todo :
          /\ skill' = [skill EXCEPT ![d] = run[r].snap[d]]
          /\ run' = [run EXCEPT ![r].todo = @ \ {d}]
    BY <1>10 DEF RestoreSkill, RestoredTo
  <2>2. skill' \in [Dest -> Content]
    BY <2>1, <1>r, <1>v
  <2> DEFINE local == [run[r] EXCEPT !.todo = run[r].todo \ {d}]
  <2>3. local \in Local /\ local.pc \in {"restore", "undoSkill"}
    BY <1>10, <1>r DEF RestoreSkill, Local
  <2>4. run' = [run EXCEPT ![r] = local]
    BY <2>1, <1>r
  <2>5. UNCHANGED <<tool, receipt, outcome, found, latest, authored>>
    BY <1>10 DEF RestoreSkill
  <2> HIDE DEF local
  <2> QED BY <2>2, <2>3, <2>4, <2>5, <1>r, GoOnType
<1>11. CASE SkillRestored(r)
  <2>1. UNCHANGED installation
    BY <1>11 DEF SkillRestored
  <2>2. CASE End(r, "undone") \/ End(r, "broken")
    BY <2>1, <2>2, <1>r, <1>o, EndType DEF installation
  <2>3. CASE Undo(r)
    BY <2>1, <2>3, <1>r, UndoType DEF installation
  <2>4. CASE GoTo(r, "undoTool")
    BY <2>1, <2>4, <1>r, <1>p, GoToType DEF installation
  <2>5. CASE /\ run' = [run EXCEPT ![r].pc = "undoTool", ![r].failed = TRUE]
             /\ UNCHANGED <<outcome, found, latest, authored>>
    <3> DEFINE local == [run[r] EXCEPT !.pc = "undoTool", !.failed = TRUE]
    <3>1. local \in Local /\ local.pc = "undoTool"
      BY <1>r DEF Local, PCs
    <3>2. run' = [run EXCEPT ![r] = local]
      BY <2>5, <1>r
    <3> HIDE DEF local
    <3> QED BY <2>1, <2>5, <3>1, <3>2, <1>r, GoOnType DEF installation
  <2> QED BY <1>11, <2>2, <2>3, <2>4, <2>5 DEF SkillRestored
<1>12. CASE UndoTool(r)
  <2>1. tool' \in Installed /\ UNCHANGED <<receipt, skill>>
    BY <1>12, <1>r, <1>v DEF UndoTool
  <2>2. End(r, UndoneAs(r)) \/ End(r, "broken") \/ GoTo(r, "undoReceipt")
    BY <1>12 DEF UndoTool, GiveUp
  <2> QED BY <2>1, <2>2, <1>r, <1>o, <1>p, EndType, GoToType
<1>13. CASE UndoReceipt(r)
  <2>1. receipt' \in Installed /\ UNCHANGED <<tool, skill>>
    BY <1>13, <1>r, <1>v DEF UndoReceipt
  <2>2. End(r, UndoneAs(r)) \/ End(r, "broken")
    BY <1>13 DEF UndoReceipt
  <2> QED BY <2>1, <2>2, <1>r, <1>o, EndType
<1> QED BY <1>1, <1>2, <1>3, <1>4, <1>5, <1>6, <1>7, <1>8, <1>9, <1>10, <1>11, <1>12, <1>13 DEF Step

LEMMA StartType ==
    ASSUME TypeInv, NEW r \in Run, NEW withSkill \in BOOLEAN,
           StartInstall(r, withSkill) \/ StartUpdate(r, withSkill)
    PROVE  TypeInv'
<1> DEFINE installs == [Idle EXCEPT !.pc = "present", !.withSkill = withSkill, !.manifest = latest]
           updates == [Idle EXCEPT !.pc = "manifest", !.mode = "update",
                                   !.withSkill = withSkill, !.recorded = receipt]
<1>1. latest \in Installed /\ receipt \in Installed
  BY DEF TypeInv, TypeOK, Installed
<1>2. /\ installs \in Local /\ installs.pc = "present"
      /\ updates \in Local /\ updates.pc = "manifest"
  BY <1>1, IdleType DEF Local, PCs, Mode, Idle
<1>3. Start(r, installs) \/ Start(r, updates)
  BY DEF StartInstall, StartUpdate
<1> HIDE DEF installs, updates
<1>4. PICK local \in {installs, updates} : Start(r, local)
  BY <1>3
<1>5. /\ run' \in [Run -> Local]
      /\ \A q \in Run : run'[q].pc = "skill" => run'[q].todo # {}
      /\ AllToWrite'
  BY <1>2, <1>4, RunType DEF Start
<1>6. found' \in [Run -> [tool : Installed, receipt : Installed, skill : [Dest -> Content]]]
  BY <1>4 DEF Start, TypeInv, TypeOK
<1> QED BY <1>4, <1>5, <1>6 DEF Start, installation, TypeInv, TypeOK, At

LEMMA NextType == TypeInv /\ [Next]_vars => TypeInv'
<1> SUFFICES ASSUME TypeInv, [Next]_vars PROVE TypeInv'
  OBVIOUS
<1>1. ASSUME NEW r \in Run, NEW withSkill \in BOOLEAN,
             StartInstall(r, withSkill) \/ StartUpdate(r, withSkill)
      PROVE TypeInv'
  BY <1>1, StartType
<1>2. ASSUME NEW r \in Run, Step(r) PROVE TypeInv'
  BY <1>2, StepType
<1>3. ASSUME NEW r \in Run, Kill(r) PROVE TypeInv'
  <2>1. /\ "killed" \in Outcome /\ End(r, "killed")
        /\ tool' \in Installed /\ receipt' \in Installed /\ skill' \in [Dest -> Content]
    BY <1>3 DEF Kill, Outcome, TypeInv, TypeOK, Installed
  <2> QED BY <2>1, EndType
<1>4. CASE Publish
  BY <1>4 DEF Publish, installation, TypeInv, TypeOK, AllToWrite, At
<1>5. ASSUME NEW d \in Dest, Author(d) PROVE TypeInv'
  BY <1>5 DEF Author, Content, TypeInv, TypeOK, AllToWrite, At
<1>6. CASE UNCHANGED vars
  BY <1>6 DEF vars, TypeInv, TypeOK, AllToWrite, At
<1> QED BY <1>1, <1>2, <1>3, <1>4, <1>5, <1>6 DEF Next

\* Every reachable state is type correct, and a run that comes to the skill
\* files has some left to write, however the runs overlap and fail.
THEOREM TypeCorrect == Spec => []TypeOK
<1>1. TypeInv => TypeOK
  BY DEF TypeInv
<1> QED BY InitType, NextType, <1>1, PTL DEF Spec

-----------------------------------------------------------------------------
(* The user's own skills.  A run that goes on with skill files has seen     *)
(* that none of them is the user's.                                         *)

SkillLabels == {"tool", "verify", "validate", "skill", "receipt", "restore", "undoSkill"}

NoneInTheWay ==
    \A r \in Run :
        /\ run[r].pc \in SkillLabels /\ run[r].withSkill => authored = {}
        /\ run[r].pc \in {"validate", "skill", "restore", "undoSkill"} => run[r].withSkill
        /\ run[r].mode = "skill" => run[r].withSkill

OwnInv == TypeInv /\ UnmarkedKept /\ NoneInTheWay

LEMMA InitOwn == Init => OwnInv
<1> SUFFICES ASSUME Init PROVE OwnInv
  OBVIOUS
<1>1. \A r \in Run : run[r].pc = "idle" /\ run[r].mode = "install"
  BY DEF Init, Idle
<1>2. UnmarkedKept
  BY DEF Init, UnmarkedKept
<1> QED BY <1>1, <1>2, InitType DEF OwnInv, NoneInTheWay, SkillLabels

\* A run that ends touches no skill any more.
LEMMA EndOwn ==
    ASSUME OwnInv, TypeInv', NEW r \in Run, NEW o, End(r, o), UNCHANGED skill
    PROVE  OwnInv'
<1>1. Idle.pc = "idle" /\ Idle.mode = "install"
  BY DEF Idle
<1>2. run' = [run EXCEPT ![r] = Idle] /\ UNCHANGED authored
  BY DEF End
<1>3. UnmarkedKept'
  BY <1>2 DEF OwnInv, UnmarkedKept
<1>4. NoneInTheWay'
  BY <1>1, <1>2 DEF OwnInv, TypeInv, TypeOK, NoneInTheWay, SkillLabels
<1> QED BY <1>3, <1>4 DEF OwnInv

\* A run that goes on, where its new local variables keep NoneInTheWay.
LEMMA GoOnOwn ==
    ASSUME OwnInv, TypeInv', NEW r \in Run, UNCHANGED <<authored, skill>>,
           \A q \in Run \ {r} : run'[q] = run[q],
           run'[r].pc \in SkillLabels /\ run'[r].withSkill => authored = {},
           run'[r].pc \in {"validate", "skill", "restore", "undoSkill"} => run'[r].withSkill,
           run'[r].mode = "skill" => run'[r].withSkill
    PROVE  OwnInv'
<1>1. UnmarkedKept'
  BY DEF OwnInv, UnmarkedKept
<1>2. NoneInTheWay'
  BY DEF OwnInv, NoneInTheWay
<1> QED BY <1>1, <1>2 DEF OwnInv

\* With no skill of the user's about, writing one changes nothing of theirs.
LEMMA WriteOwn ==
    ASSUME OwnInv, TypeInv', NEW r \in Run, authored = {}, UNCHANGED authored,
           \A q \in Run \ {r} : run'[q] = run[q],
           run'[r].pc \in {"validate", "skill", "restore", "undoSkill"} => run'[r].withSkill,
           run'[r].mode = "skill" => run'[r].withSkill
    PROVE  OwnInv'
<1>1. UnmarkedKept'
  BY DEF UnmarkedKept
<1>2. NoneInTheWay'
  BY DEF OwnInv, NoneInTheWay
<1> QED BY <1>1, <1>2 DEF OwnInv

LEMMA UndoOwn ==
    ASSUME OwnInv, TypeInv', NEW r \in Run, Undo(r), UNCHANGED skill,
           run[r].pc \in SkillLabels
    PROVE  OwnInv'
<1>1. /\ \A q \in Run \ {r} : run'[q] = run[q]
      /\ run'[r].pc = IF run[r].withSkill THEN "undoSkill" ELSE "undoTool"
      /\ run'[r].withSkill = run[r].withSkill /\ run'[r].mode = run[r].mode
      /\ UNCHANGED authored
  BY DEF Undo, OwnInv, TypeInv, TypeOK, Local
<1>2. run[r].withSkill => authored = {}
  BY DEF OwnInv, NoneInTheWay
<1>3. run[r].mode = "skill" => run[r].withSkill
  BY DEF OwnInv, NoneInTheWay
<1> QED BY <1>1, <1>2, <1>3, GoOnOwn DEF SkillLabels

LEMMA GoToOwn ==
    ASSUME OwnInv, TypeInv', NEW r \in Run, NEW label \in PCs, GoTo(r, label), UNCHANGED skill,
           label \in SkillLabels => run[r].pc \in SkillLabels,
           label \in {"validate", "skill", "restore", "undoSkill"} => run[r].withSkill
    PROVE  OwnInv'
<1>1. /\ \A q \in Run \ {r} : run'[q] = run[q]
      /\ run'[r].pc = label /\ run'[r].withSkill = run[r].withSkill /\ run'[r].mode = run[r].mode
      /\ UNCHANGED authored
  BY DEF GoTo, OwnInv, TypeInv, TypeOK, Local
<1>2. run[r].pc \in SkillLabels /\ run[r].withSkill => authored = {}
  BY DEF OwnInv, NoneInTheWay
<1>3. run[r].mode = "skill" => run[r].withSkill
  BY DEF OwnInv, NoneInTheWay
<1> QED BY <1>1, <1>2, <1>3, GoOnOwn

LEMMA StepOwn ==
    ASSUME OwnInv, TypeInv', NEW r \in Run, Step(r)
    PROVE  OwnInv'
<1>r. run[r] \in Local /\ run \in [Run -> Local]
  BY DEF OwnInv, TypeInv, TypeOK
<1>n. /\ run[r].pc \in SkillLabels /\ run[r].withSkill => authored = {}
      /\ run[r].pc \in {"validate", "skill", "restore", "undoSkill"} => run[r].withSkill
      /\ run[r].mode = "skill" => run[r].withSkill
  BY DEF OwnInv, NoneInTheWay
<1>p. /\ "verify" \in PCs /\ "validate" \in PCs /\ "receipt" \in PCs /\ "skill" \in PCs
      /\ "undoTool" \in PCs /\ "undoReceipt" \in PCs
  BY DEF PCs
<1>1. CASE ReadManifest(r)
  <2>1. UNCHANGED skill
    BY <1>1 DEF ReadManifest, installation
  <2>2. CASE End(r, "refused") \/ End(r, "current")
    BY <2>1, <2>2, EndOwn
  <2>3. CASE ~(End(r, "refused") \/ End(r, "current"))
    <3>1. /\ \A q \in Run \ {r} : run'[q] = run[q]
          /\ run'[r].pc \in {"prepare", "present"} /\ UNCHANGED authored
          /\ run'[r].withSkill = run[r].withSkill
          /\ run'[r].mode = "skill" => run[r].withSkill
      BY <1>1, <2>3, <1>r, <1>n DEF ReadManifest, Local
    <3> QED BY <2>1, <3>1, GoOnOwn DEF SkillLabels
  <2> QED BY <2>2, <2>3
<1>2. CASE Present(r)
  <2>1. /\ \A q \in Run \ {r} : run'[q] = run[q]
        /\ run'[r].pc = "owner" /\ UNCHANGED <<authored, skill>>
        /\ run'[r].withSkill = run[r].withSkill /\ run'[r].mode = run[r].mode
    BY <1>2, <1>r DEF Present, Local, installation
  <2> QED BY <2>1, <1>n, GoOnOwn DEF SkillLabels
<1>3. CASE CheckOwner(r)
  <2>1. UNCHANGED skill
    BY <1>3 DEF CheckOwner, installation
  <2>2. CASE End(r, "refused")
    BY <2>1, <2>2, EndOwn
  <2>3. CASE ~End(r, "refused")
    <3>1. /\ \A q \in Run \ {r} : run'[q] = run[q]
          /\ run'[r].pc = "prepare" /\ UNCHANGED authored
          /\ run'[r].withSkill = run[r].withSkill /\ run'[r].mode = run[r].mode
      BY <1>3, <2>3, <1>r DEF CheckOwner, Local
    <3> QED BY <2>1, <3>1, <1>n, GoOnOwn DEF SkillLabels
  <2> QED BY <2>2, <2>3
<1>4. CASE Prepare(r)
  <2>1. UNCHANGED skill
    BY <1>4 DEF Prepare, installation
  <2>2. CASE End(r, "refused")
    BY <2>1, <2>2, EndOwn
  <2>3. CASE ~End(r, "refused")
    <3>1. /\ \A q \in Run \ {r} : run'[q] = run[q]
          /\ run'[r].pc = IF run[r].mode = "skill" THEN "skill" ELSE "tool"
          /\ run'[r].withSkill = run[r].withSkill /\ run'[r].mode = run[r].mode
          /\ Acceptable(r) /\ UNCHANGED authored
      BY <1>4, <2>3, <1>r DEF Prepare, Local
    <3>2. run[r].withSkill => authored = {}
      BY <3>1 DEF Acceptable, OwnInv, UnmarkedKept, TypeInv, TypeOK
    <3> QED BY <2>1, <3>1, <3>2, <1>n, GoOnOwn
  <2> QED BY <2>2, <2>3
<1>5. CASE InstallTool(r)
  BY <1>5, <1>p, GoToOwn, UndoOwn DEF InstallTool, At, SkillLabels
<1>6. CASE Verify(r)
  <2>1. /\ UNCHANGED skill /\ run[r].pc = "verify"
        /\ \/ run[r].withSkill /\ GoTo(r, "validate")
           \/ GoTo(r, "receipt")
           \/ Undo(r)
    BY <1>6 DEF Verify, At, installation
  <2> QED BY <2>1, <1>p, GoToOwn, UndoOwn DEF SkillLabels
<1>7. CASE Validate(r)
  <2>1. /\ UNCHANGED skill /\ run[r].pc = "validate"
        /\ GoTo(r, "skill") \/ Undo(r)
    BY <1>7 DEF Validate, At, installation
  <2> QED BY <2>1, <1>n, <1>p, GoToOwn, UndoOwn DEF SkillLabels
<1>8. CASE WriteSkill(r)
  <2>1. authored = {} /\ run[r].withSkill
    BY <1>8, <1>n DEF WriteSkill, At, SkillLabels
  <2>2. /\ \A q \in Run \ {r} : run'[q] = run[q]
        /\ \/ run'[r] = Idle
           \/ run'[r].withSkill = run[r].withSkill /\ run'[r].mode = run[r].mode
        /\ UNCHANGED authored
    BY <1>8, <1>r DEF WriteSkill, End, Local
  <2>3. /\ run'[r].pc \in {"validate", "skill", "restore", "undoSkill"} => run'[r].withSkill
        /\ run'[r].mode = "skill" => run'[r].withSkill
    <3>1. Idle.pc = "idle" /\ Idle.mode = "install"
      BY DEF Idle
    <3> QED BY <2>1, <2>2, <3>1
  <2> QED BY <2>1, <2>2, <2>3, WriteOwn
<1>9. CASE WriteReceipt(r)
  BY <1>9, EndOwn, UndoOwn DEF WriteReceipt, At, SkillLabels
<1>10. CASE RestoreSkill(r)
  <2>1. authored = {} /\ run[r].withSkill
    BY <1>10, <1>n DEF RestoreSkill, SkillLabels
  <2>2. /\ \A q \in Run \ {r} : run'[q] = run[q]
        /\ run'[r].withSkill = run[r].withSkill /\ run'[r].mode = run[r].mode
        /\ UNCHANGED authored
    BY <1>10, <1>r DEF RestoreSkill, Local
  <2> QED BY <2>1, <2>2, WriteOwn
<1>11. CASE SkillRestored(r)
  <2>1. UNCHANGED skill
    BY <1>11 DEF SkillRestored, installation
  <2>2. CASE End(r, "undone") \/ End(r, "broken")
    BY <2>1, <2>2, EndOwn
  <2>3. CASE Undo(r) /\ At(r, "restore")
    BY <2>1, <2>3, UndoOwn DEF At, SkillLabels
  <2>4. CASE GoTo(r, "undoTool")
    BY <2>1, <2>4, <1>p, GoToOwn DEF SkillLabels
  <2>5. CASE /\ run' = [run EXCEPT ![r].pc = "undoTool", ![r].failed = TRUE]
             /\ UNCHANGED <<outcome, found, latest, authored>>
    <3>1. /\ \A q \in Run \ {r} : run'[q] = run[q]
          /\ run'[r].pc = "undoTool" /\ UNCHANGED authored
          /\ run'[r].withSkill = run[r].withSkill /\ run'[r].mode = run[r].mode
      BY <2>5, <1>r DEF Local
    <3> QED BY <2>1, <3>1, <1>n, GoOnOwn DEF SkillLabels
  <2> QED BY <1>11, <2>2, <2>3, <2>4, <2>5 DEF SkillRestored
<1>12. CASE UndoTool(r)
  BY <1>12, <1>p, EndOwn, GoToOwn DEF UndoTool, GiveUp, SkillLabels
<1>13. CASE UndoReceipt(r)
  BY <1>13, EndOwn DEF UndoReceipt
<1> QED BY <1>1, <1>2, <1>3, <1>4, <1>5, <1>6, <1>7, <1>8, <1>9, <1>10, <1>11, <1>12, <1>13 DEF Step

LEMMA NextOwn == "race" \notin Faults /\ OwnInv /\ [Next]_vars => OwnInv'
<1> SUFFICES ASSUME "race" \notin Faults, OwnInv, [Next]_vars PROVE OwnInv'
  OBVIOUS
<1>t. TypeInv'
  BY NextType DEF OwnInv
<1>1. ASSUME NEW r \in Run, NEW withSkill \in BOOLEAN,
             StartInstall(r, withSkill) \/ StartUpdate(r, withSkill)
      PROVE OwnInv'
  <2>1. run \in [Run -> Local]
    BY DEF OwnInv, TypeInv, TypeOK
  <2>2. /\ \A q \in Run \ {r} : run'[q] = run[q]
        /\ run'[r].pc \in {"present", "manifest"} /\ run'[r].mode \in {"install", "update"}
        /\ UNCHANGED <<authored, skill>>
    <3>1. CASE StartInstall(r, withSkill)
      BY <2>1, <3>1 DEF StartInstall, Start, installation, Idle
    <3>2. CASE StartUpdate(r, withSkill)
      BY <2>1, <3>2 DEF StartUpdate, Start, installation, Idle
    <3> QED BY <1>1, <3>1, <3>2
  <2> QED BY <1>t, <2>2, GoOnOwn DEF SkillLabels
<1>2. ASSUME NEW r \in Run, Step(r) PROVE OwnInv'
  BY <1>2, <1>t, StepOwn
<1>3. ASSUME NEW r \in Run, Kill(r) PROVE OwnInv'
  BY <1>3, <1>t, EndOwn DEF Kill
<1>4. CASE Publish
  BY <1>4, <1>t DEF Publish, installation, OwnInv, UnmarkedKept, NoneInTheWay
<1>5. ASSUME NEW d \in Dest, Author(d) PROVE OwnInv'
  <2>1. \A r \in Run : run[r].pc = "idle"
    BY <1>5 DEF Author, At
  <2>2. /\ UnmarkedKept'
        /\ UNCHANGED run
    BY <1>5 DEF Author, OwnInv, UnmarkedKept, TypeInv, TypeOK
  <2> QED BY <1>t, <2>1, <2>2 DEF OwnInv, NoneInTheWay, SkillLabels
<1>6. CASE UNCHANGED vars
  BY <1>6, <1>t DEF vars, OwnInv, UnmarkedKept, NoneInTheWay
<1> QED BY <1>1, <1>2, <1>3, <1>4, <1>5, <1>6 DEF Next

\* As long as the user writes none while a run is on its way, no skill without
\* envman's marker is ever replaced or removed: however many runs overlap,
\* fail, are rolled back or are killed.
THEOREM OwnSkillsKept == ASSUME "race" \notin Faults PROVE Spec => []UnmarkedKept
<1>1. OwnInv => UnmarkedKept
  BY DEF OwnInv
<1>2. OwnInv /\ [Next]_vars => OwnInv'
  BY NextOwn
<1> QED BY InitOwn, <1>1, <1>2, PTL DEF Spec
=============================================================================
