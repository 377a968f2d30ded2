--------------------------- MODULE BackupKeyProofs ---------------------------
(***************************************************************************)
(* Theorems about BackupKey, for any processes, keys, paths and contents,  *)
(* and any number of kills, power losses and changes by the user.          *)
(***************************************************************************)
EXTENDS BackupKey, TLAPS

(* What a process holds, by where it is.                                   *)
InHand(p) ==
    /\ job[p].pc \in {"seal", "fill", "replace", "read", "open"} =>
          job[p].path \in Backup
    /\ At(p, "seal") => job[p].content \in Variables
    /\ job[p].pc \in {"fill", "replace", "open"} => job[p].file \in Envelope
    /\ At(p, "replace") => part[p] \in Envelope
    /\ job[p].pc \in {"sync", "link"} => temp[p].key \in Key
    /\ At(p, "link") => temp[p].disk = temp[p].key
    /\ job[p].pc \in {"stat", "write", "sync", "link"} =>
          job[p].approved /\ job[p].env = NoKey

TypeInv == TypeOK /\ \A p \in Proc : InHand(p)

-----------------------------------------------------------------------------
(* Typing.                                                                 *)

LEMMA IdleTyped == Idle \in Job
BY DEF Idle, Job, PCs

LEMMA GoToTyped ==
    ASSUME job \in [Proc -> Job], NEW p \in Proc, NEW c \in PCs, GoTo(p, c)
    PROVE  job' \in [Proc -> Job]
<1>1. [job[p] EXCEPT !.pc = c] \in Job
  BY DEF Job
<1>2. job' = [job EXCEPT ![p] = [job[p] EXCEPT !.pc = c]]
  BY DEF GoTo
<1> QED BY <1>1, <1>2

LEMMA TypeInit == Init => TypeInv
<1> SUFFICES ASSUME Init PROVE TypeInv
  OBVIOUS
<1>1. job \in [Proc -> Job] /\ part \in [Proc -> Files]
  BY IdleTyped DEF Init, Files
<1>2. temp \in [Proc -> [key : Key \cup {NoKey, Malformed},
                        disk : Key \cup {NoKey, Malformed}]]
  BY DEF Init, NoTemp
<1>3. backup \in [Backup -> Files] /\ onDisk \in [Backup -> SUBSET Files]
      /\ \A b \in Backup : backup[b] \in onDisk[b]
  BY DEF Init, Files
<1>4. TypeOK
  <2>1. keyFile \in Key \cup {NoKey, Malformed} /\ keyFile \in keyOnDisk
        /\ keyOnDisk \subseteq Key \cup {NoKey, Malformed}
    BY DEF Init
  <2>2. byUser \in BOOLEAN /\ keyLost \in BOOLEAN
    BY DEF Init
  <2>3. events \in 0..MaxEvents
    BY NamesAssumption DEF Init
  <2> QED BY <1>1, <1>2, <1>3, <2>1, <2>2, <2>3 DEF TypeOK
<1>5. ASSUME NEW p \in Proc PROVE InHand(p)
  BY DEF Init, InHand, At, Idle
<1> QED BY <1>4, <1>5 DEF TypeInv

\* A process that ends holds nothing.
LEMMA EndTyped ==
    ASSUME TypeInv, NEW p \in Proc, End(p), UNCHANGED <<keyVars, backupVars>>,
           events' \in 0..MaxEvents
    PROVE  TypeInv'
<1>1. TypeOK'
  BY IdleTyped DEF TypeInv, TypeOK, End, Files, NoTemp, keyVars, backupVars
<1>2. ASSUME NEW q \in Proc PROVE InHand(q)'
  BY DEF TypeInv, TypeOK, End, InHand, At, Idle
<1> QED BY <1>1, <1>2 DEF TypeInv

\* A process takes up a command.
LEMMA StartTyped ==
    ASSUME TypeInv, NEW p \in Proc, Start(p)
    PROVE  TypeInv'
<1> USE DEF TypeInv, TypeOK
<1>1. PICK e \in Password \cup {NoKey} :
        \/ StartKey(p, e)
        \/ \E b \in Backup :
              StartImport(p, e, b) \/ \E v \in Variables : StartExport(p, e, b, v)
  BY DEF Start
<1>2. CASE StartKey(p, e)
  <2>1. PICK approved \in BOOLEAN :
          job' = [job EXCEPT ![p] = [Idle EXCEPT !.pc = "configured", !.env = e,
                                                 !.approved = approved]]
    BY <1>2 DEF StartKey
  <2>2. job' \in [Proc -> Job]
    BY <2>1 DEF Job, Idle, PCs
  <2>3. TypeOK'
    BY <1>2, <2>2 DEF StartKey, keyVars, backupVars
  <2>4. ASSUME NEW q \in Proc PROVE InHand(q)'
    BY <1>2, <2>1 DEF StartKey, InHand, At, Idle
  <2> QED BY <2>3, <2>4
<1>3. ASSUME NEW b \in Backup, StartImport(p, e, b) PROVE TypeInv'
  <2>1. job' \in [Proc -> Job]
    BY <1>3 DEF StartImport, Job, Idle, PCs
  <2>2. TypeOK'
    BY <1>3, <2>1 DEF StartImport, keyVars, backupVars
  <2>3. ASSUME NEW q \in Proc PROVE InHand(q)'
    BY <1>3 DEF StartImport, InHand, At, Idle
  <2> QED BY <2>2, <2>3
<1>4. ASSUME NEW b \in Backup, NEW v \in Variables, StartExport(p, e, b, v)
      PROVE  TypeInv'
  <2>1. job' \in [Proc -> Job]
    BY <1>4 DEF StartExport, Job, Idle, PCs
  <2>2. TypeOK'
    BY <1>4, <2>1 DEF StartExport, keyVars, backupVars
  <2>3. ASSUME NEW q \in Proc PROVE InHand(q)'
    BY <1>4 DEF StartExport, InHand, At, Idle
  <2> QED BY <2>2, <2>3
<1> QED BY <1>1, <1>2, <1>3, <1>4

\* A process generates a key.
LEMMA KeyStepTyped ==
    ASSUME TypeInv, NEW p \in Proc,
           \/ AskKey(p) \/ StatKey(p) \/ WriteTemp(p) \/ SyncTemp(p)
           \/ LinkKey(p) \/ RereadKey(p)
    PROVE  TypeInv'
<1> USE DEF TypeInv, TypeOK
<1>1. CASE AskKey(p)
  <2>1. CASE End(p)
    BY <1>1, <2>1, EndTyped DEF AskKey, keyVars, backupVars
  <2>2. CASE ~End(p)
    <3>1. /\ At(p, "configured") /\ job[p].approved /\ job[p].env = NoKey
          /\ GoTo(p, "stat") /\ UNCHANGED <<temp, part, keyVars, backupVars, events>>
      BY <1>1, <2>2 DEF AskKey, Approved, Configured
    <3>2. job' \in [Proc -> Job]
      BY <3>1, GoToTyped DEF PCs
    <3>3. TypeOK'
      BY <3>1, <3>2 DEF keyVars, backupVars
    <3>4. ASSUME NEW q \in Proc PROVE InHand(q)'
      BY <3>1 DEF InHand, At, GoTo
    <3> QED BY <3>3, <3>4
  <2> QED BY <2>1, <2>2
<1>2. CASE StatKey(p)
  <2>0. GoTo(p, "write") \/ GoTo(p, "reread")
    BY <1>2 DEF StatKey
  <2>1. job' \in [Proc -> Job]
    BY <2>0, GoToTyped DEF PCs
  <2>2. TypeOK'
    BY <1>2, <2>1 DEF StatKey, keyVars, backupVars
  <2>3. ASSUME NEW q \in Proc PROVE InHand(q)'
    <3>1. CASE GoTo(p, "write") /\ temp' = [temp EXCEPT ![p] =
                                      [key |-> Malformed, disk |-> Malformed]]
      BY <1>2, <3>1 DEF StatKey, InHand, At, GoTo
    <3>2. CASE GoTo(p, "reread") /\ UNCHANGED temp
      BY <1>2, <3>2 DEF StatKey, InHand, At, GoTo
    <3> QED BY <1>2, <3>1, <3>2 DEF StatKey
  <2> QED BY <2>2, <2>3
<1>3. CASE WriteTemp(p)
  <2>1. job' \in [Proc -> Job]
    BY <1>3, GoToTyped DEF WriteTemp, PCs
  <2>2. TypeOK'
    BY <1>3, <2>1 DEF WriteTemp, keyVars, backupVars
  <2>3. ASSUME NEW q \in Proc PROVE InHand(q)'
    BY <1>3 DEF WriteTemp, InHand, At, GoTo
  <2> QED BY <2>2, <2>3
<1>4. CASE SyncTemp(p)
  <2>1. job' \in [Proc -> Job]
    BY <1>4, GoToTyped DEF SyncTemp, PCs
  <2>2. TypeOK'
    BY <1>4, <2>1 DEF SyncTemp, Synced, keyVars, backupVars
  <2>3. ASSUME NEW q \in Proc PROVE InHand(q)'
    BY <1>4 DEF SyncTemp, Synced, InHand, At, GoTo
  <2> QED BY <2>2, <2>3
<1>5. CASE LinkKey(p)
  <2>1. job' \in [Proc -> Job]
    <3>1. CASE GoTo(p, "reread")
      BY <3>1, GoToTyped DEF PCs
    <3>2. CASE End(p)
      BY <3>2, IdleTyped DEF End
    <3> QED BY <1>5, <3>1, <3>2 DEF LinkKey
  <2>2. temp' \in [Proc -> [key : Key \cup {NoKey, Malformed},
                            disk : Key \cup {NoKey, Malformed}]]
        /\ part' \in [Proc -> Files]
    <3>1. CASE End(p)
      BY <3>1 DEF End, NoTemp, Files
    <3>2. CASE UNCHANGED <<temp, part>>
      BY <3>2
    <3> QED BY <1>5, <3>1, <3>2 DEF LinkKey
  <2>3. keyFile' \in Key \cup {NoKey, Malformed} /\ keyFile' \in keyOnDisk'
        /\ keyOnDisk' \subseteq Key \cup {NoKey, Malformed}
    BY <1>5 DEF LinkKey, InHand
  <2>4. TypeOK'
    BY <1>5, <2>1, <2>2, <2>3 DEF LinkKey, backupVars
  <2>5. ASSUME NEW q \in Proc PROVE InHand(q)'
    <3>1. CASE End(p)
      BY <3>1 DEF End, InHand, At, Idle
    <3>2. CASE GoTo(p, "reread") /\ UNCHANGED <<temp, part>>
      BY <3>2 DEF GoTo, InHand, At
    <3> QED BY <1>5, <3>1, <3>2 DEF LinkKey
  <2> QED BY <2>4, <2>5
<1>6. CASE RereadKey(p)
  BY <1>6, EndTyped DEF RereadKey, keyVars, backupVars
<1> QED BY <1>1, <1>2, <1>3, <1>4, <1>5, <1>6

\* A process exports.
LEMMA ExportStepTyped ==
    ASSUME TypeInv, NEW p \in Proc,
           SealBackup(p) \/ FillBackup(p) \/ ReplaceBackup(p)
    PROVE  TypeInv'
<1> USE DEF TypeInv, TypeOK
<1>1. CASE SealBackup(p)
  <2>1. CASE End(p)
    BY <1>1, <2>1, EndTyped DEF SealBackup, keyVars, backupVars
  <2>2. CASE ~End(p)
    <3> DEFINE f == [seal |-> Configured(p), content |-> job[p].content]
    <3>1. f \in Envelope
      BY <1>1, <2>2 DEF SealBackup, IsUsable, InHand, Envelope
    <3>2. /\ At(p, "seal") /\ job[p].path \in Backup
          /\ job' = [job EXCEPT ![p].file = f, ![p].pc = "fill"]
          /\ part' = [part EXCEPT ![p] = Malformed]
          /\ UNCHANGED <<temp, keyVars, backupVars, events>>
      BY <1>1, <2>2 DEF SealBackup, InHand, At
    <3> HIDE DEF f
    <3>3. job' \in [Proc -> Job]
      <4>1. [job[p] EXCEPT !.file = f, !.pc = "fill"] \in Job
        BY <3>1 DEF Job, PCs
      <4>2. job' = [job EXCEPT ![p] = [job[p] EXCEPT !.file = f, !.pc = "fill"]]
        BY <3>2
      <4> QED BY <4>1, <4>2
    <3>4. TypeOK'
      BY <3>2, <3>3 DEF keyVars, backupVars, Files
    <3>5. ASSUME NEW q \in Proc PROVE InHand(q)'
      BY <3>1, <3>2, <3>3 DEF InHand, At, Job
    <3> QED BY <3>4, <3>5
  <2> QED BY <2>1, <2>2
<1>2. CASE FillBackup(p)
  <2>1. job[p].file \in Envelope
    BY <1>2 DEF FillBackup, InHand, At
  <2>2. job' \in [Proc -> Job]
    BY <1>2, GoToTyped DEF FillBackup, PCs
  <2>3. TypeOK'
    BY <1>2, <2>1, <2>2 DEF FillBackup, Filled, Files, keyVars, backupVars
  <2>4. ASSUME NEW q \in Proc PROVE InHand(q)'
    BY <1>2, <2>1 DEF FillBackup, Filled, InHand, At, GoTo
  <2> QED BY <2>3, <2>4
<1>3. CASE ReplaceBackup(p)
  <2>1. job[p].path \in Backup /\ part[p] \in Envelope
    BY <1>3 DEF ReplaceBackup, InHand, At
  <2>2. job' \in [Proc -> Job] /\ part' \in [Proc -> Files]
        /\ temp' \in [Proc -> [key : Key \cup {NoKey, Malformed},
                               disk : Key \cup {NoKey, Malformed}]]
    BY <1>3, IdleTyped DEF ReplaceBackup, End, Files, NoTemp
  <2>3. backup' \in [Backup -> Files] /\ onDisk' \in [Backup -> SUBSET Files]
    BY <1>3, <2>1 DEF ReplaceBackup, Files
  <2>4. \A b \in Backup : backup'[b] \in onDisk'[b]
    BY <1>3, <2>1 DEF ReplaceBackup
  <2>5. TypeOK'
    BY <1>3, <2>2, <2>3, <2>4 DEF ReplaceBackup, keyVars
  <2>6. ASSUME NEW q \in Proc PROVE InHand(q)'
    BY <1>3 DEF ReplaceBackup, End, InHand, At, Idle
  <2> QED BY <2>5, <2>6
<1> QED BY <1>1, <1>2, <1>3

\* A process imports.
LEMMA ImportStepTyped ==
    ASSUME TypeInv, NEW p \in Proc,
           ReadBackup(p) \/ OpenBackup(p) \/ ClosePreview(p)
    PROVE  TypeInv'
<1> USE DEF TypeInv, TypeOK
<1>1. CASE End(p)
  BY <1>1, EndTyped DEF ReadBackup, OpenBackup, ClosePreview, keyVars, backupVars
<1>2. CASE ReadBackup(p) /\ ~End(p)
  <2> DEFINE f == backup[job[p].path]
             j == [job[p] EXCEPT !.pc = "open", !.file = f]
  <2>1. f \in Envelope
    BY <1>2 DEF ReadBackup, InHand, At, Files
  <2>0. job[p] \in Job /\ job[p].path \in Backup
    BY <1>2 DEF ReadBackup, InHand, At
  <2>2. j \in Job /\ j.pc = "open" /\ j.file \in Envelope
        /\ j.path \in Backup
    <3> HIDE DEF TypeInv, TypeOK, f
    <3> QED BY <2>0, <2>1 DEF Job, PCs
  <2>3. job' = [job EXCEPT ![p] = j]
    BY <1>2 DEF ReadBackup
  <2> HIDE DEF j
  <2>4. TypeOK'
    BY <1>2, <2>2, <2>3 DEF ReadBackup, keyVars, backupVars
  <2>5. ASSUME NEW q \in Proc PROVE InHand(q)'
    BY <1>2, <2>2, <2>3 DEF ReadBackup, InHand, At
  <2> QED BY <2>4, <2>5
<1>3. CASE OpenBackup(p) /\ ~End(p)
  <2> DEFINE j == [job[p] EXCEPT !.content = job[p].file.content,
                                 !.pc = "preview"]
  <2>1. job[p].file.content \in Variables
    BY <1>3 DEF OpenBackup, InHand, At, Envelope
  <2>2. j \in Job /\ j.pc = "preview"
    BY <2>1 DEF Job, PCs
  <2>3. job' = [job EXCEPT ![p] = j]
    BY <1>3 DEF OpenBackup
  <2> HIDE DEF j
  <2>4. TypeOK'
    BY <1>3, <2>2, <2>3 DEF OpenBackup, keyVars, backupVars
  <2>5. ASSUME NEW q \in Proc PROVE InHand(q)'
    BY <1>3, <2>2, <2>3 DEF OpenBackup, InHand, At
  <2> QED BY <2>4, <2>5
<1> QED BY <1>1, <1>2, <1>3 DEF ClosePreview

\* The user, the kernel, the machine.
LEMMA SurroundingsTyped ==
    ASSUME TypeInv,
           \/ \E p \in Proc : Kill(p)
           \/ Provision \/ FinishProvision \/ PowerLoss
    PROVE  TypeInv'
<1> USE DEF TypeInv, TypeOK
<1>0. Happens => events' \in 0..MaxEvents
  BY NamesAssumption DEF Happens
<1>1. ASSUME NEW p \in Proc, Kill(p) PROVE TypeInv'
  BY <1>0, <1>1, EndTyped DEF Kill
<1>2. CASE Provision
  <2>1. TypeOK'
    BY <1>0, <1>2 DEF Provision, backupVars
  <2>2. ASSUME NEW q \in Proc PROVE InHand(q)'
    BY <1>2 DEF Provision, InHand, At
  <2> QED BY <2>1, <2>2
<1>3. CASE FinishProvision
  <2>1. TypeOK'
    BY <1>3 DEF FinishProvision, backupVars
  <2>2. ASSUME NEW q \in Proc PROVE InHand(q)'
    BY <1>3 DEF FinishProvision, InHand, At
  <2> QED BY <2>1, <2>2
<1>4. CASE PowerLoss
  <2>1. job' \in [Proc -> Job] /\ part' \in [Proc -> Files]
        /\ temp' \in [Proc -> [key : Key \cup {NoKey, Malformed},
                               disk : Key \cup {NoKey, Malformed}]]
    BY <1>4, IdleTyped DEF PowerLoss, Files, NoTemp
  <2>2. backup' \in [Backup -> UNION {onDisk[b] : b \in Backup}]
        /\ \A b \in Backup : backup'[b] \in onDisk[b]
    BY <1>4 DEF PowerLoss
  <2>3. backup' \in [Backup -> Files]
    BY <2>2
  <2>4. onDisk' \in [Backup -> SUBSET Files]
        /\ \A b \in Backup : backup'[b] \in onDisk'[b]
    BY <1>4, <2>3 DEF PowerLoss
  <2>5. keyFile' \in Key \cup {NoKey, Malformed} /\ keyOnDisk' = {keyFile'}
        /\ keyLost' \in BOOLEAN /\ byUser' \in BOOLEAN /\ events' \in 0..MaxEvents
    BY <1>0, <1>4 DEF PowerLoss
  <2>6. TypeOK'
    BY <2>1, <2>3, <2>4, <2>5
  <2>7. ASSUME NEW q \in Proc PROVE InHand(q)'
    BY <1>4 DEF PowerLoss, InHand, At, Idle
  <2> QED BY <2>6, <2>7
<1> QED BY <1>1, <1>2, <1>3, <1>4

LEMMA TypeStep == TypeInv /\ [Next]_vars => TypeInv'
<1> SUFFICES ASSUME TypeInv, [Next]_vars PROVE TypeInv'
  OBVIOUS
<1>1. ASSUME NEW p \in Proc, Step(p) PROVE TypeInv'
  BY <1>1, KeyStepTyped, ExportStepTyped, ImportStepTyped DEF Step
<1>2. CASE UNCHANGED vars
  BY <1>2 DEF vars, TypeInv, TypeOK, InHand, At
<1> QED BY <1>1, <1>2, StartTyped, SurroundingsTyped DEF Next

\* Type correctness.
THEOREM TypeCorrect == Spec => []TypeOK
<1>1. Spec => []TypeInv
  BY TypeInit, TypeStep, PTL DEF Spec
<1>2. TypeInv => TypeOK
  BY DEF TypeInv
<1> QED BY <1>1, <1>2, PTL

LEMMA TypeAlways == Spec => []TypeInv
BY TypeInit, TypeStep, PTL DEF Spec

-----------------------------------------------------------------------------
(* The key file.                                                           *)

\* Only LinkKey, the user and a power loss touch it.
LEMMA KeyVarsStay ==
    ASSUME NEW p \in Proc, Start(p) \/ Kill(p) \/ (Step(p) /\ ~LinkKey(p))
    PROVE  UNCHANGED keyVars
<1>1. CASE Start(p)
  BY <1>1 DEF Start, StartKey, StartImport, StartExport
<1>2. CASE Kill(p)
  BY <1>2 DEF Kill
<1>3. CASE Step(p) /\ ~LinkKey(p)
  BY <1>3 DEF Step, AskKey, StatKey, WriteTemp, SyncTemp, RereadKey, SealBackup,
              FillBackup, ReplaceBackup, ReadBackup, OpenBackup, ClosePreview
<1> QED BY <1>1, <1>2, <1>3

\* A process that links its key saw no other and has written its own.
LEMMA Linked ==
    ASSUME TypeInv, NEW p \in Proc, LinkKey(p)
    PROVE  /\ At(p, "link") /\ job[p].approved /\ job[p].env = NoKey
           /\ UNCHANGED <<byUser, keyLost>>
           /\ \/ UNCHANGED <<keyFile, keyOnDisk>>
              \/ /\ keyFile = NoKey /\ keyFile' \in Key
                 /\ keyOnDisk' = keyOnDisk \cup {keyFile'}
BY DEF LinkKey, IsFree, TypeInv, InHand, At

\* A step is one of these.
LEMMA Cases ==
    ASSUME [Next]_vars
    PROVE  \/ UNCHANGED keyVars
           \/ Provision \/ FinishProvision \/ PowerLoss
           \/ \E p \in Proc : LinkKey(p)
BY KeyVarsStay DEF Next, vars, keyVars

\* No command or session replaces or damages a key that is there.
THEOREM KeyNeverReplaced == Spec => KeyStands
<1>1. TypeInv /\ [Next]_vars =>
          [keyFile' # keyFile =>
             \/ Provision \/ FinishProvision \/ PowerLoss
             \/ /\ keyFile = NoKey /\ keyFile' \in Key
                /\ \E p \in Proc :
                      At(p, "link") /\ job[p].approved /\ job[p].env = NoKey]_vars
  BY Cases, Linked DEF keyVars
<1> QED BY <1>1, TypeAlways, PTL DEF Spec, KeyStands

\* Nobody finds an incomplete key that envman made, also after a power loss.
THEOREM KeyNeverPartial == Spec => []PartialOnlyByUser
<1>1. Init => PartialOnlyByUser
  BY NamesAssumption DEF Init, PartialOnlyByUser
<1>2. TypeInv /\ PartialOnlyByUser /\ [Next]_vars => PartialOnlyByUser'
  <2> SUFFICES ASSUME TypeInv, PartialOnlyByUser, [Next]_vars
               PROVE  PartialOnlyByUser'
    OBVIOUS
  <2>1. CASE UNCHANGED keyVars
    BY <2>1 DEF PartialOnlyByUser, keyVars
  <2>2. CASE Provision \/ FinishProvision
    BY <2>2, NamesAssumption
       DEF Provision, FinishProvision, PartialOnlyByUser
  <2>3. CASE PowerLoss
    BY <2>3 DEF PowerLoss, PartialOnlyByUser
  <2>4. ASSUME NEW p \in Proc, LinkKey(p) PROVE PartialOnlyByUser'
    BY <2>4, Linked, NamesAssumption DEF PartialOnlyByUser
  <2> QED BY <2>1, <2>2, <2>3, <2>4, Cases
<1> QED BY <1>1, <1>2, TypeAlways, PTL DEF Spec

-----------------------------------------------------------------------------
(* What was sealed with the key file.                                      *)

\* Envelopes, also those a power loss may bring back.
OpensNow(f) == f \in Envelope /\ f.seal \in Key => f.seal = keyFile

SealInv ==
    byUser \/ keyLost
    \/ /\ \A b \in Backup : \A f \in onDisk[b] : OpensNow(f)
       /\ \A p \in Proc : OpensNow(job[p].file) /\ OpensNow(part[p])

LEMMA SealInit == Init => SealInv
BY NamesAssumption DEF Init, SealInv, OpensNow, Idle

\* A step under which the key file stays.
LEMMA SealKept ==
    ASSUME SealInv, UNCHANGED keyVars, ~byUser, ~keyLost,
           \A b \in Backup : \A f \in onDisk'[b] : OpensNow(f),
           \A q \in Proc : OpensNow(job'[q].file) /\ OpensNow(part'[q])
    PROVE  SealInv'
BY DEF SealInv, OpensNow, keyVars

\* A step that puts no file in a process' hands.
LEMMA NothingSealed ==
    ASSUME SealInv, ~byUser, ~keyLost, UNCHANGED keyVars, UNCHANGED onDisk,
           \A q \in Proc : job'[q].file \in {job[q].file, Absent},
           \A q \in Proc : part'[q] \in {part[q], Absent, Malformed}
    PROVE  SealInv'
<1>1. \A q \in Proc : OpensNow(job'[q].file) /\ OpensNow(part'[q])
  BY NamesAssumption DEF SealInv, OpensNow
<1>2. \A b \in Backup : \A f \in onDisk'[b] : OpensNow(f)
  BY DEF SealInv
<1> QED BY <1>1, <1>2, SealKept

\* The files in the hands of a process that goes on or ends.
LEMMA EndEmpty ==
    ASSUME TypeOK, NEW p \in Proc, End(p)
    PROVE  /\ \A q \in Proc : job'[q].file \in {job[q].file, Absent}
           /\ \A q \in Proc : part'[q] \in {part[q], Absent, Malformed}
BY DEF End, TypeOK, Idle

LEMMA GoToKeeps ==
    ASSUME TypeOK, NEW p \in Proc, NEW c, GoTo(p, c)
    PROVE  \A q \in Proc : job'[q].file \in {job[q].file, Absent}
BY DEF GoTo, TypeOK, Job

\* A key is linked only where there was none, and then nothing was sealed
\* with one.
LEMMA LinkSeals ==
    ASSUME TypeInv, SealInv, ~byUser, ~keyLost, NEW p \in Proc, LinkKey(p)
    PROVE  SealInv'
<1>1. /\ \A q \in Proc : job'[q].file \in {job[q].file, Absent}
      /\ \A q \in Proc : part'[q] \in {part[q], Absent, Malformed}
  BY EndEmpty, GoToKeeps DEF LinkKey, TypeInv
<1>2. UNCHANGED <<byUser, keyLost, onDisk>>
  BY DEF LinkKey, backupVars
<1>3. CASE UNCHANGED keyFile
  BY <1>1, <1>2, <1>3, NamesAssumption DEF SealInv, OpensNow
<1>4. CASE keyFile = NoKey
  <2>1. ASSUME NEW f, OpensNow(f) PROVE ~(f \in Envelope /\ f.seal \in Key)
    BY <1>4, <2>1, NamesAssumption DEF OpensNow
  <2>2. \A b \in Backup : \A f \in onDisk'[b] : ~(f \in Envelope /\ f.seal \in Key)
    BY <1>2, <2>1 DEF SealInv
  <2>3. ASSUME NEW q \in Proc
        PROVE  /\ ~(job'[q].file \in Envelope /\ job'[q].file.seal \in Key)
               /\ ~(part'[q] \in Envelope /\ part'[q].seal \in Key)
    BY <1>1, <2>1, NamesAssumption DEF SealInv
  <2> QED BY <2>2, <2>3 DEF SealInv, OpensNow
<1> QED BY <1>3, <1>4, Linked

\* An export seals with the key file or with a password.
LEMMA ExportSeals ==
    ASSUME TypeInv, SealInv, ~byUser, ~keyLost, NEW p \in Proc,
           SealBackup(p) \/ FillBackup(p) \/ ReplaceBackup(p)
    PROVE  SealInv'
<1> USE DEF TypeInv, TypeOK
<1>1. CASE SealBackup(p)
  <2>1. CASE End(p)
    BY <1>1, <2>1, EndEmpty, NothingSealed DEF SealBackup, backupVars
  <2>2. CASE ~End(p)
    <3> DEFINE f == [seal |-> Configured(p), content |-> job[p].content]
               j == [job[p] EXCEPT !.file = f, !.pc = "fill"]
    <3>1. OpensNow(f)
      BY <1>1, <2>2, NamesAssumption DEF SealBackup, Configured, OpensNow, Job
    <3>2. j.file = f
      BY DEF Job
    <3>3. job' = [job EXCEPT ![p] = j] /\ part' = [part EXCEPT ![p] = Malformed]
          /\ UNCHANGED <<keyVars, onDisk>>
      BY <1>1, <2>2 DEF SealBackup, backupVars
    <3> HIDE DEF f, j
    <3>4. \A q \in Proc : OpensNow(job'[q].file) /\ OpensNow(part'[q])
      BY <3>1, <3>2, <3>3, NamesAssumption DEF SealInv, OpensNow
    <3>5. \A b \in Backup : \A g \in onDisk'[b] : OpensNow(g)
      BY <3>3 DEF SealInv
    <3> QED BY <3>3, <3>4, <3>5, SealKept
  <2> QED BY <2>1, <2>2
<1>2. CASE FillBackup(p)
  <2>1. \A q \in Proc : job'[q].file \in {job[q].file, Absent}
    BY <1>2, GoToKeeps DEF FillBackup
  <2>2. \A q \in Proc : part'[q] \in {part[q], job[q].file}
    BY <1>2 DEF FillBackup, Filled
  <2>3. \A q \in Proc : OpensNow(job'[q].file) /\ OpensNow(part'[q])
    BY <2>1, <2>2, NamesAssumption DEF SealInv, OpensNow
  <2>4. \A b \in Backup : \A g \in onDisk'[b] : OpensNow(g)
    BY <1>2 DEF FillBackup, backupVars, SealInv
  <2> QED BY <1>2, <2>3, <2>4, SealKept DEF FillBackup
<1>3. CASE ReplaceBackup(p)
  <2>1. /\ \A q \in Proc : job'[q].file \in {job[q].file, Absent}
        /\ \A q \in Proc : part'[q] \in {part[q], Absent, Malformed}
    BY <1>3, EndEmpty DEF ReplaceBackup
  <2>2. \A q \in Proc : OpensNow(job'[q].file) /\ OpensNow(part'[q])
    BY <2>1, NamesAssumption DEF SealInv, OpensNow
  <2>3. \A b \in Backup : onDisk'[b] \subseteq onDisk[b] \cup {part[p], Malformed}
    BY <1>3 DEF ReplaceBackup
  <2>4. \A b \in Backup : \A g \in onDisk'[b] : OpensNow(g)
    BY <2>3, NamesAssumption DEF SealInv, OpensNow
  <2> QED BY <1>3, <2>2, <2>4, SealKept DEF ReplaceBackup, keyVars
<1> QED BY <1>1, <1>2, <1>3

\* An import reads what is there.
LEMMA ImportSeals ==
    ASSUME TypeInv, SealInv, ~byUser, ~keyLost, NEW p \in Proc,
           ReadBackup(p) \/ OpenBackup(p) \/ ClosePreview(p)
    PROVE  SealInv'
<1> USE DEF TypeInv, TypeOK
<1>1. CASE End(p)
  BY <1>1, EndEmpty, NothingSealed DEF ReadBackup, OpenBackup, ClosePreview,
                                       backupVars
<1>2. CASE ReadBackup(p) /\ ~End(p)
  <2> DEFINE f == backup[job[p].path]
             j == [job[p] EXCEPT !.pc = "open", !.file = f]
  <2>1. OpensNow(f)
    BY <1>2 DEF ReadBackup, InHand, At, SealInv
  <2>2. j.file = f
    BY DEF Job
  <2>3. job' = [job EXCEPT ![p] = j] /\ UNCHANGED <<part, keyVars, onDisk>>
    BY <1>2 DEF ReadBackup, backupVars
  <2> HIDE DEF f, j
  <2>4. \A q \in Proc : OpensNow(job'[q].file) /\ OpensNow(part'[q])
    BY <2>1, <2>2, <2>3 DEF SealInv
  <2>5. \A b \in Backup : \A g \in onDisk'[b] : OpensNow(g)
    BY <2>3 DEF SealInv
  <2> QED BY <2>3, <2>4, <2>5, SealKept
<1>3. CASE OpenBackup(p) /\ ~End(p)
  <2>1. \A q \in Proc : job'[q].file \in {job[q].file, Absent}
    BY <1>3 DEF OpenBackup, Job
  <2> QED BY <1>3, <2>1, NothingSealed DEF OpenBackup, backupVars
<1> QED BY <1>1, <1>2, <1>3 DEF ClosePreview

LEMMA SealStep == TypeInv /\ SealInv /\ [Next]_vars => SealInv'
<1> SUFFICES ASSUME TypeInv, SealInv, [Next]_vars, ~byUser', ~keyLost'
             PROVE  SealInv'
  BY DEF SealInv
<1>1. CASE Provision \/ FinishProvision
  BY <1>1 DEF Provision, FinishProvision
<1>2. CASE PowerLoss
  <2>1. keyFile' = keyFile /\ ~byUser /\ ~keyLost
    BY <1>2 DEF PowerLoss
  <2>2. \A b \in Backup : \A f \in onDisk'[b] : f \in onDisk[b]
    BY <1>2 DEF PowerLoss
  <2>3. \A q \in Proc : job'[q].file = Absent /\ part'[q] = Absent
    BY <1>2 DEF PowerLoss, Idle
  <2> QED BY <2>1, <2>2, <2>3, NamesAssumption DEF SealInv, OpensNow
<1>3. CASE ~Provision /\ ~FinishProvision /\ ~PowerLoss
  <2>1. ~byUser /\ ~keyLost
    BY <1>3, Cases, Linked DEF keyVars
  <2>2. ASSUME NEW p \in Proc, LinkKey(p) PROVE SealInv'
    BY <2>1, <2>2, LinkSeals
  <2>3. ASSUME NEW p \in Proc, AskKey(p) \/ RereadKey(p) \/ Kill(p)
        PROVE  SealInv'
    <3>1. UNCHANGED <<keyVars, onDisk>>
      BY <2>3 DEF AskKey, RereadKey, Kill, backupVars
    <3>2. CASE End(p)
      BY <2>1, <3>1, <3>2, EndEmpty, NothingSealed DEF TypeInv
    <3>3. CASE GoTo(p, "stat") /\ UNCHANGED part
      BY <2>1, <3>1, <3>3, GoToKeeps, NothingSealed DEF TypeInv
    <3> QED BY <2>3, <3>2, <3>3 DEF AskKey, RereadKey, Kill
  <2>4. ASSUME NEW p \in Proc, StatKey(p) \/ WriteTemp(p) \/ SyncTemp(p)
        PROVE  SealInv'
    <3>1. UNCHANGED <<keyVars, onDisk, part>>
      BY <2>4 DEF StatKey, WriteTemp, SyncTemp, backupVars
    <3>2. \E c : GoTo(p, c)
      BY <2>4 DEF StatKey, WriteTemp, SyncTemp
    <3> QED BY <2>1, <3>1, <3>2, GoToKeeps, NothingSealed DEF TypeInv
  <2>5. ASSUME NEW p \in Proc, Start(p) PROVE SealInv'
    <3>1. UNCHANGED <<keyVars, onDisk, part>>
      BY <2>5 DEF Start, StartKey, StartImport, StartExport, backupVars
    <3>2. \A q \in Proc : job'[q].file \in {job[q].file, Absent}
      <4>1. ASSUME NEW e, StartKey(p, e)
            PROVE  \A q \in Proc : job'[q].file \in {job[q].file, Absent}
        BY <4>1 DEF StartKey, Idle, TypeInv, TypeOK
      <4>2. ASSUME NEW e, NEW b, StartImport(p, e, b)
            PROVE  \A q \in Proc : job'[q].file \in {job[q].file, Absent}
        BY <4>2 DEF StartImport, Idle, TypeInv, TypeOK
      <4>3. ASSUME NEW e, NEW b, NEW v, StartExport(p, e, b, v)
            PROVE  \A q \in Proc : job'[q].file \in {job[q].file, Absent}
        BY <4>3 DEF StartExport, Idle, TypeInv, TypeOK
      <4> QED BY <2>5, <4>1, <4>2, <4>3 DEF Start
    <3> QED BY <2>1, <3>1, <3>2, NothingSealed
  <2>6. CASE UNCHANGED vars
    BY <2>1, <2>6, NothingSealed DEF vars, keyVars
  <2> QED
    BY <1>3, <2>1, <2>2, <2>3, <2>4, <2>5, <2>6, ExportSeals, ImportSeals
       DEF Next, Step
<1> QED BY <1>1, <1>2, <1>3

\* What was exported with the key file opens with it.
THEOREM ExportsOpen == Spec => []ExportOpens
<1>1. Spec => []SealInv
  BY SealInit, SealStep, TypeAlways, PTL DEF Spec
<1>2. TypeInv /\ SealInv => ExportOpens
  BY DEF TypeInv, TypeOK, SealInv, OpensNow, ExportOpens, Sealed
<1> QED BY <1>1, <1>2, TypeAlways, PTL

-----------------------------------------------------------------------------
(* The backups.                                                            *)

\* No kill and no failure damages or removes a backup.
THEOREM BackupsWhole == Spec => BackupWhole
<1>1. TypeInv /\ [Next]_vars =>
          [\A b \in Backup : backup'[b] # backup[b] =>
              backup'[b] \in Envelope \/ PowerLoss]_vars
  <2> SUFFICES ASSUME TypeInv, [Next]_vars, NEW b \in Backup,
                      backup'[b] # backup[b], ~PowerLoss
               PROVE  backup'[b] \in Envelope
    OBVIOUS
  <2>1. ASSUME NEW p \in Proc, ReplaceBackup(p) PROVE backup'[b] \in Envelope
    BY <2>1 DEF ReplaceBackup, TypeInv, TypeOK, InHand, At
  <2>2. ASSUME NEW p \in Proc, Step(p), ~ReplaceBackup(p) PROVE UNCHANGED backup
    BY <2>2 DEF Step, AskKey, StatKey, WriteTemp, SyncTemp, LinkKey, RereadKey,
                SealBackup, FillBackup, ReadBackup, OpenBackup, ClosePreview,
                backupVars
  <2>3. ASSUME NEW p \in Proc, Start(p) \/ Kill(p) PROVE UNCHANGED backup
    BY <2>3 DEF Start, StartKey, StartImport, StartExport, Kill, backupVars
  <2>4. CASE Provision \/ FinishProvision \/ UNCHANGED vars
    BY <2>4 DEF Provision, FinishProvision, backupVars, vars
  <2> QED BY <2>1, <2>2, <2>3, <2>4 DEF Next
<1> QED BY <1>1, TypeAlways, PTL DEF Spec, BackupWhole

=============================================================================
