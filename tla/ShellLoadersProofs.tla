------------------------- MODULE ShellLoadersProofs -------------------------
(***************************************************************************)
(* Theorems about ShellLoaders, for any processes, shells and releases, any *)
(* profiles, and any number of events around the installations.            *)
(***************************************************************************)
EXTENDS ShellLoaders, SequenceTheorems, TLAPS

(* What an install is about, by where it is; t is its temporary directory. *)
JobOK(j, t) ==
    /\ j \in Job
    /\ j.pc \in {"runtime", "copy", "rename", "truncate", "write"} =>
          Plan[j.item] \in Loaders
    /\ j.pc = "test" => Plan[j.item] \in {".profile", "login"} \cup Rc
    /\ j.pc \in {"backup", "append"} => j.file \in Profiles
    /\ j.pc \in {"copy", "rename", "truncate", "write"} => j.rel \in Release
    /\ j.pc = "rename" => t \in Whole

TypeInv == TypeOK /\ \A p \in Proc : JobOK(job[p], staging[p])

Staging == Whole \cup {Absent, Partial}

-----------------------------------------------------------------------------
(* The plan and the profiles.                                              *)

LEMMA RcNames == Rc \subseteq {".bashrc", ".zprofile", ".zshrc"}
BY ProfilesAssumption DEF Rc

LEMMA PlanItems ==
    /\ Len(Plan) \in Nat \ {0}
    /\ Plan[1] = "load-env.sh"
    /\ \A i \in 1..Len(Plan) : Plan[i] \in Loaders \cup {".profile", "login"} \cup Rc
<1> DEFINE head == <<"load-env.sh", ".profile", "login">>
           last == <<"envman.fish">>
           S == Loaders \cup {".profile", "login"} \cup Rc
<1>1. head \in Seq(S) /\ Len(head) = 3 /\ head[1] = "load-env.sh"
  BY DEF Loaders
<1>2. last \in Seq(S) /\ Len(last) = 1
  BY DEF Loaders
<1>3. RcFiles \in Seq(S)
  <2>1. RcFiles \in Seq(Rc)
    BY ProfilesAssumption DEF Rc
  <2> QED BY <2>1
<1>4. Plan = (head \o RcFiles) \o last
  BY DEF Plan
<1> HIDE DEF head, last, S
<1>5. head \o RcFiles \in Seq(S)
  BY <1>1, <1>3
<1>6. Len(RcFiles) \in Nat
  BY <1>3
<1>7. Len(head \o RcFiles) = 3 + Len(RcFiles)
  <2>1. Len(head \o RcFiles) = Len(head) + Len(RcFiles)
    BY <1>1, <1>3, ConcatProperties
  <2> QED BY <2>1, <1>1
<1>8. (head \o RcFiles)[1] = head[1]
  BY <1>1, <1>3, <1>6, ConcatProperties
<1>9. Plan \in Seq(S)
  BY <1>2, <1>4, <1>5
<1>10. Len(Plan) = Len(head \o RcFiles) + 1
  <2>1. Len((head \o RcFiles) \o last) = Len(head \o RcFiles) + Len(last)
    BY <1>2, <1>5, ConcatProperties
  <2> QED BY <2>1, <1>2, <1>4
<1>11. Plan[1] = (head \o RcFiles)[1]
  BY <1>2, <1>4, <1>5, <1>6, <1>7, ConcatProperties
<1> QED BY <1>1, <1>6, <1>7, <1>8, <1>9, <1>10, <1>11 DEF S

LEMMA FirstStep ==
    ASSUME NEW i \in 1..Len(Plan)
    PROVE  /\ FirstPC(Plan[i]) \in {"runtime", "test"}
           /\ FirstPC(Plan[i]) = "runtime" => Plan[i] \in Loaders
           /\ FirstPC(Plan[i]) = "test" => Plan[i] \in {".profile", "login"} \cup Rc
BY PlanItems DEF FirstPC

LEMMA NoFileIsNone == NoFile \notin Profiles
BY RcNames DEF NoFile, Profiles

LEMMA CandidateIsProfile ==
    ASSUME NEW p, Item(p) \in {".profile", "login"} \cup Rc
    PROVE  Candidate(p) \in Profiles \cup {NoFile}
BY DEF Candidate, LoginFile, FirstExisting, Profiles

-----------------------------------------------------------------------------
(* Typing: the processes.                                                  *)

LEMMA IdleOK == ASSUME NEW t PROVE JobOK(Idle, t)
BY PlanItems DEF JobOK, Idle, Job, PCs

\* One process goes on, the others stay where they are.
LEMMA JobsOK ==
    ASSUME TypeInv, NEW p \in Proc, NEW j, NEW t \in Staging, JobOK(j, t),
           job' = [job EXCEPT ![p] = j], staging' = [staging EXCEPT ![p] = t]
    PROVE  /\ job' \in [Proc -> Job]
           /\ staging' \in [Proc -> Whole \cup {Absent, Partial}]
           /\ \A q \in Proc : JobOK(job'[q], staging'[q])
<1>1. job \in [Proc -> Job] /\ staging \in [Proc -> Staging]
      /\ \A q \in Proc : JobOK(job[q], staging[q])
  BY DEF TypeInv, TypeOK, Staging
<1>2. j \in Job
  BY DEF JobOK
<1>3. \A q \in Proc : JobOK(job'[q], staging'[q])
  <2> TAKE q \in Proc
  <2>1. CASE q = p
    <3>1. job'[q] = j /\ staging'[q] = t
      BY <1>1, <2>1
    <3> QED BY <3>1
  <2>2. CASE q # p
    <3>1. job'[q] = job[q] /\ staging'[q] = staging[q]
      BY <1>1, <2>2
    <3> QED BY <1>1, <3>1
  <2> QED BY <2>1, <2>2
<1> QED BY <1>1, <1>2, <1>3 DEF Staging

LEMMA StaysStaged ==
    ASSUME TypeInv, NEW p \in Proc, UNCHANGED staging
    PROVE  staging[p] \in Staging /\ staging' = [staging EXCEPT ![p] = staging[p]]
BY DEF TypeInv, TypeOK, Staging

LEMMA StopOK ==
    ASSUME TypeInv, NEW p \in Proc, StopJob(p)
    PROVE  /\ job' \in [Proc -> Job]
           /\ staging' \in [Proc -> Whole \cup {Absent, Partial}]
           /\ \A q \in Proc : JobOK(job'[q], staging'[q])
           /\ torn' \in [Loaders -> BOOLEAN]
<1>1. Absent \in Staging
  BY DEF Staging
<1>2. torn' \in [Loaders -> BOOLEAN]
  BY DEF StopJob, TypeInv, TypeOK
<1>3. job' = [job EXCEPT ![p] = Idle] /\ staging' = [staging EXCEPT ![p] = Absent]
  BY DEF StopJob
<1> QED BY <1>1, <1>2, <1>3, IdleOK, JobsOK

LEMMA AdvanceOK ==
    ASSUME TypeInv, NEW p \in Proc, Advance(p), UNCHANGED staging
    PROVE  /\ job' \in [Proc -> Job]
           /\ staging' \in [Proc -> Whole \cup {Absent, Partial}]
           /\ \A q \in Proc : JobOK(job'[q], staging'[q])
<1> DEFINE i == job[p].item + 1
           done == [Idle EXCEPT !.done = TRUE]
           next == [job[p] EXCEPT !.item = i, !.pc = FirstPC(Plan[i]),
                                  !.rel = NoRelease, !.file = NoFile]
<1>1. job[p] \in Job
  BY DEF TypeInv, TypeOK
<1>0. job' = [job EXCEPT ![p] = IF job[p].item = Len(Plan) THEN done ELSE next]
  BY DEF Advance
<1>2. CASE job[p].item = Len(Plan)
  <2>0. done \in Job /\ done.pc = "idle"
    <3>1. Idle \in Job /\ Idle.pc = "idle"
      BY IdleOK DEF JobOK, Idle
    <3> QED BY <3>1 DEF Job
  <2>1. JobOK(done, staging[p])
    BY <2>0 DEF JobOK
  <2>2. job' = [job EXCEPT ![p] = done]
    BY <1>0, <1>2
  <2> HIDE DEF done
  <2> QED BY <2>1, <2>2, StaysStaged, JobsOK
<1>3. CASE job[p].item # Len(Plan)
  <2>1. i \in 1..Len(Plan)
    BY <1>1, <1>3, PlanItems DEF Job
  <2>2. /\ next.pc = FirstPC(Plan[i]) /\ next.item = i
        /\ FirstPC(Plan[i]) \in {"runtime", "test"}
    BY <1>1, <2>1, FirstStep DEF Job
  <2>3. next \in Job
    BY <1>1, <2>1, <2>2 DEF Job, PCs
  <2>4. JobOK(next, staging[p])
    BY <2>1, <2>2, <2>3, FirstStep DEF JobOK
  <2>5. job' = [job EXCEPT ![p] = next]
    BY <1>0, <1>3
  <2> HIDE DEF next
  <2> QED BY <2>4, <2>5, StaysStaged, JobsOK
<1> QED BY <1>2, <1>3

-----------------------------------------------------------------------------
(* Typing: the steps.                                                      *)

\* What is left to show of a step once its processes are typed.
FilesOK ==
    /\ tool \in Release \cup {NoRelease}
    /\ runtime \in [Release -> Whole \cup {Absent, Partial}]
    /\ loader \in [Loaders -> Release \cup {Absent, Empty}]
    /\ profile \in [Profiles -> Profile]
    /\ \A f \in Profiles : HasMarker(f) => Exists(f)
    /\ archived \subseteq [file : Profiles, text : Text]
    /\ held \in [Shell -> Release \cup {NoRelease}]
    /\ raced \subseteq Profiles
    /\ events \in 0..MaxEvents

JobsTyped ==
    /\ job \in [Proc -> Job]
    /\ staging \in [Proc -> Whole \cup {Absent, Partial}]
    /\ \A q \in Proc : JobOK(job[q], staging[q])
    /\ torn \in [Loaders -> BOOLEAN]

LEMMA Parts == TypeInv <=> FilesOK /\ JobsTyped
BY DEF TypeInv, TypeOK, FilesOK, JobsTyped

LEMMA PartsNext == ASSUME FilesOK', JobsTyped' PROVE TypeInv'
BY DEF TypeInv, TypeOK, FilesOK, JobsTyped

LEMMA FilesStay ==
    ASSUME FilesOK, UNCHANGED <<tool, runtime, loader, profile, archived, held,
                                raced, events>>
    PROVE  FilesOK'
BY DEF FilesOK, HasMarker, Exists

LEMMA TypeInit == Init => TypeInv
<1> SUFFICES ASSUME Init PROVE TypeInv
  OBVIOUS
<1>1. \A p \in Proc : JobOK(job[p], staging[p]) /\ job[p] \in Job
  BY IdleOK DEF Init, JobOK
<1>2. JobsTyped
  BY <1>1 DEF Init, JobsTyped
<1>3. profile \in [Profiles -> Profile] /\ \A f \in Profiles : ~HasMarker(f)
  <2>1. \A t \in {0, Absent} : Bare(t) \in Profile
    BY ProfilesAssumption DEF Bare, Profile, Text
  <2> DEFINE t(f, some) == IF f \in some THEN 0 ELSE Absent
  <2>2. PICK some \in First :
          profile = [f \in Profiles |-> Bare(t(f, some))]
    BY DEF Init
  <2>3. \A f \in Profiles : t(f, some) \in {0, Absent}
    OBVIOUS
  <2>4. \A x : ~(Bare(x).blocks > 0) /\ ~Bare(x).cut
    BY DEF Bare
  <2> HIDE DEF t
  <2>5. \A f \in Profiles : profile[f] = Bare(t(f, some))
    BY <2>2
  <2>6. profile \in [Profiles -> Profile]
    BY <2>1, <2>2, <2>3
  <2> QED BY <2>4, <2>5, <2>6 DEF HasMarker
<1>4. runtime \in [Release -> Whole \cup {Absent, Partial}]
      /\ loader \in [Loaders -> Release \cup {Absent, Empty}]
      /\ held \in [Shell -> Release \cup {NoRelease}]
  BY DEF Init
<1>5. /\ tool \in Release \cup {NoRelease} /\ archived = {} /\ raced = {}
      /\ events \in 0..MaxEvents
  BY ProfilesAssumption DEF Init
<1>6. FilesOK
  BY <1>3, <1>4, <1>5 DEF FilesOK
<1> QED BY <1>2, <1>6, Parts

\* An install goes to another step with the same local values.
LEMMA GoToOK ==
    ASSUME TypeInv, NEW p \in Proc, NEW c \in PCs, GoTo(p, c), NEW t \in Staging,
           staging' = [staging EXCEPT ![p] = t], UNCHANGED torn,
           JobOK([job[p] EXCEPT !.pc = c], t)
    PROVE  JobsTyped'
<1>1. job' = [job EXCEPT ![p] = [job[p] EXCEPT !.pc = c]]
  BY DEF GoTo
<1> QED BY <1>1, JobsOK DEF TypeInv, TypeOK, JobsTyped

LEMMA StopTyped ==
    ASSUME TypeInv, NEW p \in Proc, StopJob(p) PROVE JobsTyped'
BY StopOK DEF JobsTyped

LEMMA AdvanceTyped ==
    ASSUME TypeInv, NEW p \in Proc, Advance(p), UNCHANGED staging,
           torn' \in [Loaders -> BOOLEAN]
    PROVE  JobsTyped'
BY AdvanceOK DEF JobsTyped

LEMMA BeginTyped == ASSUME TypeInv, NEW p \in Proc, Begin(p) PROVE TypeInv'
<1> DEFINE j == [Idle EXCEPT !.pc = FirstPC(Plan[1])]
<1>0. Idle \in Job
  BY IdleOK DEF JobOK
<1>1. 1 \in 1..Len(Plan) /\ Idle \in Job /\ Idle.item = 1
  BY <1>0, PlanItems DEF Idle
<1>2. j \in Job /\ j.pc = FirstPC(Plan[1]) /\ j.item = 1
  BY <1>1, FirstStep DEF Job, PCs
<1>3. JobOK(j, staging[p])
  BY <1>1, <1>2, FirstStep DEF JobOK
<1>4. job' = [job EXCEPT ![p] = j] /\ UNCHANGED <<staging, torn>>
  BY DEF Begin, files
<1> HIDE DEF j
<1>5. JobsTyped'
  BY <1>3, <1>4, StaysStaged, JobsOK DEF JobsTyped, TypeInv, TypeOK
<1>6. FilesOK'
  BY FilesStay, Parts DEF Begin, files
<1> QED BY <1>5, <1>6, PartsNext

LEMMA FindRuntimeTyped ==
    ASSUME TypeInv, NEW p \in Proc, FindRuntime(p) PROVE TypeInv'
<1>0. FilesOK'
  BY FilesStay, Parts DEF FindRuntime, StopJob
<1>1. job[p] \in Job /\ Plan[job[p].item] \in Loaders
  BY DEF FindRuntime, At, TypeInv, TypeOK, JobOK
<1>2. CASE /\ tool # NoRelease /\ UNCHANGED <<staging, torn>>
           /\ job' = [job EXCEPT ![p].pc = "truncate", ![p].rel = tool]
  <2> DEFINE j == [job[p] EXCEPT !.pc = "truncate", !.rel = tool]
  <2>1. JobOK(j, staging[p])
    BY <1>1, <1>2, Parts DEF JobOK, Job, PCs, FilesOK
  <2>2. job' = [job EXCEPT ![p] = j]
    BY <1>2
  <2> HIDE DEF j
  <2>3. JobsTyped'
    BY <1>2, <2>1, <2>2, StaysStaged, JobsOK DEF JobsTyped, TypeInv, TypeOK
  <2> QED BY <1>0, <2>3, PartsNext
<1>3. CASE /\ tool # NoRelease /\ UNCHANGED torn
           /\ staging' = [staging EXCEPT ![p] = Partial]
           /\ job' = [job EXCEPT ![p].pc = FilledFirst, ![p].rel = tool]
  <2> DEFINE j == [job[p] EXCEPT !.pc = "copy", !.rel = tool]
  <2>1. JobOK(j, Partial)
    BY <1>1, <1>3, Parts DEF JobOK, Job, PCs, FilesOK
  <2>2. job' = [job EXCEPT ![p] = j]
    BY <1>3 DEF FilledFirst
  <2>3. Partial \in Staging
    BY DEF Staging
  <2> HIDE DEF j
  <2>4. JobsTyped'
    BY <1>3, <2>1, <2>2, <2>3, JobsOK DEF JobsTyped, TypeInv, TypeOK
  <2> QED BY <1>0, <2>4, PartsNext
<1>4. CASE StopJob(p)
  BY <1>0, <1>4, StopTyped, PartsNext
<1> QED BY <1>2, <1>3, <1>4 DEF FindRuntime

LEMMA CopyRuntimeTyped ==
    ASSUME TypeInv, NEW p \in Proc, CopyRuntime(p) PROVE TypeInv'
<1>0. FilesOK'
  BY FilesStay, Parts DEF CopyRuntime, StopJob
<1>1. CASE StopJob(p)
  BY <1>0, <1>1, StopTyped, PartsNext
<1>2. CASE ~StopJob(p)
  <2>1. PICK c \in Copies(p) : staging' = [staging EXCEPT ![p] = c]
    BY <1>2 DEF CopyRuntime
  <2>2. c \in Whole
    BY <1>2, <2>1, Parts DEF CopyRuntime, Copies, Whole, FilesOK
  <2>3. JobOK([job[p] EXCEPT !.pc = "rename"], c)
    BY <2>2 DEF CopyRuntime, At, TypeInv, TypeOK, JobOK, Job, PCs
  <2>4. JobsTyped'
    BY <1>2, <2>1, <2>2, <2>3, GoToOK DEF CopyRuntime, Staging, PCs
  <2> QED BY <1>0, <2>4, PartsNext
<1> QED BY <1>1, <1>2

LEMMA RenameRuntimeTyped ==
    ASSUME TypeInv, NEW p \in Proc, RenameRuntime(p) PROVE TypeInv'
<1>1. runtime' \in [Release -> Whole \cup {Absent, Partial}]
  BY DEF RenameRuntime, WithRuntime, At, TypeInv, TypeOK, JobOK
<1>2. FilesOK'
  BY <1>1, Parts DEF RenameRuntime, FilesOK, HasMarker, Exists
<1>3. JobOK([job[p] EXCEPT !.pc = "truncate"], Absent)
  BY DEF RenameRuntime, At, TypeInv, TypeOK, JobOK, Job, PCs
<1>4. JobsTyped'
  BY <1>3, GoToOK DEF RenameRuntime, Staging, PCs
<1> QED BY <1>2, <1>4, PartsNext

LEMMA LoaderTyped ==
    ASSUME TypeInv, NEW p \in Proc, TruncateLoader(p) \/ WriteLoader(p)
    PROVE  TypeInv'
<1>0. job[p] \in Job /\ Item(p) \in Loaders /\ job[p].rel \in Release
  BY DEF TruncateLoader, WriteLoader, At, Item, TypeInv, TypeOK, JobOK
<1>1. loader' \in [Loaders -> Release \cup {Absent, Empty}]
  BY <1>0, Parts DEF TruncateLoader, WriteLoader, FilesOK
<1>2. FilesOK'
  BY <1>1, Parts DEF TruncateLoader, WriteLoader, FilesOK, HasMarker, Exists
<1>3. CASE TruncateLoader(p)
  <2>1. JobOK([job[p] EXCEPT !.pc = "write"], staging[p])
    BY <1>0, <1>3 DEF TruncateLoader, Item, JobOK, Job, PCs
  <2>2. JobsTyped'
    BY <1>3, <2>1, GoToOK, StaysStaged DEF TruncateLoader, PCs
  <2> QED BY <1>2, <2>2, PartsNext
<1>4. CASE WriteLoader(p)
  <2>1. torn' \in [Loaders -> BOOLEAN]
    BY <1>0, <1>4, Parts DEF WriteLoader, JobsTyped
  <2>2. JobsTyped'
    BY <1>4, <2>1, AdvanceTyped DEF WriteLoader
  <2> QED BY <1>2, <2>2, PartsNext
<1> QED BY <1>3, <1>4

LEMMA TestProfileTyped ==
    ASSUME TypeInv, NEW p \in Proc, TestProfile(p) PROVE TypeInv'
<1> DEFINE f == Candidate(p)
<1>0. job[p] \in Job /\ Item(p) \in {".profile", "login"} \cup Rc
  BY DEF TestProfile, At, Item, TypeInv, TypeOK, JobOK
<1>1. f \in Profiles \cup {NoFile}
  BY <1>0, CandidateIsProfile
<1> HIDE DEF f
<1>2. CASE /\ f # NoFile /\ UNCHANGED <<staging, torn>>
           /\ job' = [job EXCEPT ![p].pc = "backup", ![p].file = f]
           /\ raced' = raced \cup {g \in {f} : \E q \in Proc : Extending(q, g)}
  <2> DEFINE j == [job[p] EXCEPT !.pc = "backup", !.file = f]
  <2>1. JobOK(j, staging[p])
    BY <1>0, <1>1, <1>2 DEF JobOK, Job, PCs
  <2>2. job' = [job EXCEPT ![p] = j]
    BY <1>2
  <2> HIDE DEF j
  <2>3. JobsTyped'
    BY <1>2, <2>1, <2>2, StaysStaged, JobsOK DEF JobsTyped, TypeInv, TypeOK
  <2>4. FilesOK'
    BY <1>1, <1>2, Parts DEF TestProfile, FilesOK, HasMarker, Exists
  <2> QED BY <2>3, <2>4, PartsNext
<1>3. CASE Advance(p) /\ UNCHANGED <<staging, torn, raced>>
  <2>1. FilesOK'
    BY <1>3, FilesStay, Parts DEF TestProfile
  <2>2. JobsTyped'
    BY <1>3, AdvanceTyped, Parts DEF JobsTyped
  <2> QED BY <2>1, <2>2, PartsNext
<1>4. CASE StopJob(p) /\ UNCHANGED raced
  <2>1. FilesOK'
    BY <1>4, FilesStay, Parts DEF TestProfile
  <2> QED BY <1>4, <2>1, StopTyped, PartsNext
<1> QED BY <1>2, <1>3, <1>4 DEF TestProfile, f

LEMMA BackupProfileTyped ==
    ASSUME TypeInv, NEW p \in Proc, BackupProfile(p) PROVE TypeInv'
<1> DEFINE f == job[p].file
<1>0. job[p] \in Job /\ f \in Profiles
  BY DEF BackupProfile, At, TypeInv, TypeOK, JobOK
<1>1. profile[f].text \in Text
  BY <1>0, Parts DEF FilesOK, Profile
<1>2. CASE StopJob(p) /\ UNCHANGED archived
  <2>1. FilesOK'
    BY <1>2, FilesStay, Parts DEF BackupProfile
  <2> QED BY <1>2, <2>1, StopTyped, PartsNext
<1>3. CASE /\ archived' = archived \cup Snapshots(f)
           /\ GoTo(p, "append") /\ UNCHANGED <<staging, torn>>
  <2>1. Snapshots(f) \subseteq [file : Profiles, text : Text]
    BY <1>0, <1>1 DEF Snapshots, Snapshot
  <2>2. FilesOK'
    BY <1>3, <2>1, Parts DEF BackupProfile, FilesOK, HasMarker, Exists
  <2>3. JobOK([job[p] EXCEPT !.pc = "append"], staging[p])
    BY <1>0 DEF JobOK, Job, PCs
  <2>4. JobsTyped'
    BY <1>3, <2>3, GoToOK, StaysStaged DEF PCs
  <2> QED BY <2>2, <2>4, PartsNext
<1> QED BY <1>2, <1>3 DEF BackupProfile

\* A profile after an append, whole or cut short.
LEMMA Appended ==
    ASSUME FilesOK, NEW f \in Profiles, NEW r \in Profile,
           r.text = TextBefore(f), profile' = [profile EXCEPT ![f] = r]
    PROVE  /\ profile' \in [Profiles -> Profile]
           /\ \A g \in Profiles : HasMarker(g)' => Exists(g)'
<1>1. TextBefore(f) # Absent
  BY NamesAssumption DEF TextBefore, Exists
<1>2. \A g \in Profiles : profile'[g] = IF g = f THEN r ELSE profile[g]
  BY DEF FilesOK
<1> QED BY <1>1, <1>2 DEF FilesOK, HasMarker, Exists

LEMMA AppendTyped ==
    ASSUME TypeInv, NEW p \in Proc, AppendBlock(p) \/ CutBlock(p)
    PROVE  TypeInv'
<1> DEFINE f == job[p].file
           whole == [text |-> TextBefore(f), blocks |-> profile[f].blocks + 1,
                     cut |-> profile[f].cut]
           part == [profile[f] EXCEPT !.text = TextBefore(f), !.cut = TRUE]
<1>0. job[p] \in Job /\ f \in Profiles /\ FilesOK
  BY Parts DEF AppendBlock, CutBlock, At, TypeInv, TypeOK, JobOK
<1>1. profile[f] \in Profile /\ TextBefore(f) \in Text
  BY <1>0 DEF FilesOK, Profile, TextBefore, Text
<1>2. /\ whole \in Profile /\ whole.text = TextBefore(f)
      /\ part \in Profile /\ part.text = TextBefore(f)
  <2> HIDE DEF f
  <2>1. profile[f].blocks + 1 \in Nat /\ profile[f].cut \in BOOLEAN
    BY <1>1 DEF Profile
  <2>2. whole \in Profile
    BY <1>1, <2>1 DEF Profile
  <2>3. part \in Profile /\ part.text = TextBefore(f)
    BY <1>1 DEF Profile
  <2> QED BY <2>2, <2>3
<1>3. CASE AppendBlock(p)
  <2>1. profile' = [profile EXCEPT ![f] = whole]
    BY <1>0, <1>3 DEF AppendBlock
  <2> HIDE DEF whole, f
  <2>2. FilesOK'
    BY <1>0, <1>2, <1>3, <2>1, Appended DEF AppendBlock, FilesOK
  <2>3. JobsTyped'
    BY <1>3, AdvanceTyped, Parts DEF AppendBlock, JobsTyped
  <2> QED BY <2>2, <2>3, PartsNext
<1>4. CASE CutBlock(p)
  <2>1. profile' = [profile EXCEPT ![f] = part]
    BY <1>0, <1>4 DEF CutBlock
  <2>2. events' \in 0..MaxEvents
    BY <1>0, <1>4, ProfilesAssumption DEF CutBlock, Happens, FilesOK
  <2> HIDE DEF part, f
  <2>3. FilesOK'
    BY <1>0, <1>2, <1>4, <2>1, <2>2, Appended DEF CutBlock, FilesOK
  <2> QED BY <1>4, <2>3, StopTyped, PartsNext DEF CutBlock
<1> QED BY <1>3, <1>4

LEMMA EventTyped ==
    ASSUME FilesOK, Happens
    PROVE  events' \in 0..MaxEvents /\ events + 1 \in 0..MaxEvents
BY ProfilesAssumption DEF FilesOK, Happens

LEMMA StopStepTyped == ASSUME TypeInv, NEW p \in Proc, Stop(p) PROVE TypeInv'
<1>1. FilesOK'
  BY EventTyped, Parts DEF Stop, FilesOK, HasMarker, Exists
<1> QED BY <1>1, StopTyped, PartsNext DEF Stop

LEMMA ToolTyped ==
    ASSUME TypeInv, NEW r \in Release \cup {NoRelease}, ChangeTool(r)
    PROVE  TypeInv'
<1>1. FilesOK'
  BY EventTyped, Parts DEF ChangeTool, files, FilesOK, HasMarker, Exists
<1>2. JobsTyped'
  BY Parts DEF ChangeTool, files, JobsTyped
<1> QED BY <1>1, <1>2, PartsNext

LEMMA ShellTyped ==
    ASSUME TypeInv, NEW s \in Shell, (\E k : StartShell(s, k)) \/ RunDecryptor(s)
    PROVE  TypeInv'
<1>1. FilesOK'
  <2>1. held' \in [Shell -> Release \cup {NoRelease}]
    BY Parts DEF StartShell, RunDecryptor, FilesOK
  <2> QED BY <2>1, Parts DEF StartShell, RunDecryptor, files, FilesOK, HasMarker,
                             Exists
<1>2. JobsTyped'
  BY Parts DEF StartShell, RunDecryptor, files, JobsTyped
<1> QED BY <1>1, <1>2, PartsNext

\* The user leaves a profile that has a block of envman's only if it is there.
LEMMA UserTyped ==
    ASSUME TypeInv, NEW f \in Profiles, NEW new \in Profile, UserProfile(f, new),
           new.blocks > 0 \/ new.cut => new.text # Absent
    PROVE  TypeInv'
<1>1. profile' = [profile EXCEPT ![f] = new]
  BY DEF UserProfile
<1>2. profile' \in [Profiles -> Profile]
      /\ \A g \in Profiles : profile'[g] = IF g = f THEN new ELSE profile[g]
  BY <1>1, Parts DEF FilesOK
<1>3. \A g \in Profiles : HasMarker(g)' => Exists(g)'
  BY <1>2, Parts DEF FilesOK, HasMarker, Exists
<1>4. FilesOK'
  BY <1>2, <1>3, EventTyped, Parts DEF UserProfile, FilesOK
<1>5. ASSUME NEW q \in Proc
      PROVE  job'[q] \in Job /\ JobOK(job'[q], staging'[q])
  <2>1. JobOK(job[q], staging[q]) /\ job[q] \in Job
    BY DEF TypeInv, TypeOK
  <2>2. job'[q] = [job[q] EXCEPT !.touched = ~At(q, "idle")]
        /\ staging'[q] = staging[q]
    BY DEF UserProfile
  <2>3. (~At(q, "idle")) \in BOOLEAN
    OBVIOUS
  <2> HIDE DEF At
  <2> QED BY <2>1, <2>2, <2>3 DEF JobOK, Job
<1>6. JobsTyped'
  <2>1. job' \in [Proc -> Job]
    BY <1>5 DEF UserProfile
  <2> QED BY <1>5, <2>1, Parts DEF UserProfile, JobsTyped
<1> QED BY <1>4, <1>6, PartsNext

LEMMA EditTyped ==
    ASSUME TypeInv, NEW f \in Profiles, EditProfile(f) PROVE TypeInv'
<1> DEFINE edit == [profile[f] EXCEPT !.text = events + 1]
<1>1. profile[f] \in Profile
  BY Parts DEF FilesOK
<1>2. Happens
  BY DEF EditProfile, UserProfile
<1>3. events + 1 \in Text /\ events + 1 # Absent
  BY <1>2, EventTyped, Parts, NamesAssumption, ProfilesAssumption DEF Text
<1>4. edit \in Profile /\ edit.text # Absent
  BY <1>1, <1>3 DEF Profile
<1>5. \A t \in {events + 1, Link, Absent} :
         Bare(t) \in Profile /\ ~(Bare(t).blocks > 0 \/ Bare(t).cut)
  BY <1>3 DEF Bare, Profile, Text
<1> HIDE DEF edit
<1>6. \/ UserProfile(f, edit)
      \/ \E t \in {events + 1, Link, Absent} : UserProfile(f, Bare(t))
  BY DEF EditProfile, edit
<1> QED BY <1>4, <1>5, <1>6, UserTyped

LEMMA TypeStep == TypeInv /\ [Next]_vars => TypeInv'
<1> SUFFICES ASSUME TypeInv, [Next]_vars PROVE TypeInv'
  OBVIOUS
<1>1. ASSUME NEW p \in Proc, Install(p) PROVE TypeInv'
  BY <1>1, BeginTyped, FindRuntimeTyped, CopyRuntimeTyped, RenameRuntimeTyped,
     LoaderTyped, TestProfileTyped, BackupProfileTyped, AppendTyped DEF Install
<1>2. CASE UNCHANGED vars
  <2>1. FilesOK'
    BY <1>2, FilesStay, Parts DEF vars, files
  <2>2. JobsTyped'
    BY <1>2, Parts DEF vars, files, JobsTyped
  <2> QED BY <2>1, <2>2, PartsNext
<1> QED BY <1>1, <1>2, AppendTyped, StopStepTyped, ToolTyped, EditTyped, ShellTyped
        DEF Next

LEMMA TypeAlways == Spec => []TypeInv
BY TypeInit, TypeStep, PTL DEF Spec

\* Type correctness; a profile that has a block of envman's exists.
THEOREM TypeCorrect == Spec => []TypeOK
<1>1. TypeInv => TypeOK
  BY DEF TypeInv
<1> QED BY <1>1, TypeAlways, PTL

-----------------------------------------------------------------------------
(* Who moves.                                                              *)

\* A step of an install, whole or not; the other steps are the surroundings'.
Works(p) == Install(p) \/ CutBlock(p) \/ Stop(p)
Surroundings ==
    \/ \E r \in Release \cup {NoRelease} : ChangeTool(r)
    \/ \E f \in Edited \cap Profiles : EditProfile(f)
    \/ \E s \in Shell : (\E k \in ShellKind : StartShell(s, k)) \/ RunDecryptor(s)

\* Where a job goes once its item is finished.
LEMMA Advanced ==
    ASSUME TypeInv, NEW p \in Proc, Advance(p)
    PROVE  /\ job'[p].pc \in {"idle", "runtime", "test"}
           /\ \A q \in Proc \ {p} : job'[q] = job[q]
<1> DEFINE i == job[p].item + 1
           done == [Idle EXCEPT !.done = TRUE]
           next == [job[p] EXCEPT !.item = i, !.pc = FirstPC(Plan[i]),
                                  !.rel = NoRelease, !.file = NoFile]
<1>1. job \in [Proc -> Job]
  BY DEF TypeInv, TypeOK
<1>2. job' = [job EXCEPT ![p] = IF job[p].item = Len(Plan) THEN done ELSE next]
  BY DEF Advance
<1>3. done.pc = "idle"
  BY DEF Idle
<1>4. next.pc \in {"runtime", "test"}
  BY <1>1 DEF Job, FirstPC
<1> HIDE DEF done, next
<1> QED BY <1>1, <1>2, <1>3, <1>4

LEMMA Stopped ==
    ASSUME TypeInv, NEW p \in Proc, StopJob(p)
    PROVE  job'[p] = Idle /\ \A q \in Proc \ {p} : job'[q] = job[q]
BY DEF StopJob, TypeInv, TypeOK

\* The other installs stay where they are.
LEMMA OthersStay ==
    ASSUME TypeInv, NEW p \in Proc, Works(p)
    PROVE  \A q \in Proc \ {p} : job'[q] = job[q]
<1>1. job \in [Proc -> Job]
  BY DEF TypeInv, TypeOK
<1>2. CASE Advance(p)
  BY <1>2, Advanced
<1>3. CASE StopJob(p)
  BY <1>3, Stopped
<1>4. CASE ~Advance(p) /\ ~StopJob(p)
  <2>1. \E j : job' = [job EXCEPT ![p] = j]
    BY <1>4 DEF Works, Install, CutBlock, Stop, Begin, FindRuntime, CopyRuntime,
       RenameRuntime, TruncateLoader, WriteLoader, TestProfile, BackupProfile,
       AppendBlock, GoTo
  <2> QED BY <1>1, <2>1
<1> QED BY <1>2, <1>3, <1>4

\* The surroundings move no install; a user's change is remembered by it.
LEMMA JobsKept ==
    ASSUME TypeInv, Surroundings \/ UNCHANGED vars
    PROVE  \A q \in Proc : /\ job'[q].pc = job[q].pc /\ job'[q].rel = job[q].rel
                           /\ job'[q].file = job[q].file
                           /\ job'[q].item = job[q].item
                           /\ (profile' = profile /\ job' = job) \/
                              (job[q].pc # "idle" => job'[q].touched)
<1> SUFFICES ASSUME NEW q \in Proc
             PROVE  /\ job'[q].pc = job[q].pc /\ job'[q].rel = job[q].rel
                    /\ job'[q].file = job[q].file
                    /\ job'[q].item = job[q].item
                    /\ (profile' = profile /\ job' = job) \/
                       (job[q].pc # "idle" => job'[q].touched)
  OBVIOUS
<1>1. job[q] \in Job
  BY DEF TypeInv, TypeOK
<1>2. CASE job' = job /\ profile' = profile
  BY <1>2
<1>3. CASE ~(job' = job /\ profile' = profile)
  <2>1. \E f \in Profiles : EditProfile(f)
    BY <1>3 DEF Surroundings, ChangeTool, StartShell, RunDecryptor, vars, files
  <2>2. job'[q] = [job[q] EXCEPT !.touched = ~At(q, "idle")]
    BY <2>1 DEF EditProfile, UserProfile
  <2> QED BY <1>1, <2>2 DEF Job, At
<1> QED BY <1>2, <1>3

LEMMA NextSteps ==
    [Next]_vars => (\E p \in Proc : Works(p)) \/ Surroundings \/ UNCHANGED vars
BY DEF Next, Works, Surroundings

-----------------------------------------------------------------------------
(* The retained runtimes.                                                  *)

\* An install that is about to name a runtime in a loader has seen it complete.
RuntimesInv ==
    /\ RuntimesWhole
    /\ ShellNeverStranded
    /\ \A p \in Proc : job[p].pc \in {"truncate", "write"} =>
          runtime[job[p].rel] \in Whole

LEMMA NotWhole == Absent \notin Whole /\ Partial \notin Whole
BY NamesAssumption DEF Whole

LEMMA RuntimeSteps ==
    ASSUME TypeInv, RuntimesWhole, [Next]_vars
    PROVE  /\ RuntimesWhole'
           /\ \A r \in Release : runtime[r] \in Whole => runtime'[r] = runtime[r]
           /\ \A p \in Proc : RenameRuntime(p) => runtime'[job[p].rel] \in Whole
<1>1. runtime \in [Release -> Whole \cup {Absent, Partial}]
  BY DEF TypeInv, TypeOK
<1>2. ASSUME NEW p \in Proc, RenameRuntime(p)
      PROVE  /\ job[p].rel \in Release /\ staging[p] \in Whole
             /\ runtime' = IF runtime[job[p].rel] = Absent
                           THEN [runtime EXCEPT ![job[p].rel] = staging[p]]
                           ELSE runtime
  BY <1>2 DEF RenameRuntime, Vacant, WithRuntime, At, TypeInv, JobOK
<1>3. ASSUME NEW p \in Proc, RenameRuntime(p)
      PROVE  /\ RuntimesWhole' /\ runtime'[job[p].rel] \in Whole
             /\ \A r \in Release : runtime[r] \in Whole => runtime'[r] = runtime[r]
  BY <1>1, <1>2, <1>3, NotWhole DEF RuntimesWhole
<1>4. CASE \A p \in Proc : ~RenameRuntime(p)
  <2>1. runtime' = runtime
    BY <1>4 DEF Next, Install, Begin, FindRuntime, CopyRuntime, TruncateLoader,
       WriteLoader, TestProfile, BackupProfile, AppendBlock, CutBlock, Stop,
       ChangeTool, EditProfile, UserProfile, StartShell, RunDecryptor, files, vars
  <2> QED BY <1>4, <2>1 DEF RuntimesWhole
<1> QED BY <1>3, <1>4

\* An install on its way to a loader file has a complete runtime to name.
LEMMA ReadyStep ==
    ASSUME TypeInv, RuntimesInv, [Next]_vars, NEW q \in Proc,
           job'[q].pc \in {"truncate", "write"}
    PROVE  runtime'[job'[q].rel] \in Whole
<1>0. \A p \in Proc : /\ job[p] \in Job
                      /\ job[p].pc \in {"copy", "rename", "truncate", "write"} =>
                            job[p].rel \in Release
  BY DEF TypeInv, TypeOK, JobOK
<1>1. CASE /\ job'[q].rel = job[q].rel
           /\ job[q].pc \in {"truncate", "write"}
  <2>1. runtime[job[q].rel] \in Whole /\ job[q].rel \in Release
    BY <1>0, <1>1 DEF RuntimesInv
  <2> QED BY <1>1, <2>1, RuntimeSteps DEF RuntimesInv
<1>2. CASE Surroundings \/ UNCHANGED vars
  BY <1>1, <1>2, JobsKept
<1>3. ASSUME NEW p \in Proc, Works(p) PROVE runtime'[job'[q].rel] \in Whole
  <2>1. CASE q # p
    BY <1>1, <1>3, <2>1, OthersStay
  <2>2. CASE q = p /\ RenameRuntime(p)
    <3>1. job'[q].rel = job[q].rel
      BY <1>0, <2>2 DEF RenameRuntime, GoTo, Job, TypeInv, TypeOK
    <3> QED BY <2>2, <3>1, RuntimeSteps DEF RuntimesInv
  <2>3. CASE q = p /\ TruncateLoader(p)
    <3>1. job'[q].rel = job[q].rel /\ job[q].pc = "truncate"
      BY <1>0, <2>3 DEF TruncateLoader, GoTo, At, Job, TypeInv, TypeOK
    <3> QED BY <1>1, <3>1
  <2>4. CASE q = p /\ FindRuntime(p)
    <3>1. job'[q].pc # "idle" /\ job'[q].pc # FilledFirst
      BY DEF FilledFirst
    <3>2. ~StopJob(p)
      BY <2>4, <3>1, Stopped DEF Idle
    <3>3. runtime[tool] \in Whole /\ tool # NoRelease
          /\ job' = [job EXCEPT ![p].pc = "truncate", ![p].rel = tool]
      <4>1. ASSUME job' = [job EXCEPT ![p].pc = FilledFirst, ![p].rel = tool]
            PROVE  FALSE
        BY <1>0, <2>4, <3>1, <4>1 DEF Job, TypeInv, TypeOK
      <4> QED BY <2>4, <3>2, <4>1 DEF FindRuntime
    <3>4. job'[q].rel = tool
      BY <1>0, <2>4, <3>3 DEF Job, TypeInv, TypeOK
    <3>5. runtime' = runtime
      BY <2>4 DEF FindRuntime
    <3> QED BY <3>3, <3>4, <3>5
  <2>5. CASE q = p /\ (Advance(p) \/ StopJob(p))
    BY <2>5, Advanced, Stopped DEF Idle
  <2>6. CASE q = p /\ Begin(p)
    <3>1. job'[q].pc = FirstPC(Plan[1])
      BY <2>6, IdleOK DEF Begin, TypeInv, TypeOK, Idle
    <3> QED BY <3>1 DEF FirstPC
  <2>7. CASE q = p /\ CopyRuntime(p) /\ ~StopJob(p)
    <3>1. job'[q].pc = "rename"
      BY <1>0, <2>7 DEF CopyRuntime, GoTo, Job, TypeInv, TypeOK
    <3> QED BY <3>1
  <2>8. CASE q = p /\ TestProfile(p) /\ ~Advance(p) /\ ~StopJob(p)
    <3>1. job'[q].pc = "backup"
      BY <1>0, <2>8 DEF TestProfile, Job, TypeInv, TypeOK
    <3> QED BY <3>1
  <2>9. CASE q = p /\ BackupProfile(p) /\ ~StopJob(p)
    <3>1. job'[q].pc = "append"
      BY <1>0, <2>9 DEF BackupProfile, GoTo, Job, TypeInv, TypeOK
    <3> QED BY <3>1
  <2> QED BY <1>3, <2>1, <2>2, <2>3, <2>4, <2>5, <2>6, <2>7, <2>8, <2>9
          DEF Works, Install, WriteLoader, AppendBlock, CutBlock, Stop
<1> QED BY <1>2, <1>3, NextSteps

LEMMA RuntimesStep == TypeInv /\ RuntimesInv /\ [Next]_vars => RuntimesInv'
<1> SUFFICES ASSUME TypeInv, RuntimesInv, [Next]_vars PROVE RuntimesInv'
  OBVIOUS
<1>0. /\ loader \in [Loaders -> Release \cup {Absent, Empty}]
      /\ held \in [Shell -> Release \cup {NoRelease}]
      /\ \A r \in Release : runtime[r] \in Whole => runtime'[r] = runtime[r]
  BY RuntimeSteps DEF TypeInv, TypeOK, RuntimesInv
<1>1. ASSUME NEW l \in Loaders, loader'[l] \in Release
      PROVE  runtime'[loader'[l]] \in Whole
  <2>1. CASE loader'[l] = loader[l]
    BY <1>0, <1>1, <2>1 DEF RuntimesInv, ShellNeverStranded
  <2>2. ASSUME NEW p \in Proc, WriteLoader(p), loader'[l] # loader[l]
        PROVE  runtime'[loader'[l]] \in Whole
    <3>1. runtime' = runtime /\ loader'[l] = job[p].rel
      BY <1>0, <2>2 DEF WriteLoader
    <3> QED BY <2>2, <3>1 DEF WriteLoader, At, RuntimesInv
  <2>3. ASSUME NEW p \in Proc, TruncateLoader(p), loader'[l] # loader[l]
        PROVE  FALSE
    BY <1>0, <1>1, <2>3, NamesAssumption DEF TruncateLoader
  <2> QED BY <2>1, <2>2, <2>3
          DEF Next, Install, Begin, FindRuntime, CopyRuntime, RenameRuntime,
              TestProfile, BackupProfile, AppendBlock, CutBlock, Stop, ChangeTool,
              EditProfile, UserProfile, StartShell, RunDecryptor, files, vars
<1>2. ASSUME NEW s \in Shell, held'[s] \in Release
      PROVE  runtime'[held'[s]] \in Whole
  <2>1. CASE held'[s] = held[s]
    BY <1>0, <1>2, <2>1 DEF RuntimesInv, ShellNeverStranded
  <2>2. ASSUME NEW t \in Shell, NEW k \in ShellKind, StartShell(t, k),
               held'[s] # held[s]
        PROVE  runtime'[held'[s]] \in Whole
    <3>1. held'[s] = loader[LoaderOf(k)] /\ runtime' = runtime
      BY <1>0, <2>2 DEF StartShell, files
    <3>2. LoaderOf(k) \in Loaders
      BY DEF LoaderOf, Loaders
    <3> QED BY <1>2, <3>1, <3>2 DEF RuntimesInv, ShellNeverStranded
  <2>3. ASSUME NEW t \in Shell, RunDecryptor(t), held'[s] # held[s] PROVE FALSE
    BY <1>0, <1>2, <2>3, NamesAssumption DEF RunDecryptor
  <2> QED BY <2>1, <2>2, <2>3
          DEF Next, Install, Begin, FindRuntime, CopyRuntime, RenameRuntime,
              TruncateLoader, WriteLoader, TestProfile, BackupProfile, AppendBlock,
              CutBlock, Stop, ChangeTool, EditProfile, UserProfile, vars
<1> QED BY <1>1, <1>2, ReadyStep, RuntimeSteps
        DEF RuntimesInv, ShellNeverStranded

LEMMA RuntimesAlways == Spec => []RuntimesInv
<1>1. Init => RuntimesInv
  <2> SUFFICES ASSUME Init PROVE RuntimesInv
    OBVIOUS
  <2>1. \A p \in Proc : job[p].pc = "idle"
    BY DEF Init, Idle
  <2>2. RuntimesWhole /\ ShellNeverStranded
    BY NamesAssumption DEF Init, RuntimesWhole, ShellNeverStranded
  <2> QED BY <2>1, <2>2 DEF RuntimesInv
<1> QED BY <1>1, RuntimesStep, TypeAlways, PTL DEF Spec

\* An incomplete copy never gets the name of a runtime, whoever is killed while
\* copying (install_retained_runtime).
THEOREM RuntimesComplete == Spec => []RuntimesWhole
<1>1. RuntimesInv => RuntimesWhole
  BY DEF RuntimesInv
<1> QED BY <1>1, RuntimesAlways, PTL

\* A shell that has read a loader finds the runtime it names, across upgrades,
\* removals and overlapping saves.
THEOREM ShellsServed == Spec => []ShellNeverStranded
<1>1. RuntimesInv => ShellNeverStranded
  BY DEF RuntimesInv
<1> QED BY <1>1, RuntimesAlways, PTL

\* A runtime a shell may be running is never replaced or removed.
THEOREM RuntimesStay == Spec => RuntimeStable
<1> DEFINE Kept == \A r \in Release : runtime[r] \in Whole => runtime'[r] = runtime[r]
<1>1. TypeInv /\ RuntimesInv /\ [Next]_vars => [Kept]_vars
  BY RuntimeSteps DEF RuntimesInv
<1> QED BY <1>1, TypeAlways, RuntimesAlways, PTL DEF Spec, RuntimeStable

-----------------------------------------------------------------------------
(* The blocks in profiles.                                                 *)

\* Two installs about to extend a profile have been seen to race, and so has
\* one about to extend a profile another has extended since.
RacedInv ==
    /\ \A f \in Profiles, p, q \in Proc :
          p # q /\ Extending(p, f) /\ Extending(q, f) => f \in raced
    /\ \A f \in Profiles, p \in Proc :
          Extending(p, f) /\ profile[f].blocks > 0 => f \in raced
    /\ BlockOnce

\* Who starts to extend a profile: an install that found no block in it.
LEMMA StartsExtending ==
    ASSUME TypeInv, [Next]_vars, NEW q \in Proc, NEW f \in Profiles,
           Extending(q, f)', ~Extending(q, f)
    PROVE  /\ TestProfile(q) /\ ~HasMarker(f) /\ profile' = profile
           /\ raced' = raced \cup {g \in {f} : \E p \in Proc : Extending(p, g)}
<1>0. job[q] \in Job /\ job \in [Proc -> Job]
  BY DEF TypeInv, TypeOK
<1>1. job'[q].file = f /\ job'[q].pc \in {"backup", "append"}
  BY DEF Extending
<1>2. ~(Surroundings \/ UNCHANGED vars)
  BY <1>1, JobsKept DEF Extending
<1>3. PICK p \in Proc : Works(p)
  BY <1>2, NextSteps
<1>4. q = p
  BY <1>1, <1>3, OthersStay DEF Extending
<1>5. ~Advance(q) /\ ~StopJob(q)
  BY <1>1, Advanced, Stopped DEF Idle
<1>6. ~FindRuntime(q)
  <2>1. ASSUME NEW c \in {"truncate", "copy"}, NEW r,
               job' = [job EXCEPT ![q].pc = c, ![q].rel = r]
        PROVE  FALSE
    BY <1>0, <1>1, <2>1 DEF Job
  <2> QED BY <1>5, <2>1 DEF FindRuntime, FilledFirst
<1>7. ~Begin(q)
  <2>1. FirstPC(Plan[1]) \in {"runtime", "test"}
    BY DEF FirstPC
  <2>2. [Idle EXCEPT !.pc = FirstPC(Plan[1])].pc = FirstPC(Plan[1])
    BY DEF Idle
  <2> QED BY <1>0, <1>1, <2>1, <2>2 DEF Begin
<1>8. ASSUME NEW c, GoTo(q, c) PROVE job'[q].pc = c /\ job'[q].file = job[q].file
  BY <1>0, <1>8 DEF GoTo, Job
<1>9. ~CopyRuntime(q) /\ ~RenameRuntime(q) /\ ~TruncateLoader(q)
  BY <1>1, <1>5, <1>8 DEF CopyRuntime, RenameRuntime, TruncateLoader
<1>10. ~BackupProfile(q)
  BY <1>1, <1>5, <1>8 DEF BackupProfile, At, Extending
<1>11. TestProfile(q)
  BY <1>3, <1>4, <1>5, <1>6, <1>7, <1>9, <1>10
     DEF Works, Install, WriteLoader, AppendBlock, CutBlock, Stop
<1>12. /\ job' = [job EXCEPT ![q].pc = "backup", ![q].file = Candidate(q)]
       /\ WithoutMarker(Candidate(q))
       /\ raced' = raced \cup {g \in {Candidate(q)} :
                                  \E r \in Proc : Extending(r, g)}
  BY <1>5, <1>11 DEF TestProfile
<1>13. Candidate(q) = f
  BY <1>0, <1>1, <1>12 DEF Job
<1> QED BY <1>11, <1>12, <1>13 DEF TestProfile, WithoutMarker

LEMMA RacedGrows == [Next]_vars => raced \subseteq raced'
BY DEF Next, Install, Begin, FindRuntime, CopyRuntime, RenameRuntime,
   TruncateLoader, WriteLoader, TestProfile, BackupProfile, AppendBlock,
   CutBlock, Stop, ChangeTool, EditProfile, UserProfile, StartShell,
   RunDecryptor, files, vars

\* Blocks are added one at a time, by an install that extends the profile and
\* is done with it then.
LEMMA BlockAdded ==
    ASSUME TypeInv, [Next]_vars, NEW f \in Profiles
    PROVE  \/ profile'[f].blocks \in {0, profile[f].blocks}
           \/ \E p \in Proc : /\ Extending(p, f) /\ ~Extending(p, f)'
                              /\ \A q \in Proc \ {p} : job'[q] = job[q]
                              /\ profile'[f].blocks = profile[f].blocks + 1
<1>0. profile \in [Profiles -> Profile] /\ profile[f] \in Profile
      /\ profile[f].blocks \in Nat /\ job \in [Proc -> Job]
  BY DEF TypeInv, TypeOK, Profile
<1>1. CASE profile' = profile
  BY <1>1
<1>2. ASSUME NEW p \in Proc, AppendBlock(p)
      PROVE  \/ profile'[f].blocks \in {0, profile[f].blocks}
             \/ \E r \in Proc : /\ Extending(r, f) /\ ~Extending(r, f)'
                                /\ \A q \in Proc \ {r} : job'[q] = job[q]
                                /\ profile'[f].blocks = profile[f].blocks + 1
  <2> DEFINE g == job[p].file
             with == [text |-> TextBefore(g), blocks |-> profile[g].blocks + 1,
                      cut |-> profile[g].cut]
  <2>1. profile' = [profile EXCEPT ![g] = with] /\ with.blocks = profile[g].blocks + 1
    BY <1>2 DEF AppendBlock
  <2>2. /\ job[p].pc = "append" /\ job'[p].pc \in {"idle", "runtime", "test"}
        /\ \A q \in Proc \ {p} : job'[q] = job[q]
    BY <1>2, Advanced DEF AppendBlock, At
  <2> HIDE DEF with
  <2>3. CASE f = g
    <3>1. Extending(p, f) /\ ~Extending(p, f)'
      BY <2>2, <2>3 DEF Extending
    <3>2. profile'[f].blocks = profile[f].blocks + 1
      BY <1>0, <2>1, <2>3
    <3> QED BY <2>2, <3>1, <3>2
  <2>4. CASE f # g
    BY <1>0, <2>1, <2>4
  <2> QED BY <2>3, <2>4
<1>3. ASSUME NEW p \in Proc, CutBlock(p)
      PROVE  profile'[f].blocks = profile[f].blocks
  <2> DEFINE g == job[p].file
             part == [profile[g] EXCEPT !.text = TextBefore(g), !.cut = TRUE]
  <2>1. profile' = [profile EXCEPT ![g] = part]
    BY <1>3 DEF CutBlock
  <2>2. g \in Profiles => part.blocks = profile[g].blocks
    BY <1>0 DEF Profile
  <2> HIDE DEF part, g
  <2> QED BY <1>0, <2>1, <2>2
<1>4. ASSUME NEW g, EditProfile(g)
      PROVE  profile'[f].blocks \in {0, profile[f].blocks}
  <2>1. PICK new : UserProfile(g, new) /\ new.blocks \in {0, profile[g].blocks}
    <3>1. \A t : Bare(t).blocks = 0
      BY DEF Bare
    <3>2. CASE UserProfile(g, [profile[g] EXCEPT !.text = events + 1])
      <4>1. CASE g \in Profiles
        <5>1. [profile[g] EXCEPT !.text = events + 1].blocks = profile[g].blocks
          BY <1>0, <4>1 DEF Profile
        <5> QED BY <3>2, <5>1
      <4>2. CASE g \notin Profiles
        <5>1. profile' = profile
          BY <1>0, <3>2, <4>2 DEF UserProfile
        <5>2. UserProfile(g, Bare(0))
          BY <1>0, <3>2, <4>2, <5>1 DEF UserProfile
        <5> QED BY <3>1, <5>2
      <4> QED BY <4>1, <4>2
    <3> QED BY <1>4, <3>1, <3>2 DEF EditProfile
  <2>2. profile' = [profile EXCEPT ![g] = new]
    BY <2>1 DEF UserProfile
  <2> QED BY <1>0, <2>1, <2>2
<1> QED BY <1>1, <1>2, <1>3, <1>4
        DEF Next, Install, Begin, FindRuntime, CopyRuntime, RenameRuntime,
            TruncateLoader, WriteLoader, TestProfile, BackupProfile, Stop,
            ChangeTool, StartShell, RunDecryptor, files, vars

LEMMA RacedStep == TypeInv /\ RacedInv /\ [Next]_vars => RacedInv'
<1> SUFFICES ASSUME TypeInv, RacedInv, [Next]_vars PROVE RacedInv'
  OBVIOUS
<1>0. \A f \in Profiles : profile[f].blocks \in Nat
  BY DEF TypeInv, TypeOK, Profile
<1>1. ASSUME NEW f \in Profiles, NEW p \in Proc, NEW q \in Proc, p # q,
             Extending(p, f)', Extending(q, f)'
      PROVE  f \in raced'
  <2>1. CASE Extending(p, f) /\ Extending(q, f)
    BY <1>1, <2>1, RacedGrows DEF RacedInv
  <2>2. CASE ~Extending(p, f)
    <3>1. TestProfile(p)
          /\ raced' = raced \cup {g \in {f} : \E r \in Proc : Extending(r, g)}
      BY <1>1, <2>2, StartsExtending
    <3>2. job'[q] = job[q]
      BY <1>1, <3>1, OthersStay DEF Works, Install
    <3>3. Extending(q, f)
      BY <1>1, <3>2 DEF Extending
    <3> QED BY <3>1, <3>3
  <2>3. CASE ~Extending(q, f)
    <3>1. TestProfile(q)
          /\ raced' = raced \cup {g \in {f} : \E r \in Proc : Extending(r, g)}
      BY <1>1, <2>3, StartsExtending
    <3>2. job'[p] = job[p]
      BY <1>1, <3>1, OthersStay DEF Works, Install
    <3>3. Extending(p, f)
      BY <1>1, <3>2 DEF Extending
    <3> QED BY <3>1, <3>3
  <2> QED BY <2>1, <2>2, <2>3
<1>2. ASSUME NEW f \in Profiles, NEW p \in Proc, Extending(p, f)',
             profile'[f].blocks > 0
      PROVE  f \in raced'
  <2>1. CASE ~Extending(p, f)
    <3>1. ~HasMarker(f) /\ profile' = profile
      BY <1>2, <2>1, StartsExtending
    <3> QED BY <1>2, <3>1 DEF HasMarker
  <2>2. CASE Extending(p, f) /\ profile[f].blocks > 0
    BY <2>2, RacedGrows DEF RacedInv
  <2>3. CASE Extending(p, f) /\ ~(profile[f].blocks > 0)
    <3>1. profile[f].blocks = 0
      BY <1>0, <2>3
    <3>2. PICK r \in Proc : Extending(r, f) /\ ~Extending(r, f)'
      BY <1>2, <3>1, BlockAdded
    <3> QED BY <1>2, <2>3, <3>2, RacedGrows DEF RacedInv
  <2> QED BY <2>1, <2>2, <2>3
<1>3. ASSUME NEW f \in Profiles, profile'[f].blocks > 1 PROVE f \in raced'
  <2>1. CASE profile'[f].blocks \in {0, profile[f].blocks}
    <3>1. profile[f].blocks > 1
      BY <1>3, <2>1
    <3> QED BY <3>1, RacedGrows DEF RacedInv, BlockOnce
  <2>2. CASE ~(profile'[f].blocks \in {0, profile[f].blocks})
    <3>1. PICK r \in Proc : Extending(r, f)
                            /\ profile'[f].blocks = profile[f].blocks + 1
      BY <2>2, BlockAdded
    <3>2. profile[f].blocks > 0
      BY <1>0, <1>3, <3>1
    <3> QED BY <3>1, <3>2, RacedGrows DEF RacedInv
  <2> QED BY <2>1, <2>2
<1> QED BY <1>1, <1>2, <1>3 DEF RacedInv, BlockOnce

\* Without a race no profile gets the block twice (_append_profile_loader's
\* test for its marker).
THEOREM BlocksOnce == Spec => []BlockOnce
<1>1. Init => RacedInv
  <2> SUFFICES ASSUME Init PROVE RacedInv
    OBVIOUS
  <2>1. \A p \in Proc : \A f : ~Extending(p, f)
    BY DEF Init, Idle, Extending
  <2>2. \A f \in Profiles : profile[f].blocks = 0
    BY DEF Init, Bare
  <2> QED BY <2>1, <2>2 DEF RacedInv, BlockOnce
<1>2. RacedInv => BlockOnce
  BY DEF RacedInv
<1> QED BY <1>1, <1>2, RacedStep, TypeAlways, PTL DEF Spec

-----------------------------------------------------------------------------
(* The user's part of profiles.                                            *)

\* The snapshot of a profile an install is about to extend is of what is in it.
SnapInv ==
    \A p \in Proc :
       job[p].pc = "append" /\ ~job[p].touched
       /\ profile[job[p].file].text \in 0..MaxEvents =>
          Snapshot(job[p].file) \in archived

\* Unless the user is at work, a profile's text changes from none to envman's.
LEMMA TextStays ==
    ASSUME TypeInv, [Next]_vars, NEW f \in Profiles,
           \/ \E p \in Proc : Works(p)
           \/ profile' = profile
    PROVE  /\ profile'[f] # profile[f] => profile'[f].text = TextBefore(f)
           /\ profile'[f].text \in {profile[f].text, TextBefore(f)}
           /\ profile'[f].text \in 0..MaxEvents => profile'[f].text = profile[f].text
<1>0. profile \in [Profiles -> Profile] /\ profile[f] \in Profile
  BY DEF TypeInv, TypeOK
<1>1. CASE profile' = profile
  BY <1>1
<1>2. CASE profile'[f].text = TextBefore(f)
  BY <1>2, NamesAssumption DEF TextBefore
<1>3. ASSUME NEW p \in Proc, AppendBlock(p) \/ CutBlock(p)
      PROVE  profile'[f] = profile[f] \/ profile'[f].text = TextBefore(f)
  <2> DEFINE g == job[p].file
             with == [text |-> TextBefore(g), blocks |-> profile[g].blocks + 1,
                      cut |-> profile[g].cut]
             part == [profile[g] EXCEPT !.text = TextBefore(g), !.cut = TRUE]
  <2>1. \E r : profile' = [profile EXCEPT ![g] = r]
               /\ (g \in Profiles => r.text = TextBefore(g))
    <3>1. CASE AppendBlock(p)
      <4>1. profile' = [profile EXCEPT ![g] = with] /\ with.text = TextBefore(g)
        BY <3>1 DEF AppendBlock
      <4> HIDE DEF with, g
      <4> QED BY <4>1
    <3>2. CASE CutBlock(p)
      <4>1. profile' = [profile EXCEPT ![g] = part]
        BY <3>2 DEF CutBlock
      <4>2. g \in Profiles => part.text = TextBefore(g)
        BY <1>0 DEF TypeInv, TypeOK, Profile
      <4> HIDE DEF part, g
      <4> QED BY <4>1, <4>2
    <3> QED BY <1>3, <3>1, <3>2
  <2> HIDE DEF g
  <2> QED BY <1>0, <2>1
<1>4. ASSUME NEW p \in Proc, Works(p), ~AppendBlock(p), ~CutBlock(p)
      PROVE  profile' = profile
  BY <1>4 DEF Works, Install, Begin, FindRuntime, CopyRuntime, RenameRuntime,
     TruncateLoader, WriteLoader, TestProfile, BackupProfile, Stop, files
<1> QED BY <1>1, <1>2, <1>3, <1>4

LEMMA SnapsKept == [Next]_vars => archived \subseteq archived'
BY DEF Next, Install, Begin, FindRuntime, CopyRuntime, RenameRuntime,
   TruncateLoader, WriteLoader, TestProfile, BackupProfile, AppendBlock,
   CutBlock, Stop, ChangeTool, EditProfile, UserProfile, StartShell,
   RunDecryptor, files, vars

\* Who comes to append: an install that made the snapshot.
LEMMA ComesToAppend ==
    ASSUME TypeInv, [Next]_vars, NEW p \in Proc, Works(p), job'[p].pc = "append"
    PROVE  /\ job'[p].file = job[p].file /\ job[p].file \in Profiles
           /\ profile' = profile
           /\ archived' = archived \cup Snapshots(job[p].file)
<1>0. job[p] \in Job /\ job \in [Proc -> Job]
  BY DEF TypeInv, TypeOK
<1>1. ~Advance(p) /\ ~StopJob(p)
  BY Advanced, Stopped DEF Idle
<1>2. ASSUME NEW c, NEW r, job' = [job EXCEPT ![p].pc = c, ![p].rel = r]
      PROVE  job'[p].pc = c
  BY <1>0, <1>2 DEF Job
<1>3. ~FindRuntime(p)
  BY <1>1, <1>2 DEF FindRuntime, FilledFirst
<1>4. ~TestProfile(p)
  <2>1. ASSUME NEW g, job' = [job EXCEPT ![p].pc = "backup", ![p].file = g]
        PROVE  FALSE
    BY <1>0, <2>1 DEF Job
  <2> QED BY <1>1, <2>1 DEF TestProfile
<1>5. ~Begin(p)
  <2>1. [Idle EXCEPT !.pc = FirstPC(Plan[1])].pc \in {"runtime", "test"}
    BY DEF Idle, FirstPC
  <2> QED BY <1>0, <2>1 DEF Begin
<1>6. ASSUME NEW c, GoTo(p, c) PROVE job'[p].pc = c /\ job'[p].file = job[p].file
  BY <1>0, <1>6 DEF GoTo, Job
<1>7. ~CopyRuntime(p) /\ ~RenameRuntime(p) /\ ~TruncateLoader(p)
  BY <1>1, <1>6 DEF CopyRuntime, RenameRuntime, TruncateLoader
<1>8. BackupProfile(p)
  BY <1>1, <1>3, <1>4, <1>5, <1>7
     DEF Works, Install, WriteLoader, AppendBlock, CutBlock, Stop
<1>9. job[p].file \in Profiles
  BY <1>8 DEF BackupProfile, At, TypeInv, JobOK
<1> QED BY <1>1, <1>6, <1>8, <1>9 DEF BackupProfile

LEMMA SnapStep == TypeInv /\ SnapInv /\ [Next]_vars => SnapInv'
<1> SUFFICES ASSUME TypeInv, SnapInv, [Next]_vars, NEW q \in Proc,
                    job'[q].pc = "append", ~job'[q].touched,
                    profile'[job'[q].file].text \in 0..MaxEvents
             PROVE  Snapshot(job[q].file)' \in archived'
  BY DEF SnapInv
<1> DEFINE f == job[q].file
<1>1. CASE /\ job'[q] = job[q] /\ f \in Profiles
           /\ profile'[f].text = profile[f].text
  <2>1. Snapshot(f) \in archived
    BY <1>1 DEF SnapInv
  <2>2. Snapshot(f)' = Snapshot(f)
    BY <1>1 DEF Snapshot
  <2> QED BY <2>1, <2>2, SnapsKept
<1>2. job[q].pc = "append" => f \in Profiles
  BY DEF TypeInv, JobOK
<1>3. CASE Surroundings \/ UNCHANGED vars
  <2>1. profile' = profile /\ job' = job
    BY <1>3, JobsKept
  <2> QED BY <1>1, <1>2, <2>1
<1>4. ASSUME NEW p \in Proc, Works(p) PROVE Snapshot(f)' \in archived'
  <2>1. CASE q # p
    <3>1. job'[q] = job[q]
      BY <1>4, <2>1, OthersStay
    <3>2. f \in Profiles
      BY <1>2, <3>1
    <3>3. profile'[f].text = profile[f].text
      BY <1>4, <3>1, <3>2, TextStays
    <3> QED BY <1>1, <3>1, <3>2, <3>3
  <2>2. CASE q = p
    <3>1. /\ job'[p].file = job[p].file /\ f \in Profiles /\ profile' = profile
          /\ archived' = archived \cup Snapshots(f)
      BY <1>4, <2>2, ComesToAppend
    <3>2. Exists(f)
      BY <2>2, <3>1, NamesAssumption DEF Exists
    <3>3. Snapshot(f)' = Snapshot(f)
      BY <2>2, <3>1 DEF Snapshot
    <3> QED BY <3>1, <3>2, <3>3 DEF Snapshots
  <2> QED BY <2>1, <2>2
<1> QED BY <1>3, <1>4, NextSteps

LEMMA SnapAlways == Spec => []SnapInv
<1>1. Init => SnapInv
  BY DEF Init, Idle, SnapInv
<1> QED BY <1>1, SnapStep, TypeAlways, PTL DEF Spec

\* What an install does to a profile it has just seen.
Extended(f) ==
    /\ profile'[f].text = TextBefore(f)
    /\ profile[f].text \in 0..MaxEvents => \E p \in Proc :
           /\ Extending(p, f)
           /\ job[p].touched \/ Snapshot(f) \in archived

LEMMA KeptStep ==
    ASSUME TypeInv, SnapInv, [Next]_vars, NEW f \in Profiles,
           profile'[f] # profile[f], NEW w \in Proc, job'[w].pc # job[w].pc
    PROVE  Extended(f)
<1>0. profile \in [Profiles -> Profile]
  BY DEF TypeInv, TypeOK
<1>1. PICK p \in Proc : Works(p)
  BY JobsKept, NextSteps
<1>2. profile'[f].text = TextBefore(f)
  BY <1>1, TextStays
<1>3. AppendBlock(p) \/ CutBlock(p)
  BY <1>1 DEF Works, Install, Begin, FindRuntime, CopyRuntime, RenameRuntime,
     TruncateLoader, WriteLoader, TestProfile, BackupProfile, Stop, files
<1>4. job[p].pc = "append"
  BY <1>3 DEF AppendBlock, CutBlock, At
<1>5. job[p].file = f
  <2>1. \E r : profile' = [profile EXCEPT ![job[p].file] = r]
    <3>1. CASE AppendBlock(p)
      BY <3>1 DEF AppendBlock
    <3>2. CASE CutBlock(p)
      BY <3>2 DEF CutBlock
    <3> QED BY <1>3, <3>1, <3>2
  <2> QED BY <1>0, <2>1
<1>6. Extending(p, f)
  BY <1>4, <1>5 DEF Extending
<1>7. profile[f].text \in 0..MaxEvents => job[p].touched \/ Snapshot(f) \in archived
  BY <1>4, <1>5 DEF SnapInv
<1> QED BY <1>2, <1>6, <1>7 DEF Extended

\* Installs leave the user's part of a profile as it is, and archive it before
\* they extend it.
THEOREM ProfilesKept == Spec => ProfileKept
<1> DEFINE Kept == \A f \in Profiles :
              profile'[f] # profile[f] /\ (\E p \in Proc : job'[p].pc # job[p].pc) =>
                 Extended(f)
<1>1. TypeInv /\ SnapInv /\ [Next]_vars => [Kept]_vars
  BY KeptStep
<1> QED BY <1>1, TypeAlways, SnapAlways, PTL DEF Spec, ProfileKept, Extended

-----------------------------------------------------------------------------
(* What a finished install has reached.                                    *)

ProfileItems == {".profile", "login"} \cup Rc

\* What an item of the plan is there for, however often it is done again.
Served(x) ==
    IF x \in Loaders THEN loader[x] # Absent
    ELSE IF x = "login" THEN LoginFile # NoFile => HasMarker(LoginFile)
    ELSE HasMarker(x)

\* A loader that holds nothing is being written, or its writer stopped.
LoaderInv ==
    \A l \in Loaders : loader[l] = Empty =>
        torn[l] \/ \E q \in Proc : At(q, "write") /\ Item(q) = l

\* An install extends the profile its item is for; where that is another one
\* by now (a login file an overlapping install created), it has the block.
Aimed(p) ==
    job[p].pc \in {"backup", "append"} =>
        /\ Item(p) \in ProfileItems
        /\ \/ job[p].touched
           \/ job[p].file = Candidate(p)
           \/ Candidate(p) \in Profiles /\ HasMarker(Candidate(p))

\* Nothing that installs do takes back what an install has behind it.
ReachInv ==
    /\ LoaderInv
    /\ \A p \in Proc :
          /\ Aimed(p)
          /\ job[p].pc # "idle" /\ ~job[p].touched =>
                \A i \in 1 .. job[p].item - 1 : Served(Plan[i])

LEMMA ItemNames ==
    /\ ProfileItems \cap Loaders = {} /\ NoFile \notin ProfileItems
    /\ ProfileItems \ {"login"} \subseteq Profiles
    /\ {".bash_profile", ".bash_login"} \subseteq Profiles /\ "login" \notin Rc
BY RcNames, NoFileIsNone DEF ProfileItems, Loaders, Profiles, NoFile

LEMMA Joined ==
    ASSUME NEW S, NEW s \in Seq(S), NEW t \in Seq(S)
    PROVE  /\ s \o t \in Seq(S) /\ Len(s \o t) = Len(s) + Len(t)
           /\ \A i \in 1 .. Len(s) : (s \o t)[i] = s[i]
           /\ \A i \in 1 .. Len(t) : (s \o t)[Len(s) + i] = t[i]
<1>1. s \o t \in Seq(S) /\ Len(s \o t) = Len(s) + Len(t)
  BY ConcatProperties
<1>2. \A i \in 1 .. Len(s) : (s \o t)[i] = s[i]
  OBVIOUS
<1>3. \A i \in 1 .. Len(t) : (s \o t)[Len(s) + i] = t[i]
  OBVIOUS
<1> QED BY <1>1, <1>2, <1>3

\* The fish loader is the last item, and everything else is before it.
LEMMA PlanPlaces ==
    /\ Plan[Len(Plan)] = "envman.fish"
    /\ \A x \in {"load-env.sh"} \cup ProfileItems :
          \E i \in 1 .. Len(Plan) - 1 : Plan[i] = x
<1> DEFINE head == <<"load-env.sh", ".profile", "login">>
           last == <<"envman.fish">>
           S == Loaders \cup ProfileItems
<1>1. /\ head \in Seq(S) /\ Len(head) = 3
      /\ head[1] = "load-env.sh" /\ head[2] = ".profile" /\ head[3] = "login"
  BY DEF Loaders, ProfileItems
<1>2. last \in Seq(S) /\ Len(last) = 1 /\ last[1] = "envman.fish"
  BY DEF Loaders
<1>3. RcFiles \in Seq(S) /\ Len(RcFiles) \in Nat
  <2>1. RcFiles \in Seq(Rc)
    BY ProfilesAssumption DEF Rc
  <2> QED BY <2>1 DEF ProfileItems
<1>4. Plan = (head \o RcFiles) \o last
  BY DEF Plan
<1>5. \A x \in Rc : \E i \in 1 .. Len(RcFiles) : RcFiles[i] = x
  BY <1>3 DEF Rc
<1> HIDE DEF head, last, S
<1>6. /\ head \o RcFiles \in Seq(S) /\ Len(head \o RcFiles) = 3 + Len(RcFiles)
      /\ \A i \in 1 .. 3 : (head \o RcFiles)[i] = head[i]
      /\ \A i \in 1 .. Len(RcFiles) : (head \o RcFiles)[3 + i] = RcFiles[i]
  BY <1>1, <1>3, Joined
<1>7. /\ Len(Plan) = 4 + Len(RcFiles)
      /\ \A i \in 1 .. 3 + Len(RcFiles) : Plan[i] = (head \o RcFiles)[i]
      /\ Plan[4 + Len(RcFiles)] = last[1]
  <2> DEFINE most == head \o RcFiles
  <2>0. Plan = most \o last /\ most \in Seq(S) /\ last \in Seq(S) /\ Len(most) = 3 + Len(RcFiles)
    BY <1>2, <1>4, <1>6
  <2> HIDE DEF most
  <2>1. /\ Len(Plan) = Len(most) + Len(last)
        /\ \A i \in 1 .. Len(most) : Plan[i] = most[i]
        /\ \A i \in 1 .. Len(last) : Plan[Len(most) + i] = last[i]
    <3>1. /\ Len(most \o last) = Len(most) + Len(last)
          /\ \A i \in 1 .. Len(most) : (most \o last)[i] = most[i]
          /\ \A i \in 1 .. Len(last) : (most \o last)[Len(most) + i] = last[i]
      <4>1. most \in Seq(S) /\ last \in Seq(S)
        BY <2>0
      <4> QED BY <4>1, Joined
    <3> QED BY <2>0, <3>1, Zenon
  <2>2. 1 \in 1 .. Len(last) /\ (3 + Len(RcFiles)) + 1 = 4 + Len(RcFiles)
    BY <1>2, <1>3
  <2>3. Plan[4 + Len(RcFiles)] = last[1]
    BY <2>0, <2>1, <2>2
  <2> QED BY <1>2, <1>3, <2>0, <2>1, <2>3 DEF most
<1>8. /\ Plan[1] = "load-env.sh" /\ Plan[2] = ".profile" /\ Plan[3] = "login"
      /\ \A i \in 1 .. Len(RcFiles) : Plan[3 + i] = RcFiles[i]
  BY <1>1, <1>3, <1>6, <1>7
<1>9. /\ {1, 2, 3} \subseteq 1 .. Len(Plan) - 1
      /\ \A i \in 1 .. Len(RcFiles) : 3 + i \in 1 .. Len(Plan) - 1
  BY <1>3, <1>7
<1>10. \A x \in Rc : \E i \in 1 .. Len(Plan) - 1 : Plan[i] = x
  BY <1>5, <1>8, <1>9
<1> QED BY <1>2, <1>7, <1>8, <1>9, <1>10 DEF ProfileItems

\* Installs add nothing to a profile but envman's block.
OnlyMarks == \A f \in Profiles : profile'[f] = profile[f] \/ (Exists(f) /\ HasMarker(f))'

LEMMA AppendMarks ==
    ASSUME TypeInv, NEW p \in Proc, AppendBlock(p) \/ CutBlock(p),
           NEW f, f = job[p].file
    PROVE  OnlyMarks /\ f \in Profiles /\ HasMarker(f)'
<1> DEFINE whole == [text |-> TextBefore(f), blocks |-> profile[f].blocks + 1,
                     cut |-> profile[f].cut]
           part == [profile[f] EXCEPT !.text = TextBefore(f), !.cut = TRUE]
<1>1. f \in Profiles /\ profile \in [Profiles -> Profile] /\ profile[f] \in Profile
  BY DEF AppendBlock, CutBlock, At, TypeInv, TypeOK, JobOK
<1>2. TextBefore(f) # Absent
  BY NamesAssumption DEF TextBefore, Exists
<1>3. /\ whole.text # Absent /\ whole.blocks > 0
      /\ part.text # Absent /\ part.cut
  <2>1. profile[f].blocks \in Nat
    BY <1>1 DEF Profile
  <2> QED BY <1>1, <1>2, <2>1 DEF Profile
<1>4. profile' = [profile EXCEPT ![f] = whole] \/ profile' = [profile EXCEPT ![f] = part]
  BY DEF AppendBlock, CutBlock
<1> HIDE DEF whole, part
<1>5. /\ profile'[f] \in {whole, part}
      /\ \A g \in Profiles \ {f} : profile'[g] = profile[g]
  BY <1>1, <1>4
<1>6. profile'[f].text # Absent /\ (profile'[f].blocks > 0 \/ profile'[f].cut)
  BY <1>3, <1>5
<1>7. Exists(f)' /\ HasMarker(f)'
  BY <1>6 DEF Exists, HasMarker
<1> QED BY <1>1, <1>5, <1>7 DEF OnlyMarks

LEMMA WorksMarks == ASSUME TypeInv, NEW p \in Proc, Works(p) PROVE OnlyMarks
<1>1. CASE AppendBlock(p) \/ CutBlock(p)
  BY <1>1, AppendMarks
<1>2. CASE ~(AppendBlock(p) \/ CutBlock(p))
  <2>1. profile' = profile
    BY <1>2 DEF Works, Install, Begin, FindRuntime, CopyRuntime, RenameRuntime,
       TruncateLoader, WriteLoader, TestProfile, BackupProfile, Stop, files
  <2> QED BY <2>1 DEF OnlyMarks
<1> QED BY <1>1, <1>2

LEMMA MarkersStay ==
    ASSUME OnlyMarks, NEW f \in Profiles, HasMarker(f) PROVE HasMarker(f)'
BY DEF OnlyMarks, HasMarker

\* The login file stays the same, or is another one now that has the block.
LEMMA LoginStays ==
    ASSUME OnlyMarks
    PROVE  LoginFile' = LoginFile \/ (LoginFile' \in Profiles /\ HasMarker(LoginFile)')
<1>1. {".bash_profile", ".bash_login"} \subseteq Profiles
  BY ItemNames
<1>2. \A f \in Profiles : \/ Exists(f)' = Exists(f)
                          \/ Exists(f)' /\ HasMarker(f)'
  BY DEF OnlyMarks, Exists
<1>3. CASE Exists(".bash_profile")
  BY <1>1, <1>2, <1>3 DEF LoginFile, FirstExisting, OnlyMarks, Exists
<1>4. CASE ~Exists(".bash_profile") /\ Exists(".bash_profile")'
  <2>1. LoginFile' = ".bash_profile"
    BY <1>4 DEF LoginFile, FirstExisting
  <2> QED BY <1>1, <1>2, <1>4, <2>1
<1>5. CASE ~Exists(".bash_profile") /\ ~Exists(".bash_profile")'
  <2>1. /\ LoginFile = IF Exists(".bash_login") THEN ".bash_login" ELSE NoFile
        /\ LoginFile' = IF Exists(".bash_login")' THEN ".bash_login" ELSE NoFile
    BY <1>5 DEF LoginFile, FirstExisting
  <2>2. CASE Exists(".bash_login")' = Exists(".bash_login")
    BY <2>1, <2>2
  <2>3. CASE Exists(".bash_login")' /\ HasMarker(".bash_login")'
    <3>1. LoginFile' = ".bash_login"
      BY <2>1, <2>3
    <3> QED BY <1>1, <2>3, <3>1
  <2> QED BY <1>1, <1>2, <2>2, <2>3
<1> QED BY <1>3, <1>4, <1>5

LEMMA LoginFileType == LoginFile \in Profiles \cup {NoFile}
BY ItemNames DEF LoginFile, FirstExisting

LEMMA LoadersStay ==
    ASSUME TypeInv, [Next]_vars, NEW l \in Loaders, loader[l] # Absent
    PROVE  loader'[l] # Absent
<1>1. loader \in [Loaders -> Release \cup {Absent, Empty}]
  BY DEF TypeInv, TypeOK
<1>2. ASSUME NEW p \in Proc, WriteLoader(p) PROVE loader'[l] # Absent
  <2>1. job[p].rel \in Release /\ loader' = [loader EXCEPT ![Item(p)] = job[p].rel]
    BY <1>2 DEF WriteLoader, At, TypeInv, JobOK
  <2> QED BY <1>1, <2>1, NamesAssumption
<1>3. ASSUME NEW p \in Proc, TruncateLoader(p) PROVE loader'[l] # Absent
  BY <1>1, <1>3, NamesAssumption DEF TruncateLoader
<1> QED BY <1>2, <1>3 DEF Next, Install, Begin, FindRuntime, CopyRuntime, RenameRuntime,
            TestProfile, BackupProfile, AppendBlock, CutBlock, Stop, ChangeTool,
            EditProfile, UserProfile, StartShell, RunDecryptor, files, vars

LEMMA ServedStays ==
    ASSUME TypeInv, [Next]_vars, OnlyMarks, NEW x \in Loaders \cup ProfileItems, Served(x)
    PROVE  Served(x)'
<1>1. CASE x \in Loaders
  BY <1>1, LoadersStay DEF Served
<1>2. CASE x \in ProfileItems \ {"login"}
  BY <1>2, ItemNames, MarkersStay DEF Served
<1>3. CASE x = "login"
  <2>1. x \notin Loaders
    BY <1>3, ItemNames DEF ProfileItems
  <2>2. LoginFile # NoFile => HasMarker(LoginFile) /\ LoginFile \in Profiles
    BY <1>3, <2>1, LoginFileType DEF Served
  <2>3. LoginFile' # NoFile => HasMarker(LoginFile)'
    <3>1. CASE LoginFile' = LoginFile
      <4>1. \A f \in Profiles : HasMarker(f) => HasMarker(f)'
        BY MarkersStay
      <4>2. HasMarker(LoginFile)' = (profile'[LoginFile'].blocks > 0 \/ profile'[LoginFile'].cut)
        BY DEF HasMarker
      <4> QED BY <2>2, <3>1, <4>1, <4>2 DEF HasMarker
    <3> QED BY <3>1, LoginStays
  <2> QED BY <1>3, <2>1, <2>3 DEF Served
<1> QED BY <1>1, <1>2, <1>3

\* The profile an item is for stays the same, or is another one with the block.
LEMMA CandidateStays ==
    ASSUME OnlyMarks, NEW p, Item(p) \in ProfileItems, Item(p)' = Item(p)
    PROVE  \/ Candidate(p)' = Candidate(p)
           \/ Candidate(p)' \in Profiles /\ HasMarker(Candidate(p))'
<1>1. CASE Item(p) # "login"
  BY <1>1 DEF Candidate
<1>2. CASE Item(p) = "login"
  <2>1. Candidate(p) = LoginFile /\ Candidate(p)' = LoginFile'
    BY <1>2 DEF Candidate
  <2> QED BY <2>1, LoginStays DEF HasMarker
<1> QED BY <1>1, <1>2

\* The steps of one install.
LEMMA JobSteps ==
    ASSUME TypeInv, NEW p \in Proc, Works(p)
    PROVE  \/ Begin(p) /\ job'[p].item = 1 /\ ~job'[p].done /\ job'[p].pc \in {"runtime", "test"}
           \/ StopJob(p) /\ job'[p].pc = "idle" /\ ~job'[p].done
           \/ Advance(p) /\ (WriteLoader(p) \/ TestProfile(p) \/ AppendBlock(p))
           \/ /\ job[p].pc # "idle"
              /\ job'[p].item = job[p].item /\ job'[p].touched = job[p].touched
              /\ job'[p].done = job[p].done
              /\ \/ FindRuntime(p) /\ job'[p].pc \in {"truncate", "copy"}
                 \/ CopyRuntime(p) /\ job'[p].pc = "rename"
                 \/ RenameRuntime(p) /\ job'[p].pc = "truncate"
                 \/ TruncateLoader(p) /\ job'[p].pc = "write"
                 \/ TestProfile(p) /\ job'[p].pc = "backup" /\ job'[p].file = Candidate(p)
                 \/ BackupProfile(p) /\ job'[p].pc = "append" /\ job'[p].file = job[p].file
<1>0. job \in [Proc -> Job] /\ job[p] \in Job
  BY DEF TypeInv, TypeOK
<1>1. CASE Begin(p)
  <2> DEFINE first == [Idle EXCEPT !.pc = FirstPC(Plan[1])]
  <2>1. first.item = 1 /\ ~first.done /\ first.pc \in {"runtime", "test"}
    BY DEF Idle, FirstPC
  <2>2. job' = [job EXCEPT ![p] = first]
    BY <1>1 DEF Begin
  <2> HIDE DEF first
  <2>3. job'[p] = first
    BY <1>0, <2>2
  <2> QED BY <1>1, <2>1, <2>3
<1>2. CASE StopJob(p)
  BY <1>2, Stopped DEF Idle
<1>3. CASE Advance(p) /\ (WriteLoader(p) \/ TestProfile(p) \/ AppendBlock(p))
  BY <1>3
<1>4. ASSUME NEW c, GoTo(p, c)
      PROVE  /\ job'[p].pc = c /\ job'[p].item = job[p].item /\ job'[p].file = job[p].file
             /\ job'[p].touched = job[p].touched /\ job'[p].done = job[p].done
  BY <1>0, <1>4 DEF GoTo, Job
<1>5. CASE CopyRuntime(p) /\ ~StopJob(p)
  BY <1>4, <1>5 DEF CopyRuntime, At
<1>6. CASE RenameRuntime(p) \/ TruncateLoader(p)
  BY <1>4, <1>6 DEF RenameRuntime, TruncateLoader, At
<1>7. CASE BackupProfile(p) /\ ~StopJob(p)
  BY <1>4, <1>7 DEF BackupProfile, At
<1>8. CASE FindRuntime(p) /\ ~StopJob(p)
  <2>1. \E c \in {"truncate", "copy"} : \E r : job' = [job EXCEPT ![p].pc = c, ![p].rel = r]
    BY <1>8 DEF FindRuntime, FilledFirst
  <2>2. /\ job'[p].pc \in {"truncate", "copy"} /\ job'[p].item = job[p].item
        /\ job'[p].touched = job[p].touched /\ job'[p].done = job[p].done
    BY <1>0, <2>1 DEF Job
  <2> QED BY <1>8, <2>2 DEF FindRuntime, At
<1>9. CASE TestProfile(p) /\ ~StopJob(p) /\ ~Advance(p)
  <2>1. job' = [job EXCEPT ![p].pc = "backup", ![p].file = Candidate(p)]
    BY <1>9 DEF TestProfile
  <2>2. /\ job'[p].pc = "backup" /\ job'[p].item = job[p].item /\ job'[p].file = Candidate(p)
        /\ job'[p].touched = job[p].touched /\ job'[p].done = job[p].done
    BY <1>0, <2>1 DEF Job
  <2> QED BY <1>9, <2>2 DEF TestProfile, At
<1> QED BY <1>1, <1>2, <1>3, <1>5, <1>6, <1>7, <1>8, <1>9
        DEF Works, Install, WriteLoader, AppendBlock, CutBlock, Stop

LEMMA AdvancedItem ==
    ASSUME TypeInv, NEW p \in Proc, Advance(p)
    PROVE  \/ job[p].item = Len(Plan) /\ job'[p].pc = "idle"
           \/ /\ job[p].item < Len(Plan) /\ job'[p].item = job[p].item + 1
              /\ job'[p].pc \in {"runtime", "test"}
              /\ job'[p].touched = job[p].touched /\ job'[p].done = job[p].done
<1> DEFINE i == job[p].item + 1
           done == [Idle EXCEPT !.done = TRUE]
           next == [job[p] EXCEPT !.item = i, !.pc = FirstPC(Plan[i]),
                                  !.rel = NoRelease, !.file = NoFile]
<1>1. job \in [Proc -> Job] /\ job[p] \in Job /\ job[p].item \in 1 .. Len(Plan)
  BY DEF TypeInv, TypeOK, Job
<1>2. job' = [job EXCEPT ![p] = IF job[p].item = Len(Plan) THEN done ELSE next]
  BY DEF Advance
<1>3. done.pc = "idle"
  BY DEF Idle
<1>4. /\ next.item = i /\ next.pc \in {"runtime", "test"}
      /\ next.touched = job[p].touched /\ next.done = job[p].done
  BY <1>1 DEF Job, FirstPC
<1> HIDE DEF done, next
<1>5. job'[p] = IF job[p].item = Len(Plan) THEN done ELSE next
  BY <1>1, <1>2
<1>6. Len(Plan) \in Nat
  BY PlanItems
<1> QED BY <1>1, <1>3, <1>4, <1>5, <1>6

LEMMA LoaderStep ==
    ASSUME TypeInv, LoaderInv, [Next]_vars
    PROVE  LoaderInv'
<1> SUFFICES ASSUME NEW l \in Loaders, loader'[l] = Empty
             PROVE  torn'[l] \/ \E q \in Proc : At(q, "write")' /\ Item(q)' = l
  BY DEF LoaderInv
<1>0. /\ loader \in [Loaders -> Release \cup {Absent, Empty}]
      /\ torn \in [Loaders -> BOOLEAN] /\ job \in [Proc -> Job]
  BY DEF TypeInv, TypeOK
<1>1. ASSUME NEW p \in Proc, WriteLoader(p)
      PROVE  loader'[l] = loader[l] /\ torn'[l] = torn[l] /\ Item(p) # l
  <2>1. /\ job[p].rel \in Release /\ loader' = [loader EXCEPT ![Item(p)] = job[p].rel]
        /\ torn' = [torn EXCEPT ![Item(p)] = FALSE]
    BY <1>1 DEF WriteLoader, At, TypeInv, JobOK
  <2>2. Item(p) # l
    BY <1>0, <2>1, NamesAssumption
  <2> QED BY <1>0, <2>1, <2>2
<1>2. ASSUME NEW p \in Proc, TruncateLoader(p), Item(p) = l
      PROVE  At(p, "write")' /\ Item(p)' = l
  <2>1. job'[p].pc = "write" /\ job'[p].item = job[p].item
    BY <1>0, <1>2 DEF TruncateLoader, GoTo, Job
  <2> QED BY <1>2, <2>1 DEF At, Item
<1>3. CASE \A p \in Proc : ~(TruncateLoader(p) /\ Item(p) = l)
  <2>1. loader'[l] = loader[l] /\ (torn[l] => torn'[l])
    <3>1. ASSUME NEW p \in Proc, TruncateLoader(p) PROVE loader'[l] = loader[l] /\ torn' = torn
      BY <1>0, <1>3, <3>1 DEF TruncateLoader
    <3>2. ASSUME NEW p \in Proc, StopJob(p) PROVE torn[l] => torn'[l]
      BY <3>2 DEF StopJob
    <3> QED BY <1>1, <3>1, <3>2 DEF Next, Install, Begin, FindRuntime, CopyRuntime, RenameRuntime,
            TestProfile, BackupProfile, AppendBlock, CutBlock, Stop, ChangeTool,
            EditProfile, UserProfile, StartShell, RunDecryptor, files, vars
  <2>2. ASSUME NEW q \in Proc, At(q, "write"), Item(q) = l
        PROVE  torn'[l] \/ (At(q, "write")' /\ Item(q)' = l)
    <3>1. CASE Surroundings \/ UNCHANGED vars
      BY <2>2, <3>1, JobsKept DEF At, Item
    <3>2. ASSUME NEW p \in Proc, Works(p), p # q PROVE At(q, "write")' /\ Item(q)' = l
      BY <2>2, <3>2, OthersStay DEF At, Item
    <3>3. CASE Works(q)
      <4>1. CASE StopJob(q)
        BY <2>2, <4>1 DEF StopJob
      <4>2. ~WriteLoader(q)
        BY <1>1, <2>2
      <4> QED BY <2>2, <3>3, <4>1, <4>2 DEF Works, Install, Begin, FindRuntime, CopyRuntime,
                 RenameRuntime, TruncateLoader, TestProfile, BackupProfile, AppendBlock,
                 CutBlock, Stop, At
    <3> QED BY <3>1, <3>2, <3>3, NextSteps
  <2> QED BY <2>1, <2>2 DEF LoaderInv
<1> QED BY <1>2, <1>3

\* A profile an install is about to extend, after a step that moved nothing.
LEMMA AimStays ==
    ASSUME TypeInv, OnlyMarks, NEW q \in Proc, Aimed(q),
           job'[q].pc = job[q].pc, job'[q].item = job[q].item, job'[q].file = job[q].file,
           job'[q].touched = job[q].touched
    PROVE  Aimed(q)'
<1> SUFFICES ASSUME job[q].pc \in {"backup", "append"} PROVE Aimed(q)'
  BY DEF Aimed
<1>1. Item(q) \in ProfileItems /\ Item(q)' = Item(q)
  BY DEF Aimed, Item
<1>2. \/ Candidate(q)' = Candidate(q)
      \/ Candidate(q)' \in Profiles /\ HasMarker(Candidate(q))'
  BY <1>1, CandidateStays
<1>3. ASSUME Candidate(q) \in Profiles, HasMarker(Candidate(q)), Candidate(q)' = Candidate(q)
      PROVE  HasMarker(Candidate(q))'
  <2>1. \A f \in Profiles : HasMarker(f) => HasMarker(f)'
    BY MarkersStay
  <2> QED BY <1>3, <2>1 DEF HasMarker
<1> QED BY <1>1, <1>2, <1>3 DEF Aimed

\* The item an install goes on from has been served.
LEMMA ItemServed ==
    ASSUME TypeInv, [Next]_vars, NEW p \in Proc, Aimed(p), ~job[p].touched, Advance(p),
           WriteLoader(p) \/ TestProfile(p) \/ AppendBlock(p),
           NEW x, x = Item(p)
    PROVE  Served(x)' /\ x \in Loaders \cup ProfileItems
<1>0. OnlyMarks
  BY WorksMarks DEF Works, Install
<1>1. CASE WriteLoader(p)
  <2>1. /\ job[p].rel \in Release /\ x \in Loaders
        /\ loader' = [loader EXCEPT ![x] = job[p].rel]
    BY <1>1 DEF WriteLoader, At, Item, TypeInv, JobOK
  <2>2. loader'[x] \in Release
    BY <2>1 DEF TypeInv, TypeOK
  <2> QED BY <2>1, <2>2, NamesAssumption DEF Served
<1>2. CASE TestProfile(p)
  <2>1. x \in ProfileItems
    BY <1>2 DEF TestProfile, At, Item, TypeInv, JobOK, ProfileItems
  <2>2. Candidate(p) # NoFile => HasMarker(Candidate(p))
    <3>1. job'[p].pc \in {"idle", "runtime", "test"}
      BY Advanced
    <3>2. ASSUME StopJob(p) PROVE FALSE
      <4>1. job'[p] = Idle
        BY <3>2, Stopped
      <4>2. job' = [job EXCEPT ![p] = IF job[p].item = Len(Plan) THEN [Idle EXCEPT !.done = TRUE]
              ELSE [job[p] EXCEPT !.item = job[p].item + 1, !.pc = FirstPC(Plan[job[p].item + 1]),
                                  !.rel = NoRelease, !.file = NoFile]]
        BY DEF Advance
      <4>3. [Idle EXCEPT !.done = TRUE].done
        BY DEF Idle
      <4>4. job[p].item # Len(Plan)
        BY <4>1, <4>2, <4>3 DEF TypeInv, TypeOK, Idle
      <4>5. job'[p].pc \in {"runtime", "test"}
        BY <4>4, AdvancedItem
      <4> QED BY <4>1, <4>5 DEF Idle
    <3>3. ASSUME job' = [job EXCEPT ![p].pc = "backup", ![p].file = Candidate(p)] PROVE FALSE
      BY <3>1, <3>3 DEF TypeInv, TypeOK, Job
    <3> QED BY <1>2, <3>2, <3>3 DEF TestProfile, WithoutMarker
  <2>3. Served(x)
    <3>1. CASE x = "login"
      BY <2>2, <3>1, ItemNames DEF Candidate, Served, ProfileItems
    <3>2. CASE x # "login"
      BY <2>1, <2>2, <3>2, ItemNames DEF Candidate, Served
    <3> QED BY <3>1, <3>2
  <2> QED BY <1>0, <2>1, <2>3, ServedStays
<1>3. CASE AppendBlock(p)
  <2>1. PICK f : f = job[p].file
    OBVIOUS
  <2>2. f \in Profiles /\ HasMarker(f)'
    BY <1>3, <2>1, AppendMarks
  <2>3. /\ x \in ProfileItems
        /\ f = Candidate(p) \/ (Candidate(p) \in Profiles /\ HasMarker(Candidate(p)))
    BY <1>3, <2>1 DEF AppendBlock, At, Aimed
  <2>4. CASE Candidate(p) \in Profiles /\ HasMarker(Candidate(p))
    <3>1. Served(x)
      BY <2>3, <2>4, ItemNames DEF Candidate, Served
    <3> QED BY <1>0, <2>3, <3>1, ServedStays
  <2>5. CASE f = Candidate(p) /\ x # "login"
    BY <2>2, <2>3, <2>5, ItemNames DEF Candidate, Served
  <2>6. CASE f = Candidate(p) /\ x = "login"
    <3>1. f = LoginFile /\ x \notin Loaders
      BY <2>6, ItemNames DEF Candidate, ProfileItems
    <3>2. HasMarker(LoginFile)'
      <4>1. CASE LoginFile' = LoginFile
        BY <2>2, <3>1, <4>1 DEF HasMarker
      <4> QED BY <1>0, <4>1, LoginStays
    <3> QED BY <2>3, <2>6, <3>1, <3>2 DEF Served
  <2> QED BY <2>3, <2>4, <2>5, <2>6
<1> QED BY <1>1, <1>2, <1>3

LEMMA ReachStep == TypeInv /\ ReachInv /\ [Next]_vars => ReachInv'
<1> SUFFICES ASSUME TypeInv, ReachInv, [Next]_vars PROVE ReachInv'
  OBVIOUS
<1>0. \A p \in Proc : /\ job[p] \in Job /\ job[p].item \in 1 .. Len(Plan)
                      /\ Aimed(p)
  BY DEF TypeInv, TypeOK, Job, ReachInv
<1>1. LoaderInv'
  BY LoaderStep DEF ReachInv
<1>2. ASSUME NEW q \in Proc, OnlyMarks,
             job'[q].pc = job[q].pc, job'[q].item = job[q].item, job'[q].file = job[q].file,
             job'[q].touched = job[q].touched
      PROVE  Aimed(q)'
  BY <1>0, <1>2, AimStays
<1>3. ASSUME NEW q \in Proc, OnlyMarks, job[q].pc # "idle", ~job[q].touched,
             NEW i \in 1 .. job[q].item - 1
      PROVE  Served(Plan[i])'
  <2>1. i \in 1 .. Len(Plan) /\ Served(Plan[i])
    BY <1>0, <1>3, PlanItems DEF ReachInv
  <2>2. Plan[i] \in Loaders \cup ProfileItems
    BY <2>1, PlanItems DEF ProfileItems
  <2>3. ASSUME NEW x \in Loaders \cup ProfileItems, Served(x) PROVE Served(x)'
    BY <1>3, <2>3, ServedStays
  <2> QED BY <2>1, <2>2, <2>3
<1>4. ASSUME NEW q \in Proc
      PROVE  /\ Aimed(q)'
             /\ job'[q].pc # "idle" /\ ~job'[q].touched =>
                   \A i \in 1 .. job'[q].item - 1 : Served(Plan[i])'
  <2>1. CASE Surroundings \/ UNCHANGED vars
    <3>1. CASE profile' = profile /\ job' = job
      <4>1. OnlyMarks
        BY <3>1 DEF OnlyMarks
      <4> QED BY <1>2, <1>3, <3>1, <4>1
    <3>2. CASE ~(profile' = profile /\ job' = job)
      <4>1. /\ job'[q].pc = job[q].pc /\ job'[q].item = job[q].item
            /\ job[q].pc # "idle" => job'[q].touched
        BY <2>1, <3>2, JobsKept
      <4>2. Item(q)' = Item(q)
        BY <4>1 DEF Item
      <4> QED BY <1>0, <4>1, <4>2 DEF Aimed
    <3> QED BY <3>1, <3>2
  <2>2. ASSUME NEW p \in Proc, Works(p), p # q
        PROVE  /\ Aimed(q)'
               /\ job'[q].pc # "idle" /\ ~job'[q].touched =>
                     \A i \in 1 .. job'[q].item - 1 : Served(Plan[i])'
    <3>1. OnlyMarks /\ job'[q] = job[q]
      BY <2>2, WorksMarks, OthersStay
    <3> QED BY <1>2, <1>3, <3>1
  <2>3. ASSUME Works(q)
        PROVE  /\ Aimed(q)'
               /\ job'[q].pc # "idle" /\ ~job'[q].touched =>
                     \A i \in 1 .. job'[q].item - 1 : Served(Plan[i])'
    <3>0. OnlyMarks
      BY <2>3, WorksMarks
    <3>1. CASE job'[q].item = 1 /\ job'[q].pc \in {"runtime", "test"}
      BY <3>1 DEF Aimed
    <3>2. CASE job'[q].pc = "idle"
      BY <3>2 DEF Aimed
    <3>3. CASE Advance(q) /\ (WriteLoader(q) \/ TestProfile(q) \/ AppendBlock(q))
      <4>1. CASE job'[q].pc = "idle"
        BY <4>1, <3>2
      <4>2. CASE job'[q].pc # "idle"
        <5>1. /\ job'[q].item = job[q].item + 1 /\ job'[q].touched = job[q].touched
              /\ job'[q].pc \in {"runtime", "test"}
          BY <3>3, <4>2, AdvancedItem
        <5>2. job[q].pc # "idle"
          BY <3>3 DEF WriteLoader, TestProfile, AppendBlock, At
        <5>3. ASSUME ~job[q].touched, NEW i \in 1 .. job[q].item
              PROVE  Served(Plan[i])'
          <6>1. CASE i = job[q].item
            <7>1. PICK x : x = Plan[i]
              OBVIOUS
            <7>2. x = Item(q)
              BY <6>1, <7>1 DEF Item
            <7>3. Served(x)'
              BY <1>0, <3>3, <5>3, <7>2, ItemServed
            <7> QED BY <7>1, <7>3
          <6>2. CASE i # job[q].item
            <7>1. i \in 1 .. job[q].item - 1
              BY <1>0, <5>3, <6>2, PlanItems
            <7> QED BY <1>3, <3>0, <5>2, <5>3, <7>1
          <6> QED BY <6>1, <6>2
        <5>4. job'[q].item - 1 = job[q].item
          BY <1>0, <5>1, PlanItems
        <5> QED BY <5>1, <5>2, <5>3, <5>4 DEF Aimed
      <4> QED BY <4>1, <4>2
    <3>4. CASE /\ job[q].pc # "idle"
               /\ job'[q].item = job[q].item /\ job'[q].touched = job[q].touched
               /\ \/ job'[q].pc \in {"truncate", "copy", "rename", "write"}
                  \/ TestProfile(q) /\ job'[q].pc = "backup" /\ job'[q].file = Candidate(q)
                  \/ BackupProfile(q) /\ job'[q].pc = "append" /\ job'[q].file = job[q].file
      <4>1. Aimed(q)'
        <5>1. Item(q)' = Item(q)
          BY <3>4 DEF Item
        <5>2. CASE TestProfile(q) /\ job'[q].file = Candidate(q)
          <6>1. Item(q) \in ProfileItems
            BY <5>2 DEF TestProfile, At, Item, TypeInv, JobOK, ProfileItems
          <6>2. Candidate(q)' = Candidate(q)
            BY <5>1, <5>2 DEF TestProfile, Candidate, LoginFile, FirstExisting, Exists
          <6> QED BY <5>1, <5>2, <6>1, <6>2 DEF Aimed
        <5>3. CASE BackupProfile(q) /\ job'[q].file = job[q].file
          <6>1. Candidate(q)' = Candidate(q)
            BY <5>1, <5>3 DEF BackupProfile, Candidate, LoginFile, FirstExisting, Exists
          <6>2. profile' = profile /\ job[q].pc = "backup"
            BY <5>3 DEF BackupProfile, At
          <6> QED BY <1>0, <3>4, <5>1, <5>3, <6>1, <6>2 DEF Aimed, HasMarker
        <5> QED BY <3>4, <5>2, <5>3 DEF Aimed
      <4> QED BY <1>3, <3>0, <3>4, <4>1
    <3> QED BY <2>3, <3>1, <3>2, <3>3, <3>4, JobSteps
  <2> QED BY <2>1, <2>2, <2>3, NextSteps
<1> QED BY <1>1, <1>4 DEF ReachInv

\* An install that comes to its end has just written the fish loader.
LEMMA LastStep ==
    ASSUME TypeInv, ReachInv, [Next]_vars, NEW p \in Proc, job'[p].done, ~job[p].done
    PROVE  WriteLoader(p) /\ job[p].item = Len(Plan) /\ Item(p) = "envman.fish"
<1>1. ~(Surroundings \/ UNCHANGED vars)
  <2>1. ASSUME Surroundings \/ UNCHANGED vars PROVE job' = job \/ \E f, new : UserProfile(f, new)
    BY <2>1 DEF Surroundings, ChangeTool, EditProfile, StartShell, RunDecryptor, vars, files
  <2>2. ASSUME NEW f, NEW new, UserProfile(f, new) PROVE job'[p].done = job[p].done
    <3>1. job'[p] = [job[p] EXCEPT !.touched = ~At(p, "idle")] /\ job[p] \in Job
      BY <2>2 DEF UserProfile, TypeInv, TypeOK
    <3> QED BY <3>1 DEF Job
  <2> QED BY <2>1, <2>2
<1>2. Works(p)
  BY <1>1, NextSteps, OthersStay
<1>3. Advance(p) /\ (WriteLoader(p) \/ TestProfile(p) \/ AppendBlock(p))
  BY <1>2, JobSteps
<1>4. job[p].item = Len(Plan) /\ Item(p) = "envman.fish"
  BY <1>3, AdvancedItem, PlanPlaces DEF Item
<1>5. Item(p) \notin ProfileItems
  BY <1>4, ItemNames DEF Loaders
<1>6. ~TestProfile(p)
  BY <1>5 DEF TestProfile, At, Item, TypeInv, JobOK, ProfileItems
<1>7. ~AppendBlock(p)
  BY <1>5 DEF AppendBlock, At, ReachInv, Aimed
<1> QED BY <1>3, <1>4, <1>6, <1>7

LEMMA ReachedStep ==
    ASSUME TypeInv, ReachInv, [Next]_vars, NEW p \in Proc,
           job'[p].done, ~job[p].done, ~job[p].touched
    PROVE  Installed'
<1>1. WriteLoader(p) /\ job[p].item = Len(Plan) /\ Item(p) = "envman.fish"
  BY LastStep
<1>2. profile' = profile /\ job[p].pc # "idle"
  BY <1>1 DEF WriteLoader, At
<1>3. \A x \in {"load-env.sh"} \cup ProfileItems : Served(x)
  BY <1>1, <1>2, PlanPlaces DEF ReachInv
<1>4. ASSUME NEW l \in Loaders
      PROVE  loader'[l] \in Release \/ torn'[l] \/ \E q \in Proc : At(q, "write")' /\ Item(q)' = l
  <2>1. loader'[l] \in Release \cup {Absent, Empty}
    BY TypeStep DEF TypeInv, TypeOK
  <2>2. loader'[l] # Absent
    <3>1. CASE l = "load-env.sh"
      <4>1. loader[l] # Absent
        BY <1>3, <3>1 DEF Served
      <4> QED BY <4>1, LoadersStay
    <3>2. CASE l = "envman.fish"
      <4>1. /\ job[p].rel \in Release /\ loader' = [loader EXCEPT ![l] = job[p].rel]
        BY <1>1, <3>2 DEF WriteLoader, At, TypeInv, JobOK
      <4>2. loader'[l] = job[p].rel
        BY <4>1 DEF TypeInv, TypeOK
      <4> QED BY <4>1, <4>2, NamesAssumption
    <3> QED BY <3>1, <3>2 DEF Loaders
  <2>3. LoaderInv'
    BY LoaderStep DEF ReachInv
  <2> QED BY <2>1, <2>2, <2>3 DEF LoaderInv
<1>5. \A f \in Profiles : HasMarker(f) =>
         (profile[f].blocks > 0 /\ ~profile[f].cut) \/ profile[f].cut
  BY DEF HasMarker
<1>6. ASSUME NEW k \in ShellKind
      PROVE  Leads(k) \/ profile[StartupFile(k)].cut
  <2>1. CASE k = "fish"
    BY <2>1 DEF Leads
  <2>2. CASE k = "bash login"
    <3>1. StartupFile(k) = IF LoginFile = NoFile THEN ".profile" ELSE LoginFile
      BY <2>2, RcNames DEF StartupFile, LoginFile, FirstExisting, NoFile
    <3>2. StartupFile(k) \in Profiles /\ HasMarker(StartupFile(k))
      <4>1. HasMarker(".profile") /\ (LoginFile # NoFile => HasMarker(LoginFile))
        BY <1>3, ItemNames DEF Served, ProfileItems
      <4> QED BY <3>1, <4>1, LoginFileType DEF Profiles
    <3> QED BY <1>5, <3>2 DEF Leads
  <2>3. CASE k \in {".profile"} \cup Rc
    <3>1. StartupFile(k) = k /\ k \in Profiles /\ k \in ProfileItems \ {"login"}
      BY <2>3, RcNames, ItemNames DEF StartupFile, ProfileItems
    <3>2. HasMarker(k)
      BY <1>3, <3>1, ItemNames DEF Served
    <3> QED BY <1>5, <3>1, <3>2 DEF Leads
  <2> QED BY <2>1, <2>2, <2>3 DEF ShellKind
<1>7. ASSUME NEW k \in ShellKind PROVE (Leads(k) \/ profile[StartupFile(k)].cut)'
  BY <1>2, <1>6 DEF Leads, StartupFile, FirstExisting, Exists
<1> QED BY <1>4, <1>7 DEF Installed

\* install_loaders: once it is through, every kind of shell finds the loader,
\* however many installs overlapped or stopped, unless the user changed a
\* profile meanwhile or a block was cut short in one.
THEOREM InstallsReach == Spec => InstallReaches
<1>1. Init => ReachInv
  <2> SUFFICES ASSUME Init PROVE ReachInv
    OBVIOUS
  <2>1. LoaderInv
    BY NamesAssumption DEF Init, LoaderInv
  <2>2. \A p \in Proc : job[p].pc = "idle"
    BY DEF Init, Idle
  <2> QED BY <2>1, <2>2 DEF ReachInv, Aimed
<1>2. TypeInv /\ ReachInv /\ [Next]_vars =>
        [\A p \in Proc : job'[p].done /\ ~job[p].done /\ ~job[p].touched => Installed']_vars
  BY ReachedStep
<1> QED BY <1>1, <1>2, ReachStep, TypeAlways, PTL DEF Spec, InstallReaches

=============================================================================
