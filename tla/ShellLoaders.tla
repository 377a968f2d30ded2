---------------------------- MODULE ShellLoaders ----------------------------
(***************************************************************************)
(* What every save does before it writes the environment, and `envman      *)
(* init` does alone: EnvironmentStore.install_loaders in cli.py with       *)
(* install_retained_runtime in _retained_loader.py.  It runs without a     *)
(* lock, so several installs overlap, among shells that start, a user who  *)
(* edits profiles, and uv replacing or removing the tool.                  *)
(*                                                                         *)
(* A release stands for the decryptor it retains; a profile is the user's  *)
(* text, known by the number of the edit that made it, and the blocks      *)
(* envman appended to it.                                                  *)
(***************************************************************************)
EXTENDS Naturals, Sequences

CONSTANTS
    Proc,      \* envman processes
    Shell,     \* shells that start
    Release,   \* releases of the tool, each with a runtime directory of its own
    NoRelease, \* no tool is installed; a shell runs no decryptor
    Absent,    \* no such file or directory
    Partial,   \* a directory whose files are not all there
    Mixed,     \* a directory with files of several releases
    Empty,     \* a loader file that holds nothing, or a beginning
    Blank,     \* the text of a profile that envman created
    Link,      \* a symbolic link in place of a profile
    RcFiles,   \* the profiles install_loaders lists last, in its order
    Edited,    \* the profiles the user changes
    First,     \* the sets of profiles the user may have at first
    MaxEvents  \* bound on the number of events around the installs

ASSUME NamesAssumption ==
    /\ Release \cap {NoRelease, Absent, Partial, Mixed, Empty} = {}
    /\ {Absent, Blank, Link} \cap Nat = {}
    /\ Mixed \notin {Absent, Partial} /\ Blank # Link
    /\ Absent \notin {Partial, Empty, Blank, Link}
ASSUME ProfilesAssumption ==
    /\ RcFiles \in Seq({".bashrc", ".zprofile", ".zshrc"})
    /\ Edited \subseteq {".profile", ".bash_profile", ".bash_login", ".bashrc",
                         ".zprofile", ".zshrc"}
    /\ MaxEvents \in Nat

VARIABLES
    tool,      \* the release whose files are installed
    runtime,   \* runtime[r]: the files copied to loader-runtime-<hash of r>
    staging,   \* staging[p]: the temporary directory p is filling
    loader,    \* loader[l]: the release whose runtime a loader file names
    profile,   \* profile[f]: the user's text and the blocks in it
    archived,  \* profile snapshots in backups/
    job,       \* job[p]: where an install is
    held,      \* held[s]: the release whose runtime a shell is about to run
    \* history
    torn,      \* torn[l]: an install stopped before it rewrote l
    raced,     \* profiles two installs were about to extend
    events     \* stops, and changes made to profiles and to the tool

files == <<runtime, staging, loader, profile, archived>>
vars == <<tool, runtime, staging, loader, profile, archived, job, held, torn,
          raced, events>>

Loaders == {"load-env.sh", "envman.fish"}
Rc == {RcFiles[i] : i \in DOMAIN RcFiles}
Profiles == {".profile", ".bash_profile", ".bash_login"} \cup Rc
NoFile == "none"

\* Directories that pass for a runtime: every file is there.
Whole == Release \cup {Mixed}

\* install_loaders, in its order; "login" is the first of two files bash reads.
Plan == <<"load-env.sh", ".profile", "login">> \o RcFiles \o <<"envman.fish">>

PCs == {"idle", "runtime", "copy", "rename", "truncate", "write", "test",
        "backup", "append"}
Text == {Absent, Blank, Link} \cup 0..MaxEvents
Profile == [text : Text, blocks : Nat, cut : BOOLEAN]
Job == [pc : PCs, item : 1..Len(Plan), rel : Release \cup {NoRelease},
        file : Profiles \cup {NoFile}, touched : BOOLEAN, done : BOOLEAN]

Bare(t) == [text |-> t, blocks |-> 0, cut |-> FALSE]
Idle == [pc |-> "idle", item |-> 1, rel |-> NoRelease, file |-> NoFile,
         touched |-> FALSE, done |-> FALSE]

Init ==
    /\ tool \in Release
    /\ runtime = [r \in Release |-> Absent]
    /\ staging = [p \in Proc |-> Absent]
    /\ loader = [l \in Loaders |-> Absent]
    /\ \E some \in First :
          profile = [f \in Profiles |-> Bare(IF f \in some THEN 0 ELSE Absent)]
    /\ archived = {}
    /\ job = [p \in Proc |-> Idle]
    /\ held = [s \in Shell |-> NoRelease]
    /\ torn = [l \in Loaders |-> FALSE]
    /\ raced = {}
    /\ events = 0

-----------------------------------------------------------------------------
(* Going through the plan.                                                 *)

Item(p) == Plan[job[p].item]
At(p, c) == job[p].pc = c
GoTo(p, c) == job' = [job EXCEPT ![p].pc = c]
FirstPC(i) == IF i \in Loaders THEN "runtime" ELSE "test"

Advance(p) ==
    LET j == job[p]
    IN job' = [job EXCEPT ![p] =
           IF j.item = Len(Plan)
           THEN [Idle EXCEPT !.done = TRUE]
           ELSE [j EXCEPT !.item = j.item + 1, !.pc = FirstPC(Plan[j.item + 1]),
                          !.rel = NoRelease, !.file = NoFile]]

\* An error, a signal: what was done so far stays.  A temporary directory that
\* stays behind after a kill is never given another name.
StopJob(p) ==
    /\ job' = [job EXCEPT ![p] = Idle]
    /\ staging' = [staging EXCEPT ![p] = Absent]
    /\ torn' = [l \in Loaders |-> torn[l] \/ (At(p, "write") /\ Item(p) = l)]

\* One of the events around the installs.
Happens == events < MaxEvents /\ events' = events + 1

Begin(p) ==
    /\ At(p, "idle") /\ tool # NoRelease
    /\ job' = [job EXCEPT ![p] = [Idle EXCEPT !.pc = FirstPC(Plan[1])]]
    /\ UNCHANGED <<tool, files, held, torn, raced, events>>

-----------------------------------------------------------------------------
(* install_retained_runtime.                                               *)

\* The steps after mkdtemp, and those a renamer could take instead.
NamedAtOnce == "rename"
FilledFirst == "copy"

\* The hash of the files on disk names the directory.  One that exists is
\* used if it is complete and refused if it is not.
FindRuntime(p) ==
    /\ At(p, "runtime")
    /\ \/ /\ tool # NoRelease /\ runtime[tool] \in Whole
          /\ job' = [job EXCEPT ![p].pc = "truncate", ![p].rel = tool]
          /\ UNCHANGED <<staging, torn>>
       \/ /\ tool # NoRelease /\ runtime[tool] = Absent
          /\ staging' = [staging EXCEPT ![p] = Partial]
          /\ job' = [job EXCEPT ![p].pc = FilledFirst, ![p].rel = tool]
          /\ UNCHANGED torn
       \/ tool \notin {r \in Release : runtime[r] # Partial} /\ StopJob(p)
    /\ UNCHANGED <<tool, runtime, loader, profile, archived, held, raced,
                   events>>

\* The copies, synchronised.  uv may have replaced the files since they were
\* hashed, also while they are copied.
Copies(p) == IF tool = job[p].rel THEN {tool} ELSE {tool, Mixed}

CopyRuntime(p) ==
    /\ At(p, "copy")
    /\ \/ /\ tool # NoRelease
          /\ \E c \in Copies(p) : staging' = [staging EXCEPT ![p] = c]
          /\ GoTo(p, "rename")
          /\ UNCHANGED torn
       \/ tool = NoRelease /\ StopJob(p)
    /\ UNCHANGED <<tool, runtime, loader, profile, archived, held, raced,
                   events>>

\* The rename fails if the directory exists by now, which is as good.
Replaceable(r) == TRUE
Vacant(r) == runtime[r] = Absent
OnlyRuntime(r, c) == [x \in Release |-> IF x = r THEN c ELSE Absent]
WithRuntime(r, c) == [runtime EXCEPT ![r] = c]

RenameRuntime(p) ==
    /\ At(p, "rename")
    /\ runtime' = IF Vacant(job[p].rel)
                  THEN WithRuntime(job[p].rel, staging[p]) ELSE runtime
    /\ staging' = [staging EXCEPT ![p] = Absent]
    /\ GoTo(p, "truncate")
    /\ UNCHANGED <<tool, loader, profile, archived, held, torn, raced, events>>

-----------------------------------------------------------------------------
(* The loader files: write_text truncates the file and then writes it.     *)

TruncateLoader(p) ==
    /\ At(p, "truncate")
    /\ loader' = [loader EXCEPT ![Item(p)] = Empty]
    /\ GoTo(p, "write")
    /\ UNCHANGED <<tool, runtime, staging, profile, archived, held, torn,
                   raced, events>>

WriteLoader(p) ==
    /\ At(p, "write")
    /\ loader' = [loader EXCEPT ![Item(p)] = job[p].rel]
    /\ torn' = [torn EXCEPT ![Item(p)] = FALSE]
    /\ Advance(p)
    /\ UNCHANGED <<tool, runtime, staging, profile, archived, held, raced,
                   events>>

-----------------------------------------------------------------------------
(* _append_profile_loader.                                                 *)

Exists(f) == profile[f].text # Absent
HasMarker(f) == profile[f].blocks > 0 \/ profile[f].cut

FirstExisting(f, g, otherwise) ==
    IF Exists(f) THEN f ELSE IF Exists(g) THEN g ELSE otherwise
BashLoginFirst == FirstExisting(".bash_login", ".bash_profile", NoFile)
LoginFile == FirstExisting(".bash_profile", ".bash_login", NoFile)
Candidate(p) == IF Item(p) = "login" THEN LoginFile ELSE Item(p)

\* Whether an install has tested f and is going to append to it.
Extending(q, f) == job[q].file = f /\ job[q].pc \in {"backup", "append"}

AnyProfile(f) == TRUE
WithoutMarker(f) == ~HasMarker(f)

TestProfile(p) ==
    /\ At(p, "test")
    /\ LET f == Candidate(p)
       IN \/ /\ f # NoFile /\ profile[f].text # Link /\ WithoutMarker(f)
             /\ job' = [job EXCEPT ![p].pc = "backup", ![p].file = f]
             /\ raced' = raced \cup {g \in {f} : \E q \in Proc : Extending(q, g)}
             /\ UNCHANGED <<staging, torn>>
          \/ /\ f # NoFile => profile[f].text # Link /\ ~WithoutMarker(f)
             /\ Advance(p)
             /\ UNCHANGED <<staging, torn, raced>>
          \/ /\ f # NoFile /\ profile[f].text = Link
             /\ StopJob(p)
             /\ UNCHANGED raced
    /\ UNCHANGED <<tool, runtime, loader, profile, archived, held, events>>

\* backup(profile): a snapshot of a profile that exists.
Snapshot(f) == [file |-> f, text |-> profile[f].text]
NoSnapshot(f) == {}
Snapshots(f) == IF Exists(f) THEN {Snapshot(f)} ELSE {}

BackupProfile(p) ==
    /\ At(p, "backup")
    /\ LET f == job[p].file
       IN \/ /\ profile[f].text # Link
             /\ archived' = archived \cup Snapshots(f)
             /\ GoTo(p, "append")
             /\ UNCHANGED <<staging, torn>>
          \/ /\ profile[f].text = Link
             /\ StopJob(p)
             /\ UNCHANGED archived
    /\ UNCHANGED <<tool, runtime, loader, profile, held, raced, events>>

\* open("a"): the file as it is now, created if need be, with a block more.
Overwritten(f) == Blank
NotCreated(f) == profile[f].text
TextBefore(f) == IF Exists(f) THEN profile[f].text ELSE Blank

AppendBlock(p) ==
    /\ At(p, "append")
    /\ LET f == job[p].file
       IN profile' = [profile EXCEPT ![f] =
              [text |-> TextBefore(f), blocks |-> profile[f].blocks + 1,
               cut |-> profile[f].cut]]
    /\ Advance(p)
    /\ UNCHANGED <<tool, runtime, staging, loader, archived, held, torn,
                   raced, events>>

\* A full disk cuts the block short: its first marker is there.
CutBlock(p) ==
    /\ At(p, "append")
    /\ Happens
    /\ LET f == job[p].file
       IN profile' = [profile EXCEPT ![f].text = TextBefore(f), ![f].cut = TRUE]
    /\ StopJob(p)
    /\ UNCHANGED <<tool, runtime, loader, archived, held, raced>>

-----------------------------------------------------------------------------
(* The surroundings.                                                       *)

Stop(p) ==
    /\ ~At(p, "idle")
    /\ Happens
    /\ StopJob(p)
    /\ UNCHANGED <<tool, runtime, loader, profile, archived, held, raced>>

\* uv installs a release or removes the tool.
ChangeTool(r) ==
    /\ r # tool
    /\ tool' = r
    /\ IF tool = NoRelease THEN UNCHANGED events ELSE Happens
    /\ UNCHANGED <<files, job, held, torn, raced>>

\* The user edits a profile around envman's blocks, replaces it with a file or
\* a link that has none, or removes it.
UserProfile(f, new) ==
    /\ Happens
    /\ profile' = [profile EXCEPT ![f] = new]
    /\ job' = [p \in Proc |-> [job[p] EXCEPT !.touched = ~At(p, "idle")]]
    /\ UNCHANGED <<tool, runtime, staging, loader, archived, held, torn,
                   raced>>

EditProfile(f) ==
    \/ UserProfile(f, [profile[f] EXCEPT !.text = events + 1])
    \/ \E t \in {events + 1, Link, Absent} : UserProfile(f, Bare(t))

\* What a shell of each kind reads when it starts: a bash login shell the first
\* of three files, fish its loader, any other the profile it is named for.
ShellKind == {"bash login", ".profile", "fish"} \cup Rc
StartupFile(k) ==
    IF k = "bash login"
    THEN FirstExisting(".bash_profile", ".bash_login", ".profile")
    ELSE k
LoaderOf(k) == IF k = "fish" THEN "envman.fish" ELSE "load-env.sh"
Leads(k) == k # "fish" => LET f == StartupFile(k)
                          IN profile[f].blocks > 0 /\ ~profile[f].cut

\* A shell reads the loader, and runs the runtime it names later.
StartShell(s, k) ==
    /\ held[s] = NoRelease
    /\ k \in {j \in ShellKind : Leads(j)} /\ loader[LoaderOf(k)] \in Release
    /\ held' = [held EXCEPT ![s] = loader[LoaderOf(k)]]
    /\ UNCHANGED <<tool, files, job, torn, raced, events>>

RunDecryptor(s) ==
    /\ held[s] # NoRelease
    /\ held' = [held EXCEPT ![s] = NoRelease]
    /\ UNCHANGED <<tool, files, job, torn, raced, events>>

-----------------------------------------------------------------------------
Install(p) ==
    \/ Begin(p) \/ FindRuntime(p) \/ CopyRuntime(p) \/ RenameRuntime(p)
    \/ TruncateLoader(p) \/ WriteLoader(p)
    \/ TestProfile(p) \/ BackupProfile(p) \/ AppendBlock(p)

Next ==
    \/ \E p \in Proc : Install(p) \/ CutBlock(p) \/ Stop(p)
    \/ \E r \in Release \cup {NoRelease} : ChangeTool(r)
    \/ \E f \in Edited \cap Profiles : EditProfile(f)
    \/ \E s \in Shell : (\E k \in ShellKind : StartShell(s, k)) \/ RunDecryptor(s)

Spec == Init /\ [][Next]_vars

-----------------------------------------------------------------------------
(* Properties.                                                             *)

TypeOK ==
    /\ tool \in Release \cup {NoRelease}
    /\ runtime \in [Release -> Whole \cup {Absent, Partial}]
    /\ staging \in [Proc -> Whole \cup {Absent, Partial}]
    /\ loader \in [Loaders -> Release \cup {Absent, Empty}]
    /\ profile \in [Profiles -> Profile]
    /\ \A f \in Profiles : HasMarker(f) => Exists(f)
    /\ archived \subseteq [file : Profiles, text : Text]
    /\ job \in [Proc -> Job]
    /\ held \in [Shell -> Release \cup {NoRelease}]
    /\ torn \in [Loaders -> BOOLEAN]
    /\ raced \subseteq Profiles
    /\ events \in 0..MaxEvents

\* A directory has the name of a runtime only once it is complete, whoever was
\* killed while copying: an incomplete one would refuse every later save.
RuntimesWhole == \A r \in Release : runtime[r] # Partial

\* Whoever has read a loader finds the runtime it names, whatever release was
\* installed or removed since.
ShellNeverStranded ==
    /\ \A l \in Loaders : loader[l] \in Release => runtime[loader[l]] \in Whole
    /\ \A s \in Shell : held[s] \in Release => runtime[held[s]] \in Whole

\* No runtime changes or goes away once it has its name: shells may be running
\* it.
RuntimeStable ==
    [][\A r \in Release : runtime[r] \in Whole => runtime'[r] = runtime[r]]_vars

\* A profile has envman's block more than once only if two installs were about
\* to append it at the same time.  storage-and-shell-loading.md has no such
\* exception: "Envman appends a block only when that profile does not already
\* contain its marker."
BlockOnce == \A f \in Profiles : profile[f].blocks > 1 => f \in raced

\* No install changes the user's part of a profile, and it extends an existing
\* profile only after a snapshot of what is in it, unless the user changed
\* something meanwhile.
ProfileKept ==
    [][\A f \in Profiles :
          profile'[f] # profile[f] /\ (\E p \in Proc : job'[p].pc # job[p].pc) =>
             /\ profile'[f].text = TextBefore(f)
             /\ profile[f].text \in 0..MaxEvents => \E p \in Proc :
                    /\ Extending(p, f)
                    /\ job[p].touched \/ Snapshot(f) \in archived]_vars

\* When an install ends, every kind of shell will find the loader, and the
\* loader is complete unless another install is rewriting it or stopped there.
\* The exception is a profile whose block was cut short once: the marker in it
\* keeps every later install from adding the block.
Installed ==
    /\ \A k \in ShellKind : Leads(k) \/ profile[StartupFile(k)].cut
    /\ \A l \in Loaders :
          \/ loader[l] \in Release
          \/ torn[l]
          \/ \E q \in Proc : At(q, "write") /\ Item(q) = l
InstallReaches ==
    [][\A p \in Proc :
          job'[p].done /\ ~job[p].done /\ ~job[p].touched => Installed']_vars

=============================================================================
