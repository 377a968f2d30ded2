# A formal model of envman

envman keeps a user's environment variables in one encrypted file and gives
them to every shell. This directory models its source in TLA+, checks the
models with TLC on small instances and proves the main invariants with TLAPS
for every instance. Paths below are relative to the repository root.

## 1. Inventory

| component | source | state it keeps | operations |
|---|---|---|---|
| environment store and storage key | `src/envman/cli.py` `EnvironmentStore`, `src/envman/_secure_store.py` | `environment.conf`, `.environment.lock`, `backups/`, `storage.key`; in memory the values, the lines and the fingerprint of the file as loaded | load, save (`write_values`), backup, create or read the key |
| snapshot migration | `src/envman/_snapshot_migration.py`, `migrate-storage` in `cli.py` | the archives in `backups/` | count, convert in place |
| shell loaders | `install_loaders` in `cli.py`, `src/envman/_retained_loader.py` | `load-env.sh`, the fish loader, marked blocks in profiles, the retained runtime directory | install on every save; read and decrypt in every new shell |
| CLI commands | `run_cli`, `main` in `cli.py` | none between commands | set, unset, rename, import, export, migrate-storage, check, list, get |
| TUI catalog | `EnvmanTUI` in `cli.py` | the loaded store, cursor, group selection, filter and sort | add, edit, copy, rename, delete, select, import, back up |
| import | `environment_import_candidates`, `EnvironmentImportTUI` | candidates and the sources selected among them | select, import with or without replacement |
| encrypted backups | `generate_encryption_key`, `write_encrypted_backup`, `encrypted_backup_variables` | `encryption.key`, exported files | generate the key, export, import-backup |
| validation and sensitivity | `validate_*`, `prepare_*`, `is_secret_*` in `cli.py` | none | which names and values are accepted, masked, copied |
| release protocol | `src/envman/_release_protocol.py` | the uv tool, the receipt `install.json`, skill files | install, update, roll back |
| parsing of manifests, wheels, receipts | `_release_protocol.py` | none | verdicts on bytes |
| curses drawing, argparse, `install.py`, `scripts/` | | none that is managed | |

How they interact. Every saving command (CLI, TUI, import, migration) goes
through `EnvironmentStore.save`: it installs the shell loaders and then writes
the values under an exclusive `flock` of the configuration home. Shell loaders
and reading commands take no lock. The storage key lives under
`XDG_STATE_HOME` and is shared by every configuration home, whose locks do not
exclude each other. The migration works under the same lock as a save, but
decides what to do before it takes it. The release protocol shares nothing
with the store; it works on the uv tool, a receipt and skill files, and
several runs of it may overlap.

What is hard here, and what correctness means.

* *Store.* Concurrent commands and long TUI sessions save from values loaded
  earlier. Correct: no update reported as saved is lost; a failed save leaves
  the open session with what it had; each document replaced was archived
  first, encrypted; a document once encrypted never gets another key; whoever
  finds a ciphertext finds its key; a power loss takes back nothing that was
  reported as saved, as far as it spares the directories.
* *Key creation.* Exclusive creation under the final name, then a write, then
  two syncs, with crashes in between and creators in other homes.
* *Migration.* Several archives, replaced one by one, after decisions taken
  without the lock. Correct: it adds no plaintext and loses no content.
* *Loaders.* Unlocked test-and-append to the user's profiles, scripts
  rewritten in place while shells source them, and a copy of the decryptor that
  has to outlive upgrades and the removal of the tool. Correct: a shell that
  has read a loader finds a whole decryptor; the user's text of a profile
  stays; after an installation every kind of shell gets to the loader.
* *Encrypted backups.* Several processes may generate the key at once, next to
  others that export and import, without a lock. Correct: a key that is there
  is never replaced nor seen in part; what was exported with it opens with it;
  a failed export leaves the backup it would have replaced.
* *Catalog and import.* References and sensitivity must survive sequences of
  copies, renames and deletions; group operations act on what is selected.
* *Release protocol.* Several steps of several programs (uv, files), each of
  which can fail, with a rollback that can fail as well. Correct: tool,
  receipt and skill agree after every outcome that was reported.

`PROJECT.json` lists the hazards one by one, each at its line.

## 2. Modules

| module | role |
|---|---|
| `EditRegister` | abstract specification: per home a set of edits; a save adds one, and what was acknowledged cannot be taken back |
| `EnvStore` | store, key, lock, snapshots, migration and readers as concurrent processes; implements `EditRegister` |
| `MCEnvStore` | constants for TLC; one cfg per question |
| `EnvStoreProofs` | theorems and proofs about `EnvStore`: types, edits, refinement, readers |
| `EnvStoreKeyProofs` | more of them: snapshots, the key, power losses |
| `ReleaseInstall` | installers and updaters working on the uv tool, the receipt and the skill files |
| `MCReleaseInstall` | constants for TLC; one cfg per question |
| `ReleaseInstallProofs` | theorems and proofs about `ReleaseInstall`, for overlapping runs |
| `ReleaseRunProofs` | what one run after another reports and leaves |
| `Catalog` | the variables by name and value, as the catalog, the import preview and the commands change them; the state of the catalog screen |
| `MCCatalog` | constants for TLC |
| `CatalogProofs` | theorems and proofs about `Catalog`: sensitive values |
| `CatalogScreenProofs` | the screen, what a failed save gives back, imports and references |
| `ShellLoaders` | the installation that precedes every save: loaders, profiles and the retained runtime, among shells, a user and upgrades |
| `MCShellLoaders` | constants for TLC |
| `ShellLoadersProofs` | theorems and proofs about `ShellLoaders` |
| `BackupKey` | the backup key and the backups sealed with it, under concurrent commands |
| `MCBackupKey` | constants for TLC |
| `BackupKeyProofs` | theorems and proofs about `BackupKey` |

### EnvStore and the code

A *process* runs one command at a time: `cli` (any command that changes one
thing and saves), `tui` (a session), `migrate` (`migrate-storage --apply`) or
`read` (a reading command, or the retained loader a shell starts). `pc` says
which file system operation comes next; a step is what happens between two
operations that another process or a crash can tell apart.

| model | code |
|---|---|
| `LoadMissing`, `LoadDocument`, `LoadKey` | `EnvironmentStore.load` and `_retained_loader`: the document is read first, the key (or, for plaintext, its absence) later, without the lock |
| `Change`, `Decline`, `Quit` | the catalog's and the CLI's changes to `values` |
| `AcquireLock` | `mkdir` of the home's directory and `flock(LOCK_EX)`; the loaders were installed before, which can fail (`IOError` at `lock`) |
| `Check`, `RefuseStale` | the fingerprint comparison in `write_values` |
| `ReadKey`, `CreateKey`, `WriteKey`, `SyncKey`, `SyncKeyDir` | `load_or_create_file_key`, with the callers' `create=` as `MayCreate` |
| `Archive` | the end of `backup(target)` |
| `Replace`, `SyncDocument` | `atomic_write_private(target)`: the rename, and the directory sync with the end of `write_values` |
| `Migrate`, `ConvertSnapshot`, `SnapshotsDone` | `migrate-storage --apply` |
| `Fail`, `BackToCatalog`, `Exit` | a `StoreError` ends a CLI command; in the TUI `persist_change` restores the values and the session goes on |
| `IOError`, `Kill`, `PowerLoss`, `RemoveKey` | what goes wrong around the program |

Each file has a visible state (`key`, `doc`) and the set of states a power
loss may leave it in (`keyOnDisk`, `docOnDisk`): a directory entry is certain
only after its directory was synchronised. The same rule applies to the
directories (`keyDir`, `homeDir`): a save makes the home's directory, and
`load_or_create_file_key` the key's, with `mkdir`, and nothing synchronises
their parents. Such a directory is `"made"`, and a power loss takes it with all
that is in it or finds it on disk (`"kept"`), where it stays. `keysLost`
remembers the keys that went that way.

What is abstracted:

* The values of a document are the set of edits made to it. Every edit is made
  once, so a lost update shows as a missing edit. Parsing and rendering are
  not in the model.
* The fingerprint is compared by content and key. Encryption is randomised, so
  the code also refuses a file rewritten with equal content; in the model no
  two saves write equal content with the same key.
* A snapshot appears in one step under a fresh name, as
  `atomic_write_private` makes it; the set `archives` forgets names and dates.
  A power loss takes the snapshots only with the home's directory: the entry of
  `backups/` in it, and of each archive, is taken as durable.
* `migrate-storage` looks at the active file and counts the snapshots in one
  step (both before the lock).
* Files are changed by envman alone, except for `RemoveKey`. Symlinks, owners
  and modes, which the code refuses, do not occur.
* The home's directory is made where the lock is acquired; the loaders, which
  may make it earlier, put nothing there that this model knows of.
* A save that dies with another exception than `StoreError` ends its process,
  as `Kill` does.

### ReleaseInstall and the code

A *run* is one execution of `install.py` (`installer_main`) or of
`envman update`. `run[r]` holds where it is (`pc`) and the local variables that
matter: the release it works on (`manifest`), the receipt it read (`recorded`,
the code's `previous`), the skill snapshot (`snap`), the destinations still to
write or to restore (`todo`), and whether a part of the rollback has failed.

| model | code |
|---|---|
| `StartInstall`; `StartUpdate`, `ReadManifest` | `installer_main`; `update` with its comparison, `--check` and the equal release that only brings its skill |
| `Present`, `CheckOwner` | `uv tool list`, then the receipt: two reads another run may come between |
| `Prepare` | downloads and verification, `_validated_skill_destinations`, `_skill_snapshot`; each may refuse, and nothing has changed yet |
| `InstallTool`, `Verify`, `Validate`, `WriteSkill`, `WriteReceipt` | the `try` block of `install_manifest`, with `install_skill_asset` |
| `RestoreSkill`, `SkillRestored` | `_restore_skill_snapshot`, called by `install_skill_asset` (`restore`) and again by `install_manifest` (`undoSkill`) |
| `UndoTool`, `UndoReceipt` | the tool and receipt part of the exception handler |
| `Kill`, `Publish`, `Author` | a signal, GitHub's latest release changing, the user writing a skill |

`outcome` is what a run reported: `undone` is an error message that does not
mention a failed rollback, `broken` one that does. `found` remembers the
installation a run started from, `authored` the skills that are the user's.

What is abstracted: a release is its version, and an asset that does not match
it is a refusal in `Prepare`; uv tells the truth in its exit status, and
refuses to uninstall a tool that is not there (the rollback of a first
installation then reports that it failed); the two
reads of `Verify` are one step; of a skill root only its `SKILL.md` is in the
model, not the directories made and removed around it; `latest` may go back,
as a release may be withdrawn.

### Catalog and the code

`values` is `store.values`. Names and values are numbers that stand for texts
in their sort order; which of them are secrets, URLs, references or short is
given by constants, so that one model covers any naming. One session at a time
is open, and commands come between sessions; `EnvStore` is about several
processes and about what a save does to files, which here succeeds or fails.

| model | code |
|---|---|
| `Sensitive`, `Assignable`, `Prepared`, `Copyable`, `Renamable` | `is_secret_value`, `validate_assignment`, `prepare_value`, `prepare_copied_value`, `validate_rename_sensitivity` |
| `Source`, `Enterable`, `Entered` | `prepare_entered_value`: a text that names a managed variable copies its value, or, typed for a reference, is stored |
| `Selectable`, `Importable`, `Collisions` | `environment_import_candidates`, `prepare_environment_import` |
| `Shown`, `Precedes`, `Current`, `Group`, `Pruned` | `catalog_names` with its filter, order and effect on `selected_names`; `current_name`, `_selected_group_names` |
| `MoveFocus`, `ToggleMark`, `Arrange` | the keys that change no variable |
| `Add`, `Edit`, `Copy`, `Rename`, `Delete` | the methods of the same names up to `persist_change` |
| `SaveOk`, `SaveFailed` | `persist_change`, then the next `draw` |
| `OpenPreview` to `ImportFailed` | `EnvironmentImportTUI`, for the environment and for backups |
| `SetFrom`, `SetStdin`, `SetValue`, `Unset`, `RenameCommand`, `ImportCommand` | `envman set` by the origin of its value, `unset`, `rename`, `import` and `import-backup` |

`guarded` remembers whose value came from a sensitive variable, and `before`
the screen a change began with.

What is abstracted: values are taken as normalised (white space, URLs), and
`PATH` values are values of no special kind; a filter pattern is the set of
texts it occurs in, the placeholder `change me` that `visible_value` shows is
left out, and the catalog's text for a masked value, its edges, also
serves for the preview's, which keeps the asterisks; a user who cancels a
prompt or heeds a warning takes no action; a command whose save fails changes
nothing and ends.

### ShellLoaders and the code

A process runs `install_loaders`, as `init` does alone and every save before it
takes the lock. `Plan` is its order: the POSIX loader, `.profile`, the login
file of bash if there is one, the shells' own profiles, the fish loader.
`job[p]` is where an installation is: the item of the plan, the step within it,
the release whose runtime it names, the profile it is about to extend.

| model | code |
|---|---|
| `FindRuntime`, `CopyRuntime`, `RenameRuntime` | `install_retained_runtime`: the hash of the tool's files, the complete or incomplete directory of that name, the copies into a temporary one, the rename that may lose |
| `TruncateLoader`, `WriteLoader` | the `write_text` of `_install_posix_loader` and `_install_fish_loader` |
| `Candidate`, `TestProfile`, `BackupProfile`, `AppendBlock` | the choice of the profile, and `_append_profile_loader` with its marker test, `backup(profile)` and `open("a")` |
| `CutBlock`, `Stop` | a full disk in the append; a signal, or any operation that fails |
| `ChangeTool`, `EditProfile`, `StartShell`, `RunDecryptor` | uv, the user, and the shells that source what was installed |

`torn` remembers the loaders an installation stopped in, `raced` the profiles
two installations were about to extend at once, `job[p].touched` that the user
changed a profile meanwhile.

What is abstracted:

* A release is the decryptor it would retain. `Mixed` stands for a directory
  that got files of two releases, because uv replaced them during the copy.
  Nothing notices it: its files are all there, and are not hashed again. A tool
  replaced and put back during the copy gives no `Mixed` in the model; no
  property tells the two apart.
* A loader's text is the release it names, or `Empty`: nothing, or the
  beginning of it. The POSIX and the fish loader differ in their place only.
* A profile is the number of the edit that made its text, or `Blank` if envman
  created it, with the blocks in it. A symbolic link, which `_append_profile_loader`
  refuses, is the text `Link`.
* Snapshots of profiles are never lost. Power losses do not occur: the runtime
  is synchronised before it is renamed, loaders and profiles are not.
* What a loader does with the store (the document first, then the key) is the
  `read` command of `EnvStore`.

### BackupKey and the code

| model | code |
|---|---|
| `StartKey`, `AskKey` | `key --generate`, and `ensure_encryption_key` of the TUI, with their approval |
| `StatKey`, `WriteTemp`, `SyncTemp`, `LinkKey`, `RereadKey` | `generate_encryption_key`: the stat, the temporary file and its sync, `os.link`, and the existing key if there is one |
| `StartExport`, `SealBackup`, `FillBackup`, `ReplaceBackup` | `export`: `encrypted_backup_envelope` and `write_encrypted_backup` |
| `StartImport`, `ReadBackup`, `OpenBackup`, `ClosePreview` | `import-backup` up to its preview: the file first, the key afterwards |
| `Kill`, `PowerLoss`, `Provision`, `FinishProvision` | what goes wrong around the program; a user who brings a key in two writes or removes it |

`Configured` is `backup_password`: `ENVMAN_BACKUP_KEY`, or else the key file.
As in `EnvStore`, each file has a visible state and the states a power loss may
leave it in: the contents of the key are synchronised before the link, its
directory entry is not; a backup is not synchronised at all.

What is abstracted: an envelope is the credential it was sealed with and the
variables in it; a key may be generated more than once, which nothing relies
on; modes, owners and symbolic links are refusals that do not occur. What is
done with the variables of a backup is the import of `Catalog`.

## 3. Runs

| run | instance | what it shows |
|---|---|---|
| `store_faults` | 2 processes, 1 home, 3 edits (one of them in a legacy plaintext snapshot), 2 keys; kills, I/O errors, the key removed | type correctness, `KeyMatches`, `NoLostUpdate`, `RollbackExact`; `SnapshotFirst`, `NeverRekeyed`, `SnapshotsOnlySealed`; refinement of `EditRegister` |
| `store_loss` | 2 processes, 1 home, 3 keys, two power losses at any moment; the directories of the key and of the home are there at first or not | `AckedSurvives`, `ReadableUnlessLost`; refinement of `EditRegister` |
| `store_homes` | 2 homes, one shared key; two processes in one home, of which one only reads, and one in the other; kills | `Readable`, `ReaderFindsKey` |
| `store_live` | 2 processes, 1 home, failing operations and kills, `FairSpec` | `CommandsFinish` |
| `store_torn_key` | a process is killed at any moment | `MigrationRecovers` is violated, see section 6 |
| `release_faults` | 1 run at a time, 2 skill destinations, 2 releases; every operation may fail, the receipt also after its replacement; kills | type correctness, `SuccessConsistent`, `FailureRestores`, `ReceiptNamesTool`, `UnmarkedKept`, `NoDowngrade` |
| `release_race` | 1 run, 1 destination; the user may write a skill at any moment | `UnmarkedPreserved` is violated, see section 6 |
| `release_stale` | 1 run; the receipt may fail after its replacement | `NoStaleReceipt` is violated, see section 6 |
| `release_overlap` | 2 runs, 3 releases, no failures | `NoDowngrade` is violated, see section 6 |
| `catalog_session` | 4 names (a secret, a URL, a reference, a plain one), the empty value, a URL with a password and the mask of both; 2 filter patterns, 1 environment; any save may fail | type correctness, `NeverExposed`, `SelectionShown`, `FailedSaveKeepsView`, `FocusFollows`, `ReferencesChecked`, `ImportAddsOnly` |
| `shell_installs` | 2 processes, 2 releases, 1 shell, 2 events (stops, cut blocks, edits of `.bash_profile`, changes of the tool); the user has a `.profile` and a `.bash_login` at first | type correctness, `RuntimesWhole`, `ShellNeverStranded`, `BlockOnce`; `RuntimeStable`, `ProfileKept`, `InstallReaches` |
| `backup_commands` | 2 processes, 2 keys, a password, 1 path, 3 events (kills, power losses, the user and the key file) | type correctness, `PartialOnlyByUser`, `ExportOpens`; `KeyStands`, `BackupWhole` |

Bounds. Two processes give every pair of conflicting commands, and the lock
admits one holder, so a third waits in the same states. Two user edits let one
session go stale while another saves, and let a session save after a failed
save. Two keys are one more than a correct system ever generates unless the
user removes one, which `store_faults` does: the second is there for the wrong
code to use. The home starts with no document or a plaintext one; encrypted
documents arise by saving. `store_loss` has two power losses (`MaxLosses = 2`)
and three keys: the first loss can take a new directory with the key in it,
after which another key is made, and the second comes on top of what the first
left. A further loss would repeat these: each resets every process and
leaves a single possible state of each file. `FirstDir` says whether the
directories exist at first; elsewhere than in `store_loss` they do, since
without power losses it makes no difference. The constraint `ThirdReads` of
`store_homes` keeps its third process to reading: it runs beside a writer of
its home, which makes the key and encrypts the document between its two reads,
and a second writer there would wait for the same lock, as in `store_faults`.
Deadlock checking is on everywhere: an
idle process can always be started.

What a release run reports is only claimed for runs that do not overlap, so
`release_faults` has one run that is executed again and again, from every
installation a predecessor, a kill or the user can leave. Two destinations are
what it takes to fail between them; two releases give an update, a
reinstallation and a refused downgrade. The overlap needs a third release: the
recorded one, the one fetched, and the one that came in between.

`catalog_session` has one variable of each kind the rules tell apart, the
rows it takes to have a marked one, the focused one and one that a filter
hides. The filter pattern occurs in a name and in a value, so that an edit
moves a row across it; the text `1` is both a name and a value, so that what
is typed may be a reference, and as a value it is too short for a secret. The
environment holds a secret and a reference to it, which may be imported
without it. Values are numbered, none is counted: no other bound is needed.

`shell_installs` needs two processes for the race between test and append and
for the rename that loses, and two releases for a copy that is no longer of
the release it was named for. The user can create, change, link or remove
`.bash_profile`, which takes the login shells away from `.bash_login`. Two
events are a stop and an edit, two edits, or an upgrade and a stop; installing
a tool where there is none is not counted. `backup_commands` needs two keys for
the process that loses the link to have made another one, and three events for
the user to bring a key in two writes with a kill or a power loss in between
and another one after it.

Fairness (`FairSpec`). `WF(Step(p))`: a process that can run goes on; none of
its operations waits for anything, except for the lock. `SF(AcquireLock(p))`:
the kernel wakes the waiters of a `flock` whenever it is released, so a waiter
is not passed over for ever. Users owe nothing: a session may stay open.

## 4. Proofs

`EnvStoreProofs` holds for any sets of processes, homes, edits and keys, any
number of power losses and, unless said otherwise, any combination of faults.
The assumptions are those of `EnvStore` on its constants.

* `TypeCorrect`: `TypeOK` is not inductive alone, since a document is sealed
  with the key in hand. `TypeInv` adds `KeyInHand`: where a process is about
  to seal, archive or convert, it holds a complete key.
* `NoUpdateLost`, `RollbackIsExact`, `StoreImplementsRegister` follow from
  `StoreInv`. Its parts: `OnDisk` (what is acknowledged is in every state a
  power loss may leave a document in, and the visible state is one of these);
  and for each process `LockHeld` (inside the save it holds its home's lock),
  `Session` (its values are what it loaded or last wrote, plus the edit it is
  saving), `Checked` (between comparison and replacement the document is still
  the one seen), `Written` (after the replacement it is what was written) and
  `Used` (edits in sight are used up). The comparison under the lock makes
  `Checked` true, the lock keeps it true, and with `Session` the replacement
  can only add.
* `CiphertextReadable` and `ReaderNeverRefused` assume that nobody removes the
  key and no power is lost. `KeyInv`: every ciphertext has the key as its
  seal; at most one process is between creating and completing the key file;
  a key in hand is the key on file.

`EnvStoreKeyProofs` goes on from `TypeInv` and `StoreInv`.

* `SnapshotsStaySealed` needs no assumption: each action that touches the
  archives adds a sealed one or seals one with the same content, except a power
  loss that takes the home's directory.
* `ArchivedFirst` excludes power losses, which bring back an older document
  that nobody archives. `CoverInv`: a process about to seal over a document has
  an encrypted snapshot of what it saw of it, and `Checked` says that this is
  what is still there.
* `KeyNeverRegenerated` and `DocumentKeepsKey` assume `KeyPreserved`: no power
  is lost, and if the user may remove the key file there is one home. `MatchInv`
  follows the key through a save: who comes to create one has seen, under the
  lock, that the document is not encrypted. Another home's lock says nothing of
  this document, so with a removed key and two homes the property is false
  (section 6).
* `AckedEditsOnDisk`, the edit part of `AckedSurvives`, needs no assumption.
  `AckedEditsSurvive` and `ReadableAfterLoss` assume `Undisturbed`: one home,
  and nothing but the power supply interrupts a process. `DurableInv`: what is
  sealed is sealed with a settled key (the only one a power loss may leave);
  a key that is not settled yet is being synchronised by the process that
  made it, which holds the lock. All this is about keys that were not lost with
  their directory: one that was is not in `keyOnDisk` and, since a key is made
  once, never comes back. "Settled" is said of the key's place in its directory,
  and the edits of their document's place in the home's: what a loss of the
  directory itself takes is excepted. `MCEnvStore_loss.cfg` satisfies the
  assumption; section 6 says why it cannot be dropped.

`ReleaseInstallProofs` holds for any number of overlapping runs, any
destinations and releases, and any faults unless one is excluded.

* `TypeCorrect`: `TypeInv` adds `AllToWrite`, that a run on its way to the skill
  files has all of them to do, since `TypeOK` says that a run writing skills
  has one left.
* `OwnSkillsKept` assumes that the user writes no skill while a run is on its
  way. `OwnInv` adds `NoneInTheWay`: a run that has passed `Prepare` and goes
  on with skill files has seen that none of them is the user's, and as the
  user waits, that stays so until it ends.

`ReleaseRunProofs` assumes `OneRun`, that the set of runs has one element: that
run is executed again and again, by installers and updaters. Of overlapping runs
the properties are false (`release_overlap`). Faults are arbitrary otherwise.

* `NeverDowngrades`, `ReceiptIsOfTheTool` and `SuccessIsWhole` follow from
  `ProgressInv`, which says at each step how the tool, the receipt and the skill
  files written so far relate to the installation found at the start and to the
  release being installed.
* `FailureIsUndone` needs `KeptInv` as well: until its first write a run finds
  the skill files as they were, the snapshot is of them, and each pass of the
  restoration brings back those it has been through. It assumes that the user
  writes no skill while the run is on its way: `release_race` is what happens
  otherwise.

`CatalogProofs` holds for any names, values, environments and rules that
satisfy the assumptions of `Catalog` on its constants.

* `NothingExposed`: `NeverExposed` alone is not inductive, because a failed
  save brings former values back. `MaskInv` adds that these are masked, too,
  as far as they were guarded when the change began. The lemmas say of each
  kind of change (put, move, copy, import, remove) that it keeps `Hidden`.

`CatalogScreenProofs` also uses that the set of names is finite
(`FinitenessAssumption`), as every document's is: rows are counted.

* The rows. Every sort order is a strict total order on the variables shown,
  values that mask to the same text included (`PrecedesIrreflexive`,
  `PrecedesTransitive`, `PrecedesTotal`), so `Row` is a bijection from these
  variables to 0, 1, ... (`RowOrder`, `RowUnique`, `RowTaken`). This makes
  `Current`, a choice by row, the variable one expects (`RowAtRow`).
* `TypeCorrect` and `SelectionIsShown`: `TypeInv` has both, since `Current` is a
  name only where the focus is on a row, and that what a failed save restores
  guards only variables that have values.
* `FailedSaveRestores` and `FocusStaysOn` follow from `SavedScreen`, which relates
  the screen while a change is being saved to the one before it: the marks that
  would be restored are those of `before`, also where the method passed none to
  `persist_change`, and the focus is on the variable that is new.
* `ImportReplacesNothing` follows from `ChosenNew`: what is selected in a preview
  is not managed. `ReferencesHold` follows from `TypeInv` and the lemmas on
  entering and importing.

`ShellLoadersProofs` holds for any processes, shells, releases and profiles of
the shells, and any number of events.

* `TypeCorrect`: `TypeInv` adds what an installation knows at each step, such as
  that a temporary directory is complete before the rename.
* `RuntimesComplete`, `ShellsServed` and `RuntimesStay` follow from
  `RuntimesInv`, which adds that an installation about to name a runtime in a
  loader has seen it complete. Complete runtimes never change, so that what
  shells and loaders refer to stays.
* `BlocksOnce` follows from `RacedInv`: of two installations about to extend a
  profile the second was seen to race, and so was one whose profile has been
  extended since its marker test.
* `ProfilesKept` follows from `SnapInv`: before it appends, an installation has
  a snapshot of the text that is there, unless the user was at work; an append
  by another installation leaves the text alone.
* `InstallsReach` follows from `ReachInv`: every item of the plan an undisturbed
  installation has behind it is served (`Served`), and stays so whatever other
  installations do, as they only add blocks and rewrite loaders. Its delicate
  part is the login file of bash, which an overlapping installation may create
  (`LoginStays`, `Aimed`): then that one has the block already. An empty loader
  has a writer or had one that stopped (`LoaderInv`).

`BackupKeyProofs` holds for any processes, keys, passwords, paths and contents,
and any number of kills, power losses and changes by the user.

* `TypeCorrect`: `TypeInv` adds `InHand`, what a command holds where it is.
* `KeyNeverReplaced` and `KeyNeverPartial`: only `LinkKey` creates a key file,
  where there is none, from a temporary file that is complete and synchronised.
* `ExportsOpen` follows from `SealInv`: as long as neither the user nor a power
  loss interfered, all that is sealed with a key in backups, in every state a
  power loss may leave them in, in temporary files and in hand, is sealed with
  the key on file. Where there is no key file, nothing is sealed with one.
* `BackupsWhole`: what is renamed over a backup is a complete one.

Left to TLC alone: `CommandsFinish`, which is liveness under fairness and needs
`ENABLED`; and what the four runs that expect a violation find. Every other
property of a run is stated by a theorem, and where that has an assumption on
`Faults`, homes or runs, the configuration of its run satisfies it.

## 5. Plan

In this order, most important behaviour first:

1. `EnvStore`, `EditRegister`: done.
2. `ReleaseInstall`: done.
3. `ShellLoaders`: done.
4. `Catalog` (with the import preview): done.
5. Snapshot migration: its steps are in `EnvStore`. A module of its own would
   add what refuses before anything changes (an invalid archive, the trial
   conversion of all) and a replacement that is interrupted, which leaves the
   old or the new archive; neither touches the properties stated here.
6. `BackupKey`: done.

Theorems to add: what two overlapping runs of the installer still guarantee, and
the key part of `AckedSurvives` where operations fail but the key was complete and
synchronised at first. Both are statements that no run checks yet. For several
homes, or a key whose creation was interrupted, `AckedSurvives` is false
(section 6).

## 6. Findings

*A torn key file is never recovered.* `load_or_create_file_key` creates
`storage.key` under its final name and writes it afterwards. If the process
dies in between, an empty key file stays beside the plaintext document.
`docs/development/architecture.md` promises that
`migrate-storage --apply` "explicitly recovers and converts that interrupted
state", but it needs the same key file, finds it malformed and refuses.
Writing the key to a temporary file and linking it, as
`generate_encryption_key` does for the backup key, would avoid the state.

*A rollback deletes a skill of the user's.* The skill snapshot is taken before
the tool is installed. If the user creates an unmarked `SKILL.md` at a
destination meanwhile, `install_skill_asset` refuses to replace it, and the
exception handler then restores the snapshot, in which the destination is
missing: `_restore_skill_snapshot` unlinks the file. The documentation says
that unmarked skills are preserved. Restoring only what the run itself wrote
would keep it.

*A first installation can leave a receipt without a tool.* `write_receipt` can
fail after its `os.replace`. The handler of a first installation uninstalls
the tool and does not touch the receipt, the report says nothing of a failed
rollback, and each later run refuses because a receipt exists and the tool does
not.

*Overlapping updates can downgrade.* `update` compares its candidate with the
receipt it read at its start; `install_manifest` reads the receipt again, for
the rollback, and compares nothing.

*A reference may name itself.* `docs/reference/storage-and-shell-loading.md`,
`docs/guides/tui.md` and `docs/development/architecture.md` ask that the value
of a name ending in `_API_KEY_ENV` names another managed variable.
`prepare_entered_value` asks that it names a managed one. A new reference then
names another variable, but one that exists may be edited to name itself. The
imports count the reference that is being imported among the names it may refer
to. `ReferencesChecked` and `ReferencesHold` say what the code does ensure; that
it is less than the documents ask is read off the code, not found by a run.

*Two first installations append the block twice.*
`docs/reference/storage-and-shell-loading.md` says that "Envman appends a block
only when that profile does not already contain its marker".
`_append_profile_loader` tests for the marker, makes a snapshot and appends,
without a lock: two installations that have both passed the test both append.
The second block only sources the loader again. `shell_installs` goes through
these states (`raced`), which `BlockOnce` has to except; it shows that there is
no other way to get two blocks.

Weaknesses the models contain, for which no document promises otherwise:

* After an edit, a copy or a deletion of a marked group the catalog keeps the
  index of the focused row, not its variable: under a value order, or with rows
  gone above it, the next keystroke is about another one. `FocusFollows` claims
  what the other operations do.
* A process that finds a key whose creator was killed, failed or is still at
  work in another home before the directory sync does not synchronise it; a
  power loss may then take the key of a save that was reported.
* The first save makes the directories of the key and of the home, and nothing
  synchronises their parents. A power loss may take the key of a save that was
  reported, and leave a document that nobody can open, or take the home as a
  whole. Both are in `store_loss`; `AckedSurvives`, `ReadableUnlessLost` and the
  register except them (`keysLost`, `anchored`). Synchronising each directory
  that was made would remove the exceptions.
* If the user removes the key file, a process of another home with a plaintext
  document creates a new one, while the first home's document is still sealed
  with the old key. One home refuses to (`KeyNeverRegenerated`).
* A block that a full disk cut short stays so: its first marker keeps every
  later installation from adding the block (`InstallReaches` excepts it).
* The retained runtime is named by a hash taken before the copy, and what was
  copied is not compared with it (`Mixed`).
* Neither the directory entry of the backup key nor an exported backup is
  synchronised: a power loss can take a key with which something was exported
  already, and leave an empty file in place of a backup and its predecessor.

## 7. Not modelled

Character-level validation, parsing and rendering; curses drawing; argparse;
manifest and archive parsing: pure functions of their input, or output
without state. `install.py` (generated from `_release_protocol.py`) and
`scripts/` (developer tools). Of the migration, invalid archives and the dry
run. `PROJECT.json` says of each component what is in the models.
