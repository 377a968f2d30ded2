------------------------------ MODULE EnvStore ------------------------------
(***************************************************************************)
(* The encrypted environment file, its storage key and its snapshots       *)
(* (EnvironmentStore in cli.py, _secure_store.py, _snapshot_migration.py), *)
(* as used by concurrent envman commands, TUI sessions and shell loaders.  *)
(*                                                                         *)
(* A step of a process is what it does between two file system operations  *)
(* another process, or a crash, could tell apart.  Each file has two       *)
(* sides: what readers see now, and the set of states in which a power     *)
(* loss may leave it: a directory entry is safe only once its directory    *)
(* has been synchronised.  That goes for the directories themselves:       *)
(* nothing synchronises the parent of one that envman makes, so it may     *)
(* vanish with all that is in it.                                          *)
(*                                                                         *)
(* A document's values are abstracted to the set of edits made to them.    *)
(***************************************************************************)
EXTENDS Naturals

CONSTANTS
    Proc,      \* processes, each running one envman command at a time
    Home,      \* configuration homes (XDG_CONFIG_HOME): a file and a lock each
    HomeOf,    \* [Proc -> Home]; the storage key is shared by all homes
    Edit,      \* changes users make, each made at most once
    Key,       \* the keys Fernet.generate_key can return, each at most once
    NoProc, NoEdit, NoKey,
    Torn,      \* a key file that exists but does not hold a complete key
    Plain,     \* in place of a key: the document is not encrypted
    Missing,   \* in place of a key: there is no document
    FirstSeal, \* seals environment.conf may start with: Plain or Missing
    FirstDir,  \* states a directory may start in: "none" or "kept"
    Legacy,    \* contents of the plaintext snapshots an earlier version left
    MaxLosses, \* bound on the number of power losses
    Faults     \* subset of {"kill", "io", "loss", "rmkey"}

ASSUME HomeAssumption == HomeOf \in [Proc -> Home]
ASSUME NamesAssumption ==
    /\ NoProc \notin Proc /\ NoEdit \notin Edit
    /\ Key \cap {NoKey, Torn, Plain, Missing} = {}
    /\ NoKey # Torn /\ Plain # Missing
ASSUME StartAssumption ==
    /\ FirstSeal \subseteq {Plain, Missing}
    /\ FirstDir \subseteq {"none", "kept"}
    /\ Legacy \subseteq SUBSET Edit

VARIABLES
    \* files
    key,         \* storage.key as a reader sees it
    keyOnDisk,   \* the states a power loss may leave it in, in its directory
    keyDir,      \* that directory: "none", "made" (by envman) or "kept" (on disk)
    doc,         \* doc[h]: environment.conf of home h
    docOnDisk,   \* docOnDisk[h]: the states a power loss may leave it in
    homeDir,     \* homeDir[h]: the directory of home h, as keyDir
    archives,    \* archives[h]: environment snapshots in backups/
    lock,        \* lock[h]: the holder of the flock on .environment.lock
    \* processes
    pc, cmd,     \* the next operation, and the command being run
    call,        \* what the key being fetched is for, or what the lock is for
    seen,        \* the document as loaded or last written (its fingerprint)
    vals,        \* EnvironmentStore.values
    edit,        \* the change in vals that is being saved
    got,         \* the storage key in hand
    pending,     \* migrate-storage: plaintext snapshots were counted
    \* history
    acked,       \* acked[h]: edits whose save was reported as done, since h
                 \* has its directory
    usedEdits, usedKeys, losses,
    keysLost     \* keys that were lost with their directory

files == <<key, keyOnDisk, keyDir, doc, docOnDisk, homeDir, archives>>
keyVars == <<key, keyOnDisk, keyDir, usedKeys>>
docVars == <<doc, docOnDisk, homeDir>>
outages == <<losses, keysLost>>
locals == <<pc, cmd, call, seen, vals, edit, got, pending>>
vars == <<key, keyOnDisk, keyDir, doc, docOnDisk, homeDir, archives, lock, pc,
          cmd, call, seen, vals, edit, got, pending, acked, usedEdits, usedKeys,
          losses, keysLost>>

Document == [seal : Key \cup {Plain, Missing}, content : SUBSET Edit]
Absent == [seal |-> Missing, content |-> {}]
IsEncrypted(d) == d.seal \in Key
Sealed(k, c) == [seal |-> k, content |-> c]
Command == {"cli", "tui", "migrate", "read"}

\* The states in which a process holds the lock of its home.
Locked == {"check", "key", "create", "write", "syncKey", "syncKeyDir",
           "archive", "seal", "syncDoc", "snapshots"}
PCs == {"idle", "load", "loadkey", "ready", "lock"} \cup Locked

Init ==
    /\ key = NoKey /\ keyOnDisk = {NoKey}
    /\ keyDir \in FirstDir /\ homeDir \in [Home -> FirstDir]
    /\ doc \in [Home -> {[seal |-> s, content |-> {}] : s \in FirstSeal}]
    /\ \A h \in Home : homeDir[h] = "none" => doc[h] = Absent
    /\ docOnDisk = [h \in Home |-> {doc[h]}]
    /\ archives = [h \in Home |-> {Sealed(Plain, c) :
                                     c \in IF homeDir[h] = "none" THEN {} ELSE Legacy}]
    /\ lock = [h \in Home |-> NoProc]
    /\ pc = [p \in Proc |-> "idle"]
    /\ cmd = [p \in Proc |-> "read"]
    /\ call = [p \in Proc |-> "archive"]
    /\ seen = [p \in Proc |-> Absent]
    /\ vals = [p \in Proc |-> {}]
    /\ edit = [p \in Proc |-> NoEdit]
    /\ got = [p \in Proc |-> NoKey]
    /\ pending = [p \in Proc |-> FALSE]
    /\ acked = [h \in Home |-> {}]
    /\ usedEdits = UNION Legacy /\ usedKeys = {} /\ losses = 0 /\ keysLost = {}

-----------------------------------------------------------------------------
(* Leaving a command: by its end, by an error, or by a failed save.        *)

KeepLock(p) == UNCHANGED lock

\* The kernel drops a flock when its holder closes the file or dies.
Unlock(p) ==
    lock' = [h \in Home |-> IF lock[h] = p THEN NoProc ELSE lock[h]]

\* The process ends; nothing it kept in memory remains.
Exit(p) ==
    /\ Unlock(p)
    /\ pc' = [pc EXCEPT ![p] = "idle"]
    /\ cmd' = [cmd EXCEPT ![p] = "read"]
    /\ call' = [call EXCEPT ![p] = "archive"]
    /\ seen' = [seen EXCEPT ![p] = Absent]
    /\ vals' = [vals EXCEPT ![p] = {}]
    /\ edit' = [edit EXCEPT ![p] = NoEdit]
    /\ got' = [got EXCEPT ![p] = NoKey]
    /\ pending' = [pending EXCEPT ![p] = FALSE]

\* EnvmanTUI.persist_change: a failed save puts the previous values back and
\* the catalog stays open.
KeepChange(p) == UNCHANGED vals
RollBack(p) == vals' = [vals EXCEPT ![p] = @ \ {edit[p]}]

BackToCatalog(p) ==
    /\ Unlock(p)
    /\ RollBack(p)
    /\ pc' = [pc EXCEPT ![p] = "ready"]
    /\ call' = [call EXCEPT ![p] = "archive"]
    /\ edit' = [edit EXCEPT ![p] = NoEdit]
    /\ got' = [got EXCEPT ![p] = NoKey]
    /\ UNCHANGED <<cmd, seen, pending>>

\* A StoreError ends every command but a TUI session that was saving.
Fail(p) ==
    /\ \/ cmd[p] = "tui" /\ pc[p] \notin {"load", "loadkey"} /\ BackToCatalog(p)
       \/ ~(cmd[p] = "tui" /\ pc[p] \notin {"load", "loadkey"}) /\ Exit(p)
    /\ UNCHANGED <<acked, usedEdits, outages>>

-----------------------------------------------------------------------------
(* Starting a command, and EnvironmentStore.load.  The retained shell      *)
(* loader reads the same way and then ends ("read").  Readers never lock.  *)

Start(p, c) ==
    /\ pc[p] = "idle"
    /\ pc' = [pc EXCEPT ![p] = "load"]
    /\ cmd' = [cmd EXCEPT ![p] = c]
    /\ UNCHANGED <<files, lock, call, seen, vals, edit, got, pending, acked,
                   usedEdits, usedKeys, outages>>

LoadMissing(p) ==
    /\ pc[p] = "load" /\ doc[HomeOf[p]].seal = Missing
    /\ IF cmd[p] = "read"
       THEN Exit(p)
       ELSE /\ pc' = [pc EXCEPT ![p] = "ready"]
            /\ UNCHANGED <<lock, cmd, call, seen, vals, edit, got, pending>>
    /\ UNCHANGED <<files, acked, usedEdits, usedKeys, outages>>

LoadDocument(p) ==
    /\ pc[p] = "load" /\ doc[HomeOf[p]].seal # Missing
    /\ pc' = [pc EXCEPT ![p] = "loadkey"]
    /\ seen' = [seen EXCEPT ![p] = doc[HomeOf[p]]]
    /\ UNCHANGED <<files, lock, cmd, call, vals, edit, got, pending, acked,
                   usedEdits, usedKeys, outages>>

\* A ciphertext needs its key; a plaintext is refused once any key file
\* exists, unless the command is migrate-storage.
Opens(p) ==
    IF IsEncrypted(seen[p]) THEN key = seen[p].seal
                            ELSE cmd[p] = "migrate" \/ key = NoKey

LoadKey(p) ==
    /\ pc[p] = "loadkey"
    /\ IF Opens(p) /\ cmd[p] # "read"
       THEN /\ pc' = [pc EXCEPT ![p] = "ready"]
            /\ vals' = [vals EXCEPT ![p] = seen[p].content]
            /\ UNCHANGED <<lock, cmd, call, seen, edit, got, pending>>
       ELSE Exit(p)
    /\ UNCHANGED <<files, acked, usedEdits, usedKeys, outages>>

-----------------------------------------------------------------------------
(* The commands that save.                                                 *)

\* A CLI command changes one value and saves; a TUI session does so any
\* number of times from the values it loaded once.
Change(p, e) ==
    /\ pc[p] = "ready" /\ cmd[p] \in {"cli", "tui"} /\ e \notin usedEdits
    /\ usedEdits' = usedEdits \cup {e}
    /\ edit' = [edit EXCEPT ![p] = e]
    /\ vals' = [vals EXCEPT ![p] = @ \cup {e}]
    /\ pc' = [pc EXCEPT ![p] = "lock"]
    /\ UNCHANGED <<files, lock, cmd, call, seen, got, pending, acked, usedKeys,
                   outages>>

Quit(p) ==
    /\ pc[p] = "ready" /\ cmd[p] = "tui"
    /\ Exit(p)
    /\ UNCHANGED <<files, acked, usedEdits, usedKeys, outages>>

\* A CLI command that is refused (an unknown name, an invalid value) or has
\* nothing to change exits without saving.
Decline(p) ==
    /\ pc[p] = "ready" /\ cmd[p] = "cli"
    /\ Exit(p)
    /\ UNCHANGED <<files, acked, usedEdits, usedKeys, outages>>

PlaintextSnapshots(h) == {a \in archives[h] : a.seal = Plain}

\* migrate-storage --apply counts the plaintext snapshots, saves the values
\* if the active file was plaintext, and then converts the snapshots.
Migrate(p) ==
    /\ pc[p] = "ready" /\ cmd[p] = "migrate"
    /\ LET h == HomeOf[p]
           left == PlaintextSnapshots(h) # {}
           plaintext == doc[h].seal # Missing /\ ~IsEncrypted(seen[p])
       IN IF plaintext \/ left
          THEN /\ pc' = [pc EXCEPT ![p] = "lock"]
               /\ call' = [call EXCEPT ![p] = IF plaintext THEN "archive" ELSE "snapshots"]
               /\ pending' = [pending EXCEPT ![p] = left]
               /\ UNCHANGED <<lock, cmd, seen, vals, edit, got>>
          ELSE Exit(p)
    /\ UNCHANGED <<files, acked, usedEdits, usedKeys, outages>>

\* mkdir(parents=True, exist_ok=True): no parent is synchronised after it.
Made(d) == IF d = "none" THEN "made" ELSE d

\* install_loaders and write_values make the home's directory; the lock file
\* is in it.
AcquireLock(p) ==
    /\ pc[p] = "lock" /\ lock[HomeOf[p]] = NoProc
    /\ homeDir' = [homeDir EXCEPT ![HomeOf[p]] = Made(@)]
    /\ lock' = [lock EXCEPT ![HomeOf[p]] = p]
    /\ pc' = [pc EXCEPT ![p] = IF call[p] = "snapshots" THEN "key" ELSE "check"]
    /\ UNCHANGED <<keyVars, doc, docOnDisk, archives, cmd, call, seen, vals, edit,
                   got, pending, acked, usedEdits, outages>>

\* The fingerprint comparison of write_values: the file is byte for byte the
\* one this process loaded or last wrote.
NotCompared(p) == TRUE
Fresh(p) == seen[p] = doc[HomeOf[p]]

\* Under the lock: refuse a stale writer, and otherwise begin backup(target),
\* which reads the file again and needs the key first if that is plaintext.
WithoutBackup(p) == [next |-> "key", for |-> "seal"]
AfterCheck(p) ==
    [next |-> IF IsEncrypted(seen[p]) THEN "archive" ELSE "key",
     for  |-> IF seen[p].seal = Missing THEN "seal" ELSE "archive"]

Check(p) ==
    /\ pc[p] = "check" /\ Fresh(p)
    /\ pc' = [pc EXCEPT ![p] = AfterCheck(p).next]
    /\ call' = [call EXCEPT ![p] = AfterCheck(p).for]
    /\ UNCHANGED <<files, lock, cmd, seen, vals, edit, got, pending, acked,
                   usedEdits, usedKeys, outages>>

RefuseStale(p) ==
    /\ pc[p] = "check" /\ ~Fresh(p)
    /\ Fail(p)
    /\ UNCHANGED <<files, usedKeys>>

-----------------------------------------------------------------------------
(* load_or_create_file_key.                                                *)

\* The callers' create= argument.
AlwaysCreate(p) == TRUE
MayCreate(p) ==
    CASE call[p] = "archive" -> TRUE
      [] call[p] = "seal" -> ~IsEncrypted(seen[p])
      [] call[p] = "snapshots" -> doc[HomeOf[p]].seal = Missing

\* _validate_key: a file of another length is malformed and fails closed.
AnyLength(k) == k # NoKey
IsComplete(k) == k \in Key

\* The key is in hand: on to what it was fetched for.
Obtain(p, k) ==
    /\ got' = [got EXCEPT ![p] = k]
    /\ pc' = [pc EXCEPT ![p] = call[p]]
    /\ UNCHANGED <<lock, cmd, call, seen, vals, edit, pending, acked, usedEdits,
                   outages>>

\* _open_directory makes the key's directory if a key may be made in it.
ReadKey(p) ==
    /\ pc[p] = "key"
    /\ keyDir' = IF MayCreate(p) THEN Made(keyDir) ELSE keyDir
    /\ \/ IsComplete(key) /\ Obtain(p, key)
       \/ /\ key = NoKey /\ MayCreate(p)
          /\ pc' = [pc EXCEPT ![p] = "create"]
          /\ UNCHANGED <<lock, cmd, call, seen, vals, edit, got, pending, acked,
                         usedEdits, outages>>
       \/ ~IsComplete(key) /\ (key = NoKey => ~MayCreate(p)) /\ Fail(p)
    /\ UNCHANGED <<key, keyOnDisk, docVars, archives, usedKeys>>

\* open(O_CREAT | O_EXCL): an empty key file appears, or one is there already
\* (a process of another home created it) and is read instead.
Opened(p) == TRUE
OpenedExclusively(p) == key = NoKey

CreateKey(p) ==
    /\ pc[p] = "create"
    /\ \/ /\ OpenedExclusively(p)
          /\ key' = Torn
          /\ keyOnDisk' = keyOnDisk \cup {Torn}
          /\ pc' = [pc EXCEPT ![p] = "write"]
          /\ UNCHANGED <<lock, cmd, call, seen, vals, edit, got, pending, acked,
                         usedEdits, outages>>
       \/ /\ ~OpenedExclusively(p) /\ ~IsComplete(key)
          /\ Fail(p)
          /\ UNCHANGED <<key, keyOnDisk>>
       \/ /\ ~OpenedExclusively(p) /\ IsComplete(key)
          /\ Obtain(p, key)
          /\ UNCHANGED <<key, keyOnDisk>>
    /\ UNCHANGED <<keyDir, docVars, archives, usedKeys>>

WriteKey(p) ==
    /\ pc[p] = "write"
    /\ \E k \in Key \ usedKeys :
          /\ key' = k
          /\ keyOnDisk' = keyOnDisk \cup {k}
          /\ usedKeys' = usedKeys \cup {k}
          /\ got' = [got EXCEPT ![p] = k]
    /\ pc' = [pc EXCEPT ![p] = "syncKey"]
    /\ UNCHANGED <<keyDir, docVars, archives, lock, cmd, call, seen, vals, edit,
                   pending, acked, usedEdits, outages>>

\* fsync of the file: what the directory entry leads to is complete.
SyncKey(p) ==
    /\ pc[p] = "syncKey"
    /\ keyOnDisk' = keyOnDisk \ {Torn}
    /\ pc' = [pc EXCEPT ![p] = "syncKeyDir"]
    /\ UNCHANGED <<key, keyDir, usedKeys, docVars, archives, lock, cmd, call, seen,
                   vals, edit, got, pending, acked, usedEdits, outages>>

\* fsync of the directory: the entry is on disk in it, if it is on disk itself.
KeyEntryUnsynced == keyOnDisk
KeyEntrySynced == {key}
SyncKeyDir(p) ==
    /\ pc[p] = "syncKeyDir"
    /\ keyOnDisk' = KeyEntrySynced
    /\ pc' = [pc EXCEPT ![p] = call[p]]
    /\ UNCHANGED <<key, keyDir, usedKeys, docVars, archives, lock, cmd, call, seen,
                   vals, edit, got, pending, acked, usedEdits, outages>>

-----------------------------------------------------------------------------
(* backup(target), the replacement of the file, and the snapshots.         *)

\* The snapshot holds the ciphertext as it is, or the plaintext sealed now.
\* Archives are written with atomic_write_private under fresh names.
ArchivedAsRead(p) == seen[p]
Archived(p) ==
    Sealed(IF IsEncrypted(seen[p]) THEN seen[p].seal ELSE got[p], seen[p].content)

Archive(p) ==
    /\ pc[p] = "archive"
    /\ archives' = [archives EXCEPT ![HomeOf[p]] = @ \cup {Archived(p)}]
    /\ pc' = [pc EXCEPT ![p] = "key"]
    /\ call' = [call EXCEPT ![p] = "seal"]
    /\ UNCHANGED <<keyVars, docVars, lock, cmd, seen, vals, edit, got, pending,
                   acked, usedEdits, outages>>

\* atomic_write_private up to os.replace: the new document is visible, and a
\* power loss may still leave the old one.
Replace(p) ==
    /\ pc[p] = "seal"
    /\ LET h == HomeOf[p]
           new == Sealed(got[p], vals[p])
       IN /\ doc' = [doc EXCEPT ![h] = new]
          /\ docOnDisk' = [docOnDisk EXCEPT ![h] = @ \cup {new}]
    /\ pc' = [pc EXCEPT ![p] = "syncDoc"]
    /\ UNCHANGED <<keyVars, homeDir, archives, lock, cmd, call, seen, vals, edit,
                   got, pending, acked, usedEdits, outages>>

\* Its directory sync, and the end of write_values: the new fingerprint is
\* remembered, the lock released, and the user told.
SaveDone(p) ==
    IF cmd[p] = "tui"
    THEN /\ Unlock(p)
         /\ pc' = [pc EXCEPT ![p] = "ready"]
         /\ call' = [call EXCEPT ![p] = "archive"]
         /\ seen' = [seen EXCEPT ![p] = Sealed(got[p], vals[p])]
         /\ edit' = [edit EXCEPT ![p] = NoEdit]
         /\ got' = [got EXCEPT ![p] = NoKey]
         /\ UNCHANGED <<cmd, vals, pending>>
    ELSE IF pending[p]
    THEN /\ Unlock(p)
         /\ pc' = [pc EXCEPT ![p] = "lock"]
         /\ call' = [call EXCEPT ![p] = "snapshots"]
         /\ seen' = [seen EXCEPT ![p] = Sealed(got[p], vals[p])]
         /\ got' = [got EXCEPT ![p] = NoKey]
         /\ UNCHANGED <<cmd, vals, edit, pending>>
    ELSE Exit(p)

\* fsync of the home's directory: the document's entry is safe in it, though
\* not the directory itself.
NoSync(h) == docOnDisk' = docOnDisk
SyncDir(h) == docOnDisk' = [docOnDisk EXCEPT ![h] = {doc[h]}]

SyncDocument(p) ==
    /\ pc[p] = "syncDoc"
    /\ SyncDir(HomeOf[p])
    /\ acked' = [acked EXCEPT ![HomeOf[p]] = @ \cup ({edit[p]} \ {NoEdit})]
    /\ SaveDone(p)
    /\ UNCHANGED <<keyVars, doc, homeDir, archives, usedEdits, outages>>

\* migrate_legacy_snapshots, one archive replaced at a time.
Converted(a, k) == Sealed(k, a.content)
ConvertSnapshot(p) ==
    /\ pc[p] = "snapshots"
    /\ \E a \in PlaintextSnapshots(HomeOf[p]) :
          archives' = [archives EXCEPT ![HomeOf[p]] =
                           (@ \ {a}) \cup {Converted(a, got[p])}]
    /\ UNCHANGED <<keyVars, docVars, lock, locals, acked, usedEdits, outages>>

SnapshotsDone(p) ==
    /\ pc[p] = "snapshots" /\ PlaintextSnapshots(HomeOf[p]) = {}
    /\ Exit(p)
    /\ UNCHANGED <<files, acked, usedEdits, usedKeys, outages>>

-----------------------------------------------------------------------------
(* What goes wrong around the program.                                     *)

\* An operation of a save or a migration fails (no space, an I/O error, a
\* loader that cannot be written): whatever it did so far stays done.
IOError(p) ==
    /\ "io" \in Faults
    /\ pc[p] \in Locked \cup {"lock"}
    /\ Fail(p)
    /\ UNCHANGED <<files, usedKeys>>

Kill(p) ==
    /\ "kill" \in Faults
    /\ pc[p] # "idle"
    /\ Exit(p)
    /\ UNCHANGED <<files, acked, usedEdits, usedKeys, outages>>

\* Of a directory envman has made: the entry is lost, with all that is in the
\* directory, or has reached the disk by itself.
Lost(d) == d = "made"
Survivor(d, gone) == IF gone THEN "none" ELSE IF d = "made" THEN "kept" ELSE d

\* What the key's directory holds after the loss, and the home directories in
\* `gone` being lost what the homes hold.
LoseKey(gone) ==
    /\ gone => Lost(keyDir)
    /\ keyDir' = Survivor(keyDir, gone)
    /\ key' \in IF gone THEN {NoKey} ELSE keyOnDisk
    /\ keyOnDisk' = {key'}
    /\ keysLost' = keysLost \cup (IF gone THEN {key} \cap Key ELSE {})

LoseHomes(gone) ==
    /\ \A h \in gone : Lost(homeDir[h])
    /\ homeDir' = [h \in Home |-> Survivor(homeDir[h], h \in gone)]
    /\ \E d \in [Home -> UNION {docOnDisk[h] : h \in Home} \cup {Absent}] :
          /\ \A h \in Home : d[h] \in IF h \in gone THEN {Absent} ELSE docOnDisk[h]
          /\ doc' = d
          /\ docOnDisk' = [h \in Home |-> {d[h]}]
    /\ archives' = [h \in Home |-> IF h \in gone THEN {} ELSE archives[h]]
    /\ acked' = [h \in Home |-> IF h \in gone THEN {} ELSE acked[h]]

PowerLoss ==
    /\ "loss" \in Faults /\ losses < MaxLosses
    /\ losses' = losses + 1
    /\ \E gone \in BOOLEAN : LoseKey(gone)
    /\ \E gone \in SUBSET Home : LoseHomes(gone)
    /\ lock' = [h \in Home |-> NoProc]
    /\ pc' = [p \in Proc |-> "idle"]
    /\ cmd' = [p \in Proc |-> "read"]
    /\ call' = [p \in Proc |-> "archive"]
    /\ seen' = [p \in Proc |-> Absent]
    /\ vals' = [p \in Proc |-> {}]
    /\ edit' = [p \in Proc |-> NoEdit]
    /\ got' = [p \in Proc |-> NoKey]
    /\ pending' = [p \in Proc |-> FALSE]
    /\ UNCHANGED <<usedEdits, usedKeys>>

\* The user removes storage.key, though not while a process is creating it.
RemoveKey ==
    /\ "rmkey" \in Faults
    /\ key \in Key
    /\ \A p \in Proc : pc[p] \notin {"write", "syncKey", "syncKeyDir"}
    /\ key' = NoKey /\ keyOnDisk' = {NoKey}
    /\ UNCHANGED <<keyDir, docVars, archives, lock, locals, acked, usedEdits,
                   usedKeys, outages>>

-----------------------------------------------------------------------------
(* The steps a process takes by itself once a command has been given.      *)
Step(p) ==
    \/ LoadMissing(p) \/ LoadDocument(p) \/ LoadKey(p)
    \/ Decline(p) \/ Migrate(p) \/ Check(p) \/ RefuseStale(p)
    \/ ReadKey(p) \/ CreateKey(p) \/ WriteKey(p) \/ SyncKey(p) \/ SyncKeyDir(p)
    \/ Archive(p) \/ Replace(p) \/ SyncDocument(p)
    \/ ConvertSnapshot(p) \/ SnapshotsDone(p)

User(p) ==
    \/ \E c \in Command : Start(p, c)
    \/ \E e \in Edit : Change(p, e)
    \/ Quit(p)

Fault(p) == IOError(p) \/ Kill(p)

Next ==
    \/ \E p \in Proc : Step(p) \/ AcquireLock(p) \/ User(p) \/ Fault(p)
    \/ PowerLoss
    \/ RemoveKey

Spec == Init /\ [][Next]_vars

\* A running process goes on; a process waiting for the flock gets it if the
\* lock becomes free again and again (the kernel wakes the waiters).
FairSpec ==
    /\ Spec
    /\ \A p \in Proc : WF_vars(Step(p)) /\ SF_vars(AcquireLock(p))

-----------------------------------------------------------------------------
(* Properties.                                                             *)

TypeOK ==
    /\ key \in Key \cup {NoKey, Torn}
    /\ keyOnDisk \subseteq Key \cup {NoKey, Torn}
    /\ keyDir \in {"none", "made", "kept"} /\ homeDir \in [Home -> {"none", "made", "kept"}]
    /\ doc \in [Home -> Document]
    /\ docOnDisk \in [Home -> SUBSET Document]
    /\ archives \in [Home -> SUBSET Document]
    /\ lock \in [Home -> Proc \cup {NoProc}]
    /\ pc \in [Proc -> PCs]
    /\ cmd \in [Proc -> Command]
    /\ call \in [Proc -> {"archive", "seal", "snapshots"}]
    /\ seen \in [Proc -> Document]
    /\ vals \in [Proc -> SUBSET Edit]
    /\ edit \in [Proc -> Edit \cup {NoEdit}]
    /\ got \in [Proc -> Key \cup {NoKey}]
    /\ pending \in [Proc -> BOOLEAN]
    /\ acked \in [Home -> SUBSET Edit]
    /\ usedEdits \subseteq Edit
    /\ usedKeys \subseteq Key /\ keysLost \subseteq Key

\* Every encrypted document and snapshot opens with the one storage key there
\* is: whoever finds a ciphertext finds its key, complete.
Readable ==
    \A h \in Home : \A d \in {doc[h]} \cup archives[h] :
        IsEncrypted(d) => key = d.seal

\* Once the document is encrypted no other key takes its key's place: a key
\* that went missing is never generated anew.
KeyMatches ==
    \A h \in Home : IsEncrypted(doc[h]) => key \in {doc[h].seal, NoKey}

\* A reader, which takes no lock, reads the document and then the key: if it
\* has read a ciphertext it is never refused.
ReaderFindsKey ==
    \A p \in Proc :
        pc[p] = "loadkey" /\ IsEncrypted(seen[p]) => Opens(p)

\* Whatever power loss follows, as long as it spares the directories: an edit
\* reported as saved is in the document it leaves, and so is, in its own
\* directory, the key that opens the document (a key that was lost with a new
\* directory before is gone for good).
AckedSurvives ==
    \A h \in Home : \A d \in docOnDisk[h] :
        /\ acked[h] \subseteq d.content
        /\ IsEncrypted(d) /\ d.seal \notin keysLost => keyOnDisk = {d.seal}

\* Whoever finds a ciphertext finds its key, complete: also after a power loss,
\* unless that took the key with the key's new directory.
ReadableUnlessLost ==
    \A h \in Home : \A d \in {doc[h]} \cup archives[h] :
        IsEncrypted(d) /\ d.seal \notin keysLost => key = d.seal

\* No writer that lost track of the file replaces it: an edit whose save was
\* reported as done stays in the document.
NoLostUpdate == \A h \in Home : acked[h] \subseteq doc[h].content

\* After a failed save the open catalog shows exactly the document it was
\* loaded from or last wrote.
RollbackExact ==
    \A p \in Proc :
        cmd[p] = "tui" /\ pc[p] = "ready" => vals[p] = seen[p].content

\* A document is replaced only after an encrypted snapshot of it was taken.
SnapshotFirst ==
    [][\A h \in Home :
          doc'[h] # doc[h] /\ doc[h].seal # Missing =>
              \E a \in archives[h] : IsEncrypted(a) /\ a.content = doc[h].content]_vars

\* An encrypted document keeps its key: saving never seals it anew with
\* another one, nor in the clear.
NeverRekeyed ==
    [][\A h \in Home : IsEncrypted(doc[h]) => doc'[h].seal = doc[h].seal]_vars

\* No step adds a plaintext snapshot, and none loses what a snapshot holds,
\* except with the whole directory of the home.
SnapshotsOnlySealed ==
    [][\A h \in Home :
          /\ PlaintextSnapshots(h)' \subseteq PlaintextSnapshots(h)
          /\ homeDir'[h] # "none" =>
                {a.content : a \in archives[h]} \subseteq {a.content : a \in archives'[h]}]_vars

\* Behind the files there is a register of edits, anchored where the home's
\* directory is on disk.
Register == INSTANCE EditRegister WITH
    content <- [h \in Home |-> doc[h].content],
    floor <- [h \in Home |-> {e \in Edit : \A d \in docOnDisk[h] : e \in d.content}],
    acked <- acked,
    anchored <- [h \in Home |-> homeDir[h] = "kept"]

ImplementsRegister == Register!Spec

\* Every command that was given ends, and a save in the catalog returns to
\* it: no process waits for the lock for ever.
AtRest(p) == pc[p] = "idle" \/ (pc[p] = "ready" /\ cmd[p] = "tui")
CommandsFinish == \A p \in Proc : ~AtRest(p) ~> AtRest(p)

\* architecture.md: "If a key already exists with a plaintext active file,
\* ... migrate-storage --apply explicitly recovers and converts that
\* interrupted state".  So under its lock the migration can use the key.
MigrationRecovers ==
    \A p \in Proc :
        cmd[p] = "migrate" /\ pc[p] = "key" /\ doc[HomeOf[p]].seal = Plain
            => key \in Key \cup {NoKey}

=============================================================================
