------------------------------ MODULE BackupKey ------------------------------
(***************************************************************************)
(* The credential of encrypted backups and the backups made with it:       *)
(* generate_encryption_key, configured_encryption_key,                     *)
(* write_encrypted_backup and encrypted_backup_variables in cli.py, as run *)
(* by concurrent `key`, `export` and `import-backup` commands and TUI      *)
(* sessions.  There is no lock: a key appears by link(2), a backup by      *)
(* rename(2).                                                              *)
(***************************************************************************)
EXTENDS Naturals

CONSTANTS
    Proc,      \* processes, each running one command at a time
    Key,       \* the keys Fernet.generate_key can return
    Password,  \* values of ENVMAN_BACKUP_KEY
    Variables, \* what the store may hold when it is exported
    Backup,    \* paths of backups
    NoKey,     \* no key file; ENVMAN_BACKUP_KEY is not set
    Malformed, \* a file whose contents are not all there
    Absent,    \* no backup at that path
    MaxEvents  \* bound on the number of kills, power losses and user's changes

\* A backup: the key or password it was sealed with, and what is in it.
Envelope == [seal : Key \cup Password, content : Variables]

ASSUME NamesAssumption ==
    /\ Key \cap Password = {}
    /\ (Key \cup Password) \cap {NoKey, Malformed} = {}
    /\ NoKey # Malformed /\ Absent # Malformed
    /\ Absent \notin Backup \cup Variables
    /\ {Absent, Malformed} \cap Envelope = {}
    /\ MaxEvents \in Nat

VARIABLES
    keyFile,   \* encryption.key as a reader sees it
    keyOnDisk, \* the states a power loss may leave it in
    temp,      \* temp[p]: the key file p prepares, and what of it is on disk
    backup,    \* backup[b]: the file at path b
    onDisk,    \* onDisk[b]: the states a power loss may leave it in
    part,      \* part[p]: the temporary file of an export
    job,       \* job[p]: the command p runs
    \* history
    byUser,    \* the user has written or removed the key file
    keyLost,   \* a power loss has undone the creation of the key file
    events     \* kills, power losses and changes by the user

keyVars == <<keyFile, keyOnDisk, byUser, keyLost>>
backupVars == <<backup, onDisk>>
vars == <<keyFile, keyOnDisk, temp, backup, onDisk, part, job, byUser, keyLost,
          events>>

NoTemp == [key |-> NoKey, disk |-> NoKey]
PCs == {"idle", "configured", "stat", "write", "sync", "link", "reread",
        "seal", "fill", "replace", "read", "open", "preview"}
Job == [pc : PCs, env : Password \cup {NoKey}, approved : BOOLEAN,
        path : Backup \cup {Absent}, content : Variables \cup {Absent},
        file : Envelope \cup {Malformed, Absent}]

Idle == [pc |-> "idle", env |-> NoKey, approved |-> FALSE, path |-> Absent,
         content |-> Absent, file |-> Absent]

Init ==
    /\ keyFile = NoKey /\ keyOnDisk = {NoKey}
    /\ temp = [p \in Proc |-> NoTemp]
    /\ backup = [b \in Backup |-> Absent]
    /\ onDisk = [b \in Backup |-> {Absent}]
    /\ part = [p \in Proc |-> Absent]
    /\ job = [p \in Proc |-> Idle]
    /\ byUser = FALSE /\ keyLost = FALSE
    /\ events = 0

-----------------------------------------------------------------------------
At(p, c) == job[p].pc = c
GoTo(p, c) == job' = [job EXCEPT ![p].pc = c]

\* A command ends, in whichever way; its temporary files are removed, or stay
\* under names nothing refers to.
End(p) ==
    /\ job' = [job EXCEPT ![p] = Idle]
    /\ temp' = [temp EXCEPT ![p] = NoTemp]
    /\ part' = [part EXCEPT ![p] = Absent]

\* backup_password: the environment variable, or else the key file.
Configured(p) == IF job[p].env # NoKey THEN job[p].env ELSE keyFile
AnyAnswer(k) == TRUE
IsUsable(k) == k \in Key \cup Password

-----------------------------------------------------------------------------
(* `key --generate --approve-key-generation`, and the start of a TUI       *)
(* session, which asks for the approval if no key is configured.           *)

StartKey(p, e) ==
    /\ At(p, "idle")
    /\ \E approved \in BOOLEAN :
          job' = [job EXCEPT ![p] = [Idle EXCEPT !.pc = "configured", !.env = e,
                                                 !.approved = approved]]
    /\ UNCHANGED <<keyVars, backupVars, temp, part, events>>

\* A configured key is left alone, a malformed key file is an error, and
\* without approval nothing happens.
NotAsked(p) == TRUE
Approved(p) == job[p].approved

AskKey(p) ==
    /\ At(p, "configured")
    /\ \/ /\ Configured(p) = NoKey /\ Approved(p)
          /\ GoTo(p, "stat")
          /\ UNCHANGED <<temp, part>>
       \/ /\ Configured(p) = NoKey => ~Approved(p)
          /\ End(p)
    /\ UNCHANGED <<keyVars, backupVars, events>>

\* generate_encryption_key: an existing file is read, not replaced.
StatKey(p) ==
    /\ At(p, "stat")
    /\ \/ /\ keyFile = NoKey
          /\ temp' = [temp EXCEPT ![p] = [key |-> Malformed, disk |-> Malformed]]
          /\ GoTo(p, "write")
       \/ /\ keyFile # NoKey
          /\ GoTo(p, "reread")
          /\ UNCHANGED temp
    /\ UNCHANGED <<keyVars, backupVars, part, events>>

WriteTemp(p) ==
    /\ At(p, "write")
    /\ \E k \in Key : temp' = [temp EXCEPT ![p].key = k]
    /\ GoTo(p, "sync")
    /\ UNCHANGED <<keyVars, backupVars, part, events>>

NotSynced(p) == temp[p].disk
Synced(p) == temp[p].key

SyncTemp(p) ==
    /\ At(p, "sync")
    /\ temp' = [temp EXCEPT ![p].disk = Synced(p)]
    /\ GoTo(p, "link")
    /\ UNCHANGED <<keyVars, backupVars, part, events>>

\* link(2) fails if there is a key file by now.  Its directory is not
\* synchronised: a power loss may take the entry away.
Anyway == TRUE
IsFree == keyFile = NoKey

LinkKey(p) ==
    /\ At(p, "link")
    /\ \/ /\ IsFree
          /\ keyFile' = temp[p].key
          /\ keyOnDisk' = keyOnDisk \cup {temp[p].disk}
          /\ End(p)
       \/ /\ ~IsFree
          /\ GoTo(p, "reread")
          /\ UNCHANGED <<keyFile, keyOnDisk, temp, part>>
    /\ UNCHANGED <<byUser, keyLost, backupVars, events>>

\* The existing key is read and reported as the outcome, or is malformed or
\* gone, which is an error.
RereadKey(p) ==
    /\ At(p, "reread")
    /\ End(p)
    /\ UNCHANGED <<keyVars, backupVars, events>>

-----------------------------------------------------------------------------
(* `export`, and B in the TUI.                                             *)

StartExport(p, e, b, v) ==
    /\ At(p, "idle")
    /\ job' = [job EXCEPT ![p] = [Idle EXCEPT !.pc = "seal", !.env = e,
                                              !.path = b, !.content = v]]
    /\ UNCHANGED <<keyVars, backupVars, temp, part, events>>

\* encrypted_backup_envelope: no key, or a malformed one, is an error.
SealBackup(p) ==
    /\ At(p, "seal")
    /\ \/ /\ IsUsable(Configured(p))
          /\ job' = [job EXCEPT ![p].file = [seal |-> Configured(p),
                                             content |-> job[p].content],
                                ![p].pc = "fill"]
          /\ part' = [part EXCEPT ![p] = Malformed]
          /\ UNCHANGED temp
       \/ /\ ~IsUsable(Configured(p))
          /\ End(p)
    /\ UNCHANGED <<keyVars, backupVars, events>>

\* The contents of the temporary file; they are not synchronised.
Unfilled(p) == part[p]
Filled(p) == job[p].file

FillBackup(p) ==
    /\ At(p, "fill")
    /\ part' = [part EXCEPT ![p] = Filled(p)]
    /\ GoTo(p, "replace")
    /\ UNCHANGED <<keyVars, backupVars, temp, events>>

ReplaceBackup(p) ==
    /\ At(p, "replace")
    /\ backup' = [backup EXCEPT ![job[p].path] = part[p]]
    /\ onDisk' = [onDisk EXCEPT ![job[p].path] = @ \cup {part[p], Malformed}]
    /\ End(p)
    /\ UNCHANGED <<keyVars, events>>

-----------------------------------------------------------------------------
(* `import-backup`, and J in the TUI, up to the preview of the candidates. *)

StartImport(p, e, b) ==
    /\ At(p, "idle")
    /\ job' = [job EXCEPT ![p] = [Idle EXCEPT !.pc = "read", !.env = e, !.path = b]]
    /\ UNCHANGED <<keyVars, backupVars, temp, part, events>>

ReadBackup(p) ==
    /\ At(p, "read")
    /\ \/ /\ backup[job[p].path] \notin {Absent, Malformed}
          /\ job' = [job EXCEPT ![p].pc = "open", ![p].file = backup[job[p].path]]
          /\ UNCHANGED <<temp, part>>
       \/ backup[job[p].path] \in {Absent, Malformed} /\ End(p)
    /\ UNCHANGED <<keyVars, backupVars, events>>

\* The key is looked up after the file was read.
Opens(p) == job[p].file.seal = Configured(p)

OpenBackup(p) ==
    /\ At(p, "open")
    /\ \/ /\ Opens(p)
          /\ job' = [job EXCEPT ![p].content = job[p].file.content,
                                ![p].pc = "preview"]
          /\ UNCHANGED <<temp, part>>
       \/ ~Opens(p) /\ End(p)
    /\ UNCHANGED <<keyVars, backupVars, events>>

ClosePreview(p) ==
    /\ At(p, "preview")
    /\ End(p)
    /\ UNCHANGED <<keyVars, backupVars, events>>

-----------------------------------------------------------------------------
(* The surroundings.                                                       *)

Happens == events < MaxEvents /\ events' = events + 1

Kill(p) ==
    /\ ~At(p, "idle")
    /\ Happens
    /\ End(p)
    /\ UNCHANGED <<keyVars, backupVars>>

\* The user brings a key of another machine, in two writes, or removes the key.
Provision ==
    /\ Happens
    /\ keyFile' \in {NoKey, Malformed} \ {keyFile}
    /\ keyOnDisk' = {keyFile'}
    /\ byUser' = TRUE
    /\ UNCHANGED <<keyLost, temp, part, job, backupVars>>

FinishProvision ==
    /\ byUser /\ keyFile = Malformed
    /\ keyFile' \in Key
    /\ keyOnDisk' = {keyFile'}
    /\ UNCHANGED <<byUser, keyLost, temp, part, job, backupVars, events>>

\* Every process ends.  An entry that was not synchronised may be gone or be
\* the one before it, and a file that was not may have lost its contents.
PowerLoss ==
    /\ Happens
    /\ keyFile' \in keyOnDisk
    /\ keyOnDisk' = {keyFile'}
    /\ keyLost' = (keyLost \/ keyFile' # keyFile)
    /\ backup' \in {f \in [Backup -> UNION {onDisk[b] : b \in Backup}] :
                       \A b \in Backup : f[b] \in onDisk[b]}
    /\ onDisk' = [b \in Backup |-> {backup'[b]}]
    /\ job' = [p \in Proc |-> Idle]
    /\ temp' = [p \in Proc |-> NoTemp]
    /\ part' = [p \in Proc |-> Absent]
    /\ UNCHANGED byUser

-----------------------------------------------------------------------------
Start(p) ==
    \E e \in Password \cup {NoKey} :
        \/ StartKey(p, e)
        \/ \E b \in Backup :
              StartImport(p, e, b) \/ \E v \in Variables : StartExport(p, e, b, v)

Step(p) ==
    \/ AskKey(p) \/ StatKey(p) \/ WriteTemp(p) \/ SyncTemp(p) \/ LinkKey(p)
    \/ RereadKey(p) \/ SealBackup(p) \/ FillBackup(p) \/ ReplaceBackup(p)
    \/ ReadBackup(p) \/ OpenBackup(p) \/ ClosePreview(p)

Next ==
    \/ \E p \in Proc : Start(p) \/ Step(p) \/ Kill(p)
    \/ Provision \/ FinishProvision \/ PowerLoss

Spec == Init /\ [][Next]_vars

-----------------------------------------------------------------------------
(* Properties.                                                             *)

Files == Envelope \cup {Malformed, Absent}

TypeOK ==
    /\ keyFile \in Key \cup {NoKey, Malformed}
    /\ keyOnDisk \subseteq Key \cup {NoKey, Malformed} /\ keyFile \in keyOnDisk
    /\ temp \in [Proc -> [key : Key \cup {NoKey, Malformed},
                          disk : Key \cup {NoKey, Malformed}]]
    /\ backup \in [Backup -> Files]
    /\ onDisk \in [Backup -> SUBSET Files]
    /\ \A b \in Backup : backup[b] \in onDisk[b]
    /\ part \in [Proc -> Files]
    /\ job \in [Proc -> Job]
    /\ byUser \in BOOLEAN /\ keyLost \in BOOLEAN
    /\ events \in 0..MaxEvents

\* Commands and sessions never replace or damage a key that is there: the key
\* file changes from none to a complete key, by one that asked for approval and
\* found no key in the environment, or it is the user or a power loss.
KeyStands ==
    [][keyFile' # keyFile =>
          \/ Provision \/ FinishProvision \/ PowerLoss
          \/ /\ keyFile = NoKey /\ keyFile' \in Key
             /\ \E p \in Proc :
                   At(p, "link") /\ job[p].approved /\ job[p].env = NoKey]_vars

\* A reader finds an incomplete key only if the user put it there: not while a
\* key is generated, and not after a kill or a power loss.
PartialOnlyByUser == Malformed \in keyOnDisk => byUser

\* Whatever was sealed with a key file, in a backup or in the hands of an
\* export or an import, opens with the key file there is now, until the user
\* changes it or a power loss undoes its creation.
Sealed == {backup[b] : b \in Backup} \cup {job[p].file : p \in Proc}
              \cup {part[p] : p \in Proc}
ExportOpens ==
    byUser \/ keyLost
    \/ \A f \in Sealed \cap Envelope : f.seal \in Key => f.seal = keyFile

\* An export that is killed or fails leaves the backup it would have replaced;
\* only a power loss can leave an incomplete backup or remove one.
BackupWhole ==
    [][\A b \in Backup : backup'[b] # backup[b] =>
          backup'[b] \in Envelope \/ PowerLoss]_vars

=============================================================================
