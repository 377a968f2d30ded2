-------------------------- MODULE EnvStoreKeyProofs --------------------------
(* More theorems about EnvStore: the snapshots that precede a replacement, *)
(* the key a document keeps, and what is left of both by a power loss.     *)
EXTENDS EnvStoreProofs

-----------------------------------------------------------------------------
(* The steps of a process, by what they do to the files.                   *)

Mine(p) == Step(p) \/ AcquireLock(p) \/ User(p) \/ Fault(p)

\* A step after which p is outside its critical section: it changes no file,
\* or synchronises the document it has replaced.
Leaves(p) ==
    /\ pc'[p] \notin Locked
    /\ UNCHANGED <<key, keyOnDisk, doc, archives>>
    /\ docOnDisk' = docOnDisk \/ SyncDocument(p)

LEMMA ExitLeaves ==
    ASSUME TypeInv, NEW p \in Proc, Exit(p),
           UNCHANGED <<key, keyOnDisk, doc, docOnDisk, archives>>
    PROVE  Leaves(p)
  BY DEF Exit, TypeInv, TypeOK, Leaves, Locked

LEMMA FailLeaves ==
    ASSUME TypeInv, NEW p \in Proc, Fail(p),
           UNCHANGED <<key, keyOnDisk, doc, docOnDisk, archives>>
    PROVE  Leaves(p)
<1>1. CASE BackToCatalog(p)
  BY <1>1 DEF BackToCatalog, TypeInv, TypeOK, Leaves, Locked
<1> QED BY <1>1, ExitLeaves DEF Fail

\* What the steps of load_or_create_file_key do that do not fail: they find a
\* complete key, or none, or create an empty key file.
Obtains(p) ==
    /\ pc[p] \in {"key", "create"} /\ key \in Key
    /\ pc' = [pc EXCEPT ![p] = call[p]]
    /\ got' = [got EXCEPT ![p] = key]
    /\ UNCHANGED <<key, keyOnDisk, doc, docOnDisk, archives, call, seen>>

StartsKey(p) ==
    /\ pc[p] = "key" /\ key = NoKey /\ MayCreate(p)
    /\ pc' = [pc EXCEPT ![p] = "create"]
    /\ UNCHANGED <<key, keyOnDisk, doc, docOnDisk, archives, call, seen, got>>

OpensKey(p) ==
    /\ pc[p] = "create" /\ key = NoKey
    /\ key' = Torn /\ keyOnDisk' = keyOnDisk \cup {Torn}
    /\ pc' = [pc EXCEPT ![p] = "write"]
    /\ UNCHANGED <<doc, docOnDisk, archives, call, seen, got>>

LEMMA ReadKeyKinds ==
    ASSUME TypeInv, NEW p \in Proc, ReadKey(p)
    PROVE  Leaves(p) \/ Obtains(p) \/ StartsKey(p)
<1>1. CASE Fail(p)
  BY <1>1, FailLeaves DEF ReadKey, docVars
<1>2. CASE IsComplete(key) /\ Obtain(p, key)
  BY <1>2 DEF ReadKey, Obtain, IsComplete, docVars, Obtains
<1>3. CASE ~Fail(p) /\ ~(IsComplete(key) /\ Obtain(p, key))
  BY <1>3 DEF ReadKey, docVars, StartsKey
<1> QED BY <1>1, <1>2, <1>3

LEMMA CreateKeyKinds ==
    ASSUME TypeInv, NEW p \in Proc, CreateKey(p)
    PROVE  Leaves(p) \/ Obtains(p) \/ OpensKey(p)
<1>1. CASE Fail(p) /\ UNCHANGED <<key, keyOnDisk>>
  BY <1>1, FailLeaves DEF CreateKey, docVars
<1>2. CASE Obtain(p, key) /\ key \in Key /\ UNCHANGED <<key, keyOnDisk>>
  BY <1>2 DEF CreateKey, Obtain, docVars, Obtains
<1>3. CASE OpenedExclusively(p)
  BY <1>1, <1>2, <1>3 DEF CreateKey, OpenedExclusively, docVars, OpensKey
<1> QED BY <1>1, <1>2, <1>3 DEF CreateKey, IsComplete

LEMMA StepKinds ==
    ASSUME TypeInv, NEW p \in Proc, Mine(p), ~Leaves(p)
    PROVE  \/ AcquireLock(p) \/ Check(p)
           \/ Obtains(p) \/ StartsKey(p) \/ OpensKey(p)
           \/ WriteKey(p) \/ SyncKey(p) \/ SyncKeyDir(p)
           \/ Archive(p) \/ Replace(p) \/ ConvertSnapshot(p)
<1> USE DEF TypeInv, TypeOK
<1>1. CASE LoadMissing(p) \/ LoadDocument(p) \/ LoadKey(p) \/ Decline(p) \/ Migrate(p) \/ SnapshotsDone(p)
  <2>1. CASE Exit(p)
    BY <1>1, <2>1, ExitLeaves DEF LoadMissing, LoadDocument, LoadKey, Decline, Migrate,
       SnapshotsDone, files
  <2>2. CASE ~Exit(p)
    BY <1>1, <2>2 DEF LoadMissing, LoadDocument, LoadKey, Decline, Migrate, SnapshotsDone, files,
       Leaves, Locked
  <2> QED BY <2>1, <2>2
<1>2. CASE RefuseStale(p)
  BY <1>2, FailLeaves DEF RefuseStale, files
<1>3. CASE ReadKey(p) \/ CreateKey(p)
  BY <1>3, ReadKeyKinds, CreateKeyKinds
<1>4. CASE SyncDocument(p)
  <2>1. pc'[p] \in {"idle", "ready", "lock"}
    BY <1>4 DEF SyncDocument, SaveDone, Exit
  <2> QED BY <1>4, <2>1 DEF SyncDocument, keyVars, Leaves, Locked
<1>5. CASE User(p)
  BY <1>5, ExitLeaves DEF User, Start, Change, Quit, files, Leaves, Locked
<1>6. CASE Fault(p)
  BY <1>6, ExitLeaves, FailLeaves DEF Fault, IOError, Kill, files
<1> QED
  BY <1>1, <1>2, <1>3, <1>4, <1>5, <1>6 DEF Mine, Step

\* What a process has in memory is nobody else's to change.
LEMMA OthersStand ==
    ASSUME TypeInv, NEW p \in Proc, Mine(p), NEW q \in Proc, q # p
    PROVE  pc'[q] = pc[q] /\ call'[q] = call[q] /\ seen'[q] = seen[q] /\ got'[q] = got[q]
<1> USE DEF TypeInv, TypeOK
<1>1. CASE Exit(p)
  BY <1>1 DEF Exit
<1>2. CASE Fail(p)
  BY <1>1, <1>2 DEF Fail, BackToCatalog
<1>3. CASE LoadMissing(p) \/ LoadDocument(p) \/ LoadKey(p) \/ Decline(p) \/ Migrate(p) \/ SnapshotsDone(p)
  BY <1>1, <1>3 DEF LoadMissing, LoadDocument, LoadKey, Decline, Migrate, SnapshotsDone
<1>4. CASE Check(p) \/ RefuseStale(p) \/ ReadKey(p)
  BY <1>2, <1>4 DEF Check, RefuseStale, ReadKey, Obtain
<1>5. CASE CreateKey(p) \/ WriteKey(p) \/ SyncKey(p) \/ SyncKeyDir(p)
  BY <1>2, <1>5 DEF CreateKey, Obtain, WriteKey, SyncKey, SyncKeyDir
<1>6. CASE Archive(p) \/ Replace(p) \/ ConvertSnapshot(p)
  BY <1>6 DEF Archive, Replace, ConvertSnapshot, locals
<1>7. CASE SyncDocument(p)
  BY <1>1, <1>7 DEF SyncDocument, SaveDone
<1>8. CASE AcquireLock(p) \/ User(p)
  BY <1>1, <1>8 DEF AcquireLock, User, Start, Change, Quit
<1>9. CASE Fault(p)
  BY <1>1, <1>2, <1>9 DEF Fault, IOError, Kill
<1> QED
  BY <1>3, <1>4, <1>5, <1>6, <1>7, <1>8, <1>9 DEF Mine, Step

\* No process loses a key.
LEMMA NoKeyLost ==
    ASSUME NEW p \in Proc, Mine(p)
    PROVE  keysLost' = keysLost
<1>1. CASE Fail(p)
  BY <1>1 DEF Fail, outages
<1>2. CASE ~Fail(p)
  BY <1>2 DEF Mine, Step, AcquireLock, User, Fault, LoadMissing, LoadDocument, LoadKey, Decline,
     Migrate, Check, RefuseStale, ReadKey, Obtain, CreateKey, WriteKey, SyncKey, SyncKeyDir,
     Archive, Replace, SyncDocument, ConvertSnapshot, SnapshotsDone, Start, Change, Quit,
     IOError, Kill, outages
<1> QED BY <1>1, <1>2

LEMMA NextCases ==
    ASSUME [Next]_vars
    PROVE  (\E p \in Proc : Mine(p)) \/ PowerLoss \/ RemoveKey \/ UNCHANGED vars
  BY DEF Next, Mine

-----------------------------------------------------------------------------
(* Snapshots.                                                              *)

\* An archive is only ever added, or replaced by its ciphertext, while the
\* power stays on.
LEMMA ArchivesGrow ==
    ASSUME TypeInv, [Next]_vars, NEW h \in Home, ~PowerLoss
    PROVE  /\ \A a \in archives'[h] :
                 a.seal = Plain => a \in archives[h]
           /\ \A a \in archives[h] :
                 \/ a \in archives'[h]
                 \/ ~IsEncrypted(a) /\ \E b \in archives'[h] : b.content = a.content
<1> USE NamesAssumption, HomeAssumption
<1> USE DEF TypeInv, TypeOK, IsEncrypted
<1>1. CASE UNCHANGED archives
  BY <1>1

<1>2. ASSUME NEW p \in Proc, Archive(p), h = HomeOf[p]
      PROVE  archives'[h] = archives[h] \cup {Archived(p)} /\ IsEncrypted(Archived(p))
  BY <1>2 DEF Archive, Archived, Sealed, KeyInHand
<1>3. ASSUME NEW p \in Proc, ConvertSnapshot(p), h = HomeOf[p]
      PROVE  \E a \in PlaintextSnapshots(h) :
                archives'[h] = (archives[h] \ {a}) \cup {Converted(a, got[p])}
  BY <1>3 DEF ConvertSnapshot
<1>4. ASSUME NEW p \in Proc, Mine(p)
      PROVE  archives'[h] = archives[h] \/ (h = HomeOf[p] /\ (Archive(p) \/ ConvertSnapshot(p)))
  <2>1. CASE Leaves(p)
    BY <2>1 DEF Leaves
  <2>2. CASE ~Leaves(p)
    <3>1. CASE Archive(p) \/ ConvertSnapshot(p)
      BY <3>1 DEF Archive, ConvertSnapshot
    <3>2. CASE ~(Archive(p) \/ ConvertSnapshot(p))
      BY <1>4, <2>2, <3>2, StepKinds DEF AcquireLock, Check, Obtains, StartsKey, OpensKey,
         WriteKey, SyncKey, SyncKeyDir, Replace, files
    <3> QED BY <3>1, <3>2
  <2> QED BY <2>1, <2>2
<1>5. CASE archives'[h] = archives[h]
  BY <1>5
<1>6. ASSUME NEW p \in Proc, ConvertSnapshot(p), h = HomeOf[p] PROVE got[p] \in Key
  BY <1>6 DEF ConvertSnapshot, KeyInHand
<1>7. CASE \E p \in Proc : Mine(p)
  <2>1. PICK p \in Proc : Mine(p)
    BY <1>7
  <2>2. CASE Archive(p) /\ h = HomeOf[p]
    BY <1>2, <2>2
  <2>3. CASE ConvertSnapshot(p) /\ h = HomeOf[p]
    <3>1. PICK a \in PlaintextSnapshots(h) :
                archives'[h] = (archives[h] \ {a}) \cup {Converted(a, got[p])}
      BY <1>3, <2>3
    <3>2. a.seal = Plain /\ Converted(a, got[p]).seal \in Key /\ Converted(a, got[p]).content = a.content
      BY <1>6, <2>3, <3>1 DEF PlaintextSnapshots, Converted, Sealed
    <3> QED BY <3>1, <3>2
  <2> QED BY <1>4, <1>5, <2>1, <2>2, <2>3
<1>8. CASE RemoveKey \/ UNCHANGED vars
  BY <1>8 DEF RemoveKey, vars
<1> QED BY <1>7, <1>8, NextCases

\* A power loss takes archives only with the whole directory.
LEMMA ArchivesLost ==
    ASSUME PowerLoss, NEW h \in Home
    PROVE  archives'[h] = archives[h] \/ (archives'[h] = {} /\ homeDir'[h] = "none")
  BY DEF PowerLoss, LoseHomes, Survivor

\* Migrating, saving and failing at either never adds a plaintext snapshot,
\* and never loses what one holds (backup, migrate_legacy_snapshots); only a
\* power loss that takes the home's new directory does.
THEOREM SnapshotsStaySealed == Spec => SnapshotsOnlySealed
<1>1. TypeInv /\ [Next]_vars =>
        [\A h \in Home :
          /\ PlaintextSnapshots(h)' \subseteq PlaintextSnapshots(h)
          /\ homeDir'[h] # "none" =>
                {a.content : a \in archives[h]} \subseteq {a.content : a \in archives'[h]}]_vars
  <2> SUFFICES ASSUME TypeInv, [Next]_vars, NEW h \in Home
               PROVE  /\ PlaintextSnapshots(h)' \subseteq PlaintextSnapshots(h)
                      /\ homeDir'[h] # "none" =>
                            {a.content : a \in archives[h]} \subseteq {a.content : a \in archives'[h]}
    OBVIOUS
  <2>1. PlaintextSnapshots(h)' \subseteq PlaintextSnapshots(h)
    BY ArchivesGrow, ArchivesLost DEF PlaintextSnapshots
  <2>2. ASSUME homeDir'[h] # "none", NEW a \in archives[h] PROVE \E b \in archives'[h] : b.content = a.content
    BY <2>2, ArchivesGrow, ArchivesLost
  <2> QED BY <2>1, <2>2
<1> QED BY <1>1, AlwaysInv, PTL DEF Spec, SnapshotsOnlySealed

-----------------------------------------------------------------------------
(* A document is archived before it is replaced.  Between its snapshot and *)
(* its replacement a save fetches the key to seal with, so what has to be  *)
(* kept is that the call for that key follows the snapshot.                *)

Covered(p) ==
    /\ pc[p] \in {"archive", "seal"} => call[p] = pc[p]
    /\ Saving(p) /\ call[p] = "seal" /\ seen[p].seal # Missing =>
          \E a \in archives[HomeOf[p]] : IsEncrypted(a) /\ a.content = seen[p].content

CoverInv == \A p \in Proc : Covered(p)

LEMMA CoverMine ==
    ASSUME TypeInv, CoverInv, NEW p \in Proc, Mine(p)
    PROVE  Covered(p)'
<1> USE NamesAssumption, HomeAssumption
<1> USE DEF TypeInv, TypeOK
<1>0. Covered(p)
  BY DEF CoverInv
<1>1. CASE Leaves(p) \/ AcquireLock(p) \/ Replace(p)
  <2>1. pc'[p] \notin Locked \/ pc'[p] = "check" \/ pc'[p] = "syncDoc" \/ (pc'[p] = "key" /\ call'[p] = "snapshots")
    BY <1>1 DEF Leaves, AcquireLock, Replace
  <2> QED BY <2>1 DEF Covered, Saving, Locked
<1>2. CASE Check(p)
  <2>1. /\ seen' = seen
        /\ pc' = [pc EXCEPT ![p] = IF IsEncrypted(seen[p]) THEN "archive" ELSE "key"]
        /\ call' = [call EXCEPT ![p] = IF seen[p].seal = Missing THEN "seal" ELSE "archive"]
    BY <1>2 DEF Check, AfterCheck
  <2>2. IsEncrypted(seen[p]) => seen[p].seal # Missing
    BY DEF IsEncrypted
  <2> QED BY <2>1, <2>2 DEF Covered
<1>3. CASE Obtains(p) \/ StartsKey(p) \/ OpensKey(p) \/ WriteKey(p) \/ SyncKey(p) \/ SyncKeyDir(p)
  <2>1. /\ pc[p] \in {"key", "create", "write", "syncKey", "syncKeyDir"}
        /\ \E l \in {"create", "write", "syncKey", "syncKeyDir", call[p]} : pc' = [pc EXCEPT ![p] = l]
        /\ UNCHANGED <<call, seen, archives>>
    BY <1>3 DEF Obtains, StartsKey, OpensKey, WriteKey, SyncKey, SyncKeyDir
  <2>2. pc'[p] \in {"create", "write", "syncKey", "syncKeyDir", call[p]}
    BY <2>1
  <2>3. Saving(p)' => Saving(p)
    BY <2>1, <2>2 DEF Saving
  <2> QED BY <1>0, <2>1, <2>2, <2>3 DEF Covered
<1>4. CASE Archive(p)
  <2>1. /\ archives'[HomeOf[p]] = archives[HomeOf[p]] \cup {Archived(p)}
        /\ pc'[p] = "key" /\ seen' = seen
    BY <1>4 DEF Archive
  <2>2. IsEncrypted(Archived(p)) /\ Archived(p).content = seen[p].content
    BY <1>4 DEF Archive, Archived, Sealed, IsEncrypted, KeyInHand
  <2> QED BY <2>1, <2>2 DEF Covered
<1>5. CASE ConvertSnapshot(p)
  <2>1. pc'[p] = "snapshots"
    BY <1>5 DEF ConvertSnapshot, locals
  <2> QED BY <2>1 DEF Covered, Saving
<1> QED BY <1>1, <1>2, <1>3, <1>4, <1>5, StepKinds

LEMMA CoverStep == TypeInv /\ CoverInv /\ [Next]_vars => CoverInv'
<1> SUFFICES ASSUME TypeInv, CoverInv, [Next]_vars, NEW q \in Proc PROVE Covered(q)'
  BY DEF CoverInv
<1>1. CASE ~PowerLoss /\ pc'[q] = pc[q] /\ call'[q] = call[q] /\ seen'[q] = seen[q]
  <2>1. ASSUME NEW a \in archives[HomeOf[q]], IsEncrypted(a)
        PROVE  a \in archives'[HomeOf[q]]
    BY <1>1, <2>1, ArchivesGrow, HomeAssumption
  <2> QED BY <1>1, <2>1 DEF CoverInv, Covered, Saving, IsEncrypted
<1>2. CASE PowerLoss
  BY <1>2 DEF PowerLoss, Covered, Saving
<1>3. ASSUME ~PowerLoss, NEW p \in Proc, Mine(p) PROVE Covered(q)'
  <2>1. CASE p = q
    BY <1>3, <2>1, CoverMine
  <2>2. CASE p # q
    BY <1>1, <1>3, <2>2, OthersStand
  <2> QED BY <2>1, <2>2
<1>4. CASE ~PowerLoss /\ (RemoveKey \/ UNCHANGED vars)
  BY <1>1, <1>4 DEF RemoveKey, locals, vars
<1> QED BY <1>2, <1>3, <1>4, NextCases

LEMMA CoverInit == Init => CoverInv
  BY DEF Init, CoverInv, Covered, Saving

\* Only a replacement, or a power loss, changes a document.
LEMMA DocumentSteps ==
    ASSUME TypeInv, [Next]_vars, NEW h \in Home, doc'[h] # doc[h]
    PROVE  PowerLoss \/ \E p \in Proc : Replace(p) /\ h = HomeOf[p]
<1>1. ASSUME NEW p \in Proc, Mine(p), ~Replace(p) PROVE doc' = doc
  <2>1. CASE Leaves(p)
    BY <2>1 DEF Leaves
  <2>2. CASE ~Leaves(p)
    BY <1>1, <2>2, StepKinds DEF AcquireLock, Check, Obtains, StartsKey, OpensKey, WriteKey,
       SyncKey, SyncKeyDir, Archive, ConvertSnapshot, files, docVars, keyVars
  <2> QED BY <2>1, <2>2
<1>2. ASSUME NEW p \in Proc, Replace(p) PROVE h = HomeOf[p]
  BY <1>2 DEF Replace, TypeInv, TypeOK
<1>3. CASE RemoveKey \/ UNCHANGED vars
  BY <1>3 DEF RemoveKey, docVars, vars
<1> QED BY <1>1, <1>2, <1>3, NextCases

\* write_values replaces a document only when an encrypted snapshot of just
\* that document is in backups/: whatever other sessions, migrations and
\* failures come in between.
THEOREM ArchivedFirst == ASSUME "loss" \notin Faults PROVE Spec => SnapshotFirst
<1>1. TypeInv /\ StoreInv /\ CoverInv /\ [Next]_vars =>
        [\A h \in Home :
          doc'[h] # doc[h] /\ doc[h].seal # Missing =>
              \E a \in archives[h] : IsEncrypted(a) /\ a.content = doc[h].content]_vars
  <2> SUFFICES ASSUME TypeInv, StoreInv, CoverInv, [Next]_vars, NEW h \in Home,
                      doc'[h] # doc[h], doc[h].seal # Missing
               PROVE  \E a \in archives[h] : IsEncrypted(a) /\ a.content = doc[h].content
    OBVIOUS
  <2>1. PICK p \in Proc : Replace(p) /\ h = HomeOf[p]
    BY DocumentSteps DEF PowerLoss
  <2>2. pc[p] = "seal"
    BY <2>1 DEF Replace
  <2>3. doc[h] = seen[p]
    BY <2>1, <2>2 DEF StoreInv, ProcInv, Checked, Saving
  <2>4. Covered(p)
    BY DEF CoverInv
  <2> QED BY <2>1, <2>2, <2>3, <2>4 DEF Covered, Saving
<1> QED BY <1>1, AlwaysInv, CoverInit, CoverStep, PTL DEF Spec, SnapshotFirst

-----------------------------------------------------------------------------
(* A document keeps its key, even if the user removes the key file.  Homes *)
(* that share the key have locks of their own: a removed key can then be   *)
(* made anew by a process of another home, so removals are excluded unless *)
(* there is one home.  The invariant says what a process that holds the    *)
(* lock knows of the key while it fetches one and seals with it.           *)

OneHome == \A g, h \in Home : g = h

Fetching(p) == pc[p] \in {"create", "write", "syncKey", "syncKeyDir"}

Holding(p) ==
    \/ pc[p] \in {"syncKey", "syncKeyDir", "seal", "snapshots", "syncDoc"}
    \/ pc[p] = "archive" /\ ~IsEncrypted(seen[p])

InHand(p) ==
    /\ (pc[p] = "key" /\ call[p] = "archive") \/ (Fetching(p) /\ call[p] # "snapshots")
          => ~IsEncrypted(seen[p])
    /\ pc[p] \in {"create", "write"} => ~IsEncrypted(doc[HomeOf[p]])
    /\ pc[p] = "seal" /\ IsEncrypted(seen[p]) => got[p] = seen[p].seal
    /\ Holding(p) => key \in {got[p], NoKey}

MatchInv == KeyMatches /\ \A p \in Proc : InHand(p)

LEMMA Alone ==
    ASSUME StoreInv, OneHome, NEW p \in Proc, NEW q \in Proc, p # q, pc[p] \in Locked
    PROVE  pc[q] \notin Locked
  BY OneHolder, HomeAssumption DEF OneHome

LEMMA MatchMine ==
    ASSUME TypeInv, StoreInv, MatchInv, OneHome, NEW p \in Proc, Mine(p)
    PROVE  KeyMatches' /\ InHand(p)'
<1> USE NamesAssumption, HomeAssumption
<1> USE DEF TypeInv, TypeOK
<1>0. InHand(p) /\ KeyMatches /\ (Saving(p) => doc[HomeOf[p]] = seen[p])
  BY DEF MatchInv, StoreInv, ProcInv, Checked
<1>k. UNCHANGED <<key, doc>> => KeyMatches'
  BY <1>0 DEF KeyMatches, IsEncrypted
<1>1. CASE Leaves(p)
  <2>1. InHand(p)'
    BY <1>1 DEF Leaves, InHand, Fetching, Holding, Locked
  <2> QED BY <1>1, <1>k, <2>1 DEF Leaves
<1>2. CASE AcquireLock(p)
  <2>1. pc'[p] = "check" \/ (pc'[p] = "key" /\ call'[p] = "snapshots")
    BY <1>2 DEF AcquireLock
  <2>2. InHand(p)'
    BY <2>1 DEF InHand, Fetching, Holding
  <2> QED BY <1>2, <1>k, <2>2 DEF AcquireLock, keyVars
<1>3. CASE Check(p)
  <2>1. /\ pc'[p] = IF IsEncrypted(seen[p]) THEN "archive" ELSE "key"
        /\ UNCHANGED <<key, doc, seen>>
    BY <1>3 DEF Check, AfterCheck, files
  <2>2. InHand(p)'
    BY <2>1 DEF InHand, Fetching, Holding, IsEncrypted
  <2> QED BY <1>k, <2>1, <2>2
<1>4. CASE Obtains(p)
  <2>1. /\ pc'[p] = call[p] /\ got'[p] = key /\ key \in Key
        /\ UNCHANGED <<key, doc, seen, call>>
    BY <1>4 DEF Obtains
  <2>2. ASSUME call[p] = "seal", IsEncrypted(seen[p]) PROVE key = seen[p].seal
    <3>1. Saving(p)
      BY <1>4, <2>2 DEF Obtains, Saving
    <3> QED BY <1>0, <2>1, <2>2, <3>1 DEF KeyMatches
  <2>3. InHand(p)'
    BY <2>1, <2>2 DEF InHand, Fetching, Holding, IsEncrypted
  <2> QED BY <1>k, <2>1, <2>3
<1>5. CASE StartsKey(p)
  <2>1. pc[p] = "key" /\ pc'[p] = "create" /\ UNCHANGED <<key, doc, seen, call>>
    BY <1>5 DEF StartsKey
  <2>2. call[p] # "snapshots" => ~IsEncrypted(seen[p])
    BY <1>0, <1>5 DEF StartsKey, MayCreate, InHand
  <2>3. ~IsEncrypted(doc[HomeOf[p]])
    <3>1. CASE call[p] = "snapshots"
      BY <1>5, <3>1 DEF StartsKey, MayCreate, IsEncrypted
    <3>2. CASE call[p] # "snapshots"
      BY <1>0, <2>1, <2>2, <3>2 DEF Saving
    <3> QED BY <3>1, <3>2
  <2>4. InHand(p)'
    BY <2>1, <2>2, <2>3 DEF InHand, Fetching, Holding, IsEncrypted
  <2> QED BY <1>k, <2>1, <2>4
<1>6. CASE OpensKey(p) \/ WriteKey(p)
  <2>1. /\ \/ pc[p] = "create" /\ pc'[p] = "write"
           \/ pc[p] = "write" /\ pc'[p] = "syncKey" /\ key' = got'[p]
        /\ UNCHANGED <<doc, seen, call>>
    BY <1>6 DEF OpensKey, WriteKey, docVars
  <2>2. \A h \in Home : ~IsEncrypted(doc[h])
    BY <1>0, <2>1 DEF InHand, OneHome
  <2>3. InHand(p)'
    BY <1>0, <2>1, <2>2 DEF InHand, Fetching, Holding, IsEncrypted
  <2> QED BY <2>1, <2>2, <2>3 DEF KeyMatches, IsEncrypted
<1>7. CASE SyncKey(p) \/ SyncKeyDir(p)
  <2>1. /\ Fetching(p) /\ Holding(p)
        /\ pc'[p] \in {"syncKeyDir", call[p]}
        /\ UNCHANGED <<key, doc, seen, call, got>>
    BY <1>7 DEF SyncKey, SyncKeyDir, docVars, Fetching, Holding
  <2>2. InHand(p)'
    BY <1>0, <2>1 DEF InHand, Fetching, Holding, IsEncrypted
  <2> QED BY <1>k, <2>1, <2>2
<1>8. CASE Archive(p)
  <2>1. pc'[p] = "key" /\ call'[p] = "seal" /\ UNCHANGED <<key, doc>>
    BY <1>8 DEF Archive, keyVars, docVars
  <2>2. InHand(p)'
    BY <2>1 DEF InHand, Fetching, Holding
  <2> QED BY <1>k, <2>1, <2>2
<1>9. CASE Replace(p)
  <2>1. /\ pc[p] = "seal" /\ pc'[p] = "syncDoc" /\ UNCHANGED <<key, got>>
        /\ doc'[HomeOf[p]].seal = got[p]
    BY <1>9 DEF Replace, keyVars, Sealed
  <2>2. key \in {got[p], NoKey}
    BY <1>0, <2>1 DEF InHand, Holding
  <2>3. InHand(p)'
    BY <2>1, <2>2 DEF InHand, Fetching, Holding
  <2>4. \A h \in Home : doc'[h].seal = got[p]
    BY <2>1 DEF OneHome
  <2> QED BY <2>1, <2>2, <2>3, <2>4 DEF KeyMatches
<1>10. CASE ConvertSnapshot(p)
  <2>1. UNCHANGED <<key, doc, pc, seen, call, got>>
    BY <1>10 DEF ConvertSnapshot, keyVars, docVars, locals
  <2>2. InHand(p)'
    BY <1>0, <2>1 DEF InHand, Fetching, Holding, IsEncrypted
  <2> QED BY <1>k, <2>1, <2>2
<1> QED
  BY <1>1, <1>2, <1>3, <1>4, <1>5, <1>6, <1>7, <1>8, <1>9, <1>10, StepKinds

LEMMA MatchStep ==
    ASSUME OneHome, "loss" \notin Faults
    PROVE  TypeInv /\ StoreInv /\ MatchInv /\ [Next]_vars => MatchInv'
<1> SUFFICES ASSUME TypeInv, StoreInv, MatchInv, [Next]_vars PROVE MatchInv'
  OBVIOUS
<1>1. ASSUME NEW p \in Proc, Mine(p), NEW q \in Proc, q # p PROVE InHand(q)'
  <2>0. pc'[q] = pc[q] /\ call'[q] = call[q] /\ seen'[q] = seen[q] /\ got'[q] = got[q]
    BY <1>1, OthersStand
  <2>1. CASE pc[q] \notin Locked
    BY <2>0, <2>1 DEF InHand, Fetching, Holding, Locked
  <2>2. CASE pc[q] \in Locked
    <3>1. pc[p] \notin Locked
      BY <1>1, <2>2, Alone
    <3>2. Leaves(p) \/ AcquireLock(p)
      BY <1>1, <3>1, StepKinds DEF Check, Obtains, StartsKey, OpensKey, WriteKey, SyncKey, SyncKeyDir,
         Archive, Replace, ConvertSnapshot, Locked
    <3>3. UNCHANGED <<key, doc>>
      BY <3>2 DEF Leaves, AcquireLock, keyVars
    <3> QED BY <2>0, <3>3 DEF MatchInv, InHand, Fetching, Holding, IsEncrypted
  <2> QED BY <2>1, <2>2
<1>2. ASSUME NEW p \in Proc, Mine(p) PROVE MatchInv'
  BY <1>1, <1>2, MatchMine DEF MatchInv
<1>3. CASE RemoveKey
  <2>1. /\ key' = NoKey /\ UNCHANGED <<doc, pc, call, seen, got>>
    BY <1>3 DEF RemoveKey, docVars, locals
  <2> QED BY <2>1 DEF MatchInv, KeyMatches, InHand, Fetching, Holding, IsEncrypted
<1>4. CASE UNCHANGED vars
  BY <1>4 DEF vars, MatchInv, KeyMatches, InHand, Fetching, Holding, IsEncrypted
<1> QED BY <1>2, <1>3, <1>4, NextCases DEF PowerLoss

LEMMA MatchInit == Init => MatchInv
<1> SUFFICES ASSUME Init PROVE MatchInv
  OBVIOUS
<1>1. \A h \in Home : ~IsEncrypted(doc[h])
  BY NamesAssumption, StartAssumption DEF Init, IsEncrypted
<1> QED BY <1>1 DEF Init, MatchInv, KeyMatches, InHand, Fetching, Holding

\* Homes that share a key nobody removes, or one home: see above.
KeyPreserved == "loss" \notin Faults /\ ("rmkey" \in Faults => OneHome)

\* load_or_create_file_key never makes a key while a document is sealed with
\* another one: also after the user has removed the key file.
THEOREM KeyNeverRegenerated == ASSUME KeyPreserved PROVE Spec => []KeyMatches
<1>1. CASE "rmkey" \notin Faults
  <2>1. Spec => []Readable
    BY <1>1, CiphertextReadable DEF KeyPreserved
  <2>2. Readable => KeyMatches
    BY DEF Readable, KeyMatches
  <2> QED BY <2>1, <2>2, PTL
<1>2. CASE OneHome
  <2>1. TypeInv /\ StoreInv /\ MatchInv /\ [Next]_vars => MatchInv'
    BY <1>2, MatchStep DEF KeyPreserved
  <2>2. MatchInv => KeyMatches
    BY DEF MatchInv
  <2> QED BY <2>1, <2>2, AlwaysInv, MatchInit, PTL DEF Spec
<1> QED BY <1>1, <1>2 DEF KeyPreserved

\* A save seals an encrypted document with the key it had, and never writes
\* it in the clear.
THEOREM DocumentKeepsKey == ASSUME KeyPreserved PROVE Spec => NeverRekeyed
<1> DEFINE Kept == \A h \in Home : IsEncrypted(doc[h]) => doc'[h].seal = doc[h].seal
<1>s. ASSUME TypeInv, StoreInv, [Next]_vars, NEW h \in Home, IsEncrypted(doc[h]), doc'[h] # doc[h]
      PROVE  \E p \in Proc : /\ pc[p] = "seal" /\ seen[p] = doc[h]
                             /\ got[p] \in Key /\ doc'[h].seal = got[p]
  <2>1. PICK p \in Proc : Replace(p) /\ h = HomeOf[p]
    BY <1>s, DocumentSteps DEF KeyPreserved, PowerLoss
  <2>2. pc[p] = "seal" /\ doc'[h].seal = got[p]
    BY <1>s, <2>1 DEF Replace, Sealed, TypeInv, TypeOK
  <2> QED BY <1>s, <2>1, <2>2 DEF StoreInv, ProcInv, Checked, Saving, TypeInv, KeyInHand
<1>1. CASE "rmkey" \notin Faults
  <2>1. TypeInv /\ StoreInv /\ KeyInv /\ [Next]_vars => [Kept]_vars
    BY <1>s DEF KeyInv, KeyHeld, Readable
  <2>2. TypeInv /\ KeyInv /\ [Next]_vars => KeyInv'
    BY <1>1, KeyNext DEF KeyPreserved
  <2> QED BY <2>1, <2>2, AlwaysInv, KeyInit, PTL DEF Spec, NeverRekeyed
<1>2. CASE OneHome
  <2>1. TypeInv /\ StoreInv /\ MatchInv /\ [Next]_vars => [Kept]_vars
    BY <1>s DEF MatchInv, InHand
  <2>2. TypeInv /\ StoreInv /\ MatchInv /\ [Next]_vars => MatchInv'
    BY <1>2, MatchStep DEF KeyPreserved
  <2> QED BY <2>1, <2>2, AlwaysInv, MatchInit, PTL DEF Spec, NeverRekeyed
<1> QED BY <1>1, <1>2 DEF KeyPreserved

-----------------------------------------------------------------------------
(* Power loss.  A document that is acknowledged survives one in the state  *)
(* the directory syncs have given it; that it can be read then takes a key *)
(* whose own directory entry was on disk before anything was sealed with   *)
(* it.  Within one home the lock gives that: while a process is between    *)
(* creating the key and the end of its syncs, nobody seals.  An operation  *)
(* that fails or is killed in between leaves a key that the next process   *)
(* uses without synchronising it (_secure_store.py), and a process of      *)
(* another home does not wait for the lock: both are excluded here.  What  *)
(* was sealed with a key that a loss took, with its new directory, stays   *)
(* unreadable: the invariant is about the other ciphertexts.               *)

Syncing(p) == pc[p] \in {"syncKey", "syncKeyDir"}

Settled(k) == key = k /\ keyOnDisk = {k}

Ciphertexts(h) ==
    {d \in docOnDisk[h] \cup archives[h] : IsEncrypted(d) /\ d.seal \notin keysLost}

KeySettled(p) ==
    /\ pc[p] = "write" => key = Torn
    /\ Syncing(p) => got[p] = key /\ \A h \in Home : Ciphertexts(h) = {}
    /\ Holding(p) /\ ~Syncing(p) => Settled(got[p])

CiphertextsSettled == \A h \in Home : \A c \in Ciphertexts(h) : Settled(c.seal)

KeyOnItsWay == key \in Key => Settled(key) \/ \E p \in Proc : Syncing(p)

DurableInv == CiphertextsSettled /\ KeyOnItsWay /\ \A p \in Proc : KeySettled(p)

\* Nobody but the power supply interrupts the creation of the key.
Undisturbed == OneHome /\ Faults \cap {"kill", "io", "rmkey"} = {}

LEMMA SyncingGoesOn ==
    ASSUME Undisturbed, TypeInv, NEW p \in Proc, Mine(p), Syncing(p)
    PROVE  ~Leaves(p)
<1>1. SyncKey(p) \/ SyncKeyDir(p)
  BY DEF Undisturbed, Syncing, Mine, Step, AcquireLock, User, Fault, LoadMissing, LoadDocument,
     LoadKey, Decline, Migrate, Check, RefuseStale, ReadKey, CreateKey, WriteKey, Archive,
     Replace, SyncDocument, ConvertSnapshot, SnapshotsDone, Start, Change, Quit, IOError, Kill
<1>2. pc'[p] \in {"syncKeyDir", call[p]}
  BY <1>1 DEF SyncKey, SyncKeyDir, TypeInv, TypeOK
<1> QED BY <1>2 DEF Leaves, Locked, TypeInv, TypeOK

\* A key that is not complete has sealed nothing.
LEMMA NothingSealed ==
    ASSUME CiphertextsSettled, key \notin Key, NEW h \in Home
    PROVE  Ciphertexts(h) = {}
  BY DEF CiphertextsSettled, Settled, Ciphertexts, IsEncrypted

\* A step that adds no ciphertext and leaves the key alone.
LEMMA FewerCiphertexts ==
    ASSUME DurableInv, UNCHANGED <<key, keyOnDisk, keysLost>>,
           \A h \in Home : Ciphertexts(h)' \subseteq Ciphertexts(h)
    PROVE  CiphertextsSettled'
  BY DEF DurableInv, CiphertextsSettled, Settled

LEMMA DurableMine ==
    ASSUME Undisturbed, TypeInv, StoreInv, DurableInv, NEW p \in Proc, Mine(p)
    PROVE  /\ CiphertextsSettled' /\ KeySettled(p)'
           /\ key' \in Key => Settled(key)' \/ \E q \in Proc : Syncing(q)'
<1> USE NamesAssumption, HomeAssumption
<1> USE DEF TypeInv, TypeOK
<1>0. KeySettled(p) /\ CiphertextsSettled /\ KeyOnItsWay
  BY DEF DurableInv
<1>o. keysLost' = keysLost /\ \A q \in Proc \ {p} : pc'[q] = pc[q]
  BY OthersStand, NoKeyLost
<1>f. ASSUME UNCHANGED <<docOnDisk, archives>>, NEW h \in Home
      PROVE  Ciphertexts(h)' = Ciphertexts(h)
  BY <1>f, <1>o DEF Ciphertexts, IsEncrypted
<1>k. ASSUME ~Syncing(p), UNCHANGED <<key, keyOnDisk>>
      PROVE  key' \in Key => Settled(key)' \/ \E q \in Proc : Syncing(q)'
  <2>1. CASE \E q \in Proc : Syncing(q)
    BY <1>k, <1>o, <2>1 DEF Syncing
  <2>2. CASE ~\E q \in Proc : Syncing(q)
    BY <1>0, <1>k, <2>2 DEF KeyOnItsWay, Settled
  <2> QED BY <2>1, <2>2
<1>1. CASE Leaves(p)
  <2>1. ~Syncing(p) /\ UNCHANGED <<key, keyOnDisk>>
    BY <1>1, SyncingGoesOn DEF Leaves
  <2>2. \A h \in Home : Ciphertexts(h)' \subseteq Ciphertexts(h)
    <3>1. CASE docOnDisk' = docOnDisk
      BY <1>1, <1>f, <3>1 DEF Leaves
    <3>2. CASE SyncDocument(p)
      BY <1>1, <1>o, <3>2 DEF Leaves, SyncDocument, SyncDir, Ciphertexts, IsEncrypted,
         StoreInv, OnDisk
    <3> QED BY <1>1, <3>1, <3>2 DEF Leaves
  <2>3. KeySettled(p)'
    BY <1>1 DEF Leaves, KeySettled, Syncing, Holding, Locked
  <2> QED BY <1>k, <2>1, <2>2, <2>3, <1>o, FewerCiphertexts
<1>2. CASE AcquireLock(p) \/ Check(p) \/ StartsKey(p)
  <2>1. /\ ~Syncing(p) /\ UNCHANGED <<key, keyOnDisk, docOnDisk, archives, seen>>
        /\ pc'[p] \in {"check", "key", "create"} \/ (pc'[p] = "archive" /\ IsEncrypted(seen[p]))
    BY <1>2 DEF AcquireLock, Check, StartsKey, AfterCheck, files, keyVars, Syncing
  <2>2. KeySettled(p)'
    BY <2>1 DEF KeySettled, Syncing, Holding, IsEncrypted
  <2> QED BY <1>f, <1>k, <2>1, <2>2, <1>o, FewerCiphertexts
<1>3. CASE Obtains(p)
  <2>1. /\ pc[p] \in {"key", "create"} /\ key \in Key
        /\ pc'[p] = call[p] /\ got'[p] = key
        /\ UNCHANGED <<key, keyOnDisk, docOnDisk, archives>>
    BY <1>3 DEF Obtains
  <2>2. ~\E q \in Proc : Syncing(q)
    BY <2>1, Alone DEF Syncing, Locked, Undisturbed
  <2>3. Settled(key)
    BY <1>0, <2>1, <2>2 DEF KeyOnItsWay
  <2>4. KeySettled(p)'
    BY <2>1, <2>3 DEF KeySettled, Syncing, Settled
  <2> QED BY <1>f, <1>k, <2>1, <2>2, <2>4, <1>o, FewerCiphertexts
<1>4. CASE OpensKey(p)
  <2>1. /\ key = NoKey /\ key' = Torn /\ pc'[p] = "write"
        /\ UNCHANGED <<docOnDisk, archives>>
    BY <1>4 DEF OpensKey
  <2>2. \A h \in Home : Ciphertexts(h)' = {}
    BY <1>0, <1>f, <2>1, NothingSealed
  <2> QED BY <2>1, <2>2 DEF CiphertextsSettled, KeySettled, Syncing, Holding
<1>5. CASE WriteKey(p)
  <2>1. /\ pc[p] = "write" /\ pc'[p] = "syncKey" /\ got'[p] = key'
        /\ UNCHANGED <<docOnDisk, archives>>
    BY <1>5 DEF WriteKey, docVars
  <2>2. key = Torn
    BY <1>0, <2>1 DEF KeySettled
  <2>3. \A h \in Home : Ciphertexts(h)' = {}
    BY <1>0, <1>f, <2>1, <2>2, NothingSealed
  <2> QED BY <2>1, <2>3 DEF CiphertextsSettled, KeySettled, Syncing, Holding
<1>6. CASE SyncKey(p)
  <2>1. /\ Syncing(p) /\ pc'[p] = "syncKeyDir"
        /\ UNCHANGED <<key, docOnDisk, archives, got>>
    BY <1>6 DEF SyncKey, docVars, Syncing
  <2>2. \A h \in Home : Ciphertexts(h)' = {}
    BY <1>0, <1>f, <2>1 DEF KeySettled
  <2> QED BY <1>0, <2>1, <2>2 DEF CiphertextsSettled, KeySettled, Syncing
<1>7. CASE SyncKeyDir(p)
  <2>1. /\ Syncing(p) /\ pc'[p] = call[p] /\ keyOnDisk' = {key}
        /\ UNCHANGED <<key, docOnDisk, archives, got>>
    BY <1>7 DEF SyncKeyDir, KeyEntrySynced, docVars, Syncing
  <2>2. \A h \in Home : Ciphertexts(h)' = {}
    BY <1>0, <1>f, <2>1 DEF KeySettled
  <2> QED BY <1>0, <2>1, <2>2 DEF CiphertextsSettled, KeySettled, Syncing, Settled
<1>8. CASE Archive(p)
  <2>1. /\ pc[p] = "archive" /\ pc'[p] = "key" /\ UNCHANGED <<key, keyOnDisk, docOnDisk>>
        /\ archives' = [archives EXCEPT ![HomeOf[p]] = @ \cup {Archived(p)}]
    BY <1>8 DEF Archive, keyVars, docVars
  <2>2. Archived(p).seal \notin keysLost => Settled(Archived(p).seal)
    <3>1. CASE IsEncrypted(seen[p])
      <4>1. seen[p] \in docOnDisk[HomeOf[p]]
        BY <2>1 DEF StoreInv, OnDisk, ProcInv, Checked, Saving
      <4> QED BY <1>0, <3>1, <4>1 DEF CiphertextsSettled, Ciphertexts, Archived, Sealed
    <3>2. CASE ~IsEncrypted(seen[p])
      BY <1>0, <2>1, <3>2 DEF KeySettled, Holding, Syncing, Archived, Sealed
    <3> QED BY <3>1, <3>2
  <2>3. CiphertextsSettled'
    BY <1>0, <1>o, <2>1, <2>2 DEF CiphertextsSettled, Ciphertexts, IsEncrypted, Settled
  <2>4. KeySettled(p)'
    BY <2>1 DEF KeySettled, Holding, Syncing
  <2> QED BY <1>k, <2>1, <2>3, <2>4 DEF Syncing
<1>9. CASE Replace(p)
  <2>1. /\ pc[p] = "seal" /\ pc'[p] = "syncDoc" /\ UNCHANGED <<key, keyOnDisk, archives, got>>
        /\ docOnDisk' = [docOnDisk EXCEPT ![HomeOf[p]] = @ \cup {Sealed(got[p], vals[p])}]
    BY <1>9 DEF Replace, keyVars
  <2>2. Settled(got[p])
    BY <1>0, <2>1 DEF KeySettled, Holding, Syncing
  <2>3. CiphertextsSettled'
    BY <1>0, <1>o, <2>1, <2>2 DEF CiphertextsSettled, Ciphertexts, IsEncrypted, Settled, Sealed
  <2>4. KeySettled(p)'
    BY <2>1, <2>2 DEF KeySettled, Holding, Syncing, Settled
  <2> QED BY <1>k, <2>1, <2>3, <2>4 DEF Syncing
<1>10. CASE ConvertSnapshot(p)
  <2>1. /\ pc[p] = "snapshots" /\ UNCHANGED <<key, keyOnDisk, docOnDisk, pc, got, seen>>
        /\ \E a \in PlaintextSnapshots(HomeOf[p]) :
             archives' = [archives EXCEPT ![HomeOf[p]] = (@ \ {a}) \cup {Converted(a, got[p])}]
    BY <1>10 DEF ConvertSnapshot, keyVars, docVars, locals
  <2>2. Settled(got[p])
    BY <1>0, <2>1 DEF KeySettled, Holding, Syncing
  <2>3. CiphertextsSettled'
    BY <1>0, <1>o, <2>1, <2>2 DEF CiphertextsSettled, Ciphertexts, IsEncrypted, Settled, Converted, Sealed
  <2>4. KeySettled(p)'
    BY <2>1, <2>2 DEF KeySettled, Holding, Syncing, Settled
  <2> QED BY <1>k, <2>1, <2>3, <2>4 DEF Syncing
<1> QED
  BY <1>1, <1>2, <1>3, <1>4, <1>5, <1>6, <1>7, <1>8, <1>9, <1>10, StepKinds

LEMMA DurableStep ==
    ASSUME Undisturbed
    PROVE  TypeInv /\ StoreInv /\ DurableInv /\ [Next]_vars => DurableInv'
<1> SUFFICES ASSUME TypeInv, StoreInv, DurableInv, [Next]_vars PROVE DurableInv'
  OBVIOUS
<1>1. ASSUME NEW p \in Proc, Mine(p), NEW q \in Proc, q # p PROVE KeySettled(q)'
  <2>0. pc'[q] = pc[q] /\ seen'[q] = seen[q] /\ got'[q] = got[q]
    BY <1>1, OthersStand
  <2>1. CASE pc[q] \notin Locked
    BY <2>0, <2>1 DEF KeySettled, Syncing, Holding, Locked
  <2>2. CASE pc[q] \in Locked
    <3>1. pc[p] \notin Locked
      BY <1>1, <2>2, Alone DEF Undisturbed
    <3>2. Leaves(p) \/ AcquireLock(p)
      BY <1>1, <3>1, StepKinds DEF Check, Obtains, StartsKey, OpensKey, WriteKey, SyncKey, SyncKeyDir,
         Archive, Replace, ConvertSnapshot, Locked
    <3>3. UNCHANGED <<key, keyOnDisk, archives>> /\ ~SyncDocument(p)
      BY <3>1, <3>2 DEF Leaves, AcquireLock, keyVars, SyncDocument, Locked
    <3>4. docOnDisk' = docOnDisk /\ keysLost' = keysLost
      BY <1>1, <3>2, <3>3, NoKeyLost DEF Leaves, AcquireLock
    <3> QED BY <2>0, <3>3, <3>4 DEF DurableInv, KeySettled, Syncing, Holding, IsEncrypted, Settled,
         Ciphertexts
  <2> QED BY <2>1, <2>2
<1>2. ASSUME NEW p \in Proc, Mine(p) PROVE DurableInv'
  BY <1>1, <1>2, DurableMine DEF DurableInv, KeyOnItsWay
<1>3. CASE PowerLoss
  <2>1. PICK gone \in BOOLEAN : LoseKey(gone)
    BY <1>3 DEF PowerLoss
  <2>2. \A h \in Home : Ciphertexts(h)' \subseteq Ciphertexts(h)
    <3>1. keysLost \subseteq keysLost'
      BY <2>1 DEF LoseKey
    <3>2. PICK homes \in SUBSET Home : LoseHomes(homes)
      BY <1>3 DEF PowerLoss
    <3>3. ASSUME NEW h \in Home
          PROVE  docOnDisk'[h] \subseteq docOnDisk[h] \cup {Absent} /\ archives'[h] \subseteq archives[h]
      BY <3>2 DEF LoseHomes
    <3>4. ~IsEncrypted(Absent)
      BY NamesAssumption DEF IsEncrypted, Absent
    <3> QED BY <3>1, <3>3, <3>4 DEF Ciphertexts, IsEncrypted
  <2>3. ASSUME gone PROVE CiphertextsSettled'
    <3>1. key' = NoKey /\ (key \in Key => key \in keysLost')
      BY <2>1, <2>3 DEF LoseKey
    <3>2. ASSUME NEW h \in Home PROVE Ciphertexts(h)' = {}
      BY <2>2, <3>1 DEF DurableInv, CiphertextsSettled, Ciphertexts, Settled, IsEncrypted
    <3> QED BY <3>2 DEF CiphertextsSettled
  <2>4. ASSUME ~gone PROVE CiphertextsSettled'
    <3>1. key' \in keyOnDisk /\ keyOnDisk' = {key'}
      BY <2>1, <2>4 DEF LoseKey
    <3> QED BY <2>2, <3>1 DEF DurableInv, CiphertextsSettled, Settled
  <2>5. CiphertextsSettled'
    BY <2>3, <2>4
  <2>6. keyOnDisk' = {key'} /\ \A p \in Proc : pc'[p] = "idle"
    BY <1>3, <2>1 DEF LoseKey, PowerLoss
  <2> QED BY <2>5, <2>6 DEF DurableInv, KeyOnItsWay, KeySettled, Syncing, Holding, Settled
<1>4. CASE UNCHANGED vars
  BY <1>4 DEF vars, DurableInv, CiphertextsSettled, KeyOnItsWay, KeySettled, Ciphertexts,
     IsEncrypted, Settled, Syncing, Holding
<1> QED BY <1>2, <1>3, <1>4, NextCases DEF RemoveKey, Undisturbed

LEMMA DurableInit == Init => DurableInv
<1> SUFFICES ASSUME Init PROVE DurableInv
  OBVIOUS
<1>1. \A h \in Home : Ciphertexts(h) = {}
  BY NamesAssumption, StartAssumption DEF Init, Ciphertexts, IsEncrypted, Sealed
<1> QED BY <1>1, NamesAssumption DEF Init, DurableInv, CiphertextsSettled, KeyOnItsWay, KeySettled,
     Syncing, Holding

\* The edits alone need no assumption: whatever fails or dies, and however many
\* homes share the key, every document a power loss may leave has what was
\* reported as saved (atomic_write_private syncs before write_values returns).
THEOREM AckedEditsOnDisk ==
    Spec => [](\A h \in Home : \A d \in docOnDisk[h] : acked[h] \subseteq d.content)
<1>1. StoreInv => \A h \in Home : \A d \in docOnDisk[h] : acked[h] \subseteq d.content
  BY DEF StoreInv, OnDisk
<1> QED BY <1>1, AlwaysInv, PTL

\* An edit reported as saved is in the document that a power loss leaves, at
\* any moment and any number of times, and the key that opens the document is
\* safe in its directory (atomic_write_private and load_or_create_file_key:
\* their syncs).  A loss may take a directory that envman has just made, which
\* nothing synchronises, with what is in it; AckedSurvives allows for that.
THEOREM AckedEditsSurvive == ASSUME Undisturbed PROVE Spec => []AckedSurvives
<1>1. StoreInv /\ DurableInv => AckedSurvives
  BY DEF StoreInv, OnDisk, DurableInv, CiphertextsSettled, Ciphertexts, Settled, AckedSurvives
<1> QED BY <1>1, AlwaysInv, DurableInit, DurableStep, PTL DEF Spec

\* After any power losses whoever finds a ciphertext, in the document or in a
\* snapshot, finds its key, unless a loss took it with its new directory.
THEOREM ReadableAfterLoss == ASSUME Undisturbed PROVE Spec => []ReadableUnlessLost
<1>1. StoreInv /\ DurableInv => ReadableUnlessLost
  BY DEF StoreInv, OnDisk, DurableInv, CiphertextsSettled, Ciphertexts, Settled, ReadableUnlessLost
<1> QED BY <1>1, AlwaysInv, DurableInit, DurableStep, PTL DEF Spec

=============================================================================
