--------------------------- MODULE EnvStoreProofs ---------------------------
(* Theorems about EnvStore, for every number of processes, homes, edits    *)
(* and keys and for every combination of faults unless one is excluded.    *)
EXTENDS EnvStore, TLAPS

-----------------------------------------------------------------------------
(* Types.  TypeOK alone is not inductive: a document is sealed with the    *)
(* key in hand, so that key must be a complete one wherever it is used.    *)

KeyInHand ==
    \A p \in Proc :
        /\ pc[p] \in {"syncKey", "syncKeyDir", "seal", "snapshots", "syncDoc"} => got[p] \in Key
        /\ pc[p] = "archive" => IsEncrypted(seen[p]) \/ got[p] \in Key

TypeInv == TypeOK /\ KeyInHand

\* A process that ends, or whose failed save returns to the catalog, keeps
\* every local variable in its type.
LEMMA ExitType ==
    ASSUME TypeInv, NEW p \in Proc, Exit(p), keyDir' \in {keyDir, Made(keyDir)},
           UNCHANGED <<key, keyOnDisk, docVars, archives, acked, usedEdits, usedKeys, outages>>
    PROVE  TypeInv'
  BY NamesAssumption DEF TypeInv, TypeOK, KeyInHand, Exit, Unlock, Made, docVars, outages, Document,
     Absent, IsEncrypted, PCs, Command

LEMMA FailType ==
    ASSUME TypeInv, NEW p \in Proc, Fail(p), keyDir' \in {keyDir, Made(keyDir)},
           UNCHANGED <<key, keyOnDisk, docVars, archives, usedKeys>>
    PROVE  TypeInv'
<1>1. CASE Exit(p)
  BY <1>1, ExitType DEF Fail
<1>2. CASE BackToCatalog(p)
  BY <1>2, NamesAssumption DEF Fail, BackToCatalog, RollBack, TypeInv, TypeOK, KeyInHand, Unlock,
     Made, docVars, outages, Document, IsEncrypted, PCs, Command
<1> QED BY <1>1, <1>2 DEF Fail


LEMMA StepType ==
    ASSUME TypeInv, NEW p \in Proc, Step(p)
    PROVE  TypeInv'
<1> USE NamesAssumption, HomeAssumption DEF files, keyVars, docVars, outages
<1>1. CASE LoadMissing(p)
  BY <1>1, ExitType DEF LoadMissing, TypeInv, TypeOK, KeyInHand, PCs, Locked
<1>2. CASE LoadDocument(p)
  BY <1>2 DEF LoadDocument, TypeInv, TypeOK, KeyInHand, PCs, Locked
<1>3. CASE LoadKey(p)
  <2>1. CASE Opens(p) /\ cmd[p] # "read"
    <3>1. seen[p].content \in SUBSET Edit
      BY DEF TypeInv, TypeOK, Document
    <3>2. /\ pc' = [pc EXCEPT ![p] = "ready"]
          /\ vals' = [vals EXCEPT ![p] = seen[p].content]
          /\ UNCHANGED <<files, lock, cmd, call, seen, edit, got, pending, acked, usedEdits,
                         usedKeys, outages>>
      BY <1>3, <2>1 DEF LoadKey
    <3> QED BY <3>1, <3>2 DEF TypeInv, TypeOK, KeyInHand, PCs, Locked
  <2>2. CASE ~(Opens(p) /\ cmd[p] # "read")
    <3>1. Exit(p) /\ UNCHANGED <<files, acked, usedEdits, usedKeys, outages>>
      BY <1>3, <2>2 DEF LoadKey
    <3> QED BY <3>1, ExitType
  <2> QED BY <2>1, <2>2
<1>4. CASE Decline(p)
  BY <1>4, ExitType DEF Decline
<1>5. CASE Migrate(p)
  <2>1. CASE Exit(p)
    BY <1>5, <2>1, ExitType DEF Migrate
  <2>2. CASE ~Exit(p)
    <3>1. /\ pc' = [pc EXCEPT ![p] = "lock"]
          /\ \E c \in {"archive", "snapshots"} : call' = [call EXCEPT ![p] = c]
          /\ \E b \in BOOLEAN : pending' = [pending EXCEPT ![p] = b]
          /\ UNCHANGED <<files, lock, cmd, seen, vals, edit, got, acked, usedEdits, usedKeys,
                         outages>>
      BY <1>5, <2>2 DEF Migrate
    <3> QED BY <3>1 DEF TypeInv, TypeOK, KeyInHand, PCs, Locked
  <2> QED BY <2>1, <2>2
<1>6. CASE Check(p)
  BY <1>6 DEF Check, AfterCheck, TypeInv, TypeOK, KeyInHand, PCs, Locked
<1>7. CASE RefuseStale(p)
  BY <1>7, FailType DEF RefuseStale
<1>8. CASE ReadKey(p)
  <2>1. CASE Fail(p)
    BY <1>8, <2>1, FailType DEF ReadKey
  <2>2. CASE ~Fail(p)
    BY <1>8, <2>2 DEF ReadKey, Obtain, IsComplete, Made, TypeInv, TypeOK, KeyInHand, PCs, Locked
  <2> QED BY <2>1, <2>2
<1>9. CASE CreateKey(p)
  <2>1. CASE Fail(p) /\ UNCHANGED <<files, usedKeys>>
    BY <2>1, FailType
  <2>2. CASE ~(Fail(p) /\ UNCHANGED <<files, usedKeys>>)
    BY <1>9, <2>2 DEF CreateKey, Obtain, OpenedExclusively, IsComplete, TypeInv, TypeOK,
       KeyInHand, PCs, Locked
  <2> QED BY <2>1, <2>2
<1>10. CASE WriteKey(p)
  BY <1>10 DEF WriteKey, TypeInv, TypeOK, KeyInHand, PCs, Locked
<1>11. CASE SyncKey(p)
  BY <1>11 DEF SyncKey, TypeInv, TypeOK, KeyInHand, PCs, Locked
<1>12. CASE SyncKeyDir(p)
  BY <1>12 DEF SyncKeyDir, KeyEntrySynced, TypeInv, TypeOK, KeyInHand, PCs, Locked
<1>13. CASE Archive(p)
  BY <1>13 DEF Archive, Archived, Sealed, IsEncrypted, Document, TypeInv, TypeOK, KeyInHand, PCs,
     Locked
<1>14. CASE Replace(p)
  BY <1>14 DEF Replace, Sealed, Document, TypeInv, TypeOK, KeyInHand, PCs, Locked
<1>15. CASE SyncDocument(p)
  <2>1. /\ docOnDisk' \in [Home -> SUBSET Document]
        /\ acked' \in [Home -> SUBSET Edit]
        /\ UNCHANGED <<keyVars, doc, homeDir, archives, usedEdits, outages>>
    BY <1>15 DEF SyncDocument, SyncDir, TypeInv, TypeOK
  <2>2. CASE Exit(p)
    BY <2>1, <2>2 DEF Exit, Unlock, Document, Absent, PCs, Command, Locked, TypeInv, TypeOK,
       KeyInHand, IsEncrypted
  <2>3. CASE ~Exit(p)
    <3>1. Sealed(got[p], vals[p]) \in Document
      BY <1>15 DEF SyncDocument, TypeInv, TypeOK, KeyInHand, Sealed, Document
    <3>2. /\ Unlock(p)
          /\ \E l \in {"ready", "lock"} : pc' = [pc EXCEPT ![p] = l]
          /\ \E c \in {"archive", "snapshots"} : call' = [call EXCEPT ![p] = c]
          /\ seen' = [seen EXCEPT ![p] = Sealed(got[p], vals[p])]
          /\ edit' = [edit EXCEPT ![p] = NoEdit] \/ edit' = edit
          /\ got' = [got EXCEPT ![p] = NoKey]
          /\ UNCHANGED <<cmd, vals, pending>>
      BY <1>15, <2>3 DEF SyncDocument, SaveDone
    <3>3. TypeOK'
      BY <2>1, <3>1, <3>2 DEF Unlock, PCs, Locked, TypeInv, TypeOK
    <3>4. KeyInHand'
      BY <3>2 DEF PCs, Locked, TypeInv, TypeOK, KeyInHand, IsEncrypted
    <3> QED BY <3>3, <3>4 DEF TypeInv
  <2> QED BY <2>2, <2>3
<1>16. CASE ConvertSnapshot(p)
  BY <1>16 DEF ConvertSnapshot, Converted, PlaintextSnapshots, Sealed, Document, TypeInv, TypeOK,
     KeyInHand, locals
<1>17. CASE SnapshotsDone(p)
  BY <1>17, ExitType DEF SnapshotsDone
<1> QED
  BY <1>1, <1>2, <1>3, <1>4, <1>5, <1>6, <1>7, <1>8, <1>9, <1>10, <1>11, <1>12, <1>13, <1>14,
     <1>15, <1>16, <1>17 DEF Step

LEMMA NextType == TypeInv /\ [Next]_vars => TypeInv'
<1> SUFFICES ASSUME TypeInv, [Next]_vars PROVE TypeInv'
  OBVIOUS
<1> USE NamesAssumption, HomeAssumption DEF files, keyVars, docVars, outages
<1>1. ASSUME NEW p \in Proc, Step(p) PROVE TypeInv'
  BY <1>1, StepType
<1>2. ASSUME NEW p \in Proc, AcquireLock(p) PROVE TypeInv'
  BY <1>2 DEF AcquireLock, Made, TypeInv, TypeOK, KeyInHand, PCs, Locked
<1>3. ASSUME NEW p \in Proc, User(p) PROVE TypeInv'
  <2>1. ASSUME NEW c \in Command, Start(p, c) PROVE TypeInv'
    BY <2>1 DEF Start, TypeInv, TypeOK, KeyInHand, PCs, Locked
  <2>2. ASSUME NEW e \in Edit, Change(p, e) PROVE TypeInv'
    BY <2>2 DEF Change, TypeInv, TypeOK, KeyInHand, PCs, Locked
  <2>3. CASE Quit(p)
    BY <2>3, ExitType DEF Quit
  <2> QED BY <1>3, <2>1, <2>2, <2>3 DEF User
<1>4. ASSUME NEW p \in Proc, Fault(p) PROVE TypeInv'
  BY <1>4, ExitType, FailType DEF Fault, IOError, Kill
<1>5. CASE PowerLoss
  <2>1. PICK gone \in BOOLEAN : LoseKey(gone)
    BY <1>5 DEF PowerLoss
  <2>2. /\ key' \in Key \cup {NoKey, Torn} /\ keyOnDisk' \subseteq Key \cup {NoKey, Torn}
        /\ keyDir' \in {"none", "made", "kept"} /\ keysLost' \subseteq Key
    BY <2>1 DEF LoseKey, Survivor, TypeInv, TypeOK
  <2>3. /\ doc' \in [Home -> Document] /\ docOnDisk' \in [Home -> SUBSET Document]
        /\ homeDir' \in [Home -> {"none", "made", "kept"}]
        /\ archives' \in [Home -> SUBSET Document] /\ acked' \in [Home -> SUBSET Edit]
    <3>1. PICK homes \in SUBSET Home : LoseHomes(homes)
      BY <1>5 DEF PowerLoss
    <3>2. PICK d \in [Home -> UNION {docOnDisk[h] : h \in Home} \cup {Absent}] :
             doc' = d /\ docOnDisk' = [h \in Home |-> {d[h]}]
      BY <3>1 DEF LoseHomes
    <3>3. Absent \in Document /\ UNION {docOnDisk[h] : h \in Home} \subseteq Document
      BY DEF Absent, Document, TypeInv, TypeOK
    <3> QED BY <3>1, <3>2, <3>3 DEF LoseHomes, Survivor, TypeInv, TypeOK
  <2> QED
    BY <1>5, <2>2, <2>3 DEF PowerLoss, TypeInv, TypeOK, KeyInHand, PCs, Command, Document, Absent,
       IsEncrypted
<1>6. CASE RemoveKey
  BY <1>6 DEF RemoveKey, TypeInv, TypeOK, KeyInHand, locals
<1>7. CASE UNCHANGED vars
  BY <1>7 DEF vars, TypeInv, TypeOK, KeyInHand
<1> QED BY <1>1, <1>2, <1>3, <1>4, <1>5, <1>6, <1>7 DEF Next

LEMMA InitType == Init => TypeInv
<1> SUFFICES ASSUME Init PROVE TypeInv
  OBVIOUS
<1> USE NamesAssumption, StartAssumption
<1>1. keyDir \in {"none", "kept"} /\ homeDir \in [Home -> {"none", "made", "kept"}]
  BY DEF Init
<1>2. /\ doc \in [Home -> Document] /\ docOnDisk \in [Home -> SUBSET Document]
      /\ archives \in [Home -> SUBSET Document]
  BY DEF Init, Document, Sealed
<1>3. usedEdits \subseteq Edit
  BY DEF Init
<1> QED
  BY <1>1, <1>2, <1>3 DEF Init, TypeInv, TypeOK, KeyInHand, Document, Absent, IsEncrypted, PCs,
     Command

\* Type correctness: in particular the snapshots and the file are only ever
\* sealed with a complete key (EnvironmentStore.backup, write_values).
THEOREM TypeCorrect == Spec => []TypeOK
<1>1. Spec => []TypeInv
  BY InitType, NextType, PTL DEF Spec
<1> QED BY <1>1, PTL DEF TypeInv

-----------------------------------------------------------------------------
(* No update is lost.  The invariant says what a process knows at each     *)
(* point of a save:                                                        *)
(*   - whoever is between flock and unlock is the holder (LockHeld);       *)
(*   - the values of a session are the document it has seen plus the one   *)
(*     change it is saving, which is in no document yet (Session);         *)
(*   - past the fingerprint check, until the replacement, the document is  *)
(*     still the one seen (Checked); after it, the one just written        *)
(*     (Written);                                                          *)
(*   - whatever a power loss may leave lies between the edits reported as  *)
(*     saved and the visible document (OnDisk).                            *)

LockHeld(p) == pc[p] \in Locked => lock[HomeOf[p]] = p

Session(p) ==
    /\ pc[p] \in {"idle", "load"} => seen[p] = Absent
    /\ pc[p] \in {"idle", "load", "loadkey"} => vals[p] = {} /\ edit[p] = NoEdit /\ ~pending[p]
    /\ pc[p] \notin {"idle", "load", "loadkey"} =>
           vals[p] = seen[p].content \cup ({edit[p]} \ {NoEdit})
    /\ pc[p] = "ready" \/ cmd[p] \notin {"cli", "tui"} => edit[p] = NoEdit
    /\ pending[p] => cmd[p] = "migrate"
    /\ edit[p] \notin seen[p].content

\* p has passed the fingerprint check and not replaced the document yet.
Saving(p) ==
    \/ pc[p] \in {"archive", "seal"}
    \/ pc[p] \in {"key", "create", "write", "syncKey", "syncKeyDir"} /\ call[p] # "snapshots"

Checked(p) == Saving(p) => doc[HomeOf[p]] = seen[p]

Written(p) == pc[p] = "syncDoc" => doc[HomeOf[p]] = Sealed(got[p], vals[p])

\* What a session holds was once chosen by a user, so a new edit is not in it.
Used(p) == vals[p] \subseteq usedEdits /\ seen[p].content \subseteq usedEdits

ProcInv(p) == LockHeld(p) /\ Session(p) /\ Checked(p) /\ Written(p) /\ Used(p)

OnDisk ==
    \A h \in Home :
        /\ doc[h] \in docOnDisk[h]
        /\ doc[h].content \subseteq usedEdits
        /\ \A d \in docOnDisk[h] : acked[h] \subseteq d.content /\ d.content \subseteq doc[h].content

StoreInv == OnDisk /\ \A p \in Proc : ProcInv(p)

\* Two processes of one home are not in their critical sections together.
LEMMA OneHolder ==
    ASSUME StoreInv, NEW p \in Proc, NEW q \in Proc, p # q, HomeOf[p] = HomeOf[q],
           pc[p] \in Locked
    PROVE  pc[q] \notin Locked
  BY DEF StoreInv, ProcInv, LockHeld

\* What a step leaves to the processes that do not take it.
Untouched(q) ==
    /\ pc'[q] = pc[q] /\ cmd'[q] = cmd[q] /\ call'[q] = call[q] /\ seen'[q] = seen[q]
    /\ vals'[q] = vals[q] /\ edit'[q] = edit[q] /\ got'[q] = got[q] /\ pending'[q] = pending[q]
    /\ lock[HomeOf[q]] = q => lock'[HomeOf[q]] = q

\* A step of p that replaces no document disturbs no other process.
LEMMA LocalStep ==
    ASSUME TypeInv, StoreInv, NEW p \in Proc,
           UNCHANGED <<doc, docOnDisk, acked>>, usedEdits \subseteq usedEdits',
           \A q \in Proc \ {p} : Untouched(q), ProcInv(p)'
    PROVE  StoreInv'
<1>1. OnDisk'
  BY DEF StoreInv, OnDisk
<1>2. ASSUME NEW q \in Proc, q # p PROVE ProcInv(q)'
  <2>1. ProcInv(q) /\ Untouched(q)
    BY <1>2 DEF StoreInv
  <2> QED BY <2>1 DEF ProcInv, Untouched, LockHeld, Session, Saving, Checked, Written, Used
<1> QED BY <1>1, <1>2 DEF StoreInv

LEMMA ExitInv ==
    ASSUME TypeInv, StoreInv, NEW p \in Proc, Exit(p), UNCHANGED <<doc, docOnDisk, acked, usedEdits>>
    PROVE  StoreInv'
<1> USE NamesAssumption, HomeAssumption
<1>1. ProcInv(p)'
  BY DEF Exit, TypeInv, TypeOK, ProcInv, LockHeld, Locked, Session, Saving, Checked, Written,
     Used, Absent
<1>2. \A q \in Proc \ {p} : Untouched(q)
  BY DEF Exit, Unlock, TypeInv, TypeOK, Untouched
<1> QED BY <1>1, <1>2, LocalStep

LEMMA FailInv ==
    ASSUME TypeInv, StoreInv, NEW p \in Proc, Fail(p), UNCHANGED <<doc, docOnDisk>>,
           pc[p] \in Locked \cup {"lock"}
    PROVE  StoreInv'
<1> USE NamesAssumption, HomeAssumption
<1>1. CASE Exit(p)
  BY <1>1, ExitInv DEF Fail
<1>2. CASE BackToCatalog(p) /\ cmd[p] = "tui"
  <2>1. ProcInv(p)
    BY DEF StoreInv
  <2>2. vals[p] \ {edit[p]} = seen[p].content
    BY <2>1 DEF ProcInv, Session, Locked
  <2>3. /\ pc'[p] = "ready" /\ vals'[p] = seen[p].content /\ edit'[p] = NoEdit
        /\ cmd'[p] = cmd[p] /\ seen'[p] = seen[p] /\ pending'[p] = pending[p]
        /\ usedEdits' = usedEdits
    BY <1>2, <2>2 DEF BackToCatalog, RollBack, TypeInv, TypeOK, Fail
  <2>4. seen[p].content \subseteq Edit
    BY DEF TypeInv, TypeOK, Document
  <2>5. ProcInv(p)'
    BY <1>2, <2>1, <2>3, <2>4 DEF ProcInv, LockHeld, Locked, Session, Saving, Checked, Written, Used
  <2>6. \A q \in Proc \ {p} : Untouched(q)
    BY <1>2 DEF BackToCatalog, RollBack, Unlock, TypeInv, TypeOK, Untouched
  <2> QED BY <2>5, <2>6, LocalStep DEF Fail
<1> QED BY <1>1, <1>2 DEF Fail

\* The steps that leave the document alone.
LEMMA QuietStepInv ==
    ASSUME TypeInv, StoreInv, NEW p \in Proc,
           Step(p), ~Replace(p), ~SyncDocument(p)
    PROVE  StoreInv'
<1> USE NamesAssumption, HomeAssumption
<1> USE DEF TypeInv, TypeOK, files, keyVars, docVars
<1>0. ProcInv(p)
  BY DEF StoreInv
<1>1. CASE LoadMissing(p)
  <2>1. CASE Exit(p)
    BY <1>1, <2>1, ExitInv DEF LoadMissing
  <2>2. CASE ~Exit(p)
    <3>1. ProcInv(p)'
      BY <1>0, <1>1, <2>2 DEF LoadMissing, ProcInv, LockHeld, Locked, Session, Saving, Checked,
         Written, Used, Absent
    <3>2. \A q \in Proc \ {p} : Untouched(q)
      BY <1>1, <2>2 DEF LoadMissing, Untouched
    <3> QED BY <1>1, <3>1, <3>2, LocalStep DEF LoadMissing
  <2> QED BY <2>1, <2>2
<1>2. CASE LoadDocument(p)
  <2>1. seen'[p] = doc[HomeOf[p]] /\ doc[HomeOf[p]].content \subseteq usedEdits
    BY <1>2 DEF LoadDocument, StoreInv, OnDisk
  <2>2. NoEdit \notin seen'[p].content
    BY <2>1 DEF Document
  <2>3. ProcInv(p)'
    BY <1>0, <1>2, <2>1, <2>2 DEF LoadDocument, ProcInv, LockHeld, Locked, Session, Saving,
       Checked, Written, Used
  <2>4. \A q \in Proc \ {p} : Untouched(q)
    BY <1>2 DEF LoadDocument, Untouched
  <2> QED BY <1>2, <2>3, <2>4, LocalStep DEF LoadDocument
<1>3. CASE LoadKey(p)
  <2>1. CASE Exit(p)
    BY <1>3, <2>1, ExitInv DEF LoadKey
  <2>2. CASE ~Exit(p)
    <3>1. /\ pc[p] = "loadkey" /\ pc' = [pc EXCEPT ![p] = "ready"]
          /\ vals' = [vals EXCEPT ![p] = seen[p].content]
          /\ UNCHANGED <<doc, docOnDisk, lock, cmd, call, seen, edit, got, pending, acked, usedEdits>>
      BY <1>3, <2>2 DEF LoadKey
    <3>2. ProcInv(p)'
      BY <1>0, <3>1 DEF ProcInv, LockHeld, Locked, Session, Saving, Checked, Written, Used, Document
    <3>3. \A q \in Proc \ {p} : Untouched(q)
      BY <3>1 DEF Untouched
    <3> QED BY <3>1, <3>2, <3>3, LocalStep
  <2> QED BY <2>1, <2>2
<1>4. CASE Decline(p) \/ SnapshotsDone(p)
  BY <1>4, ExitInv DEF Decline, SnapshotsDone
<1>5. CASE Migrate(p)
  <2>1. CASE Exit(p)
    BY <1>5, <2>1, ExitInv DEF Migrate
  <2>2. CASE ~Exit(p)
    <3>1. /\ pc[p] = "ready" /\ cmd[p] = "migrate"
          /\ pc' = [pc EXCEPT ![p] = "lock"]
          /\ \E c \in {"archive", "snapshots"} : call' = [call EXCEPT ![p] = c]
          /\ \E b \in BOOLEAN : pending' = [pending EXCEPT ![p] = b]
          /\ UNCHANGED <<doc, docOnDisk, lock, cmd, seen, vals, edit, got, acked, usedEdits>>
      BY <1>5, <2>2 DEF Migrate
    <3>2. ProcInv(p)'
      BY <1>0, <3>1 DEF ProcInv, LockHeld, Locked, Session, Saving, Checked, Written, Used
    <3>3. \A q \in Proc \ {p} : Untouched(q)
      BY <3>1 DEF Untouched
    <3> QED BY <3>1, <3>2, <3>3, LocalStep
  <2> QED BY <2>1, <2>2
<1>6. CASE Check(p)
  <2>1. ProcInv(p)'
    BY <1>0, <1>6 DEF Check, Fresh, AfterCheck, ProcInv, LockHeld, Locked, Session, Saving,
       Checked, Written, Used
  <2>2. \A q \in Proc \ {p} : Untouched(q)
    BY <1>6 DEF Check, Untouched
  <2> QED BY <1>6, <2>1, <2>2, LocalStep DEF Check
<1>7. CASE RefuseStale(p)
  BY <1>7, FailInv DEF RefuseStale, Locked
<1>8. CASE ReadKey(p) \/ CreateKey(p)
  <2>1. CASE Fail(p)
    BY <1>8, <2>1, FailInv DEF ReadKey, CreateKey, Locked
  <2>2. CASE ~Fail(p)
    <3>1. /\ pc[p] \in {"key", "create"}
          /\ \E l \in {"create", "write", call[p]} : pc' = [pc EXCEPT ![p] = l]
          /\ \A q \in Proc \ {p} : got'[q] = got[q]
          /\ UNCHANGED <<doc, docOnDisk, lock, cmd, call, seen, vals, edit, pending, acked, usedEdits>>
      BY <1>8, <2>2 DEF ReadKey, CreateKey, Obtain
    <3>2. ProcInv(p)'
      BY <1>0, <3>1 DEF ProcInv, LockHeld, Locked, Session, Saving, Checked, Written, Used
    <3>3. \A q \in Proc \ {p} : Untouched(q)
      BY <3>1 DEF Untouched
    <3> QED BY <3>1, <3>2, <3>3, LocalStep
  <2> QED BY <2>1, <2>2
<1>9. CASE WriteKey(p) \/ SyncKey(p) \/ SyncKeyDir(p)
  <2>1. /\ pc[p] \in {"write", "syncKey", "syncKeyDir"}
        /\ \E l \in {"syncKey", "syncKeyDir", call[p]} : pc' = [pc EXCEPT ![p] = l]
        /\ \A q \in Proc \ {p} : got'[q] = got[q]
        /\ UNCHANGED <<doc, docOnDisk, lock, cmd, call, seen, vals, edit, pending, acked, usedEdits>>
    BY <1>9 DEF WriteKey, SyncKey, SyncKeyDir
  <2>2. ProcInv(p)'
    BY <1>0, <2>1 DEF ProcInv, LockHeld, Locked, Session, Saving, Checked, Written, Used
  <2>3. \A q \in Proc \ {p} : Untouched(q)
    BY <2>1 DEF Untouched
  <2> QED BY <2>1, <2>2, <2>3, LocalStep
<1>10. CASE Archive(p)
  <2>1. ProcInv(p)'
    BY <1>0, <1>10 DEF Archive, ProcInv, LockHeld, Locked, Session, Saving, Checked, Written, Used
  <2>2. \A q \in Proc \ {p} : Untouched(q)
    BY <1>10 DEF Archive, Untouched
  <2> QED BY <1>10, <2>1, <2>2, LocalStep DEF Archive
<1>11. CASE ConvertSnapshot(p)
  <2>1. UNCHANGED <<doc, docOnDisk, lock, pc, cmd, call, seen, vals, edit, got, pending, acked,
                    usedEdits>>
    BY <1>11 DEF ConvertSnapshot, locals
  <2> QED BY <2>1 DEF StoreInv, OnDisk, ProcInv, LockHeld, Session, Saving, Checked, Written, Used
<1> QED
  BY <1>1, <1>2, <1>3, <1>4, <1>5, <1>6, <1>7, <1>8, <1>9, <1>10, <1>11 DEF Step

\* The replacement: what it writes is what is there and the pending change.
LEMMA Replacement ==
    ASSUME TypeInv, StoreInv, NEW p \in Proc, Replace(p)
    PROVE  /\ Sealed(got[p], vals[p]).content = doc[HomeOf[p]].content \cup ({edit[p]} \ {NoEdit})
           /\ edit[p] \notin doc[HomeOf[p]].content
           /\ Sealed(got[p], vals[p]).content \subseteq usedEdits
  BY HomeAssumption DEF Replace, StoreInv, ProcInv, Session, Saving, Checked, Used, Sealed

LEMMA ReplaceInv ==
    ASSUME TypeInv, StoreInv, NEW p \in Proc, Replace(p)
    PROVE  StoreInv'
<1> USE NamesAssumption, HomeAssumption
<1> USE DEF TypeInv, TypeOK
<1> DEFINE new == Sealed(got[p], vals[p])
<1>1. /\ doc[HomeOf[p]].content \subseteq new.content
      /\ new.content \subseteq usedEdits
  BY Replacement
<1>2. /\ doc' = [doc EXCEPT ![HomeOf[p]] = new]
      /\ docOnDisk' = [docOnDisk EXCEPT ![HomeOf[p]] = @ \cup {new}]
      /\ pc[p] = "seal" /\ pc' = [pc EXCEPT ![p] = "syncDoc"]
      /\ UNCHANGED <<lock, cmd, call, seen, vals, edit, got, pending, acked, usedEdits>>
  BY DEF Replace
<1> HIDE DEF new
<1>3. OnDisk'
  <2> SUFFICES ASSUME NEW h \in Home
               PROVE  /\ doc'[h] \in docOnDisk'[h]
                      /\ doc'[h].content \subseteq usedEdits
                      /\ \A d \in docOnDisk'[h] :
                            acked[h] \subseteq d.content /\ d.content \subseteq doc'[h].content
    BY <1>2 DEF OnDisk
  <2>1. CASE h = HomeOf[p]
    BY <1>1, <1>2, <2>1 DEF StoreInv, OnDisk
  <2>2. CASE h # HomeOf[p]
    BY <1>2, <2>2 DEF StoreInv, OnDisk
  <2> QED BY <2>1, <2>2
<1>4. ProcInv(p)'
  BY <1>2 DEF new, StoreInv, ProcInv, LockHeld, Locked, Session, Saving, Checked, Written, Used
<1>5. ASSUME NEW q \in Proc, q # p PROVE ProcInv(q)'
  <2>1. pc[q] \in Locked => HomeOf[q] # HomeOf[p]
    BY <1>2, <1>5, OneHolder DEF Locked
  <2>2. ProcInv(q)
    BY DEF StoreInv
  <2>3. pc[q] \in Locked => doc'[HomeOf[q]] = doc[HomeOf[q]]
    BY <1>2, <2>1
  <2> QED
    BY <1>2, <1>5, <2>2, <2>3 DEF ProcInv, LockHeld, Locked, Session, Saving, Checked, Written, Used
<1> QED BY <1>3, <1>4, <1>5 DEF StoreInv

\* When a save is reported as done the change is in the document.
LEMMA Reported ==
    ASSUME TypeInv, StoreInv, NEW p \in Proc, SyncDocument(p)
    PROVE  /\ doc[HomeOf[p]] = Sealed(got[p], vals[p])
           /\ {edit[p]} \ {NoEdit} \subseteq doc[HomeOf[p]].content
  BY DEF SyncDocument, StoreInv, ProcInv, Written, Session, Sealed

LEMMA SyncDocumentInv ==
    ASSUME TypeInv, StoreInv, NEW p \in Proc, SyncDocument(p)
    PROVE  StoreInv'
<1> USE NamesAssumption, HomeAssumption
<1> USE DEF TypeInv, TypeOK
<1>1. /\ docOnDisk' = [docOnDisk EXCEPT ![HomeOf[p]] = {doc[HomeOf[p]]}]
      /\ acked' = [acked EXCEPT ![HomeOf[p]] = @ \cup ({edit[p]} \ {NoEdit})]
      /\ UNCHANGED <<doc, usedEdits>>
  BY DEF SyncDocument, SyncDir
<1>2. OnDisk'
  <2> SUFFICES ASSUME NEW h \in Home
               PROVE  /\ doc[h] \in docOnDisk'[h]
                      /\ doc[h].content \subseteq usedEdits
                      /\ \A d \in docOnDisk'[h] :
                            acked'[h] \subseteq d.content /\ d.content \subseteq doc[h].content
    BY <1>1 DEF OnDisk
  <2>1. CASE h = HomeOf[p]
    BY <1>1, <2>1, Reported DEF StoreInv, OnDisk
  <2>2. CASE h # HomeOf[p]
    BY <1>1, <2>2 DEF StoreInv, OnDisk
  <2> QED BY <2>1, <2>2
<1>3. ProcInv(p)
  BY DEF StoreInv
<1>4. ProcInv(p)' /\ \A q \in Proc \ {p} : Untouched(q)
  <2>1. CASE Exit(p)
    <3>1. ProcInv(p)'
      BY <2>1 DEF Exit, ProcInv, LockHeld, Locked, Session, Saving, Checked, Written, Used, Absent
    <3>2. \A q \in Proc \ {p} : Untouched(q)
      BY <2>1 DEF Exit, Unlock, Untouched
    <3> QED BY <3>1, <3>2
  <2>2. CASE ~Exit(p)
    <3>1. /\ Unlock(p) /\ pc[p] = "syncDoc"
          /\ \/ pc' = [pc EXCEPT ![p] = "ready"] /\ edit' = [edit EXCEPT ![p] = NoEdit]
             \/ pc' = [pc EXCEPT ![p] = "lock"] /\ edit' = edit /\ pending[p]
          /\ \E c \in {"archive", "snapshots"} : call' = [call EXCEPT ![p] = c]
          /\ seen' = [seen EXCEPT ![p] = Sealed(got[p], vals[p])]
          /\ got' = [got EXCEPT ![p] = NoKey]
          /\ UNCHANGED <<cmd, vals, pending>>
      BY <2>2 DEF SyncDocument, SaveDone
    <3>2. seen'[p].content = vals[p]
      BY <3>1 DEF Sealed
    <3>3. edit'[p] = NoEdit
      BY <1>3, <3>1 DEF ProcInv, Session
    <3>4. ProcInv(p)'
      BY <1>1, <1>3, <3>1, <3>2, <3>3 DEF ProcInv, LockHeld, Locked, Session, Saving, Checked,
         Written, Used
    <3>5. \A q \in Proc \ {p} : Untouched(q)
      BY <3>1 DEF Unlock, Untouched
    <3> QED BY <3>4, <3>5
  <2> QED BY <2>1, <2>2
<1>5. ASSUME NEW q \in Proc, q # p PROVE ProcInv(q)'
  <2>1. ProcInv(q) /\ Untouched(q)
    BY <1>4, <1>5 DEF StoreInv
  <2> QED BY <1>1, <2>1 DEF ProcInv, Untouched, LockHeld, Session, Saving, Checked, Written, Used
<1> QED BY <1>2, <1>4, <1>5 DEF StoreInv

LEMMA NextInv == TypeInv /\ StoreInv /\ [Next]_vars => StoreInv'
<1> SUFFICES ASSUME TypeInv, StoreInv, [Next]_vars PROVE StoreInv'
  OBVIOUS
<1> USE NamesAssumption, HomeAssumption
<1> USE DEF TypeInv, TypeOK
<1>1. ASSUME NEW p \in Proc, Step(p) PROVE StoreInv'
  BY <1>1, QuietStepInv, ReplaceInv, SyncDocumentInv
<1>2. ASSUME NEW p \in Proc, AcquireLock(p) PROVE StoreInv'
  <2>1. ProcInv(p)'
    BY <1>2 DEF AcquireLock, StoreInv, ProcInv, LockHeld, Locked, Session, Saving, Checked,
       Written, Used
  <2>2. \A q \in Proc \ {p} : Untouched(q)
    BY <1>2 DEF AcquireLock, Untouched
  <2> QED BY <1>2, <2>1, <2>2, LocalStep DEF AcquireLock
<1>3. ASSUME NEW p \in Proc, User(p) PROVE StoreInv'
  <2>1. ASSUME NEW c \in Command, Start(p, c) PROVE StoreInv'
    <3>1. ProcInv(p)'
      BY <2>1 DEF Start, StoreInv, ProcInv, LockHeld, Locked, Session, Saving, Checked, Written,
         Used
    <3>2. \A q \in Proc \ {p} : Untouched(q)
      BY <2>1 DEF Start, Untouched
    <3> QED BY <2>1, <3>1, <3>2, LocalStep DEF Start, files
  <2>2. ASSUME NEW e \in Edit, Change(p, e) PROVE StoreInv'
    <3>1. ProcInv(p)'
      BY <2>2 DEF Change, StoreInv, ProcInv, LockHeld, Locked, Session, Saving, Checked, Written,
         Used
    <3>2. \A q \in Proc \ {p} : Untouched(q)
      BY <2>2 DEF Change, Untouched
    <3> QED BY <2>2, <3>1, <3>2, LocalStep DEF Change, files
  <2>3. CASE Quit(p)
    BY <2>3, ExitInv DEF Quit, files
  <2> QED BY <1>3, <2>1, <2>2, <2>3 DEF User
<1>4. ASSUME NEW p \in Proc, Fault(p) PROVE StoreInv'
  BY <1>4, ExitInv, FailInv DEF Fault, IOError, Kill, files
<1>5. CASE PowerLoss
  <2>1. OnDisk'
    <3>1. PICK gone \in SUBSET Home : LoseHomes(gone)
      BY <1>5 DEF PowerLoss
    <3>2. \A h \in Home : /\ doc'[h] \in IF h \in gone THEN {Absent} ELSE docOnDisk[h]
                          /\ docOnDisk'[h] = {doc'[h]}
                          /\ acked'[h] = IF h \in gone THEN {} ELSE acked[h]
      BY <3>1 DEF LoseHomes
    <3>3. usedEdits' = usedEdits
      BY <1>5 DEF PowerLoss
    <3> QED BY <3>2, <3>3 DEF StoreInv, OnDisk, Absent
  <2>2. ASSUME NEW p \in Proc PROVE ProcInv(p)'
    BY <1>5 DEF PowerLoss, ProcInv, LockHeld, Locked, Session, Saving, Checked, Written, Used,
       Absent
  <2> QED BY <2>1, <2>2 DEF StoreInv
<1>6. CASE RemoveKey
  BY <1>6 DEF RemoveKey, docVars, locals, StoreInv, OnDisk, ProcInv, LockHeld, Session, Saving,
     Checked, Written, Used
<1>7. CASE UNCHANGED vars
  BY <1>7 DEF vars, StoreInv, OnDisk, ProcInv, LockHeld, Session, Saving, Checked, Written, Used
<1> QED BY <1>1, <1>2, <1>3, <1>4, <1>5, <1>6, <1>7 DEF Next

LEMMA InitInv == Init => StoreInv
  BY NamesAssumption, HomeAssumption DEF Init, StoreInv, OnDisk, ProcInv, LockHeld, Locked, Session,
     Saving, Checked, Written, Used, Absent

LEMMA AlwaysInv == Spec => [](TypeInv /\ StoreInv)
  BY InitType, NextType, InitInv, NextInv, PTL DEF Spec

\* Optimistic saving loses nothing: whatever sessions overlap, fail or die,
\* an edit whose save was reported as done is in environment.conf.
THEOREM NoUpdateLost == Spec => []NoLostUpdate
<1>1. StoreInv => NoLostUpdate
  BY DEF StoreInv, OnDisk, NoLostUpdate
<1> QED BY <1>1, AlwaysInv, PTL

\* EnvmanTUI.persist_change puts back exactly the values that were loaded.
THEOREM RollbackIsExact == Spec => []RollbackExact
<1>1. StoreInv /\ TypeInv => RollbackExact
  BY DEF StoreInv, ProcInv, Session, RollbackExact
<1> QED BY <1>1, AlwaysInv, PTL

-----------------------------------------------------------------------------
(* The register of edits.  Replace is its Add, SyncDocument its Settle and *)
(* PowerLoss its LosePower; every other step leaves the register as it is. *)

Visible == [h \in Home |-> doc[h].content]
Safe == [h \in Home |-> {e \in Edit : \A d \in docOnDisk[h] : e \in d.content}]
Anchored == [h \in Home |-> homeDir[h] = "kept"]

LEMMA RegisterInit == Init => Register!Init
<1> SUFFICES ASSUME Init PROVE Register!Init
  OBVIOUS
<1>1. \A h \in Home : doc[h].content = {} /\ docOnDisk[h] = {doc[h]}
  BY DEF Init
<1>2. Visible = [h \in Home |-> {}] /\ Safe = [h \in Home |-> {}]
  BY <1>1 DEF Visible, Safe
<1>3. acked = [h \in Home |-> {}]
  BY DEF Init
<1>4. Anchored \in [Home -> BOOLEAN]
  BY DEF Anchored
<1> QED BY <1>2, <1>3, <1>4 DEF Register!Init, Visible, Safe, Anchored

\* A replacement adds the pending change and takes nothing away; without a
\* pending change (a migration) it changes nothing the register can see.
LEMMA ReplaceAdds ==
    ASSUME TypeInv, StoreInv, NEW p \in Proc, Replace(p)
    PROVE  [Register!Next]_Register!registerVars
<1> USE NamesAssumption, HomeAssumption
<1> USE DEF TypeInv, TypeOK
<1> DEFINE h == HomeOf[p]
           new == Sealed(got[p], vals[p])
<1>1. /\ doc' = [doc EXCEPT ![h] = new]
      /\ docOnDisk' = [docOnDisk EXCEPT ![h] = @ \cup {new}]
      /\ acked' = acked /\ Anchored' = Anchored
  BY DEF Replace, Anchored
<1>2. /\ new.content = doc[h].content \cup ({edit[p]} \ {NoEdit})
      /\ edit[p] \notin doc[h].content
  BY Replacement
<1>3. h \in Home /\ edit[p] \in Edit \cup {NoEdit} /\ doc[h] \in docOnDisk[h]
  BY DEF StoreInv, OnDisk
<1> HIDE DEF h, new
<1>4. Safe' = Safe
  <2> SUFFICES ASSUME NEW g \in Home, NEW e \in Edit
               PROVE  (\A d \in docOnDisk'[g] : e \in d.content)
                          <=> (\A d \in docOnDisk[g] : e \in d.content)
    BY DEF Safe
  <2>1. CASE g # h
    BY <1>1, <2>1
  <2>2. CASE g = h
    BY <1>1, <1>2, <1>3, <2>2
  <2> QED BY <2>1, <2>2
<1>5. Visible' = [Visible EXCEPT ![h] = @ \cup ({edit[p]} \ {NoEdit})]
  BY <1>1, <1>2, <1>3 DEF Visible
<1>6. CASE edit[p] = NoEdit
  <2>1. new.content = doc[h].content
    BY <1>2, <1>6
  <2>2. \A g \in Home : doc'[g].content = doc[g].content
    BY <1>1, <1>3, <2>1
  <2>3. Visible' = Visible
    BY <2>2 DEF Visible
  <2> QED BY <1>1, <1>4, <2>3 DEF Register!registerVars, Visible, Safe, Anchored
<1>7. CASE edit[p] # NoEdit
  <2>1. PICK e \in Edit : e = edit[p]
    BY <1>3, <1>7
  <2>2. {edit[p]} \ {NoEdit} = {e}
    BY <1>7, <2>1
  <2>3. /\ e \notin Visible[h]
        /\ Visible' = [Visible EXCEPT ![h] = @ \cup {e}]
    BY <1>2, <1>3, <1>5, <2>1, <2>2 DEF Visible
  <2>4. Register!Add(h, e)
    BY <1>1, <1>4, <2>3 DEF Register!Add, Visible, Safe, Anchored
  <2> QED BY <1>3, <2>4 DEF Register!Next
<1> QED BY <1>6, <1>7

\* The directory sync settles what is visible, and the change is reported.
LEMMA SyncSettles ==
    ASSUME TypeInv, StoreInv, NEW p \in Proc, SyncDocument(p)
    PROVE  [Register!Next]_Register!registerVars
<1> USE NamesAssumption, HomeAssumption
<1> USE DEF TypeInv, TypeOK
<1> DEFINE h == HomeOf[p]
           done == {edit[p]} \ {NoEdit}
<1>1. /\ docOnDisk' = [docOnDisk EXCEPT ![h] = {doc[h]}]
      /\ acked' = [acked EXCEPT ![h] = @ \cup done]
      /\ doc' = doc /\ Anchored' = Anchored
  BY DEF SyncDocument, SyncDir, Anchored
<1>2. h \in Home /\ doc[h].content \subseteq Edit /\ done \subseteq doc[h].content
  BY Reported DEF Document
<1>3. done = {} \/ \E e \in Edit : done = {e}
  BY DEF TypeInv, TypeOK
<1> HIDE DEF h, done
<1>4. Safe' = [Safe EXCEPT ![h] = Visible[h]]
  <2>1. \A g \in Home : Safe'[g] = IF g = h THEN Visible[h] ELSE Safe[g]
    BY <1>1, <1>2 DEF Safe, Visible
  <2> QED BY <1>2, <2>1 DEF Safe
<1>5. CASE done = {}
  <2>1. Register!Settle(h, {})
    BY <1>1, <1>2, <1>4, <1>5 DEF Register!Settle, Visible, Safe, Anchored
  <2> QED BY <1>2, <2>1 DEF Register!Next
<1>6. ASSUME NEW e \in Edit, done = {e} PROVE Register!Next
  <2>1. Register!Settle(h, {e})
    BY <1>1, <1>2, <1>4, <1>6 DEF Register!Settle, Visible, Safe, Anchored
  <2> QED BY <1>2, <2>1 DEF Register!Next
<1> QED BY <1>3, <1>5, <1>6

LEMMA LossLosesOnlyUnsettled ==
    ASSUME TypeInv, TypeInv', StoreInv, PowerLoss
    PROVE  [Register!Next]_Register!registerVars
<1> USE NamesAssumption, HomeAssumption
<1>1. PICK gone \in SUBSET Home : LoseHomes(gone)
  BY DEF PowerLoss
<1>2. /\ \A h \in gone : doc'[h] = Absent /\ homeDir[h] = "made"
      /\ \A h \in Home \ gone : doc'[h] \in docOnDisk[h]
      /\ \A h \in Home : docOnDisk'[h] = {doc'[h]}
      /\ \A h \in Home : homeDir[h] = "kept" => homeDir'[h] = "kept"
      /\ acked' = [h \in Home |-> IF h \in gone THEN {} ELSE acked[h]]
  BY <1>1 DEF LoseHomes, Lost, Survivor
<1>3. \A h \in Home : doc'[h].content \subseteq Edit
  BY DEF TypeInv, TypeOK, Document
<1>4. \A h \in Home \ gone : Safe[h] \subseteq Visible'[h] /\ Visible'[h] \subseteq Visible[h]
  BY <1>2 DEF Safe, Visible, StoreInv, OnDisk
<1>5. \A h \in gone : Visible'[h] = {}
  BY <1>2 DEF Visible, Absent
<1>6. Safe' = Visible'
  BY <1>2, <1>3 DEF Safe, Visible
<1>7. Visible' \in [Home -> SUBSET Edit]
  BY <1>3 DEF Visible
<1>8. /\ gone \in SUBSET {h \in Home : ~Anchored[h]}
      /\ Anchored' \in [Home -> BOOLEAN]
      /\ \A h \in Home : Anchored[h] => Anchored'[h]
  BY <1>2, Zenon DEF Anchored
<1>9. Register!LosePower
  BY <1>2, <1>4, <1>5, <1>6, <1>7, <1>8 DEF Register!LosePower, Safe, Visible, Anchored
<1> QED BY <1>9 DEF Register!Next

LEMMA RegisterNext ==
    TypeInv /\ TypeInv' /\ StoreInv /\ [Next]_vars => [Register!Next]_Register!registerVars
<1> SUFFICES ASSUME TypeInv, TypeInv', StoreInv, [Next]_vars
             PROVE  [Register!Next]_Register!registerVars
  OBVIOUS
<1>1. CASE UNCHANGED <<doc, docOnDisk, acked, Anchored>>
  BY <1>1 DEF Register!registerVars, Anchored
<1>2. ASSUME NEW p \in Proc, Step(p) PROVE [Register!Next]_Register!registerVars
  <2>1. CASE Replace(p)
    BY <2>1, ReplaceAdds
  <2>2. CASE SyncDocument(p)
    BY <2>2, SyncSettles
  <2>3. CASE ~Replace(p) /\ ~SyncDocument(p)
    <3>1. UNCHANGED <<doc, docOnDisk, homeDir>>
      BY <1>2, <2>3 DEF Step, LoadMissing, LoadDocument, LoadKey, Decline, Migrate, Check,
         RefuseStale, ReadKey, CreateKey, WriteKey, SyncKey, SyncKeyDir, Archive, ConvertSnapshot,
         SnapshotsDone, files, docVars
    <3>2. acked' = acked
      BY <1>2, <2>3 DEF Step, LoadMissing, LoadDocument, LoadKey, Decline, Migrate, Check,
         RefuseStale, Fail, ReadKey, CreateKey, Obtain, WriteKey, SyncKey, SyncKeyDir, Archive,
         ConvertSnapshot, SnapshotsDone
    <3> QED BY <1>1, <3>1, <3>2 DEF Anchored
  <2> QED BY <2>1, <2>2, <2>3
<1>3. ASSUME NEW p \in Proc, AcquireLock(p) \/ User(p) \/ Fault(p)
      PROVE  UNCHANGED <<doc, docOnDisk, acked, Anchored>>
  <2>1. CASE AcquireLock(p)
    <3>1. \A h \in Home : homeDir'[h] = "kept" <=> homeDir[h] = "kept"
      BY <2>1 DEF AcquireLock, Made, TypeInv, TypeOK
    <3> QED BY <2>1, <3>1 DEF AcquireLock, Anchored
  <2>2. CASE User(p) \/ Fault(p)
    BY <2>2 DEF User, Start, Change, Quit, Fault, IOError, Fail, Kill, files, Anchored
  <2> QED BY <1>3, <2>1, <2>2
<1>4. CASE PowerLoss
  BY <1>4, LossLosesOnlyUnsettled
<1>5. CASE RemoveKey \/ UNCHANGED vars
  BY <1>1, <1>5 DEF RemoveKey, docVars, vars, Anchored
<1> QED BY <1>1, <1>2, <1>3, <1>4, <1>5 DEF Next

\* environment.conf with its lock, fingerprints, replacement and syncs
\* implements the register: a save adds its edit and removes none, and what
\* was reported as saved survives every power loss.
THEOREM StoreImplementsRegister == Spec => ImplementsRegister
<1>1. Init => Register!Init
  BY RegisterInit
<1>2. TypeInv /\ TypeInv' /\ StoreInv /\ [Next]_vars => [Register!Next]_Register!registerVars
  BY RegisterNext
<1>3. Spec => [](TypeInv /\ StoreInv)
  BY AlwaysInv
<1> QED BY <1>1, <1>2, <1>3, PTL DEF Spec, ImplementsRegister, Register!Spec

-----------------------------------------------------------------------------
(* The key comes before the ciphertext.  As long as nobody removes the key *)
(* and the power stays on, a complete key never changes: whatever was      *)
(* sealed, read or fetched belongs to the key that is there, and only one  *)
(* process at a time, of whatever home, is filling a new key file.         *)

KeyHeld(p) ==
    /\ got[p] \in Key => key = got[p]
    /\ IsEncrypted(seen[p]) => key = seen[p].seal
    /\ pc[p] = "write" => key = Torn

OneCreator == \A p, q \in Proc : pc[p] = "write" /\ pc[q] = "write" => p = q

KeyInv == Readable /\ OneCreator /\ \A p \in Proc : KeyHeld(p)

\* Steps that change neither the key nor what is sealed.
LEMMA KeyQuiet ==
    ASSUME TypeInv, KeyInv, NEW p \in Proc, UNCHANGED <<key, doc, archives>>,
           pc'[p] # "write", KeyHeld(p)',
           \A q \in Proc \ {p} : pc'[q] = pc[q] /\ got'[q] = got[q] /\ seen'[q] = seen[q]
    PROVE  KeyInv'
  BY DEF KeyInv, KeyHeld, OneCreator, Readable, IsEncrypted

LEMMA ExitKey ==
    ASSUME TypeInv, KeyInv, NEW p \in Proc, Exit(p), UNCHANGED <<key, doc, archives>>
    PROVE  KeyInv'
<1>1. KeyHeld(p)' /\ pc'[p] # "write"
  BY NamesAssumption DEF Exit, TypeInv, TypeOK, KeyHeld, Absent, IsEncrypted
<1>2. \A q \in Proc \ {p} : pc'[q] = pc[q] /\ got'[q] = got[q] /\ seen'[q] = seen[q]
  BY DEF Exit, TypeInv, TypeOK
<1> QED BY <1>1, <1>2, KeyQuiet

LEMMA FailKey ==
    ASSUME TypeInv, KeyInv, NEW p \in Proc, Fail(p), UNCHANGED <<key, doc, archives>>
    PROVE  KeyInv'
<1>1. CASE Exit(p)
  BY <1>1, ExitKey
<1>2. CASE BackToCatalog(p)
  <2>1. KeyHeld(p)' /\ pc'[p] # "write"
    BY <1>2, NamesAssumption DEF BackToCatalog, KeyInv, TypeInv, TypeOK, KeyHeld, IsEncrypted
  <2>2. \A q \in Proc \ {p} : pc'[q] = pc[q] /\ got'[q] = got[q] /\ seen'[q] = seen[q]
    BY <1>2 DEF BackToCatalog, TypeInv, TypeOK
  <2> QED BY <2>1, <2>2, KeyQuiet
<1> QED BY <1>1, <1>2 DEF Fail

LEMMA KeyStep ==
    ASSUME TypeInv, KeyInv, NEW p \in Proc, Step(p)
    PROVE  KeyInv'
<1> USE NamesAssumption, HomeAssumption
<1> USE DEF TypeInv, TypeOK, files, keyVars, docVars
<1>0. KeyHeld(p)
  BY DEF KeyInv
<1>1. CASE Exit(p) /\ UNCHANGED <<key, doc, archives>>
  BY <1>1, ExitKey
<1>2. CASE Fail(p) /\ UNCHANGED <<key, doc, archives>>
  BY <1>2, FailKey
<1>3. CASE LoadDocument(p)
  <2>1. IsEncrypted(seen'[p]) => key = seen'[p].seal
    BY <1>3 DEF LoadDocument, KeyInv, Readable
  <2> QED BY <1>0, <1>3, <2>1, KeyQuiet DEF LoadDocument, KeyHeld
<1>4. CASE LoadMissing(p) \/ LoadKey(p) \/ Migrate(p) \/ Check(p) \/ ConvertSnapshot(p)
  <2>1. CASE ConvertSnapshot(p)
    <3>1. key = got[p]
      BY <1>0, <2>1 DEF ConvertSnapshot, KeyInHand, KeyHeld
    <3> QED
      BY <2>1, <3>1 DEF ConvertSnapshot, locals, Converted, Sealed, KeyInv, KeyHeld, OneCreator,
         Readable, IsEncrypted
  <2>2. CASE ~ConvertSnapshot(p) /\ ~(Exit(p) /\ UNCHANGED <<key, doc, archives>>)
    <3>1. /\ \E l \in {"ready", "lock", "archive", "key"} : pc' = [pc EXCEPT ![p] = l]
          /\ UNCHANGED <<key, doc, archives, got, seen>>
      BY <1>4, <2>2 DEF LoadMissing, LoadKey, Migrate, Check, AfterCheck
    <3>2. KeyHeld(p)'
      BY <1>0, <3>1 DEF KeyHeld, IsEncrypted
    <3> QED BY <3>1, <3>2, KeyQuiet
  <2> QED BY <1>1, <1>4, <2>1, <2>2
<1>5. CASE ReadKey(p)
  <2>1. CASE ~Fail(p)
    <3>1. /\ \E l \in {"create", call[p]} : pc' = [pc EXCEPT ![p] = l]
          /\ got'[p] \in {got[p], key}
          /\ \A q \in Proc \ {p} : got'[q] = got[q]
          /\ UNCHANGED <<key, doc, archives, seen>>
      BY <1>5, <2>1 DEF ReadKey, Obtain
    <3>2. KeyHeld(p)' /\ pc'[p] # "write"
      BY <1>0, <3>1 DEF KeyHeld, IsEncrypted
    <3> QED BY <3>1, <3>2, KeyQuiet
  <2> QED BY <1>2, <1>5, <2>1 DEF ReadKey
<1>6. CASE CreateKey(p)
  <2>1. CASE key = NoKey
    <3>1. key' = Torn /\ pc' = [pc EXCEPT ![p] = "write"] /\ UNCHANGED <<doc, archives, got, seen>>
      BY <1>6, <2>1 DEF CreateKey, OpenedExclusively
    <3>2. /\ \A h \in Home : \A d \in {doc[h]} \cup archives[h] : ~IsEncrypted(d)
          /\ \A q \in Proc : got[q] \notin Key /\ ~IsEncrypted(seen[q]) /\ pc[q] # "write"
      BY <2>1 DEF KeyInv, Readable, KeyHeld, IsEncrypted
    <3> QED BY <3>1, <3>2 DEF KeyInv, Readable, KeyHeld, OneCreator, IsEncrypted
  <2>2. CASE key # NoKey /\ ~(Fail(p) /\ UNCHANGED <<key, doc, archives>>)
    <3>1. /\ pc' = [pc EXCEPT ![p] = call[p]]
          /\ got' = [got EXCEPT ![p] = key]
          /\ UNCHANGED <<key, doc, archives, seen>>
      BY <1>6, <2>2 DEF CreateKey, OpenedExclusively, Obtain
    <3>2. KeyHeld(p)' /\ pc'[p] # "write"
      BY <1>0, <3>1 DEF KeyHeld, IsEncrypted
    <3> QED BY <3>1, <3>2, KeyQuiet
  <2> QED BY <1>2, <2>1, <2>2
<1>7. CASE WriteKey(p)
  <2>1. PICK k \in Key : key' = k /\ got' = [got EXCEPT ![p] = k]
    BY <1>7 DEF WriteKey
  <2>2. pc' = [pc EXCEPT ![p] = "syncKey"] /\ UNCHANGED <<doc, archives, seen>> /\ key = Torn
    BY <1>0, <1>7 DEF WriteKey, KeyHeld
  <2>3. /\ \A h \in Home : \A d \in {doc[h]} \cup archives[h] : ~IsEncrypted(d)
        /\ \A q \in Proc : got[q] \notin Key /\ ~IsEncrypted(seen[q])
        /\ \A q \in Proc \ {p} : pc[q] # "write"
    BY <1>7, <2>2 DEF KeyInv, Readable, KeyHeld, IsEncrypted, OneCreator, WriteKey
  <2> QED BY <2>1, <2>2, <2>3 DEF KeyInv, Readable, KeyHeld, OneCreator, IsEncrypted
<1>8. CASE SyncKey(p) \/ SyncKeyDir(p)
  <2>1. /\ \E l \in {"syncKeyDir", call[p]} : pc' = [pc EXCEPT ![p] = l]
        /\ UNCHANGED <<key, doc, archives, got, seen>>
    BY <1>8 DEF SyncKey, SyncKeyDir
  <2>2. KeyHeld(p)' /\ pc'[p] # "write"
    BY <1>0, <2>1 DEF KeyHeld, IsEncrypted
  <2> QED BY <2>1, <2>2, KeyQuiet
<1>9. CASE Archive(p)
  <2>1. IsEncrypted(Archived(p)) => key = Archived(p).seal
    BY <1>0, <1>9 DEF Archive, Archived, Sealed, KeyInHand, KeyHeld, IsEncrypted
  <2>2. /\ archives' = [archives EXCEPT ![HomeOf[p]] = @ \cup {Archived(p)}]
        /\ pc' = [pc EXCEPT ![p] = "key"] /\ UNCHANGED <<key, doc, got, seen>>
    BY <1>9 DEF Archive
  <2>3. Readable'
    BY <2>1, <2>2 DEF KeyInv, Readable, IsEncrypted
  <2> QED BY <2>2, <2>3 DEF KeyInv, KeyHeld, OneCreator, IsEncrypted
<1>10. CASE Replace(p)
  <2>1. key = got[p]
    BY <1>0, <1>10 DEF Replace, KeyInHand, KeyHeld
  <2>2. /\ doc' = [doc EXCEPT ![HomeOf[p]] = Sealed(got[p], vals[p])]
        /\ pc' = [pc EXCEPT ![p] = "syncDoc"] /\ UNCHANGED <<key, archives, got, seen>>
    BY <1>10 DEF Replace
  <2>3. Readable'
    BY <2>1, <2>2 DEF KeyInv, Readable, Sealed, IsEncrypted
  <2> QED BY <2>2, <2>3 DEF KeyInv, KeyHeld, OneCreator, IsEncrypted
<1>11. CASE SyncDocument(p)
  <2>1. CASE Exit(p)
    BY <1>1, <1>11, <2>1 DEF SyncDocument
  <2>2. CASE ~Exit(p)
    <3>1. /\ \E l \in {"ready", "lock"} : pc' = [pc EXCEPT ![p] = l]
          /\ seen' = [seen EXCEPT ![p] = Sealed(got[p], vals[p])]
          /\ got' = [got EXCEPT ![p] = NoKey]
          /\ UNCHANGED <<key, doc, archives>>
      BY <1>11, <2>2 DEF SyncDocument, SaveDone
    <3>2. key = got[p]
      BY <1>0, <1>11 DEF SyncDocument, KeyInHand, KeyHeld
    <3>3. KeyHeld(p)' /\ pc'[p] # "write"
      BY <3>1, <3>2 DEF KeyHeld, IsEncrypted, Sealed
    <3> QED BY <3>1, <3>3, KeyQuiet
  <2> QED BY <2>1, <2>2
<1>12. CASE Decline(p) \/ RefuseStale(p) \/ SnapshotsDone(p)
  BY <1>1, <1>2, <1>12 DEF Decline, RefuseStale, SnapshotsDone
<1> QED
  BY <1>3, <1>4, <1>5, <1>6, <1>7, <1>8, <1>9, <1>10, <1>11, <1>12 DEF Step

LEMMA KeyNext ==
    ASSUME Faults \cap {"rmkey", "loss"} = {}
    PROVE  TypeInv /\ KeyInv /\ [Next]_vars => KeyInv'
<1> SUFFICES ASSUME TypeInv, KeyInv, [Next]_vars PROVE KeyInv'
  OBVIOUS
<1>1. ASSUME NEW p \in Proc, Step(p) PROVE KeyInv'
  BY <1>1, KeyStep
<1>2. ASSUME NEW p \in Proc, Fault(p) \/ Quit(p) PROVE KeyInv'
  BY <1>2, ExitKey, FailKey DEF Fault, IOError, Kill, Quit, files
<1>3. ASSUME NEW p \in Proc,
             AcquireLock(p) \/ (\E c \in Command : Start(p, c)) \/ (\E e \in Edit : Change(p, e))
      PROVE  KeyInv'
  <2>1. /\ \E l \in {"load", "lock", "key", "check"} : pc' = [pc EXCEPT ![p] = l]
        /\ UNCHANGED <<key, doc, archives, got, seen>>
    BY <1>3 DEF AcquireLock, Start, Change, files, keyVars
  <2>2. KeyHeld(p)' /\ pc'[p] # "write"
    BY <2>1 DEF KeyInv, KeyHeld, IsEncrypted, TypeInv, TypeOK
  <2>3. \A q \in Proc \ {p} : pc'[q] = pc[q] /\ got'[q] = got[q] /\ seen'[q] = seen[q]
    BY <2>1 DEF TypeInv, TypeOK
  <2> QED BY <2>1, <2>2, <2>3, KeyQuiet
<1>4. ~PowerLoss /\ ~RemoveKey
  BY DEF PowerLoss, RemoveKey
<1>5. CASE UNCHANGED vars
  BY <1>5 DEF vars, KeyInv, Readable, KeyHeld, OneCreator, IsEncrypted
<1> QED BY <1>1, <1>2, <1>3, <1>4, <1>5 DEF Next, User

LEMMA KeyInit == Init => KeyInv
  BY NamesAssumption, StartAssumption, HomeAssumption DEF Init, KeyInv, Readable, KeyHeld,
     OneCreator,
     IsEncrypted, Sealed, Absent

\* Whatever homes share the storage key and whatever processes die or fail:
\* every ciphertext, the file's and the snapshots', opens with the one key
\* file there is (load_or_create_file_key, backup, write_values).
THEOREM CiphertextReadable ==
    ASSUME Faults \cap {"rmkey", "loss"} = {}
    PROVE  Spec => []Readable
<1>1. TypeInv /\ KeyInv /\ [Next]_vars => KeyInv'
  BY KeyNext
<1>2. KeyInv => Readable
  BY DEF KeyInv
<1>3. Spec => []TypeInv
  BY AlwaysInv, PTL
<1> QED BY <1>1, <1>2, <1>3, KeyInit, PTL DEF Spec

\* So a reader, which holds no lock, is never refused a ciphertext it read.
THEOREM ReaderNeverRefused ==
    ASSUME Faults \cap {"rmkey", "loss"} = {}
    PROVE  Spec => []ReaderFindsKey
<1>1. TypeInv /\ KeyInv /\ [Next]_vars => KeyInv'
  BY KeyNext
<1>2. KeyInv => ReaderFindsKey
  BY DEF KeyInv, KeyHeld, ReaderFindsKey, Opens
<1>3. Spec => []TypeInv
  BY AlwaysInv, PTL
<1> QED BY <1>1, <1>2, <1>3, KeyInit, PTL DEF Spec

=============================================================================
