---------------------------- MODULE CatalogProofs ----------------------------
(***************************************************************************)
(* Theorems about Catalog: no sequence of changes, imports and failed saves *)
(* makes a sensitive value visible, for any names, values and environments. *)
(***************************************************************************)
EXTENDS Catalog, TLAPS

(* What has to be kept of the values in memory, and of those a failed save  *)
(* goes back to: the guarded variables are masked.                          *)
Hidden(names, vals) ==
    /\ names \subseteq Name
    /\ vals = [n \in Name |-> vals[n]]
    /\ \A n \in names : Sensitive(n, vals[n])

MaskInv ==
    /\ Hidden(guarded, values)
    /\ screen \in {"saving", "importing"} => Hidden(before.guarded, previous.values)

-----------------------------------------------------------------------------
(* What a change does to the guarded variables.                            *)

\* Only variables with a name of their own are sensitive.
LEMMA SensitiveNames ==
    ASSUME NEW n, NEW v, Sensitive(n, v)
    PROVE  n \in Name
BY NameAssumption DEF Sensitive

LEMMA TypeableNames == Typeable \subseteq Name
BY NameAssumption DEF Typeable

LEMMA NoneIsNoName == None \notin Name
BY TextAssumption DEF Value, None

\* One variable gets a value that may come from a guarded one (cli.py set and
\* the catalog's add and edit).
LEMMA PutHides ==
    ASSUME Hidden(guarded, values), NEW n, NEW v, NEW src,
           src \in guarded => Sensitive(n, v)
    PROVE  Hidden(Guards(n, v, src), Put(n, v))
<1>1. Guards(n, v, src) \subseteq Name
  BY SensitiveNames DEF Guards, Hidden
<1>2. Put(n, v) = [m \in Name |-> Put(n, v)[m]]
  BY DEF Put, Hidden
<1>3. ASSUME NEW m \in Guards(n, v, src) PROVE Sensitive(m, Put(n, v)[m])
  <2>1. CASE m = n
    <3>1. Sensitive(n, v)
      BY <1>3, <2>1 DEF Guards
    <3>2. Put(n, v)[m] = v
      BY <2>1, <3>1, SensitiveNames DEF Put, Hidden
    <3> QED BY <2>1, <3>1, <3>2
  <2>2. CASE m # n
    <3>1. m \in guarded
      BY <1>3, <2>2 DEF Guards
    <3>2. Put(n, v)[m] = values[m]
      BY <2>2, <3>1 DEF Put, Hidden
    <3> QED BY <3>1, <3>2 DEF Hidden
  <2> QED BY <2>1, <2>2
<1> QED BY <1>1, <1>2, <1>3 DEF Hidden

\* What is entered for n is masked at n if it comes from a guarded variable.
LEMMA EnteredHidden ==
    ASSUME Hidden(guarded, values), NEW n, NEW raw, Enterable(n, raw)
    PROVE  Hidden(Guards(n, Entered(n, raw), Source(n, raw)), Put(n, Entered(n, raw)))
<1>1. ASSUME Source(n, raw) \in guarded PROVE Sensitive(n, Entered(n, raw))
  <2>1. Source(n, raw) # None
    BY <1>1, NoneIsNoName DEF Hidden
  <2>2. Copyable(n, Source(n, raw))
    BY <2>1 DEF Enterable
  <2>3. Sensitive(Source(n, raw), values[Source(n, raw)])
    BY <1>1 DEF Hidden
  <2>4. n \notin ReferenceName
    BY <2>1 DEF Source
  <2>5. Entered(n, raw) = values[Source(n, raw)]
    BY <2>1, <2>4 DEF Entered
  <2> QED BY <2>2, <2>3, <2>5 DEF Copyable, StaysMasked
<1> QED BY <1>1, PutHides

\* Renaming takes the guard along (validate_rename_sensitivity).
LEMMA MovedHidden ==
    ASSUME Hidden(guarded, values), NEW old, NEW new \in Name, Renamable(new, old)
    PROVE  Hidden(GuardsMoved(old, new), Moved(old, new))
<1>1. GuardsMoved(old, new) \subseteq Name
  BY DEF GuardsMoved, Hidden
<1>2. Moved(old, new) = [m \in Name |-> Moved(old, new)[m]]
  BY DEF Moved, Hidden
<1>3. ASSUME NEW m \in GuardsMoved(old, new) PROVE Sensitive(m, Moved(old, new)[m])
  <2>1. CASE m = new /\ (old \in guarded \/ Sensitive(new, values[old]))
    <3>1. Sensitive(new, values[old])
      BY <2>1 DEF Hidden, Renamable, StaysMasked
    <3>2. Moved(old, new)[new] = values[old]
      BY DEF Moved, Hidden
    <3> QED BY <2>1, <3>1, <3>2
  <2>2. CASE m \in guarded /\ m # old /\ m # new
    <3>1. Moved(old, new)[m] = values[m]
      BY <2>2 DEF Moved, Hidden
    <3> QED BY <2>2, <3>1 DEF Hidden
  <2> QED BY <1>3, <2>1, <2>2 DEF GuardsMoved
<1> QED BY <1>1, <1>2, <1>3 DEF Hidden

\* A value copied to a group of variables is masked at each of them.
LEMMA CopiedHidden ==
    ASSUME Hidden(guarded, values), NEW src, NEW group,
           \A n \in group : Copyable(n, src),
           NEW names, NEW vals,
           names = IF src \in guarded
                   THEN guarded \cup group
                   ELSE (guarded \ group) \cup {n \in group : Sensitive(n, values[src])},
           vals = [n \in Name |-> IF n \in group THEN values[src] ELSE values[n]]
    PROVE  Hidden(names, vals)
<1>1. ASSUME NEW n \in names PROVE n \in Name /\ Sensitive(n, vals[n])
  <2>1. CASE n \in group
    <3>1. Sensitive(n, values[src])
      BY <1>1, <2>1 DEF Hidden, Copyable, StaysMasked
    <3> QED BY <2>1, <3>1, SensitiveNames
  <2>2. CASE n \notin group
    <3>1. n \in guarded /\ n \in Name
      BY <1>1, <2>2 DEF Hidden
    <3> QED BY <2>2, <3>1 DEF Hidden
  <2> QED BY <2>1, <2>2
<1>2. vals = [n \in Name |-> vals[n]]
  OBVIOUS
<1> QED BY <1>1, <1>2 DEF Hidden

\* An import guards what it brings that is sensitive (environments are not
\* managed: where their values came from before is not known).
LEMMA ImportHides ==
    ASSUME Hidden(guarded, values), NEW env, NEW chosen, Importable(env, chosen)
    PROVE  Hidden(GuardsImported(env, chosen), Imported(env, chosen))
<1>1. chosen \subseteq Name
  BY DEF Importable, Selectable, Valid
<1>2. GuardsImported(env, chosen) \subseteq Name
  BY <1>1 DEF GuardsImported, Hidden
<1>3. ASSUME NEW n \in GuardsImported(env, chosen) PROVE Sensitive(n, Imported(env, chosen)[n])
  <2>1. CASE n \in chosen
    BY <1>1, <1>3, <2>1 DEF GuardsImported, Imported
  <2>2. CASE n \notin chosen
    <3>1. n \in guarded /\ n \in Name
      BY <1>3, <2>2 DEF GuardsImported, Hidden
    <3> QED BY <2>2, <3>1 DEF Imported, Hidden
  <2> QED BY <2>1, <2>2
<1>4. Imported(env, chosen) = [n \in Name |-> Imported(env, chosen)[n]]
  BY DEF Imported
<1> QED BY <1>2, <1>3, <1>4 DEF Hidden

\* A deleted variable is guarded no more.
LEMMA RemovedHidden ==
    ASSUME Hidden(guarded, values), NEW group, NEW vals,
           vals = [n \in Name |-> IF n \in group THEN None ELSE values[n]]
    PROVE  Hidden(guarded \ group, vals)
<1>1. ASSUME NEW n \in guarded \ group PROVE Sensitive(n, vals[n])
  BY <1>1 DEF Hidden
<1>2. vals = [n \in Name |-> vals[n]]
  OBVIOUS
<1> QED BY <1>1, <1>2 DEF Hidden

-----------------------------------------------------------------------------
(* The invariant.                                                          *)

LEMMA InitHides == Init => MaskInv
<1> SUFFICES ASSUME Init PROVE MaskInv
  OBVIOUS
<1>1. guarded \subseteq Name /\ \A n \in guarded : Sensitive(n, values[n])
  BY DEF Init, Managed
<1>2. values = [n \in Name |-> values[n]]
  BY DEF Init
<1> QED BY <1>1, <1>2 DEF Init, MaskInv, Hidden

\* A change in the catalog keeps what it replaces for a failed save.
LEMMA ChangeHides ==
    ASSUME MaskInv, NEW vals, NEW marks, NEW i, NEW marksToo,
           Change(vals, marks, i, marksToo), Hidden(guarded', vals)
    PROVE  MaskInv'
<1>1. Hidden(guarded, values)'
  BY DEF Change, Hidden
<1>2. Hidden(before.guarded, previous.values)'
  BY DEF Change, MaskInv, Hidden
<1> QED BY <1>1, <1>2 DEF MaskInv

\* A command keeps nothing: what is not saved is dropped with its process.
LEMMA CommandHides ==
    ASSUME MaskInv, NEW vals, Command(vals), Hidden(guarded', vals)
    PROVE  MaskInv'
BY DEF MaskInv, Command, session, Hidden

\* Where neither the values nor the guarded variables change and no save is
\* under way afterwards, there is nothing to show.
LEMMA QuietHides ==
    ASSUME MaskInv, values' = values, guarded' = guarded, screen' \notin {"saving", "importing"}
    PROVE  MaskInv'
BY DEF MaskInv, Hidden

LEMMA MaskStep == MaskInv /\ [Next]_vars => MaskInv'
<1> SUFFICES ASSUME MaskInv, [Next]_vars PROVE MaskInv'
  OBVIOUS
<1>h. Hidden(guarded, values)
  BY DEF MaskInv
<1>1. CASE StartTUI \/ Quit \/ MoveFocus \/ ToggleMark \/ SaveOk \/ LeavePreview
  BY <1>1, QuietHides DEF StartTUI, Quit, MoveFocus, ToggleMark, SaveOk, LeavePreview, Draw
<1>2. ASSUME NEW vw \in Arrangements(view), Arrange(vw) PROVE MaskInv'
  BY <1>2, QuietHides DEF Arrange, Draw
<1>3. ASSUME NEW vw \in Arrangements(preview.view), ArrangePreview(vw) PROVE MaskInv'
  BY <1>3, QuietHides DEF ArrangePreview
<1>4. ASSUME NEW env \in Environment, OpenPreview(env) PROVE MaskInv'
  BY <1>4, QuietHides DEF OpenPreview
<1>5. CASE ToggleSource
  BY <1>5, QuietHides DEF ToggleSource
<1>6. ASSUME NEW n \in Name, NEW raw \in Typed, Add(n, raw) PROVE MaskInv'
  <2> DEFINE vals == Put(n, Entered(n, raw))
  <2>1. Hidden(guarded', vals)
    BY <1>6, <1>h, EnteredHidden DEF Add
  <2>2. Change(vals, Pruned(marked, vals, view), Selected(n, focus, vals, view), FALSE)
    BY <1>6 DEF Add
  <2> QED BY <2>1, <2>2, ChangeHides
<1>7. ASSUME NEW raw \in Typed, Edit(raw) PROVE MaskInv'
  <2> DEFINE vals == Put(Current, Entered(Current, raw))
  <2>1. Hidden(guarded', vals)
    BY <1>7, <1>h, EnteredHidden DEF Edit
  <2>2. Change(vals, marked, focus, FALSE)
    BY <1>7 DEF Edit
  <2> QED BY <2>1, <2>2, ChangeHides
<1>8. ASSUME NEW src \in Name, Copy(src) PROVE MaskInv'
  <2> DEFINE vals == [n \in Name |-> IF n \in Group THEN values[src] ELSE values[n]]
  <2>1. Hidden(guarded', vals)
    BY <1>8, <1>h, CopiedHidden DEF Copy
  <2>2. Change(vals, marked, focus, TRUE)
    BY <1>8 DEF Copy
  <2> QED BY <2>1, <2>2, ChangeHides
<1>9. ASSUME NEW new \in Name, Rename(new) PROVE MaskInv'
  <2> DEFINE vals == Moved(Current, new)
             marks == IF Current \in marked THEN (marked \ {Current}) \cup {new} ELSE marked
  <2>1. Hidden(guarded', vals)
    BY <1>9, <1>h, MovedHidden DEF Rename
  <2>2. Change(vals, Pruned(marks, vals, view), Selected(new, focus, vals, view), TRUE)
    BY <1>9 DEF Rename
  <2> QED BY <2>1, <2>2, ChangeHides
<1>10. CASE Delete
  <2> DEFINE vals == [n \in Name |-> IF n \in Group THEN None ELSE values[n]]
  <2>1. Hidden(guarded', vals)
    BY <1>10, <1>h, RemovedHidden DEF Delete
  <2>2. Change(vals, Pruned(marked, vals, view), Clamped(focus, vals, view), TRUE)
    BY <1>10 DEF Delete
  <2> QED BY <2>1, <2>2, ChangeHides
<1>11. CASE SaveFailed
  <2>1. Hidden(before.guarded, previous.values)
    BY <1>11 DEF SaveFailed, MaskInv
  <2> QED BY <1>11, <2>1 DEF SaveFailed, Draw, MaskInv, Hidden
<1>12. CASE Import
  <2>1. Hidden(guarded', values')
    BY <1>12, <1>h, ImportHides DEF Import
  <2>2. before'.guarded = guarded /\ previous'.values = values
    BY <1>12 DEF Import, Quiet, Nothing
  <2> QED BY <1>h, <2>1, <2>2 DEF MaskInv, Hidden
<1>13. CASE ImportOk
  BY <1>13, QuietHides DEF ImportOk, Draw
<1>14. CASE ImportFailed
  <2>1. Hidden(before.guarded, previous.values)
    BY <1>14 DEF ImportFailed, MaskInv
  <2> QED BY <1>14, <2>1 DEF ImportFailed, MaskInv, Hidden
<1>15. ASSUME NEW n \in Name, NEW src \in Name, SetFrom(n, src) PROVE MaskInv'
  <2>1. src \in guarded => Sensitive(n, values[src])
    BY <1>15, <1>h DEF SetFrom, Copyable, StaysMasked, Hidden
  <2>2. Hidden(guarded', Put(n, values[src]))
    BY <1>15, <1>h, <2>1, PutHides DEF SetFrom
  <2> QED BY <1>15, <2>2, CommandHides DEF SetFrom
<1>16. ASSUME NEW n \in Name, NEW raw \in Typed, SetStdin(n, raw) PROVE MaskInv'
  <2>1. None \notin guarded
    BY <1>h, NoneIsNoName DEF Hidden
  <2>2. Hidden(guarded', Put(n, raw))
    BY <1>16, <1>h, <2>1, PutHides DEF SetStdin
  <2> QED BY <1>16, <2>2, CommandHides DEF SetStdin
<1>17. ASSUME NEW n \in Name, NEW raw \in Typed, SetValue(n, raw) PROVE MaskInv'
  <2>1. Hidden(guarded', Put(n, Entered(n, raw)))
    BY <1>17, <1>h, EnteredHidden DEF SetValue
  <2> QED BY <1>17, <2>1, CommandHides DEF SetValue
<1>18. ASSUME NEW n \in Name, Unset(n) PROVE MaskInv'
  <2>1. Put(n, None) = [m \in Name |-> IF m \in {n} THEN None ELSE values[m]]
    BY <1>h DEF Put, Hidden
  <2>2. Hidden(guarded', Put(n, None))
    BY <1>18, <1>h, <2>1, RemovedHidden DEF Unset
  <2> QED BY <1>18, <2>2, CommandHides DEF Unset
<1>19. ASSUME NEW old \in Name, NEW new \in Name, RenameCommand(old, new) PROVE MaskInv'
  <2>1. Hidden(guarded', Moved(old, new))
    BY <1>19, <1>h, MovedHidden DEF RenameCommand
  <2> QED BY <1>19, <2>1, CommandHides DEF RenameCommand
<1>20. ASSUME NEW env \in Environment, NEW chosen \in SUBSET Name, NEW replace \in BOOLEAN,
              ImportCommand(env, chosen, replace)
       PROVE  MaskInv'
  <2>1. Hidden(guarded', Imported(env, chosen))
    BY <1>20, <1>h, ImportHides DEF ImportCommand
  <2> QED BY <1>20, <2>1, CommandHides DEF ImportCommand
<1>21. CASE UNCHANGED vars
  BY <1>21 DEF vars, MaskInv, Hidden
<1> QED
  BY <1>1, <1>2, <1>3, <1>4, <1>5, <1>6, <1>7, <1>8, <1>9, <1>10, <1>11, <1>12, <1>13,
     <1>14, <1>15, <1>16, <1>17, <1>18, <1>19, <1>20, <1>21 DEF Next

\* No sequence of additions, edits, copies, renames, deletions, imports,
\* commands and failed saves, in catalogs and on the command line, leaves a value
\* that came from a sensitive variable where it is shown.
THEOREM NothingExposed == Spec => []NeverExposed
<1>1. MaskInv => NeverExposed
  BY DEF MaskInv, Hidden, NeverExposed
<1> QED BY <1>1, InitHides, MaskStep, PTL DEF Spec
=============================================================================
