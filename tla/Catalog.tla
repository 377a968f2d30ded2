------------------------------- MODULE Catalog -------------------------------
(***************************************************************************)
(* The managed variables as the commands and the catalog of cli.py change  *)
(* them: entering, copying, renaming, deleting and importing, the rules on *)
(* references and sensitive values, and the state of the catalog screen    *)
(* (focus, marked variables, sort order, filter) with its rollback.        *)
(*                                                                         *)
(* Names and values are texts, and texts are numbers in the order in which *)
(* they sort.  What a save does to files is EnvStore's; here it succeeds   *)
(* or fails.                                                               *)
(***************************************************************************)
EXTENDS Naturals, FiniteSets

CONSTANTS
    Name,          \* names a variable may have
    Upper,         \* Upper[n]: the name n in upper case
    Literal,       \* values that are no name
    Empty,         \* the empty value
    Short,         \* values with less than six characters
    Url,           \* values that are URLs
    WithPassword,  \* values that, read as a URL, hold a password or do not parse
    SecretName,    \* names that make their value a secret
    UrlName,       \* names that contain URL
    ReferenceName, \* names that end in _API_KEY_ENV
    Edge,          \* Edge[v]: what masking leaves of v
    Pattern,       \* filter patterns: each the set of texts it occurs in
    Typed,         \* values the user types, and the documents start with
    Environment    \* environments and backups to import from

None == 0
Value == Name \cup Literal
Maybe == Value \cup {None}
Text == Value \cup {Edge[v] : v \in Value}

ASSUME TextAssumption == Value \subseteq Nat \ {None} /\ Edge \in [Value -> Nat]
ASSUME FinitenessAssumption == IsFiniteSet(Name)
ASSUME NameAssumption ==
    /\ Upper \in [Name -> Name] /\ Literal \cap Name = {}
    /\ SecretName \subseteq Name /\ UrlName \subseteq Name /\ ReferenceName \subseteq Name
    /\ ReferenceName \cap SecretName = {}
ASSUME InputAssumption ==
    /\ Text \in Pattern /\ Pattern \subseteq SUBSET Text /\ Typed \subseteq Value
    /\ Environment \subseteq [Name -> Maybe]

VARIABLES
    values,   \* values[n]: the value of n, or None if n is not managed
    screen,   \* "shell" (no catalog is open), "catalog", "preview", or saving
    focus,    \* the index of the current row (selected)
    marked,   \* the names in the multi-selection (selected_names)
    view,     \* sort_mode, filter_scope, filter_pattern
    preview,  \* the import preview: its environment, filter and selection
    previous, \* what a failed save restores
    \* history
    guarded,  \* names whose value came from a sensitive variable
    before    \* the screen as it was before the change being saved

vars == <<values, screen, focus, marked, view, preview, previous, guarded, before>>
session == <<focus, marked, view, preview, previous>>

Sort == {"name_asc", "name_desc", "value_asc", "value_desc"}
View == [sort : Sort, scope : {"both", "name", "value"}, pattern : Pattern]
Plain == [sort |-> "name_asc", scope |-> "both", pattern |-> Text]
Closed == [env |-> [n \in Name |-> None], view |-> Plain, chosen |-> {}]
Nothing == [values |-> Closed.env, focus |-> 0, marked |-> {}, marksToo |-> FALSE]
Quiet == [focused |-> None, marked |-> {}, guarded |-> {}]

-----------------------------------------------------------------------------
(* Rules on names and values.                                              *)

Managed == {n \in Name : values[n] # None}
Typeable == {Upper[n] : n \in Name}  \* cli_name and prompt_name fold the case

\* is_secret_value
Sensitive(n, v) == n \in SecretName \/ (n \in UrlName /\ v \in WithPassword)

\* validate_assignment and prepare_value
Assignable(n, v) == Sensitive(n, v) => v \notin Short
Prepared(n, v) == Assignable(n, v) /\ (n \in UrlName => v \in Url)

\* prepare_copied_value, validate_rename_sensitivity
Masks(new, old) == TRUE
StaysMasked(new, old) == Sensitive(old, values[old]) => Sensitive(new, values[old])
Copyable(new, old) ==
    values[old] \notin {None, Empty} /\ StaysMasked(new, old) /\ Prepared(new, values[old])
Renamable(new, old) == StaysMasked(new, old) /\ Assignable(new, values[old])

\* prepare_entered_value: a text typed for n is a reference, names the variable
\* to copy from, or is the value itself.
Referred(raw) == IF raw \in Name THEN Upper[raw] ELSE None
Source(n, raw) == IF n \notin ReferenceName /\ Referred(raw) \in Managed THEN Referred(raw) ELSE None
Enterable(n, raw) ==
    /\ n \in ReferenceName => Referred(raw) \in Managed
    /\ Source(n, raw) # None => Copyable(n, Source(n, raw))
    /\ n \notin ReferenceName /\ Source(n, raw) = None => Prepared(n, raw)
Entered(n, raw) ==
    IF n \in ReferenceName THEN Referred(raw)
    ELSE IF Source(n, raw) # None THEN values[Source(n, raw)] ELSE raw

\* environment_import_candidates, prepare_environment_import
Valid(env) == {n \in Name : env[n] # None /\ Prepared(n, env[n])}
Selectable(env) == {n \in Valid(env) : n \in ReferenceName => env[n] \in Valid(env) \cup Managed}
OneByOne(env, chosen) == chosen # {} /\ chosen \subseteq Selectable(env)
Importable(env, chosen) ==
    /\ chosen # {} /\ chosen \subseteq Selectable(env)
    /\ \A n \in chosen \cap ReferenceName : env[n] \in chosen \cup Managed
Collisions(env, chosen) == {n \in chosen : values[n] \notin {None, env[n]}}

Put(n, v) == [values EXCEPT ![n] = v]
Imported(env, chosen) == [n \in Name |-> IF n \in chosen THEN env[n] ELSE values[n]]
Guards(n, v, src) ==
    IF Sensitive(n, v) \/ src \in guarded THEN guarded \cup {n} ELSE guarded \ {n}
GuardsImported(env, chosen) ==
    (guarded \ chosen) \cup {n \in chosen : Sensitive(n, env[n])}

-----------------------------------------------------------------------------
(* The catalog screen.  A masked value sorts and is found by its edges.    *)

SortText(n, v) == IF Sensitive(n, v) THEN Edge[v] ELSE v

Matches(vw, n, v) ==
    \/ vw.scope \in {"name", "both"} /\ n \in vw.pattern
    \/ vw.scope \in {"value", "both"} /\ SortText(n, v) \in vw.pattern
    \/ vw.pattern = Text

Shown(vals, vw) == {n \in Name : vals[n] # None /\ Matches(vw, n, vals[n])}

Precedes(vals, sort, m, n) ==
    LET a == SortText(m, vals[m])  b == SortText(n, vals[n])
    IN \/ sort = "name_asc" /\ m < n
       \/ sort = "name_desc" /\ n < m
       \/ sort = "value_asc" /\ (a < b \/ (a = b /\ m < n))
       \/ sort = "value_desc" /\ (b < a \/ (a = b /\ n < m))

Row(vals, vw, n) == Cardinality({m \in Shown(vals, vw) : Precedes(vals, vw.sort, m, n)})

RowsLessOne(i, vals, vw) ==
    LET rows == Cardinality(Shown(vals, vw)) IN IF i < rows THEN i ELSE rows - 1
Clamped(i, vals, vw) ==
    LET rows == Cardinality(Shown(vals, vw))
    IN IF i < rows THEN i ELSE IF rows = 0 THEN 0 ELSE rows - 1

\* _select_catalog_name
SameIndex(n, i, vals, vw) == Clamped(i, vals, vw)
Selected(n, i, vals, vw) == IF n \in Shown(vals, vw) THEN Row(vals, vw, n) ELSE Clamped(i, vals, vw)

Current ==
    IF Shown(values, view) = {} THEN None
    ELSE CHOOSE n \in Shown(values, view) : Row(values, view, n) = focus

\* _selected_group_names
Group == IF marked # {} THEN marked ELSE {Current} \ {None}

\* draw: catalog_names drops the marks of rows that are not shown, and the
\* focus is moved to a row there is.
NotPruned(marks, vals, vw) == marks
Pruned(marks, vals, vw) == marks \cap Shown(vals, vw)
Draw(vals, vw, marks, i) ==
    /\ screen' = "catalog" /\ values' = vals /\ view' = vw
    /\ marked' = Pruned(marks, vals, vw)
    /\ focus' = Clamped(i, vals, vw)

-----------------------------------------------------------------------------
(* A session of the catalog: moving about.                                 *)

Init ==
    /\ values \in [Name -> Typed \cup {None}]
    /\ \A n \in Managed : Assignable(n, values[n])
    /\ screen = "shell"
    /\ focus = 0 /\ marked = {} /\ view = Plain /\ preview = Closed /\ previous = Nothing
    /\ guarded = {n \in Managed : Sensitive(n, values[n])}
    /\ before = Quiet

StartTUI ==
    /\ screen = "shell"
    /\ Draw(values, Plain, {}, 0)
    /\ UNCHANGED <<preview, previous, guarded, before>>

Quit ==
    /\ screen = "catalog"
    /\ screen' = "shell"
    /\ focus' = 0 /\ marked' = {} /\ view' = Plain
    /\ UNCHANGED <<values, preview, previous, guarded, before>>

MoveFocus ==
    /\ screen = "catalog"
    /\ \E i \in {focus + 1, focus - 1} :
          /\ i \in 0..Cardinality(Name)
          /\ Draw(values, view, marked, i)
    /\ UNCHANGED <<preview, previous, guarded, before>>

ToggleMark ==
    /\ screen = "catalog" /\ Current # None
    /\ Draw(values, view, IF Current \in marked THEN marked \ {Current} ELSE marked \cup {Current}, focus)
    /\ UNCHANGED <<preview, previous, guarded, before>>

\* cycle_sort, cycle_filter_scope and set_filter keep the focus on its variable.
NextSort(s) ==
    CASE s = "name_asc" -> "name_desc" [] s = "name_desc" -> "value_asc"
      [] s = "value_asc" -> "value_desc" [] s = "value_desc" -> "name_asc"
NextScope(s) ==
    CASE s = "both" -> "name" [] s = "name" -> "value" [] s = "value" -> "both"

Arrangements(vw) ==
    {[vw EXCEPT !.sort = NextSort(@)], [vw EXCEPT !.scope = NextScope(@)]}
        \cup {[vw EXCEPT !.pattern = p] : p \in Pattern}

Arrange(vw) ==
    /\ screen = "catalog"
    /\ Draw(values, vw, marked, Selected(Current, focus, values, vw))
    /\ UNCHANGED <<preview, previous, guarded, before>>

-----------------------------------------------------------------------------
(* A session of the catalog: changes.  Each sets the values and the screen, *)
(* and then saves.                                                          *)

Change(vals, marks, i, marksToo) ==
    /\ screen' = "saving"
    /\ values' = vals /\ marked' = marks /\ focus' = i
    /\ previous' = [values |-> values, focus |-> focus, marked |-> marked, marksToo |-> marksToo]
    /\ before' = [focused |-> Current, marked |-> marked, guarded |-> guarded]
    /\ UNCHANGED <<view, preview>>

Add(n, raw) ==
    /\ screen = "catalog" /\ n \in Typeable \ Managed
    /\ Enterable(n, raw)
    /\ LET vals == Put(n, Entered(n, raw))
       IN Change(vals, Pruned(marked, vals, view), Selected(n, focus, vals, view), FALSE)
    /\ guarded' = Guards(n, Entered(n, raw), Source(n, raw))

Edit(raw) ==
    /\ screen = "catalog" /\ Current # None
    /\ Enterable(Current, raw)
    /\ Change(Put(Current, Entered(Current, raw)), marked, focus, FALSE)
    /\ guarded' = Guards(Current, Entered(Current, raw), Source(Current, raw))

Copy(src) ==
    /\ screen = "catalog" /\ src \in Typeable /\ Group # {}
    /\ \A n \in Group : Copyable(n, src)
    /\ Change([n \in Name |-> IF n \in Group THEN values[src] ELSE values[n]],
              marked, focus, TRUE)
    /\ guarded' = IF src \in guarded
                  THEN guarded \cup Group
                  ELSE (guarded \ Group) \cup {n \in Group : Sensitive(n, values[src])}

Moved(old, new) == [values EXCEPT ![old] = None, ![new] = values[old]]
GuardsMoved(old, new) ==
    (guarded \ {old, new}) \cup (IF old \in guarded \/ Sensitive(new, values[old]) THEN {new} ELSE {})

Rename(new) ==
    /\ screen = "catalog" /\ Current # None /\ new \in Typeable \ Managed /\ Renamable(new, Current)
    /\ LET vals == Moved(Current, new)
           marks == IF Current \in marked THEN (marked \ {Current}) \cup {new} ELSE marked
       IN Change(vals, Pruned(marks, vals, view), Selected(new, focus, vals, view), TRUE)
    /\ guarded' = GuardsMoved(Current, new)

Delete ==
    /\ screen = "catalog" /\ Group # {}
    /\ LET vals == [n \in Name |-> IF n \in Group THEN None ELSE values[n]]
       IN Change(vals, Pruned(marked, vals, view), Clamped(focus, vals, view), TRUE)
    /\ guarded' = guarded \ Group

\* persist_change
SaveOk ==
    /\ screen = "saving"
    /\ Draw(values, view, marked, focus)
    /\ previous' = Nothing /\ before' = Quiet
    /\ UNCHANGED <<preview, guarded>>

KeptMarks == marked
RestoredMarks == IF previous.marksToo THEN previous.marked ELSE marked

SaveFailed ==
    /\ screen = "saving"
    /\ Draw(previous.values, view, RestoredMarks, previous.focus)
    /\ previous' = Nothing /\ before' = Quiet
    /\ guarded' = before.guarded
    /\ UNCHANGED preview

-----------------------------------------------------------------------------
(* The import preview.  What is managed is not shown; rows that cannot be   *)
(* imported are, and cannot be selected.  Its cursor can go to any row, so  *)
(* its sort order makes no difference.                                      *)

AllOffered(vw) == {n \in Selectable(preview.env) : Matches(vw, n, preview.env[n])}
Offered(vw) == {n \in AllOffered(vw) : values[n] = None}

OpenPreview(env) ==
    /\ screen = "catalog" /\ screen' = "preview"
    /\ preview' = [Closed EXCEPT !.env = env]
    /\ UNCHANGED <<values, focus, marked, view, previous, guarded, before>>

\* Space toggles a row, A all rows shown.
ToggleSource ==
    /\ screen = "preview"
    /\ LET shown == Offered(preview.view)
       IN preview' \in {[preview EXCEPT !.chosen = IF n \in @ THEN @ \ {n} ELSE @ \cup {n}] : n \in shown}
              \cup {[preview EXCEPT !.chosen = IF shown \subseteq @ THEN @ \ shown ELSE @ \cup shown]}
    /\ UNCHANGED <<values, screen, focus, marked, view, previous, guarded, before>>

ArrangePreview(vw) ==
    /\ screen = "preview"
    /\ vw.sort = Plain.sort
    /\ preview' = [preview EXCEPT !.view = vw, !.chosen = @ \cap Offered(vw)]
    /\ UNCHANGED <<values, screen, focus, marked, view, previous, guarded, before>>

LeavePreview ==
    /\ screen = "preview"
    /\ Draw(values, view, marked, focus)
    /\ preview' = Closed
    /\ UNCHANGED <<previous, guarded, before>>

Import ==
    /\ screen = "preview" /\ screen' = "importing"
    /\ Importable(preview.env, preview.chosen)
    /\ values' = Imported(preview.env, preview.chosen)
    /\ guarded' = GuardsImported(preview.env, preview.chosen)
    /\ previous' = [Nothing EXCEPT !.values = values]
    /\ before' = [Quiet EXCEPT !.guarded = guarded]
    /\ UNCHANGED <<focus, marked, view, preview>>

ImportOk ==
    /\ screen = "importing"
    /\ LET first == CHOOSE n \in preview.chosen : \A m \in preview.chosen : n <= m
       IN Draw(values, view, marked, Selected(first, focus, values, view))
    /\ preview' = Closed /\ previous' = Nothing /\ before' = Quiet
    /\ UNCHANGED guarded

ImportFailed ==
    /\ screen = "importing" /\ screen' = "preview"
    /\ values' = previous.values /\ guarded' = before.guarded
    /\ previous' = Nothing /\ before' = Quiet
    /\ UNCHANGED <<focus, marked, view, preview>>

-----------------------------------------------------------------------------
(* Commands, between the sessions.  One that is not saved changes nothing. *)

Command(vals) ==
    /\ screen = "shell"
    /\ values' = vals
    /\ UNCHANGED <<screen, session, before>>

SetFrom(n, src) ==
    /\ n \in Typeable /\ src \in Typeable /\ Copyable(n, src)
    /\ Command(Put(n, values[src]))
    /\ guarded' = Guards(n, values[src], src)

\* Standard input is taken as it is, also for a reference.
SetStdin(n, raw) ==
    /\ n \in Typeable /\ Prepared(n, raw)
    /\ Command(Put(n, raw))
    /\ guarded' = Guards(n, raw, None)

\* A sensitive value has to come from standard input or another variable.
SetValue(n, raw) ==
    /\ n \in Typeable /\ Enterable(n, raw)
    /\ n \notin ReferenceName /\ Source(n, raw) = None => ~Sensitive(n, raw)
    /\ Command(Put(n, Entered(n, raw)))
    /\ guarded' = Guards(n, Entered(n, raw), Source(n, raw))

Unset(n) ==
    /\ n \in Typeable \cap Managed
    /\ Command(Put(n, None))
    /\ guarded' = guarded \ {n}

RenameCommand(old, new) ==
    /\ old \in Typeable \cap Managed /\ new \in (Typeable \ Managed) \cup {old}
    /\ Renamable(new, old)
    /\ Command(Moved(old, new))
    /\ guarded' = GuardsMoved(old, new)

ImportCommand(env, chosen, replace) ==
    /\ Importable(env, chosen)
    /\ replace \/ Collisions(env, chosen) = {}
    /\ Command(Imported(env, chosen))
    /\ guarded' = GuardsImported(env, chosen)

Next ==
    \/ StartTUI \/ Quit \/ MoveFocus \/ ToggleMark
    \/ \E vw \in Arrangements(view) : Arrange(vw)
    \/ \E n \in Name, raw \in Typed : Add(n, raw)
    \/ \E raw \in Typed : Edit(raw)
    \/ \E n \in Name : Copy(n) \/ Rename(n)
    \/ Delete
    \/ SaveOk \/ SaveFailed
    \/ \E env \in Environment : OpenPreview(env)
    \/ ToggleSource
    \/ \E vw \in Arrangements(preview.view) : ArrangePreview(vw)
    \/ LeavePreview \/ Import \/ ImportOk \/ ImportFailed
    \/ \E n, src \in Name : SetFrom(n, src)
    \/ \E n \in Name, raw \in Typed : SetStdin(n, raw) \/ SetValue(n, raw)
    \/ \E n \in Name : Unset(n)
    \/ \E old, new \in Name : RenameCommand(old, new)
    \/ \E env \in Environment, chosen \in SUBSET Name, replace \in BOOLEAN :
          ImportCommand(env, chosen, replace)

Spec == Init /\ [][Next]_vars

-----------------------------------------------------------------------------
(* Properties.                                                             *)

TypeOK ==
    /\ values \in [Name -> Maybe]
    /\ screen \in {"shell", "catalog", "saving", "preview", "importing"}
    /\ focus \in Nat /\ marked \subseteq Name /\ view \in View
    /\ preview \in [env : Environment \cup {Closed.env}, view : View, chosen : SUBSET Name]
    /\ previous \in [values : [Name -> Maybe], focus : Nat, marked : SUBSET Name, marksToo : BOOLEAN]
    /\ guarded \subseteq Managed
    /\ before.focused \in Name \cup {None}
    /\ before.marked \subseteq Name /\ before.guarded \subseteq Name

\* Whatever way a value takes from a sensitive variable, by copies, renames and
\* references, it is only ever kept where it is masked.
NeverExposed == \A n \in guarded : Sensitive(n, values[n])

\* A group operation never meets a variable the filter hides, also after an
\* edit, an import or a failed save changed what it hides; and there is a
\* current row whenever a row is shown.
SelectionShown ==
    screen = "catalog" =>
        /\ marked \subseteq Shown(values, view)
        /\ Shown(values, view) # {} => focus < Cardinality(Shown(values, view))

\* A change that was not saved leaves the catalog as the user had it: the same
\* variables are marked and the focus is on the same one, whatever rows the
\* change had added, removed or hidden.
FailedSaveKeepsView ==
    [][SaveFailed => marked' = before.marked /\ Current' = before.focused]_vars

\* The next keystroke, Delete included, acts on the variable the user works on:
\* once an added or renamed one is saved the focus is on it, and another order
\* or filter leaves the focus where it was, unless the filter hides the row.
\* (Edits, copies and deletions keep the index of the row instead.)
FocusFollows ==
    [][/\ SaveOk =>
             \A n \in Shown(values, view) : previous.values[n] = None => Current' = n
       /\ {screen, screen'} = {"catalog"} /\ view' # view
          /\ Current \in Shown(values, view') => Current' = Current]_vars

\* The operations that test a reference: entry and set --value, and the imports.
Enters ==
    \/ \E n \in Name, raw \in Typed : Add(n, raw) \/ SetValue(n, raw)
    \/ \E raw \in Typed : Edit(raw)
Imports ==
    \/ Import
    \/ \E env \in Environment, chosen \in SUBSET Name, replace \in BOOLEAN :
          ImportCommand(env, chosen, replace)

\* A reference that is entered or set with --value names a variable that was
\* managed before, and one that is imported a variable that is managed from then
\* on: itself only if it was there already, or comes with the import.
\* (Standard input, copies and renames are not checked by the code.)
ReferencesChecked ==
    [][\A n \in ReferenceName : values'[n] \notin {None, values[n]} =>
          /\ Enters => values'[n] \in Managed
          /\ Imports => values'[n] \in Managed']_vars

\* An import from the catalog, which replaces without asking, replaces nothing.
ImportAddsOnly ==
    [][screen' = "importing" => \A n \in Managed : values'[n] = values[n]]_vars

=============================================================================
