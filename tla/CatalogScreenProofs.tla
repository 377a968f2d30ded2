------------------------- MODULE CatalogScreenProofs -------------------------
(***************************************************************************)
(* More theorems about Catalog: the rows of the screen, which variable the *)
(* next keystroke acts on, and what a failed save gives back.              *)
(***************************************************************************)
EXTENDS CatalogProofs, FiniteSetTheorems

-----------------------------------------------------------------------------
(* The rows: whatever the sort order and the filter, the variables shown   *)
(* stand in rows 0, 1, ..., one in each.                                   *)

Values == [Name -> Maybe]

LEMMA SortTextNat ==
    ASSUME NEW vals \in Values, NEW n \in Name, vals[n] # None
    PROVE  SortText(n, vals[n]) \in Nat /\ n \in Nat
  BY TextAssumption DEF Values, Maybe, SortText, Value

LEMMA ShownType ==
    ASSUME NEW vals, NEW vw
    PROVE  /\ Shown(vals, vw) \subseteq Name /\ None \notin Shown(vals, vw)
           /\ \A n \in Shown(vals, vw) : vals[n] # None
           /\ IsFiniteSet(Shown(vals, vw)) /\ Cardinality(Shown(vals, vw)) \in Nat
           /\ Cardinality(Shown(vals, vw)) = 0 <=> Shown(vals, vw) = {}
<1>1. Shown(vals, vw) \subseteq Name /\ \A n \in Shown(vals, vw) : vals[n] # None
  BY DEF Shown
<1>2. IsFiniteSet(Shown(vals, vw))
  BY <1>1, FinitenessAssumption, FS_Subset
<1> QED BY <1>1, <1>2, FS_CardinalityType, FS_EmptySet, NoneIsNoName

\* Every sort order is a strict total order: a value that several variables
\* have, or several masked values with the same edges, leave no tie.
LEMMA PrecedesIrreflexive ==
    ASSUME NEW vals \in Values, NEW sort, NEW n \in Name, vals[n] # None
    PROVE  ~Precedes(vals, sort, n, n)
  BY SortTextNat DEF Precedes

LEMMA PrecedesTransitive ==
    ASSUME NEW vals \in Values, NEW sort,
           NEW k \in Name, NEW m \in Name, NEW n \in Name,
           vals[k] # None, vals[m] # None, vals[n] # None,
           Precedes(vals, sort, k, m), Precedes(vals, sort, m, n)
    PROVE  Precedes(vals, sort, k, n)
<1> DEFINE a == SortText(k, vals[k])
           b == SortText(m, vals[m])
           c == SortText(n, vals[n])
<1>1. a \in Nat /\ b \in Nat /\ c \in Nat /\ k \in Nat /\ m \in Nat /\ n \in Nat
  BY SortTextNat
<1> HIDE DEF a, b, c
<1>2. \/ sort = "name_asc" /\ k < m
      \/ sort = "name_desc" /\ m < k
      \/ sort = "value_asc" /\ (a < b \/ (a = b /\ k < m))
      \/ sort = "value_desc" /\ (b < a \/ (a = b /\ m < k))
  BY DEF Precedes, a, b
<1>3. \/ sort = "name_asc" /\ m < n
      \/ sort = "name_desc" /\ n < m
      \/ sort = "value_asc" /\ (b < c \/ (b = c /\ m < n))
      \/ sort = "value_desc" /\ (c < b \/ (b = c /\ n < m))
  BY DEF Precedes, b, c
<1>4. \/ sort = "name_asc" /\ k < n
      \/ sort = "name_desc" /\ n < k
      \/ sort = "value_asc" /\ (a < c \/ (a = c /\ k < n))
      \/ sort = "value_desc" /\ (c < a \/ (a = c /\ n < k))
  BY <1>1, <1>2, <1>3
<1> QED BY <1>4 DEF Precedes, a, c

LEMMA PrecedesTotal ==
    ASSUME NEW vals \in Values, NEW sort \in Sort, NEW m \in Name, NEW n \in Name,
           vals[m] # None, vals[n] # None, m # n
    PROVE  Precedes(vals, sort, m, n) \/ Precedes(vals, sort, n, m)
<1> DEFINE a == SortText(m, vals[m])
           b == SortText(n, vals[n])
<1>1. a \in Nat /\ b \in Nat /\ m \in Nat /\ n \in Nat
  BY SortTextNat
<1> HIDE DEF a, b
<1>2. sort \in {"name_asc", "name_desc", "value_asc", "value_desc"}
  BY DEF Sort
<1>3. \/ sort = "name_asc" /\ (m < n \/ n < m)
      \/ sort = "name_desc" /\ (m < n \/ n < m)
      \/ sort = "value_asc" /\ (a < b \/ b < a \/ (a = b /\ (m < n \/ n < m)))
      \/ sort = "value_desc" /\ (a < b \/ b < a \/ (a = b /\ (m < n \/ n < m)))
  BY <1>1, <1>2
<1> QED BY <1>3 DEF Precedes, a, b

Above(vals, vw, n) == {m \in Shown(vals, vw) : Precedes(vals, vw.sort, m, n)}

LEMMA RowOrder ==
    ASSUME NEW vals \in Values, NEW vw, NEW m \in Shown(vals, vw), NEW n \in Shown(vals, vw),
           Precedes(vals, vw.sort, m, n)
    PROVE  Row(vals, vw, m) < Row(vals, vw, n)
<1>1. /\ IsFiniteSet(Shown(vals, vw)) /\ Shown(vals, vw) \subseteq Name
      /\ \A k \in Shown(vals, vw) : vals[k] # None
  BY ShownType
<1>2. IsFiniteSet(Above(vals, vw, n)) /\ IsFiniteSet(Above(vals, vw, m))
  BY <1>1, FS_Subset DEF Above
<1>3. Above(vals, vw, m) \subseteq Above(vals, vw, n)
  BY <1>1, PrecedesTransitive DEF Above
<1>4. m \in Above(vals, vw, n) /\ m \notin Above(vals, vw, m)
  BY <1>1, PrecedesIrreflexive DEF Above
<1>5. /\ Cardinality(Above(vals, vw, m)) \in Nat /\ Cardinality(Above(vals, vw, n)) \in Nat
      /\ Cardinality(Above(vals, vw, m)) <= Cardinality(Above(vals, vw, n))
      /\ Cardinality(Above(vals, vw, m)) # Cardinality(Above(vals, vw, n))
  BY <1>2, <1>3, <1>4, FS_Subset, FS_CardinalityType
<1> QED BY <1>5 DEF Row, Above

LEMMA RowInRange ==
    ASSUME NEW vals \in Values, NEW vw, NEW n \in Shown(vals, vw)
    PROVE  Row(vals, vw, n) \in 0 .. Cardinality(Shown(vals, vw)) - 1
<1>1. /\ IsFiniteSet(Shown(vals, vw)) /\ Shown(vals, vw) \subseteq Name
      /\ \A k \in Shown(vals, vw) : vals[k] # None
      /\ Cardinality(Shown(vals, vw)) \in Nat
  BY ShownType
<1>2. n \notin Above(vals, vw, n) /\ Above(vals, vw, n) \subseteq Shown(vals, vw)
  BY <1>1, PrecedesIrreflexive DEF Above
<1>3. /\ IsFiniteSet(Above(vals, vw, n))
      /\ Cardinality(Above(vals, vw, n)) <= Cardinality(Shown(vals, vw))
      /\ Cardinality(Above(vals, vw, n)) # Cardinality(Shown(vals, vw))
  BY <1>1, <1>2, FS_Subset
<1>4. Cardinality(Above(vals, vw, n)) \in Nat
  BY <1>3, FS_CardinalityType
<1> QED BY <1>1, <1>3, <1>4 DEF Row, Above

LEMMA RowUnique ==
    ASSUME NEW vals \in Values, NEW vw \in View, NEW m \in Shown(vals, vw), NEW n \in Shown(vals, vw),
           Row(vals, vw, m) = Row(vals, vw, n)
    PROVE  m = n
<1>1. /\ Shown(vals, vw) \subseteq Name /\ \A k \in Shown(vals, vw) : vals[k] # None
      /\ Cardinality(Shown(vals, vw)) \in Nat
  BY ShownType
<1>2. Row(vals, vw, m) \in Int
  BY <1>1, RowInRange
<1>3. ~(Row(vals, vw, m) < Row(vals, vw, n)) /\ ~(Row(vals, vw, n) < Row(vals, vw, m))
  BY <1>2
<1>4. vw.sort \in Sort
  BY DEF View
<1> QED BY <1>1, <1>3, <1>4, RowOrder, PrecedesTotal

LEMMA RowTaken ==
    ASSUME NEW vals \in Values, NEW vw \in View,
           NEW i \in 0 .. Cardinality(Shown(vals, vw)) - 1
    PROVE  \E n \in Shown(vals, vw) : Row(vals, vw, n) = i
<1> DEFINE S == Shown(vals, vw)
           T == 0 .. Cardinality(S) - 1
           f == [n \in S |-> Row(vals, vw, n)]
<1>1. IsFiniteSet(S) /\ Cardinality(S) \in Nat
  BY ShownType
<1>2. IsFiniteSet(T) /\ Cardinality(T) = Cardinality(S)
  BY <1>1, FS_Interval
<1>3. \A n \in S : Row(vals, vw, n) \in T
  BY RowInRange
<1>4. \A m, n \in S : Row(vals, vw, m) = Row(vals, vw, n) => m = n
  BY RowUnique
<1> HIDE DEF S, T
<1>5. f \in [S -> T] /\ \A m, n \in S : f[m] = f[n] => m = n
  BY <1>3, <1>4
<1>6. f \in Injection(S, T)
  BY <1>5 DEF Injection, IsInjective
<1>7. f \in Surjection(S, T)
  BY <1>2, <1>6, FS_Injection
<1>8. \E n \in S : f[n] = i
  BY <1>7 DEF Surjection, T, S
<1> QED BY <1>8 DEF S

\* The current row of a screen.
RowAt(vals, vw, i) ==
    IF Shown(vals, vw) = {} THEN None
    ELSE CHOOSE n \in Shown(vals, vw) : Row(vals, vw, n) = i

LEMMA CurrentRow == Current = RowAt(values, view, focus)
  BY DEF Current, RowAt

\* A focus within the rows is on a variable that is shown, and on that one.
LEMMA RowAtShown ==
    ASSUME NEW vals \in Values, NEW vw \in View, NEW i \in Nat,
           Shown(vals, vw) # {} => i < Cardinality(Shown(vals, vw))
    PROVE  RowAt(vals, vw, i) \in Shown(vals, vw) \cup {None}
<1>1. CASE Shown(vals, vw) # {}
  <2>1. Cardinality(Shown(vals, vw)) \in Nat
    BY ShownType
  <2>2. \E n \in Shown(vals, vw) : Row(vals, vw, n) = i
    BY <1>1, <2>1, RowTaken
  <2> QED BY <1>1, <2>2 DEF RowAt
<1> QED BY <1>1 DEF RowAt

LEMMA RowAtRow ==
    ASSUME NEW vals \in Values, NEW vw \in View, NEW n \in Shown(vals, vw)
    PROVE  RowAt(vals, vw, Row(vals, vw, n)) = n
<1>1. \A m \in Shown(vals, vw) : Row(vals, vw, m) = Row(vals, vw, n) => m = n
  BY RowUnique
<1> QED BY <1>1 DEF RowAt

LEMMA ClampedType ==
    ASSUME NEW vals, NEW vw, NEW i \in Nat
    PROVE  /\ Clamped(i, vals, vw) \in Nat
           /\ Shown(vals, vw) # {} => Clamped(i, vals, vw) < Cardinality(Shown(vals, vw))
           /\ i < Cardinality(Shown(vals, vw)) => Clamped(i, vals, vw) = i
  BY ShownType DEF Clamped

LEMMA SelectedType ==
    ASSUME NEW vals \in Values, NEW vw, NEW n, NEW i \in Nat
    PROVE  /\ Selected(n, i, vals, vw) \in Nat
           /\ n \in Shown(vals, vw) =>
                 /\ Selected(n, i, vals, vw) = Row(vals, vw, n)
                 /\ Selected(n, i, vals, vw) < Cardinality(Shown(vals, vw))
<1>1. CASE n \in Shown(vals, vw)
  <2>1. Cardinality(Shown(vals, vw)) \in Nat
    BY ShownType
  <2>2. Row(vals, vw, n) \in 0 .. Cardinality(Shown(vals, vw)) - 1
    BY <1>1, RowInRange
  <2> QED BY <1>1, <2>1, <2>2 DEF Selected
<1> QED BY <1>1, ClampedType DEF Selected

-----------------------------------------------------------------------------
(* Types.  The current row is a CHOOSE over the rows, so that it is a name *)
(* only where the focus is on a row: SelectionShown is part of it.  What a *)
(* failed save goes back to guards only variables that have a value there. *)

Valued(vals) == {n \in Name : vals[n] # None}

Local == [values : Values, focus : Nat, marked : SUBSET Name, marksToo : BOOLEAN]
Preview == [env : Environment \cup {Closed.env}, view : View, chosen : SUBSET Name]

TypeInv ==
    /\ TypeOK
    /\ SelectionShown
    /\ screen \in {"saving", "importing"} => before.guarded \subseteq Valued(previous.values)

BeforeType ==
    /\ before.focused \in Name \cup {None}
    /\ before.marked \subseteq Name /\ before.guarded \subseteq Name

LEMMA ConstantTypes ==
    /\ Plain \in View /\ Closed \in Preview /\ Nothing \in Local
    /\ Closed.env \in Values /\ Environment \subseteq Values
    /\ Quiet.focused = None /\ Quiet.marked = {} /\ Quiet.guarded = {}
    /\ Typed \subseteq Value /\ None \notin Value /\ Name \subseteq Value
<1>1. Plain \in View
  BY InputAssumption DEF Plain, View, Sort
<1>2. Closed.env \in Values
  BY DEF Closed, Values, Maybe
<1>3. Closed \in Preview
  BY <1>1 DEF Closed, Preview
<1>4. Nothing \in Local
  BY <1>2 DEF Nothing, Local
<1> QED BY <1>1, <1>2, <1>3, <1>4, InputAssumption, TextAssumption DEF Values, Quiet, Value, None

LEMMA ArrangementsType ==
    ASSUME NEW vw \in View
    PROVE  Arrangements(vw) \subseteq View
  BY DEF Arrangements, View, Sort, NextSort, NextScope

\* The current row is a variable that is shown.
LEMMA CurrentType ==
    ASSUME TypeInv, screen = "catalog"
    PROVE  /\ Current \in Shown(values, view) \cup {None}
           /\ Current = RowAt(values, view, focus)
           /\ Current \in Managed \cup {None}
           /\ Group \subseteq Shown(values, view) /\ Group \subseteq Managed
<1>1. /\ values \in Values /\ view \in View /\ focus \in Nat
      /\ marked \subseteq Shown(values, view)
      /\ Shown(values, view) # {} => focus < Cardinality(Shown(values, view))
  BY DEF TypeInv, TypeOK, SelectionShown, Values
<1>2. RowAt(values, view, focus) \in Shown(values, view) \cup {None}
  BY <1>1, RowAtShown
<1>3. Shown(values, view) \subseteq Managed
  BY ShownType DEF Managed
<1> QED BY <1>1, <1>2, <1>3, CurrentRow DEF Group

LEMMA DrawType ==
    ASSUME NEW vals \in Values, NEW vw \in View, NEW marks, NEW i \in Nat,
           Draw(vals, vw, marks, i),
           preview' \in Preview, previous' \in Local, BeforeType', guarded' \subseteq Valued(vals)
    PROVE  TypeInv'
<1>1. /\ screen' = "catalog" /\ values' = vals /\ view' = vw
      /\ marked' = marks \cap Shown(vals, vw) /\ focus' = Clamped(i, vals, vw)
  BY DEF Draw, Pruned
<1>2. /\ focus' \in Nat /\ marked' \subseteq Name
      /\ Shown(vals, vw) # {} => focus' < Cardinality(Shown(vals, vw))
  BY <1>1, ClampedType, ShownType
<1>3. SelectionShown'
  BY <1>1, <1>2 DEF SelectionShown, Shown, Matches
<1>4. TypeOK'
  BY <1>1, <1>2 DEF TypeOK, Values, Valued, Managed, Preview, Local, BeforeType
<1> QED BY <1>1, <1>3, <1>4 DEF TypeInv

LEMMA ChangeType ==
    ASSUME TypeInv, screen = "catalog",
           NEW vals \in Values, NEW marks \in SUBSET Name, NEW i \in Nat, NEW marksToo \in BOOLEAN,
           Change(vals, marks, i, marksToo), guarded' \subseteq Valued(vals)
    PROVE  TypeInv'
<1>1. Current \in Name \cup {None}
  BY CurrentType DEF Managed
<1>2. guarded \subseteq Valued(values) /\ guarded \subseteq Name
  BY DEF TypeInv, TypeOK, Valued, Managed
<1>3. TypeOK'
  BY <1>1, <1>2 DEF Change, TypeInv, TypeOK, Values, Valued, Managed
<1> QED BY <1>2, <1>3 DEF Change, TypeInv, SelectionShown

LEMMA CommandType ==
    ASSUME TypeInv, NEW vals \in Values, Command(vals), guarded' \subseteq Valued(vals)
    PROVE  TypeInv'
  BY DEF Command, session, TypeInv, TypeOK, SelectionShown, Values, Valued, Managed

\* What the operations make of the values.
LEMMA PutType ==
    ASSUME TypeInv, NEW n \in Name, NEW v \in Value, NEW src
    PROVE  /\ Put(n, v) \in Values /\ Put(n, v)[n] = v
           /\ \A m \in Name \ {n} : Put(n, v)[m] = values[m]
           /\ Guards(n, v, src) \subseteq Valued(Put(n, v))
<1>1. v # None /\ v \in Maybe
  BY ConstantTypes DEF Maybe
<1>2. guarded \subseteq Managed /\ values \in Values
  BY DEF TypeInv, TypeOK, Values
<1>3. /\ Put(n, v) \in Values /\ Put(n, v)[n] = v
      /\ \A m \in Name \ {n} : Put(n, v)[m] = values[m]
  BY <1>1, <1>2 DEF Put, Values
<1>4. Guards(n, v, src) \subseteq guarded \cup {n}
  BY DEF Guards
<1> QED BY <1>1, <1>2, <1>3, <1>4 DEF Valued, Managed

LEMMA EnteredType ==
    ASSUME TypeInv, NEW n \in Name, NEW raw \in Typed, Enterable(n, raw)
    PROVE  /\ Entered(n, raw) \in Value
           /\ n \in ReferenceName => Entered(n, raw) \in Managed
<1>1. \A m \in Managed : m \in Value /\ values[m] \in Value
  BY ConstantTypes DEF TypeInv, TypeOK, Managed, Maybe
<1>2. Source(n, raw) \in Managed \cup {None}
  BY DEF Source
<1> QED BY <1>1, <1>2, ConstantTypes DEF Entered, Enterable

LEMMA MovedType ==
    ASSUME TypeInv, NEW old \in Managed, NEW new \in Name
    PROVE  /\ Moved(old, new) \in Values
           /\ \A m \in Name \ {old, new} : Moved(old, new)[m] = values[m]
           /\ Moved(old, new)[new] # None
           /\ GuardsMoved(old, new) \subseteq Valued(Moved(old, new))
<1>1. values \in Values /\ old \in Name /\ values[old] # None /\ guarded \subseteq Managed
  BY DEF TypeInv, TypeOK, Values, Managed
<1>2. /\ Moved(old, new) \in Values
      /\ \A m \in Name \ {old, new} : Moved(old, new)[m] = values[m]
      /\ Moved(old, new)[new] = values[old]
  BY <1>1 DEF Moved, Values, Maybe
<1>3. GuardsMoved(old, new) \subseteq (guarded \ {old, new}) \cup {new}
  BY DEF GuardsMoved
<1> QED BY <1>1, <1>2, <1>3 DEF Valued, Managed

LEMMA ImportedType ==
    ASSUME TypeInv, NEW env \in Values, NEW chosen, Importable(env, chosen)
    PROVE  /\ Imported(env, chosen) \in Values /\ chosen \subseteq Name
           /\ \A n \in chosen : Imported(env, chosen)[n] = env[n] /\ env[n] # None
           /\ \A n \in Name \ chosen : Imported(env, chosen)[n] = values[n]
           /\ GuardsImported(env, chosen) \subseteq Valued(Imported(env, chosen))
<1>1. chosen \subseteq Name /\ \A n \in chosen : env[n] # None
  BY DEF Importable, Selectable, Valid
<1>2. values \in Values /\ guarded \subseteq Managed
  BY DEF TypeInv, TypeOK, Values
<1>3. /\ Imported(env, chosen) \in Values
      /\ \A n \in chosen : Imported(env, chosen)[n] = env[n]
      /\ \A n \in Name \ chosen : Imported(env, chosen)[n] = values[n]
  BY <1>1, <1>2 DEF Imported, Values
<1> QED BY <1>1, <1>2, <1>3 DEF GuardsImported, Valued, Managed

LEMMA InitScreen == Init => TypeInv
<1> SUFFICES ASSUME Init PROVE TypeInv
  OBVIOUS
<1>1. values \in Values
  BY ConstantTypes DEF Init, Values, Maybe
<1>2. view \in View /\ preview \in Preview /\ previous \in Local /\ BeforeType
  BY ConstantTypes DEF Init, BeforeType
<1>3. guarded \subseteq Managed
  BY DEF Init
<1> QED BY <1>1, <1>2, <1>3 DEF Init, TypeInv, TypeOK, SelectionShown, Values, Preview, Local, BeforeType

LEMMA TypeStep == TypeInv /\ [Next]_vars => TypeInv'
<1> SUFFICES ASSUME TypeInv, [Next]_vars PROVE TypeInv'
  OBVIOUS
<1>t. /\ values \in Values /\ view \in View /\ focus \in Nat /\ marked \subseteq Name
      /\ preview \in Preview /\ previous \in Local /\ BeforeType
      /\ guarded \subseteq Valued(values)
  BY DEF TypeInv, TypeOK, Values, Preview, Local, BeforeType, Valued, Managed
<1>u. Typeable \subseteq Name
  BY TypeableNames
<1>1. CASE StartTUI
  BY <1>1, <1>t, ConstantTypes, DrawType DEF StartTUI, BeforeType
<1>2. CASE Quit
  BY <1>2, ConstantTypes DEF Quit, TypeInv, TypeOK, SelectionShown, Managed
<1>3. CASE MoveFocus
  <2>1. PICK i \in 0..Cardinality(Name) : Draw(values, view, marked, i)
    BY <1>3 DEF MoveFocus
  <2>2. i \in Nat
    BY FS_CardinalityType, FinitenessAssumption
  <2> QED BY <1>3, <1>t, <2>1, <2>2, DrawType DEF MoveFocus, BeforeType
<1>4. CASE ToggleMark
  <2>1. PICK marks : Draw(values, view, marks, focus)
    BY <1>4 DEF ToggleMark
  <2> QED BY <1>4, <1>t, <2>1, DrawType DEF ToggleMark, BeforeType
<1>5. ASSUME NEW vw \in Arrangements(view), Arrange(vw) PROVE TypeInv'
  <2>1. vw \in View
    BY <1>t, ArrangementsType
  <2>2. Selected(Current, focus, values, vw) \in Nat
    BY <1>t, <2>1, SelectedType
  <2> QED BY <1>5, <1>t, <2>1, <2>2, DrawType DEF Arrange, BeforeType
<1>6. ASSUME NEW n \in Name, NEW raw \in Typed, Add(n, raw) PROVE TypeInv'
  <2> DEFINE vals == Put(n, Entered(n, raw))
  <2>1. Entered(n, raw) \in Value
    BY <1>6, EnteredType DEF Add
  <2>2. vals \in Values /\ guarded' \subseteq Valued(vals)
    BY <1>6, <2>1, PutType DEF Add
  <2>3. Selected(n, focus, vals, view) \in Nat
    BY <1>t, <2>2, SelectedType
  <2>4. Pruned(marked, vals, view) \subseteq Name
    BY <1>t DEF Pruned
  <2>5. screen = "catalog" /\ Change(vals, Pruned(marked, vals, view), Selected(n, focus, vals, view), FALSE)
    BY <1>6 DEF Add
  <2> HIDE DEF vals
  <2> QED BY <2>2, <2>3, <2>4, <2>5, ChangeType
<1>7. ASSUME NEW raw \in Typed, Edit(raw) PROVE TypeInv'
  <2> DEFINE vals == Put(Current, Entered(Current, raw))
  <2>0. screen = "catalog" /\ Current \in Name
    BY <1>7, CurrentType DEF Edit, Managed
  <2>1. Entered(Current, raw) \in Value
    BY <1>7, <2>0, EnteredType DEF Edit
  <2>2. vals \in Values /\ guarded' \subseteq Valued(vals)
    BY <1>7, <2>0, <2>1, PutType DEF Edit
  <2>3. Change(vals, marked, focus, FALSE)
    BY <1>7 DEF Edit
  <2> HIDE DEF vals
  <2> QED BY <1>t, <2>0, <2>2, <2>3, ChangeType
<1>8. ASSUME NEW src \in Name, Copy(src) PROVE TypeInv'
  <2> DEFINE vals == [n \in Name |-> IF n \in Group THEN values[src] ELSE values[n]]
  <2>0. screen = "catalog" /\ Group \subseteq Managed /\ Group # {}
    BY <1>8, CurrentType DEF Copy
  <2>1. values[src] \in Value
    BY <1>8, <1>t, <2>0 DEF Copy, Copyable, Values, Maybe
  <2>2. vals \in Values
    BY <1>t, <2>1 DEF Values, Maybe
  <2>3. guarded' \subseteq guarded \cup Group
    BY <1>8 DEF Copy
  <2>4. guarded' \subseteq Valued(vals)
    BY <1>t, <2>0, <2>1, <2>3, ConstantTypes DEF Valued, Managed
  <2>5. Change(vals, marked, focus, TRUE)
    BY <1>8 DEF Copy
  <2> HIDE DEF vals
  <2> QED BY <1>t, <2>0, <2>2, <2>4, <2>5, ChangeType
<1>9. ASSUME NEW new \in Name, Rename(new) PROVE TypeInv'
  <2> DEFINE vals == Moved(Current, new)
             marks == IF Current \in marked THEN (marked \ {Current}) \cup {new} ELSE marked
  <2>0. screen = "catalog" /\ Current \in Managed
    BY <1>9, CurrentType DEF Rename
  <2>1. vals \in Values /\ guarded' \subseteq Valued(vals)
    BY <1>9, <2>0, MovedType DEF Rename
  <2>2. Selected(new, focus, vals, view) \in Nat
    BY <1>t, <2>1, SelectedType
  <2>3. Pruned(marks, vals, view) \subseteq Name
    BY ShownType DEF Pruned
  <2>4. Change(vals, Pruned(marks, vals, view), Selected(new, focus, vals, view), TRUE)
    BY <1>9 DEF Rename
  <2> HIDE DEF vals, marks
  <2> QED BY <2>0, <2>1, <2>2, <2>3, <2>4, ChangeType
<1>10. CASE Delete
  <2> DEFINE vals == [n \in Name |-> IF n \in Group THEN None ELSE values[n]]
  <2>1. vals \in Values
    BY <1>t DEF Values, Maybe
  <2>2. guarded' \subseteq Valued(vals)
    BY <1>10, <1>t DEF Delete, Valued
  <2>3. Clamped(focus, vals, view) \in Nat /\ Pruned(marked, vals, view) \subseteq Name
    BY <1>t, ClampedType DEF Pruned
  <2>4. screen = "catalog" /\ Change(vals, Pruned(marked, vals, view), Clamped(focus, vals, view), TRUE)
    BY <1>10 DEF Delete
  <2> HIDE DEF vals
  <2> QED BY <2>1, <2>2, <2>3, <2>4, ChangeType
<1>11. CASE SaveOk
  BY <1>11, <1>t, ConstantTypes, DrawType DEF SaveOk, BeforeType
<1>12. CASE SaveFailed
  <2>1. /\ previous.values \in Values /\ previous.focus \in Nat
        /\ before.guarded \subseteq Valued(previous.values)
    BY <1>12, <1>t DEF SaveFailed, Local, TypeInv
  <2> QED BY <1>12, <1>t, <2>1, ConstantTypes, DrawType DEF SaveFailed, BeforeType
<1>13. ASSUME NEW env \in Environment, OpenPreview(env) PROVE TypeInv'
  <2>1. preview' \in Preview
    BY <1>13, <1>t, ConstantTypes DEF OpenPreview, Closed, Preview
  <2> QED BY <1>13, <2>1 DEF OpenPreview, TypeInv, TypeOK, SelectionShown, Preview, Managed
<1>14. CASE ToggleSource
  <2>1. Offered(preview.view) \subseteq Name
    BY DEF Offered, AllOffered, Selectable, Valid
  <2>2. \E chosen \in SUBSET Name : preview' = [preview EXCEPT !.chosen = chosen]
    <3> DEFINE shown == Offered(preview.view)
    <3>1. preview.chosen \subseteq Name
      BY <1>t DEF Preview
    <3>2. CASE \E n \in shown : preview' = [preview EXCEPT !.chosen = IF n \in @ THEN @ \ {n} ELSE @ \cup {n}]
      BY <2>1, <3>1, <3>2
    <3>3. CASE preview' = [preview EXCEPT !.chosen = IF shown \subseteq @ THEN @ \ shown ELSE @ \cup shown]
      BY <2>1, <3>1, <3>3
    <3> QED BY <1>14, <3>2, <3>3 DEF ToggleSource
  <2>3. preview' \in Preview
    BY <1>t, <2>2 DEF Preview
  <2> QED BY <1>14, <2>3 DEF ToggleSource, TypeInv, TypeOK, SelectionShown, Preview, Managed
<1>15. ASSUME NEW vw \in Arrangements(preview.view), ArrangePreview(vw) PROVE TypeInv'
  <2>1. vw \in View
    BY <1>t, ArrangementsType DEF Preview
  <2>2. preview' \in Preview
    BY <1>15, <1>t, <2>1 DEF ArrangePreview, Preview
  <2> QED BY <1>15, <2>2 DEF ArrangePreview, TypeInv, TypeOK, SelectionShown, Preview, Managed
<1>16. CASE LeavePreview
  BY <1>16, <1>t, ConstantTypes, DrawType DEF LeavePreview, BeforeType
<1>e. Environment \cup {Closed.env} \subseteq Values
  BY ConstantTypes
<1>17. CASE Import
  <2>1. preview.env \in Values
    BY <1>t, <1>e DEF Preview
  <2>2. values' \in Values /\ guarded' \subseteq Valued(values')
    BY <1>17, <2>1, ImportedType DEF Import
  <2>3. /\ previous' \in Local /\ previous'.values = values
        /\ before' = [Quiet EXCEPT !.guarded = guarded]
    BY <1>17, <1>t, ConstantTypes DEF Import, Nothing, Local
  <2>4. BeforeType' /\ before'.guarded = guarded
    BY <1>t, <2>3 DEF BeforeType, Quiet, Valued
  <2>5. UNCHANGED <<focus, marked, view, preview>> /\ screen' = "importing"
    BY <1>17 DEF Import
  <2>6. TypeOK'
    BY <1>t, <2>2, <2>3, <2>4, <2>5 DEF TypeOK, Values, Valued, Managed, Preview, Local, BeforeType
  <2> QED BY <1>t, <2>3, <2>4, <2>5, <2>6 DEF TypeInv, SelectionShown
<1>18. CASE ImportOk
  <2>1. PICK n : Draw(values, view, marked, Selected(n, focus, values, view))
    BY <1>18 DEF ImportOk
  <2>2. Selected(n, focus, values, view) \in Nat
    BY <1>t, SelectedType
  <2> QED BY <1>18, <1>t, <2>1, <2>2, ConstantTypes, DrawType DEF ImportOk, BeforeType
<1>19. CASE ImportFailed
  <2>1. /\ previous.values \in Values /\ before.guarded \subseteq Valued(previous.values)
    BY <1>19, <1>t DEF ImportFailed, Local, TypeInv
  <2>2. previous' \in Local /\ BeforeType'
    BY <1>19, ConstantTypes DEF ImportFailed, BeforeType
  <2>3. TypeOK'
    BY <1>19, <1>t, <2>1, <2>2 DEF ImportFailed, TypeOK, Values, Valued, Managed, Preview, Local,
       BeforeType
  <2> QED BY <1>19, <2>3 DEF ImportFailed, TypeInv, SelectionShown
<1>20. ASSUME NEW n \in Name, NEW src \in Name, SetFrom(n, src) PROVE TypeInv'
  <2>1. values[src] \in Value
    BY <1>20, <1>t DEF SetFrom, Copyable, Values, Maybe
  <2>2. Put(n, values[src]) \in Values /\ guarded' \subseteq Valued(Put(n, values[src]))
    BY <1>20, <2>1, PutType DEF SetFrom
  <2> QED BY <1>20, <2>2, CommandType DEF SetFrom
<1>21. ASSUME NEW n \in Name, NEW raw \in Typed, SetStdin(n, raw) PROVE TypeInv'
  <2>1. Put(n, raw) \in Values /\ guarded' \subseteq Valued(Put(n, raw))
    BY <1>21, ConstantTypes, PutType DEF SetStdin
  <2> QED BY <1>21, <2>1, CommandType DEF SetStdin
<1>22. ASSUME NEW n \in Name, NEW raw \in Typed, SetValue(n, raw) PROVE TypeInv'
  <2>1. Entered(n, raw) \in Value
    BY <1>22, EnteredType DEF SetValue
  <2>2. Put(n, Entered(n, raw)) \in Values /\ guarded' \subseteq Valued(Put(n, Entered(n, raw)))
    BY <1>22, <2>1, PutType DEF SetValue
  <2> QED BY <1>22, <2>2, CommandType DEF SetValue
<1>23. ASSUME NEW n \in Name, Unset(n) PROVE TypeInv'
  <2>1. Put(n, None) \in Values /\ guarded' \subseteq Valued(Put(n, None))
    BY <1>23, <1>t DEF Unset, Put, Values, Maybe, Valued
  <2> QED BY <1>23, <2>1, CommandType DEF Unset
<1>24. ASSUME NEW old \in Name, NEW new \in Name, RenameCommand(old, new) PROVE TypeInv'
  <2>1. Moved(old, new) \in Values /\ guarded' \subseteq Valued(Moved(old, new))
    BY <1>24, MovedType DEF RenameCommand
  <2> QED BY <1>24, <2>1, CommandType DEF RenameCommand
<1>25. ASSUME NEW env \in Environment, NEW chosen \in SUBSET Name, NEW replace \in BOOLEAN,
              ImportCommand(env, chosen, replace)
       PROVE  TypeInv'
  <2>1. Imported(env, chosen) \in Values /\ guarded' \subseteq Valued(Imported(env, chosen))
    BY <1>25, <1>e, ImportedType DEF ImportCommand
  <2> QED BY <1>25, <2>1, CommandType DEF ImportCommand
<1>26. CASE UNCHANGED vars
  BY <1>26 DEF vars, TypeInv, TypeOK, SelectionShown, Managed, Shown, Matches
<1> QED
  BY <1>1, <1>2, <1>3, <1>4, <1>5, <1>6, <1>7, <1>8, <1>9, <1>10, <1>11, <1>12, <1>13, <1>14,
     <1>15, <1>16, <1>17, <1>18, <1>19, <1>20, <1>21, <1>22, <1>23, <1>24, <1>25, <1>26 DEF Next

LEMMA AlwaysScreen == Spec => []TypeInv
  BY InitScreen, TypeStep, PTL DEF Spec

\* Type correctness.  In particular the focus is never negative, also when the
\* last row is deleted or hidden, and only managed variables are guarded.
THEOREM TypeCorrect == Spec => []TypeOK
  BY AlwaysScreen, PTL DEF TypeInv

\* catalog_names and the clamping of the focus in draw: in the catalog every
\* marked variable is shown, and there is a current row if there is any,
\* whatever was edited, imported, filtered or taken back before.
THEOREM SelectionIsShown == Spec => []SelectionShown
  BY AlwaysScreen, PTL DEF TypeInv

-----------------------------------------------------------------------------
(* While a change is being saved, what a failed save goes back to is the   *)
(* screen as it was: the rows of the previous values under the same order  *)
(* and filter, the focus on the same one of them, the same marks.  And the *)
(* focus is where the added or renamed variable stands among the new rows. *)

SavedScreen ==
    screen = "saving" =>
        /\ RestoredMarks = before.marked
        /\ before.marked \subseteq Shown(previous.values, view)
        /\ before.focused = RowAt(previous.values, view, previous.focus)
        /\ Shown(previous.values, view) # {} =>
              previous.focus < Cardinality(Shown(previous.values, view))
        /\ \A n \in Shown(values, view) :
              previous.values[n] = None => focus = Row(values, view, n)

\* What is chosen in the preview is not managed.
ChosenNew ==
    /\ screen = "preview" => \A n \in preview.chosen : values[n] = None
    /\ screen = "importing" => \A n \in preview.chosen : previous.values[n] = None

\* A change passes the marks of the screen to the failed save, or leaves them.
LEMMA ChangeScreen ==
    ASSUME TypeInv, screen = "catalog",
           NEW vals, NEW marks, NEW i, NEW marksToo,
           Change(vals, marks, i, marksToo),
           marksToo = TRUE \/ (marksToo = FALSE /\ marks = marked),
           \A n \in Shown(vals, view) : values[n] = None => i = Row(vals, view, n)
    PROVE  SavedScreen' /\ ChosenNew'
<1>1. /\ screen' = "saving" /\ values' = vals /\ marked' = marks /\ focus' = i /\ view' = view
      /\ previous' = [values |-> values, focus |-> focus, marked |-> marked, marksToo |-> marksToo]
      /\ before' = [focused |-> Current, marked |-> marked, guarded |-> guarded]
  BY DEF Change
<1>2. /\ Current = RowAt(values, view, focus)
      /\ marked \subseteq Shown(values, view)
      /\ Shown(values, view) # {} => focus < Cardinality(Shown(values, view))
  BY CurrentRow DEF TypeInv, SelectionShown
<1>3. /\ previous'.values = values /\ previous'.focus = focus
      /\ before'.marked = marked /\ before'.focused = Current
  BY <1>1
<1>4. RestoredMarks' = marked
  BY <1>1 DEF RestoredMarks
<1>5. Shown(previous.values, view)' = Shown(values, view)
  BY <1>1, <1>3 DEF Shown, Matches
<1>6. RowAt(previous.values, view, previous.focus)' = RowAt(values, view, focus)
  BY <1>1, <1>3, <1>5 DEF RowAt, Row, Precedes, SortText, Shown, Matches
<1>7. /\ Shown(values, view)' = Shown(vals, view)
      /\ \A n : Row(values, view, n)' = Row(vals, view, n)
  BY <1>1 DEF Row, Precedes, SortText, Shown, Matches
<1>8. \A n \in Shown(values, view)' : (previous.values[n] = None)' => (focus = Row(values, view, n))'
  BY <1>1, <1>3, <1>7
<1>9. SavedScreen'
  BY <1>2, <1>3, <1>4, <1>5, <1>6, <1>8 DEF SavedScreen
<1> QED BY <1>1, <1>9 DEF ChosenNew

\* Wherever nothing is being saved or imported there is nothing to keep.
LEMMA CalmScreen ==
    ASSUME screen' \notin {"saving", "preview", "importing"}
    PROVE  SavedScreen' /\ ChosenNew'
  BY DEF SavedScreen, ChosenNew

LEMMA ViewStep == TypeInv /\ SavedScreen /\ ChosenNew /\ [Next]_vars => SavedScreen' /\ ChosenNew'
<1> SUFFICES ASSUME TypeInv, SavedScreen, ChosenNew, [Next]_vars PROVE SavedScreen' /\ ChosenNew'
  OBVIOUS
<1>t. /\ values \in Values /\ view \in View /\ focus \in Nat /\ preview \in Preview
  BY DEF TypeInv, TypeOK, Values, Preview
<1>m. \A n \in Managed : values[n] # None
  BY DEF Managed
<1>1. CASE StartTUI \/ Quit \/ MoveFocus \/ ToggleMark \/ SaveOk \/ SaveFailed \/ LeavePreview \/ ImportOk
  BY <1>1, CalmScreen DEF StartTUI, Quit, MoveFocus, ToggleMark, SaveOk, SaveFailed, LeavePreview,
     ImportOk, Draw
<1>2. ASSUME NEW vw, Arrange(vw) PROVE SavedScreen' /\ ChosenNew'
  BY <1>2, CalmScreen DEF Arrange, Draw
<1>3. ASSUME NEW vals, Command(vals) PROVE SavedScreen' /\ ChosenNew'
  BY <1>3, CalmScreen DEF Command
<1>4. ASSUME NEW n \in Name, NEW raw \in Typed, Add(n, raw) PROVE SavedScreen' /\ ChosenNew'
  <2> DEFINE vals == Put(n, Entered(n, raw))
  <2>1. /\ screen = "catalog" /\ n \in Name \ Managed
        /\ Change(vals, Pruned(marked, vals, view), Selected(n, focus, vals, view), FALSE)
    BY <1>4 DEF Add
  <2>2. vals \in Values /\ \A m \in Name \ {n} : vals[m] = values[m]
    BY <1>4, EnteredType, PutType DEF Add
  <2> HIDE DEF vals
  <2>3. marked \subseteq Shown(values, view) /\ n \notin marked
    BY <2>1, ShownType DEF TypeInv, SelectionShown, Managed
  <2>4. Pruned(marked, vals, view) = marked
    BY <2>2, <2>3 DEF Pruned, Shown
  <2>5. \A m \in Shown(vals, view) : values[m] = None => Selected(n, focus, vals, view) = Row(vals, view, m)
    <3>1. SUFFICES ASSUME NEW m \in Shown(vals, view), values[m] = None
                   PROVE  Selected(n, focus, vals, view) = Row(vals, view, m)
      OBVIOUS
    <3>2. m = n
      BY <2>2, <3>1, ShownType
    <3> QED BY <3>1, <3>2 DEF Selected
  <2> QED BY <2>1, <2>4, <2>5, ChangeScreen
<1>5. ASSUME NEW raw \in Typed, Edit(raw) PROVE SavedScreen' /\ ChosenNew'
  <2> DEFINE vals == Put(Current, Entered(Current, raw))
  <2>1. screen = "catalog" /\ Change(vals, marked, focus, FALSE) /\ Current \in Managed /\ Current \in Name
    BY <1>5, CurrentType DEF Edit, Managed
  <2>2. \A m \in Name \ {Current} : vals[m] = values[m]
    BY <1>5, <2>1, EnteredType, PutType DEF Edit
  <2> HIDE DEF vals
  <2>3. \A m \in Shown(vals, view) : values[m] # None
    BY <1>m, <2>1, <2>2, ShownType
  <2> QED BY <2>1, <2>3, ChangeScreen
<1>6. ASSUME NEW src \in Name, Copy(src) PROVE SavedScreen' /\ ChosenNew'
  <2> DEFINE vals == [n \in Name |-> IF n \in Group THEN values[src] ELSE values[n]]
  <2>1. screen = "catalog" /\ Change(vals, marked, focus, TRUE) /\ Group \subseteq Managed
    BY <1>6, CurrentType DEF Copy
  <2>2. \A m \in Name \ Group : vals[m] = values[m]
    OBVIOUS
  <2> HIDE DEF vals
  <2>3. \A m \in Shown(vals, view) : values[m] # None
    BY <1>m, <2>1, <2>2, ShownType
  <2> QED BY <2>1, <2>3, ChangeScreen
<1>7. ASSUME NEW new \in Name, Rename(new) PROVE SavedScreen' /\ ChosenNew'
  <2> DEFINE vals == Moved(Current, new)
             marks == IF Current \in marked THEN (marked \ {Current}) \cup {new} ELSE marked
  <2>1. /\ screen = "catalog" /\ Current \in Managed
        /\ Change(vals, Pruned(marks, vals, view), Selected(new, focus, vals, view), TRUE)
    BY <1>7, CurrentType DEF Rename
  <2>2. vals \in Values /\ \A m \in Name \ {Current, new} : vals[m] = values[m]
    BY <2>1, MovedType
  <2> HIDE DEF vals, marks
  <2>3. \A m \in Shown(vals, view) : values[m] = None => Selected(new, focus, vals, view) = Row(vals, view, m)
    <3>1. SUFFICES ASSUME NEW m \in Shown(vals, view), values[m] = None
                   PROVE  Selected(new, focus, vals, view) = Row(vals, view, m)
      OBVIOUS
    <3>2. m = new
      BY <1>m, <2>1, <2>2, <3>1, ShownType
    <3> QED BY <3>1, <3>2 DEF Selected
  <2> QED BY <2>1, <2>3, ChangeScreen
<1>8. CASE Delete
  <2> DEFINE vals == [n \in Name |-> IF n \in Group THEN None ELSE values[n]]
  <2>1. screen = "catalog" /\ Change(vals, Pruned(marked, vals, view), Clamped(focus, vals, view), TRUE)
    BY <1>8 DEF Delete
  <2>2. \A m \in Name : vals[m] \in {None, values[m]}
    OBVIOUS
  <2> HIDE DEF vals
  <2>3. \A m \in Shown(vals, view) : values[m] # None
    BY <2>2, ShownType
  <2> QED BY <2>1, <2>3, ChangeScreen
<1>9. ASSUME NEW env \in Environment, OpenPreview(env) PROVE SavedScreen' /\ ChosenNew'
  <2>1. preview'.chosen = {} /\ screen' = "preview"
    BY <1>9 DEF OpenPreview, Closed
  <2> QED BY <2>1 DEF SavedScreen, ChosenNew
<1>10. CASE ToggleSource
  <2> DEFINE shown == Offered(preview.view)
  <2>1. /\ screen = "preview" /\ screen' = "preview" /\ values' = values
        /\ \/ \E n \in shown : preview' = [preview EXCEPT !.chosen = IF n \in @ THEN @ \ {n} ELSE @ \cup {n}]
           \/ preview' = [preview EXCEPT !.chosen = IF shown \subseteq @ THEN @ \ shown ELSE @ \cup shown]
    BY <1>10 DEF ToggleSource
  <2>2. \A n \in shown : values[n] = None
    BY DEF Offered
  <2> HIDE DEF shown
  <2>3. preview'.chosen \subseteq preview.chosen \cup shown
    BY <1>t, <2>1 DEF Preview
  <2> QED BY <2>1, <2>2, <2>3 DEF SavedScreen, ChosenNew
<1>11. ASSUME NEW vw, ArrangePreview(vw) PROVE SavedScreen' /\ ChosenNew'
  <2>1. /\ screen = "preview" /\ screen' = "preview" /\ values' = values
        /\ preview'.chosen \subseteq preview.chosen
    BY <1>11, <1>t DEF ArrangePreview, Preview
  <2> QED BY <2>1 DEF SavedScreen, ChosenNew
<1>12. CASE Import
  <2>1. /\ screen = "preview" /\ screen' = "importing" /\ preview' = preview
        /\ previous'.values = values
    BY <1>12 DEF Import, Nothing
  <2> QED BY <2>1 DEF SavedScreen, ChosenNew
<1>13. CASE ImportFailed
  BY <1>13 DEF ImportFailed, SavedScreen, ChosenNew
<1>14. CASE UNCHANGED vars
  BY <1>14 DEF vars, SavedScreen, ChosenNew, RestoredMarks, RowAt, Row, Precedes, SortText, Shown, Matches
<1> QED
  BY <1>1, <1>2, <1>3, <1>4, <1>5, <1>6, <1>7, <1>8, <1>9, <1>10, <1>11, <1>12, <1>13, <1>14
     DEF Next, SetFrom, SetStdin, SetValue, Unset, RenameCommand, ImportCommand

LEMMA InitView == Init => SavedScreen /\ ChosenNew
  BY DEF Init, SavedScreen, ChosenNew

\* persist_change: a failed save gives the catalog back as it was, also where
\* add, edit or a failed change passed it no marks to restore.
THEOREM FailedSaveRestores == Spec => FailedSaveKeepsView
<1>1. TypeInv /\ SavedScreen /\ [Next]_vars =>
        [SaveFailed => marked' = before.marked /\ Current' = before.focused]_vars
  <2> SUFFICES ASSUME TypeInv, SavedScreen, SaveFailed
               PROVE  marked' = before.marked /\ Current' = before.focused
    OBVIOUS
  <2>1. /\ screen = "saving" /\ Draw(previous.values, view, RestoredMarks, previous.focus)
        /\ previous.focus \in Nat
    BY DEF SaveFailed, TypeInv, TypeOK
  <2>2. /\ RestoredMarks = before.marked
        /\ before.marked \subseteq Shown(previous.values, view)
        /\ before.focused = RowAt(previous.values, view, previous.focus)
        /\ Shown(previous.values, view) # {} =>
              previous.focus < Cardinality(Shown(previous.values, view))
    BY <2>1 DEF SavedScreen
  <2>3. /\ values' = previous.values /\ view' = view
        /\ marked' = RestoredMarks \cap Shown(previous.values, view)
        /\ focus' = Clamped(previous.focus, previous.values, view)
    BY <2>1 DEF Draw, Pruned
  <2>4. marked' = before.marked
    BY <2>2, <2>3
  <2>5. Current' = RowAt(previous.values, view, focus')
    BY <2>3 DEF Current, RowAt, Row, Precedes, SortText, Shown, Matches
  <2>6. CASE Shown(previous.values, view) = {}
    BY <2>2, <2>4, <2>5, <2>6 DEF RowAt
  <2>7. CASE Shown(previous.values, view) # {}
    <3>1. focus' = previous.focus
      BY <2>1, <2>2, <2>3, <2>7, ClampedType
    <3> QED BY <2>2, <2>4, <2>5, <3>1
  <2> QED BY <2>6, <2>7
<1> QED BY <1>1, AlwaysScreen, InitView, ViewStep, PTL DEF Spec, FailedSaveKeepsView

\* A redrawn screen is on the row it is told to be on.
LEMMA DrawnCurrent ==
    ASSUME NEW vals \in Values, NEW vw \in View, NEW marks, NEW n \in Shown(vals, vw),
           Draw(vals, vw, marks, Row(vals, vw, n))
    PROVE  Current' = n
<1>1. Row(vals, vw, n) \in 0 .. Cardinality(Shown(vals, vw)) - 1 /\ Cardinality(Shown(vals, vw)) \in Nat
  BY RowInRange, ShownType
<1>2. Clamped(Row(vals, vw, n), vals, vw) = Row(vals, vw, n)
  BY <1>1, ClampedType
<1>3. values' = vals /\ view' = vw /\ focus' = Row(vals, vw, n)
  BY <1>2 DEF Draw
<1>4. Current' = RowAt(vals, vw, Row(vals, vw, n))
  BY <1>3 DEF Current, RowAt, Row, Precedes, SortText, Shown, Matches
<1> QED BY <1>4, RowAtRow

\* _select_catalog_name: an added or renamed variable has the focus once it is
\* saved, and another sort order or filter does not move the focus off its
\* variable: under every order, also where values are masked or equal.
THEOREM FocusStaysOn == Spec => FocusFollows
<1>1. TypeInv /\ SavedScreen /\ [Next]_vars =>
        [/\ SaveOk =>
             \A n \in Shown(values, view) : previous.values[n] = None => Current' = n
         /\ {screen, screen'} = {"catalog"} /\ view' # view
             /\ Current \in Shown(values, view') => Current' = Current]_vars
  <2> SUFFICES ASSUME TypeInv, SavedScreen, Next
               PROVE  /\ SaveOk =>
                          \A n \in Shown(values, view) : previous.values[n] = None => Current' = n
                      /\ {screen, screen'} = {"catalog"} /\ view' # view
                          /\ Current \in Shown(values, view') => Current' = Current
    BY DEF vars, Arrange, Draw
  <2>t. values \in Values /\ view \in View
    BY DEF TypeInv, TypeOK, Values
  <2>1. ASSUME SaveOk, NEW n \in Shown(values, view), previous.values[n] = None
        PROVE  Current' = n
    <3>1. Draw(values, view, marked, focus) /\ focus = Row(values, view, n)
      BY <2>1 DEF SaveOk, SavedScreen
    <3> QED BY <2>t, <3>1, DrawnCurrent
  <2>2. ASSUME screen = "catalog", screen' = "catalog", view' # view, Current \in Shown(values, view')
        PROVE  Current' = Current
    <3>1. PICK vw \in Arrangements(view) : Arrange(vw)
      BY <2>2 DEF Next, StartTUI, Quit, MoveFocus, ToggleMark, Add, Edit, Copy, Rename, Delete, Change,
         SaveOk, SaveFailed, OpenPreview, ToggleSource, ArrangePreview, LeavePreview, Import,
         ImportOk, ImportFailed, SetFrom, SetStdin, SetValue, Unset, RenameCommand, ImportCommand,
         Command, session, Draw
    <3>2. vw \in View /\ view' = vw /\ Draw(values, vw, marked, Selected(Current, focus, values, vw))
      BY <2>t, <3>1, ArrangementsType DEF Arrange, Draw
    <3>3. Selected(Current, focus, values, vw) = Row(values, vw, Current)
      BY <2>2, <3>2 DEF Selected
    <3> QED BY <2>t, <2>2, <3>2, <3>3, DrawnCurrent
  <2> QED BY <2>1, <2>2
<1> QED BY <1>1, AlwaysScreen, InitView, ViewStep, PTL DEF Spec, FocusFollows

-----------------------------------------------------------------------------
(* Imports and references.                                                 *)

\* The catalog's import replaces without asking, and needs not to: what was
\* selected in the preview was not managed, and nothing made it so since.
THEOREM ImportReplacesNothing == Spec => ImportAddsOnly
<1>1. TypeInv /\ ChosenNew /\ [Next]_vars =>
        [screen' = "importing" => \A n \in Managed : values'[n] = values[n]]_vars
  <2> SUFFICES ASSUME TypeInv, ChosenNew, Next, screen' = "importing"
               PROVE  \A n \in Managed : values'[n] = values[n]
    OBVIOUS
  <2>1. CASE Import
    <3>1. /\ screen = "preview" /\ Importable(preview.env, preview.chosen)
          /\ values' = Imported(preview.env, preview.chosen)
      BY <2>1 DEF Import
    <3>2. preview.env \in Values
      BY ConstantTypes DEF TypeInv, TypeOK
    <3>3. \A n \in preview.chosen : values[n] = None
      BY <3>1 DEF ChosenNew
    <3> QED BY <3>1, <3>2, <3>3, ImportedType DEF Managed
  <2>2. CASE screen = "importing"
    BY <2>2 DEF Next, StartTUI, Quit, MoveFocus, ToggleMark, Arrange, Add, Edit, Copy, Rename, Delete,
       SaveOk, SaveFailed, OpenPreview, ToggleSource, ArrangePreview, LeavePreview, Import,
       ImportOk, ImportFailed, SetFrom, SetStdin, SetValue, Unset, RenameCommand, ImportCommand,
       Command, Draw
  <2>3. CASE screen # "importing" /\ ~Import
    BY <2>3 DEF Next, StartTUI, Quit, MoveFocus, ToggleMark, Arrange, Add, Edit, Copy, Rename, Delete,
       Change, SaveOk, SaveFailed, OpenPreview, ToggleSource, ArrangePreview, LeavePreview,
       ImportOk, ImportFailed, SetFrom, SetStdin, SetValue, Unset, RenameCommand, ImportCommand,
       Command, Draw
  <2> QED BY <2>1, <2>2, <2>3
<1> QED BY <1>1, AlwaysScreen, InitView, ViewStep, PTL DEF Spec, ImportAddsOnly

\* One variable entered for n.
LEMMA EnteredChecked ==
    ASSUME TypeInv, NEW n \in Name, NEW raw \in Typed, Enterable(n, raw),
           values' = Put(n, Entered(n, raw))
    PROVE  \A m \in ReferenceName : values'[m] \in {values[m]} \cup Managed
<1>1. /\ Entered(n, raw) \in Value
      /\ n \in ReferenceName => Entered(n, raw) \in Managed
  BY EnteredType
<1>2. /\ values'[n] = Entered(n, raw)
      /\ \A m \in Name \ {n} : values'[m] = values[m]
  BY <1>1, PutType
<1>3. ReferenceName \subseteq Name
  BY NameAssumption
<1> QED BY <1>1, <1>2, <1>3

\* A reference may name what comes with it.
LEMMA ImportedChecked ==
    ASSUME TypeInv, NEW env \in Values, NEW chosen, Importable(env, chosen),
           values' = Imported(env, chosen)
    PROVE  \A m \in ReferenceName : values'[m] \in {None, values[m]} \cup Managed'
<1>1. /\ chosen \subseteq Name
      /\ \A n \in chosen : values'[n] = env[n] /\ env[n] # None
      /\ \A n \in Name \ chosen : values'[n] = values[n]
  BY ImportedType
<1>2. Managed \cup chosen \subseteq Managed'
  BY <1>1 DEF Managed
<1>3. \A n \in chosen \cap ReferenceName : env[n] \in chosen \cup Managed
  BY DEF Importable
<1>4. ReferenceName \subseteq Name
  BY NameAssumption
<1> QED BY <1>1, <1>2, <1>3, <1>4

\* prepare_entered_value, prepare_environment_import: a reference that is
\* entered or set with --value names a variable managed before, one that is
\* imported a variable managed afterwards.
THEOREM ReferencesHold == Spec => ReferencesChecked
<1>1. ASSUME TypeInv, Enters
      PROVE  \A m \in ReferenceName : values'[m] \in {values[m]} \cup Managed
  <2>1. ASSUME NEW n \in Name, NEW raw \in Typed, Add(n, raw) \/ SetValue(n, raw)
        PROVE  \A m \in ReferenceName : values'[m] \in {values[m]} \cup Managed
    BY <1>1, <2>1, EnteredChecked DEF Add, SetValue, Change, Command
  <2>2. ASSUME NEW raw \in Typed, Edit(raw)
        PROVE  \A m \in ReferenceName : values'[m] \in {values[m]} \cup Managed
    <3>1. Current \in Name /\ Enterable(Current, raw) /\ values' = Put(Current, Entered(Current, raw))
      BY <1>1, <2>2, CurrentType DEF Edit, Change, Managed
    <3> QED BY <1>1, <2>2, <3>1, EnteredChecked
  <2> QED BY <1>1, <2>1, <2>2 DEF Enters
<1>2. ASSUME TypeInv, Imports
      PROVE  \A m \in ReferenceName : values'[m] \in {None, values[m]} \cup Managed'
  <2>1. CASE Import
    <3>1. preview.env \in Values
      BY <1>2, ConstantTypes DEF TypeInv, TypeOK
    <3> QED BY <1>2, <2>1, <3>1, ImportedChecked DEF Import
  <2>2. ASSUME NEW env \in Environment, NEW chosen, NEW replace, ImportCommand(env, chosen, replace)
        PROVE  \A m \in ReferenceName : values'[m] \in {None, values[m]} \cup Managed'
    BY <1>2, <2>2, ConstantTypes, ImportedChecked DEF ImportCommand, Command
  <2> QED BY <1>2, <2>1, <2>2 DEF Imports
<1>3. TypeInv /\ [Next]_vars =>
        [\A n \in ReferenceName : values'[n] \notin {None, values[n]} =>
            /\ Enters => values'[n] \in Managed
            /\ Imports => values'[n] \in Managed']_vars
  BY <1>1, <1>2
<1> QED BY <1>3, AlwaysScreen, PTL DEF Spec, ReferencesChecked

=============================================================================
