------------------------- MODULE DevicesPage_proofs -------------------------
(***************************************************************************)
(* Proofs about DevicesPage, for any number of tabs, devices, alerts and   *)
(* restarts, any menu of page lengths and however much an operator does.   *)
(***************************************************************************)
EXTENDS DevicesPage, FiniteSetTheorems, TLAPS

-----------------------------------------------------------------------------
(* Which options the table gets. *)

\* custom-table.js runs before the page's own script: the page's pageLength is not used,
\* and the table starts with the first length of the menu.
LEMMA DetailedWins == Options = DetailedOptions
<1>1. DetailedOptions.selector \in DevicesTable
  BY DEF DetailedOptions, DevicesTable
<1> DEFINE Selects(i) == Initialisers[i].selector \in DevicesTable
           First(i) == Selects(i) /\ \A j \in 1..(i - 1) : ~Selects(j)
<1>2. Initialisers[1] = DetailedOptions
  BY DEF Initialisers
<1>3. First(1)
  BY <1>1, <1>2
<1>4. \A i \in 1..3 : First(i) => i = 1
  BY <1>1, <1>2
<1>5. (CHOOSE i \in 1..3 : First(i)) = 1
  BY <1>3, <1>4
<1> QED
  BY <1>2, <1>5 DEF Options

LEMMA FirstViewType == FirstView \in Views /\ FirstView.start = 0 /\ Options.stateSave
<1>1. Head(LengthMenu) \in Lengths
  BY MenuAssumption DEF Lengths
<1> QED
  BY <1>1, DetailedWins, OrderAssumption DEF FirstView, Views, Terms, DetailedOptions

LEMMA PositiveLengths == \A n \in Lengths : n \in Nat \ {0}
  BY MenuAssumption DEF Lengths

\* A view is one of its fields; Nothing is not one.
LEMMA ViewShape ==
  ASSUME NEW v \in Views
  PROVE  /\ v # Nothing
         /\ v.start \in Nat /\ v.length \in Nat \ {0}
         /\ \A n \in Nat : [v EXCEPT !.start = n] \in Views
<1>1. v.saved = TRUE
  BY DEF Views
<1>2. v # Nothing
  BY <1>1 DEF Nothing
<1>3. \A n \in Nat : [v EXCEPT !.start = n] \in Views
  BY DEF Views
<1> QED
  BY <1>2, <1>3, PositiveLengths DEF Views

-----------------------------------------------------------------------------
(* Types. *)

LEMMA InitTypes == Init => TypeOK
<1> SUFFICES ASSUME Init PROVE TypeOK
  OBVIOUS
<1>1. [k \in {} |-> Null] \in [{} -> Status \cup {Pending}]
  OBVIOUS
<1> QED
  BY <1>1, FirstViewType DEF Init, TypeOK, InitialMap, Keys, Status

LEMMA DrawTypes ==
  ASSUME TypeOK, NEW t \in Tabs, NEW v \in Views, Draw(t, v)
  PROVE  TypeOK'
  BY FirstViewType DEF TypeOK, Draw, Saved

LEMMA RestoreType ==
  ASSUME TypeOK, NEW S
  PROVE  Restore(S) \in Views
  BY FirstViewType, ViewShape DEF TypeOK, Restore, Views

LEMMA PutTypes ==
  ASSUME TypeOK, NEW k \in Keys, NEW s \in Status, Put(k, s, form)
  PROVE  /\ activeDevicesMap' \in [Keys -> Status \cup {Null}]
         /\ form' \in [Tabs -> [key : Keys, status : Status] \cup {NoForm}]
  BY DEF TypeOK, Put

LEMMA StepTypes == TypeOK /\ [Next]_vars => TypeOK'
<1> SUFFICES ASSUME TypeOK, [Next]_vars PROVE TypeOK'
  OBVIOUS
<1> USE DEF history
<1>1. ASSUME NEW t \in Tabs, Open(t)
      PROVE  TypeOK'
  BY <1>1 DEF Open, TypeOK, Goto
<1>2. ASSUME NEW t \in Tabs, GetActiveDevices(t)
      PROVE  TypeOK'
  <2>1. Mapped \subseteq Keys
    BY DEF Mapped
  <2>2. [k \in Mapped |-> Pending] \in [Mapped -> Status \cup {Pending}]
    OBVIOUS
  <2>3. [k \in Mapped |-> Pending] \in UNION {[K -> Status \cup {Pending}] : K \in SUBSET Keys}
    BY <2>1, <2>2
  <2> QED
    BY <1>2, <2>3 DEF GetActiveDevices, TypeOK, Goto
<1>3. ASSUME NEW t \in Tabs, NEW k \in Keys, RenderRow(t, k)
      PROVE  TypeOK'
  <2> DEFINE new == [r \in DOMAIN rows[t] \cup {k} |->
                       IF r = k THEN activeDevicesMap[k] ELSE rows[t][r]]
  <2>1. PICK K \in SUBSET Keys : rows[t] \in [K -> Status \cup {Pending}]
    BY DEF TypeOK
  <2>2. activeDevicesMap[k] \in Status
    BY <1>3 DEF RenderRow, Mapped, TypeOK
  <2>3. new \in [K \cup {k} -> Status \cup {Pending}]
    BY <2>1, <2>2
  <2>4. new \in UNION {[L -> Status \cup {Pending}] : L \in SUBSET Keys}
    BY <2>3
  <2>5. rows' = [rows EXCEPT ![t] = new]
    BY <1>3 DEF RenderRow
  <2> DEFINE Copies == UNION {[L -> Status \cup {Pending}] : L \in SUBSET Keys}
  <2>6. rows \in [Tabs -> Copies] /\ new \in Copies
    BY <2>4 DEF TypeOK
  <2> HIDE DEF new, Copies
  <2>7. rows' \in [Tabs -> Copies]
    BY <2>5, <2>6
  <2> QED
    BY <1>3, <2>7 DEF RenderRow, TypeOK, Copies
<1>4. ASSUME NEW t \in Tabs, Ready(t)
      PROVE  TypeOK'
  <2>1. view'[t] \in Views /\ view' \in [Tabs -> Views]
    BY <1>4, RestoreType DEF Ready, TypeOK
  <2> QED
    BY <1>4, <2>1, FirstViewType DEF Ready, TypeOK, Goto, Saved
<1>5. ASSUME NEW t \in Tabs, NextPage(t) \/ PreviousPage(t)
      PROVE  TypeOK'
  <2>1. view[t] \in Views /\ view[t].start \in Nat /\ view[t].length \in Nat
    BY ViewShape DEF TypeOK
  <2> DEFINE next == view[t].start + view[t].length
             previous == IF view[t].start > view[t].length
                         THEN view[t].start - view[t].length ELSE 0
  <2>2. next \in Nat /\ previous \in Nat
    BY <2>1
  <2>3. Draw(t, [view[t] EXCEPT !.start = next]) \/ Draw(t, [view[t] EXCEPT !.start = previous])
    BY <1>5 DEF NextPage, PreviousPage
  <2> HIDE DEF next, previous
  <2> QED
    BY <2>1, <2>2, <2>3, ViewShape, DrawTypes
<1>6. ASSUME NEW t \in Tabs, NEW term \in Terms, Search(t, term)
      PROVE  TypeOK'
  <2>1. [view[t] EXCEPT !.start = 0, !.search = term] \in Views
    BY DEF TypeOK, Views
  <2> QED
    BY <1>6, <2>1, DrawTypes DEF Search
<1>7. ASSUME NEW t \in Tabs, NEW order \in Orders, Order(t, order)
      PROVE  TypeOK'
  <2>1. [view[t] EXCEPT !.start = 0, !.order = order] \in Views
    BY DEF TypeOK, Views
  <2> QED
    BY <1>7, <2>1, DrawTypes DEF Order
<1>8. ASSUME NEW t \in Tabs, NEW n \in Lengths, PageLength(t, n)
      PROVE  TypeOK'
  <2>1. [view[t] EXCEPT !.start = 0, !.length = n] \in Views
    BY DEF TypeOK, Views
  <2> QED
    BY <1>8, <2>1, DrawTypes DEF PageLength
<1>9. ASSUME NEW t \in Tabs, NEW k \in Keys, NEW s \in Status, Press(t, k, s)
      PROVE  TypeOK'
  BY <1>9 DEF Press, TypeOK, Goto
<1>10. ASSUME NEW t \in Tabs, HandleForm(t)
       PROVE  TypeOK'
  <2>1. form[t].key \in Keys /\ form[t].status \in Status
    BY <1>10 DEF HandleForm, TypeOK
  <2>2. \A u \in Tabs : at'[u] = "pressed" => u # t /\ at[u] = "pressed" /\ form'[u] = form[u]
    BY <1>10 DEF HandleForm, Goto, Put, Undone, TypeOK
  <2> QED
    BY <1>10, <2>1, <2>2, PutTypes DEF HandleForm, TypeOK, Goto
<1>11. ASSUME NEW k \in AlertKeys, AlertPut(k)
       PROVE  TypeOK'
  <2>1. k \in Keys /\ "INACTIVE" \in Status
    BY DEF Keys, Status
  <2> QED
    BY <1>11, <2>1, PutTypes DEF AlertPut, TypeOK, Put, Undone
<1>12. CASE Expire
  BY <1>12 DEF Expire, TypeOK
<1>13. CASE Restart
  BY <1>13 DEF Restart, TypeOK, InitialMap, Status
<1>14. CASE UNCHANGED vars
  BY <1>14 DEF vars, TypeOK
<1> QED
  BY <1>1, <1>2, <1>3, <1>4, <1>5, <1>6, <1>7, <1>8, <1>9, <1>10, <1>11, <1>12, <1>13,
     <1>14 DEF Next

\* Whatever is put in the map while a page is rendered, its rows have a status; and what is
\* saved and restored is a view the table can be given, with a length of the menu.
THEOREM TypeCorrect == Spec => []TypeOK
  BY InitTypes, StepTypes, PTL DEF Spec

-----------------------------------------------------------------------------
(* What changes a tab's view: a draw of its own, or its being loaded. *)

\* Draws: a new page of the same rows, or the first page of others.
Paged(t) ==
  \E n \in Nat :
    /\ view' = [view EXCEPT ![t] = [view[t] EXCEPT !.start = n]]
    /\ \/ n = view[t].start + view[t].length /\ n < Cardinality(Listed(t))
       \/ n + view[t].length = view[t].start
       \/ n = 0

Restarted(t) ==
  \E v \in Views : v.start = 0 /\ view' = [view EXCEPT ![t] = v]

LEMMA DrawnViews ==
  ASSUME TypeOK, NEW t \in Tabs,
         \/ NextPage(t) \/ PreviousPage(t)
         \/ \E term \in Terms : Search(t, term)
         \/ \E order \in Orders : Order(t, order)
         \/ \E n \in Lengths : PageLength(t, n)
  PROVE  /\ Paged(t) \/ Restarted(t)
         /\ localStorage' \in {localStorage, view'[t]} /\ UNCHANGED <<rows, at>>
<1>1. view[t] \in Views /\ view[t].start \in Nat /\ view[t].length \in Nat \ {0}
  BY ViewShape DEF TypeOK
<1>2. ASSUME NEW v, Draw(t, v)
      PROVE  /\ view' = [view EXCEPT ![t] = v] /\ UNCHANGED <<rows, at>>
             /\ localStorage' \in {localStorage, view'[t]}
  BY <1>2 DEF Draw, Saved, TypeOK
<1>3. CASE NextPage(t)
  BY <1>1, <1>2, <1>3 DEF NextPage, Paged
<1>4. CASE PreviousPage(t)
  <2>1. CASE view[t].start > view[t].length
    <3> DEFINE n == view[t].start - view[t].length
    <3>1. n \in Nat /\ n + view[t].length = view[t].start
      BY <1>1, <2>1
    <3>2. Draw(t, [view[t] EXCEPT !.start = n])
      BY <1>4, <2>1 DEF PreviousPage
    <3> HIDE DEF n
    <3> QED
      BY <1>2, <3>1, <3>2 DEF Paged
  <2>2. CASE ~(view[t].start > view[t].length)
    <3>1. Draw(t, [view[t] EXCEPT !.start = 0])
      BY <1>4, <2>2 DEF PreviousPage
    <3> QED
      BY <1>2, <3>1 DEF Paged
  <2> QED
    BY <2>1, <2>2
<1>5. ASSUME NEW term \in Terms, Search(t, term)
      PROVE  Restarted(t) /\ localStorage' \in {localStorage, view'[t]} /\ UNCHANGED <<rows, at>>
  <2> DEFINE v == [view[t] EXCEPT !.start = 0, !.search = term]
  <2>1. v \in Views /\ v.start = 0
    BY <1>1 DEF Views
  <2> QED
    BY <1>2, <1>5, <2>1 DEF Search, Restarted
<1>6. ASSUME NEW order \in Orders, Order(t, order)
      PROVE  Restarted(t) /\ localStorage' \in {localStorage, view'[t]} /\ UNCHANGED <<rows, at>>
  <2> DEFINE v == [view[t] EXCEPT !.start = 0, !.order = order]
  <2>1. v \in Views /\ v.start = 0
    BY <1>1 DEF Views
  <2> QED
    BY <1>2, <1>6, <2>1 DEF Order, Restarted
<1>7. ASSUME NEW n \in Lengths, PageLength(t, n)
      PROVE  Restarted(t) /\ localStorage' \in {localStorage, view'[t]} /\ UNCHANGED <<rows, at>>
  <2> DEFINE v == [view[t] EXCEPT !.start = 0, !.length = n]
  <2>1. v \in Views /\ v.start = 0
    BY <1>1 DEF Views
  <2> QED
    BY <1>2, <1>7, <2>1 DEF PageLength, Restarted
<1>8. NextPage(t) \/ PreviousPage(t)
        => localStorage' \in {localStorage, view'[t]} /\ UNCHANGED <<rows, at>>
  BY <1>2 DEF NextPage, PreviousPage
<1> QED
  BY <1>3, <1>4, <1>5, <1>6, <1>7, <1>8

\* The steps that draw no table.
LEMMA OtherSteps ==
  ASSUME TypeOK,
         \/ \E t \in Tabs :
              \/ Open(t) \/ GetActiveDevices(t) \/ HandleForm(t)
              \/ \E k \in Keys : RenderRow(t, k)
              \/ \E k \in Keys, s \in Status : Press(t, k, s)
         \/ \E k \in AlertKeys : AlertPut(k)
         \/ Expire \/ Restart \/ UNCHANGED vars
  PROVE  /\ view' = view /\ localStorage' \in {localStorage, Nothing}
         /\ \A t \in Tabs : at'[t] = "showing" => at[t] = "showing" /\ rows'[t] = rows[t]
<1> USE DEF TypeOK, Goto, history
<1>1. ASSUME NEW t \in Tabs, Open(t) \/ GetActiveDevices(t) \/ HandleForm(t)
      PROVE  /\ view' = view /\ localStorage' = localStorage
             /\ \A u \in Tabs : at'[u] = "showing" => at[u] = "showing" /\ rows'[u] = rows[u]
  BY <1>1 DEF Open, GetActiveDevices, HandleForm
<1>2. ASSUME NEW t \in Tabs, NEW k \in Keys, RenderRow(t, k)
      PROVE  /\ view' = view /\ localStorage' = localStorage
             /\ \A u \in Tabs : at'[u] = "showing" => at[u] = "showing" /\ rows'[u] = rows[u]
  <2>1. at[t] = "rendering" /\ UNCHANGED <<at, view, localStorage>>
    BY <1>2 DEF RenderRow
  <2>2. \A u \in Tabs \ {t} : rows'[u] = rows[u]
    BY <1>2 DEF RenderRow
  <2> QED
    BY <2>1, <2>2
<1>3. ASSUME NEW t \in Tabs, NEW k \in Keys, NEW s \in Status, Press(t, k, s)
      PROVE  /\ view' = view /\ localStorage' = localStorage
             /\ \A u \in Tabs : at'[u] = "showing" => at[u] = "showing" /\ rows'[u] = rows[u]
  BY <1>3 DEF Press
<1>4. CASE \E k \in AlertKeys : AlertPut(k)
  BY <1>4 DEF AlertPut
<1>5. CASE Expire \/ Restart
  BY <1>5 DEF Expire, Restart
<1>6. CASE UNCHANGED vars
  BY <1>6 DEF vars
<1> QED
  BY <1>1, <1>2, <1>3, <1>4, <1>5, <1>6

-----------------------------------------------------------------------------
(* The page that is shown. *)

LEMMA FoundIsFinite ==
  ASSUME NEW S \in UNION {[K -> Status \cup {Pending}] : K \in SUBSET Keys}, NEW term
  PROVE  /\ Cardinality(Found(S, term)) \in Nat
         /\ Found(S, term) # {} => Cardinality(Found(S, term)) > 0
<1>1. IsFiniteSet(Keys)
  BY KeysAssumption, FS_Union DEF Keys
<1>2. Found(S, term) \subseteq Keys
  BY DEF Found
<1>3. IsFiniteSet(Found(S, term))
  BY <1>1, <1>2, FS_Subset
<1> QED
  BY <1>3, FS_CardinalityType, FS_EmptySet

\* Loading the page: the saved first row is kept only if there is such a row.
LEMMA RestoreFits ==
  ASSUME TypeOK, TypeOK', NEW t \in Tabs, Ready(t)
  PROVE  /\ view' = [view EXCEPT ![t] = view'[t]] /\ rows' = rows
         /\ localStorage' = view'[t]
         /\ view'[t].start # 0 => view'[t] = localStorage /\ localStorage # Nothing
         /\ view'[t].start # 0 => view'[t].start < Cardinality(Listed(t)')
<1>1. /\ view' = [view EXCEPT ![t] = Restore(rows[t])] /\ rows' = rows
      /\ localStorage' = Saved(view'[t])
  BY DEF Ready
<1>2. view'[t] = Restore(rows[t]) /\ localStorage' = view'[t]
  BY <1>1, FirstViewType DEF TypeOK, Saved
<1>3. CASE localStorage = Nothing
  BY <1>1, <1>2, <1>3, FirstViewType DEF Restore
<1>4. CASE localStorage # Nothing
  <2> DEFINE found == Cardinality(Found(rows[t], localStorage.search))
  <2>1. localStorage \in Views
    BY <1>4 DEF TypeOK
  <2>2. view'[t] = [localStorage EXCEPT !.start = IF @ >= found THEN 0 ELSE @]
    BY <1>2, <1>4 DEF Restore
  <2>3. view'[t].search = localStorage.search
    BY <2>1, <2>2 DEF Views
  <2>4. Cardinality(Listed(t)') = found
    BY <1>1, <2>3 DEF Listed
  <2>5. found \in Nat
    BY FoundIsFinite DEF TypeOK
  <2> HIDE DEF found
  <2>6. CASE localStorage.start >= found
    <3>1. view'[t].start = 0
      BY <2>1, <2>2, <2>6 DEF Views
    <3> QED
      BY <1>1, <1>2, <3>1
  <2>7. CASE ~(localStorage.start >= found)
    <3>1. view'[t] = localStorage
      <4>1. view'[t] = [localStorage EXCEPT !.start = localStorage.start]
        BY <2>2, <2>7
      <4>2. \A v \in Views : [v EXCEPT !.start = v.start] = v
        BY DEF Views
      <4> QED
        BY <2>1, <4>1, <4>2
    <3>2. localStorage.start < found
      BY <2>1, <2>5, <2>7, ViewShape
    <3> QED
      BY <1>1, <1>2, <1>4, <2>4, <3>1, <3>2
  <2> QED
    BY <2>6, <2>7
<1> QED
  BY <1>3, <1>4

LEMMA StepShowsRows == TypeOK /\ TypeOK' /\ NoEmptyPage /\ [Next]_vars => NoEmptyPage'
<1> SUFFICES ASSUME TypeOK, TypeOK', NoEmptyPage, [Next]_vars,
                    NEW u \in Tabs, at'[u] = "showing", Listed(u)' # {}
             PROVE  view'[u].start < Cardinality(Listed(u)')
  BY DEF NoEmptyPage
<1>0. Cardinality(Listed(u)') \in Nat /\ Cardinality(Listed(u)') > 0
  BY FoundIsFinite DEF Listed, TypeOK
<1>1. ASSUME view' = view, at[u] = "showing", rows'[u] = rows[u]
      PROVE  view'[u].start < Cardinality(Listed(u)')
  <2>1. Listed(u)' = Listed(u)
    BY <1>1 DEF Listed
  <2> QED
    BY <1>1, <2>1 DEF NoEmptyPage
<1>2. ASSUME NEW t \in Tabs, Paged(t) \/ Restarted(t), UNCHANGED <<rows, at>>
      PROVE  view'[u].start < Cardinality(Listed(u)')
  <2>1. CASE u # t
    <3>1. view'[u] = view[u]
      BY <1>2, <2>1 DEF Paged, Restarted, TypeOK
    <3>2. Listed(u)' = Listed(u)
      BY <1>2, <3>1 DEF Listed
    <3> QED
      BY <1>2, <3>1, <3>2 DEF NoEmptyPage
  <2>2. CASE u = t /\ Restarted(t)
    BY <1>0, <2>2 DEF Restarted, TypeOK
  <2>3. CASE u = t /\ Paged(t)
    <3>1. PICK n \in Nat :
            /\ view' = [view EXCEPT ![t] = [view[t] EXCEPT !.start = n]]
            /\ \/ n = view[t].start + view[t].length /\ n < Cardinality(Listed(t))
               \/ n + view[t].length = view[t].start
               \/ n = 0
      BY <2>3 DEF Paged
    <3>2. view[u] \in Views /\ view[u].start \in Nat /\ view[u].length \in Nat \ {0}
      BY ViewShape DEF TypeOK
    <3>3. view'[u].search = view[u].search /\ view'[u].start = n
      BY <2>3, <3>1, <3>2 DEF TypeOK, Views
    <3>4. Listed(u)' = Listed(u)
      BY <1>2, <3>3 DEF Listed
    <3>5. view[u].start < Cardinality(Listed(u))
      BY <1>2, <3>4 DEF NoEmptyPage
    <3> QED
      BY <1>0, <2>3, <3>1, <3>2, <3>3, <3>4, <3>5
  <2> QED
    BY <1>2, <2>1, <2>2, <2>3
<1>3. ASSUME NEW t \in Tabs, Ready(t)
      PROVE  view'[u].start < Cardinality(Listed(u)')
  <2>1. CASE u = t
    BY <1>0, <1>3, <2>1, RestoreFits
  <2>2. CASE u # t
    <3>1. view'[u] = view[u] /\ rows' = rows /\ at'[u] = at[u]
      BY <1>3, <2>2 DEF Ready, Goto, TypeOK
    <3>2. Listed(u)' = Listed(u)
      BY <3>1 DEF Listed
    <3> QED
      BY <3>1, <3>2 DEF NoEmptyPage
  <2> QED
    BY <2>1, <2>2
<1>4. CASE \/ \E t \in Tabs :
                \/ Open(t) \/ GetActiveDevices(t) \/ HandleForm(t)
                \/ \E k \in Keys : RenderRow(t, k)
                \/ \E k \in Keys, s \in Status : Press(t, k, s)
           \/ \E k \in AlertKeys : AlertPut(k)
           \/ Expire \/ Restart \/ UNCHANGED vars
  BY <1>1, <1>4, OtherSteps
<1>5. ASSUME NEW t \in Tabs,
             \/ NextPage(t) \/ PreviousPage(t)
             \/ \E term \in Terms : Search(t, term)
             \/ \E order \in Orders : Order(t, order)
             \/ \E n \in Lengths : PageLength(t, n)
      PROVE  view'[u].start < Cardinality(Listed(u)')
  BY <1>2, <1>5, DrawnViews
<1> QED
  BY <1>3, <1>4, <1>5 DEF Next

\* Whatever a tab does, and whatever the others save meanwhile, it shows no empty page of
\* a list that has rows.
THEOREM PagesHaveRows == Spec => []NoEmptyPage
<1>1. Init => NoEmptyPage
  BY DEF Init, NoEmptyPage
<1> QED
  BY <1>1, TypeCorrect, StepShowsRows, PTL DEF Spec

-----------------------------------------------------------------------------
(* Where a page starts.  The saved state has to be aligned too, for a tab that loads it. *)

SavedAligned == localStorage # Nothing => Aligned(localStorage)

\* A first row of 0 is aligned, and so is one a whole page from an aligned one.
LEMMA AlignedStarts ==
  ASSUME NEW v \in Views
  PROVE  /\ v.start = 0 => Aligned(v)
         /\ \A w \in Views :
              /\ Aligned(v) /\ w.length = v.length
              /\ w.start = v.start + v.length \/ w.start + v.length = v.start
              => Aligned(w)
<1>1. v.start \in Nat /\ v.length \in Nat \ {0}
  BY ViewShape
<1>2. ASSUME v.start = 0
      PROVE  Aligned(v)
  BY <1>1, <1>2 DEF Aligned
<1>3. ASSUME NEW w \in Views, Aligned(v), w.length = v.length, w.start = v.start + v.length
      PROVE  Aligned(w)
  <2>1. PICK page \in 0..v.start : v.start = page * v.length
    BY <1>3 DEF Aligned
  <2>2. (page + 1) * v.length = page * v.length + v.length
    BY <1>1, <2>1
  <2>3. page + 1 \in 0..w.start
    BY <1>1, <1>3, <2>1
  <2> QED
    BY <1>3, <2>1, <2>2, <2>3 DEF Aligned
<1>4. ASSUME NEW w \in Views, Aligned(v), w.length = v.length, w.start + v.length = v.start
      PROVE  Aligned(w)
  <2>1. PICK page \in 0..v.start : v.start = page * v.length
    BY <1>4 DEF Aligned
  <2>2. w.start \in Nat
    BY ViewShape
  <2>3. page # 0
    BY <1>1, <1>4, <2>1, <2>2
  <2>4. (page - 1) * v.length = page * v.length - v.length
    <3>1. \A p, n \in Nat : (p - 1) * n = p * n - n
      OBVIOUS
    <3> QED
      BY <1>1, <2>1, <3>1
  <2>5. w.start = (page - 1) * v.length
    BY <1>1, <1>4, <2>1, <2>2, <2>4
  <2>6. page - 1 \in Nat
    BY <1>1, <2>1, <2>3
  <2>7. page - 1 <= (page - 1) * v.length
    BY <1>1, <2>6
  <2>8. page - 1 \in 0..w.start
    BY <2>2, <2>5, <2>6, <2>7
  <2> QED
    BY <1>4, <2>5, <2>8 DEF Aligned
<1> QED
  BY <1>2, <1>3, <1>4

LEMMA StepAligned ==
  TypeOK /\ TypeOK' /\ PagesAligned /\ SavedAligned /\ [Next]_vars
    => PagesAligned' /\ SavedAligned'
<1> SUFFICES ASSUME TypeOK, TypeOK', PagesAligned, SavedAligned, [Next]_vars
             PROVE  PagesAligned' /\ SavedAligned'
  OBVIOUS
<1>1. ASSUME NEW t \in Tabs, NEW v \in Views, Aligned(v), view' = [view EXCEPT ![t] = v],
             localStorage' \in {localStorage, view'[t]}
      PROVE  PagesAligned' /\ SavedAligned'
  <2>1. view'[t] = v /\ \A u \in Tabs \ {t} : view'[u] = view[u]
    BY <1>1 DEF TypeOK
  <2>2. \A u \in Tabs : Aligned(view'[u])
    BY <1>1, <2>1 DEF PagesAligned
  <2>3. PagesAligned'
    BY <2>2 DEF PagesAligned, Aligned
  <2>4. localStorage' # Nothing => Aligned(localStorage')
    BY <1>1, <2>1 DEF SavedAligned
  <2>5. SavedAligned'
    BY <2>4 DEF SavedAligned, Aligned
  <2> QED
    BY <2>3, <2>5
<1>2. ASSUME NEW t \in Tabs,
             \/ NextPage(t) \/ PreviousPage(t)
             \/ \E term \in Terms : Search(t, term)
             \/ \E order \in Orders : Order(t, order)
             \/ \E n \in Lengths : PageLength(t, n)
      PROVE  PagesAligned' /\ SavedAligned'
  <2>1. Paged(t) \/ Restarted(t)
    BY <1>2, DrawnViews
  <2>2. localStorage' \in {localStorage, view'[t]}
    BY <1>2, DrawnViews
  <2>3. CASE Restarted(t)
    <3>1. PICK v \in Views : v.start = 0 /\ view' = [view EXCEPT ![t] = v]
      BY <2>3 DEF Restarted
    <3> QED
      BY <1>1, <2>2, <3>1, AlignedStarts
  <2>4. CASE Paged(t)
    <3>1. PICK n \in Nat :
            /\ view' = [view EXCEPT ![t] = [view[t] EXCEPT !.start = n]]
            /\ \/ n = view[t].start + view[t].length
               \/ n + view[t].length = view[t].start
               \/ n = 0
      BY <2>4 DEF Paged
    <3> DEFINE v == [view[t] EXCEPT !.start = n]
    <3>2. view[t] \in Views /\ v \in Views
      BY ViewShape DEF TypeOK
    <3>3. v.start = n /\ v.length = view[t].length
      BY <3>2 DEF Views
    <3>4. Aligned(view[t])
      BY DEF PagesAligned
    <3>5. view' = [view EXCEPT ![t] = v]
      BY <3>1
    <3> HIDE DEF v
    <3>6. Aligned(v)
      BY <3>1, <3>2, <3>3, <3>4, AlignedStarts
    <3> QED
      BY <1>1, <2>2, <3>2, <3>5, <3>6
  <2> QED
    BY <2>1, <2>3, <2>4
<1>3. ASSUME NEW t \in Tabs, Ready(t)
      PROVE  PagesAligned' /\ SavedAligned'
  <2>1. /\ view' = [view EXCEPT ![t] = view'[t]] /\ localStorage' = view'[t]
        /\ view'[t].start # 0 => view'[t] = localStorage /\ localStorage # Nothing
    BY <1>3, RestoreFits
  <2>2. view'[t] \in Views
    BY DEF TypeOK
  <2> DEFINE v == view'[t]
  <2>3. Aligned(v)
    BY <2>1, <2>2, AlignedStarts DEF SavedAligned
  <2>4. v \in Views /\ view' = [view EXCEPT ![t] = v] /\ localStorage' \in {localStorage, view'[t]}
    BY <2>1, <2>2
  <2> HIDE DEF v
  <2> QED
    BY <1>1, <2>3, <2>4
<1>4. CASE \/ \E t \in Tabs :
                \/ Open(t) \/ GetActiveDevices(t) \/ HandleForm(t)
                \/ \E k \in Keys : RenderRow(t, k)
                \/ \E k \in Keys, s \in Status : Press(t, k, s)
           \/ \E k \in AlertKeys : AlertPut(k)
           \/ Expire \/ Restart \/ UNCHANGED vars
  <2>1. view' = view /\ localStorage' \in {localStorage, Nothing}
    BY <1>4, OtherSteps
  <2>2. localStorage' # Nothing => Aligned(localStorage')
    BY <2>1 DEF SavedAligned
  <2> QED
    BY <2>1, <2>2 DEF PagesAligned, SavedAligned, Aligned
<1> QED
  BY <1>2, <1>3, <1>4 DEF Next

\* The first row shown is the first of a page of the length in effect, in every tab.
THEOREM PagesStartRight == Spec => []PagesAligned
<1>1. Init => PagesAligned /\ SavedAligned
  BY FirstViewType, AlignedStarts DEF Init, PagesAligned, SavedAligned
<1> QED
  BY <1>1, TypeCorrect, StepAligned, PTL DEF Spec

-----------------------------------------------------------------------------
(* What a press leads to. *)

\* Once handled and as long as nobody undoes it, a press is what the map says, and what the
\* page says of it as far as it is rendered.
Effective(t) ==
  at[t] # "pressed" /\ form[t] # NoForm =>
    /\ activeDevicesMap[form[t].key] = form[t].status
    /\ at[t] \in {"rendering", "showing"} => form[t].key \in DOMAIN rows[t]
    /\ at[t] = "rendering" => rows[t][form[t].key] \in {Pending, form[t].status}
    /\ at[t] = "showing" => rows[t][form[t].key] = form[t].status

PressesHold == \A t \in Tabs : Effective(t)

\* A put, by whomever, leaves no other tab with a form it undoes.
LEMMA PutUndoes ==
  ASSUME TypeOK, PressesHold, NEW k \in Keys, NEW s \in Status, Put(k, s, form),
         NEW u \in Tabs, at[u] # "pressed"
  PROVE  form'[u] # NoForm =>
           form'[u] = form[u] /\ activeDevicesMap'[form[u].key] = form[u].status
<1> SUFFICES ASSUME form'[u] # NoForm
             PROVE  form'[u] = form[u] /\ activeDevicesMap'[form[u].key] = form[u].status
  OBVIOUS
<1>1. u \notin Undone(k, s) /\ form'[u] = form[u]
  BY DEF Put
<1>2. form[u].key = k => form[u].status = s
  BY <1>1 DEF Undone
<1>3. activeDevicesMap[form[u].key] = form[u].status
  BY <1>1 DEF PressesHold, Effective
<1>4. form[u] \in [key : Keys, status : Status]
  BY <1>1 DEF TypeOK
<1> QED
  BY <1>1, <1>2, <1>3, <1>4 DEF Put, TypeOK

LEMMA StepPresses == TypeOK /\ TypeOK' /\ PressesHold /\ [Next]_vars => PressesHold'
<1> SUFFICES ASSUME TypeOK, TypeOK', PressesHold, [Next]_vars, NEW u \in Tabs
             PROVE  Effective(u)'
  BY DEF PressesHold
<1> USE DEF history
<1>0. Effective(u)
  BY DEF PressesHold
<1>1. ASSUME UNCHANGED <<activeDevicesMap, form>>, at'[u] = at[u], rows'[u] = rows[u]
      PROVE  Effective(u)'
  BY <1>0, <1>1 DEF Effective
<1>2. ASSUME NEW t \in Tabs,
             Open(t) \/ \E k \in Keys, s \in Status : Press(t, k, s)
      PROVE  Effective(u)'
  BY <1>0, <1>2 DEF Open, Press, Goto, Effective, TypeOK
<1>3. ASSUME NEW t \in Tabs, GetActiveDevices(t)
      PROVE  Effective(u)'
  <2>1. CASE u # t
    BY <1>1, <1>3, <2>1 DEF GetActiveDevices, Goto, TypeOK
  <2>2. CASE u = t
    <3>1. /\ at'[u] = "rendering" /\ at[u] = "requested" /\ form' = form
          /\ rows'[u] = [k \in Mapped |-> Pending] /\ activeDevicesMap' = activeDevicesMap
      BY <1>3, <2>2 DEF GetActiveDevices, Goto, TypeOK
    <3>2. form[u] # NoForm => form[u].key \in Mapped
      BY <1>0, <3>1 DEF Effective, Mapped, TypeOK, Null, Status
    <3> QED
      BY <1>0, <3>1, <3>2 DEF Effective
  <2> QED
    BY <2>1, <2>2
<1>4. ASSUME NEW t \in Tabs, NEW k \in Keys, RenderRow(t, k)
      PROVE  Effective(u)'
  <2>1. UNCHANGED <<activeDevicesMap, at, form>>
    BY <1>4 DEF RenderRow
  <2>2. CASE u # t
    <3>1. rows'[u] = rows[u]
      BY <1>4, <2>2 DEF RenderRow, TypeOK
    <3> QED
      BY <1>1, <2>1, <3>1
  <2>3. CASE u = t
    <3>1. at[u] = "rendering"
      BY <1>4, <2>3 DEF RenderRow
    <3>2. rows'[u] = [r \in DOMAIN rows[u] \cup {k} |->
                        IF r = k THEN activeDevicesMap[k] ELSE rows[u][r]]
      BY <1>4, <2>3 DEF RenderRow, TypeOK
    <3> QED
      BY <1>0, <2>1, <3>1, <3>2 DEF Effective
  <2> QED
    BY <2>2, <2>3
<1>5. ASSUME NEW t \in Tabs, Ready(t)
      PROVE  Effective(u)'
  BY <1>0, <1>5 DEF Ready, Goto, Effective, TypeOK
<1>6. ASSUME NEW t \in Tabs, HandleForm(t)
      PROVE  Effective(u)'
  <2> DEFINE k == form[t].key
             s == form[t].status
  <2>1. k \in Keys /\ s \in Status /\ at[t] = "pressed"
    BY <1>6 DEF HandleForm, TypeOK
  <2>2. at'[t] = "requested" /\ rows' = rows /\ \A v \in Tabs \ {t} : at'[v] = at[v]
    BY <1>6 DEF HandleForm, Goto, TypeOK
  <2>3. CASE activeDevicesMap[k] # Null /\ Put(k, s, form)
    <3>1. CASE u = t
      <4>1. form'[u] = form[u]
        BY <2>1, <2>3, <3>1 DEF Put, Undone
      <4>2. activeDevicesMap'[k] = s
        BY <2>1, <2>3 DEF Put, TypeOK
      <4> QED
        BY <2>2, <3>1, <4>1, <4>2 DEF Effective
    <3>2. CASE u # t
      BY <1>0, <2>1, <2>2, <2>3, <3>2, PutUndoes DEF Effective
    <3> QED
      BY <3>1, <3>2
  <2>4. CASE activeDevicesMap' = activeDevicesMap /\ form' = [form EXCEPT ![t] = NoForm]
    BY <1>0, <2>2, <2>4 DEF Effective, TypeOK
  <2> QED
    BY <1>6, <2>3, <2>4 DEF HandleForm
<1>7. ASSUME NEW k \in AlertKeys, AlertPut(k)
      PROVE  Effective(u)'
  <2>1. k \in Keys /\ "INACTIVE" \in Status
    BY DEF Keys, Status
  <2>2. Put(k, "INACTIVE", form) /\ UNCHANGED <<at, rows>>
    BY <1>7 DEF AlertPut
  <2> QED
    BY <1>0, <2>1, <2>2, PutUndoes DEF Effective
<1>8. CASE Restart
  BY <1>8 DEF Restart, Effective
<1>9. ASSUME NEW t \in Tabs,
             \/ NextPage(t) \/ PreviousPage(t)
             \/ \E term \in Terms : Search(t, term)
             \/ \E order \in Orders : Order(t, order)
             \/ \E n \in Lengths : PageLength(t, n)
      PROVE  Effective(u)'
  BY <1>1, <1>9 DEF NextPage, PreviousPage, Search, Order, PageLength, Draw
<1>10. CASE Expire \/ UNCHANGED vars
  BY <1>1, <1>10 DEF Expire, vars
<1> QED
  BY <1>2, <1>3, <1>4, <1>5, <1>6, <1>7, <1>8, <1>9, <1>10 DEF Next

\* After a press the page shows what was pressed, unless somebody else undid it.
THEOREM PressIsShown == Spec => []OwnPressIsShown
<1>1. Init => PressesHold
  BY DEF Init, PressesHold, Effective
<1>2. PressesHold => OwnPressIsShown
  BY DEF PressesHold, Effective, OwnPressIsShown
<1> QED
  BY <1>1, <1>2, TypeCorrect, StepPresses, PTL DEF Spec

-----------------------------------------------------------------------------
(* What an operator chose. *)

Kept(v) == /\ v.search = choice.search /\ v.order = choice.order
           /\ v.length = choice.length /\ v.start \in {0, choice.start}

\* The saved state is the choice, up to the page, and so are the views that come from it.
ChoiceInv ==
  choice # Nothing => /\ localStorage # Nothing /\ Kept(localStorage)
                      /\ \A t \in sharing : Kept(view[t])

LEMMA StepChoice == TypeOK /\ TypeOK' /\ ChoiceInv /\ [Next]_vars => ChoiceInv'
<1> SUFFICES ASSUME TypeOK, TypeOK', ChoiceInv, [Next]_vars PROVE ChoiceInv'
  OBVIOUS
<1> USE DEF history
<1>1. ASSUME NEW t \in Tabs, NEW v, Draw(t, v)
      PROVE  ChoiceInv'
  <2>1. view'[t] = v /\ localStorage' = v /\ choice' = v /\ sharing' = {t}
    BY <1>1, FirstViewType DEF Draw, Saved, TypeOK
  <2>2. v # Nothing
    BY <2>1, ViewShape DEF TypeOK
  <2> QED
    BY <2>1, <2>2 DEF ChoiceInv, Kept
<1>2. ASSUME NEW t \in Tabs, Ready(t), choice # Nothing
      PROVE  ChoiceInv'
  <2>1. /\ view' = [view EXCEPT ![t] = Restore(rows[t])] /\ localStorage' = Saved(view'[t])
        /\ choice' = choice /\ sharing' = sharing \cup {t}
    BY <1>2 DEF Ready
  <2>2. view'[t] = Restore(rows[t]) /\ \A u \in Tabs \ {t} : view'[u] = view[u]
    BY <2>1 DEF TypeOK
  <2>3. localStorage' = view'[t]
    BY <2>1, FirstViewType DEF Saved
  <2>4. localStorage \in Views /\ Kept(localStorage)
    BY <1>2 DEF ChoiceInv, TypeOK
  <2>5. Kept(Restore(rows[t]))
    BY <2>4, ViewShape DEF Restore, Kept, Views
  <2>6. \A u \in sharing' : Kept(view'[u])
    BY <1>2, <2>1, <2>2, <2>5 DEF ChoiceInv, TypeOK
  <2>7. localStorage' # Nothing
    BY <2>3, ViewShape DEF TypeOK
  <2> QED
    BY <2>1, <2>2, <2>3, <2>5, <2>6, <2>7 DEF ChoiceInv, Kept
<1>3. ASSUME NEW t \in Tabs,
             \/ NextPage(t) \/ PreviousPage(t)
             \/ \E term \in Terms : Search(t, term)
             \/ \E order \in Orders : Order(t, order)
             \/ \E n \in Lengths : PageLength(t, n)
      PROVE  ChoiceInv'
  BY <1>1, <1>3 DEF NextPage, PreviousPage, Search, Order, PageLength
<1>4. ASSUME UNCHANGED <<view, localStorage, choice, sharing>>
      PROVE  ChoiceInv'
  BY <1>4 DEF ChoiceInv, Kept
<1>5. ASSUME NEW t \in Tabs,
             \/ Open(t) \/ GetActiveDevices(t) \/ HandleForm(t)
             \/ \E k \in Keys : RenderRow(t, k)
             \/ \E k \in Keys, s \in Status : Press(t, k, s)
      PROVE  ChoiceInv'
  BY <1>4, <1>5 DEF Open, GetActiveDevices, HandleForm, RenderRow, Press
<1>6. CASE (\E k \in AlertKeys : AlertPut(k)) \/ Restart \/ UNCHANGED vars
  BY <1>4, <1>6 DEF AlertPut, Restart, vars
<1>7. CASE Expire
  BY <1>7 DEF Expire, ChoiceInv
<1>8. ASSUME NEW t \in Tabs, Ready(t), choice = Nothing
      PROVE  ChoiceInv'
  BY <1>8 DEF Ready, ChoiceInv
<1> QED
  BY <1>2, <1>3, <1>5, <1>6, <1>7, <1>8 DEF Next

\* What an operator last chose is what his tab, and every tab loaded since, shows.
THEOREM ChoiceStays == Spec => []ChoiceIsKept
<1>1. Init => ChoiceInv
  BY DEF Init, ChoiceInv
<1>2. ChoiceInv => ChoiceIsKept
  BY DEF ChoiceInv, Kept, ChoiceIsKept
<1> QED
  BY <1>1, <1>2, TypeCorrect, StepChoice, PTL DEF Spec
=============================================================================
