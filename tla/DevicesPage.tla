----------------------------- MODULE DevicesPage -----------------------------
(***************************************************************************)
(* The devices page as operators use it: devices.html, the DataTables      *)
(* table that custom-table.js makes of it, and the Activate and Deactivate *)
(* forms, open in several tabs of one browser at once.                     *)
(*                                                                         *)
(* A tab's rows are a copy of the registry, read entry by entry while the  *)
(* page was rendered.  The list the operator sees of them has a first row, *)
(* a page length, a search term and an order; with stateSave each draw     *)
(* saves these in the browser's local storage, under a key made of the     *)
(* table and the path, so that the page comes back to them after the       *)
(* redirect every form answers with.  All tabs share that entry.           *)
(*                                                                         *)
(*   at = "closed"     no page, or an error page                           *)
(*        "requested"  GET /devices is under way                           *)
(*        "rendering"  the template iterates over the live map             *)
(*        "showing"    the table is drawn                                  *)
(*        "pressed"    the POST of a form is under way                     *)
(***************************************************************************)
EXTENDS Naturals, FiniteSets, Sequences

CONSTANTS
  Tabs,          \* the browser's tabs on the page
  Devices,       \* the keys AppBeans puts in the map
  AlertKeys,     \* the bare sensor ids AlertService may put
  LengthMenu,    \* the page lengths on offer, a sequence
  SimpleLength,  \* pageLength of .table-simple
  InlineLength,  \* pageLength of the page's own script
  Orders,        \* the orders a column header can ask for
  DefaultOrder,  \* by the first column
  MaxMoves,      \* bound on what the operator does
  MaxRestarts    \* bound on restarts of the process

Lengths == {LengthMenu[i] : i \in 1..Len(LengthMenu)}

ASSUME MenuAssumption ==
  /\ LengthMenu \in Seq(Nat \ {0}) /\ Len(LengthMenu) > 0
  /\ SimpleLength \in Lengths /\ InlineLength \in Lengths
ASSUME KeysAssumption ==
  /\ IsFiniteSet(Devices) /\ IsFiniteSet(AlertKeys) /\ Devices \cap AlertKeys = {}
ASSUME OrderAssumption == DefaultOrder \in Orders
ASSUME BoundsAssumption == MaxMoves \in Nat /\ MaxRestarts \in Nat

VARIABLES
  activeDevicesMap,  \* key -> status, or Null
  at,                \* at[t]: what tab t is doing
  rows,              \* rows[t]: the rows of t's page, key -> status, Pending while rendering
  view,              \* view[t]: the list t shows, [start, length, search, order]
  localStorage,      \* the saved state of the table, or Nothing
  form,              \* form[t]: what t's last press asked for, [key, status]; once the press
                     \* has been handled, history: kept until somebody else undoes it
  choice,            \* history: the last view an operator asked for, or Nothing
  sharing,           \* history: the tabs that made or loaded that choice
  moves, restarts    \* counters behind MaxMoves and MaxRestarts

history == <<choice, sharing>>
vars    == <<activeDevicesMap, at, rows, view, localStorage, form, history, moves, restarts>>

Null    == "null"
Pending == "pending"
Nothing == [saved |-> FALSE]
NoForm  == [key |-> Null, status |-> Null]
Status  == {"ACTIVE", "INACTIVE"}
Keys    == Devices \cup AlertKeys

InitialMap == [k \in Keys |-> IF k \in Devices THEN "ACTIVE" ELSE Null]
Mapped     == {k \in Keys : activeDevicesMap[k] # Null}

-----------------------------------------------------------------------------
(* The options of the table.  Three initialisers run when the document is    *)
(* ready, in the order of the scripts.  DataTables initialises a table once: *)
(* a second attempt only raises a warning, and its options are dropped.      *)

\* Mutated form: the state of the table is not saved.
DetailedOptions_Forgetful ==
  [selector |-> ".table-detailed", length |-> Head(LengthMenu), stateSave |-> FALSE]

\* lengthMenu without a pageLength: the table starts with the first length of the menu.
DetailedOptions ==
  [selector |-> ".table-detailed", length |-> Head(LengthMenu), stateSave |-> TRUE]
SimpleOptions ==
  [selector |-> ".table-simple", length |-> SimpleLength, stateSave |-> TRUE]
InlineOptions ==
  [selector |-> "#devices", length |-> InlineLength, stateSave |-> TRUE]

Initialisers == <<DetailedOptions, SimpleOptions, InlineOptions>>
DevicesTable == {"#devices", ".table", ".table-detailed"}   \* id and classes of the table

\* The options in effect: those of the first initialiser that selects the table.
Options ==
  LET Selects(i) == Initialisers[i].selector \in DevicesTable
  IN  Initialisers[CHOOSE i \in 1..3 : Selects(i) /\ \A j \in 1..(i - 1) : ~Selects(j)]

\* What a search for a status finds: "INACTIVE" contains "ACTIVE", so that a search for
\* "ACTIVE" finds every row.
Terms == {"", "ACTIVE", "INACTIVE"}
Matches(status, term) == term = "INACTIVE" => status = "INACTIVE"

Found(S, term) == {k \in DOMAIN S : Matches(S[k], term)}

\* The rows the list is made of, however many pages it has.  Which of them the order
\* puts on the page is left open.
Listed(t) == Found(rows[t], view[t].search)

FirstView == [saved |-> TRUE, start |-> 0, length |-> Options.length, search |-> "",
              order |-> DefaultOrder]

Init ==
  /\ activeDevicesMap = InitialMap
  /\ at = [t \in Tabs |-> "closed"]
  /\ rows = [t \in Tabs |-> [k \in {} |-> Null]]
  /\ view = [t \in Tabs |-> FirstView]
  /\ localStorage = Nothing
  /\ form = [t \in Tabs |-> NoForm]
  /\ choice = Nothing /\ sharing = {}
  /\ moves = 0 /\ restarts = 0

Move == moves < MaxMoves /\ moves' = moves + 1
Goto(t, place) == at' = [at EXCEPT ![t] = place]

-----------------------------------------------------------------------------
(* GET /devices: the template iterates over the map, then the scripts run.   *)

\* The operator opens the page, or reloads it.
Open(t) ==
  /\ Move
  /\ at[t] \in {"closed", "showing"}
  /\ Goto(t, "requested")
  /\ UNCHANGED <<activeDevicesMap, rows, view, localStorage, form, history, restarts>>

\* The iteration starts: what is mapped now will be visited.
GetActiveDevices(t) ==
  /\ at[t] = "requested"
  /\ rows' = [rows EXCEPT ![t] = [k \in Mapped |-> Pending]]
  /\ Goto(t, "rendering")
  /\ UNCHANGED <<activeDevicesMap, view, localStorage, form, history, moves, restarts>>

\* Mutated form: the template goes through the known ids and looks each of them up.
RenderRow_AnyKey(t, k) ==
  /\ at[t] = "rendering"
  /\ k \in DOMAIN rows[t] => rows[t][k] = Pending
  /\ rows' = [rows EXCEPT ![t] = [r \in DOMAIN @ \cup {k} |->
                                    IF r = k THEN activeDevicesMap[k] ELSE @[r]]]
  /\ UNCHANGED <<activeDevicesMap, at, view, localStorage, form, history, moves, restarts>>

\* One entry becomes a row; one that was put meanwhile may become a row too.
RenderRow(t, k) ==
  /\ at[t] = "rendering"
  /\ k \in Mapped
  /\ k \in DOMAIN rows[t] => rows[t][k] = Pending
  /\ rows' = [rows EXCEPT ![t] = [r \in DOMAIN @ \cup {k} |->
                                    IF r = k THEN activeDevicesMap[k] ELSE @[r]]]
  /\ UNCHANGED <<activeDevicesMap, at, view, localStorage, form, history, moves, restarts>>

\* A draw saves the state of the table.
Saved(v) == IF Options.stateSave THEN v ELSE localStorage

\* Mutated form: the saved first row is taken as it is.
Restore_Unchecked(S) == IF localStorage = Nothing THEN FirstView ELSE localStorage

\* The saved state, from the first page if the saved page is beyond the rows found.
Restore(S) ==
  IF localStorage = Nothing THEN FirstView
  ELSE LET found == Cardinality(Found(S, localStorage.search))
       IN  [localStorage EXCEPT !.start = IF @ >= found THEN 0 ELSE @]

\* The document is ready: the table is initialised, restored and drawn.
Ready(t) ==
  /\ at[t] = "rendering"
  /\ \A k \in DOMAIN rows[t] : rows[t][k] # Pending
  /\ view' = [view EXCEPT ![t] = Restore(rows[t])]
  /\ localStorage' = Saved(view'[t])
  /\ sharing' = sharing \cup {t}
  /\ Goto(t, "showing")
  /\ UNCHANGED <<activeDevicesMap, rows, form, choice, moves, restarts>>

-----------------------------------------------------------------------------
(* The operator and the list.  Everything but paging goes back to its start. *)

Draw(t, v) ==
  /\ Move
  /\ at[t] = "showing"
  /\ view' = [view EXCEPT ![t] = v]
  /\ localStorage' = Saved(v)
  /\ choice' = v
  /\ sharing' = {t}
  /\ UNCHANGED <<activeDevicesMap, at, rows, form, restarts>>

Search(t, term) == Draw(t, [view[t] EXCEPT !.start = 0, !.search = term])
Order(t, order) == Draw(t, [view[t] EXCEPT !.start = 0, !.order = order])

\* Mutated form: another page length leaves the first row where it is.
PageLength_KeepsStart(t, n) == Draw(t, [view[t] EXCEPT !.length = n])

\* The pageLength button.
PageLength(t, n) == Draw(t, [view[t] EXCEPT !.start = 0, !.length = n])

NextPage(t) ==
  /\ view[t].start + view[t].length < Cardinality(Listed(t))
  /\ Draw(t, [view[t] EXCEPT !.start = @ + view[t].length])

PreviousPage(t) ==
  /\ view[t].start > 0
  /\ Draw(t, [view[t] EXCEPT !.start = IF @ > view[t].length THEN @ - view[t].length ELSE 0])

\* A saved state is dropped two hours after the last draw.
Expire ==
  /\ localStorage # Nothing
  /\ localStorage' = Nothing
  /\ choice' = Nothing /\ sharing' = {}
  /\ UNCHANGED <<activeDevicesMap, at, rows, view, form, moves, restarts>>

-----------------------------------------------------------------------------
(* The forms, and the other writers of the map. *)

\* A button of a listed row, as old as the row may be.
Press(t, k, s) ==
  /\ Move
  /\ at[t] = "showing" /\ k \in Listed(t)
  /\ form' = [form EXCEPT ![t] = [key |-> k, status |-> s]]
  /\ Goto(t, "pressed")
  /\ UNCHANGED <<activeDevicesMap, rows, view, localStorage, history, restarts>>

\* The forms whose effect on k is undone when somebody else gives it status s.
Undone(k, s) == {t \in Tabs : /\ at[t] # "pressed"
                              /\ form[t].key = k /\ form[t].status # s}

Put(k, s, forms) ==
  /\ activeDevicesMap' = [activeDevicesMap EXCEPT ![k] = s]
  /\ form' = [t \in Tabs |-> IF t \in Undone(k, s) THEN NoForm ELSE forms[t]]

\* Mutated form: both forms activate.
HandleForm_Activates(t) ==
  LET k == form[t].key IN
  /\ at[t] = "pressed"
  /\ \/ activeDevicesMap[k] # Null /\ Put(k, "ACTIVE", form)
     \/ /\ activeDevicesMap[k] = Null
        /\ form' = [form EXCEPT ![t] = NoForm]
        /\ UNCHANGED activeDevicesMap
  /\ Goto(t, "requested")
  /\ UNCHANGED <<rows, view, localStorage, history, moves, restarts>>

\* activateDevice and deactivateDevice: the put, if the device exists, then the redirect.
\* One step, by the refinement of DeviceRegistry.
HandleForm(t) ==
  LET k == form[t].key IN
  /\ at[t] = "pressed"
  /\ \/ activeDevicesMap[k] # Null /\ Put(k, form[t].status, form)
     \/ /\ activeDevicesMap[k] = Null
        /\ form' = [form EXCEPT ![t] = NoForm]
        /\ UNCHANGED activeDevicesMap
  /\ Goto(t, "requested")
  /\ UNCHANGED <<rows, view, localStorage, history, moves, restarts>>

\* AlertService on a CRITICAL value: a bare sensor id becomes one more row.
AlertPut(k) ==
  /\ activeDevicesMap[k] # "INACTIVE"
  /\ Put(k, "INACTIVE", form)
  /\ UNCHANGED <<at, rows, view, localStorage, history, moves, restarts>>

\* A new process has a new map; the requests under way fail.
Restart ==
  /\ restarts < MaxRestarts
  /\ restarts' = restarts + 1
  /\ activeDevicesMap' = InitialMap
  /\ at' = [t \in Tabs |-> IF at[t] = "showing" THEN "showing" ELSE "closed"]
  /\ form' = [t \in Tabs |-> NoForm]
  /\ UNCHANGED <<rows, view, localStorage, history, moves>>

Next ==
  \/ \E t \in Tabs :
       \/ Open(t) \/ GetActiveDevices(t) \/ Ready(t) \/ NextPage(t) \/ PreviousPage(t)
       \/ HandleForm(t)
       \/ \E k \in Keys : RenderRow(t, k)
       \/ \E k \in Keys, s \in Status : Press(t, k, s)
       \/ \E term \in Terms : Search(t, term)
       \/ \E order \in Orders : Order(t, order)
       \/ \E n \in Lengths : PageLength(t, n)
  \/ \E k \in AlertKeys : AlertPut(k)
  \/ Expire \/ Restart

Spec == Init /\ [][Next]_vars

-----------------------------------------------------------------------------
(* Properties. *)

Views == [saved : {TRUE}, start : Nat, length : Lengths, search : Terms, order : Orders]

\* A row has a status, also for what was put in the map while the page was rendered; what
\* is saved is a view the table can be given; and a form under way names a device.
TypeOK ==
  /\ activeDevicesMap \in [Keys -> Status \cup {Null}]
  /\ at \in [Tabs -> {"closed", "requested", "rendering", "showing", "pressed"}]
  /\ rows \in [Tabs -> UNION {[K -> Status \cup {Pending}] : K \in SUBSET Keys}]
  /\ view \in [Tabs -> Views]
  /\ localStorage \in Views \cup {Nothing}
  /\ form \in [Tabs -> [key : Keys, status : Status] \cup {NoForm}]
  /\ \A t \in Tabs : at[t] = "pressed" => form[t] \in [key : Keys, status : Status]
  /\ choice \in Views \cup {Nothing} /\ sharing \subseteq Tabs

\* A page that is shown has rows on it whenever the list has any, although the list
\* may have become shorter, in another tab or by the operator's own press, since the
\* page number was saved.
NoEmptyPage ==
  \A t \in Tabs : at[t] = "showing" /\ Listed(t) # {} =>
    view[t].start < Cardinality(Listed(t))

Aligned(v) == \E page \in 0..v.start : v.start = page * v.length

\* The first row is the first of a page of the length in effect: the tabs share one saved
\* state and may be using different lengths, but no tab counts from another's pages.
PagesAligned == \A t \in Tabs : Aligned(view[t])

\* After a press the page comes back showing what was pressed, unless somebody else has
\* changed the device since: no one sees the status from before his own press.
OwnPressIsShown ==
  \A t \in Tabs :
    at[t] = "showing" /\ form[t] # NoForm =>
      /\ form[t].key \in DOMAIN rows[t]
      /\ rows[t][form[t].key] = form[t].status

\* Until the saved state expires, whatever the operator last chose in one tab - term,
\* order, length - is what that tab and every tab loaded since show, however many
\* presses, reloads and restarts of the process come between; the page is the chosen
\* one or the first.
ChoiceIsKept ==
  \A t \in sharing :
    at[t] = "showing" /\ choice # Nothing =>
      /\ view[t].search = choice.search
      /\ view[t].order = choice.order
      /\ view[t].length = choice.length
      /\ view[t].start \in {0, choice.start}
=============================================================================
