------------------------------ MODULE Screens ------------------------------
(***************************************************************************)
(* The invoice page and its calls: useApi.ts, InvoiceDetailPage.tsx, the   *)
(* request of client.ts, and correctField as the page sees it.             *)
(*                                                                         *)
(* The page reads the invoice and its approval progress through a hook     *)
(* each; a hook's effect asks again when the route's id changes or after   *)
(* reload, and drops the answer to what it asked before.  Calls are sent,  *)
(* answered and received in separate steps, in any order.  The queues of   *)
(* ApprovalsPage.tsx and PostingPage.tsx act and reload in the same way.   *)
(***************************************************************************)
EXTENDS FieldValues, TLC

CONSTANTS
  Invoice,     \* invoices
  Entry,       \* [field, text, meant]: what may be typed, and the value meant by it
  Null,
  MaxVersions, \* bound on changes of an invoice
  MaxOpens,    \* bound on navigations
  MaxSaves,    \* bound on saves in flight
  MaxFaults    \* bound on failed calls

ASSUME ScreensAssumption ==
  /\ \A e \in Entry : /\ DOMAIN e = {"field", "text", "meant"} /\ e.field \in DOMAIN FieldKind
                      /\ e.text \in Written(e.field, e.meant)
  /\ Null # "another value"
  /\ MaxVersions \in Nat /\ MaxOpens \in Nat /\ MaxSaves \in Nat /\ MaxFaults \in Nat

Hook == {"invoice", "progress"}

VARIABLES
  version,   \* version[i]: how often invoice i was changed on the server
  stored,    \* stored[i]: whether the value of the latest save is what was meant by it
  at,        \* the invoice of the route, Null on another page
  mount,     \* which mounting of the page this is
  view,      \* view[h]: [of, version, loading] of the hook's state
  calls,     \* calls of the hooks: [hook, of, answer]
  saves,     \* saves in flight: [n, of, field, value, mount, held, answer], where held
             \* tells that the row of the field that made it still shows Saving
  told,      \* told[i]: the version of the latest save the screen took notice of
  opens, faults

page == <<at, mount, view>>
vars == <<version, stored, page, calls, saves, told, opens, faults>>

Blank   == [of |-> Null, version |-> 0, loading |-> TRUE]
Visible == at # Null /\ ~view["invoice"].loading /\ view["invoice"].of # Null

Init ==
  /\ version = [i \in Invoice |-> 0] /\ stored = [i \in Invoice |-> Null]
  /\ at = Null /\ mount = 0 /\ view = [h \in Hook |-> Blank]
  /\ calls = {} /\ saves = {} /\ told = [i \in Invoice |-> 0]
  /\ opens = 0 /\ faults = 0

-----------------------------------------------------------------------------
(* The hook.                                                               *)

\* Mutant: nothing is cancelled.
CancelledNever(c) == FALSE

\* "Prevents a late response from a previous render overwriting fresher state."
Cancelled(c) == TRUE

Kept        == {c \in calls : ~Cancelled(c)}
Ask(i)      == Kept \cup {[hook |-> h, of |-> i, answer |-> Null] : h \in Hook}
Loading(v)  == [h \in Hook |-> [v[h] EXCEPT !.loading = TRUE]]

\* A page that loads shows nothing else: the rows of the fields are gone, and those that
\* come back know nothing of the saves in flight.
Unmounted(ss) == {[s EXCEPT !.held = FALSE] : s \in ss}

Land(c) ==
  /\ c.answer \notin {Null, Refused}
  /\ calls' = calls \ {c}
  /\ view' = [view EXCEPT ![c.hook] = [of |-> c.of, version |-> c.answer, loading |-> FALSE]]
  /\ UNCHANGED <<version, stored, at, mount, saves, told, opens, faults>>

\* A failed call clears what was shown before.
Fail(c) ==
  /\ faults < MaxFaults /\ faults' = faults + 1
  /\ calls' = calls \ {c}
  /\ view' = [view EXCEPT ![c.hook] = [Blank EXCEPT !.loading = FALSE]]
  /\ UNCHANGED <<version, stored, at, mount, saves, told, opens>>

-----------------------------------------------------------------------------
(* Navigation.                                                             *)

\* From another page the component mounts with nothing shown; from invoice to invoice
\* the route keeps the component, and with it what the hooks hold.
Open(i) ==
  /\ at # i /\ opens < MaxOpens /\ opens' = opens + 1
  /\ at' = i /\ calls' = Ask(i) /\ saves' = Unmounted(saves)
  /\ mount' = IF at = Null THEN mount + 1 ELSE mount
  /\ view' = IF at = Null THEN [h \in Hook |-> Blank] ELSE Loading(view)
  /\ UNCHANGED <<version, stored, told, faults>>

Leave ==
  /\ at # Null
  /\ at' = Null /\ calls' = Kept /\ saves' = Unmounted(saves)
  /\ UNCHANGED <<version, stored, mount, view, told, opens, faults>>

-----------------------------------------------------------------------------
(* Saving a field of the invoice on screen.  A row sends one save at a     *)
(* time, but the page reloads after the save of any other field, and the   *)
(* row it mounts again may send a second one for the same field.  A save   *)
(* in flight carries what the server will make of its text, which depends  *)
(* on nothing else.                                                        *)

Parsed(e) ==
  LET value == Parse(e.field, e.text)
  IN  CASE value = Refused -> Refused
        [] value = e.meant -> "as meant"
        [] OTHER           -> "another value"
Sent == {[field |-> e.field, value |-> Parsed(e)] : e \in Entry}

Save(x) ==
  /\ Visible
  /\ \A s \in saves : ~(s.held /\ s.field = x.field)
  /\ LET free == 1..MaxSaves \ {s.n : s \in saves} IN
       /\ free # {}
       /\ saves' = saves \cup {[n |-> Min(free), of |-> view["invoice"].of, field |-> x.field,
                                mount |-> mount, value |-> x.value, held |-> TRUE,
                                answer |-> Null]}
  /\ UNCHANGED <<version, stored, page, calls, told, opens, faults>>

\* The promise continues in the component that made it: if that is still mounted, it
\* reloads both hooks for the route's invoice of now; if not, nobody is told.
SaveLands(s) ==
  /\ s.answer # Null
  /\ LET here == at # Null /\ s.mount = mount /\ s.answer # Refused IN
       /\ saves' = IF here THEN Unmounted(saves \ {s}) ELSE saves \ {s}
       /\ told'  = IF here THEN [told EXCEPT ![s.of] = IF @ > s.answer THEN @ ELSE s.answer]
                   ELSE told
       /\ calls' = IF here THEN Ask(at) ELSE calls
       /\ view'  = IF here THEN Loading(view) ELSE view
  /\ UNCHANGED <<version, stored, at, mount, opens, faults>>

SaveFails(s) ==
  /\ faults < MaxFaults /\ faults' = faults + 1
  /\ saves' = saves \ {s}
  /\ UNCHANGED <<version, stored, page, calls, told, opens>>

-----------------------------------------------------------------------------
(* The server.                                                             *)

Answer(c) ==
  /\ c.answer = Null
  /\ calls' = (calls \ {c}) \cup {[c EXCEPT !.answer = version[c.of]]}
  /\ UNCHANGED <<version, stored, page, saves, told, opens, faults>>

\* correctField: refused as a whole, or the parsed value is stored.
Correct(s) ==
  /\ s.answer = Null
  /\ IF s.value = Refused
       THEN /\ saves' = (saves \ {s}) \cup {[s EXCEPT !.answer = Refused]}
            /\ UNCHANGED <<version, stored>>
       ELSE /\ version[s.of] < MaxVersions
            /\ version' = [version EXCEPT ![s.of] = @ + 1]
            /\ stored' = [stored EXCEPT ![s.of] = s.value]
            /\ saves' = (saves \ {s}) \cup {[s EXCEPT !.answer = version[s.of] + 1]}
  /\ UNCHANGED <<page, calls, told, opens, faults>>

\* Somebody else changes the invoice.
Elsewhere(i) ==
  /\ version[i] < MaxVersions
  /\ version' = [version EXCEPT ![i] = @ + 1]
  /\ UNCHANGED <<stored, page, calls, saves, told, opens, faults>>

Browse ==
  \/ \E c \in calls : Answer(c) \/ Land(c) \/ Fail(c)
  \/ \E i \in Invoice : Open(i) \/ Elsewhere(i)
  \/ Leave
  \/ \E s \in saves : Correct(s) \/ SaveLands(s) \/ SaveFails(s)

Next == Browse \/ \E x \in Sent : Save(x)

Spec == Init /\ [][Next]_vars

-----------------------------------------------------------------------------
(* What the page promises.                                                 *)

\* What the page shows is the invoice of its route, and no older than the latest save
\* the same page reported as done, whatever order the answers arrive in.
ScreenCurrent ==
  Visible => /\ view["invoice"].of = at
             /\ view["invoice"].version >= told[at]

\* An amount typed with either decimal mark, grouped or not, of either sign, a date in ISO
\* form or day first, and a text with blanks around it are stored as they were meant or
\* refused, never as another value: "guessing wrong on an amount is a thousand-fold error
\* nobody would spot downstream".
ValueAsMeant ==
  \A i \in Invoice : stored[i] # "another value"

-----------------------------------------------------------------------------
(* What the code does not keep; see the README.                            *)

\* The progress shown belongs to the invoice shown: while the new one loads, the hook
\* still holds the one before, and the page only waits for the invoice.
ProgressMatches ==
  Visible /\ view["progress"].of # Null => view["progress"].of = view["invoice"].of
=============================================================================
