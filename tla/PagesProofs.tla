----------------------------- MODULE PagesProofs -----------------------------
(***************************************************************************)
(* Proofs about the frontend: the invoice page and the values typed into   *)
(* it, for any invoices, entries and bounds; the cost assignment, for any  *)
(* lines, master data, editors and other clients; and the name on the      *)
(* screen, for any accounts and any number of requests in flight.          *)
(***************************************************************************)
EXTENDS Screens, CostAssignment, WatchProperties, FiniteSetTheorems, SequenceTheorems, TLAPS

-----------------------------------------------------------------------------
(* The invoice page.  A hook's call is about the invoice of the route, and *)
(* its answer is no older than the latest save the page was told of: a     *)
(* navigation and a reload drop the calls made before.                     *)

CallFields == {"hook", "of", "answer"}
SaveFields == {"n", "of", "field", "mount", "value", "held", "answer"}

Versions ==
  /\ version \in [Invoice -> Nat] /\ told \in [Invoice -> Nat]
  /\ \A i \in Invoice : told[i] <= version[i]

CallsInv ==
  \A c \in calls :
    /\ DOMAIN c = CallFields /\ c.of = at /\ c.of \in Invoice /\ c.hook \in Hook
    /\ c.answer \notin {Null, Refused} => /\ c.answer \in Nat /\ told[c.of] <= c.answer
                                          /\ c.answer <= version[c.of]

SavesInv ==
  \A s \in saves :
    /\ DOMAIN s = SaveFields /\ s.of \in Invoice
    /\ s.answer \notin {Null, Refused} => s.answer \in Nat /\ s.answer <= version[s.of]

ViewInv ==
  /\ DOMAIN view = Hook
  /\ \A h \in Hook : DOMAIN view[h] = {"of", "version", "loading"}
  /\ at \in Invoice \cup {Null} /\ view["invoice"].of \in Invoice \cup {Null}
  /\ Visible => /\ view["invoice"].of = at
                /\ view["invoice"].version \in Nat /\ told[at] <= view["invoice"].version

ScreenInv == Versions /\ CallsInv /\ SavesInv /\ ViewInv

LEMMA ScreenInit == Init => ScreenInv
  BY DEF Init, ScreenInv, Versions, CallsInv, SavesInv, ViewInv, Visible, Blank, Hook

\* The calls a page starts are about its invoice and unanswered; none is kept.
LEMMA AskFacts ==
  ASSUME NEW i PROVE \A c \in Ask(i) : /\ DOMAIN c = CallFields /\ c.of = i
                                       /\ c.hook \in Hook /\ c.answer = Null
  BY DEF Ask, Kept, Cancelled, CallFields

LEMMA LoadingFacts ==
  ASSUME DOMAIN view = Hook, \A h \in Hook : DOMAIN view[h] = {"of", "version", "loading"}
  PROVE  /\ DOMAIN Loading(view) = Hook
         /\ \A h \in Hook : /\ DOMAIN Loading(view)[h] = {"of", "version", "loading"}
                            /\ Loading(view)[h].loading = TRUE
                            /\ Loading(view)[h].of = view[h].of
  BY DEF Loading

\* A row that is unmounted changes nothing of its save but whether it is held.
LEMMA UnmountedFacts ==
  ASSUME NEW S, \A s \in S : DOMAIN s = SaveFields
  PROVE  \A u \in Unmounted(S) : \E s \in S :
           /\ DOMAIN u = SaveFields /\ u.of = s.of
           /\ u.value = s.value /\ u.answer = s.answer
  BY DEF Unmounted, SaveFields

LEMMA ScreenAnswer ==
  ASSUME ScreenInv, NEW c \in calls, Answer(c) \/ Land(c) \/ Fail(c) PROVE ScreenInv'
  <1>1. /\ UNCHANGED <<version, at, saves, told>>
        /\ DOMAIN c = CallFields /\ c.of = at /\ c.of \in Invoice /\ c.hook \in Hook
    BY DEF Answer, Land, Fail, page, ScreenInv, CallsInv
  <1>2. Versions' /\ SavesInv'
    BY <1>1 DEF ScreenInv, Versions, SavesInv
  <1>3. CASE Answer(c)
    <2>1. /\ calls' = (calls \ {c}) \cup {[c EXCEPT !.answer = version[c.of]]}
          /\ view' = view
      BY <1>3 DEF Answer, page
    <2>2. CallsInv'
      BY <1>1, <2>1 DEF ScreenInv, CallsInv, CallFields, Versions
    <2> QED
      BY <1>1, <1>2, <2>1, <2>2 DEF ScreenInv, ViewInv, Visible
  <1>4. CASE Land(c)
    <2>1. /\ calls' = calls \ {c} /\ c.answer \notin {Null, Refused}
          /\ view' = [view EXCEPT ![c.hook] = [of |-> c.of, version |-> c.answer, loading |-> FALSE]]
      BY <1>4 DEF Land
    <2>2. /\ c.answer \in Nat /\ told[at] <= c.answer
      BY <1>1, <2>1 DEF ScreenInv, CallsInv
    <2>3. CallsInv'
      BY <1>1, <2>1 DEF ScreenInv, CallsInv
    <2>4. ViewInv'
      BY <1>1, <2>1, <2>2 DEF ScreenInv, ViewInv, Visible, Hook
    <2> QED
      BY <1>2, <2>3, <2>4 DEF ScreenInv
  <1>5. CASE Fail(c)
    <2>1. /\ calls' = calls \ {c}
          /\ view' = [view EXCEPT ![c.hook] = [Blank EXCEPT !.loading = FALSE]]
      BY <1>5 DEF Fail
    <2>2. /\ DOMAIN [Blank EXCEPT !.loading = FALSE] = {"of", "version", "loading"}
          /\ [Blank EXCEPT !.loading = FALSE].of = Null
      BY DEF Blank
    <2>3. CallsInv'
      BY <1>1, <2>1 DEF ScreenInv, CallsInv
    <2>4. ViewInv'
      BY <1>1, <2>1, <2>2 DEF ScreenInv, ViewInv, Visible, Hook
    <2> QED
      BY <1>2, <2>3, <2>4 DEF ScreenInv
  <1> QED
    BY <1>3, <1>4, <1>5

LEMMA ScreenRoute ==
  ASSUME ScreenInv, Leave \/ \E i \in Invoice : Open(i) PROVE ScreenInv'
  <1>1. UNCHANGED <<version, told>> /\ saves' = Unmounted(saves)
    BY DEF Leave, Open
  <1>2. Versions' /\ SavesInv'
    BY <1>1, UnmountedFacts DEF ScreenInv, Versions, SavesInv
  <1>3. CASE Leave
    BY <1>1, <1>2, <1>3 DEF Leave, ScreenInv, CallsInv, ViewInv, Visible, Kept, Cancelled
  <1>4. ASSUME NEW i \in Invoice, Open(i) PROVE ScreenInv'
    <2>1. /\ at' = i /\ calls' = Ask(i)
          /\ view' = IF at = Null THEN [h \in Hook |-> Blank] ELSE Loading(view)
      BY <1>4 DEF Open
    <2>2. CallsInv'
      BY <2>1, AskFacts DEF CallsInv
    <2>3. CASE at = Null
      <3>1. view' = [h \in Hook |-> Blank]
        BY <2>1, <2>3
      <3> QED
        BY <1>2, <2>1, <2>2, <3>1 DEF ScreenInv, ViewInv, Visible, Hook, Blank
    <2>4. CASE at # Null
      <3>1. /\ DOMAIN view' = Hook
            /\ \A h \in Hook : /\ DOMAIN view'[h] = {"of", "version", "loading"}
                               /\ view'[h].loading = TRUE /\ view'[h].of = view[h].of
        BY <2>1, <2>4, LoadingFacts DEF ScreenInv, ViewInv
      <3> QED
        BY <1>2, <2>1, <2>2, <3>1 DEF ScreenInv, ViewInv, Visible, Hook
    <2> QED
      BY <2>3, <2>4
  <1> QED
    BY <1>3, <1>4

\* A save is sent, refused or stored; the versions it or somebody else makes only grow.
LEMMA ScreenSave ==
  ASSUME ScreenInv,
         \/ \E x \in Sent : Save(x)
         \/ \E s \in saves : Correct(s) \/ SaveFails(s)
         \/ \E i \in Invoice : Elsewhere(i)
  PROVE  ScreenInv'
  <1>1. UNCHANGED <<at, view, calls, told>>
    BY DEF Save, Correct, SaveFails, Elsewhere, page
  <1>2. \/ version' = version
        \/ \E i \in Invoice : version' = [version EXCEPT ![i] = @ + 1]
    BY DEF Save, Correct, SaveFails, Elsewhere, ScreenInv, SavesInv
  <1>3. version' \in [Invoice -> Nat] /\ \A i \in Invoice : version[i] <= version'[i]
    BY <1>2 DEF ScreenInv, Versions
  <1>4. Versions' /\ CallsInv' /\ ViewInv'
    <2>1. Versions'
      BY <1>1, <1>3 DEF ScreenInv, Versions
    <2>2. CallsInv'
      BY <1>1, <1>3 DEF ScreenInv, Versions, CallsInv
    <2>3. ViewInv'
      BY <1>1 DEF ScreenInv, ViewInv, Visible
    <2> QED
      BY <2>1, <2>2, <2>3
  <1>5. SavesInv'
    <2>1. ASSUME NEW x \in Sent, Save(x) PROVE SavesInv'
      <3>1. PICK n, v, m : saves' = saves \cup {[n |-> n, of |-> view["invoice"].of,
                                                 field |-> x.field, mount |-> m, value |-> v,
                                                 held |-> TRUE, answer |-> Null]}
        BY <2>1 DEF Save
      <3>2. view["invoice"].of \in Invoice
        BY <2>1 DEF Save, Visible, ScreenInv, ViewInv
      <3> QED
        BY <1>3, <3>1, <3>2 DEF ScreenInv, Versions, SavesInv, SaveFields
    <2>2. ASSUME NEW s \in saves, Correct(s) PROVE SavesInv'
      <3>1. \/ saves' = (saves \ {s}) \cup {[s EXCEPT !.answer = Refused]}
            \/ /\ version' = [version EXCEPT ![s.of] = @ + 1]
               /\ saves' = (saves \ {s}) \cup {[s EXCEPT !.answer = version[s.of] + 1]}
        BY <2>2 DEF Correct
      <3>2. CASE saves' = (saves \ {s}) \cup {[s EXCEPT !.answer = Refused]}
        BY <1>3, <3>2 DEF ScreenInv, Versions, SavesInv, SaveFields
      <3>3. CASE /\ version' = [version EXCEPT ![s.of] = @ + 1]
                 /\ saves' = (saves \ {s}) \cup {[s EXCEPT !.answer = version[s.of] + 1]}
        BY <1>3, <3>3 DEF ScreenInv, Versions, SavesInv, SaveFields
      <3> QED
        BY <3>1, <3>2, <3>3
    <2>3. CASE \/ \E s \in saves : SaveFails(s)
               \/ \E i \in Invoice : Elsewhere(i)
      <3>1. saves' \subseteq saves
        BY <2>3 DEF SaveFails, Elsewhere
      <3> QED
        BY <1>3, <3>1 DEF ScreenInv, Versions, SavesInv
    <2> QED
      BY <2>1, <2>2, <2>3
  <1> QED
    BY <1>4, <1>5 DEF ScreenInv

\* The answer to a save: if the page is still there, what it asked before is dropped.
LEMMA ScreenSaveLands ==
  ASSUME ScreenInv, NEW s \in saves, SaveLands(s) PROVE ScreenInv'
  <1> DEFINE here == at # Null /\ s.mount = mount /\ s.answer # Refused
  <1>1. /\ UNCHANGED <<version, at>> /\ s.answer # Null
        /\ saves' = IF here THEN Unmounted(saves \ {s}) ELSE saves \ {s}
        /\ told'  = IF here THEN [told EXCEPT ![s.of] = IF @ > s.answer THEN @ ELSE s.answer]
                    ELSE told
        /\ calls' = IF here THEN Ask(at) ELSE calls
        /\ view'  = IF here THEN Loading(view) ELSE view
    BY DEF SaveLands
  <1>2. SavesInv'
    <2>1. CASE here
      <3>1. saves' = Unmounted(saves \ {s})
        BY <1>1, <2>1
      <3>2. \A u \in saves \ {s} : DOMAIN u = SaveFields
        BY DEF ScreenInv, SavesInv
      <3>3. \A u \in saves' : \E q \in saves \ {s} :
              DOMAIN u = SaveFields /\ u.of = q.of /\ u.answer = q.answer
        BY <3>1, <3>2, UnmountedFacts
      <3> QED
        BY <1>1, <3>3 DEF ScreenInv, SavesInv
    <2>2. CASE ~here
      BY <1>1, <2>2 DEF ScreenInv, SavesInv
    <2> QED
      BY <2>1, <2>2
  <1>3. CASE here
    <2>1. /\ s.of \in Invoice /\ s.answer \in Nat /\ s.answer <= version[s.of]
          /\ told' = [told EXCEPT ![s.of] = IF @ > s.answer THEN @ ELSE s.answer]
          /\ at \in Invoice
      BY <1>1, <1>3 DEF ScreenInv, SavesInv, ViewInv
    <2>2. Versions'
      BY <1>1, <2>1 DEF ScreenInv, Versions
    <2>3. CallsInv'
      BY <1>1, <1>3, <2>1, AskFacts DEF CallsInv
    <2>4. /\ DOMAIN view' = Hook
          /\ \A h \in Hook : /\ DOMAIN view'[h] = {"of", "version", "loading"}
                             /\ view'[h].loading = TRUE /\ view'[h].of = view[h].of
      BY <1>1, <1>3, LoadingFacts DEF ScreenInv, ViewInv
    <2>5. ViewInv'
      BY <1>1, <2>4 DEF ScreenInv, ViewInv, Visible, Hook
    <2> QED
      BY <1>2, <2>2, <2>3, <2>5 DEF ScreenInv
  <1>4. CASE ~here
    <2>1. UNCHANGED <<version, at, told, calls, view>>
      BY <1>1, <1>4
    <2> QED
      BY <1>2, <2>1 DEF ScreenInv, Versions, CallsInv, ViewInv, Visible
  <1> QED
    BY <1>3, <1>4

\* Whatever order the answers arrive in, and wherever the reader goes meanwhile, the page
\* shows the invoice of its route, no older than the latest save it reported as done.
THEOREM SpecScreenCurrent == Spec => []ScreenCurrent
  <1>1. ScreenInv /\ [Next]_vars => ScreenInv'
    <2>1. ScreenInv /\ UNCHANGED vars => ScreenInv'
      BY DEF vars, page, ScreenInv, Versions, CallsInv, SavesInv, ViewInv, Visible
    <2> QED
      BY <2>1, ScreenAnswer, ScreenRoute, ScreenSave, ScreenSaveLands DEF Next, Browse
  <1>2. ScreenInv => ScreenCurrent
    <2> SUFFICES ASSUME ScreenInv, Visible
                 PROVE  view["invoice"].of = at /\ view["invoice"].version >= told[at]
      BY DEF ScreenCurrent
    <2>1. /\ view["invoice"].of = at /\ at \in Invoice
          /\ view["invoice"].version \in Nat /\ told[at] <= view["invoice"].version
          /\ told[at] \in Nat
      BY DEF ScreenInv, ViewInv, Versions, Visible
    <2> QED
      BY <2>1
  <1> QED
    BY <1>1, <1>2, ScreenInit, PTL DEF Spec

-----------------------------------------------------------------------------
(* What is stored of a typed value: the groups of an amount are read back  *)
(* as the number they were written for, one group after the other, and the *)
(* separators either tell where the decimals begin or get it refused.      *)

Figures == [len : Nat, val : Nat]

\* The step of Digits, and its recursion.
ReadOn(x, g) == [len |-> x.len + g.len, val |-> x.val * 10^g.len + g.val]
NoDigits     == [len |-> 0, val |-> 0]
Reads(groups, n, r) == r = [i \in 0..n |-> IF i = 0 THEN NoDigits ELSE ReadOn(r[i - 1], groups[i])]

\* Digits is that recursion.
LEMMA DigitsUnfold ==
  ASSUME NEW groups, NEW n \in Nat, Len(groups) = n, NEW r, Reads(groups, n, r)
  PROVE  \E c : Reads(groups, n, c) /\ Digits(groups) = c[n]
  <1> DEFINE c == CHOOSE q : Reads(groups, n, q)
  <1>1. Reads(groups, n, c)
    OBVIOUS
  <1>2. Digits(groups) = c[n]
    BY DEF Digits, Reads, ReadOn, NoDigits
  <1> QED
    BY <1>1, <1>2

\* Up to three groups are read one after the other.
LEMMA DigitsOfGroups ==
  ASSUME NEW groups, NEW n \in 1..3, Len(groups) = n
  PROVE  LET one   == ReadOn(NoDigits, groups[1])
             two   == ReadOn(one, groups[2])
             three == ReadOn(two, groups[3])
         IN  /\ n = 1 => Digits(groups) = one
             /\ n = 2 => Digits(groups) = two
             /\ n = 3 => Digits(groups) = three
  <1> DEFINE one   == ReadOn(NoDigits, groups[1])
             two   == ReadOn(one, groups[2])
             three == ReadOn(two, groups[3])
             r == [i \in 0..n |-> IF i = 0 THEN NoDigits ELSE IF i = 1 THEN one
                                  ELSE IF i = 2 THEN two ELSE three]
             g == groups
  <1>1. \A i \in 0..n : i \in {0, 1, 2, 3} /\ (i # 0 => i - 1 \in 0..n)
    OBVIOUS
  <1> DEFINE ReadNext(i, x) == ReadOn(x, groups[i])
  <1>2. one = ReadNext(1, NoDigits) /\ two = ReadNext(2, one) /\ three = ReadNext(3, two)
    OBVIOUS
  <1> HIDE DEF one, two, three, ReadNext
  <1>3. \A i \in 0..n : r[i] = IF i = 0 THEN NoDigits ELSE ReadNext(i, r[i - 1])
    BY <1>1, <1>2
  <1>4. r = [i \in 0..n |-> r[i]]
    OBVIOUS
  <1> HIDE DEF r
  <1>5. r = [i \in 0..n |-> IF i = 0 THEN NoDigits ELSE ReadNext(i, r[i - 1])]
    BY <1>3, <1>4
  <1>6. Reads(groups, n, r)
    BY <1>5 DEF Reads, ReadNext
  <1>7. PICK c : Reads(groups, n, c) /\ Digits(groups) = c[n]
    BY <1>6, DigitsUnfold
  <1>8. \A i \in 0..n : c[i] = IF i = 0 THEN NoDigits ELSE ReadNext(i, c[i - 1])
    BY <1>7 DEF Reads, ReadNext
  <1>9. c[0] = NoDigits /\ c[1] = one /\ (n >= 2 => c[2] = two) /\ (n = 3 => c[3] = three)
    <2>1. c[0] = NoDigits
      BY <1>8
    <2>2. c[1] = one
      BY <1>2, <1>8, <2>1
    <2>3. n >= 2 => c[2] = two
      BY <1>2, <1>8, <2>2
    <2>4. n = 3 => c[3] = three
      BY <1>2, <1>8, <2>3
    <2> QED
      BY <2>1, <2>2, <2>3, <2>4
  <1> QED
    BY <1>7, <1>9 DEF one, two, three

\* The first group, of up to nine digits, and one of three after others.
LEMMA ReadFirst ==
  ASSUME NEW m \in 1..9, NEW v \in Nat
  PROVE  ReadOn(NoDigits, Group(m, v)) = [len |-> m, val |-> v]
  <1>1. 10^m \in Nat
    <2>1. m \in {1, 2, 3, 4, 5, 6, 7, 8, 9}
      OBVIOUS
    <2>2. m = 1 => 10^m = 10
      OBVIOUS
    <2>3. m = 2 => 10^m = 100
      OBVIOUS
    <2>4. m = 3 => 10^m = 1000
      OBVIOUS
    <2>5. m = 4 => 10^m = 10000
      OBVIOUS
    <2>6. m = 5 => 10^m = 100000
      OBVIOUS
    <2>7. m = 6 => 10^m = 1000000
      BY SMT
    <2>8. m = 7 => 10^m = 10000000
      BY SMT
    <2>9. m = 8 => 10^m = 100000000
      BY SMT
    <2>10. m = 9 => 10^m = 1000000000
      BY SMT
    <2> QED
      BY <2>1, <2>2, <2>3, <2>4, <2>5, <2>6, <2>7, <2>8, <2>9, <2>10
  <1>2. 0 * 10^m + v = v /\ 0 + m = m
    BY <1>1
  <1> QED
    BY <1>2 DEF ReadOn, NoDigits, Group

LEMMA ReadThree ==
  ASSUME NEW l \in Nat, NEW x \in Nat, NEW v \in Nat
  PROVE  ReadOn([len |-> l, val |-> x], Group(3, v)) = [len |-> l + 3, val |-> x * 1000 + v]
  <1>1. 10^3 = 1000
    OBVIOUS
  <1> QED
    BY <1>1 DEF ReadOn, Group

Billion == 10^9   \* hidden from the provers, which write it out

LEMMA BillionNat == Billion \in Nat
  BY DEF Billion

\* A number below a billion has one to nine digits.
LEMMA NumberLenIs == ASSUME NEW n \in Nat, n < Billion PROVE NumberLen(n) \in 1..9
  <1>0. n < 10^9
    BY DEF Billion
  <1> DEFINE P(k) == n < 10^k /\ (k = 1 \/ n >= 10^(k - 1))
  <1>2. \E k \in 1..9 : P(k)
    <2>1. CASE n < 10^1
      BY <2>1
    <2>2. CASE n >= 10^1 /\ n < 10^2
      <3>1. 2 - 1 = 1
        OBVIOUS
      <3> QED
        BY <2>2, <3>1
    <2>3. CASE n >= 10^2 /\ n < 10^3
      <3>1. 3 - 1 = 2
        OBVIOUS
      <3> QED
        BY <2>3, <3>1
    <2>4. CASE n >= 10^3 /\ n < 10^4
      <3>1. 4 - 1 = 3
        OBVIOUS
      <3> QED
        BY <2>4, <3>1
    <2>5. CASE n >= 10^4 /\ n < 10^5
      <3>1. 5 - 1 = 4
        OBVIOUS
      <3> QED
        BY <2>5, <3>1
    <2>6. CASE n >= 10^5 /\ n < 10^6
      <3>1. 6 - 1 = 5
        OBVIOUS
      <3> QED
        BY <2>6, <3>1
    <2>7. CASE n >= 10^6 /\ n < 10^7
      <3>1. 7 - 1 = 6
        OBVIOUS
      <3> QED
        BY <2>7, <3>1
    <2>8. CASE n >= 10^7 /\ n < 10^8
      <3>1. 8 - 1 = 7
        OBVIOUS
      <3> QED
        BY <2>8, <3>1
    <2>9. CASE n >= 10^8
      <3>1. 9 - 1 = 8
        OBVIOUS
      <3> QED
        BY <1>0, <2>9, <3>1
    <2> QED
      BY <2>1, <2>2, <2>3, <2>4, <2>5, <2>6, <2>7, <2>8, <2>9
  <1>3. (CHOOSE k \in 1..9 : P(k)) \in 1..9
    <2> HIDE DEF P
    <2> QED
      BY <1>2
  <1> QED
    BY <1>3 DEF NumberLen

\* The groups of a whole number, apart or not, are read as the number.
WholeGroups(w, apart) == IF apart THEN Thousands(w) ELSE <<Group(NumberLen(w), w)>>

\* Up to three groups of which all but the first have three digits.
Grouped(g, w) ==
  /\ g \in Seq(Figures) /\ Len(g) \in 1..3
  /\ Len(g) # 1 => g[Len(g)].len = 3
  /\ \E l \in Nat \ {0} : Digits(g) = [len |-> l, val |-> w]

\* Whatever the number of its groups, the number comes back.
LEMMA GroupIs == ASSUME NEW m \in Nat, NEW v \in Nat PROVE Group(m, v) \in Figures
  BY DEF Group, Figures

LEMMA GroupedOne ==
  ASSUME NEW m \in 1..9, NEW v \in Nat PROVE Grouped(<<Group(m, v)>>, v)
  <1> DEFINE g == <<Group(m, v)>>
  <1>1. g \in Seq(Figures) /\ Len(g) = 1 /\ g[1] = Group(m, v)
    BY GroupIs
  <1> HIDE DEF g
  <1>2. Digits(g) = [len |-> m, val |-> v]
    <2>1. Digits(g) = ReadOn(NoDigits, g[1])
      BY <1>1, DigitsOfGroups
    <2> QED
      BY <1>1, <2>1, ReadFirst
  <1> QED
    BY <1>1, <1>2 DEF Grouped, g

LEMMA GroupedTwo ==
  ASSUME NEW m \in 1..9, NEW v \in Nat, NEW y \in Nat
  PROVE  Grouped(<<Group(m, v), Group(3, y)>>, v * 1000 + y)
  <1> DEFINE g == <<Group(m, v), Group(3, y)>>
  <1>1. g \in Seq(Figures) /\ Len(g) = 2 /\ g[1] = Group(m, v) /\ g[2] = Group(3, y)
    BY GroupIs
  <1>2. Group(3, y).len = 3
    BY DEF Group
  <1> HIDE DEF g
  <1>3. Digits(g) = ReadOn(ReadOn(NoDigits, g[1]), g[2])
    BY <1>1, DigitsOfGroups
  <1>4. ReadOn(NoDigits, g[1]) = [len |-> m, val |-> v]
    BY <1>1, ReadFirst
  <1>5. ReadOn([len |-> m, val |-> v], g[2]) = [len |-> m + 3, val |-> v * 1000 + y]
    <2>1. m \in Nat
      OBVIOUS
    <2> QED
      BY <1>1, <2>1, ReadThree
  <1>6. m + 3 \in Nat \ {0}
    OBVIOUS
  <1> QED
    BY <1>1, <1>2, <1>3, <1>4, <1>5, <1>6 DEF Grouped, g

LEMMA GroupedThree ==
  ASSUME NEW m \in 1..9, NEW v \in Nat, NEW y \in Nat, NEW z \in Nat
  PROVE  Grouped(<<Group(m, v), Group(3, y), Group(3, z)>>, (v * 1000 + y) * 1000 + z)
  <1> DEFINE g == <<Group(m, v), Group(3, y), Group(3, z)>>
  <1>1. /\ g \in Seq(Figures) /\ Len(g) = 3
        /\ g[1] = Group(m, v) /\ g[2] = Group(3, y) /\ g[3] = Group(3, z)
    BY GroupIs
  <1>2. Group(3, z).len = 3
    BY DEF Group
  <1> HIDE DEF g
  <1>3. Digits(g) = ReadOn(ReadOn(ReadOn(NoDigits, g[1]), g[2]), g[3])
    BY <1>1, DigitsOfGroups
  <1>4. ReadOn(NoDigits, g[1]) = [len |-> m, val |-> v]
    BY <1>1, ReadFirst
  <1>5. ReadOn([len |-> m, val |-> v], g[2]) = [len |-> m + 3, val |-> v * 1000 + y]
    <2>1. m \in Nat
      OBVIOUS
    <2> QED
      BY <1>1, <2>1, ReadThree
  <1>6. m + 3 \in Nat /\ v * 1000 + y \in Nat
    OBVIOUS
  <1>7. ReadOn([len |-> m + 3, val |-> v * 1000 + y], g[3])
          = [len |-> (m + 3) + 3, val |-> (v * 1000 + y) * 1000 + z]
    <2>1. \A l, x \in Nat : ReadOn([len |-> l, val |-> x], g[3]) = [len |-> l + 3, val |-> x * 1000 + z]
      BY <1>1, ReadThree
    <2> QED
      BY <1>6, <2>1
  <1>8. (m + 3) + 3 \in Nat \ {0}
    OBVIOUS
  <1> QED
    BY <1>1, <1>2, <1>3, <1>4, <1>5, <1>7, <1>8 DEF Grouped, g

LEMMA WholeGrouped ==
  ASSUME NEW w \in Nat, w < Billion, NEW apart \in BOOLEAN
  PROVE  Grouped(WholeGroups(w, apart), w)
  <1>1. CASE ~apart \/ w < 1000
    <2>1. WholeGroups(w, apart) = <<Group(NumberLen(w), w)>>
      BY <1>1, SMT DEF WholeGroups, Thousands
    <2> QED
      BY <2>1, NumberLenIs, GroupedOne, SMT
  <1>2. CASE apart /\ w >= 1000 /\ w < 1000000
    <2> DEFINE v == w \div 1000  y == w % 1000
    <2>1. WholeGroups(w, apart) = <<Group(NumberLen(v), v), Group(3, y)>>
      BY <1>2, SMT DEF WholeGroups, Thousands
    <2>2. v \in Nat /\ v < Billion /\ y \in Nat /\ v * 1000 + y = w
      BY <1>2, BillionNat, SMT
    <2> HIDE DEF v, y
    <2>3. NumberLen(v) \in 1..9
      BY <2>2, NumberLenIs, SMT
    <2>4. Grouped(<<Group(NumberLen(v), v), Group(3, y)>>, v * 1000 + y)
      BY <2>2, <2>3, GroupedTwo, SMT
    <2> QED
      BY <2>1, <2>2, <2>4, SMT
  <1>3. CASE apart /\ w >= 1000000
    <2> DEFINE v == w \div 1000000  y == (w \div 1000) % 1000  z == w % 1000
    <2>1. WholeGroups(w, apart) = <<Group(NumberLen(v), v), Group(3, y), Group(3, z)>>
      BY <1>3, SMT DEF WholeGroups, Thousands
    <2>2. /\ v \in Nat /\ v < Billion /\ y \in Nat /\ z \in Nat
          /\ (v * 1000 + y) * 1000 + z = w
      <3>1. w \div 1000000 = (w \div 1000) \div 1000
        BY SMT
      <3>2. PICK u \in Nat : u = w \div 1000 /\ u <= w /\ u * 1000 + (w % 1000) = w
        BY SMT
      <3>3. (u \div 1000) * 1000 + (u % 1000) = u /\ u \div 1000 <= u /\ u \div 1000 \in Nat
        BY <3>2, SMT
      <3> QED
        BY <3>1, <3>2, <3>3, BillionNat, SMT
    <2> HIDE DEF v, y, z
    <2>3. NumberLen(v) \in 1..9
      BY <2>2, NumberLenIs, SMT
    <2>4. Grouped(<<Group(NumberLen(v), v), Group(3, y), Group(3, z)>>, (v * 1000 + y) * 1000 + z)
      BY <2>2, <2>3, GroupedThree, SMT
    <2> QED
      BY <2>1, <2>2, <2>4, SMT
  <1> QED
    BY <1>1, <1>2, <1>3, SMT

\* What the separators decide.
LEMMA SplitCases ==
  ASSUME NEW t, NEW k \in Nat, Len(t.seps) = k, NEW c, Cardinality(ToSet(t.seps)) = c
  PROVE  /\ k = 0 => Split(t) = Whole(t)
         /\ k > 1 /\ c = 2 => Split(t) = SplitAt(t, k)
         /\ k > 1 /\ c = 1 => Split(t) = Whole(t)
         /\ k = 1 /\ c = 1 /\ t.groups[2].len >= 3 => Split(t) = Refused
         /\ k = 1 /\ c = 1 /\ ~(t.groups[2].len >= 3) => Split(t) = SplitAt(t, 1)
  <1> DEFINE a == Whole(t)  b == SplitAt(t, k)  d == SplitAt(t, 1)  long == t.groups[k + 1].len >= 3
  <1>1. Split(t) = CASE k = 0          -> a
                     [] k > 0 /\ c = 2 -> b
                     [] k > 1 /\ c = 1 -> a
                     [] k = 1 /\ long  -> Refused
                     [] OTHER          -> d
    BY DEF Split
  <1>2. k = 1 => (long <=> t.groups[2].len >= 3)
    OBVIOUS
  <1> HIDE DEF a, b, d, long
  <1>3. k = 0 => Split(t) = a
    BY <1>1
  <1>4. k > 1 /\ c = 2 => Split(t) = b
    BY <1>1
  <1>5. k > 1 /\ c = 1 => Split(t) = a
    BY <1>1
  <1>6. k = 1 /\ c = 1 /\ long => Split(t) = Refused
    BY <1>1
  <1>7. k = 1 /\ c = 1 /\ ~long => Split(t) = d
    BY <1>1
  <1> QED
    BY <1>2, <1>3, <1>4, <1>5, <1>6, <1>7 DEF a, b, d

\* The separators between n groups: the same one, n - 1 times.
LEMMA Between ==
  ASSUME NEW n \in 1..3, NEW other, NEW s \in [1..(n - 1) -> {other}]
  PROVE  /\ s \in Seq({other}) /\ Len(s) = n - 1
         /\ n # 1 => ToSet(s) = {other} /\ Cardinality(ToSet(s)) = 1
  <1>1. n - 1 \in Nat
    OBVIOUS
  <1>2. DOMAIN s = 1..(n - 1) /\ \A i \in 1..(n - 1) : s[i] = other
    OBVIOUS
  <1>4. s \in Seq({other}) /\ Len(s) = n - 1
    BY <1>1, <1>2
  <1>5. n # 1 => 1 \in 1..(n - 1)
    OBVIOUS
  <1>6. n # 1 => ToSet(s) = {other}
    BY <1>2, <1>5 DEF ToSet
  <1>7. Cardinality({other}) = 1
    BY FS_Singleton
  <1> QED
    BY <1>4, <1>6, <1>7

\* A sequence and one element more.
Then(s, e) == s \o <<e>>

LEMMA OneMore ==
  ASSUME NEW S, NEW s \in Seq(S), NEW e \in S
  PROVE  /\ Then(s, e) \in Seq(S) /\ Len(Then(s, e)) = Len(s) + 1
         /\ Then(s, e)[Len(s) + 1] = e /\ \A i \in 1..Len(s) : Then(s, e)[i] = s[i]
  <1>1. <<e>> \in Seq(S) /\ Len(<<e>>) = 1 /\ <<e>>[1] = e /\ Len(s) \in Nat
    OBVIOUS
  <1>2. /\ s \o <<e>> \in Seq(S) /\ Len(s \o <<e>>) = Len(s) + 1
        /\ \A i \in 1..(Len(s) + Len(<<e>>)) :
             (s \o <<e>>)[i] = IF i <= Len(s) THEN s[i] ELSE <<e>>[i - Len(s)]
    BY <1>1, ConcatProperties
  <1>3. (s \o <<e>>)[Len(s) + 1] = <<e>>[(Len(s) + 1) - Len(s)] /\ (Len(s) + 1) - Len(s) = 1
    BY <1>1, <1>2
  <1> QED
    BY <1>1, <1>2, <1>3 DEF Then

\* A number with its sign.
Signed(neg, v) == IF neg THEN -v ELSE v

Separators(n, other) == [i \in 1..(n - 1) |-> other]

\* t is read as w euros of that sign, or refused.
WholeFine(t, neg, w) == parseMoneyOrThrow(t) \in {Signed(neg, w * 100), Refused}

\* Without decimals: read as the number, or refused where one mark stands before three
\* digits.
LEMMA WholeRead ==
  ASSUME NEW g, NEW w \in Nat, Grouped(g, w), NEW other, NEW t, NEW neg \in BOOLEAN,
         t.negative = neg, t.groups = g, t.seps = Separators(Len(g), other)
  PROVE  WholeFine(t, neg, w)
  <1> SUFFICES parseMoneyOrThrow(t) \in {Signed(neg, w * 100), Refused}
    BY DEF WholeFine
  <1>1. PICK n \in 1..3 : Len(g) = n
    BY DEF Grouped
  <1>2. PICK l \in Nat \ {0} : Digits(g) = [len |-> l, val |-> w]
    BY DEF Grouped
  <1>3. n # 1 => g[n].len = 3
    BY <1>1 DEF Grouped
  <1>4. /\ Len(t.seps) = n - 1 /\ n - 1 \in Nat
        /\ n # 1 => Cardinality(ToSet(t.seps)) = 1
    <2>1. t.seps \in [1..(n - 1) -> {other}]
      BY <1>1 DEF Separators
    <2>2. n - 1 \in Nat
      OBVIOUS
    <2>3. PICK s : s = t.seps
      OBVIOUS
    <2>4. Len(s) = n - 1 /\ (n # 1 => Cardinality(ToSet(s)) = 1)
      BY <2>1, <2>3, Between
    <2> QED
      BY <2>2, <2>3, <2>4
  <1>5. Split(t) \in {Whole(t), Refused}
    <2> DEFINE c == Cardinality(ToSet(t.seps))
    <2>1. c = c
      OBVIOUS
    <2> HIDE DEF c
    <2>2. /\ n - 1 = 0 => Split(t) = Whole(t)
          /\ n - 1 > 1 /\ c = 1 => Split(t) = Whole(t)
          /\ n - 1 = 1 /\ c = 1 /\ t.groups[2].len >= 3 => Split(t) = Refused
      BY <1>4, SplitCases DEF c
    <2>3. n # 1 => c = 1
      BY <1>4 DEF c
    <2>4. n - 1 = 1 => t.groups[2].len >= 3
      BY <1>3
    <2>5. n - 1 = 0 \/ n - 1 = 1 \/ n - 1 > 1
      OBVIOUS
    <2>6. n - 1 # 0 => n # 1
      OBVIOUS
    <2>7. CASE n - 1 = 0
      BY <2>2, <2>7
    <2>8. CASE n - 1 = 1
      BY <2>2, <2>3, <2>4, <2>8
    <2>9. CASE n - 1 > 1
      BY <2>2, <2>3, <2>9
    <2> QED
      BY <2>5, <2>7, <2>8, <2>9
  <1>6. CASE Split(t) = Refused
    BY <1>6 DEF parseMoneyOrThrow
  <1>7. CASE Split(t) = Whole(t)
    <2>1. Whole(t) = [integer |-> [len |-> l, val |-> w], decimal |-> [len |-> 0, val |-> 0]]
      BY <1>2 DEF Whole
    <2>2. 10^(2 - 0) = 100
      OBVIOUS
    <2>3. /\ w * 100 + 0 * 100 = w * 100
          /\ 1 * (w * 100) = w * 100 /\ -1 * (w * 100) = -(w * 100)
      OBVIOUS
    <2>4. /\ Split(t).integer.len = l /\ Split(t).integer.val = w
          /\ Split(t).decimal.len = 0 /\ Split(t).decimal.val = 0
      BY <1>7, <2>1
    <2>5. CASE Split(t) # Refused
      <3>1. parseMoneyOrThrow(t) = (IF neg THEN -1 ELSE 1) * (w * 100)
        BY <2>2, <2>3, <2>4, <2>5 DEF parseMoneyOrThrow
      <3> QED
        BY <2>3, <3>1 DEF Signed
    <2> QED
      BY <1>6, <2>5
  <1> QED
    BY <1>5, <1>6, <1>7

\* The text of an amount with p decimals, whose figure is x.
InFull(t, neg, g, other, mark, p, x) ==
  /\ t.negative = neg /\ t.groups = Then(g, Group(p, x))
  /\ t.seps = Then(Separators(Len(g), other), mark)

\* t is read as w euros and x tenths or hundredths, or refused.
DecimalsFine(t, neg, w, p, x) ==
  parseMoneyOrThrow(t) \in {Signed(neg, w * 100 + x * 10^(2 - p)), Refused}

\* With one or two decimals: read as written.
LEMMA DecimalRead ==
  ASSUME NEW g, NEW w \in Nat, Grouped(g, w), NEW other, NEW mark, other # mark, NEW t,
         NEW p \in 1..2, NEW x \in Nat, NEW neg \in BOOLEAN, InFull(t, neg, g, other, mark, p, x)
  PROVE  DecimalsFine(t, neg, w, p, x)
  <1> SUFFICES parseMoneyOrThrow(t) \in {Signed(neg, w * 100 + x * 10^(2 - p)), Refused}
    BY DEF DecimalsFine
  <1>0. /\ t.negative = neg /\ t.groups = Then(g, Group(p, x))
        /\ t.seps = Then(Separators(Len(g), other), mark)
    BY DEF InFull
  <1>1. PICK n \in 1..3 : Len(g) = n
    BY DEF Grouped
  <1>2. PICK l \in Nat \ {0} : Digits(g) = [len |-> l, val |-> w]
    BY DEF Grouped
  <1>3. g \in Seq(Figures)
    BY DEF Grouped
  <1>4. PICK front : front = [i \in 1..(n - 1) |-> other] /\ t.seps = Then(front, mark)
    BY <1>0, <1>1 DEF Separators
  <1>5. PICK last : last = Group(p, x)
    OBVIOUS
  <1>6. /\ front \in Seq({other, mark}) /\ Len(front) = n - 1
        /\ \A i \in 1..(n - 1) : front[i] = other
    <2>1. front \in Seq({other}) /\ Len(front) = n - 1
      <3>1. front \in [1..(n - 1) -> {other}]
        BY <1>4
      <3> QED
        BY <3>1, Between
    <2>2. \A i \in 1..(n - 1) : front[i] = other
      BY <1>4
    <2> QED
      BY <2>1, <2>2
  <1>7. /\ t.seps \in Seq({other, mark}) /\ Len(t.seps) = n /\ t.seps[n] = mark
        /\ \A i \in 1..(n - 1) : t.seps[i] = other
    <2>1. /\ t.seps \in Seq({other, mark}) /\ Len(t.seps) = (n - 1) + 1
          /\ t.seps[(n - 1) + 1] = mark /\ \A i \in 1..(n - 1) : t.seps[i] = front[i]
      <3>1. mark \in {other, mark}
        OBVIOUS
      <3>2. /\ Then(front, mark) \in Seq({other, mark}) /\ Len(Then(front, mark)) = Len(front) + 1
            /\ Then(front, mark)[Len(front) + 1] = mark
            /\ \A i \in 1..Len(front) : Then(front, mark)[i] = front[i]
        BY <1>6, <3>1, OneMore
      <3> QED
        BY <1>4, <1>6, <3>2
    <2>2. (n - 1) + 1 = n
      OBVIOUS
    <2> QED
      BY <1>6, <2>1, <2>2
  <1>8. last \in Figures /\ last.len = p /\ last.val = x
    BY <1>5, GroupIs DEF Group
  <1>9. t.groups[n + 1] = last /\ SubSeq(t.groups, 1, n) = g
    <2>2. t.groups = Then(g, last)
      BY <1>0, <1>5
    <2>3. /\ t.groups \in Seq(Figures) /\ Len(t.groups) = n + 1
          /\ t.groups[n + 1] = last /\ \A i \in 1..n : t.groups[i] = g[i]
      <3>1. /\ Then(g, last) \in Seq(Figures) /\ Len(Then(g, last)) = Len(g) + 1
            /\ Then(g, last)[Len(g) + 1] = last /\ \A i \in 1..Len(g) : Then(g, last)[i] = g[i]
        BY <1>3, <1>8, OneMore
      <3> QED
        BY <1>1, <2>2, <3>1
    <2>4. /\ SubSeq(t.groups, 1, n) \in Seq(Figures) /\ Len(SubSeq(t.groups, 1, n)) = n
          /\ \A i \in 1..n : SubSeq(t.groups, 1, n)[i] = g[i]
      BY <2>3, SubSeqProperties
    <2> QED
      BY <1>1, <1>3, <2>3, <2>4, SeqEqual
  <1>10. Split(t) = SplitAt(t, n)
    <2>0. DOMAIN t.seps = 1..n
      <3>1. \A q \in Seq({other, mark}) : DOMAIN q = 1..Len(q)
        OBVIOUS
      <3> QED
        BY <1>7, <3>1
    <2>1. CASE n = 1
      <3>1. ToSet(t.seps) = {mark}
        <4>1. \A i : i \in 1..n <=> i = 1
          BY <2>1
        <4> QED
          BY <1>7, <2>0, <2>1, <4>1 DEF ToSet
      <3>2. Cardinality(ToSet(t.seps)) = 1
        BY <3>1, FS_Singleton
      <3>3. ~(t.groups[2].len >= 3)
        BY <1>8, <1>9, <2>1
      <3> QED
        BY <1>7, <2>1, <3>2, <3>3, SplitCases
    <2>2. CASE n # 1
      <3>1. ToSet(t.seps) = {other, mark}
        <4>1. 1 \in 1..(n - 1) /\ n \in 1..n /\ 1 \in 1..n
          BY <2>2
        <4>2. \A i \in 1..n : i = n \/ i \in 1..(n - 1)
          OBVIOUS
        <4> QED
          BY <1>7, <2>0, <4>1, <4>2 DEF ToSet
      <3>2. Cardinality(ToSet(t.seps)) = 2
        <4>1. PICK one : one = {other} /\ IsFiniteSet(one) /\ Cardinality(one) = 1
          BY FS_Singleton
        <4>2. mark \notin one
          BY <4>1
        <4>3. Cardinality(one \cup {mark}) = Cardinality(one) + 1
          BY <4>1, <4>2, FS_AddElement
        <4>4. ToSet(t.seps) = one \cup {mark}
          BY <3>1, <4>1
        <4>5. Cardinality(one) = 1
          BY <4>1
        <4> QED
          BY <4>3, <4>4, <4>5
      <3>3. n > 1 /\ n \in Nat
        BY <2>2
      <3> QED
        BY <1>7, <3>2, <3>3, SplitCases
    <2> QED
      BY <2>1, <2>2
  <1>11. SplitAt(t, n) = [integer |-> [len |-> l, val |-> w], decimal |-> last]
    BY <1>2, <1>9 DEF SplitAt
  <1>12. CASE Split(t) = Refused
    BY <1>12 DEF parseMoneyOrThrow
  <1>13. CASE Split(t) # Refused
    <2>1. w * 100 + x * 10^(2 - p) \in Int
      <3>1. 10^(2 - p) \in Nat
        <4>1. p = 1 => 10^(2 - p) = 10
          OBVIOUS
        <4>2. p = 2 => 10^(2 - p) = 1
          OBVIOUS
        <4> QED
          BY <4>1, <4>2
      <3> QED
        BY <3>1
    <2>2. PICK y \in Int : y = w * 100 + x * 10^(2 - p)
      BY <2>1
    <2>3. Split(t).integer.len = l /\ Split(t).integer.val = w /\ Split(t).decimal = last
      BY <1>10, <1>11
    <2>4. l # 0 /\ ~(last.len > 2)
      BY <1>8
    <2> QED
      <3>1. parseMoneyOrThrow(t) = (IF neg THEN -1 ELSE 1) * y
        BY <1>0, <1>8, <1>13, <2>2, <2>3, <2>4 DEF parseMoneyOrThrow
      <3>2. 1 * y = y /\ -1 * y = -y
        BY <2>2
      <3> QED
        BY <2>2, <3>1, <3>2 DEF Signed
  <1> QED
    BY <1>12, <1>13

\* An amount is written with no decimals, one or two.
LEMMA AmountsAre ==
  ASSUME NEW c \in Int, NEW t \in Amounts(c)
  PROVE  \E mark \in {"point", "comma"}, apart \in BOOLEAN :
           \/ t = WrittenAmount(c, mark, apart, 0) /\ (Magnitude(c) % 100) % 100 = 0
           \/ t = WrittenAmount(c, mark, apart, 1) /\ (Magnitude(c) % 100) % 10 = 0
           \/ t = WrittenAmount(c, mark, apart, 2)
  <1> DEFINE Exact(k) == (Magnitude(c) % 100) % 10^(2 - k) = 0
             Form(mark, apart, k) == WrittenAmount(c, mark, apart, k)
  <1>1. Amounts(c) = {Form(mark, apart, places) : mark \in {"point", "comma"}, apart \in BOOLEAN,
                                                  places \in {k \in 0..2 : Exact(k)}}
    BY DEF Amounts
  <1>2. (Exact(0) => (Magnitude(c) % 100) % 100 = 0) /\ (Exact(1) => (Magnitude(c) % 100) % 10 = 0)
    <2>1. 2 - 0 = 2 /\ 2 - 1 = 1 /\ 10^2 = 100 /\ 10^1 = 10
      OBVIOUS
    <2> QED
      BY <2>1
  <1> HIDE DEF Exact, Form
  <1>3. PICK mark \in {"point", "comma"}, apart \in BOOLEAN, k \in 0..2 :
          Exact(k) /\ t = Form(mark, apart, k)
    BY <1>1
  <1>4. k = 0 \/ k = 1 \/ k = 2
    OBVIOUS
  <1> QED
    BY <1>2, <1>3, <1>4 DEF Form

\* WrittenAmount in the terms of this section.
LEMMA WrittenAmountIs ==
  ASSUME NEW c, NEW mark, NEW apart, NEW k
  PROVE  LET other == IF mark = "point" THEN "comma" ELSE "point"
             g     == WholeGroups(Magnitude(c) \div 100, apart)
             seps  == Separators(Len(g), other)
         IN  WrittenAmount(c, mark, apart, k) =
               [negative |-> c < 0,
                groups |-> IF k = 0 THEN g ELSE Then(g, Group(k, (Magnitude(c) % 100) \div 10^(2 - k))),
                seps   |-> IF k = 0 THEN seps ELSE Then(seps, mark)]
  BY DEF WrittenAmount, WholeGroups, Separators, Then

\* An amount written without losing cents.
LEMMA AmountRead ==
  ASSUME NEW c \in Int, Magnitude(c) \div 100 < Billion, NEW t \in Amounts(c)
  PROVE  parseMoneyOrThrow(t) \in {c, Refused}
  <1>1. PICK mark \in {"point", "comma"}, apart \in BOOLEAN :
          \/ t = WrittenAmount(c, mark, apart, 0) /\ (Magnitude(c) % 100) % 100 = 0
          \/ t = WrittenAmount(c, mark, apart, 1) /\ (Magnitude(c) % 100) % 10 = 0
          \/ t = WrittenAmount(c, mark, apart, 2)
    BY AmountsAre
  <1>2. PICK w \in Nat, cents \in 0..99 :
          /\ w = Magnitude(c) \div 100 /\ w < Billion /\ cents = Magnitude(c) % 100
          /\ Magnitude(c) = w * 100 + cents
    <2>1. PICK m \in Nat : m = Magnitude(c)
      BY DEF Magnitude
    <2>2. m \div 100 < Billion
      BY <2>1
    <2>3. PICK w \in Nat, cents \in 0..99 :
            w = m \div 100 /\ w < Billion /\ cents = m % 100 /\ m = w * 100 + cents
      BY <2>2, BillionNat
    <2> QED
      BY <2>1, <2>3
  <1> DEFINE neg == c < 0
  <1>9. neg = (c < 0) /\ neg \in BOOLEAN
    OBVIOUS
  <1>10. \A v \in Int : v = Magnitude(c) => c = Signed(neg, v)
    BY DEF Magnitude, Signed
  <1> HIDE DEF neg
  <1>3. PICK other : other # mark /\ other = IF mark = "point" THEN "comma" ELSE "point"
    OBVIOUS
  <1>4. PICK g : g = WholeGroups(w, apart)
    OBVIOUS
  <1>5. Grouped(g, w)
    BY <1>2, <1>4, WholeGrouped
  <1>6. CASE t = WrittenAmount(c, mark, apart, 0) /\ (Magnitude(c) % 100) % 100 = 0
    <2>1. t.negative = neg /\ t.groups = g /\ t.seps = Separators(Len(g), other)
      BY <1>2, <1>3, <1>4, <1>6, <1>9, WrittenAmountIs
    <2>2. parseMoneyOrThrow(t) \in {Signed(neg, w * 100), Refused}
      <3>1. WholeFine(t, neg, w)
        BY <1>5, <1>9, <2>1, WholeRead, Zenon
      <3> QED
        BY <3>1 DEF WholeFine
    <2>3. cents = 0
      BY <1>2, <1>6
    <2> QED
      BY <1>2, <1>10, <2>2, <2>3
  <1>7. CASE t = WrittenAmount(c, mark, apart, 1) /\ (Magnitude(c) % 100) % 10 = 0
    <2>1. PICK x \in Nat : x = cents \div 10 /\ x * 10 = cents
      BY <1>2, <1>7
    <2>2. 2 - 1 = 1 /\ 10^1 = 10 /\ 1 \in 1..2
      OBVIOUS
    <2>3. /\ t.negative = neg /\ t.groups = Then(g, Group(1, x))
          /\ t.seps = Then(Separators(Len(g), other), mark)
      <3>1. WrittenAmount(c, mark, apart, 1) =
              [negative |-> neg, groups |-> Then(g, Group(1, x)),
               seps |-> Then(Separators(Len(g), other), mark)]
        <4>1. (Magnitude(c) % 100) \div 10^(2 - 1) = x /\ 1 # 0
          BY <1>2, <2>1, <2>2
        <4> QED
          BY <1>2, <1>3, <1>4, <1>9, <4>1, WrittenAmountIs
      <3> QED
        BY <1>7, <3>1
    <2>4. parseMoneyOrThrow(t) \in {Signed(neg, w * 100 + x * 10^(2 - 1)), Refused}
      <3>1. PICK p \in 1..2 : p = 1
        BY <2>2
      <3>2. DecimalsFine(t, neg, w, p, x)
        <4>1. InFull(t, neg, g, other, mark, p, x)
          BY <2>3, <3>1 DEF InFull
        <4>2. x \in Nat
          OBVIOUS
        <4> QED
          BY <1>3, <1>5, <1>9, <4>1, <4>2, DecimalRead, Zenon
      <3> QED
        BY <3>1, <3>2 DEF DecimalsFine
    <2> QED
      BY <1>2, <1>10, <2>1, <2>2, <2>4
  <1>8. CASE t = WrittenAmount(c, mark, apart, 2)
    <2>1. 2 - 2 = 0 /\ 10^0 = 1 /\ 2 \in 1..2 /\ cents \div 1 = cents /\ cents * 1 = cents
          /\ cents \in Nat
      OBVIOUS
    <2>2. /\ t.negative = neg /\ t.groups = Then(g, Group(2, cents))
          /\ t.seps = Then(Separators(Len(g), other), mark)
      <3>1. WrittenAmount(c, mark, apart, 2) =
              [negative |-> neg, groups |-> Then(g, Group(2, cents)),
               seps |-> Then(Separators(Len(g), other), mark)]
        <4>1. (Magnitude(c) % 100) \div 10^(2 - 2) = cents /\ 2 # 0
          BY <1>2, <2>1
        <4> QED
          BY <1>2, <1>3, <1>4, <1>9, <4>1, WrittenAmountIs
      <3> QED
        BY <1>8, <3>1
    <2>3. parseMoneyOrThrow(t) \in {Signed(neg, w * 100 + cents * 10^(2 - 2)), Refused}
      <3>1. PICK p \in 1..2 : p = 2
        BY <2>1
      <3>2. DecimalsFine(t, neg, w, p, cents)
        <4>1. InFull(t, neg, g, other, mark, p, cents)
          BY <2>2, <3>1 DEF InFull
        <4>2. cents \in Nat
          OBVIOUS
        <4> QED
          BY <1>3, <1>5, <1>9, <4>1, <4>2, DecimalRead, Zenon
      <3> QED
        BY <3>1, <3>2 DEF DecimalsFine
    <2> QED
      BY <1>2, <1>10, <2>1, <2>3
  <1> QED
    BY <1>1, <1>6, <1>7, <1>8

\* A date in either form.
LEMMA DateRead ==
  ASSUME NEW m \in Nat, NEW t \in Dates(m \div 10000, (m \div 100) % 100, m % 100)
  PROVE  parseDateOrThrow(t) \in {m, Refused}
  <1>1. PICK y \in Nat, mo \in Nat, d \in Nat :
          y = m \div 10000 /\ mo = (m \div 100) % 100 /\ d = m % 100
    OBVIOUS
  <1>2. y * 10000 + mo * 100 + d = m
    BY <1>1
  <1>3. parseDateOrThrow(t) = buildDateOrThrow(y, mo, d)
    <2>1. t \in Dates(y, mo, d)
      BY <1>1
    <2>2. CASE t = [form |-> "YYYY-MM-DD", parts |-> <<y, mo, d>>]
      BY <2>2 DEF parseDateOrThrow
    <2>3. CASE t = [form |-> "DD/MM/YYYY", parts |-> <<d, mo, y>>]
      BY <2>3 DEF parseDateOrThrow
    <2> QED
      BY <2>1, <2>2, <2>3 DEF Dates
  <1> QED
    BY <1>2, <1>3 DEF buildDateOrThrow

\* Each kind of field reads back what was meant, or refuses it.
LEMMA ParseRead ==
  ASSUME NEW f \in DOMAIN FieldKind, NEW m, NEW t \in Written(f, m)
  PROVE  Parse(f, t) \in {m, Refused}
  <1>1. FieldKind[f] \in {"text", "date", "money"}
    BY DEF FieldKind
  <1>2. CASE FieldKind[f] = "text"
    <2>1. /\ m \in [word : STRING, small : BOOLEAN] /\ (f = "currency" => ~m.small)
          /\ t \in Texts(f, m)
      BY <1>2 DEF Written
    <2>2. m = [word |-> m.word, small |-> m.small]
      BY <2>1
    <2>3. /\ t.word = m.word /\ t.small \in BOOLEAN
          /\ f # "currency" => t.small = m.small
      BY <2>1 DEF Texts
    <2>4. parseText(f, t) = m
      BY <2>1, <2>2, <2>3 DEF parseText
    <2> QED
      BY <1>2, <2>4 DEF Parse
  <1>3. CASE FieldKind[f] = "date"
    <2>1. m \in Nat /\ t \in Dates(m \div 10000, (m \div 100) % 100, m % 100)
      BY <1>3 DEF Written
    <2> QED
      BY <1>3, <2>1, DateRead DEF Parse
  <1>4. CASE FieldKind[f] = "money"
    <2>1. m \in Int /\ Magnitude(m) \div 100 < Billion /\ t \in Amounts(m)
      BY <1>4 DEF Written, Billion
    <2> QED
      BY <1>4, <2>1, AmountRead DEF Parse
  <1> QED
    BY <1>1, <1>2, <1>3, <1>4

\* Whatever is typed for a value is stored as it, or refused.
LEMMA ParsedFine ==
  ASSUME NEW e \in Entry
  PROVE  Parsed(e) = "another value" => Parsed(e) = Refused
  <1>1. e.field \in DOMAIN FieldKind /\ e.text \in Written(e.field, e.meant)
    BY ScreensAssumption
  <1>2. Parse(e.field, e.text) \in {e.meant, Refused}
    BY <1>1, ParseRead
  <1> QED
    BY <1>2 DEF Parsed

\* What a save carries, and what is stored, is no other value than the one meant.
MeantInv ==
  /\ \A s \in saves : DOMAIN s = SaveFields /\ (s.value = "another value" => s.value = Refused)
  /\ DOMAIN stored = Invoice /\ ValueAsMeant

LEMMA MeantInit == Init => MeantInv
  <1> SUFFICES ASSUME Init PROVE MeantInv
    OBVIOUS
  <1>1. saves = {} /\ stored = [i \in Invoice |-> Null]
    BY DEF Init
  <1> QED
    BY <1>1, ScreensAssumption DEF MeantInv, ValueAsMeant

LEMMA MeantStep == ASSUME MeantInv, [Next]_vars PROVE MeantInv'
  <1>1. ASSUME NEW x \in Sent, Save(x) PROVE MeantInv'
    <2>0. x.value = "another value" => x.value = Refused
      <3>1. PICK e \in Entry : x = [field |-> e.field, value |-> Parsed(e)]
        BY DEF Sent
      <3>2. x.value = Parsed(e)
        BY <3>1
      <3> QED
        BY <3>2, ParsedFine
    <2>1. /\ UNCHANGED stored
          /\ \E n : saves' = saves \cup {[n |-> n, of |-> view["invoice"].of, field |-> x.field,
                                          mount |-> mount, value |-> x.value, held |-> TRUE,
                                          answer |-> Null]}
      BY <1>1 DEF Save
    <2>2. PICK n, v, o, m : /\ v = "another value" => v = Refused
                            /\ saves' = saves \cup {[n |-> n, of |-> o, field |-> x.field, mount |-> m,
                                                     value |-> v, held |-> TRUE, answer |-> Null]}
      BY <2>0, <2>1
    <2>3. PICK r : /\ DOMAIN r = SaveFields /\ (r.value = "another value" => r.value = Refused)
                   /\ saves' = saves \cup {r}
      BY <2>2 DEF SaveFields
    <2> QED
      BY <2>1, <2>3 DEF MeantInv, ValueAsMeant
  <1>2. ASSUME NEW s \in saves, Correct(s) PROVE MeantInv'
    <2>1. \E a : saves' = (saves \ {s}) \cup {[s EXCEPT !.answer = a]}
      BY <1>2 DEF Correct
    <2>2. \A r \in saves' : DOMAIN r = SaveFields /\ (r.value = "another value" => r.value = Refused)
      BY <2>1 DEF MeantInv, SaveFields
    <2>3. CASE s.value = Refused
      <3>1. UNCHANGED stored
        BY <1>2, <2>3 DEF Correct
      <3> QED
        BY <2>2, <3>1 DEF MeantInv, ValueAsMeant
    <2>4. CASE s.value # Refused
      <3>1. stored' = [stored EXCEPT ![s.of] = s.value]
        BY <1>2, <2>4 DEF Correct
      <3>2. s.value # "another value"
        BY <2>4 DEF MeantInv
      <3> QED
        BY <2>2, <3>1, <3>2 DEF MeantInv, ValueAsMeant
    <2> QED
      BY <2>3, <2>4
  <1>3. CASE \/ \E c \in calls : Answer(c) \/ Land(c) \/ Fail(c)
             \/ \E i \in Invoice : Open(i) \/ Elsewhere(i)
             \/ Leave
             \/ \E s \in saves : SaveLands(s) \/ SaveFails(s)
             \/ UNCHANGED vars
    <2>1. UNCHANGED stored
      BY <1>3 DEF Answer, Land, Fail, Open, Elsewhere, Leave, SaveLands, SaveFails, vars, page
    <2>2. \/ saves' \subseteq saves
          \/ saves' = Unmounted(saves)
          \/ \E s \in saves : saves' = Unmounted(saves \ {s})
      BY <1>3 DEF Answer, Land, Fail, Open, Elsewhere, Leave, SaveLands, SaveFails, vars, page
    <2>3. \A u \in saves' : \E q \in saves : DOMAIN u = SaveFields /\ u.value = q.value
      <3>1. \A S : S \subseteq saves =>
              \A u \in Unmounted(S) : \E q \in S : DOMAIN u = SaveFields /\ u.value = q.value
        BY UnmountedFacts DEF MeantInv
      <3>2. PICK S : S \subseteq saves /\ (saves' = S \/ saves' = Unmounted(S))
        BY <2>2
      <3>3. CASE saves' = S
        BY <3>2, <3>3 DEF MeantInv
      <3>4. CASE saves' = Unmounted(S)
        BY <3>1, <3>2, <3>4
      <3> QED
        BY <3>2, <3>3, <3>4
    <2> QED
      BY <2>1, <2>3 DEF MeantInv, ValueAsMeant
  <1> QED
    BY <1>1, <1>2, <1>3 DEF Next, Browse

\* An amount of either sign, with either decimal mark, its thousands apart or not and the
\* decimals it needs or more, a date in ISO form or day first, and a text or currency with
\* blanks around it are never stored as another value than the one meant.
THEOREM SpecValueAsMeant == Spec => []ValueAsMeant
  <1>1. MeantInv => ValueAsMeant
    BY DEF MeantInv
  <1> QED
    BY <1>1, MeantInit, MeantStep, PTL DEF Spec

-----------------------------------------------------------------------------
(* The cost assignment.                                                    *)

CallDomain == {"n", "by", "line", "gl", "cc", "pc"}

\* A call under way is about one of the lines.
CodingInv == \A k \in coding : DOMAIN k = CallDomain /\ k.line \in Line

Unchecked == \A k \in coding : k.pc # "write"
AllCoded  == row = counted /\ \A l \in Line : IsCoded(row[l])

\* From the count on, and once posted, nothing has moved unless a call overlapped.
PostingInv ==
  /\ posting \in {"idle", "count", "write"} /\ status \in {"APPROVED", "POSTED"}
  /\ posting # "idle" => status = "APPROVED"
  /\ posting = "write" /\ ~overlap => AllCoded /\ Unchecked
  /\ status = "POSTED" /\ ~overlap => AllCoded /\ Unchecked

CostInv == DOMAIN row = Line /\ CodingInv /\ PostingInv

LEMMA CostInit == CodingInit => CostInv
  BY DEF CodingInit, CostInv, CodingInv, PostingInv

\* Where no row, no ghost and no status moves, calls may come and go.
LEMMA CostIdle ==
  ASSUME CostInv, UNCHANGED <<row, status, posting, counted, overlap>>, CodingInv',
         Unchecked => Unchecked'
  PROVE  CostInv'
  BY DEF CostInv, PostingInv, AllCoded

LEMMA CostCall ==
  ASSUME CostInv, NEW who, NEW l \in Line, NEW h, Call(who, l, h),
         UNCHANGED <<status, row, post>>
  PROVE  CostInv'
  <1> DEFINE new == [n |-> asked, by |-> who, line |-> l, gl |-> h.gl, cc |-> h.cc, pc |-> "check"]
  <1>1. DOMAIN new = CallDomain /\ new.line = l /\ new.pc = "check"
    BY DEF CallDomain
  <1>2. coding' = coding \cup {new}
    BY DEF Call
  <1> HIDE DEF new
  <1>3. CodingInv' /\ (Unchecked => Unchecked')
    BY <1>1, <1>2 DEF CostInv, CodingInv, Unchecked
  <1> QED
    BY <1>3, CostIdle DEF post

\* A call that is answered, refused or fails is gone.
LEMMA CostCallEnds ==
  ASSUME CostInv, NEW k \in coding,
         \/ AssertCodeable(k) /\ status \in {"POSTED", "PAID"}
         \/ UnknownMaster(k) \/ Saved(k) \/ CallFails(k)
  PROVE  CostInv'
  <1>1. UNCHANGED <<status, row, post>> /\ coding' = coding \ {k}
    BY DEF AssertCodeable, UnknownMaster, Saved, CallFails, Refuse
  <1>2. CodingInv' /\ (Unchecked => Unchecked')
    BY <1>1 DEF CostInv, CodingInv, Unchecked
  <1> QED
    BY <1>1, <1>2, CostIdle DEF post

\* A call passes its check only while the invoice is not posted, and then it overlaps the
\* posting that has counted.
LEMMA CostCheck ==
  ASSUME CostInv, NEW k \in coding, AssertCodeable(k), status \notin {"POSTED", "PAID"}
  PROVE  CostInv'
  <1>1. /\ coding' = (coding \ {k}) \cup {[k EXCEPT !.pc = "write"]}
        /\ overlap' = (overlap \/ posting = "write")
        /\ UNCHANGED <<status, row, posting, counted>>
    BY DEF AssertCodeable
  <1>2. CodingInv'
    BY <1>1 DEF CostInv, CodingInv, CallDomain
  <1> QED
    BY <1>1, <1>2 DEF CostInv, PostingInv

\* A line is written only by a call past its check.
LEMMA CostWrite ==
  ASSUME CostInv, NEW k \in coding, WriteLine(k) PROVE CostInv'
  <1>1. /\ k.pc = "write" /\ row' = [row EXCEPT ![k.line] = Assigned(k)]
        /\ coding' = (coding \ {k}) \cup {[k EXCEPT !.pc = "answer"]}
        /\ UNCHANGED <<status, posting, counted, overlap>>
    BY DEF WriteLine, post
  <1>2. CodingInv'
    BY <1>1 DEF CostInv, CodingInv, CallDomain
  <1>3. DOMAIN row' = Line
    BY <1>1 DEF CostInv
  <1>4. ~Unchecked
    BY <1>1 DEF Unchecked
  <1> QED
    BY <1>1, <1>2, <1>3, <1>4 DEF CostInv, PostingInv

LEMMA CostPosting ==
  ASSUME CostInv, PostInvoice \/ CountUncoded \/ WritePosting PROVE CostInv'
  <1>1. UNCHANGED <<row, coding>>
    BY DEF PostInvoice, CountUncoded, WritePosting
  <1>2. (DOMAIN row = Line)' /\ CodingInv'
    BY <1>1 DEF CostInv, CodingInv
  <1>3. CASE PostInvoice
    BY <1>1, <1>2, <1>3 DEF CostInv, PostingInv, PostInvoice, AllCoded, Unchecked
  <1>4. CASE CountUncoded
    <2>1. status' = status /\ status = "APPROVED"
      BY <1>4 DEF CountUncoded, CostInv, PostingInv
    <2>2. CASE UncodedLines = {}
      <3>1. /\ posting' = "write" /\ counted' = row
            /\ overlap' = \E k \in coding : k.pc = "write"
        BY <1>4, <2>2 DEF CountUncoded
      <3>2. \A l \in Line : IsCoded(row[l])
        BY <2>2 DEF UncodedLines, IsCoded
      <3> QED
        BY <1>1, <1>2, <2>1, <3>1, <3>2 DEF CostInv, PostingInv, AllCoded, Unchecked
    <2>3. CASE UncodedLines # {}
      <3>1. posting' = "idle"
        BY <1>4, <2>3 DEF CountUncoded
      <3> QED
        BY <1>2, <2>1, <3>1 DEF CostInv, PostingInv
    <2> QED
      BY <2>2, <2>3
  <1>5. CASE WritePosting
    BY <1>1, <1>2, <1>5 DEF CostInv, PostingInv, WritePosting, AllCoded, Unchecked
  <1> QED
    BY <1>3, <1>4, <1>5

LEMMA CostRest ==
  ASSUME CostInv,
         \/ \E p \in Person :
              \/ OpenEditor(p) \/ CloseEditor(p) \/ ApplyToAll(p)
              \/ \E l \in Line : \/ \E a \in Account : ChooseAccount(p, l, a)
                                 \/ \E c \in Centre : ChooseCentre(p, l, c)
         \/ \E x \in Account \cup Centre : Upsert(x)
         \/ UNCHANGED cvars
  PROVE  CostInv'
  <1>1. UNCHANGED <<row, coding, status, posting, counted, overlap>>
    BY DEF OpenEditor, CloseEditor, ApplyToAll, ChooseAccount, ChooseCentre, Draft, Upsert,
           post, cvars
  <1>2. CodingInv' /\ (Unchecked => Unchecked')
    BY <1>1 DEF CostInv, CodingInv, Unchecked
  <1> QED
    BY <1>1, <1>2, CostIdle

LEMMA CostNext == ASSUME CostInv, [CodingNext]_cvars PROVE CostInv'
  <1>1. ASSUME NEW p \in Person, NEW l \in Line, SaveLine(p, l) PROVE CostInv'
    <2>1. Call(p, l, Shown(p, l)) /\ UNCHANGED <<status, row, post>>
      BY <1>1 DEF SaveLine
    <2> QED
      BY <2>1, CostCall
  <1>2. ASSUME NEW l \in Line, NEW h \in Half, RobotCodes(l, h) PROVE CostInv'
    <2>1. Call(Robot, l, h) /\ UNCHANGED <<status, row, post>>
      BY <1>2 DEF RobotCodes
    <2> QED
      BY <2>1, CostCall
  <1> QED
    BY <1>1, <1>2, CostCallEnds, CostCheck, CostWrite, CostPosting, CostRest DEF CodingNext

\* A document posted while no call of codeLine stood between its check and its write is
\* coded in full, and stays as it was counted.
THEOREM CodingPostedAsCounted == CodingSpec => []PostedAsCounted
  <1>1. CostInv => PostedAsCounted
    BY DEF CostInv, PostingInv, AllCoded, PostedAsCounted
  <1> QED
    BY <1>1, CostInit, CostNext, PTL DEF CodingSpec

-----------------------------------------------------------------------------
(* The tab.                                                                *)

\* Whoever is being asked for is not named yet, and nobody is while signed out.
OneName == /\ asking # NoUser => signedIn /\ me = NoUser
           /\ ~signedIn => me = NoUser

LEMMA OneNameNext == ASSUME OneName, [TabNext]_tvars PROVE OneName'
  <1>1. CASE UNCHANGED <<token, signedIn, asking, me>>
    BY <1>1 DEF OneName
  <1>2. ASSUME NEW u \in User, TokenArrives(u) PROVE OneName'
    BY <1>2 DEF OneName, TokenArrives
  <1>3. CASE MeAnswers
    BY <1>3 DEF OneName, MeAnswers
  <1>4. CASE MeFails \/ SignOut
    BY <1>4 DEF OneName, MeFails, SignOut
  <1> QED
    BY <1>1, <1>2, <1>3, <1>4
    DEF TabNext, tvars, session, StepArrives, StepLeaves, Submit,
        SubmitFails, PollStarts, ServerAnswers, PollLands, PollFails

LEMMA NameStays ==
  ASSUME OneName, [TabNext]_tvars, Agrees, ~Agrees'
  PROVE  signedIn /\ signedIn' /\ token' # token
  <1> USE DEF Agrees, Named, OneName
  <1>1. CASE UNCHANGED <<token, signedIn, asking, me>>
    BY <1>1
  <1>2. ASSUME NEW u \in User, TokenArrives(u)
        PROVE  signedIn /\ signedIn' /\ token' # token
    BY <1>2 DEF TokenArrives
  <1>3. CASE MeAnswers
    BY <1>3 DEF MeAnswers
  <1>4. CASE MeFails \/ SignOut
    BY <1>4 DEF MeFails, SignOut
  <1> QED
    BY <1>1, <1>2, <1>3, <1>4
    DEF TabNext, tvars, session, StepArrives, StepLeaves, Submit,
        SubmitFails, PollStarts, ServerAnswers, PollLands, PollFails

\* Whatever is asked, answered, refused and signed out in whatever order: the name on the
\* screen parts from the token only when the answer to an earlier submit replaces it.
THEOREM TabNameFollowsToken == TabSpec => NameFollowsToken
  <1>1. TabInit => OneName
    BY DEF TabInit, OneName
  <1>2. OneName /\ [TabNext]_tvars => OneName'
    BY OneNameNext
  <1>3. OneName /\ [TabNext]_tvars
          => [Agrees /\ ~Agrees' => signedIn /\ signedIn' /\ token' # token]_tvars
    BY NameStays
  <1> QED
    BY <1>1, <1>2, <1>3, PTL DEF TabSpec, NameFollowsToken
=============================================================================
