---------------------------- MODULE CostAssignment ----------------------------
(***************************************************************************)
(* Charging the lines of an approved invoice to accounts and cost centres, *)
(* and posting it: coding.service.ts, posting.service.ts and the editor of *)
(* CostAssignmentPage.tsx.                                                 *)
(*                                                                         *)
(* Several people may have the editor open; each fills in a draft over the *)
(* lines as they were loaded, and a save sends both halves of one line.    *)
(* Other clients of the API may assign one half, both, or clear a line.    *)
(* Choosing the blank entry of a select, which only disables the button,   *)
(* is left out.                                                            *)
(* codeLine and post are several statements each, which interleave.        *)
(***************************************************************************)
EXTENDS Integers, FiniteSets, TLC

CONSTANTS
  Line,        \* lines of the invoice
  Account, Centre,
  Person,      \* people with an editor
  Robot,       \* another client of the API
  Nothing,     \* null: half a line without a value
  PastUses,    \* PastUses[<<a, c>>]: lines of the vendor's other invoices charged so
  MaxChoices,  \* bound on choices made in editors
  MaxCalls     \* bound on calls of codeLine

ASSUME CodingAssumption ==
  /\ Robot \notin Person /\ Nothing \notin Account \cup Centre
  /\ PastUses \in [DOMAIN PastUses -> Nat \ {0}] /\ DOMAIN PastUses \subseteq Account \X Centre
  /\ MaxChoices \in Nat /\ MaxCalls \in Nat

VARIABLES
  synced,    \* accounts and cost centres on file
  status,    \* of the invoice
  row,       \* row[l]: account, code and cost centre of line l
  editor,    \* of each person: closed, or the lines loaded and the draft over them
  saving,    \* of each person: the line whose button says Saving, or Nothing
  coding,    \* calls of codeLine under way
  posting,   \* the statement a posting stands at
  counted,   \* the lines as the latest posting that found them coded counted them
  overlap,   \* a call of codeLine stood between its check and its write while that posting
             \* stood between its count and its update
  asked,     \* calls of codeLine so far
  choices

cvars == <<synced, status, row, editor, saving, coding, posting, counted, overlap, asked, choices>>
post  == <<posting, counted, overlap>>
desk  == <<editor, saving, choices>>

Half     == [gl : Account \cup {Nothing}, cc : Centre \cup {Nothing}]
Uncoded  == [gl |-> Nothing, code |-> Nothing, cc |-> Nothing]
NoDraft  == [l \in Line |-> [gl |-> Nothing, cc |-> Nothing]]
Closed   == [open |-> FALSE, lines |-> [l \in Line |-> Uncoded], draft |-> NoDraft]

-----------------------------------------------------------------------------
(* The queries.                                                            *)

IsCoded(r) == r.gl # Nothing /\ r.cc # Nothing
CodingStatus(rows) ==
  LET coded == {l \in Line : IsCoded(rows[l])}
  IN  [total |-> Cardinality(Line), coded |-> Cardinality(coded),
       complete |-> Line # {} /\ coded = Line]

\* findAwaitingCoding
AwaitingCoding == /\ status \in {"NEEDS_REVIEW", "EXCEPTION", "PENDING_APPROVAL", "APPROVED"}
                  /\ CodingStatus(row).total > 0 /\ ~CodingStatus(row).complete

\* Mutant of UncodedLines: a line with one half counts as coded.
UncodedLinesBoth == {l \in Line : row[l].gl = Nothing /\ row[l].cc = Nothing}

\* uncodedLineCount: lines missing either half.
UncodedLines == {l \in Line : row[l].gl = Nothing \/ row[l].cc = Nothing}

\* suggestForInvoice: three of the assignments used most for this vendor before.
Suggestions ==
  {S \in SUBSET DOMAIN PastUses :
     /\ Cardinality(S) = IF Cardinality(DOMAIN PastUses) < 3 THEN Cardinality(DOMAIN PastUses) ELSE 3
     /\ \A s \in S, t \in DOMAIN PastUses \ S : PastUses[s] >= PastUses[t]}

-----------------------------------------------------------------------------
(* The editor.                                                             *)

\* The page lists the invoice, and the editor loads its lines.
OpenEditor(p) ==
  /\ ~editor[p].open /\ AwaitingCoding
  /\ editor' = [editor EXCEPT ![p] = [open |-> TRUE, lines |-> row, draft |-> NoDraft]]
  /\ saving' = [saving EXCEPT ![p] = Nothing]
  /\ UNCHANGED <<synced, status, row, coding, post, asked, choices>>

CloseEditor(p) ==
  /\ editor[p].open
  /\ editor' = [editor EXCEPT ![p] = Closed] /\ saving' = [saving EXCEPT ![p] = Nothing]
  /\ UNCHANGED <<synced, status, row, coding, post, asked, choices>>

Draft(p, l, d) ==
  /\ editor[p].open /\ choices < MaxChoices /\ choices' = choices + 1
  /\ editor' = [editor EXCEPT ![p].draft[l] = d]
  /\ UNCHANGED <<synced, status, row, saving, coding, post, asked>>

ChooseAccount(p, l, a) == a \in synced /\ Draft(p, l, [editor[p].draft[l] EXCEPT !.gl = a])
ChooseCentre(p, l, c)  == c \in synced /\ Draft(p, l, [editor[p].draft[l] EXCEPT !.cc = c])

\* "Applies a suggestion to every uncoded line at once": to every line.
ApplyToAll(p) ==
  /\ editor[p].open /\ choices < MaxChoices /\ choices' = choices + 1
  /\ \E S \in Suggestions : \E s \in S :
       editor' = [editor EXCEPT ![p].draft = [l \in Line |-> [gl |-> s[1], cc |-> s[2]]]]
  /\ UNCHANGED <<synced, status, row, saving, coding, post, asked>>

\* What the selects of a line show: the draft over the line as it was loaded.
Shown(p, l) ==
  LET d == editor[p].draft[l]  r == editor[p].lines[l]
  IN  [gl |-> IF d.gl # Nothing THEN d.gl ELSE r.gl, cc |-> IF d.cc # Nothing THEN d.cc ELSE r.cc]

Call(who, l, h) ==
  /\ asked < MaxCalls /\ asked' = asked + 1
  /\ coding' = coding \cup {[n |-> asked, by |-> who, line |-> l, gl |-> h.gl, cc |-> h.cc, pc |-> "check"]}

SaveLine(p, l) ==
  /\ editor[p].open /\ IsCoded(Shown(p, l)) /\ saving[p] # l
  /\ Call(p, l, Shown(p, l))
  /\ saving' = [saving EXCEPT ![p] = l]
  /\ UNCHANGED <<synced, status, row, editor, post, choices>>

\* Any other client, which may send one half or none.
RobotCodes(l, h) ==
  /\ Call(Robot, l, h)
  /\ UNCHANGED <<synced, status, row, editor, saving, post, choices>>

-----------------------------------------------------------------------------
(* codeLine.                                                               *)

\* The editor that made the call shows the error and keeps its draft.
Refuse(k) ==
  /\ coding' = coding \ {k}
  /\ saving' = [p \in Person |-> IF p = k.by THEN Nothing ELSE saving[p]]
  /\ UNCHANGED <<synced, status, row, editor, post, asked, choices>>

Moves(k, l) == coding' = (coding \ {k}) \cup {[k EXCEPT !.pc = l]}

AssertCodeable(k) ==
  /\ k.pc = "check"
  /\ IF status \in {"POSTED", "PAID"} THEN Refuse(k)
     ELSE /\ coding' = (coding \ {k}) \cup {[k EXCEPT !.pc = "write"]}
          /\ overlap' = (overlap \/ posting = "write")
          /\ UNCHANGED <<synced, status, row, desk, posting, counted, asked>>

\* requireGlAccount, requireCostCenter: "validate against synced master data".  Rows are
\* only ever added, so this goes with the UPDATE it guards.
Known(k) == {k.gl, k.cc} \ {Nothing} \subseteq synced

UnknownMaster(k) == k.pc = "write" /\ ~Known(k) /\ Refuse(k)

\* A half that is not given is cleared; the printed code follows the account.
Assigned(k) == [gl |-> k.gl, code |-> k.gl, cc |-> k.cc]

\* By the line's id, whatever the invoice's status is by now.
WriteLine(k) ==
  /\ k.pc = "write" /\ Known(k)
  /\ row' = [row EXCEPT ![k.line] = Assigned(k)]
  /\ coding' = (coding \ {k}) \cup {[k EXCEPT !.pc = "answer"]}
  /\ UNCHANGED <<synced, status, desk, post, asked>>

\* The page reloads its queue: the editor is gone, with what was drafted in it for other
\* lines, and mounts again if the invoice is still listed.
Saved(k) ==
  /\ k.pc = "answer"
  /\ coding' = coding \ {k}
  /\ editor' = [p \in Person |->
                  IF p # k.by \/ ~editor[p].open THEN editor[p]
                  ELSE IF AwaitingCoding THEN [open |-> TRUE, lines |-> row, draft |-> NoDraft]
                  ELSE Closed]
  /\ saving' = [p \in Person |-> IF p = k.by THEN Nothing ELSE saving[p]]
  /\ UNCHANGED <<synced, status, row, post, asked, choices>>

\* A statement of the call fails, or its answer is lost: what was written stays written,
\* also when it is the audit event after the UPDATE that failed.
CallFails(k) == Refuse(k)

-----------------------------------------------------------------------------
(* Master data and the posting.                                            *)

\* upsertGlAccount, upsertCostCenter: by code, so a row keeps its id.
Upsert(x) ==
  /\ synced' = synced \cup {x} /\ x \notin synced
  /\ UNCHANGED <<status, row, desk, coding, post, asked>>

PostInvoice ==
  /\ posting = "idle" /\ status = "APPROVED"
  /\ posting' = "count"
  /\ UNCHANGED <<synced, status, row, desk, coding, counted, overlap, asked>>

CountUncoded ==
  /\ posting = "count"
  /\ IF UncodedLines = {}
       THEN /\ posting' = "write" /\ counted' = row
            /\ overlap' = \E k \in coding : k.pc = "write"
       ELSE posting' = "idle" /\ UNCHANGED <<counted, overlap>>
  /\ UNCHANGED <<synced, status, row, desk, coding, asked>>

\* By the invoice's id alone.
WritePosting ==
  /\ posting = "write"
  /\ posting' = "idle" /\ status' = "POSTED"
  /\ UNCHANGED <<synced, row, desk, coding, counted, overlap, asked>>

-----------------------------------------------------------------------------
\* The invoice has been approved; lines may have been coded before.
CodingInit ==
  /\ synced = UNION {{s[1], s[2]} : s \in DOMAIN PastUses}
  /\ status = "APPROVED"
  /\ row \in [Line -> {Uncoded} \cup {[gl |-> s[1], code |-> s[1], cc |-> s[2]] : s \in DOMAIN PastUses}]
  /\ editor = [p \in Person |-> Closed] /\ saving = [p \in Person |-> Nothing]
  /\ coding = {} /\ posting = "idle" /\ asked = 0 /\ choices = 0
  /\ counted = row /\ overlap = FALSE

CodingNext ==
  \/ \E p \in Person :
       \/ OpenEditor(p) \/ CloseEditor(p) \/ ApplyToAll(p)
       \/ \E l \in Line : \/ SaveLine(p, l)
                          \/ \E a \in Account : ChooseAccount(p, l, a)
                          \/ \E c \in Centre : ChooseCentre(p, l, c)
  \/ \E l \in Line, h \in Half : RobotCodes(l, h)
  \/ \E k \in coding : AssertCodeable(k) \/ UnknownMaster(k) \/ WriteLine(k) \/ Saved(k)
                       \/ CallFails(k)
  \/ \E x \in Account \cup Centre : Upsert(x)
  \/ PostInvoice \/ CountUncoded \/ WritePosting

CodingSpec == CodingInit /\ [][CodingNext]_cvars

-----------------------------------------------------------------------------
(* What the cost assignment promises.                                      *)

\* "only an approved, fully coded invoice can post", and "coding is blocked once an invoice
\* is posted": unless a call of codeLine was past its check while the posting was past its
\* count, the posted document has an account and a cost centre on every line, and those
\* the posting counted, whatever calls, failures and imports came before or come after.
PostedAsCounted ==
  status = "POSTED" /\ ~overlap => row = counted /\ \A l \in Line : IsCoded(row[l])

-----------------------------------------------------------------------------
(* What the code does not keep; see the README.                            *)

\* "Both are optional so a coder can set one half now and the other later": a call that
\* gives one half leaves the other as it was.
HalfKept ==
  [][\A k \in coding : WriteLine(k) =>
       /\ k.gl = Nothing /\ k.cc # Nothing => row'[k.line].gl = row[k.line].gl
       /\ k.cc = Nothing /\ k.gl # Nothing => row'[k.line].cc = row[k.line].cc]_cvars

\* The posted document has an account and a cost centre on every line.
PostedCoded == status = "POSTED" => \A l \in Line : IsCoded(row[l])

\* "Coding is blocked once an invoice is posted".
CodingFixed == [][status = "POSTED" => row' = row]_cvars

\* A save takes nothing from the drafts of the other lines.
DraftsKept ==
  [][\A k \in coding : Saved(k) =>
       \A p \in Person, l \in Line \ {k.line} :
         p = k.by /\ editor[p].draft[l] # NoDraft[l] => editor'[p].draft[l] # NoDraft[l]]_cvars
=============================================================================
