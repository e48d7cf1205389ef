-------------------------- MODULE InvoiceLifecycle --------------------------
(***************************************************************************)
(* One invoice from extraction to posting: invoices.service.ts,            *)
(* posting.service.ts, the coding of its lines and the purchase order it   *)
(* cites, on top of the approval engine.                                   *)
(*                                                                         *)
(* As in ApprovalEngine one action is one awaited statement with the local *)
(* computation around it, and proc[w].pc is the statement the request w    *)
(* executes next; a handler calls the engine by pushing its own next label *)
(* on proc[w].ret.  job[w] holds the locals of these handlers.             *)
(*                                                                         *)
(* The columns the checks read (number, PO number, currency, subtotal) are *)
(* one value, invoice.figures; what duplicate detection and the PO match   *)
(* conclude of them, given the order on file, is the constant Check.       *)
(* invoice.match names the figures the stored match describes.             *)
(***************************************************************************)
EXTENDS ApprovalProperties

CONSTANTS
  Figures,   \* values of the check-feeding columns
  Blank,     \* ... of an invoice whose extraction failed
  Citing,    \* ... with the number of the order, which a duplicate may cite as well
  NoMatch,
  Order,     \* states of the purchase order the figures cite
  NoOrder,   \* ... before it is on file; none is ever deleted
  Check,     \* Check[f][o]: what runValidation concludes of figures f
  Field,     \* extracted header fields with a confidence
  Scored,    \* those ingest enters in fieldConfidence
  Feeding,   \* correctable fields that feed a check (revalidates: true)
  Total,     \* the field totalAmount
  Other,     \* correctable fields that are neither
  MaxEdits   \* bound on corrections, re-validations and order syncs

Verdicts == {"DUPLICATE_INVOICE", "MISSING_PO", "BLOCKED", "PO_MISMATCH", "CLEAN", "NO_PO"}
Matched  == {"BLOCKED", "PO_MISMATCH", "CLEAN"}              \* an order was found
Stops    == {"DUPLICATE_INVOICE", "MISSING_PO", "BLOCKED"}   \* park at EXCEPTION

\* Rows of invoice_exceptions: a blocked match inserts one for each of its reasons, and
\* one for the lines that deviate besides; a set of types for each way it may turn out.
Hard      == {"DUPLICATE_INVOICE", "MISSING_PO", "CURRENCY_MISMATCH", "GRN_MISMATCH"}
Exception == Hard \cup {"PO_MISMATCH"}
Blocking  == {"CURRENCY_MISMATCH", "GRN_MISMATCH"}
Raises(v) ==
  CASE v = "BLOCKED"            -> {S \in SUBSET (Blocking \cup {"PO_MISMATCH"}) : S \cap Blocking # {}}
    [] v \in Exception          -> {{v}}
    [] OTHER                    -> {{}}

Correctable == Feeding \cup {Total} \cup Other

ASSUME CheckAssumption ==
  /\ Check \in [Figures -> [Order -> Verdicts]]
  /\ \A f \in Figures, o \in Order :
       /\ Check[f][o] \in Matched \cup {"MISSING_PO"} => f \in Citing
       /\ Check[f][o] = "NO_PO" => f \notin Citing
  /\ Blank \in Figures \ Citing /\ NoMatch \notin Figures
ASSUME FieldAssumption ==
  /\ Scored \subseteq Field /\ Correctable \subseteq Field
  /\ Total \notin Feeding /\ Other \cap (Feeding \cup {Total}) = {}
ASSUME EditAssumption == MaxEdits \in Nat

VARIABLES open,    \* types of the unresolved rows of invoice_exceptions
          order,   \* the purchase order
          lines,   \* the line items: coded or not, a shaky one among them
          skipped, \* figures at each REVALIDATION_SKIPPED event
          posts,   \* ERP documents generated
          unsure,  \* what the extractor was unsure of and nobody has corrected
          edits,   \* corrections, re-validations and syncs so far
          job      \* locals of the requests in flight

records == <<open, order, lines, skipped, posts, unsure>>
lvars   == <<vars, records, edits, job>>

NoJob == [status |-> "none", low |-> {}, field |-> "none", forced |-> FALSE,
          clerk |-> FALSE, figures |-> Blank, result |-> "none"]
Hold(w, j) == job' = [job EXCEPT ![w] = j]

\* What the engine leaves alone; a request that ends drops its locals.
Drop(w) == Hold(w, IF proc'[w].pc = "idle" THEN NoJob ELSE job[w])
EngineRest == UNCHANGED <<instances, steps, overdue, logs>>
Within == edits < MaxEdits /\ edits' = edits + 1

Shaky == IF lines.shaky THEN {"line"} ELSE {}

-----------------------------------------------------------------------------
(* ingest, from the call to the extraction service on.                     *)

ExtractionFails(w) ==
  /\ At(w, "extract")
  /\ invoice' = [invoice EXCEPT !.status = "NEEDS_REVIEW"]
  /\ Return(w) /\ Drop(w)
  /\ EngineRest /\ UNCHANGED <<records, edits>>

\* The extracted columns, and NEEDS_REVIEW if a field or a line is doubtful;
\* fieldConfidence gets no entry for a field ingest does not score.
Extracted(w) ==
  /\ At(w, "extract")
  /\ \E f \in Figures \ {Blank}, a \in Amount, low \in SUBSET Field, shaky \in BOOLEAN :
       LET next == IF low # {} \/ shaky THEN "NEEDS_REVIEW" ELSE "VALIDATING"
       IN  /\ invoice' = [status |-> next, amount |-> a, figures |-> f,
                          match |-> NoMatch, low |-> low \cap Scored]
           /\ unsure' = low \cup (IF shaky THEN {"line"} ELSE {})
           /\ Hold(w, [NoJob EXCEPT !.status = next])
  /\ Goto(w, "insertLines")
  /\ EngineRest /\ UNCHANGED <<open, order, lines, skipped, posts, edits>>

\* No account yet; an invoice may have no line at all.
InsertLines(w) ==
  /\ At(w, "insertLines")
  /\ \E state \in {"uncoded"} \cup (IF "line" \in unsure THEN {} ELSE {"none"}) :
       lines' = [state |-> state, shaky |-> "line" \in unsure]
  /\ IF job[w].status = "VALIDATING" THEN Goto(w, "validate") ELSE Return(w)
  /\ Drop(w)
  /\ EngineRest /\ UNCHANGED <<invoice, open, order, skipped, posts, unsure, edits>>

-----------------------------------------------------------------------------
(* runValidation.                                                          *)

ValidateRead(w) ==
  /\ At(w, "validate")
  /\ Hold(w, [job[w] EXCEPT !.figures = invoice.figures])
  /\ Goto(w, "check")
  /\ EngineRest /\ UNCHANGED <<invoice, records, edits>>

\* The duplicate search, then the purchase order, both for the figures read.
CheckFigures(w) ==
  /\ At(w, "check")
  /\ Hold(w, [job[w] EXCEPT !.result = Check[job[w].figures][order]])
  /\ Goto(w, "match")
  /\ EngineRest /\ UNCHANGED <<invoice, records, edits>>

\* runPoMatch stores its conclusions when there is an order to match.
WriteMatch(w) ==
  /\ At(w, "match")
  /\ invoice' = IF job[w].result \in Matched
                THEN [invoice EXCEPT !.match = job[w].figures] ELSE invoice
  /\ Goto(w, "raise")
  /\ EngineRest /\ UNCHANGED <<records, edits, job>>

\* Mutant of RaiseException: a disagreement of currencies records nothing.
RaiseExceptionMismatch(w) ==
  /\ At(w, "raise")
  /\ \E rows \in Raises(job[w].result) : open' = open \cup (rows \ {"CURRENCY_MISMATCH"})
  /\ Goto(w, "route")
  /\ EngineRest /\ UNCHANGED <<invoice, order, lines, skipped, posts, unsure, edits, job>>

RaiseException(w) ==
  /\ At(w, "raise")
  /\ \E rows \in Raises(job[w].result) : open' = open \cup rows
  /\ Goto(w, "route")
  /\ EngineRest /\ UNCHANGED <<invoice, order, lines, skipped, posts, unsure, edits, job>>

\* Mutant of RouteInvoice: an approved invoice goes back to the engine as approved.
RouteInvoiceApproved(w) ==
  /\ At(w, "route")
  /\ IF job[w].result \in Stops
     THEN invoice' = [invoice EXCEPT !.status = "EXCEPTION"] /\ Return(w)
     ELSE /\ invoice' = IF invoice.status = "APPROVED" THEN invoice
                        ELSE [invoice EXCEPT !.status = "PENDING_APPROVAL"]
          /\ Goto(w, "start")
  /\ Hold(w, NoJob)
  /\ EngineRest /\ UNCHANGED <<records, edits>>

\* A hard stop parks the invoice, anything else goes to the approval engine.
RouteInvoice(w) ==
  /\ At(w, "route")
  /\ IF job[w].result \in Stops
     THEN invoice' = [invoice EXCEPT !.status = "EXCEPTION"] /\ Return(w)
     ELSE invoice' = [invoice EXCEPT !.status = "PENDING_APPROVAL"] /\ Goto(w, "start")
  /\ Hold(w, NoJob)
  /\ EngineRest /\ UNCHANGED <<records, edits>>

-----------------------------------------------------------------------------
(* revalidate: forced from its endpoint, not forced from the handlers that *)
(* call it.                                                                *)

RequestRevalidation(w) ==
  /\ At(w, "idle") /\ Within
  /\ Set(w, [Idle EXCEPT !.pc = "revalidate"])
  /\ Hold(w, [NoJob EXCEPT !.forced = TRUE])
  /\ EngineRest /\ UNCHANGED <<invoice, records>>

RevalidateRead(w) ==
  /\ At(w, "revalidate")
  /\ Hold(w, [job[w] EXCEPT !.status = invoice.status, !.low = invoice.low])
  /\ Goto(w, "decide")
  /\ EngineRest /\ UNCHANGED <<invoice, records, edits>>

\* Mutant of Revalidatable: a posted invoice may be re-validated.
RevalidatablePosted == {"EXCEPTION", "NEEDS_REVIEW", "PENDING_APPROVAL", "APPROVED", "POSTED"}

Revalidatable == {"EXCEPTION", "NEEDS_REVIEW", "PENDING_APPROVAL", "APPROVED"}

\* Mutant of Proceeds: the gate reads the header fields only.
ProceedsBlob(j) == j.status \in Revalidatable /\ (j.forced \/ j.low = {})

\* revalidationDecision, on the status and confidence read before.
Proceeds(j) == j.status \in Revalidatable /\ (j.forced \/ j.low \cup Shaky = {})

RevalidateSkip(w) ==
  /\ At(w, "decide") /\ ~Proceeds(job[w])
  /\ skipped' = skipped \cup {invoice.figures}
  /\ Return(w) /\ Drop(w)
  /\ EngineRest /\ UNCHANGED <<invoice, open, order, lines, posts, unsure, edits>>

\* Mutant of RevalidateProceed: the live instance is left running.
RevalidateProceedLive(w) ==
  /\ At(w, "decide") /\ Proceeds(job[w])
  /\ Goto(w, "clear")
  /\ EngineRest /\ UNCHANGED <<invoice, records, edits, job>>

\* A live instance is recalled first.
RevalidateProceed(w) ==
  /\ At(w, "decide") /\ Proceeds(job[w])
  /\ IF ActiveIds = {} THEN Goto(w, "clear")
     ELSE Set(w, [proc[w] EXCEPT !.pc = "recall", !.ret = <<"clear">>])
  /\ EngineRest /\ UNCHANGED <<invoice, records, edits, job>>

ClearMatchState(w) ==
  /\ At(w, "clear")
  /\ invoice' = [invoice EXCEPT !.match = NoMatch]
  /\ Goto(w, "resolve")
  /\ EngineRest /\ UNCHANGED <<records, edits, job>>

ResolveExceptions(w) ==
  /\ At(w, "resolve")
  /\ open' = {}
  /\ Goto(w, "validate")
  /\ EngineRest /\ UNCHANGED <<invoice, order, lines, skipped, posts, unsure, edits, job>>

-----------------------------------------------------------------------------
(* correctField.                                                           *)

\* A posted invoice refuses what feeds a check.
CorrectField(w, f, clerk) ==
  /\ At(w, "idle") /\ Within
  /\ f \in Feeding => invoice.status \notin {"POSTED", "PAID"}
  /\ Set(w, [Idle EXCEPT !.pc = IF f \in Feeding THEN "guardRole" ELSE "correct"])
  /\ Hold(w, [NoJob EXCEPT !.status = invoice.status, !.low = invoice.low,
                           !.field = f, !.clerk = clerk])
  /\ EngineRest /\ UNCHANGED <<invoice, records>>

\* correctionBlockedByRole: a clerk may not withdraw a live approval.
GuardRole(w) ==
  /\ At(w, "guardRole")
  /\ IF job[w].clerk /\ ActiveIds # {} THEN Fail(w) ELSE Goto(w, "correct")
  /\ Drop(w)
  /\ EngineRest /\ UNCHANGED <<invoice, records, edits>>

\* Mutant of ApplyCorrection: only an invoice in review is re-validated.
ApplyCorrectionInReview(w) ==
  /\ At(w, "correct")
  /\ LET j == job[w]  low == j.low \ {j.field}
     IN  /\ \E f \in IF j.field \in Feeding THEN Figures \ {Blank} ELSE {invoice.figures} :
              invoice' = [invoice EXCEPT !.figures = f, !.low = low]
         /\ unsure' = unsure \ {j.field}
         /\ IF j.status = "NEEDS_REVIEW" /\ low \cup Shaky = {}
            THEN Goto(w, "revalidate") ELSE Return(w)
  /\ Drop(w)
  /\ EngineRest /\ UNCHANGED <<open, order, lines, skipped, posts, edits>>

\* The UPDATE writes back the whole fieldConfidence read before; whether to
\* re-validate depends on what it leaves in review.
ApplyCorrection(w) ==
  /\ At(w, "correct")
  /\ LET j == job[w]  low == j.low \ {j.field}
         again == \/ j.field \in Feeding
                  \/ j.status = "NEEDS_REVIEW" /\ low \cup Shaky = {}
     IN  /\ \E f \in IF j.field \in Feeding THEN Figures \ {Blank} ELSE {invoice.figures},
               a \in IF j.field = Total THEN Amount \ {0} ELSE {invoice.amount} :
              invoice' = [invoice EXCEPT !.figures = f, !.amount = a, !.low = low]
         /\ unsure' = unsure \ {j.field}
         /\ IF again THEN Goto(w, "revalidate") ELSE Return(w)
  /\ Drop(w)
  /\ EngineRest /\ UNCHANGED <<open, order, lines, skipped, posts, edits>>

-----------------------------------------------------------------------------
(* purchase-orders: an order is created, re-synced or received against,    *)
(* then the invoice is re-validated if it waits at EXCEPTION for it.       *)

SyncOrder(w) ==
  /\ At(w, "idle") /\ Within
  /\ order' \in Order \ {NoOrder}
  /\ Set(w, [Idle EXCEPT !.pc = "rematch"])
  /\ EngineRest /\ UNCHANGED <<invoice, open, lines, skipped, posts, unsure, job>>

Rematch(w) ==
  /\ At(w, "rematch")
  /\ IF invoice.status = "EXCEPTION" /\ invoice.figures \in Citing
     THEN Goto(w, "revalidate") ELSE Return(w)
  /\ EngineRest /\ UNCHANGED <<invoice, records, edits, job>>

-----------------------------------------------------------------------------
(* codeLine and post.                                                      *)

CodeLine(w) ==
  /\ At(w, "idle")
  /\ invoice.status \notin {"POSTED", "PAID"} /\ lines.state # "none"
  /\ Set(w, [Idle EXCEPT !.pc = "code"])
  /\ EngineRest /\ UNCHANGED <<invoice, records, edits, job>>

\* The request assigns account and cost centre, or clears them.
WriteCode(w) ==
  /\ At(w, "code")
  /\ \E s \in {"coded", "uncoded"} : lines' = [lines EXCEPT !.state = s]
  /\ Return(w)
  /\ EngineRest /\ UNCHANGED <<invoice, open, order, skipped, posts, unsure, edits, job>>

\* Mutant of Post: an invoice still out for approval may be posted.
PostPending(w) ==
  /\ At(w, "idle")
  /\ invoice.status \in {"APPROVED", "PENDING_APPROVAL"}
  /\ Set(w, [Idle EXCEPT !.pc = "uncoded"])
  /\ EngineRest /\ UNCHANGED <<invoice, records, edits, job>>

Post(w) ==
  /\ At(w, "idle")
  /\ invoice.status = "APPROVED"
  /\ Set(w, [Idle EXCEPT !.pc = "uncoded"])
  /\ EngineRest /\ UNCHANGED <<invoice, records, edits, job>>

UncodedLineCount(w) ==
  /\ At(w, "uncoded")
  /\ IF lines.state = "uncoded" THEN Fail(w) ELSE Goto(w, "post")
  /\ EngineRest /\ UNCHANGED <<invoice, records, edits, job>>

\* By id: the status checked two statements ago is overwritten whatever it is now.
WritePosted(w) ==
  /\ At(w, "post")
  /\ invoice' = [invoice EXCEPT !.status = "POSTED"]
  /\ posts' = posts + 1
  /\ Return(w)
  /\ EngineRest /\ UNCHANGED <<open, order, lines, skipped, unsure, edits, job>>

-----------------------------------------------------------------------------
LifecycleInit ==
  /\ invoice = [status |-> "EXTRACTING", amount |-> 0, figures |-> Blank,
                match |-> NoMatch, low |-> {}]
  /\ instances = <<>> /\ steps = <<>> /\ overdue = {} /\ audit = {}
  /\ breaches = [i \in 1..MaxInstances |-> [n \in Node |-> 0]]
  /\ \E w \in Worker \ Scheduler :
       proc = [v \in Worker |-> IF v = w THEN [Idle EXCEPT !.pc = "extract"] ELSE Idle]
  /\ open = {} /\ order \in Order /\ lines = [state |-> "none", shaky |-> FALSE]
  /\ skipped = {} /\ posts = 0 /\ unsure = {} /\ edits = 0
  /\ job = [w \in Worker |-> NoJob]

\* A statement of the engine, or a request to it.
EngineStep(w) ==
  /\ \/ Proceed(w) \/ EscalateOverdue(w)
     \/ w \notin Scheduler /\ StepRequest(w)
  /\ Drop(w)
  /\ UNCHANGED <<records, edits>>

HandlerStep(w) ==
  \/ ExtractionFails(w) \/ Extracted(w) \/ InsertLines(w)
  \/ ValidateRead(w) \/ CheckFigures(w) \/ WriteMatch(w) \/ RaiseException(w)
  \/ RouteInvoice(w)
  \/ RevalidateRead(w) \/ RevalidateSkip(w) \/ RevalidateProceed(w)
  \/ ClearMatchState(w) \/ ResolveExceptions(w)
  \/ GuardRole(w) \/ ApplyCorrection(w)
  \/ Rematch(w) \/ WriteCode(w) \/ UncodedLineCount(w) \/ WritePosted(w)

HandlerRequest(w) ==
  \/ RequestRevalidation(w)
  \/ \E f \in Correctable, clerk \in BOOLEAN : CorrectField(w, f, clerk)
  \/ SyncOrder(w) \/ CodeLine(w) \/ Post(w)

LifecycleNext ==
  \/ \E w \in Worker : EngineStep(w)
  \/ \E w \in Worker \ Scheduler : HandlerStep(w) \/ HandlerRequest(w)
  \/ DeadlinePasses /\ UNCHANGED <<records, edits, job>>

LifecycleSpec == LifecycleInit /\ [][LifecycleNext]_lvars
=============================================================================
