-------------------------- MODULE InvoiceProperties --------------------------
(***************************************************************************)
(* What is promised about an invoice on its way from extraction to the ERP.*)
(***************************************************************************)
EXTENDS InvoiceLifecycle

\* Every published graph asks for an approval: none reaches END without one.
\* validateGraph does not demand it, and an invoice that such a graph sends
\* straight to END is approved by nobody.
ASSUME ApprovalAssumption ==
  \A d \in Workflow : \A n \in Unearned[d] : Def[d].kind[n] # "END"

Invoice == [status : InvoiceStatus, amount : Amount \cup {0}, figures : Figures,
            match : Figures \cup {NoMatch}, low : SUBSET Scored]
Lines   == [state : {"none", "coded", "uncoded"}, shaky : BOOLEAN]
Job     == [status : InvoiceStatus \cup {"none"}, low : SUBSET Scored,
            field : Correctable \cup {"none"}, forced : BOOLEAN, clerk : BOOLEAN,
            figures : Figures, result : Verdicts \cup {"none"}]

\* Rows and locals have their types.
LifecycleTypeOK ==
  /\ invoice \in Invoice
  /\ instances \in Seq(Instance) /\ steps \in Seq(Step)
  /\ open \subseteq Exception /\ order \in Order /\ lines \in Lines
  /\ skipped \subseteq Figures /\ unsure \subseteq Field \cup {"line"}
  /\ posts \in Nat /\ edits \in 0..MaxEdits
  /\ proc \in [Worker -> Request] /\ job \in [Worker -> Job]

-----------------------------------------------------------------------------
(* However requests interleave.                                            *)

\* No race of decisions, recalls, corrections, re-validations and postings gets
\* an invoice approved or posted that nobody approved: an APPROVE of one of its
\* steps is in the audit trail (every published graph here asks for one).
PaidOnRecord ==
  invoice.status \in {"APPROVED", "POSTED"} => \E s \in DOMAIN steps : Recorded(s)

-----------------------------------------------------------------------------
(* When requests do not overlap (a single worker).                         *)

\* The two state machines agree: an approval is running exactly while the invoice
\* waits for it.  A hard stop parks the invoice with no approval running, and an
\* approved invoice has none left that could still change it.  PENDING_APPROVAL
\* without a live instance is an invoice left unrouted: no published definition.
LiveIsPending ==
  Quiet /\ ActiveIds # {} => invoice.status = "PENDING_APPROVAL"

\* An invoice is APPROVED or POSTED on the strength of its latest instance: that
\* one reached END, and was not superseded since.
ApprovalStands ==
  invoice.status \in {"APPROVED", "POSTED"} /\ Quiet =>
    /\ instances # <<>>
    /\ LET last == instances[Len(instances)]
       IN  last.status = "COMPLETED" /\ Def[last.workflow].kind[last.node] = "END"

\* An invoice parked at EXCEPTION says why: the exception that stops it is still
\* unresolved, although every re-validation resolves those of the run before.
ExceptionExplained ==
  Quiet /\ invoice.status = "EXCEPTION" => open \cap Hard # {}

\* The stored match describes other figures than the invoice now shows.
Stale == invoice.match \notin {NoMatch, invoice.figures}
Routed == {"PENDING_APPROVAL", "APPROVED", "POSTED"}

\* A correction that could not be re-checked is visible on the invoice itself: it
\* never runs on the previous validation's match without a REVALIDATION_SKIPPED
\* event for the figures it now has (revalidate's comment).
StaleIsVisible ==
  Quiet /\ invoice.status \in Routed /\ Stale => invoice.figures \in skipped

\* The confidence gate: nothing but an explicit request of a manager validates an
\* invoice while the extractor is unsure of something nobody has corrected.
GateRespected ==
  [][\A w \in Worker : ValidateRead(w) /\ ~job[w].forced => unsure = {}]_lvars

\* Posting is terminal and final: a POSTED invoice never gets another status, and
\* no second ERP document is generated for it.
PostingTerminal ==
  [][invoice.status = "POSTED" => invoice'.status = "POSTED" /\ posts' = posts]_lvars

\* A posted document has an account and a cost centre on every line.
PostedCoded == invoice.status = "POSTED" => lines.state # "uncoded"

-----------------------------------------------------------------------------
(* What the comments say and the code does not do.                         *)

\* "the invoice can never be left displaying a match that no longer describes it
\* while parked in a branch chosen because of that match"
MatchDescribes == Quiet /\ ActiveIds # {} => ~Stale

\* "Hard stops park the invoice at EXCEPTION with no approval instance"
HardStopHasNoInstance == Quiet /\ invoice.status = "EXCEPTION" => ActiveIds = {}

\* "SUPERSEDED replaced by a fresh instance after a recall;
\* `supersededByInstanceId` points at it."
SupersededLinked ==
  Quiet => \A i \in 1..(Len(instances) - 1) :
             instances[i].status = "SUPERSEDED" => instances[i].link # 0

\* "what stops a delegated EUR 40k invoice being approved by a EUR 5k junior": an
\* invoice that is posted was approved by somebody who may approve its amount.
PostedWithinAuthority ==
  invoice.status = "POSTED" =>
    \E s \in DOMAIN steps : /\ steps[s].status = "APPROVED"
                            /\ invoice.amount <= Limit[steps[s].approver]
=============================================================================
