-------------------------- MODULE MailboxProperties --------------------------
(***************************************************************************)
(* What is promised about incoming mail.                                   *)
(***************************************************************************)
EXTENDS InboundMailbox

Local ==
  [pc : {"idle", "fetch", "next", "attach", "extract", "store", "search", "route",
         "mark"}, read : Reading \cup {Null},
   batch : SUBSET Message, mail : Message \cup {0}, left : SUBSET Document,
   doc : Document \cup {0}, row : Nat, made : Nat, failed : SUBSET Document,
   duplicate : BOOLEAN]

\* Rows, flags and locals have their types, and a poll at work on an invoice
\* refers to a row that exists.
MailboxTypeOK ==
  /\ arrived \in 0..Messages /\ seen \subseteq 1..arrived
  /\ recorded \subseteq InboundMessage
  /\ rows \in Seq(Invoice) /\ vendors \subseteq Vendor
  /\ poll \in [Poller -> Local]
  /\ \A p \in Poller :
       /\ poll[p].pc \in {"extract", "store", "search", "route"} => poll[p].row \in DOMAIN rows
       /\ poll[p].pc = "mark" => poll[p].mail # 0 /\ IdOf[poll[p].mail] # NoId
  /\ sweepInFlight \in BOOLEAN /\ faults \in Nat /\ requests \in Nat

-----------------------------------------------------------------------------
(* However polls overlap, whatever throws, and whenever the process dies.  *)

\* An invoice of the document reached a status somebody acts on: not one of the
\* two an interrupted ingest leaves behind.
Settled(d) ==
  \E i \in DOMAIN rows : rows[i].doc = d /\ rows[i].status \notin {"EXTRACTING", "VALIDATING"}

\* "whereas marking read first would lose the invoice entirely": a message that no
\* poll fetches again is on record, and each of its documents became an invoice
\* somebody acts on or is listed there as failed.
NothingLost ==
  \A m \in seen : \E r \in recorded :
    r.id = IdOf[m] /\ \A d \in Documents(m) : Settled(d) \/ d \in r.failed

\* A message may be ingested twice (by two polls, or again after a crash), but of
\* the invoices with one number and one supplier, however its name is spelled on
\* each, at most one passes the duplicate search and asks for approval: a row has
\* its number and vendor before the search for others begins.
OneBill == {pair \in Reading \X Reading :
  LET e == Answer[pair[1]]  f == Answer[pair[2]] IN
  /\ Known(e, "invoiceNumber") /\ Value(e, "invoiceNumber") = Value(f, "invoiceNumber")
  /\ Known(e, "vendorName") /\ Known(f, "vendorName")
  /\ IsSameVendorName(Value(e, "vendorName"), Value(f, "vendorName"))}

AtMostOneRouted ==
  \A i, j \in DOMAIN rows :
    /\ rows[i].status = "PENDING_APPROVAL" /\ rows[j].status = "PENDING_APPROVAL"
    /\ <<rows[i].read, rows[j].read>> \in OneBill
    => i = j

\* "we never trust the model's self-report alone": however sure the model says it
\* is, what passes the gate unseen by a person adds up, from the lines to the net
\* amount and from net and tax to the gross amount.
AddsUp == {r \in Reading : ~TotalsDisagree(Answer[r]) /\ ~LinesDisagree(Answer[r])}

GateAddsUp ==
  \A i \in DOMAIN rows :
    rows[i].read # Null /\ rows[i].status # "NEEDS_REVIEW" => rows[i].read \in AddsUp

\* The polls implement the abstract delivery: one answer per message, after its
\* documents are settled or given up, and before it leaves the mailbox.
Delivery ==
  INSTANCE MailDelivery WITH
    settled <- {d \in Mailed : Settled(d)},
    answers <- {[id |-> r.id, failed |-> r.failed] : r \in recorded},
    gone <- seen, DocumentsOf <- [m \in Message |-> Documents(m)]
ImplementsDelivery == Delivery!DeliverySpec

-----------------------------------------------------------------------------
(* Under the event loop's fairness and with finitely many faults.          *)

\* Every message with a Message-ID is eventually dealt with, whatever the limit of
\* a poll and however many fail on the way.
EveryMessageHandled ==
  \A m \in Message : (m <= arrived /\ IdOf[m] # NoId) ~> m \in seen

-----------------------------------------------------------------------------
(* What the comments say and the code does not do.                         *)

\* "A crash can therefore produce a duplicate attempt, which the unique key on
\* (tenantId, messageId) absorbs" and "the unique key absorbs it, so the outcome is
\* a wasted extraction call": one invoice row per document received by mail.
OneInvoicePerDocument ==
  \A i, j \in DOMAIN rows : rows[i].doc = rows[j].doc => i = j \/ rows[i].doc \in Uploaded
=============================================================================
