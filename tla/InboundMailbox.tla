--------------------------- MODULE InboundMailbox ---------------------------
(***************************************************************************)
(* Mail becomes invoices: mailbox.service.ts, inbound.module.ts,           *)
(* imap-mailbox.source.ts, and the ingest of invoices.service.ts with the  *)
(* extraction, the vendor and the duplicate search.                        *)
(*                                                                         *)
(* A poller is the cron job, a POST /inbound/poll or an upload from the    *)
(* browser; poll[p].pc is the statement it executes next and the rest of   *)
(* the record its locals.  A message is recorded in inbound_messages and   *)
(* flagged \Seen in the mailbox in two steps, so a crash or a second       *)
(* poller in between sees it again.                                        *)
(***************************************************************************)
EXTENDS Extraction, VendorNames, FiniteSets

CONSTANTS
  Poller,       \* polls and uploads in flight
  Cron,         \* those started by the scheduler of this process
  Messages,     \* how many messages arrive
  MailId,       \* their Message-IDs
  NoId,         \* ... of a message without one
  IdOf,         \* IdOf[m]: the Message-ID of the m-th message
  Attached,     \* Attached[m]: its attachments
  Uploaded,     \* the files users upload
  Reply,        \* replies of the language model
  Text,         \* Text[r]: what reply r says
  Replies,      \* Replies[d]: those it may give of document d
  Limit,        \* most messages of one poll
  MaxFaults,    \* bound on exceptions and crashes
  MaxRequests   \* bound on manual polls and uploads

Message    == 1..Messages
Attachment == [part : Nat, type : STRING, size : Nat, noise : BOOLEAN]

ASSUME MailAssumption ==
  /\ Messages \in Nat /\ NoId \notin MailId
  /\ IdOf \in [Message -> MailId \cup {NoId}]
  /\ Attached \in [Message -> SUBSET Attachment]
  /\ Cron \subseteq Poller /\ Uploaded \subseteq Nat
\* A Message-ID names one message: a copy has the same attachments.
ASSUME CopyAssumption ==
  \A m, k \in Message : IdOf[m] = IdOf[k] /\ IdOf[m] # NoId => Attached[m] = Attached[k]
ASSUME BoundAssumption == Limit \in Nat \ {0} /\ MaxFaults \in Nat /\ MaxRequests \in Nat

\* decideAttachments: what is not a document costs no extraction.  Sizes are in MB;
\* noise is a file name like image001.png, and
\* part the number of the file: rising within a message.
AcceptedTypes == {"application/pdf", "image/png", "image/jpeg", "image/webp"}
MaxAttachment == 20
Decision(a) ==
  CASE a.type \notin AcceptedTypes                  -> "unsupported-type"
    [] a.size = 0                                   -> "empty"
    [] a.size > MaxAttachment                       -> "too-large"
    [] a.type # "application/pdf" /\ a.noise        -> "likely-signature-image"
    [] OTHER                                        -> "accepted"

Accepted     == [m \in Message |-> {a.part : a \in {b \in Attached[m] : Decision(b) = "accepted"}}]
Documents(m) == Accepted[m]
Mailed       == UNION {Documents(m) : m \in Message}
Document     == Uploaded \cup Mailed

\* A number is one file: only copies of a message share theirs, and none is an upload's.
ASSUME FileAssumption ==
  \A m \in Message :
    /\ Documents(m) \cap Uploaded = {}
    /\ \A k \in Message : IdOf[m] # IdOf[k] => Documents(m) \cap Documents(k) = {}

ASSUME RepliesAssumption == Replies \in [Document -> SUBSET Reply]

\* The extraction service's answer to each reply it can make sense of, and the
\* vendor it resolves to: Null where there is no name to resolve.
Answer   == [r \in {x \in Reply : Extract(Text[x]) # Null} |-> Extract(Text[r])]
Reading  == DOMAIN Answer
VendorOf == [r \in Reading |->
  LET name == Value(Answer[r], "vendorName")
  IN  IF name = Null THEN Null
      ELSE IF NormaliseVendorName(name) = <<>> THEN Null ELSE NormaliseVendorName(name)]

\* A reply that parses has the fields the prompt asks for; a row that holds one, or a
\* vendor, holds something.
ASSUME ReplyAssumption ==
  /\ Null \notin Reply
  /\ \A r \in Reply : Unwrapped(Text[r]) # Null => Parsed(Unwrapped(Text[r]))
  /\ \A r \in Reading : Known(Answer[r], "vendorName") =>
       NormaliseVendorName(Value(Answer[r], "vendorName")) # Null

VARIABLES arrived,   \* how many messages are in the mailbox
          seen,      \* those flagged \Seen
          recorded,  \* the rows of inbound_messages, unique by (tenant, messageId)
          rows,      \* the invoices created, in order
          vendors,   \* normalisedName of the rows of vendors, unique in a tenant
          poll,      \* the polls and uploads in flight
          sweepInFlight,
          faults, requests

mvars == <<arrived, seen, recorded, rows, vendors, poll, sweepInFlight, faults, requests>>

Status   == {"EXTRACTING", "NEEDS_REVIEW", "VALIDATING", "EXCEPTION", "PENDING_APPROVAL"}
InboundMessage == [id : MailId, made : Nat, failed : SUBSET Document]
Vendor    == {VendorOf[r] : r \in Reading} \ {Null}
Invoice   == [doc : Document, status : Status, read : Reading \cup {Null},
              vendor : Vendor \cup {Null}]

AlreadyHandled(id) == \E r \in recorded : r.id = id
Idle     == [pc |-> "idle", batch |-> {}, mail |-> 0, left |-> {}, doc |-> 0,
             row |-> 0, read |-> Null, made |-> 0, failed |-> {}, duplicate |-> FALSE]

At(p, l)     == poll[p].pc = l
Set(p, q)    == poll' = [poll EXCEPT ![p] = q]
Goto(p, l)   == Set(p, [poll[p] EXCEPT !.pc = l])
\* The finally of the scheduled sweep.
Finish(p)    == Set(p, Idle) /\ sweepInFlight' = (sweepInFlight /\ p \notin Cron)
Write(i, s)  == rows' = [rows EXCEPT ![i].status = s]

Doubted == {r \in Reading : NeedsReview(Answer[r])}
Number  == [r \in Reading |-> Value(Answer[r], "invoiceNumber")]
\* Equal number and vendor; a null column equals nothing.
SameBill(x, y) ==
  /\ x.read # Null /\ y.read # Null /\ x.vendor # Null /\ x.vendor = y.vendor
  /\ Number[x.read] # Null /\ Number[x.read] = Number[y.read]

First(ns)    == CHOOSE n \in ns : \A k \in ns : n <= k

Inbox == <<arrived, seen>>
Bounds == <<faults, requests>>

-----------------------------------------------------------------------------
(* Who starts a poll.                                                      *)

MailArrives ==
  /\ arrived < Messages
  /\ arrived' = arrived + 1
  /\ UNCHANGED <<seen, recorded, rows, vendors, poll, sweepInFlight, Bounds>>

Sweep(p) ==
  /\ p \in Cron /\ At(p, "idle") /\ ~sweepInFlight
  /\ sweepInFlight' = TRUE
  /\ Goto(p, "fetch")
  /\ UNCHANGED <<Inbox, recorded, rows, vendors, Bounds>>

\* POST /inbound/poll knows nothing of sweepInFlight.
PollNow(p) ==
  /\ p \notin Cron /\ At(p, "idle") /\ requests < MaxRequests
  /\ requests' = requests + 1
  /\ Goto(p, "fetch")
  /\ UNCHANGED <<Inbox, recorded, rows, vendors, sweepInFlight, faults>>

\* POST /invoices/upload: one document on the same path.
Upload(p) ==
  /\ p \notin Cron /\ At(p, "idle") /\ requests < MaxRequests
  /\ requests' = requests + 1
  /\ \E d \in Uploaded : Set(p, [Idle EXCEPT !.pc = "attach", !.left = {d}])
  /\ UNCHANGED <<Inbox, recorded, rows, vendors, sweepInFlight, faults>>

-----------------------------------------------------------------------------
(* poll: the oldest unread messages, one after the other.                  *)

Unread == {m \in 1..arrived : m \notin seen /\ IdOf[m] # NoId}

FetchUnread(p) ==
  /\ At(p, "fetch")
  /\ Set(p, [poll[p] EXCEPT !.pc = "next",
       !.batch = {m \in Unread : Cardinality({k \in Unread : k < m}) < Limit}])
  /\ UNCHANGED <<Inbox, recorded, rows, vendors, sweepInFlight, Bounds>>

\* alreadyHandled, then the attachments of a message that is new.
TakeMessage(p) ==
  /\ At(p, "next") /\ poll[p].batch # {}
  /\ LET m == First(poll[p].batch)
         q == [Idle EXCEPT !.mail = m, !.batch = poll[p].batch \ {m}]
     IN  Set(p, IF AlreadyHandled(IdOf[m]) THEN [q EXCEPT !.pc = "mark"]
                ELSE [q EXCEPT !.pc = "attach", !.left = Documents(m)])
  /\ UNCHANGED <<Inbox, recorded, rows, vendors, sweepInFlight, Bounds>>

PollEnds(p) ==
  /\ At(p, "next") /\ poll[p].batch = {}
  /\ Finish(p)
  /\ UNCHANGED <<Inbox, recorded, rows, vendors, Bounds>>

-----------------------------------------------------------------------------
(* ingest of one attachment.                                               *)

\* The document is done: back to the message it came with, or to the uploader.
Done(p, q) ==
  Set(p, IF q.mail = 0 THEN Idle
         ELSE [q EXCEPT !.pc = "attach", !.doc = 0, !.row = 0, !.read = Null,
                         !.duplicate = FALSE])

\* FileStorage.save, then the row: from here on the document has an invoice.
InsertInvoice(p) ==
  /\ At(p, "attach") /\ poll[p].left # {}
  /\ LET d == First(poll[p].left) IN
       /\ rows' = Append(rows, [doc |-> d, status |-> "EXTRACTING", read |-> Null, vendor |-> Null])
       /\ Set(p, [poll[p] EXCEPT !.pc = "extract", !.left = @ \ {d}, !.doc = d,
                                 !.row = Len(rows) + 1])
  /\ UNCHANGED <<Inbox, recorded, vendors, sweepInFlight, Bounds>>

\* A failed extraction is not a failed ingest: a person takes the invoice over.
ExtractionFails(p) ==
  /\ At(p, "extract")
  /\ Write(poll[p].row, "NEEDS_REVIEW")
  /\ Done(p, [poll[p] EXCEPT !.made = @ + 1])
  /\ UNCHANGED <<Inbox, recorded, vendors, sweepInFlight, Bounds>>

\* The service answers with a reply it can make sense of; resolveByName adds the
\* vendor unless a spelling of it is there.
Extracted(p) ==
  /\ At(p, "extract")
  /\ \E r \in Replies[poll[p].doc] \cap Reading :
       /\ vendors' = vendors \cup ({VendorOf[r]} \ {Null})
       /\ Set(p, [poll[p] EXCEPT !.pc = "store", !.read = r])
  /\ UNCHANGED <<Inbox, recorded, rows, sweepInFlight, Bounds>>

\* The columns read; doubtful ones wait for review.
StoreExtraction(p) ==
  /\ At(p, "store")
  /\ LET r == poll[p].read  review == poll[p].read \in Doubted IN
       /\ rows' = [rows EXCEPT ![poll[p].row] = [@ EXCEPT !.read = r, !.vendor = VendorOf[r],
                     !.status = IF review THEN "NEEDS_REVIEW" ELSE "VALIDATING"]]
       /\ IF review THEN Done(p, [poll[p] EXCEPT !.made = @ + 1])
          ELSE Set(p, [poll[p] EXCEPT !.pc = "search", !.read = Null])
  /\ UNCHANGED <<Inbox, recorded, vendors, sweepInFlight, Bounds>>

\* Mutant of SearchDuplicate: only invoices already out for approval count.
SearchDuplicateRouted(p) ==
  /\ At(p, "search")
  /\ LET i == poll[p].row
     IN  Set(p, [poll[p] EXCEPT !.pc = "route",
           !.duplicate = \E j \in DOMAIN rows : /\ j # i /\ SameBill(rows[j], rows[i])
                                                /\ rows[j].status = "PENDING_APPROVAL"])
  /\ UNCHANGED <<Inbox, recorded, rows, vendors, sweepInFlight, Bounds>>

\* Another row of this number and vendor, whatever became of it.
SearchDuplicate(p) ==
  /\ At(p, "search")
  /\ LET i == poll[p].row
     IN  Set(p, [poll[p] EXCEPT !.pc = "route",
           !.duplicate = \E j \in DOMAIN rows : j # i /\ SameBill(rows[j], rows[i])])
  /\ UNCHANGED <<Inbox, recorded, rows, vendors, sweepInFlight, Bounds>>

\* A duplicate, or an order that cannot be matched, stops; the rest is approved.
RouteInvoice(p) ==
  /\ At(p, "route")
  /\ \E s \in IF poll[p].duplicate THEN {"EXCEPTION"} ELSE {"EXCEPTION", "PENDING_APPROVAL"} :
       Write(poll[p].row, s)
  /\ Done(p, [poll[p] EXCEPT !.made = @ + 1])
  /\ UNCHANGED <<Inbox, recorded, vendors, sweepInFlight, Bounds>>

-----------------------------------------------------------------------------
(* The end of a message.                                                   *)

\* Mutant of RecordMessage: no conflict clause.
RecordMessageTwice(p) ==
  /\ At(p, "attach") /\ poll[p].left = {}
  /\ recorded' = recorded \cup {[id |-> IdOf[poll[p].mail], made |-> poll[p].made,
                                  failed |-> poll[p].failed]}
  /\ Goto(p, "mark")
  /\ UNCHANGED <<Inbox, rows, vendors, sweepInFlight, Bounds>>

\* Mutant of RecordMessage: the message is recorded first, its attachments are left.
RecordMessageEarly(p) ==
  /\ At(p, "attach") /\ poll[p].mail # 0
  /\ recorded' = recorded \cup {[id |-> IdOf[poll[p].mail], made |-> poll[p].made,
                                  failed |-> poll[p].failed]}
  /\ Goto(p, "mark")
  /\ UNCHANGED <<Inbox, rows, vendors, sweepInFlight, Bounds>>

RecordMessage(p) ==
  /\ At(p, "attach") /\ poll[p].left = {}
  /\ LET id == IdOf[poll[p].mail]
     IN  recorded' = IF AlreadyHandled(id) THEN recorded
                     ELSE recorded \cup {[id |-> id, made |-> poll[p].made,
                                          failed |-> poll[p].failed]}
  /\ Goto(p, "mark")
  /\ UNCHANGED <<Inbox, rows, vendors, sweepInFlight, Bounds>>

\* The flag is set by header, on every copy in the mailbox.
MarkHandled(p) ==
  /\ At(p, "mark")
  /\ seen' = seen \cup {m \in 1..arrived : IdOf[m] = IdOf[poll[p].mail]}
  /\ Set(p, [Idle EXCEPT !.pc = "next", !.batch = poll[p].batch])
  /\ UNCHANGED <<arrived, recorded, rows, vendors, sweepInFlight, Bounds>>

-----------------------------------------------------------------------------
(* Faults.                                                                 *)

Faulty == faults < MaxFaults /\ faults' = faults + 1

\* An exception while one attachment is stored or ingested is caught and listed;
\* the row inserted before it stays as it is.  An upload answers with the error.
AttachmentFails(p) ==
  /\ Faulty
  /\ \E d \in Document :
       /\ \/ At(p, "attach") /\ poll[p].left # {} /\ d = First(poll[p].left)
          \/ poll[p].pc \in {"extract", "store", "search", "route"} /\ d = poll[p].doc
       /\ Done(p, [poll[p] EXCEPT !.left = @ \ {d}, !.failed = @ \cup {d}])
  /\ UNCHANGED <<Inbox, recorded, rows, vendors, sweepInFlight, requests>>

\* Mutant of PollFails: the flag is not reset.
PollFailsStuck(p) ==
  /\ Faulty
  /\ \/ poll[p].pc \in {"fetch", "next", "mark"}
     \/ At(p, "attach") /\ poll[p].left = {}
  /\ Set(p, Idle)
  /\ UNCHANGED <<Inbox, recorded, rows, vendors, requests, sweepInFlight>>

\* Outside that try block it ends the poll; the scheduler swallows it.
PollFails(p) ==
  /\ Faulty
  /\ \/ poll[p].pc \in {"fetch", "next", "mark"}
     \/ At(p, "attach") /\ poll[p].left = {}
  /\ Finish(p)
  /\ UNCHANGED <<Inbox, recorded, rows, vendors, requests>>

Crash ==
  /\ Faulty
  /\ poll' = [p \in Poller |-> Idle] /\ sweepInFlight' = FALSE
  /\ UNCHANGED <<Inbox, recorded, rows, vendors, requests>>

-----------------------------------------------------------------------------
Init ==
  /\ arrived = 0 /\ seen = {} /\ recorded = {} /\ rows = <<>> /\ vendors = {}
  /\ poll = [p \in Poller |-> Idle] /\ sweepInFlight = FALSE
  /\ faults = 0 /\ requests = 0

Statement(p) ==
  \/ FetchUnread(p) \/ TakeMessage(p) \/ PollEnds(p)
  \/ InsertInvoice(p) \/ ExtractionFails(p) \/ Extracted(p) \/ StoreExtraction(p)
  \/ SearchDuplicate(p) \/ RouteInvoice(p)
  \/ RecordMessage(p) \/ MarkHandled(p)

Next ==
  \/ MailArrives \/ Crash
  \/ \E p \in Poller : \/ Statement(p) \/ Sweep(p) \/ PollNow(p) \/ Upload(p)
                       \/ AttachmentFails(p) \/ PollFails(p)

Spec == Init /\ [][Next]_mvars

\* While the process lives its handlers run on, and the cron job ticks.
FairSpec ==
  /\ Spec
  /\ \A p \in Poller : WF_mvars(Statement(p))
  /\ \A p \in Cron : WF_mvars(Sweep(p))
=============================================================================
