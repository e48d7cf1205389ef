---------------------------- MODULE MailboxProofs ----------------------------
(***************************************************************************)
(* What is promised of incoming mail, for any number of polls, messages,   *)
(* documents, replies, faults and requests.                                *)
(***************************************************************************)
EXTENDS MailboxProperties, WellFoundedInduction, TLAPS

\* A poll with a document in hand, whose invoice exists already.
Working == {"extract", "store", "search", "route"}

\* The locals of a poll: what they refer to is of the message at hand, and only a
\* message with a Message-ID gets that far.
Job ==
  {q \in Local :
     /\ \A m \in q.batch : IdOf[m] # NoId
     /\ q.mail # 0 => /\ IdOf[q.mail] # NoId
                      /\ q.left \subseteq Documents(q.mail)
                      /\ q.failed \subseteq Documents(q.mail)
                      /\ q.pc \in Working => q.doc \in Documents(q.mail)
     /\ q.pc \in Working => q.doc \in Document
     /\ q.pc = "store" => q.read \in Reading
     /\ q.pc = "attach" /\ q.mail = 0 => q.left # {}
     /\ q.pc = "mark" => q.mail # 0}

Typed ==
  /\ arrived \in 0..Messages /\ seen \subseteq 1..arrived
  /\ recorded \subseteq InboundMessage
  /\ rows \in Seq(Invoice) /\ vendors \subseteq Vendor
  /\ poll \in [Poller -> Job]
  /\ sweepInFlight \in BOOLEAN /\ faults \in Nat /\ requests \in Nat

\* The invoice of the document in hand, in the status its statement expects.
InHand(q) ==
  q.pc \in Working =>
    /\ q.row \in DOMAIN rows /\ rows[q.row].doc = q.doc
    /\ rows[q.row].status = IF q.pc \in {"extract", "store"} THEN "EXTRACTING" ELSE "VALIDATING"

\* No two polls work on one invoice.
Exclusive ==
  \A p, o \in Poller : /\ poll[p].pc \in Working /\ poll[o].pc \in Working
                       /\ poll[p].row = poll[o].row
                       => p = o

Owned == Typed /\ (\A p \in Poller : InHand(poll[p])) /\ Exclusive

-----------------------------------------------------------------------------
(* Data.                                                                   *)

LEMMA Least ==
  ASSUME NEW ns, ns \subseteq Nat, ns # {}
  PROVE  First(ns) \in ns
  <1>1. PICK n \in ns : \A k \in ns : ~(<<k, n>> \in OpToRel(<, Nat))
    BY NatLessThanWellFounded, WFMin, Zenon
  <1>2. ASSUME NEW k \in ns, ~(n <= k)  PROVE FALSE
    <2>1. k \in Nat /\ n \in Nat /\ k < n
      BY <1>2
    <2>2. <<k, n>> \in OpToRel(<, Nat)
      BY <2>1 DEF OpToRel
    <2> QED
      BY <1>1, <2>2
  <1>3. \E x \in ns : \A k \in ns : x <= k
    BY <1>2
  <1> QED
    BY <1>3, Zenon DEF First

LEMMA DocumentsTyped ==
  /\ \A m \in Message : Documents(m) \subseteq Document
  /\ Document \subseteq Nat /\ Message \subseteq Nat /\ 0 \notin Message
  <1>1. ASSUME NEW m \in Message  PROVE Documents(m) \subseteq Nat
    <2>1. Attached[m] \subseteq Attachment
      BY MailAssumption
    <2> QED
      BY <2>1 DEF Documents, Accepted, Attachment
  <1>2. \A m \in Message : Documents(m) \subseteq Document
    BY DEF Document, Mailed
  <1>3. Message \subseteq Nat /\ 0 \notin Message
    BY MailAssumption DEF Message
  <1> QED
    BY <1>1, <1>2, <1>3, MailAssumption DEF Document, Mailed

LEMMA IdleJob == Idle \in Job /\ Idle.pc = "idle"
  BY DEF Idle, Job, Local, Working

LEMMA JobParts ==
  ASSUME Typed, NEW p \in Poller
  PROVE  /\ poll[p] \in Local /\ poll[p] \in Job
         /\ poll[p].batch \subseteq Message /\ poll[p].left \subseteq Document
  BY DEF Typed, Job, Local

-----------------------------------------------------------------------------
(* The end of a document.                                                  *)

Finished(q) == IF q.mail = 0 THEN Idle
               ELSE [q EXCEPT !.pc = "attach", !.doc = 0, !.row = 0, !.read = Null,
                              !.duplicate = FALSE]

LEMMA FinishedJob ==
  ASSUME NEW q \in Local,
         \A m \in q.batch : IdOf[m] # NoId,
         q.mail # 0 => /\ IdOf[q.mail] # NoId
                       /\ q.left \subseteq Documents(q.mail)
                       /\ q.failed \subseteq Documents(q.mail)
  PROVE  Finished(q) \in Job /\ Finished(q).pc \notin Working
  <1>1. CASE q.mail = 0
    BY <1>1, IdleJob DEF Finished, Working
  <1>2. CASE q.mail # 0
    <2>1. Finished(q) = [q EXCEPT !.pc = "attach", !.doc = 0, !.row = 0, !.read = Null,
                                  !.duplicate = FALSE]
      BY <1>2 DEF Finished
    <2>2. Finished(q) \in Local
      <3>1. /\ q.batch \in SUBSET Message /\ q.mail \in Message \cup {0} /\ q.made \in Nat
            /\ q.left \in SUBSET Document /\ q.failed \in SUBSET Document
        BY DEF Local
      <3>2. Finished(q) = [pc |-> "attach", batch |-> q.batch, mail |-> q.mail, left |-> q.left,
                           doc |-> 0, row |-> 0, read |-> Null, made |-> q.made,
                           failed |-> q.failed, duplicate |-> FALSE]
        BY <2>1 DEF Local
      <3> QED
        BY <3>1, <3>2 DEF Local
    <2>3. /\ Finished(q).pc = "attach" /\ Finished(q).mail = q.mail /\ Finished(q).left = q.left
          /\ Finished(q).failed = q.failed /\ Finished(q).batch = q.batch
      BY <2>1 DEF Local
    <2> QED
      BY <1>2, <2>2, <2>3 DEF Job, Working
  <1> QED
    BY <1>1, <1>2
-----------------------------------------------------------------------------
(* Types, and who works on which invoice.                                  *)

LEMMA InitOwned ==
  ASSUME Init  PROVE Owned
  <1>0. Messages \in Nat
    BY MailAssumption
  <1>1. poll \in [Poller -> Job] /\ \A p \in Poller : poll[p].pc \notin Working
    BY IdleJob DEF Init, Working
  <1>2. arrived \in 0..Messages /\ faults \in Nat /\ requests \in Nat
    BY <1>0 DEF Init
  <1>3. seen \subseteq 1..arrived /\ recorded \subseteq InboundMessage /\ vendors \subseteq Vendor
    BY DEF Init
  <1>4. rows \in Seq(Invoice)
    BY DEF Init
  <1>5. sweepInFlight \in BOOLEAN
    BY DEF Init
  <1>6. Typed
    BY <1>1, <1>2, <1>3, <1>4, <1>5 DEF Typed
  <1> QED
    BY <1>1, <1>6 DEF Owned, InHand, Exclusive

\* One poll moves on; of the rows others work on none changes.
LEMMA Advance ==
  ASSUME Owned, NEW p \in Poller, NEW q \in Job, Set(p, q), rows' \in Seq(Invoice),
         \A i \in DOMAIN rows :
           /\ i \in DOMAIN rows'
           /\ rows'[i] = rows[i] \/ (i = poll[p].row /\ poll[p].pc \in Working),
         InHand(q)',
         q.pc \in Working => \/ poll[p].pc \in Working /\ q.row = poll[p].row
                             \/ q.row \notin DOMAIN rows
  PROVE  /\ poll' \in [Poller -> Job]
         /\ \A o \in Poller : InHand(poll[o])'
         /\ Exclusive'
  <1>1. poll \in [Poller -> Job] /\ poll' = [poll EXCEPT ![p] = q]
    BY DEF Owned, Typed, Set
  <1>2. poll' \in [Poller -> Job] /\ poll'[p] = q /\ \A o \in Poller \ {p} : poll'[o] = poll[o]
    BY <1>1
  <1>3. ASSUME NEW o \in Poller \ {p}, poll[o].pc \in Working
        PROVE  /\ poll[o].row \in DOMAIN rows /\ rows'[poll[o].row] = rows[poll[o].row]
               /\ poll[p].pc \in Working => poll[o].row # poll[p].row
    <2>1. poll[p].pc \in Working => poll[o].row # poll[p].row
      BY <1>3 DEF Owned, Exclusive
    <2>2. poll[o].row \in DOMAIN rows
      BY <1>3 DEF Owned, InHand
    <2> QED
      BY <2>1, <2>2
  <1>4. ASSUME NEW o \in Poller  PROVE InHand(poll[o])'
    <2>1. CASE o = p
      BY <2>1, <1>2 DEF InHand
    <2>2. CASE o # p
      <3>1. InHand(poll[o])
        BY DEF Owned
      <3>2. poll'[o] = poll[o]
        BY <1>2, <2>2
      <3> QED
        BY <3>1, <3>2, <1>3, <2>2 DEF InHand
    <2> QED
      BY <2>1, <2>2
  <1>5. ASSUME NEW a \in Poller, NEW b \in Poller, poll'[a].pc \in Working,
               poll'[b].pc \in Working, poll'[a].row = poll'[b].row
        PROVE  a = b
    <2>1. CASE a # p /\ b # p
      BY <1>5, <1>2, <2>1 DEF Owned, Exclusive
    <2>2. CASE a = p /\ b # p
      BY <1>5, <1>2, <1>3, <2>2
    <2>3. CASE a # p /\ b = p
      BY <1>5, <1>2, <1>3, <2>3
    <2> QED
      BY <2>1, <2>2, <2>3
  <1> QED
    BY <1>2, <1>4, <1>5 DEF Exclusive
-----------------------------------------------------------------------------
(* The locals each statement leaves.                                       *)

LEMMA FetchJob ==
  ASSUME Typed, NEW p \in Poller, poll[p].pc = "idle"
  PROVE  [poll[p] EXCEPT !.pc = "fetch"] \in Job
  <1> DEFINE q == [poll[p] EXCEPT !.pc = "fetch"]
  <1>1. poll[p] \in Job /\ poll[p] \in Local
    BY JobParts
  <1>2. q \in Local
    BY <1>1 DEF Local
  <1>3. q.pc = "fetch" /\ q.batch = poll[p].batch /\ q.mail = poll[p].mail
        /\ q.left = poll[p].left /\ q.failed = poll[p].failed
    BY <1>1 DEF Local
  <1>4. q \in Job
    <2> HIDE DEF q
    <2> QED
      BY <1>1, <1>2, <1>3 DEF Job, Working
  <1> QED
    BY <1>4

LEMMA UploadJob ==
  ASSUME NEW d \in Document
  PROVE  [Idle EXCEPT !.pc = "attach", !.left = {d}] \in Job
  BY DEF Idle, Job, Local, Working

LEMMA BatchJob ==
  ASSUME Typed, NEW p \in Poller, NEW ms \in SUBSET Message, \A m \in ms : IdOf[m] # NoId
  PROVE  [poll[p] EXCEPT !.pc = "next", !.batch = ms] \in Job
  <1> DEFINE q == [poll[p] EXCEPT !.pc = "next", !.batch = ms]
  <1>1. poll[p] \in Job /\ poll[p] \in Local
    BY JobParts
  <1>2. q \in Local
    BY <1>1 DEF Local
  <1>3. q.pc = "next" /\ q.batch = ms /\ q.mail = poll[p].mail
        /\ q.left = poll[p].left /\ q.failed = poll[p].failed
    BY <1>1 DEF Local
  <1>4. q \in Job
    <2> HIDE DEF q
    <2> QED
      BY <1>1, <1>2, <1>3 DEF Job, Working
  <1> QED
    BY <1>4

LEMMA SameMessage ==
  ASSUME NEW r \in Job, NEW q \in Local,
         q.mail = r.mail, q.batch = r.batch, q.left \subseteq r.left, q.failed = r.failed,
         q.pc \in Working => q.doc \in Document,
         q.pc \in Working /\ q.mail # 0 => q.doc \in Documents(q.mail),
         q.pc = "store" => q.read \in Reading,
         q.pc # "attach", q.pc = "mark" => q.mail # 0
  PROVE  q \in Job
  BY DEF Job

LEMMA InsertJob ==
  ASSUME Typed, NEW p \in Poller, NEW d \in poll[p].left
  PROVE  /\ [poll[p] EXCEPT !.pc = "extract", !.left = @ \ {d}, !.doc = d,
                            !.row = Len(rows) + 1] \in Job
         /\ d \in Document
  <1> DEFINE q == [poll[p] EXCEPT !.pc = "extract", !.left = @ \ {d}, !.doc = d, !.row = Len(rows) + 1]
  <1>1. poll[p] \in Job /\ poll[p] \in Local /\ d \in Document
    BY JobParts
  <1>2. Len(rows) + 1 \in Nat
    BY DEF Typed
  <1>3. q \in Local
    BY <1>1, <1>2 DEF Local
  <1>4. /\ q.pc = "extract" /\ q.batch = poll[p].batch /\ q.mail = poll[p].mail
        /\ q.left \subseteq poll[p].left /\ q.failed = poll[p].failed /\ q.doc = d
    BY <1>1 DEF Local
  <1>5. q.mail # 0 => d \in Documents(q.mail)
    BY <1>1, <1>4 DEF Job
  <1>6. q \in Job
    <2> HIDE DEF q
    <2> QED
      BY <1>1, <1>3, <1>4, <1>5, SameMessage DEF Working
  <1> QED
    BY <1>1, <1>6

\* A document stays in hand.
LEMMA WorkJob ==
  ASSUME Typed, NEW p \in Poller, poll[p].pc \in Working, NEW q \in Local,
         q.batch = poll[p].batch, q.mail = poll[p].mail, q.left = poll[p].left,
         q.failed = poll[p].failed, q.doc = poll[p].doc, q.pc \in {"store", "search", "route"},
         q.pc = "store" => q.read \in Reading
  PROVE  q \in Job
  <1>1. poll[p] \in Job
    BY JobParts
  <1>2. q.doc \in Document /\ (q.mail # 0 => q.doc \in Documents(q.mail))
    BY <1>1 DEF Job
  <1> QED
    BY <1>1, <1>2, SameMessage

\* A document is done, its ingest failed or not.
LEMMA DoneJob ==
  ASSUME Typed, NEW p \in Poller, NEW made \in Nat, NEW left \in SUBSET poll[p].left,
         NEW failed \in SUBSET (poll[p].failed \cup poll[p].left \cup
                               IF poll[p].pc \in Working THEN {poll[p].doc} ELSE {}),
         NEW q, q = [poll[p] EXCEPT !.made = made, !.left = left, !.failed = failed]
  PROVE  Finished(q) \in Job /\ Finished(q).pc \notin Working
  <1>1. poll[p] \in Job /\ poll[p] \in Local /\ poll[p].left \subseteq Document
    BY JobParts
  <1>2. failed \subseteq Document /\ left \subseteq Document
    BY <1>1 DEF Job, Local
  <1>3. q \in Local
    BY <1>1, <1>2 DEF Local
  <1>4. q.batch = poll[p].batch /\ q.mail = poll[p].mail /\ q.left = left /\ q.failed = failed
    BY <1>1 DEF Local
  <1>5. q.mail # 0 => failed \subseteq Documents(q.mail) /\ left \subseteq Documents(q.mail)
    BY <1>1, <1>4 DEF Job
  <1> QED
    BY <1>1, <1>3, <1>4, <1>5, FinishedJob DEF Job

LEMMA RecordJob ==
  ASSUME Typed, NEW p \in Poller, poll[p].pc = "attach", poll[p].left = {}
  PROVE  /\ [poll[p] EXCEPT !.pc = "mark"] \in Job
         /\ poll[p].mail \in Message /\ IdOf[poll[p].mail] \in MailId
         /\ poll[p].failed \in SUBSET Documents(poll[p].mail) /\ poll[p].made \in Nat
  <1> DEFINE q == [poll[p] EXCEPT !.pc = "mark"]
  <1>1. poll[p] \in Job /\ poll[p] \in Local /\ poll[p].mail # 0
    BY JobParts DEF Job
  <1>2. q \in Local
    BY <1>1 DEF Local
  <1>3. q.pc = "mark" /\ q.batch = poll[p].batch /\ q.mail = poll[p].mail
        /\ q.left = poll[p].left /\ q.failed = poll[p].failed
    BY <1>1 DEF Local
  <1>4. q \in Job
    <2> HIDE DEF q
    <2> QED
      BY <1>1, <1>2, <1>3, SameMessage DEF Working
  <1>5. poll[p].mail \in Message /\ poll[p].made \in Nat
    BY <1>1 DEF Local
  <1>6. IdOf[poll[p].mail] \in MailId /\ poll[p].failed \in SUBSET Documents(poll[p].mail)
    BY <1>1, <1>5, MailAssumption DEF Job
  <1> QED
    BY <1>4, <1>5, <1>6

\* The next message, before and after it is looked up.
LEMMA MessageJob ==
  ASSUME Typed, NEW p \in Poller, NEW m \in poll[p].batch
  PROVE  /\ [Idle EXCEPT !.pc = "mark", !.mail = m, !.batch = poll[p].batch \ {m}] \in Job
         /\ [Idle EXCEPT !.pc = "attach", !.mail = m, !.batch = poll[p].batch \ {m},
                         !.left = Documents(m)] \in Job
         /\ m \in Message
  <1>1. poll[p] \in Job /\ poll[p] \in Local /\ m \in Message /\ m # 0
    BY JobParts, DocumentsTyped
  <1>2. /\ Documents(m) \subseteq Document /\ IdOf[m] # NoId
        /\ poll[p].batch \ {m} \subseteq Message /\ \A k \in poll[p].batch : IdOf[k] # NoId
    BY <1>1, DocumentsTyped, JobParts DEF Job
  <1> QED
    BY <1>1, <1>2 DEF Idle, Job, Local, Working

LEMMA NextJob ==
  ASSUME Typed, NEW p \in Poller
  PROVE  [Idle EXCEPT !.pc = "next", !.batch = poll[p].batch] \in Job
  <1>1. poll[p] \in Job /\ poll[p].batch \subseteq Message
    BY JobParts
  <1> QED
    BY <1>1 DEF Idle, Job, Local, Working

-----------------------------------------------------------------------------
(* Each step keeps the invariant Owned.                                    *)

LEMMA RowWritten ==
  ASSUME Typed, NEW i \in DOMAIN rows, NEW s \in Status, Write(i, s)
  PROVE  /\ rows' \in Seq(Invoice) /\ DOMAIN rows' = DOMAIN rows
         /\ rows'[i] = [rows[i] EXCEPT !.status = s]
         /\ rows'[i].status = s /\ rows'[i].doc = rows[i].doc
         /\ rows'[i].read = rows[i].read /\ rows'[i].vendor = rows[i].vendor
         /\ \A j \in DOMAIN rows : j # i => rows'[j] = rows[j]
  <1>1. rows \in Seq(Invoice) /\ rows[i] \in Invoice
    BY DEF Typed
  <1>2. [rows[i] EXCEPT !.status = s] \in Invoice
    BY <1>1 DEF Invoice
  <1>3. rows' = [rows EXCEPT ![i] = [rows[i] EXCEPT !.status = s]]
    BY DEF Write
  <1>4. rows' \in Seq(Invoice) /\ DOMAIN rows' = DOMAIN rows
    BY <1>1, <1>2, <1>3
  <1>5. rows'[i] = [rows[i] EXCEPT !.status = s] /\ \A j \in DOMAIN rows : j # i => rows'[j] = rows[j]
    BY <1>1, <1>3
  <1> QED
    BY <1>1, <1>4, <1>5 DEF Invoice

\* What StoreExtraction writes.
Store(i, r, s) ==
  rows' = [rows EXCEPT ![i] = [@ EXCEPT !.read = r, !.vendor = VendorOf[r], !.status = s]]

LEMMA RowStored ==
  ASSUME Typed, NEW i \in DOMAIN rows, NEW r \in Reading, NEW s \in Status, Store(i, r, s)
  PROVE  /\ rows' \in Seq(Invoice) /\ DOMAIN rows' = DOMAIN rows
         /\ rows'[i].status = s /\ rows'[i].doc = rows[i].doc
         /\ rows'[i].read = r /\ rows'[i].vendor = VendorOf[r]
         /\ \A j \in DOMAIN rows : j # i => rows'[j] = rows[j]
  <1> DEFINE row == [rows[i] EXCEPT !.read = r, !.vendor = VendorOf[r], !.status = s]
  <1>1. rows \in Seq(Invoice) /\ rows[i] \in Invoice
    BY DEF Typed
  <1>2. VendorOf[r] \in Vendor \cup {Null}
    BY DEF Vendor
  <1>3. row \in Invoice
    BY <1>1, <1>2 DEF Invoice
  <1>4. row.status = s /\ row.doc = rows[i].doc /\ row.read = r /\ row.vendor = VendorOf[r]
    BY <1>1 DEF Invoice
  <1>5. rows' = [rows EXCEPT ![i] = row]
    BY DEF Store
  <1> HIDE DEF row
  <1>6. rows' \in Seq(Invoice) /\ DOMAIN rows' = DOMAIN rows
    BY <1>1, <1>3, <1>5
  <1>7. rows'[i] = row /\ \A j \in DOMAIN rows : j # i => rows'[j] = rows[j]
    BY <1>1, <1>5
  <1> QED
    BY <1>4, <1>6, <1>7

\* A statement that leaves the invoices alone and holds none afterwards, or the same.
LEMMA QuietAdvance ==
  ASSUME Owned, NEW p \in Poller, NEW q \in Job, Set(p, q), UNCHANGED rows,
         q.pc \in Working => /\ poll[p].pc \in Working
                             /\ q.row = poll[p].row /\ q.doc = poll[p].doc
                             /\ (q.pc \in {"extract", "store"} <=> poll[p].pc \in {"extract", "store"})
  PROVE  /\ poll' \in [Poller -> Job]
         /\ \A o \in Poller : InHand(poll[o])'
         /\ Exclusive' /\ rows' \in Seq(Invoice)
  <1>1. rows' \in Seq(Invoice)
    BY DEF Owned, Typed
  <1>2. InHand(poll[p])
    BY DEF Owned
  <1>3. InHand(q)'
    BY <1>2 DEF InHand
  <1>4. q.pc \in Working => poll[p].pc \in Working /\ q.row = poll[p].row
    OBVIOUS
  <1> QED
    BY <1>1, <1>3, <1>4, Advance

\* A statement that ends a document.
LEMMA FinishAdvance ==
  ASSUME Owned, NEW p \in Poller, NEW q \in Job, Set(p, q), q.pc \notin Working,
         poll[p].pc \in Working, rows' \in Seq(Invoice), DOMAIN rows' = DOMAIN rows,
         \A j \in DOMAIN rows : j # poll[p].row => rows'[j] = rows[j]
  PROVE  /\ poll' \in [Poller -> Job]
         /\ \A o \in Poller : InHand(poll[o])'
         /\ Exclusive'
  <1>1. InHand(q)'
    BY DEF InHand
  <1>2. \A i \in DOMAIN rows :
          i \in DOMAIN rows' /\ (rows'[i] = rows[i] \/ (i = poll[p].row /\ poll[p].pc \in Working))
    OBVIOUS
  <1> QED
    BY <1>1, <1>2, Advance

\* The tables but the invoices, the mailbox and the bounds.
Around ==
  /\ arrived \in 0..Messages /\ seen \subseteq 1..arrived
  /\ recorded \subseteq InboundMessage /\ vendors \subseteq Vendor
  /\ sweepInFlight \in BOOLEAN /\ faults \in Nat /\ requests \in Nat
others == <<arrived, seen, recorded, vendors, sweepInFlight, faults, requests>>

LEMMA AroundKept == ASSUME Typed  PROVE Around /\ (UNCHANGED others => Around')
  BY DEF Typed, Around, others

LEMMA OwnedFrom ==
  ASSUME Around', rows' \in Seq(Invoice), poll' \in [Poller -> Job],
         \A o \in Poller : InHand(poll[o])', Exclusive'
  PROVE  Owned'
  BY DEF Around, Owned, Typed

LEMMA PollStarts ==
  ASSUME Owned, NEW p \in Poller, Sweep(p) \/ PollNow(p) \/ Upload(p)
  PROVE  Owned'
  <1>1. Around
    BY AroundKept DEF Owned
  <1>2. Around' /\ UNCHANGED rows
    <2>1. CASE Sweep(p)
      BY <1>1, <2>1 DEF Sweep, Around, Inbox, Bounds
    <2>2. CASE PollNow(p) \/ Upload(p)
      <3>0. requests' = requests + 1
        BY <2>2, Zenon DEF PollNow, Upload
      <3>1. requests' \in Nat
        BY <1>1, <3>0 DEF Around
      <3>2. UNCHANGED <<arrived, seen, recorded, rows, vendors, sweepInFlight, faults>>
        BY <2>2 DEF PollNow, Upload, Inbox
      <3> QED
        BY <1>1, <3>1, <3>2, Zenon DEF Around
    <2> QED
      BY <2>1, <2>2
  <1>3. PICK q \in Job : Set(p, q) /\ q.pc \notin Working
    <2>1. CASE Upload(p)
      <3>1. PICK d \in Uploaded : Set(p, [Idle EXCEPT !.pc = "attach", !.left = {d}])
        BY <2>1 DEF Upload
      <3>2. [Idle EXCEPT !.pc = "attach", !.left = {d}].pc = "attach"
        BY DEF Idle
      <3> QED
        BY <3>1, <3>2, UploadJob DEF Working, Document
    <2>2. CASE Sweep(p) \/ PollNow(p)
      <3>1. poll[p].pc = "idle" /\ Set(p, [poll[p] EXCEPT !.pc = "fetch"])
        BY <2>2 DEF Sweep, PollNow, Goto, At
      <3>2. [poll[p] EXCEPT !.pc = "fetch"].pc = "fetch"
        BY JobParts DEF Owned, Local
      <3> QED
        BY <3>1, <3>2, FetchJob DEF Owned, Working
    <2> QED
      BY <2>1, <2>2
  <1> QED
    BY <1>2, <1>3, QuietAdvance, OwnedFrom

LEMMA BatchMoves ==
  ASSUME Owned, NEW p \in Poller, FetchUnread(p) \/ TakeMessage(p) \/ PollEnds(p)
  PROVE  Owned'
  <1>1. Around /\ Typed
    BY AroundKept DEF Owned
  <1>2. Around' /\ UNCHANGED rows
    <2>1. CASE FetchUnread(p) \/ TakeMessage(p)
      BY <1>1, <2>1 DEF FetchUnread, TakeMessage, Around, Inbox, Bounds
    <2>2. CASE PollEnds(p)
      BY <1>1, <2>2 DEF PollEnds, Finish, Around, Inbox, Bounds
    <2> QED
      BY <2>1, <2>2
  <1>3. PICK q \in Job : Set(p, q) /\ q.pc \notin Working
    <2>1. CASE FetchUnread(p)
      <3> DEFINE ms == {m \in Unread : Cardinality({k \in Unread : k < m}) < Limit}
      <3>1. ms \in SUBSET Message /\ \A m \in ms : IdOf[m] # NoId
        BY <1>1, MailAssumption DEF Unread, Around, Message
      <3>2. Set(p, [poll[p] EXCEPT !.pc = "next", !.batch = ms])
        BY <2>1 DEF FetchUnread
      <3> HIDE DEF ms
      <3>3. [poll[p] EXCEPT !.pc = "next", !.batch = ms].pc = "next"
        BY <1>1, JobParts DEF Local
      <3> QED
        BY <1>1, <3>1, <3>2, <3>3, BatchJob DEF Working
    <2>2. CASE TakeMessage(p)
      <3> DEFINE m == First(poll[p].batch)
                 base == [Idle EXCEPT !.mail = m, !.batch = poll[p].batch \ {m}]
                 mark == [Idle EXCEPT !.pc = "mark", !.mail = m, !.batch = poll[p].batch \ {m}]
                 attach == [Idle EXCEPT !.pc = "attach", !.mail = m, !.batch = poll[p].batch \ {m},
                                        !.left = Documents(m)]
      <3>1. m \in poll[p].batch
        BY <1>1, <2>2, JobParts, DocumentsTyped, Least DEF TakeMessage
      <3>2. Set(p, mark) \/ Set(p, attach)
        <4>1. [base EXCEPT !.pc = "mark"] = mark
              /\ [base EXCEPT !.pc = "attach", !.left = Documents(m)] = attach
          BY DEF Idle
        <4> QED
          BY <2>2, <4>1 DEF TakeMessage
      <3>3. mark.pc = "mark" /\ attach.pc = "attach"
        BY DEF Idle
      <3>4. mark \in Job /\ attach \in Job
        BY <1>1, <3>1, MessageJob
      <3> HIDE DEF m, mark, attach
      <3> QED
        BY <3>2, <3>3, <3>4 DEF Working
    <2>3. CASE PollEnds(p)
      BY <2>3, IdleJob DEF PollEnds, Finish, Working
    <2> QED
      BY <2>1, <2>2, <2>3
  <1> QED
    BY <1>2, <1>3, QuietAdvance, OwnedFrom

LEMMA Begins ==
  ASSUME Owned, NEW p \in Poller, InsertInvoice(p)
  PROVE  Owned'
  <1>1. Around /\ Typed
    BY AroundKept DEF Owned
  <1>2. Around'
    BY AroundKept, <1>1 DEF InsertInvoice, others, Inbox, Bounds
  <1>3. PICK d \in poll[p].left :
          /\ rows' = Append(rows, [doc |-> d, status |-> "EXTRACTING", read |-> Null, vendor |-> Null])
          /\ Set(p, [poll[p] EXCEPT !.pc = "extract", !.left = @ \ {d}, !.doc = d,
                                    !.row = Len(rows) + 1])
    BY <1>1, JobParts, DocumentsTyped, Least DEF InsertInvoice
  <1>4. PICK q \in Job : Set(p, q) /\ q.pc = "extract" /\ q.doc = d /\ q.row = Len(rows) + 1
    <2> DEFINE r == [poll[p] EXCEPT !.pc = "extract", !.left = @ \ {d}, !.doc = d,
                                    !.row = Len(rows) + 1]
    <2>1. r.pc = "extract" /\ r.doc = d /\ r.row = Len(rows) + 1
      BY <1>1, JobParts DEF Local
    <2>2. r \in Job /\ Set(p, r)
      BY <1>1, <1>3, InsertJob
    <2> HIDE DEF r
    <2> QED
      BY <2>1, <2>2
  <1>5. PICK row \in Invoice : /\ rows' = Append(rows, row)
                               /\ row.doc = d /\ row.status = "EXTRACTING"
    <2> DEFINE r == [doc |-> d, status |-> "EXTRACTING", read |-> Null, vendor |-> Null]
    <2>1. d \in Document
      BY <1>1, JobParts
    <2>2. r \in Invoice /\ r.doc = d /\ r.status = "EXTRACTING"
      BY <2>1 DEF Invoice, Status
    <2>3. rows' = Append(rows, r)
      BY <1>3
    <2> HIDE DEF r
    <2> QED
      BY <2>2, <2>3
  <1>6. rows \in Seq(Invoice)
    BY <1>1 DEF Typed
  <1>7. /\ rows' \in Seq(Invoice) /\ q.row \in DOMAIN rows' /\ q.row \notin DOMAIN rows
        /\ rows'[q.row] = row
        /\ \A i \in DOMAIN rows : i \in DOMAIN rows' /\ rows'[i] = rows[i]
    BY <1>4, <1>5, <1>6
  <1>8. InHand(q)'
    BY <1>4, <1>5, <1>7 DEF InHand
  <1> QED
    BY <1>2, <1>4, <1>7, <1>8, Advance, OwnedFrom

LEMMA HandTyped ==
  ASSUME Owned, NEW p \in Poller, poll[p].pc \in Working
  PROVE  /\ Typed /\ poll[p] \in Local
         /\ poll[p].row \in DOMAIN rows /\ rows[poll[p].row] \in Invoice
         /\ rows[poll[p].row].doc = poll[p].doc /\ poll[p].doc \in Document
         /\ poll[p].pc \in {"extract", "store"} => rows[poll[p].row].status = "EXTRACTING"
         /\ poll[p].pc \in {"search", "route"} => rows[poll[p].row].status = "VALIDATING"
  <1>1. Typed /\ InHand(poll[p])
    BY DEF Owned
  <1>2. poll[p] \in Local /\ poll[p].doc \in Document
    BY <1>1, JobParts DEF Job
  <1>3. rows \in Seq(Invoice)
    BY <1>1 DEF Typed
  <1> QED
    BY <1>1, <1>2, <1>3 DEF InHand, Working

LEMMA DoneIs == \A p, q : Done(p, q) <=> Set(p, Finished(q))
  BY DEF Done, Finished

\* An extraction that failed, the last statement of one that did not.
LEMMA Ends ==
  ASSUME Owned, NEW p \in Poller, poll[p].pc \in Working, NEW s \in Status, Write(poll[p].row, s),
         Done(p, [poll[p] EXCEPT !.made = @ + 1]), UNCHANGED others
  PROVE  Owned'
  <1> DEFINE q == [poll[p] EXCEPT !.made = poll[p].made + 1, !.left = poll[p].left,
                                  !.failed = poll[p].failed]
  <1>1. Around' /\ Typed
    BY AroundKept DEF Owned
  <1>2. poll[p] \in Local /\ poll[p].made + 1 \in Nat
    BY <1>1, JobParts DEF Local
  <1>3. q = [poll[p] EXCEPT !.made = @ + 1]
    BY <1>2 DEF Local
  <1>4. Set(p, Finished(q))
    BY <1>3, DoneIs
  <1>5. Finished(q) \in Job /\ Finished(q).pc \notin Working
    BY <1>1, <1>2, DoneJob
  <1>6. /\ poll[p].row \in DOMAIN rows /\ rows' \in Seq(Invoice) /\ DOMAIN rows' = DOMAIN rows
        /\ \A j \in DOMAIN rows : j # poll[p].row => rows'[j] = rows[j]
    BY HandTyped, RowWritten
  <1> HIDE DEF q
  <1> QED
    BY <1>1, <1>4, <1>5, <1>6, FinishAdvance, OwnedFrom

LEMMA Extracts ==
  ASSUME Owned, NEW p \in Poller, Extracted(p)
  PROVE  Owned'
  <1>1. Around /\ Typed /\ poll[p].pc = "extract" /\ poll[p] \in Local
    BY AroundKept, JobParts DEF Owned, Extracted, At
  <1>2. PICK r \in Reading : /\ vendors' = vendors \cup ({VendorOf[r]} \ {Null})
                             /\ Set(p, [poll[p] EXCEPT !.pc = "store", !.read = r])
    BY DEF Extracted
  <1>3. Around'
    <2>1. vendors' \subseteq Vendor
      BY <1>1, <1>2 DEF Around, Vendor
    <2>2. UNCHANGED <<arrived, seen, recorded, sweepInFlight, faults, requests>>
      BY DEF Extracted, Inbox, Bounds
    <2> QED
      BY <1>1, <2>1, <2>2, Zenon DEF Around
  <1>4. PICK q \in Job : Set(p, q) /\ q.pc = "store" /\ q.row = poll[p].row /\ q.doc = poll[p].doc
    <2> DEFINE j == [poll[p] EXCEPT !.pc = "store", !.read = r]
    <2>1. /\ j.pc = "store" /\ j.row = poll[p].row /\ j.doc = poll[p].doc /\ j.read = r
          /\ j.batch = poll[p].batch /\ j.mail = poll[p].mail /\ j.left = poll[p].left
          /\ j.failed = poll[p].failed
      BY <1>1 DEF Local
    <2>2. j \in Local
      BY <1>1 DEF Local
    <2>3. Set(p, j)
      BY <1>2
    <2> HIDE DEF j
    <2>4. j \in Job
      BY <1>1, <2>1, <2>2, WorkJob DEF Working
    <2> QED
      BY <2>1, <2>3, <2>4
  <1>5. UNCHANGED rows
    BY DEF Extracted
  <1> QED
    BY <1>1, <1>3, <1>4, <1>5, QuietAdvance, OwnedFrom DEF Working

LEMMA Stores ==
  ASSUME Owned, NEW p \in Poller, StoreExtraction(p)
  PROVE  Owned'
  <1> DEFINE i == poll[p].row
             r == poll[p].read
  <1>1. Around' /\ Typed /\ poll[p].pc = "store" /\ poll[p].pc \in Working /\ poll[p] \in Local
    BY AroundKept, JobParts DEF Owned, StoreExtraction, At, others, Inbox, Bounds, Working
  <1>2. r \in Reading
    BY <1>1, JobParts DEF Job
  <1>3. i \in DOMAIN rows /\ rows[i].doc = poll[p].doc
    BY <1>1, HandTyped
  <1>4. CASE r \in Doubted
    <2> DEFINE q == [poll[p] EXCEPT !.made = poll[p].made + 1, !.left = poll[p].left,
                                    !.failed = poll[p].failed]
    <2>1. Store(i, r, "NEEDS_REVIEW") /\ Done(p, [poll[p] EXCEPT !.made = @ + 1])
      BY <1>4 DEF StoreExtraction, Store
    <2>2. poll[p].made + 1 \in Nat
      BY <1>1 DEF Local
    <2>3. q = [poll[p] EXCEPT !.made = @ + 1]
      BY <1>1 DEF Local
    <2>4. Set(p, Finished(q))
      BY <2>1, <2>3, DoneIs
    <2>5. Finished(q) \in Job /\ Finished(q).pc \notin Working
      BY <1>1, <2>2, DoneJob
    <2>6. /\ rows' \in Seq(Invoice) /\ DOMAIN rows' = DOMAIN rows
          /\ \A j \in DOMAIN rows : j # i => rows'[j] = rows[j]
      BY <1>1, <1>2, <1>3, <2>1, RowStored DEF Status
    <2> HIDE DEF q
    <2> QED
      BY <1>1, <2>4, <2>5, <2>6, FinishAdvance, OwnedFrom
  <1>5. CASE r \notin Doubted
    <2>1. Store(i, r, "VALIDATING") /\ Set(p, [poll[p] EXCEPT !.pc = "search", !.read = Null])
      BY <1>5 DEF StoreExtraction, Store
    <2>2. PICK q \in Job : Set(p, q) /\ q.pc = "search" /\ q.row = i /\ q.doc = poll[p].doc
      <3> DEFINE j == [poll[p] EXCEPT !.pc = "search", !.read = Null]
      <3>1. /\ j.pc = "search" /\ j.row = poll[p].row /\ j.doc = poll[p].doc
            /\ j.batch = poll[p].batch /\ j.mail = poll[p].mail /\ j.left = poll[p].left
            /\ j.failed = poll[p].failed
        BY <1>1 DEF Local
      <3>2. j \in Local
        BY <1>1 DEF Local
      <3>3. Set(p, j)
        BY <2>1
      <3> HIDE DEF j
      <3>4. j \in Job
        BY <1>1, <3>1, <3>2, WorkJob
      <3> QED
        BY <3>1, <3>3, <3>4
    <2>3. /\ rows' \in Seq(Invoice) /\ DOMAIN rows' = DOMAIN rows
          /\ rows'[i].status = "VALIDATING" /\ rows'[i].doc = rows[i].doc
          /\ \A j \in DOMAIN rows : j # i => rows'[j] = rows[j]
      BY <1>1, <1>2, <1>3, <2>1, RowStored DEF Status
    <2>4. InHand(q)'
      BY <1>3, <2>2, <2>3 DEF InHand
    <2>5. \A j \in DOMAIN rows :
            j \in DOMAIN rows' /\ (rows'[j] = rows[j] \/ (j = poll[p].row /\ poll[p].pc \in Working))
      BY <1>1, <2>3
    <2> QED
      BY <1>1, <2>2, <2>3, <2>4, <2>5, Advance, OwnedFrom
  <1> QED
    BY <1>4, <1>5

LEMMA Searches ==
  ASSUME Owned, NEW p \in Poller, SearchDuplicate(p)
  PROVE  Owned'
  <1>1. Around' /\ Typed /\ poll[p].pc = "search" /\ poll[p] \in Local
    BY AroundKept, JobParts DEF Owned, SearchDuplicate, At, others, Inbox, Bounds
  <1>2. PICK b \in BOOLEAN : Set(p, [poll[p] EXCEPT !.pc = "route", !.duplicate = b])
    BY Zenon DEF SearchDuplicate
  <1>3. PICK q \in Job : Set(p, q) /\ q.pc = "route" /\ q.row = poll[p].row /\ q.doc = poll[p].doc
    <2> DEFINE j == [poll[p] EXCEPT !.pc = "route", !.duplicate = b]
    <2>1. /\ j.pc = "route" /\ j.row = poll[p].row /\ j.doc = poll[p].doc
          /\ j.batch = poll[p].batch /\ j.mail = poll[p].mail /\ j.left = poll[p].left
          /\ j.failed = poll[p].failed
      BY <1>1 DEF Local
    <2>2. j \in Local
      BY <1>1 DEF Local
    <2>3. Set(p, j)
      BY <1>2
    <2> HIDE DEF j
    <2>4. j \in Job
      BY <1>1, <2>1, <2>2, WorkJob DEF Working
    <2> QED
      BY <2>1, <2>3, <2>4
  <1>4. UNCHANGED rows
    BY DEF SearchDuplicate
  <1> QED
    BY <1>1, <1>3, <1>4, QuietAdvance, OwnedFrom DEF Working

LEMMA Records ==
  ASSUME Owned, NEW p \in Poller, RecordMessage(p)
  PROVE  Owned'
  <1>1. Around /\ Typed /\ poll[p].pc = "attach" /\ poll[p].left = {} /\ poll[p] \in Local
    BY AroundKept, JobParts DEF Owned, RecordMessage, At
  <1> DEFINE row == [id |-> IdOf[poll[p].mail], made |-> poll[p].made, failed |-> poll[p].failed]
             q == [poll[p] EXCEPT !.pc = "mark"]
  <1>2. row \in InboundMessage
    BY <1>1, RecordJob, DocumentsTyped DEF InboundMessage
  <1>3. recorded' \subseteq recorded \cup {row}
    BY DEF RecordMessage
  <1>4. Around'
    <2>1. recorded' \subseteq InboundMessage
      BY <1>1, <1>2, <1>3 DEF Around
    <2>2. UNCHANGED <<arrived, seen, vendors, sweepInFlight, faults, requests>>
      BY DEF RecordMessage, Inbox, Bounds
    <2> QED
      BY <1>1, <2>1, <2>2, Zenon DEF Around
  <1>5. q \in Job /\ q.pc = "mark" /\ Set(p, q) /\ UNCHANGED rows
    BY <1>1, RecordJob DEF RecordMessage, Goto, Local
  <1> HIDE DEF q
  <1> QED
    BY <1>4, <1>5, QuietAdvance, OwnedFrom DEF Working

LEMMA Marks ==
  ASSUME Owned, NEW p \in Poller, MarkHandled(p)
  PROVE  Owned'
  <1>1. Around /\ Typed
    BY AroundKept DEF Owned
  <1>2. Around'
    <2>1. seen' \subseteq 1..arrived'
      BY <1>1 DEF MarkHandled, Around
    <2>2. UNCHANGED <<arrived, recorded, vendors, sweepInFlight, faults, requests>>
      BY DEF MarkHandled, Bounds
    <2> QED
      BY <1>1, <2>1, <2>2, Zenon DEF Around
  <1> DEFINE q == [Idle EXCEPT !.pc = "next", !.batch = poll[p].batch]
  <1>3. q \in Job /\ q.pc = "next"
    BY <1>1, NextJob DEF Idle
  <1>4. Set(p, q) /\ UNCHANGED rows
    BY DEF MarkHandled
  <1> HIDE DEF q
  <1> QED
    BY <1>2, <1>3, <1>4, QuietAdvance, OwnedFrom DEF Working

LEMMA Fails ==
  ASSUME Owned, NEW p \in Poller, AttachmentFails(p) \/ PollFails(p)
  PROVE  Owned'
  <1>1. Around /\ Typed /\ poll[p] \in Local
    BY AroundKept, JobParts DEF Owned
  <1>2. faults' \in Nat
    <2>1. faults' = faults + 1
      BY Zenon DEF AttachmentFails, PollFails, Faulty
    <2> QED
      BY <1>1, <2>1 DEF Around
  <1>3. UNCHANGED <<arrived, seen, recorded, vendors, requests, rows>>
    BY Zenon DEF AttachmentFails, PollFails, Inbox
  <1>4. sweepInFlight' \in BOOLEAN
    BY <1>1, Zenon DEF AttachmentFails, PollFails, Finish, Around
  <1>5. Around'
    BY <1>1, <1>2, <1>3, <1>4, Zenon DEF Around
  <1>6. PICK q \in Job : Set(p, q) /\ q.pc \notin Working
    <2>1. CASE AttachmentFails(p)
      <3>1. PICK d \in Document :
              /\ \/ At(p, "attach") /\ poll[p].left # {} /\ d = First(poll[p].left)
                 \/ poll[p].pc \in {"extract", "store", "search", "route"} /\ d = poll[p].doc
              /\ Done(p, [poll[p] EXCEPT !.left = @ \ {d}, !.failed = @ \cup {d}])
        BY <2>1 DEF AttachmentFails
      <3>2. d \in poll[p].left \/ (poll[p].pc \in Working /\ d = poll[p].doc)
        BY <1>1, <3>1, JobParts, DocumentsTyped, Least DEF Working
      <3> DEFINE j == [poll[p] EXCEPT !.made = poll[p].made, !.left = poll[p].left \ {d},
                                      !.failed = poll[p].failed \cup {d}]
      <3>3. j = [poll[p] EXCEPT !.left = @ \ {d}, !.failed = @ \cup {d}] /\ poll[p].made \in Nat
        BY <1>1 DEF Local
      <3>4. Set(p, Finished(j))
        BY <3>1, <3>3, DoneIs
      <3>5. poll[p].failed \cup {d} \in
              SUBSET (poll[p].failed \cup poll[p].left \cup
                      IF poll[p].pc \in Working THEN {poll[p].doc} ELSE {})
        BY <3>2
      <3>6. Finished(j) \in Job /\ Finished(j).pc \notin Working
        BY <1>1, <3>3, <3>5, DoneJob
      <3> QED
        BY <3>4, <3>6
    <2>2. CASE PollFails(p)
      BY <2>2, IdleJob DEF PollFails, Finish, Working
    <2> QED
      BY <2>1, <2>2
  <1> QED
    BY <1>3, <1>5, <1>6, QuietAdvance, OwnedFrom

LEMMA Stays ==
  ASSUME Owned, UNCHANGED <<rows, poll>>, Around'
  PROVE  Owned'
  BY DEF Owned, Typed, Around, InHand, Exclusive

LEMMA StepOwned ==
  ASSUME Owned, [Next]_mvars  PROVE Owned'
  <1>1. Around /\ Typed
    BY AroundKept DEF Owned
  <1>2. CASE UNCHANGED mvars
    <2>1. UNCHANGED others /\ UNCHANGED <<rows, poll>>
      BY <1>2 DEF mvars, others
    <2> QED
      BY <1>1, <2>1, AroundKept, Stays
  <1>3. CASE MailArrives
    <2>1. arrived' \in 0..Messages /\ seen' \subseteq 1..arrived'
      BY <1>1, <1>3, MailAssumption DEF MailArrives, Around
    <2>2. UNCHANGED <<recorded, rows, vendors, poll, sweepInFlight, faults, requests>>
      BY <1>3 DEF MailArrives, Bounds
    <2>3. Around'
      BY <1>1, <2>1, <2>2, Zenon DEF Around
    <2> QED
      BY <2>2, <2>3, Stays
  <1>4. CASE Crash
    <2>1. faults' = faults + 1 /\ sweepInFlight' = FALSE
          /\ UNCHANGED <<arrived, seen, recorded, rows, vendors, requests>>
      BY <1>4 DEF Crash, Faulty, Inbox
    <2>2. faults' \in Nat
      BY <1>1, <2>1 DEF Around
    <2>3. Around'
      BY <1>1, <2>1, <2>2, Zenon DEF Around
    <2>4. poll' = [p \in Poller |-> Idle]
      BY <1>4 DEF Crash
    <2>5. rows' \in Seq(Invoice) /\ poll' \in [Poller -> Job]
      BY <1>1, <2>1, <2>4, IdleJob DEF Typed
    <2>6. \A p \in Poller : poll'[p].pc \notin Working
      BY <2>4, IdleJob DEF Working
    <2> QED
      BY <2>3, <2>5, <2>6 DEF Owned, Typed, Around, InHand, Exclusive
  <1>5. ASSUME NEW p \in Poller, ExtractionFails(p)  PROVE Owned'
    <2>1. /\ poll[p].pc \in Working /\ Write(poll[p].row, "NEEDS_REVIEW")
          /\ Done(p, [poll[p] EXCEPT !.made = @ + 1]) /\ UNCHANGED others
      BY <1>5 DEF ExtractionFails, At, Working, others, Inbox, Bounds
    <2> QED
      BY <2>1, Ends DEF Status
  <1>6. ASSUME NEW p \in Poller, RouteInvoice(p)  PROVE Owned'
    <2>1. /\ poll[p].pc \in Working /\ \E s \in Status : Write(poll[p].row, s)
          /\ Done(p, [poll[p] EXCEPT !.made = @ + 1]) /\ UNCHANGED others
      BY <1>6 DEF RouteInvoice, At, Working, others, Inbox, Bounds, Status
    <2> QED
      BY <2>1, Ends
  <1> QED
    BY <1>2, <1>3, <1>4, <1>5, <1>6, PollStarts, BatchMoves, Begins, Extracts, Stores, Searches,
       Records, Marks, Fails DEF Next, Statement

LEMMA SpecOwned == Spec => []Owned
  <1>1. Init => Owned
    BY InitOwned
  <1>2. Owned /\ [Next]_mvars => Owned'
    BY StepOwned
  <1> QED
    BY <1>1, <1>2, PTL DEF Spec

\* Rows, flags and locals have their types and every poll at work refers to a row of its
\* own, for any number of polls, messages and faults (mailbox.service.ts, ingest).
THEOREM SpecMailboxTypeOK == Spec => []MailboxTypeOK
  <1>1. Owned => MailboxTypeOK
    <2> SUFFICES ASSUME Owned  PROVE MailboxTypeOK
      OBVIOUS
    <2>1. Typed
      BY DEF Owned
    <2>2. \A p \in Poller : poll[p].pc \in Working => poll[p].row \in DOMAIN rows
      BY HandTyped
    <2>3. \A p \in Poller : poll[p].pc = "mark" => poll[p].mail # 0 /\ IdOf[poll[p].mail] # NoId
      BY <2>1, JobParts DEF Job
    <2>4. poll \in [Poller -> Local]
      BY <2>1 DEF Typed, Job
    <2> QED
      BY <2>1, <2>2, <2>3, <2>4, Zenon DEF MailboxTypeOK, Typed, Working
  <1> QED
    BY <1>1, SpecOwned, PTL

-----------------------------------------------------------------------------
(* NothingLost: every document of a message in hand is in hand, left,      *)
(* failed or settled, and stays so until the message is recorded.          *)

Accounted(q) ==
  /\ q.mail # 0 /\ q.pc \in Working \cup {"attach"} =>
       \A d \in Documents(q.mail) : \/ d \in q.left \/ d \in q.failed \/ Settled(d)
                                    \/ q.pc \in Working /\ d = q.doc
  /\ q.pc = "mark" => AlreadyHandled(IdOf[q.mail])

Kept ==
  /\ \A p \in Poller : Accounted(poll[p])
  /\ \A r \in recorded : \A m \in Message :
       IdOf[m] = r.id => \A d \in Documents(m) : Settled(d) \/ d \in r.failed
  /\ \A m \in seen : AlreadyHandled(IdOf[m])

LEMMA KeptNothingLost == ASSUME Owned, Kept  PROVE NothingLost
  <1>1. seen \subseteq Message
    <2>1. Messages \in Nat
      BY MailAssumption
    <2>2. arrived \in 0..Messages /\ seen \subseteq 1..arrived
      BY DEF Owned, Typed
    <2> QED
      BY <2>1, <2>2 DEF Message
  <1> QED
    BY <1>1 DEF Kept, NothingLost, AlreadyHandled

\* What becomes of a row: it keeps its document, and a status that somebody acts on
\* is never taken back to one of ingest's own.
Onward ==
  /\ \A i \in DOMAIN rows :
       /\ i \in DOMAIN rows' /\ rows'[i].doc = rows[i].doc
       /\ rows[i].status \notin {"EXTRACTING", "VALIDATING"} =>
            rows'[i].status \notin {"EXTRACTING", "VALIDATING"}
  /\ recorded \subseteq recorded'

LEMMA WrittenOnward ==
  ASSUME Owned, NEW p \in Poller, poll[p].pc \in Working, UNCHANGED recorded,
         DOMAIN rows' = DOMAIN rows, rows'[poll[p].row].doc = rows[poll[p].row].doc,
         \A j \in DOMAIN rows : j # poll[p].row => rows'[j] = rows[j]
  PROVE  Onward
  BY HandTyped DEF Onward, Working

LEMMA StepOnward ==
  ASSUME Owned, [Next]_mvars  PROVE Onward
  <1>0. Typed /\ rows \in Seq(Invoice)
    BY DEF Owned, Typed
  <1>1. CASE UNCHANGED rows /\ recorded \subseteq recorded'
    BY <1>1 DEF Onward
  <1>2. ASSUME NEW p \in Poller, InsertInvoice(p)  PROVE Onward
    <2>1. UNCHANGED recorded /\ \E row : rows' = Append(rows, row)
      BY <1>2 DEF InsertInvoice
    <2> QED
      BY <1>0, <2>1 DEF Onward
  <1>3. ASSUME NEW p \in Poller, ExtractionFails(p) \/ RouteInvoice(p)  PROVE Onward
    <2>1. /\ poll[p].pc \in Working /\ UNCHANGED recorded
          /\ \E s \in Status : Write(poll[p].row, s)
      BY <1>3 DEF ExtractionFails, RouteInvoice, At, Working, Status
    <2> QED
      BY <1>0, <2>1, HandTyped, RowWritten, WrittenOnward
  <1>4. ASSUME NEW p \in Poller, StoreExtraction(p)  PROVE Onward
    <2>1. poll[p].pc = "store" /\ poll[p].pc \in Working /\ UNCHANGED recorded
      BY <1>4 DEF StoreExtraction, At, Working
    <2>2. poll[p].read \in Reading
      BY <1>0, <2>1, JobParts DEF Job
    <2>3. PICK s \in Status : Store(poll[p].row, poll[p].read, s)
      BY <1>4 DEF StoreExtraction, Store, Status
    <2>4. poll[p].row \in DOMAIN rows
      BY <2>1, HandTyped
    <2> QED
      BY <1>0, <2>1, <2>2, <2>3, <2>4, RowStored, WrittenOnward
  <1>5. ASSUME NEW p \in Poller,
               \/ FetchUnread(p) \/ TakeMessage(p) \/ PollEnds(p) \/ Extracted(p)
               \/ SearchDuplicate(p) \/ RecordMessage(p) \/ MarkHandled(p)
               \/ Sweep(p) \/ PollNow(p) \/ Upload(p) \/ AttachmentFails(p) \/ PollFails(p)
        PROVE  UNCHANGED rows /\ recorded \subseteq recorded'
    BY <1>5, Zenon DEF FetchUnread, TakeMessage, PollEnds, Extracted, SearchDuplicate, RecordMessage,
       MarkHandled, Sweep, PollNow, Upload, AttachmentFails, PollFails
  <1>6. CASE MailArrives \/ Crash \/ UNCHANGED mvars
    BY <1>1, <1>6 DEF MailArrives, Crash, mvars
  <1> QED
    BY <1>1, <1>2, <1>3, <1>4, <1>5, <1>6 DEF Next, Statement

LEMMA OnwardSettled ==
  ASSUME Onward
  PROVE  /\ \A d : Settled(d) => Settled(d)'
         /\ \A id : AlreadyHandled(id) => AlreadyHandled(id)'
  BY DEF Onward, Settled, AlreadyHandled

LEMMA OnwardAccounted ==
  ASSUME Onward, NEW q, Accounted(q)  PROVE Accounted(q)'
  BY OnwardSettled DEF Accounted

LEMMA KeptBy ==
  ASSUME Owned, Kept, Onward, NEW p \in Poller, NEW q, Set(p, q), Accounted(q)',
         UNCHANGED <<recorded, seen>>
  PROVE  Kept'
  <1>1. poll'[p] = q /\ \A o \in Poller \ {p} : poll'[o] = poll[o]
    BY DEF Owned, Typed, Set
  <1>2. ASSUME NEW o \in Poller  PROVE Accounted(poll[o])'
    <2>1. CASE o = p
      BY <1>1, <2>1 DEF Accounted
    <2>2. CASE o # p
      <3>1. Accounted(poll[o]) /\ poll'[o] = poll[o]
        BY <1>1, <2>2 DEF Kept
      <3> QED
        BY <3>1, OnwardSettled DEF Accounted
    <2> QED
      BY <2>1, <2>2
  <1> QED
    BY <1>2, OnwardSettled DEF Kept

\* The document in hand is given up or has its outcome: what is left of the message.
LEMMA KeptDone ==
  ASSUME Owned, Kept, Onward, NEW p \in Poller, poll[p].pc \in Working \cup {"attach"},
         NEW q, Set(p, Finished(q)), q.mail = poll[p].mail, UNCHANGED <<recorded, seen>>,
         q \in Local,
         \A d \in Document :
           d \in poll[p].left \/ d \in poll[p].failed \/ (poll[p].pc \in Working /\ d = poll[p].doc)
             => d \in q.left \/ d \in q.failed \/ Settled(d)'
  PROVE  Kept'
  <1>1. poll[p] \in Local /\ Accounted(poll[p])
    BY JobParts DEF Owned, Kept
  <1>2. CASE q.mail = 0
    <2>1. Finished(q) = Idle
      BY <1>2 DEF Finished
    <2>2. Accounted(Idle)'
      BY DEF Idle, Accounted
    <2> QED
      BY <2>1, <2>2, KeptBy
  <1>3. CASE q.mail # 0
    <2>1. /\ Finished(q).pc = "attach" /\ Finished(q).mail = q.mail /\ Finished(q).left = q.left
          /\ Finished(q).failed = q.failed
      BY <1>3 DEF Finished, Local
    <2>2. PICK f : f = Finished(q)
      OBVIOUS
    <2>3. q.mail \in Message
      BY <1>3 DEF Local
    <2>4. \A d \in Documents(q.mail) : d \in q.left \/ d \in q.failed \/ Settled(d)'
      BY <1>1, <1>3, <2>3, DocumentsTyped, OnwardSettled DEF Accounted
    <2>5. Accounted(f)'
      BY <2>1, <2>2, <2>4 DEF Accounted
    <2> QED
      BY <2>2, <2>5, KeptBy
  <1> QED
    BY <1>2, <1>3

LEMMA InitKept == ASSUME Init  PROVE Kept
  <1>1. \A p \in Poller : poll[p].pc = "idle"
    BY IdleJob DEF Init
  <1>2. \A p \in Poller : Accounted(poll[p])
    BY <1>1 DEF Accounted, Working
  <1> QED
    BY <1>2 DEF Init, Kept

LEMMA StepKept ==
  ASSUME Owned, Kept, [Next]_mvars  PROVE Kept'
  <1>0. Onward /\ Typed
    BY StepOnward DEF Owned
  <1>1. CASE UNCHANGED <<rows, recorded, seen, poll>>
    BY <1>1 DEF Kept, Accounted, Settled, AlreadyHandled
  <1>2. CASE Crash
    <2>1. poll' = [p \in Poller |-> Idle] /\ UNCHANGED <<recorded, seen, rows>>
      BY <1>2 DEF Crash, Inbox
    <2>2. \A p \in Poller : poll'[p].pc = "idle"
      BY <2>1, IdleJob
    <2>3. \A p \in Poller : Accounted(poll[p])'
      BY <2>2 DEF Accounted, Working
    <2> QED
      BY <2>1, <2>3, <1>0, OnwardSettled DEF Kept
  <1>3. ASSUME NEW p \in Poller,
               Sweep(p) \/ PollNow(p) \/ Upload(p) \/ FetchUnread(p) \/ PollEnds(p) \/ PollFails(p)
        PROVE  Kept'
    <2>1. UNCHANGED <<recorded, seen>>
      BY <1>3, Zenon DEF Sweep, PollNow, Upload, FetchUnread, PollEnds, PollFails, Inbox
    <2>2. PICK q : Set(p, q) /\ (q.pc \in {"fetch", "next", "idle"} \/ (q.pc = "attach" /\ q.mail = 0))
      <3>1. poll[p] \in Local
        BY <1>0, JobParts
      <3>2. CASE Sweep(p) \/ PollNow(p)
        <4>1. Set(p, [poll[p] EXCEPT !.pc = "fetch"])
          BY <3>2 DEF Sweep, PollNow, Goto
        <4>2. [poll[p] EXCEPT !.pc = "fetch"].pc = "fetch"
          BY <3>1 DEF Local
        <4> QED
          BY <4>1, <4>2
      <3>3. CASE Upload(p)
        <4>1. PICK d \in Uploaded : Set(p, [Idle EXCEPT !.pc = "attach", !.left = {d}])
          BY <3>3 DEF Upload
        <4>2. /\ [Idle EXCEPT !.pc = "attach", !.left = {d}].pc = "attach"
              /\ [Idle EXCEPT !.pc = "attach", !.left = {d}].mail = 0
          BY DEF Idle
        <4> QED
          BY <4>1, <4>2
      <3>4. CASE FetchUnread(p)
        <4>1. PICK ms : Set(p, [poll[p] EXCEPT !.pc = "next", !.batch = ms])
          BY <3>4 DEF FetchUnread
        <4>2. [poll[p] EXCEPT !.pc = "next", !.batch = ms].pc = "next"
          BY <3>1 DEF Local
        <4> QED
          BY <4>1, <4>2
      <3>5. CASE PollEnds(p) \/ PollFails(p)
        BY <3>5, IdleJob DEF PollEnds, PollFails, Finish
      <3> QED
        BY <1>3, <3>2, <3>3, <3>4, <3>5
    <2>3. Accounted(q)'
      BY <2>2 DEF Accounted, Working
    <2> QED
      BY <1>0, <2>1, <2>2, <2>3, KeptBy
  <1>4. ASSUME NEW p \in Poller, TakeMessage(p)  PROVE Kept'
    <2> DEFINE m == First(poll[p].batch)
               base == [Idle EXCEPT !.mail = m, !.batch = poll[p].batch \ {m}]
    <2>1. UNCHANGED <<recorded, seen>>
      BY <1>4 DEF TakeMessage, Inbox
    <2>2. PICK q : /\ Set(p, q) /\ q.mail = m
                   /\ \/ q.pc = "mark" /\ AlreadyHandled(IdOf[m])
                      \/ q.pc = "attach" /\ q.left = Documents(m)
      <3>1. /\ [base EXCEPT !.pc = "mark"].pc = "mark" /\ [base EXCEPT !.pc = "mark"].mail = m
            /\ [base EXCEPT !.pc = "attach", !.left = Documents(m)].pc = "attach"
            /\ [base EXCEPT !.pc = "attach", !.left = Documents(m)].mail = m
            /\ [base EXCEPT !.pc = "attach", !.left = Documents(m)].left = Documents(m)
        BY DEF Idle
      <3>2. CASE AlreadyHandled(IdOf[m])
        BY <1>4, <3>1, <3>2 DEF TakeMessage
      <3>3. CASE ~AlreadyHandled(IdOf[m])
        BY <1>4, <3>1, <3>3 DEF TakeMessage
      <3> QED
        BY <3>2, <3>3
    <2>3. Accounted(q)'
      <3>1. CASE q.pc = "mark" /\ AlreadyHandled(IdOf[m])
        <4>1. \E r \in recorded' : r.id = IdOf[q.mail]
          BY <2>1, <2>2, <3>1 DEF AlreadyHandled
        <4> QED
          BY <3>1, <4>1 DEF Accounted, AlreadyHandled, Working
      <3>2. CASE q.pc = "attach" /\ q.left = Documents(m)
        BY <2>2, <3>2 DEF Accounted, Working
      <3> QED
        BY <2>2, <3>1, <3>2
    <2> QED
      BY <1>0, <2>1, <2>2, <2>3, KeptBy
  <1>5. ASSUME NEW p \in Poller, InsertInvoice(p)  PROVE Kept'
    <2>1. /\ poll[p] \in Local /\ Accounted(poll[p]) /\ poll[p].pc = "attach"
          /\ UNCHANGED <<recorded, seen>>
      BY <1>0, <1>5, JobParts DEF Kept, InsertInvoice, At, Inbox
    <2>2. PICK d : Set(p, [poll[p] EXCEPT !.pc = "extract", !.left = @ \ {d}, !.doc = d,
                                          !.row = Len(rows) + 1])
      BY <1>5 DEF InsertInvoice
    <2>3. PICK q : /\ Set(p, q) /\ q.pc = "extract" /\ q.left = poll[p].left \ {d}
                   /\ q.mail = poll[p].mail /\ q.failed = poll[p].failed /\ q.doc = d
      <3> DEFINE j == [poll[p] EXCEPT !.pc = "extract", !.left = @ \ {d}, !.doc = d,
                                      !.row = Len(rows) + 1]
      <3>1. /\ j.pc = "extract" /\ j.left = poll[p].left \ {d} /\ j.doc = d
            /\ j.mail = poll[p].mail /\ j.failed = poll[p].failed
        BY <2>1 DEF Local
      <3> QED
        BY <2>2, <3>1
    <2>4. Accounted(q)'
      BY <1>0, <2>1, <2>3, OnwardSettled DEF Accounted, Working
    <2> QED
      BY <1>0, <2>1, <2>3, <2>4, KeptBy
  <1>6. ASSUME NEW p \in Poller, Extracted(p) \/ SearchDuplicate(p) \/ StoreExtraction(p),
               poll[p].read \in Doubted => ~StoreExtraction(p)
        PROVE  Kept'
    <2>1. /\ poll[p] \in Local /\ Accounted(poll[p]) /\ poll[p].pc \in Working
          /\ UNCHANGED <<recorded, seen>>
      BY <1>0, <1>6, JobParts DEF Kept, Extracted, SearchDuplicate, StoreExtraction, At, Inbox, Working
    <2>2. PICK q : /\ Set(p, q) /\ q.pc \in Working /\ q.left = poll[p].left
                   /\ q.mail = poll[p].mail /\ q.failed = poll[p].failed /\ q.doc = poll[p].doc
      <3>0. PICK l \in Working : \E r, b :
              \/ Set(p, [poll[p] EXCEPT !.pc = l, !.read = r])
              \/ Set(p, [poll[p] EXCEPT !.pc = l, !.duplicate = b])
        BY <1>6 DEF Extracted, SearchDuplicate, StoreExtraction, Working
      <3>1. PICK r, b :
              \/ Set(p, [poll[p] EXCEPT !.pc = l, !.read = r])
              \/ Set(p, [poll[p] EXCEPT !.pc = l, !.duplicate = b])
        BY <3>0
      <3> DEFINE i == [poll[p] EXCEPT !.pc = l, !.read = r]
                 j == [poll[p] EXCEPT !.pc = l, !.duplicate = b]
      <3>2. i.pc = l /\ i.left = poll[p].left /\ i.mail = poll[p].mail /\ i.failed = poll[p].failed
            /\ i.doc = poll[p].doc
        BY <2>1 DEF Local
      <3>3. j.pc = l /\ j.left = poll[p].left /\ j.mail = poll[p].mail /\ j.failed = poll[p].failed
            /\ j.doc = poll[p].doc
        BY <2>1 DEF Local
      <3> QED
        BY <3>1, <3>2, <3>3
    <2>3. Accounted(q)'
      BY <1>0, <2>1, <2>2, OnwardSettled DEF Accounted, Working
    <2> QED
      BY <1>0, <2>1, <2>2, <2>3, KeptBy
  <1>7. ASSUME NEW p \in Poller, ExtractionFails(p) \/ RouteInvoice(p) \/ StoreExtraction(p),
               StoreExtraction(p) => poll[p].read \in Doubted
        PROVE  Kept'
    <2> DEFINE q == [poll[p] EXCEPT !.made = @ + 1]
    <2>1. /\ poll[p] \in Local /\ poll[p].pc \in Working /\ UNCHANGED <<recorded, seen>>
          /\ Done(p, q)
      BY <1>0, <1>7, JobParts DEF ExtractionFails, RouteInvoice, StoreExtraction, At, Inbox, Working
    <2>2. PICK d : d = poll[p].doc /\ Settled(d)'
      <3>1. /\ poll[p].row \in DOMAIN rows /\ rows[poll[p].row].doc = poll[p].doc
        BY <2>1, HandTyped
      <3>2. /\ poll[p].row \in DOMAIN rows' /\ rows'[poll[p].row].doc = poll[p].doc
            /\ rows'[poll[p].row].status \notin {"EXTRACTING", "VALIDATING"}
        <4>1. CASE ExtractionFails(p) \/ RouteInvoice(p)
          <5>1. \E s \in {"NEEDS_REVIEW", "EXCEPTION", "PENDING_APPROVAL"} : Write(poll[p].row, s)
            BY <4>1 DEF ExtractionFails, RouteInvoice
          <5> QED
            BY <1>0, <3>1, <5>1, RowWritten DEF Status
        <4>2. CASE StoreExtraction(p)
          <5>1. poll[p].read \in Reading
            BY <1>0, <4>2, JobParts DEF StoreExtraction, At, Job
          <5>2. Store(poll[p].row, poll[p].read, "NEEDS_REVIEW")
            BY <1>7, <4>2 DEF StoreExtraction, Store
          <5> QED
            BY <1>0, <3>1, <5>1, <5>2, RowStored DEF Status
        <4> QED
          BY <1>7, <4>1, <4>2
      <3>3. ASSUME NEW d, d = poll[p].doc  PROVE Settled(d)'
        BY <3>2, <3>3 DEF Settled
      <3> QED
        BY <3>3
    <2>3. Set(p, Finished(q))
      BY <2>1, DoneIs
    <2>4. q \in Local
      <3>1. poll[p].made + 1 \in Nat
        BY <2>1 DEF Local
      <3> QED
        BY <2>1, <3>1 DEF Local
    <2>5. q.mail = poll[p].mail /\ q.left = poll[p].left /\ q.failed = poll[p].failed
      BY <2>1 DEF Local
    <2> HIDE DEF q
    <2> QED
      BY <1>0, <2>1, <2>2, <2>3, <2>4, <2>5, KeptDone
  <1>8. ASSUME NEW p \in Poller, AttachmentFails(p)  PROVE Kept'
    <2>1. poll[p] \in Local /\ UNCHANGED <<recorded, seen>>
      BY <1>0, <1>8, JobParts DEF AttachmentFails, Inbox
    <2>2. PICK d \in Document :
            /\ \/ At(p, "attach")
               \/ poll[p].pc \in {"extract", "store", "search", "route"} /\ d = poll[p].doc
            /\ Done(p, [poll[p] EXCEPT !.left = @ \ {d}, !.failed = @ \cup {d}])
      BY <1>8 DEF AttachmentFails
    <2> DEFINE q == [poll[p] EXCEPT !.left = @ \ {d}, !.failed = @ \cup {d}]
    <2>3. Set(p, Finished(q))
      BY <2>2, DoneIs
    <2>4. q \in Local
      BY <2>1 DEF Local
    <2>5. q.mail = poll[p].mail /\ q.left = poll[p].left \ {d} /\ q.failed = poll[p].failed \cup {d}
      BY <2>1 DEF Local
    <2>6. /\ poll[p].pc \in Working \cup {"attach"}
          /\ poll[p].pc \in Working => d = poll[p].doc
      BY <2>2 DEF At, Working
    <2> HIDE DEF q
    <2> QED
      BY <1>0, <2>1, <2>3, <2>4, <2>5, <2>6, KeptDone
  <1>9. ASSUME NEW p \in Poller, RecordMessage(p)  PROVE Kept'
    <2> DEFINE id == IdOf[poll[p].mail]
               row == [id |-> id, made |-> poll[p].made, failed |-> poll[p].failed]
    <2>1. /\ poll[p] \in Local /\ Accounted(poll[p]) /\ poll[p].pc = "attach" /\ poll[p].left = {}
          /\ UNCHANGED seen
      BY <1>0, <1>9, JobParts DEF Kept, RecordMessage, At, Inbox
    <2>2. poll[p].mail \in Message /\ id \in MailId /\ poll[p].mail # 0 /\ id # NoId
      BY <1>0, <2>1, RecordJob, DocumentsTyped, MailAssumption
    <2>3. \A d \in Documents(poll[p].mail) : Settled(d)' \/ d \in poll[p].failed
      BY <1>0, <2>1, <2>2, OnwardSettled DEF Accounted, Working
    <2>4. ASSUME NEW m \in Message, IdOf[m] = id  PROVE Documents(m) = Documents(poll[p].mail)
      BY <2>2, <2>4, CopyAssumption DEF Documents, Accepted
    <2>5. recorded' = IF AlreadyHandled(id) THEN recorded ELSE recorded \cup {row}
      BY <1>9 DEF RecordMessage
    <2>6. row.id = id /\ row.failed = poll[p].failed
      OBVIOUS
    <2>7. PICK f : f = row
      OBVIOUS
    <2>8. \E r \in recorded' : r.id = id
      BY <2>5, <2>6 DEF AlreadyHandled
    <2>9. \A r \in recorded' : r \in recorded \/ (r.id = id /\ r.failed = poll[p].failed)
      BY <2>5, <2>6
    <2>10. \A r \in recorded' : \A m \in Message :
             IdOf[m] = r.id => \A d \in Documents(m) : Settled(d)' \/ d \in r.failed
      BY <1>0, <2>3, <2>4, <2>9, OnwardSettled DEF Kept
    <2>11. PICK q : Set(p, q) /\ q.pc = "mark" /\ q.mail = poll[p].mail
      <3>1. Set(p, [poll[p] EXCEPT !.pc = "mark"])
        BY <1>9 DEF RecordMessage, Goto
      <3>2. /\ [poll[p] EXCEPT !.pc = "mark"].pc = "mark"
            /\ [poll[p] EXCEPT !.pc = "mark"].mail = poll[p].mail
        BY <2>1 DEF Local
      <3> QED
        BY <3>1, <3>2
    <2>12. poll'[p] = q /\ \A o \in Poller \ {p} : poll'[o] = poll[o]
      BY <1>0, <2>11 DEF Typed, Set
    <2>13. ASSUME NEW o \in Poller  PROVE Accounted(poll[o])'
      <3>1. CASE o = p
        BY <2>8, <2>11, <2>12, <3>1 DEF Accounted, AlreadyHandled, Working
      <3>2. CASE o # p
        BY <1>0, <2>12, <3>2, OnwardSettled DEF Kept, Accounted
      <3> QED
        BY <3>1, <3>2
    <2> QED
      BY <1>0, <2>1, <2>10, <2>13, OnwardSettled DEF Kept
  <1>10. ASSUME NEW p \in Poller, MarkHandled(p)  PROVE Kept'
    <2>1. poll[p].pc = "mark" /\ Accounted(poll[p]) /\ UNCHANGED <<recorded, rows>>
      BY <1>10 DEF MarkHandled, At, Kept
    <2>2. AlreadyHandled(IdOf[poll[p].mail])
      BY <2>1 DEF Accounted
    <2>3. \A m \in seen' : AlreadyHandled(IdOf[m])
      BY <1>10, <2>2 DEF MarkHandled, Kept
    <2> DEFINE q == [Idle EXCEPT !.pc = "next", !.batch = poll[p].batch]
    <2>4. Set(p, q) /\ q.pc = "next"
      BY <1>10 DEF MarkHandled, Idle
    <2> HIDE DEF q
    <2>5. poll'[p].pc = "next" /\ \A o \in Poller \ {p} : poll'[o] = poll[o]
      BY <1>0, <2>4 DEF Typed, Set
    <2>6. \A o \in Poller : Accounted(poll[o])'
      <3>1. Accounted(poll[p])'
        BY <2>5 DEF Accounted, Working
      <3>2. \A o \in Poller \ {p} : Accounted(poll[o])'
        BY <1>0, <2>5, OnwardSettled DEF Kept, Accounted
      <3> QED
        BY <3>1, <3>2
    <2> QED
      BY <1>0, <2>1, <2>3, <2>6, OnwardSettled DEF Kept
  <1> QED
    <2>1. CASE MailArrives \/ UNCHANGED mvars
      BY <1>1, <2>1 DEF MailArrives, mvars
    <2> QED
      BY <2>1, <1>2, <1>3, <1>4, <1>5, <1>6, <1>7, <1>8, <1>9, <1>10 DEF Next, Statement

LEMMA SpecKept == Spec => []Kept
  <1>1. Init => Kept
    BY InitKept
  <1>2. Owned /\ Kept /\ [Next]_mvars => Kept'
    BY StepKept
  <1> QED
    BY <1>1, <1>2, SpecOwned, PTL DEF Spec

\* No message is lost, however polls overlap and whenever the process dies: one that no
\* poll fetches again is on record, each of its documents an invoice or listed as failed
\* (ingestMessage and markHandled of mailbox.service.ts).
THEOREM SpecNothingLost == Spec => []NothingLost
  <1>1. Owned /\ Kept => NothingLost
    BY KeptNothingLost
  <1> QED
    BY <1>1, SpecOwned, SpecKept, PTL

-----------------------------------------------------------------------------
(* ImplementsDelivery: what a step of the polls is to the abstract mailbox.*)

settledDocs == {d \in Mailed : Settled(d)}
answered    == {[id |-> r.id, failed |-> r.failed] : r \in recorded}

LEMMA RowsSettle ==
  ASSUME Owned, NEW p \in Poller, poll[p].pc \in Working, DOMAIN rows' = DOMAIN rows,
         rows'[poll[p].row].doc = rows[poll[p].row].doc,
         \A j \in DOMAIN rows : j # poll[p].row => rows'[j] = rows[j]
  PROVE  \/ settledDocs' = settledDocs
         \/ \E m \in Message : \E d \in Documents(m) : settledDocs' = settledDocs \cup {d}
  <1> DEFINE i == poll[p].row
  <1>1. /\ i \in DOMAIN rows /\ rows[i].doc = poll[p].doc /\ poll[p].doc \in Document
        /\ rows[i].status \in {"EXTRACTING", "VALIDATING"}
    BY HandTyped DEF Working
  <1>3. CASE rows'[i].status \in {"EXTRACTING", "VALIDATING"}
    <2>1. \A d \in Mailed : Settled(d)' <=> Settled(d)
      BY <1>1, <1>3 DEF Settled
    <2> QED
      BY <2>1 DEF settledDocs
  <1>4. CASE rows'[i].status \notin {"EXTRACTING", "VALIDATING"}
    <2>1. \A d \in Mailed : Settled(d)' <=> Settled(d) \/ d = poll[p].doc
      BY <1>1, <1>4 DEF Settled
    <2>2. CASE poll[p].doc \in Mailed
      <3>1. \E m \in Message : poll[p].doc \in Documents(m)
        BY <2>2 DEF Mailed
      <3> QED
        BY <2>1, <2>2, <3>1 DEF settledDocs
    <2>3. CASE poll[p].doc \notin Mailed
      BY <2>1, <2>3 DEF settledDocs
    <2> QED
      BY <2>2, <2>3
  <1> QED
    BY <1>3, <1>4

LEMMA StepDelivers ==
  ASSUME Owned, Kept, [Next]_mvars
  PROVE  [Delivery!DeliveryNext]_(Delivery!dvars)
  <1> USE DEF settledDocs, answered
  <1>0. Typed
    BY DEF Owned
  <1>1. CASE UNCHANGED <<settledDocs, answered, seen>>
    BY <1>1 DEF Delivery!dvars
  <1>2. CASE /\ UNCHANGED <<answered, seen>>
             /\ \/ settledDocs' = settledDocs
                \/ \E m \in Message : \E d \in Documents(m) : settledDocs' = settledDocs \cup {d}
    BY <1>2 DEF Delivery!dvars, Delivery!DeliveryNext, Delivery!Settle
  <1>3. ASSUME NEW p \in Poller, InsertInvoice(p)  PROVE UNCHANGED <<settledDocs, answered, seen>>
    <2>1. /\ UNCHANGED <<recorded, seen>> /\ rows \in Seq(Invoice)
          /\ \E row : rows' = Append(rows, row) /\ row.status = "EXTRACTING"
      BY <1>0, <1>3 DEF InsertInvoice, Inbox, Typed
    <2>2. \A d \in Mailed : Settled(d)' <=> Settled(d)
      BY <2>1 DEF Settled
    <2> QED
      BY <2>1, <2>2
  <1>4. ASSUME NEW p \in Poller, ExtractionFails(p) \/ RouteInvoice(p) \/ StoreExtraction(p)
        PROVE  /\ UNCHANGED <<answered, seen>>
               /\ \/ settledDocs' = settledDocs
                  \/ \E m \in Message : \E d \in Documents(m) : settledDocs' = settledDocs \cup {d}
    <2> HIDE DEF settledDocs
    <2>1. poll[p].pc \in Working /\ UNCHANGED <<recorded, seen>>
      BY <1>4 DEF ExtractionFails, RouteInvoice, StoreExtraction, At, Inbox, Working
    <2>2. poll[p].row \in DOMAIN rows
      BY <2>1, HandTyped
    <2>3. CASE ExtractionFails(p) \/ RouteInvoice(p)
      <3>1. \E s \in Status : Write(poll[p].row, s)
        BY <2>3 DEF ExtractionFails, RouteInvoice, Status
      <3> QED
        BY <1>0, <2>1, <2>2, <3>1, RowWritten, RowsSettle
    <2>4. CASE StoreExtraction(p)
      <3>1. poll[p].read \in Reading
        BY <1>0, <2>4, JobParts DEF StoreExtraction, At, Job
      <3>2. PICK s \in Status : Store(poll[p].row, poll[p].read, s)
        BY <2>4 DEF StoreExtraction, Store, Status
      <3> QED
        BY <1>0, <2>1, <2>2, <3>1, <3>2, RowStored, RowsSettle
    <2> QED
      BY <1>4, <2>3, <2>4
  <1>5. ASSUME NEW p \in Poller, RecordMessage(p)
        PROVE  [Delivery!DeliveryNext]_(Delivery!dvars)
    <2> DEFINE id == IdOf[poll[p].mail]
               row == [id |-> id, made |-> poll[p].made, failed |-> poll[p].failed]
    <2>1. /\ poll[p] \in Local /\ Accounted(poll[p]) /\ poll[p].pc = "attach" /\ poll[p].left = {}
          /\ UNCHANGED <<seen, rows>>
      BY <1>0, <1>5, JobParts DEF Kept, RecordMessage, At, Inbox
    <2>2. /\ poll[p].mail \in Message /\ id \in MailId /\ poll[p].mail # 0 /\ id # NoId
          /\ poll[p].failed \in SUBSET Documents(poll[p].mail)
      BY <1>0, <2>1, RecordJob, DocumentsTyped, MailAssumption
    <2>3. settledDocs' = settledDocs
      BY <2>1 DEF Settled
    <2>4. row.id = id /\ row.failed = poll[p].failed
      OBVIOUS
    <2>5. CASE AlreadyHandled(id)
      BY <1>1, <1>5, <2>1, <2>3, <2>5 DEF RecordMessage
    <2>6. CASE ~AlreadyHandled(id)
      <3>1. recorded' = recorded \cup {row}
        BY <1>5, <2>6 DEF RecordMessage
      <3>2. answered' = answered \cup {[id |-> id, failed |-> poll[p].failed]}
        <4>0. PICK f : f = row
          OBVIOUS
        <4>1. f = row /\ f.id = id /\ f.failed = poll[p].failed
          BY <2>4, <4>0
        <4>2. \A r : r \in recorded' <=> r \in recorded \/ r = f
          BY <3>1, <4>1
        <4>3. PICK i, g : i = f.id /\ g = f.failed
          OBVIOUS
        <4> HIDE DEF row, id
        <4>4. answered' = answered \cup {[id |-> i, failed |-> g]}
          BY <4>2, <4>3
        <4> QED
          BY <4>1, <4>3, <4>4
      <3>3. \A a \in answered : a.id # id
        BY <2>6 DEF AlreadyHandled
      <3>4. Documents(poll[p].mail) \subseteq settledDocs \cup poll[p].failed
        BY <2>1, <2>2, DocumentsTyped DEF Accounted, Working, Mailed
      <3> HIDE DEF settledDocs, answered
      <3>5. \E m \in Message : \E failed \in SUBSET Documents(m) :
              /\ IdOf[m] # NoId /\ \A a \in answered : a.id # IdOf[m]
              /\ Documents(m) \subseteq settledDocs \cup failed
              /\ answered' = answered \cup {[id |-> IdOf[m], failed |-> failed]}
        BY <2>2, <3>2, <3>3, <3>4
      <3>6. Delivery!Answer
        BY <2>1, <2>3, <3>5 DEF Delivery!Answer, settledDocs, answered
      <3> QED
        BY <3>6 DEF Delivery!DeliveryNext
    <2> QED
      BY <2>5, <2>6
  <1>6. ASSUME NEW p \in Poller, MarkHandled(p)
        PROVE  [Delivery!DeliveryNext]_(Delivery!dvars)
    <2> DEFINE ms == {m \in 1..arrived : IdOf[m] = IdOf[poll[p].mail]}
    <2>1. /\ poll[p].pc = "mark" /\ Accounted(poll[p]) /\ seen' = seen \cup ms
          /\ UNCHANGED <<recorded, rows>>
      BY <1>6 DEF MarkHandled, At, Kept
    <2>2. ms \in SUBSET Message
      BY <1>0, MailAssumption DEF Typed, Message
    <2>3. \A m \in ms : \E a \in answered : a.id = IdOf[m]
      <3>1. PICK r \in recorded : r.id = IdOf[poll[p].mail]
        BY <2>1 DEF Accounted, AlreadyHandled
      <3>2. [id |-> r.id, failed |-> r.failed] \in answered
        OBVIOUS
      <3> QED
        BY <3>1, <3>2
    <2>4. UNCHANGED <<settledDocs, answered>>
      BY <2>1 DEF Settled
    <2> HIDE DEF ms
    <2>5. Delivery!Leave
      BY <2>1, <2>2, <2>3, <2>4 DEF Delivery!Leave
    <2> QED
      BY <2>5 DEF Delivery!DeliveryNext
  <1>7. ASSUME UNCHANGED <<rows, recorded, seen>>  PROVE UNCHANGED <<settledDocs, answered, seen>>
    BY <1>7 DEF Settled
  <1>8. ASSUME NEW p \in Poller,
               \/ FetchUnread(p) \/ TakeMessage(p) \/ PollEnds(p) \/ Extracted(p)
               \/ SearchDuplicate(p) \/ Sweep(p) \/ PollNow(p) \/ Upload(p)
               \/ AttachmentFails(p) \/ PollFails(p)
        PROVE  UNCHANGED <<rows, recorded, seen>>
    BY <1>8, Zenon DEF FetchUnread, TakeMessage, PollEnds, Extracted, SearchDuplicate, Sweep,
       PollNow, Upload, AttachmentFails, PollFails, Inbox
  <1>9. CASE MailArrives \/ Crash \/ UNCHANGED mvars
    BY <1>1, <1>7, <1>9 DEF MailArrives, Crash, mvars, Inbox
  <1> HIDE DEF settledDocs, answered
  <1> QED
    BY <1>1, <1>2, <1>3, <1>4, <1>5, <1>6, <1>7, <1>8, <1>9 DEF Next, Statement

\* The polls implement the abstract delivery: a message is answered once, after its
\* documents are settled or given up, and leaves the mailbox only then, whatever crashes,
\* polls that overlap and copies of it (mailbox.service.ts).
THEOREM SpecImplementsDelivery == Spec => ImplementsDelivery
  <1>1. Init => Delivery!DeliveryInit
    <2> SUFFICES ASSUME Init  PROVE Delivery!DeliveryInit
      OBVIOUS
    <2>1. \A d : ~Settled(d)
      BY DEF Init, Settled
    <2> QED
      BY <2>1 DEF Init, Delivery!DeliveryInit
  <1>2. Owned /\ Kept /\ [Next]_mvars => [Delivery!DeliveryNext]_(Delivery!dvars)
    BY StepDelivers
  <1> QED
    BY <1>1, <1>2, SpecOwned, SpecKept, PTL DEF Spec, ImplementsDelivery, Delivery!DeliverySpec

-----------------------------------------------------------------------------
(* GateAddsUp: the arithmetic cross-check reaches the confidence gate.     *)

LEMMA CheckedValues ==
  ASSUME NEW e, Parsed(e), NEW f \in Header
  PROVE  /\ Value(CrossCheck(e), f) = Value(e, f)
         /\ f \in Amounts /\ TotalsDisagree(e) => CrossCheck(e).fields[f].confidence < 90
         /\ f = "subtotal" /\ LinesDisagree(e) => CrossCheck(e).fields[f].confidence < 90
  <1> DEFINE x == e.fields[f]
             y == IF TotalsDisagree(e) /\ f \in Amounts THEN Cap(x, 40) ELSE x
             z == IF LinesDisagree(e) /\ f = "subtotal" THEN Cap(y, 50) ELSE y
  <1>1. x = [value |-> x.value, confidence |-> x.confidence] /\ x.confidence \in Int
    BY DEF Parsed
  <1>2. CrossCheck(e).fields[f] = z
    BY DEF CrossCheck
  <1> HIDE DEF x
  <1>3. PICK v : \E k \in Int : x = [value |-> v, confidence |-> k]
    BY <1>1
  <1>4. /\ x.value = v
        /\ y = [value |-> v, confidence |-> y.confidence] /\ y.confidence \in Int
        /\ TotalsDisagree(e) /\ f \in Amounts => y.confidence < 90
    BY <1>3 DEF Cap
  <1> HIDE DEF y
  <1>5. /\ z.value = v
        /\ TotalsDisagree(e) /\ f \in Amounts => z.confidence < 90
        /\ LinesDisagree(e) /\ f = "subtotal" => z.confidence < 90
    BY <1>4 DEF Cap
  <1> HIDE DEF z
  <1> QED
    BY <1>2, <1>4, <1>5 DEF Value, x

LEMMA CheckedTotals ==
  ASSUME NEW e, Parsed(e)
  PROVE  TotalsDisagree(CrossCheck(e)) <=> TotalsDisagree(e)
  <1>1. \A f \in Amounts : Value(CrossCheck(e), f) = Value(e, f)
    BY CheckedValues DEF Header, Required
  <1>2. {"subtotal", "taxAmount", "totalAmount"} \subseteq Amounts
    BY DEF Amounts
  <1> QED
    BY <1>1, <1>2 DEF TotalsDisagree, Known

LEMMA CheckedLines ==
  ASSUME NEW e, Parsed(e), ~LinesDisagree(e)
  PROVE  ~LinesDisagree(CrossCheck(e))
  <1>1. Value(CrossCheck(e), "subtotal") = Value(e, "subtotal")
    BY CheckedValues DEF Header, Required, Amounts
  <1>2. CrossCheck(e).lines = e.lines
    BY Zenon DEF CrossCheck, Parsed
  <1> QED
    BY <1>1, <1>2, Zenon DEF LinesDisagree, Known

LEMMA DoubtedDisagree ==
  ASSUME NEW e, Parsed(e), TotalsDisagree(CrossCheck(e)) \/ LinesDisagree(CrossCheck(e))
  PROVE  NeedsReview(CrossCheck(e))
  <1>1. TotalsDisagree(e) \/ LinesDisagree(e)
    BY CheckedTotals, CheckedLines
  <1>2. "subtotal" \in Required /\ "subtotal" \in Amounts /\ "subtotal" \in Header
    BY DEF Required, Amounts, Header
  <1>3. CrossCheck(e).fields["subtotal"].confidence < 90
    BY <1>1, <1>2, CheckedValues
  <1> QED
    BY <1>2, <1>3 DEF NeedsReview, FieldsNeedingReview, Doubtful, Threshold

\* What the arithmetic contradicts needs review, whatever the model says of itself.
LEMMA SureAddsUp == \A r \in Reading : r \notin Doubted => r \in AddsUp
  <1> SUFFICES ASSUME NEW r \in Reading, r \notin Doubted  PROVE r \in AddsUp
    OBVIOUS
  <1>1. r \in Reply /\ Extract(Text[r]) # Null /\ Answer[r] = Extract(Text[r])
    BY Zenon DEF Reading, Answer
  <1>2. Unwrapped(Text[r]) # Null /\ Answer[r] = CrossCheck(Unwrapped(Text[r]))
    BY <1>1 DEF Extract
  <1>3. Parsed(Unwrapped(Text[r]))
    BY <1>1, <1>2, ReplyAssumption
  <1>4. ~NeedsReview(Answer[r])
    BY DEF Doubted
  <1> QED
    BY <1>2, <1>3, <1>4, DoubtedDisagree DEF AddsUp

\* What a row holds of its extraction, and that a doubtful one is in review.
Gated ==
  \A i \in DOMAIN rows :
    /\ rows[i].status = "EXTRACTING" => rows[i].read = Null
    /\ rows[i].read # Null => /\ rows[i].read \in Reading
                              /\ rows[i].vendor = VendorOf[rows[i].read]
                              /\ rows[i].read \in Doubted => rows[i].status = "NEEDS_REVIEW"

LEMMA StepGated ==
  ASSUME Owned, Gated, [Next]_mvars  PROVE Gated'
  <1>0. Typed /\ rows \in Seq(Invoice)
    BY DEF Owned, Typed
  <1>1. CASE UNCHANGED rows
    BY <1>1 DEF Gated
  <1>2. ASSUME NEW p \in Poller, InsertInvoice(p)  PROVE Gated'
    <2>1. \E row : rows' = Append(rows, row) /\ row.read = Null
      BY <1>2 DEF InsertInvoice
    <2> QED
      BY <1>0, <2>1 DEF Gated
  <1>3. ASSUME NEW p \in Poller, ExtractionFails(p) \/ RouteInvoice(p)  PROVE Gated'
    <2> DEFINE i == poll[p].row
    <2>1. PICK s \in {"NEEDS_REVIEW", "EXCEPTION", "PENDING_APPROVAL"} : Write(i, s)
      BY <1>3 DEF ExtractionFails, RouteInvoice
    <2>2. /\ i \in DOMAIN rows /\ rows[i].status # "NEEDS_REVIEW"
          /\ rows[i].status \in {"EXTRACTING", "VALIDATING"}
      BY <1>3, HandTyped DEF ExtractionFails, RouteInvoice, At, Working
    <2>3. /\ DOMAIN rows' = DOMAIN rows /\ rows'[i].status = s
          /\ rows'[i].read = rows[i].read /\ rows'[i].vendor = rows[i].vendor
          /\ \A j \in DOMAIN rows : j # i => rows'[j] = rows[j]
      BY <1>0, <2>1, <2>2, RowWritten DEF Status
    <2> QED
      BY <2>1, <2>2, <2>3 DEF Gated
  <1>4. ASSUME NEW p \in Poller, StoreExtraction(p)  PROVE Gated'
    <2> DEFINE i == poll[p].row  r == poll[p].read
    <2>1. r \in Reading /\ i \in DOMAIN rows
      BY <1>0, <1>4, JobParts, HandTyped DEF StoreExtraction, At, Job, Working
    <2>2. PICK s \in {"NEEDS_REVIEW", "VALIDATING"} :
            Store(i, r, s) /\ (r \in Doubted => s = "NEEDS_REVIEW")
      BY <1>4 DEF StoreExtraction, Store
    <2>3. /\ DOMAIN rows' = DOMAIN rows /\ rows'[i].status = s
          /\ rows'[i].read = r /\ rows'[i].vendor = VendorOf[r]
          /\ \A j \in DOMAIN rows : j # i => rows'[j] = rows[j]
      BY <1>0, <2>1, <2>2, RowStored DEF Status
    <2> QED
      BY <2>1, <2>2, <2>3 DEF Gated
  <1>5. ASSUME NEW p \in Poller,
               \/ FetchUnread(p) \/ TakeMessage(p) \/ PollEnds(p) \/ Extracted(p)
               \/ SearchDuplicate(p) \/ RecordMessage(p) \/ MarkHandled(p)
               \/ Sweep(p) \/ PollNow(p) \/ Upload(p) \/ AttachmentFails(p) \/ PollFails(p)
        PROVE  UNCHANGED rows
    BY <1>5, Zenon DEF FetchUnread, TakeMessage, PollEnds, Extracted, SearchDuplicate, RecordMessage,
       MarkHandled, Sweep, PollNow, Upload, AttachmentFails, PollFails
  <1>6. CASE MailArrives \/ Crash \/ UNCHANGED mvars
    BY <1>1, <1>6 DEF MailArrives, Crash, mvars
  <1> QED
    BY <1>1, <1>2, <1>3, <1>4, <1>5, <1>6 DEF Next, Statement

LEMMA SpecGated == Spec => []Gated
  <1>1. Init => Gated
    BY DEF Init, Gated
  <1>2. Owned /\ Gated /\ [Next]_mvars => Gated'
    BY StepGated
  <1> QED
    BY <1>1, <1>2, SpecOwned, PTL DEF Spec

\* Nothing passes the gate unseen by a person unless it adds up, whatever the language
\* model replies and however sure it is of it (main.py, extraction-client.service.ts).
THEOREM SpecGateAddsUp == Spec => []GateAddsUp
  <1>1. Gated => GateAddsUp
    BY SureAddsUp DEF Gated, GateAddsUp
  <1> QED
    BY <1>1, SpecGated, PTL

-----------------------------------------------------------------------------
(* AtMostOneRouted: the duplicate search, however polls overlap.           *)

\* An invoice that found no other of its number and vendor and is on its way.
Cleared(i) ==
  \E o \in Poller : poll[o].pc = "route" /\ poll[o].row = i /\ poll[o].duplicate = FALSE
Passed(i)  == rows[i].status = "PENDING_APPROVAL" \/ Cleared(i)

OnePassed ==
  \A i, j \in DOMAIN rows : i # j /\ Passed(i) /\ Passed(j) => ~SameBill(rows[i], rows[j])

\* A step after which no invoice passes that did not before.
LEMMA FewerPassed ==
  ASSUME OnePassed,
         \A i \in DOMAIN rows' : Passed(i)' =>
           /\ i \in DOMAIN rows /\ Passed(i)
           /\ rows'[i].read = rows[i].read /\ rows'[i].vendor = rows[i].vendor
  PROVE  OnePassed'
  <1> SUFFICES ASSUME NEW i \in DOMAIN rows', NEW j \in DOMAIN rows', i # j, Passed(i)', Passed(j)',
                      SameBill(rows[i], rows[j])'
               PROVE  FALSE
    BY DEF OnePassed
  <1>1. SameBill(rows[i], rows[j])
    BY DEF SameBill
  <1> QED
    BY <1>1 DEF OnePassed

\* No poll reaches the last statement of ingest in this step.
NoNewRoute == \A o \in Poller : poll'[o].pc = "route" => poll'[o] = poll[o]

LEMMA ElsewhereNoRoute ==
  ASSUME Typed, NEW p \in Poller, NEW q, q.pc # "route", Set(p, q)
  PROVE  NoNewRoute
  BY DEF Typed, Set, NoNewRoute

LEMMA NotRouted == ASSUME NoNewRoute, NEW i, Cleared(i)'  PROVE Cleared(i)
  BY DEF NoNewRoute, Cleared

LEMMA DoneNoRoute ==
  ASSUME Typed, NEW p \in Poller, NEW q \in Local, Done(p, q)
  PROVE  NoNewRoute
  <1>1. Finished(q).pc # "route"
    BY DEF Finished, Idle, Local
  <1>2. Set(p, Finished(q))
    BY DoneIs
  <1> QED
    BY <1>1, <1>2, ElsewhereNoRoute


LEMMA OnlySearchRoutes ==
  ASSUME Owned, [Next]_mvars, ~\E p \in Poller : SearchDuplicate(p)
  PROVE  NoNewRoute
  <1>0. Typed
    BY DEF Owned
  <1>1. CASE MailArrives \/ UNCHANGED mvars
    BY <1>1 DEF MailArrives, mvars, NoNewRoute
  <1>2. CASE Crash
    BY <1>2 DEF Crash, Idle, NoNewRoute
  <1>3. ASSUME NEW p \in Poller,
               \/ Sweep(p) \/ PollNow(p) \/ FetchUnread(p) \/ InsertInvoice(p)
               \/ Extracted(p) \/ RecordMessage(p) \/ Upload(p) \/ MarkHandled(p)
               \/ PollEnds(p) \/ PollFails(p) \/ TakeMessage(p)
        PROVE  NoNewRoute
    <2>0. poll[p] \in Local
      BY <1>0, JobParts
    <2>1. CASE Sweep(p) \/ PollNow(p) \/ RecordMessage(p)
      <3>1. PICK l \in {"fetch", "mark"} : Set(p, [poll[p] EXCEPT !.pc = l])
        BY <2>1 DEF Sweep, PollNow, RecordMessage, Goto
      <3> QED
        BY <1>0, <2>0, <3>1, ElsewhereNoRoute DEF Local
    <2>2. CASE FetchUnread(p)
      <3>1. \E b : Set(p, [poll[p] EXCEPT !.pc = "next", !.batch = b])
        BY <2>2, Zenon DEF FetchUnread
      <3> QED
        BY <1>0, <2>0, <3>1, ElsewhereNoRoute DEF Local
    <2>3. CASE InsertInvoice(p)
      <3>1. \E l, d, r : Set(p, [poll[p] EXCEPT !.pc = "extract", !.left = l, !.doc = d, !.row = r])
        BY <2>3, Zenon DEF InsertInvoice
      <3> QED
        BY <1>0, <2>0, <3>1, ElsewhereNoRoute DEF Local
    <2>4. CASE Extracted(p)
      <3>1. \E r : Set(p, [poll[p] EXCEPT !.pc = "store", !.read = r])
        BY <2>4, Zenon DEF Extracted
      <3> QED
        BY <1>0, <2>0, <3>1, ElsewhereNoRoute DEF Local
    <2>5. CASE Upload(p)
      <3>1. \E d : Set(p, [Idle EXCEPT !.pc = "attach", !.left = {d}])
        BY <2>5 DEF Upload
      <3> QED
        BY <1>0, <3>1, ElsewhereNoRoute DEF Idle
    <2>6. CASE MarkHandled(p)
      <3>1. Set(p, [Idle EXCEPT !.pc = "next", !.batch = poll[p].batch])
        BY <2>6 DEF MarkHandled
      <3> QED
        BY <1>0, <3>1, ElsewhereNoRoute DEF Idle
    <2>7. CASE PollEnds(p) \/ PollFails(p)
      <3>1. Set(p, Idle)
        BY <2>7 DEF PollEnds, PollFails, Finish
      <3> QED
        BY <1>0, <3>1, ElsewhereNoRoute DEF Idle
    <2>8. CASE TakeMessage(p)
      <3>1. PICK q : Set(p, q) /\ q.pc # "route"
        <4> DEFINE m == First(poll[p].batch)
                   q == [Idle EXCEPT !.mail = m, !.batch = poll[p].batch \ {m}]
                   t == IF AlreadyHandled(IdOf[m]) THEN [q EXCEPT !.pc = "mark"]
                        ELSE [q EXCEPT !.pc = "attach", !.left = Documents(m)]
        <4>1. Set(p, t)
          BY <2>8, Zenon DEF TakeMessage
        <4> HIDE DEF m
        <4>2. t.pc # "route"
          BY DEF Idle
        <4> QED
          BY <4>1, <4>2
      <3> QED
        BY <1>0, <3>1, ElsewhereNoRoute
    <2> QED
      BY <1>3, <2>1, <2>2, <2>3, <2>4, <2>5, <2>6, <2>7, <2>8
  <1>4. ASSUME NEW p \in Poller, ExtractionFails(p) \/ RouteInvoice(p)  PROVE NoNewRoute
    <2>1. Done(p, [poll[p] EXCEPT !.made = @ + 1]) /\ poll[p] \in Local
      BY <1>0, <1>4, JobParts DEF ExtractionFails, RouteInvoice
    <2> QED
      BY <1>0, <2>1, DoneNoRoute DEF Local
  <1>5. ASSUME NEW p \in Poller, StoreExtraction(p)  PROVE NoNewRoute
    <2>0. poll[p] \in Local
      BY <1>0, JobParts
    <2>1. CASE poll[p].read \in Doubted
      <3>1. Done(p, [poll[p] EXCEPT !.made = @ + 1])
        BY <1>5, <2>1 DEF StoreExtraction
      <3> QED
        BY <1>0, <2>0, <3>1, DoneNoRoute DEF Local
    <2>2. CASE poll[p].read \notin Doubted
      <3>1. Set(p, [poll[p] EXCEPT !.pc = "search", !.read = Null])
        BY <1>5, <2>2 DEF StoreExtraction
      <3> QED
        BY <1>0, <2>0, <3>1, ElsewhereNoRoute DEF Local
    <2> QED
      BY <2>1, <2>2
  <1>6. ASSUME NEW p \in Poller, AttachmentFails(p)  PROVE NoNewRoute
    <2>0. poll[p] \in Local
      BY <1>0, JobParts
    <2>1. PICK d \in Document : Done(p, [poll[p] EXCEPT !.left = @ \ {d}, !.failed = @ \cup {d}])
      BY <1>6 DEF AttachmentFails
    <2>2. [poll[p] EXCEPT !.left = @ \ {d}, !.failed = @ \cup {d}] \in Local
      BY <2>0 DEF Local
    <2> QED
      BY <1>0, <2>1, <2>2, DoneNoRoute
  <1> QED
    BY <1>1, <1>2, <1>3, <1>4, <1>5, <1>6, Zenon DEF Next, Statement


LEMMA StepPassed ==
  ASSUME Owned, OnePassed, [Next]_mvars  PROVE OnePassed'
  <1>0. Typed /\ rows \in Seq(Invoice)
    BY DEF Owned, Typed
  <1>1. ASSUME UNCHANGED rows, NoNewRoute  PROVE OnePassed'
    <2>1. \A i \in DOMAIN rows : Passed(i)' => Passed(i)
      BY <1>1, NotRouted DEF Passed
    <2> QED
      BY <1>1, <2>1, FewerPassed
  \* A row of its own, written to a status other than approval.
  <1>2. ASSUME NEW p \in Poller, poll[p].pc \in {"extract", "store"}, NoNewRoute,
               DOMAIN rows' = DOMAIN rows, rows'[poll[p].row].status # "PENDING_APPROVAL",
               \A j \in DOMAIN rows : j # poll[p].row => rows'[j] = rows[j]
        PROVE  OnePassed'
    <2>1. rows[poll[p].row].status = "EXTRACTING"
      BY <1>2, HandTyped DEF Working
    <2>2. ~Cleared(poll[p].row)
      BY <2>1, HandTyped DEF Cleared, Working
    <2>3. \A i \in DOMAIN rows : Passed(i)' =>
            Passed(i) /\ rows'[i].read = rows[i].read /\ rows'[i].vendor = rows[i].vendor
      BY <1>2, <2>2, NotRouted DEF Passed
    <2> QED
      BY <1>2, <2>3, FewerPassed
  <1>3. ASSUME NEW p \in Poller, InsertInvoice(p), NoNewRoute  PROVE OnePassed'
    <2>1. PICK row : rows' = Append(rows, row) /\ row.status = "EXTRACTING"
      BY <1>3 DEF InsertInvoice
    <2>2. DOMAIN rows' = 1..(Len(rows) + 1) /\ rows'[Len(rows) + 1].status = "EXTRACTING"
          /\ \A i \in DOMAIN rows : rows'[i] = rows[i]
      BY <1>0, <2>1
    <2>3. ~Cleared(Len(rows) + 1)
      <3>1. Len(rows) + 1 \notin DOMAIN rows
        BY <1>0
      <3> QED
        BY <3>1, HandTyped DEF Cleared, Working
    <2>4. \A i \in DOMAIN rows' : Passed(i)' => i # Len(rows) + 1 /\ i \in DOMAIN rows /\ Passed(i)
      <3>1. \A i \in DOMAIN rows' : i # Len(rows) + 1 => i \in DOMAIN rows
        BY <1>0, <2>2
      <3> QED
        BY <1>3, <2>2, <2>3, <3>1, NotRouted DEF Passed
    <2> QED
      BY <2>2, <2>4, FewerPassed
  <1>4. ASSUME NEW p \in Poller, ExtractionFails(p), NoNewRoute  PROVE OnePassed'
    <2>1. poll[p].pc = "extract" /\ Write(poll[p].row, "NEEDS_REVIEW")
      BY <1>4 DEF ExtractionFails, At
    <2>2. poll[p].row \in DOMAIN rows
      BY <2>1, HandTyped DEF Working
    <2> QED
      BY <1>0, <1>2, <1>4, <2>1, <2>2, RowWritten DEF Status
  <1>5. ASSUME NEW p \in Poller, StoreExtraction(p), NoNewRoute  PROVE OnePassed'
    <2>1. poll[p].pc = "store" /\ poll[p].read \in Reading /\ poll[p].row \in DOMAIN rows
      BY <1>0, <1>5, JobParts, HandTyped DEF StoreExtraction, At, Job, Working
    <2>2. PICK s \in {"NEEDS_REVIEW", "VALIDATING"} : Store(poll[p].row, poll[p].read, s)
      BY <1>5 DEF StoreExtraction, Store
    <2>3. /\ DOMAIN rows' = DOMAIN rows /\ rows'[poll[p].row].status = s
          /\ \A j \in DOMAIN rows : j # poll[p].row => rows'[j] = rows[j]
      BY <1>0, <2>1, <2>2, RowStored DEF Status
    <2> QED
      BY <1>2, <1>5, <2>1, <2>3
  \* What is approved was on its way, and so found no other.
  <1>6. ASSUME NEW p \in Poller, RouteInvoice(p), NoNewRoute  PROVE OnePassed'
    <2> DEFINE i == poll[p].row
    <2>1. PICK s \in {"EXCEPTION", "PENDING_APPROVAL"} :
            Write(i, s) /\ (poll[p].duplicate = TRUE => s = "EXCEPTION")
      BY <1>6 DEF RouteInvoice
    <2>2. i \in DOMAIN rows /\ poll[p].pc = "route" /\ poll[p].duplicate \in BOOLEAN
      BY <1>6, HandTyped DEF RouteInvoice, At, Working, Local
    <2>3. /\ DOMAIN rows' = DOMAIN rows /\ rows'[i].status = s
          /\ rows'[i].read = rows[i].read /\ rows'[i].vendor = rows[i].vendor
          /\ \A j \in DOMAIN rows : j # i => rows'[j] = rows[j]
      BY <1>0, <2>1, <2>2, RowWritten DEF Status
    <2>4. s = "PENDING_APPROVAL" => Cleared(i)
      BY <2>1, <2>2 DEF Cleared
    <2>5. \A j \in DOMAIN rows : Passed(j)' => Passed(j)
      BY <1>6, <2>3, <2>4, NotRouted DEF Passed
    <2> QED
      BY <2>3, <2>5, FewerPassed
  \* What passes the search has no other of its number and vendor, passed or not.
  <1>7. ASSUME NEW p \in Poller, SearchDuplicate(p)  PROVE OnePassed'
    <2> DEFINE i == poll[p].row
    <2>1. PICK b \in BOOLEAN : /\ Set(p, [poll[p] EXCEPT !.pc = "route", !.duplicate = b])
                               /\ b <=> \E j \in DOMAIN rows : j # i /\ SameBill(rows[j], rows[i])
      BY <1>7, Zenon DEF SearchDuplicate
    <2>2. rows' = rows /\ poll[p] \in Local
      BY <1>0, <1>7, JobParts DEF SearchDuplicate
    <2>3. poll'[p].row = i /\ (poll'[p].duplicate = FALSE => b = FALSE)
      BY <1>0, <2>1, <2>2 DEF Set, Typed, Local
    <2>4. \A o \in Poller : o # p => poll'[o] = poll[o]
      BY <1>0, <2>1 DEF Set, Typed
    <2>5. \A k : Cleared(k)' => Cleared(k) \/ (k = i /\ b = FALSE)
      BY <2>3, <2>4 DEF Cleared
    <2>6. \A k : Passed(k)' => Passed(k) \/ (k = i /\ b = FALSE)
      BY <2>2, <2>5 DEF Passed
    <2>7. ASSUME b = FALSE, NEW j \in DOMAIN rows, j # i
          PROVE  ~SameBill(rows[j], rows[i]) /\ ~SameBill(rows[i], rows[j])
      BY <2>1, <2>7 DEF SameBill
    <2>8. ASSUME NEW j \in DOMAIN rows, NEW k \in DOMAIN rows, j # k, Passed(j)', Passed(k)'
          PROVE  ~SameBill(rows[j], rows[k])
      BY <2>6, <2>7, <2>8 DEF OnePassed
    <2>9. \A j, k \in DOMAIN rows : SameBill(rows[j], rows[k])' => SameBill(rows[j], rows[k])
      BY <2>2 DEF SameBill
    <2> QED
      BY <2>2, <2>8, <2>9 DEF OnePassed
  <1>8. ASSUME NEW p \in Poller,
               \/ FetchUnread(p) \/ TakeMessage(p) \/ PollEnds(p) \/ Extracted(p)
               \/ RecordMessage(p) \/ MarkHandled(p)
               \/ Sweep(p) \/ PollNow(p) \/ Upload(p) \/ AttachmentFails(p) \/ PollFails(p)
        PROVE  UNCHANGED rows
    BY <1>8, Zenon DEF FetchUnread, TakeMessage, PollEnds, Extracted, RecordMessage,
       MarkHandled, Sweep, PollNow, Upload, AttachmentFails, PollFails
  <1>9. MailArrives \/ Crash \/ UNCHANGED mvars => UNCHANGED rows
    BY DEF MailArrives, Crash, mvars
  <1>10. CASE \E p \in Poller : SearchDuplicate(p)
    BY <1>7, <1>10
  <1>11. CASE ~\E p \in Poller : SearchDuplicate(p)
    <2>1. NoNewRoute
      BY <1>11, OnlySearchRoutes
    <2> QED
      BY <1>1, <1>3, <1>4, <1>5, <1>6, <1>8, <1>9, <1>11, <2>1, Zenon DEF Next, Statement
  <1> QED
    BY <1>10, <1>11

LEMMA SpecPassed == Spec => []OnePassed
  <1>1. Init => OnePassed
    BY DEF Init, OnePassed
  <1>2. Owned /\ OnePassed /\ [Next]_mvars => OnePassed'
    BY StepPassed
  <1> QED
    BY <1>1, <1>2, SpecOwned, PTL DEF Spec

\* What is one bill to a reader has one number and one vendor to the search.
LEMMA OneBillSame ==
  ASSUME NEW r \in Reading, NEW t \in Reading, <<r, t>> \in OneBill
  PROVE  VendorOf[r] # Null /\ VendorOf[r] = VendorOf[t] /\ Number[r] # Null /\ Number[r] = Number[t]
  <1> DEFINE a == Value(Answer[r], "vendorName")  b == Value(Answer[t], "vendorName")
  <1>1. /\ Known(Answer[r], "invoiceNumber")
        /\ Value(Answer[r], "invoiceNumber") = Value(Answer[t], "invoiceNumber")
        /\ Known(Answer[r], "vendorName") /\ Known(Answer[t], "vendorName")
        /\ IsSameVendorName(a, b)
    BY DEF OneBill
  <1>2. a # Null /\ b # Null
    BY <1>1 DEF Known
  <1>3. NormaliseVendorName(a) # <<>> /\ NormaliseVendorName(a) = NormaliseVendorName(b)
    BY <1>1 DEF IsSameVendorName
  <1>4. NormaliseVendorName(a) # Null
    BY <1>1, ReplyAssumption
  <1> HIDE DEF a, b
  <1>5. VendorOf[r] = NormaliseVendorName(a) /\ VendorOf[t] = NormaliseVendorName(b)
    BY <1>2, <1>3 DEF VendorOf, a, b
  <1>6. Number[r] = Value(Answer[r], "invoiceNumber") /\ Number[t] = Value(Answer[t], "invoiceNumber")
    BY DEF Number
  <1> QED
    BY <1>1, <1>3, <1>4, <1>5, <1>6 DEF Known

\* Of the invoices with one number and one supplier, however its name is spelled, at most
\* one asks for approval, however many polls and uploads bring the document at once
\* (invoices.service.ts, the duplicate search of validateAndRoute).
THEOREM SpecAtMostOneRouted == Spec => []AtMostOneRouted
  <1>1. Owned /\ Gated /\ OnePassed => AtMostOneRouted
    <2> SUFFICES ASSUME Owned, Gated, OnePassed, NEW i \in DOMAIN rows, NEW j \in DOMAIN rows, i # j,
                        rows[i].status = "PENDING_APPROVAL", rows[j].status = "PENDING_APPROVAL",
                        <<rows[i].read, rows[j].read>> \in OneBill
                 PROVE  FALSE
      BY DEF AtMostOneRouted
    <2>1. rows[i].read \in Reading /\ rows[j].read \in Reading
      BY DEF OneBill
    <2>2. rows[i].read # Null /\ rows[j].read # Null
      BY <2>1, ReplyAssumption DEF Reading, Answer
    <2>3. rows[i].vendor = VendorOf[rows[i].read] /\ rows[j].vendor = VendorOf[rows[j].read]
      BY <2>2 DEF Gated
    <2>4. ~SameBill(rows[i], rows[j])
      BY DEF OnePassed, Passed
    <2> QED
      BY <2>1, <2>2, <2>3, <2>4, OneBillSame DEF SameBill
  <1> QED
    BY <1>1, SpecOwned, SpecGated, SpecPassed, PTL
=============================================================================
