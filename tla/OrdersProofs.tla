---------------------------- MODULE OrdersProofs ----------------------------
(***************************************************************************)
(* Proofs about orders, receipts and the invoices that wait for them, for  *)
(* any orders, bills, answers of S/4HANA, number of invoices and number of *)
(* requests at the same time; and about the stock ledger.                  *)
(***************************************************************************)
EXTENDS OrdersProperties, GoodsMovements, SequenceTheorems, FiniteSetTheorems,
        WellFoundedInduction, TLAPS

-----------------------------------------------------------------------------
(* What S/4HANA sends, mapped, and which of it is refused.                 *)

Answers == {MapPurchaseOrders(body) : body \in Feed}

\* The orders a sync may have to store.
Sent == UNION {{pos[k] : k \in DOMAIN pos} : pos \in Answers}

\* An order as it is mapped says nothing of receipts, and its total is that of its lines.
LEMMA MappedOrder ==
  ASSUME NEW pos \in Answers, NEW k \in DOMAIN pos
  PROVE  pos[k].order.total = LineSum(pos[k].order.lines) /\ pos[k].order.received = <<>>
  <1>1. PICK body : pos = MapPurchaseOrders(body)
    BY DEF Answers
  <1> DEFINE kept == SelectSeq(OdataCollection(body), KeptOrder)
  <1>2. pos = [i \in DOMAIN kept |-> [po |-> kept[i].po, supplier |-> kept[i].supplier,
                                      order |-> MapPurchaseOrder(kept[i])]]
    BY <1>1 DEF MapPurchaseOrders
  <1> HIDE DEF kept
  <1>3. pos[k].order = MapPurchaseOrder(kept[k])
    BY <1>2
  <1> DEFINE lines == LET items == SelectSeq(OdataCollection(kept[k].items), Kept)
                      IN  [i \in DOMAIN items |-> MapItem(items[i])]
  <1>4. pos[k].order = [lines |-> lines, total |-> LineSum(lines),
                        currency |-> kept[k].currency, received |-> <<>>]
    BY <1>3 DEF MapPurchaseOrder
  <1> HIDE DEF lines
  <1> QED
    BY <1>4

LEMMA AnswerFacts ==
  ASSUME NEW pos \in Answers
  PROVE  /\ Len(pos) \in Nat /\ DOMAIN pos = 1..Len(pos)
         /\ \A j, k \in DOMAIN pos : pos[j].po = pos[k].po => j = k
         /\ \A k \in DOMAIN pos : pos[k].po \in PoNumber /\ IsOrder(pos[k].order)
  BY FeedAssumption DEF Answers

\* upsert refuses an order of S/4HANA only for want of a supplier, lines or quantities, or
\* for a line that does not add up.
LEMMA RefusedIsUnusable ==
  ASSUME NEW pos \in Answers, NEW k \in DOMAIN pos, ~Accepted(pos[k])
  PROVE  Unusable(pos[k])
  <1> DEFINE order == pos[k].order
  <1>1. /\ Cardinality(Numbers(order)) = Len(order.lines) /\ LineSum(order.lines) \in Int
        /\ \A j \in Lines(order) : LET l == order.lines[j]
                                   IN  l.no \in Nat \ {0} /\ l.qty \in Nat /\ l.price \in Nat
    BY FeedAssumption DEF Answers
  <1>2. order.total = LineSum(order.lines) /\ order.received = <<>>
    BY MappedOrder
  <1>3. ValidReceipt(order, order.received)
    BY <1>2 DEF ValidReceipt
  <1> HIDE DEF order
  <1>4. Abs(LineSum(order.lines) - order.total) <= 1
    BY <1>1, <1>2 DEF Abs
  <1>5. ASSUME order.lines # <<>>,
               \A j \in Lines(order) : order.lines[j].qty # 0 /\ AddsUp(order.lines[j])
        PROVE  ValidPo(order)
    <2>1. \A j \in Lines(order) : ValidLine(order.lines[j])
      BY <1>1, <1>5 DEF ValidLine
    <2> QED
      BY <1>1, <1>3, <1>4, <1>5, <2>1 DEF ValidPo, ValidLines
  <1> QED
    BY <1>5 DEF Unusable, Accepted, order

LEMMA AnswerIsSeq == ASSUME NEW pos \in Answers PROVE pos \in Seq(Sent)
  <1>1. \A k \in 1..Len(pos) : pos[k] \in Sent
    BY AnswerFacts DEF Sent
  <1>2. PICK body \in Feed : pos = MapPurchaseOrders(body)
    BY DEF Answers
  <1> DEFINE kept == SelectSeq(OdataCollection(body), KeptOrder)
             entry(i) == [po |-> kept[i].po, supplier |-> kept[i].supplier,
                          order |-> MapPurchaseOrder(kept[i])]
  <1>3. pos = [i \in DOMAIN kept |-> entry(i)]
    BY <1>2 DEF MapPurchaseOrders
  <1> HIDE DEF kept, entry
  <1>4. pos = [k \in 1..Len(pos) |-> pos[k]]
    BY <1>3, AnswerFacts
  <1> QED
    BY <1>1, <1>4, AnswerFacts, IsASeq

LEMMA SentFacts == ASSUME NEW x \in Sent PROVE x.po \in PoNumber /\ IsOrder(x.order)
  BY AnswerFacts DEF Sent

-----------------------------------------------------------------------------
(* What is on file, and what a request holds.                              *)

Quantities(r) == \A n \in DOMAIN r : r[n] \in Nat
GoodOrder(order) == ValidLines(order) /\ Quantities(order.received) /\ IsOrder(order)
OnFile(order) == order = NoPo \/ GoodOrder(order)

LEMMA ValidIsGood == ASSUME NEW order, ValidPo(order), IsOrder(order) PROVE GoodOrder(order)
  BY DEF ValidPo, ValidReceipt, GoodOrder, Quantities

\* Writing the receipts alone leaves the lines as they are.
LEMMA MergedOrder ==
  ASSUME NEW order, GoodOrder(order), NEW r, Quantities(r)
  PROVE  GoodOrder([order EXCEPT !.received = r])
  <1> DEFINE new == [order EXCEPT !.received = r]
  <1>1. /\ DOMAIN new = DOMAIN order /\ new.lines = order.lines /\ new.total = order.total
        /\ new.received = r
    BY DEF IsOrder, GoodOrder
  <1> HIDE DEF new
  <1> QED
    BY <1>1 DEF IsOrder, GoodOrder, ValidLines, Numbers, Lines, new

JobFields == {"pc", "po", "order", "received", "waiting", "current", "read", "queue", "sync",
              "fetched", "stored", "failed"}

Pcs == {"idle", "read", "route", "store", "merge", "select", "rematch", "next", "report"}

\* A request at rest or at work: what it has found stays with it until it has routed it.
JobOK(j) ==
  /\ DOMAIN j = JobFields /\ j.pc \in Pcs /\ j.sync \in BOOLEAN
  /\ j.waiting \subseteq Invoice /\ j.stored \cup j.failed \subseteq PoNumber
  /\ j.queue \in Seq(Sent)
  /\ IF j.pc \in {"read", "route"} THEN j.current \in Invoice ELSE j.current = NoInvoice
  /\ j.pc \in {"store", "merge", "select", "rematch"} => j.po \in PoNumber
  /\ j.waiting # {} => j.pc \in {"read", "route", "rematch"} /\ j.po \in PoNumber
  /\ j.pc \in {"read", "route"} => j.po \in PoNumber \/ (j.po = NoPo /\ ~j.sync)
  /\ j.pc = "store" => GoodOrder(j.order)
  /\ j.pc = "merge" => Quantities(j.received) /\ ~j.sync
  /\ j.pc = "route" => OnFile(j.read)
  /\ j.pc \in {"next", "report"} => j.sync

Filed ==
  /\ DOMAIN orders = PoNumber /\ DOMAIN inv = Invoice /\ DOMAIN job = Worker
  /\ \A p \in PoNumber : OnFile(orders[p])
  /\ \A i \in Invoice :
       /\ DOMAIN inv[i] = {"status", "read"} /\ OnFile(inv[i].read)
       /\ inv[i].status \in {"none", "VALIDATING", "EXCEPTION", "PENDING_APPROVAL"}
  /\ \A w \in Worker : /\ JobOK(job[w])
                       /\ At(w, "merge") => GoodOrder(orders[job[w].po])
  /\ writer \in [PoNumber -> Worker \cup {NoWorker}]
  /\ missed \subseteq Invoice /\ ops \in 0..MaxOps /\ faults \in 0..MaxFaults

LEMMA IdleOK == JobOK(Idle)
  BY OrdersAssumption DEF Idle, JobOK, JobFields, Pcs

LEMMA Moved ==
  ASSUME Filed, NEW w \in Worker, NEW j, Becomes(w, j)
  PROVE  DOMAIN job' = Worker /\ job'[w] = j /\ \A v \in Worker : v # w => job'[v] = job[v]
  BY DEF Filed, Becomes

\* Whatever of the request goes on, it is a request that does.
LEMMA ContinuedOK ==
  ASSUME NEW j, JobOK(j), j.pc \in {"store", "merge", "select", "rematch"}, j.waiting = {}
  PROVE  JobOK(Continued(j))
  <1>1. CASE ~j.sync
    BY <1>1, IdleOK DEF Continued, JobOK
  <1>2. CASE j.sync
    BY <1>2 DEF Continued, JobOK, JobFields, Pcs
  <1> QED
    BY <1>1, <1>2

LEMMA ValidatedOK ==
  ASSUME NEW j, JobOK(j), j.pc \in {"read", "route"}
  PROVE  JobOK(Validated(j))
  <1>1. CASE j.po = NoPo
    BY <1>1, IdleOK DEF Validated
  <1>2. CASE j.po # NoPo
    BY <1>2, OrdersAssumption DEF Validated, JobOK, JobFields, Pcs
  <1> QED
    BY <1>1, <1>2

\* Every step leaves the worker that makes it with a request that is one.
LEMMA ValidationJob ==
  ASSUME Filed, NEW w \in Worker,
         ReadOrder(w) \/ RouteInvoice(w) \/ ValidationFails(w)
         \/ \E i \in Invoice : Ingested(w, i)
  PROVE  JobOK(job'[w])
  <1> DEFINE j == job[w]
  <1>0. JobOK(j)
    BY DEF Filed
  <1>1. CASE ReadOrder(w)
    <2>1. j.pc = "read" /\ j.current \in Invoice
      BY <1>0, <1>1 DEF ReadOrder, At, JobOK
    <2> DEFINE r == orders[Cites[j.current]]
    <2>2. OnFile(r)
      BY <2>1, OrdersAssumption DEF Filed
    <2> HIDE DEF r
    <2>3. job'[w] = [j EXCEPT !.pc = "route", !.read = r]
      BY <1>1, Moved DEF ReadOrder, r
    <2> HIDE DEF j
    <2> QED
      BY <1>0, <2>1, <2>2, <2>3 DEF JobOK, JobFields, Pcs
  <1>2. CASE RouteInvoice(w) \/ ValidationFails(w)
    <2>1. j.pc \in {"read", "route"} /\ job'[w] = Validated(j)
      BY <1>2, Moved DEF RouteInvoice, ValidationFails, At
    <2> QED
      BY <1>0, <2>1, ValidatedOK
  <1>3. ASSUME NEW i \in Invoice, Ingested(w, i) PROVE JobOK(job'[w])
    <2>1. job'[w] = [Idle EXCEPT !.pc = "read", !.current = i]
      BY <1>3, Moved DEF Ingested
    <2> QED
      BY <2>1, IdleOK DEF JobOK, JobFields, Pcs, Idle
  <1> QED
    BY <1>1, <1>2, <1>3

LEMMA WriteJob ==
  ASSUME Filed, NEW w \in Worker,
         \/ StoreOrder(w) \/ MergeReceipt(w) \/ SelectWaiting(w) \/ RequestFails(w)
         \/ Rematch(w) \/ RematchDone(w)
  PROVE  JobOK(job'[w])
  <1> DEFINE j == job[w]
  <1>0. JobOK(j)
    BY DEF Filed
  <1>1. CASE StoreOrder(w)
    <2>1. j.pc = "store" /\ job'[w] = [j EXCEPT !.pc = "select", !.stored = @ \cup {j.po}]
      BY <1>1, Moved DEF StoreOrder, At
    <2> HIDE DEF j
    <2> QED
      BY <1>0, <2>1 DEF JobOK, JobFields, Pcs
  <1>2. CASE MergeReceipt(w)
    <2>1. j.pc = "merge" /\ job'[w] = [j EXCEPT !.pc = "select"]
      BY <1>2, Moved DEF MergeReceipt, At
    <2> HIDE DEF j
    <2> QED
      BY <1>0, <2>1 DEF JobOK, JobFields, Pcs
  <1>3. CASE SelectWaiting(w)
    <2>1. j.pc = "select" /\ job'[w] = [j EXCEPT !.pc = "rematch", !.waiting = Parked(j.po)]
      BY <1>3, Moved DEF SelectWaiting, At
    <2>2. Parked(j.po) \subseteq Invoice
      BY DEF Parked
    <2> HIDE DEF j
    <2> QED
      BY <1>0, <2>1, <2>2 DEF JobOK, JobFields, Pcs
  <1>4. CASE RequestFails(w)
    <2> DEFINE f == [j EXCEPT !.failed = @ \cup {j.po}]
    <2>1. j.pc \in {"store", "merge", "select"} /\ job'[w] = Continued(f)
      BY <1>4, Moved DEF RequestFails
    <2> HIDE DEF j
    <2>2. JobOK(f) /\ f.pc = j.pc /\ f.waiting = {}
      BY <1>0, <2>1 DEF JobOK, JobFields, Pcs
    <2> HIDE DEF f
    <2> QED
      BY <2>1, <2>2, ContinuedOK
  <1>5. CASE Rematch(w)
    <2>1. PICK i \in j.waiting :
            job'[w] = [j EXCEPT !.pc = "read", !.waiting = @ \ {i}, !.current = i]
      BY <1>5, Moved DEF Rematch
    <2>2. j.pc = "rematch"
      BY <1>5 DEF Rematch, At
    <2> HIDE DEF j
    <2> QED
      BY <1>0, <2>1, <2>2 DEF JobOK, JobFields, Pcs
  <1>6. CASE RematchDone(w)
    <2>1. j.pc = "rematch" /\ j.waiting = {} /\ job'[w] = Continued(j)
      BY <1>6, Moved DEF RematchDone, At
    <2> HIDE DEF j
    <2> QED
      BY <1>0, <2>1, ContinuedOK
  <1> QED
    BY <1>1, <1>2, <1>3, <1>4, <1>5, <1>6

LEMMA RequestJob ==
  ASSUME Filed, NEW w \in Worker,
         \/ \E p \in PoNumber : UpsertRequest(w, p) \/ RecordReceipt(w, p)
         \/ SyncPurchaseOrders(w) \/ NextOrder(w) \/ SyncEnds(w) \/ Report(w)
  PROVE  JobOK(job'[w])
  <1> DEFINE j == job[w]
  <1>0. JobOK(j)
    BY DEF Filed
  <1>1. ASSUME NEW p \in PoNumber, UpsertRequest(w, p) PROVE JobOK(job'[w])
    <2>1. PICK order \in Payload :
            ValidPo(order) /\ Becomes(w, [Idle EXCEPT !.pc = "store", !.po = p, !.order = order])
      BY <1>1 DEF UpsertRequest
    <2>2. GoodOrder(order)
      BY <2>1, DataAssumption, ValidIsGood
    <2>3. job'[w] = [Idle EXCEPT !.pc = "store", !.po = p, !.order = order]
      BY <2>1, Moved
    <2> QED
      BY <2>2, <2>3, IdleOK DEF JobOK, JobFields, Pcs, Idle
  <1>2. ASSUME NEW p \in PoNumber, RecordReceipt(w, p) PROVE JobOK(job'[w])
    <2>1. PICK dto \in Delivered :
            /\ ValidPo([orders[p] EXCEPT !.received = dto])
            /\ Becomes(w, [Idle EXCEPT !.pc = "merge", !.po = p,
                             !.received = Merged(orders[p].received, dto)])
      BY <1>2 DEF RecordReceipt
    <2>2. GoodOrder(orders[p])
      BY <1>2 DEF RecordReceipt, Filed, OnFile
    <2>3. Quantities(dto)
      BY <2>1, <2>2 DEF ValidPo, ValidReceipt, Quantities, GoodOrder, IsOrder
    <2> DEFINE r == Merged(orders[p].received, dto)
    <2>4. Quantities(r)
      BY <2>2, <2>3 DEF Quantities, Merged, GoodOrder
    <2> HIDE DEF r
    <2>5. job'[w] = [Idle EXCEPT !.pc = "merge", !.po = p, !.received = r]
      BY <2>1, Moved DEF r
    <2> QED
      BY <2>4, <2>5, IdleOK DEF JobOK, JobFields, Pcs, Idle
  <1>3. CASE SyncPurchaseOrders(w)
    <2>1. PICK body \in Feed :
            Becomes(w, [Idle EXCEPT !.pc = "next", !.sync = TRUE, !.queue = MapPurchaseOrders(body),
                                    !.fetched = MapPurchaseOrders(body)])
      BY <1>3 DEF SyncPurchaseOrders
    <2> DEFINE pos == MapPurchaseOrders(body)
    <2>2. pos \in Seq(Sent)
      BY AnswerIsSeq DEF Answers
    <2> HIDE DEF pos
    <2>3. job'[w] = [Idle EXCEPT !.pc = "next", !.sync = TRUE, !.queue = pos, !.fetched = pos]
      BY <2>1, Moved DEF pos
    <2> QED
      BY <2>2, <2>3, IdleOK DEF JobOK, JobFields, Pcs, Idle
  <1>4. CASE NextOrder(w)
    <2> DEFINE head == Head(j.queue)
    <2>1. /\ j.pc = "next" /\ j.queue # <<>>
          /\ job'[w] = IF Accepted(head) THEN Stores(j, head)
                       ELSE [j EXCEPT !.queue = Tail(@), !.failed = @ \cup {head.po}]
      BY <1>4, Moved DEF NextOrder, At
    <2>2. head \in Sent /\ Tail(j.queue) \in Seq(Sent)
      BY <1>0, <2>1, HeadTailProperties DEF JobOK
    <2>3. head.po \in PoNumber /\ IsOrder(head.order)
      BY <2>2, SentFacts
    <2> HIDE DEF j, head
    <2>4. CASE Accepted(head)
      <3>1. GoodOrder(head.order)
        BY <2>3, <2>4, ValidIsGood DEF Accepted
      <3> DEFINE rest == Tail(j.queue)  po == head.po  order == head.order
      <3>2. job'[w] = [j EXCEPT !.pc = "store", !.queue = rest, !.po = po, !.order = order]
        BY <2>1, <2>4 DEF Stores
      <3> HIDE DEF rest, po, order
      <3>3. rest \in Seq(Sent) /\ po \in PoNumber /\ GoodOrder(order)
        BY <2>2, <2>3, <3>1 DEF rest, po, order
      <3> QED
        BY <1>0, <2>1, <3>2, <3>3 DEF JobOK, JobFields, Pcs
    <2>5. CASE ~Accepted(head)
      <3> DEFINE rest == Tail(j.queue)  po == head.po
      <3>1. job'[w] = [j EXCEPT !.queue = rest, !.failed = @ \cup {po}]
        BY <2>1, <2>5
      <3> HIDE DEF rest, po
      <3>2. rest \in Seq(Sent) /\ po \in PoNumber
        BY <2>2, <2>3 DEF rest, po
      <3>3. j.pc = "next" /\ j.sync /\ j.waiting = {}
        BY <1>0, <2>1 DEF JobOK
      <3>4. j.stored \cup (j.failed \cup {po}) \subseteq PoNumber
        BY <1>0, <3>2 DEF JobOK
      <3> QED
        BY <1>0, <3>1, <3>2, <3>3, <3>4 DEF JobOK, JobFields, Pcs
    <2> QED
      BY <2>4, <2>5
  <1>5. CASE SyncEnds(w)
    <2>1. j.pc = "next" /\ job'[w] = [j EXCEPT !.pc = "report"]
      BY <1>5, Moved DEF SyncEnds, At
    <2> HIDE DEF j
    <2> QED
      BY <1>0, <2>1 DEF JobOK, JobFields, Pcs
  <1>6. CASE Report(w)
    BY <1>6, Moved, IdleOK DEF Report
  <1> QED
    BY <1>1, <1>2, <1>3, <1>4, <1>5, <1>6

\* The rows.
LEMMA RowsNext ==
  ASSUME Filed, [Next]_ovars
  PROVE  /\ DOMAIN orders' = PoNumber
         /\ \A p \in PoNumber : OnFile(orders'[p]) /\ (GoodOrder(orders[p]) => GoodOrder(orders'[p]))
         /\ writer' \in [PoNumber -> Worker \cup {NoWorker}]
  <1>1. ASSUME NEW w \in Worker, StoreOrder(w) \/ MergeReceipt(w)
        PROVE  \E order : /\ GoodOrder(order) /\ job[w].po \in PoNumber
                          /\ orders' = [orders EXCEPT ![job[w].po] = order]
                          /\ writer' = [writer EXCEPT ![job[w].po] = w]
    <2>1. JobOK(job[w])
      BY DEF Filed
    <2>2. CASE StoreOrder(w)
      <3>1. GoodOrder(job[w].order) /\ job[w].po \in PoNumber
        BY <2>1, <2>2 DEF StoreOrder, At, JobOK
      <3> QED
        BY <2>2, <3>1 DEF StoreOrder
    <2>3. CASE MergeReceipt(w)
      <3>1. Quantities(job[w].received) /\ job[w].po \in PoNumber
        BY <2>1, <2>3 DEF MergeReceipt, At, JobOK
      <3>2. GoodOrder(orders[job[w].po])
        BY <2>3 DEF MergeReceipt, Filed
      <3>3. GoodOrder([orders[job[w].po] EXCEPT !.received = job[w].received])
        BY <3>1, <3>2, MergedOrder
      <3>4. orders' = [orders EXCEPT ![job[w].po] = [@ EXCEPT !.received = job[w].received]]
        BY <2>3 DEF MergeReceipt
      <3>5. orders' = [orders EXCEPT ![job[w].po] =
                         [orders[job[w].po] EXCEPT !.received = job[w].received]]
        BY <3>4
      <3> QED
        BY <2>3, <3>1, <3>3, <3>5 DEF MergeReceipt
    <2> QED
      BY <1>1, <2>2, <2>3
  <1>2. ASSUME NEW w \in Worker, StoreOrder(w) \/ MergeReceipt(w)
        PROVE  /\ DOMAIN orders' = PoNumber
               /\ \A p \in PoNumber : /\ OnFile(orders'[p])
                                      /\ GoodOrder(orders[p]) => GoodOrder(orders'[p])
               /\ writer' \in [PoNumber -> Worker \cup {NoWorker}]
    <2>1. PICK order : /\ GoodOrder(order) /\ job[w].po \in PoNumber
                       /\ orders' = [orders EXCEPT ![job[w].po] = order]
                       /\ writer' = [writer EXCEPT ![job[w].po] = w]
      BY <1>1, <1>2
    <2> QED
      BY <2>1 DEF Filed, OnFile
  <1>3. CASE UNCHANGED <<orders, writer>>
    BY <1>3 DEF Filed
  <1>4. UNCHANGED <<orders, writer>> \/ \E w \in Worker : StoreOrder(w) \/ MergeReceipt(w)
    BY DEF Next, Statement, ovars, ReadOrder, RouteInvoice, SelectWaiting, Rematch, RematchDone,
           NextOrder, SyncEnds, Report, ValidationFails, RequestFails, SyncPurchaseOrders,
           UpsertRequest, RecordReceipt, Ingested
  <1> QED
    BY <1>2, <1>3, <1>4

\* The invoices, and what is noted of them.
LEMMA InvoicesNext ==
  ASSUME Filed, [Next]_ovars
  PROVE  /\ DOMAIN inv' = Invoice /\ missed' \subseteq Invoice
         /\ \A i \in Invoice :
              /\ DOMAIN inv'[i] = {"status", "read"} /\ OnFile(inv'[i].read)
              /\ inv'[i].status \in {"none", "VALIDATING", "EXCEPTION", "PENDING_APPROVAL"}
  <1>1. ASSUME NEW w \in Worker, NEW i \in Invoice, Ingested(w, i)
        PROVE  /\ DOMAIN inv' = Invoice /\ missed' = missed
               /\ \A k \in Invoice : k # i => inv'[k] = inv[k]
               /\ DOMAIN inv'[i] = {"status", "read"} /\ OnFile(inv'[i].read)
               /\ inv'[i].status = "VALIDATING"
    BY <1>1 DEF Ingested, Filed
  <1>2. ASSUME NEW w \in Worker, RouteInvoice(w)
        PROVE  \E i \in Invoice :
                 /\ DOMAIN inv' = Invoice /\ missed' \subseteq Invoice
                 /\ \A k \in Invoice : k # i => inv'[k] = inv[k]
                 /\ DOMAIN inv'[i] = {"status", "read"} /\ OnFile(inv'[i].read)
                 /\ inv'[i].status \in {"EXCEPTION", "PENDING_APPROVAL"}
    <2>1. JobOK(job[w]) /\ job[w].pc = "route"
      BY <1>2 DEF Filed, RouteInvoice, At
    <2>2. job[w].current \in Invoice /\ OnFile(job[w].read)
      BY <2>1 DEF JobOK
    <2>3. inv' = [inv EXCEPT ![job[w].current] =
             [status |-> IF Blocked(job[w].current, job[w].read) THEN "EXCEPTION"
                         ELSE "PENDING_APPROVAL",
              read |-> job[w].read]]
      BY <1>2 DEF RouteInvoice
    <2>4. missed' \subseteq missed \cup {job[w].current}
      BY <1>2 DEF RouteInvoice
    <2> QED
      BY <2>2, <2>3, <2>4 DEF Filed
  <1>3. ASSUME NEW w \in Worker, ValidationFails(w)
        PROVE  inv' = inv /\ missed' \subseteq Invoice
    BY <1>3 DEF ValidationFails, Filed, JobOK
  <1>4. ASSUME NEW w \in Worker, RequestFails(w)
        PROVE  inv' = inv /\ missed' \subseteq Invoice
    BY <1>4 DEF RequestFails, Filed, Parked
  <1>5. CASE UNCHANGED <<inv, missed>>
    BY <1>5 DEF Filed
  <1>6. \/ UNCHANGED <<inv, missed>>
        \/ \E w \in Worker : \/ RouteInvoice(w) \/ ValidationFails(w) \/ RequestFails(w)
                             \/ \E i \in Invoice : Ingested(w, i)
    BY DEF Next, Statement, ovars, ReadOrder, StoreOrder, MergeReceipt, SelectWaiting, Rematch,
           RematchDone, NextOrder, SyncEnds, Report, SyncPurchaseOrders, UpsertRequest, RecordReceipt
  <1> QED
    BY <1>1, <1>2, <1>3, <1>4, <1>5, <1>6 DEF Filed

\* The bounded counters.
LEMMA Counted ==
  ASSUME Filed, [Next]_ovars PROVE ops' \in 0..MaxOps /\ faults' \in 0..MaxFaults
  <1>1. ops' = ops \/ (ops < MaxOps /\ ops' = ops + 1)
    BY DEF Next, ovars, Statement, StoreOrder, MergeReceipt, SelectWaiting, Rematch, RematchDone,
           NextOrder, SyncEnds, Report, ValidationFails, RequestFails, SyncPurchaseOrders,
           UpsertRequest, RecordReceipt, Ingested, ReadOrder, RouteInvoice, Begin
  <1>2. faults' = faults \/ (faults < MaxFaults /\ faults' = faults + 1)
    BY DEF Next, ovars, Statement, StoreOrder, MergeReceipt, SelectWaiting, Rematch, RematchDone,
           NextOrder, SyncEnds, Report, ValidationFails, RequestFails, SyncPurchaseOrders,
           UpsertRequest, RecordReceipt, Ingested, ReadOrder, RouteInvoice, Fault
  <1> QED
    BY <1>1, <1>2, OrdersAssumption DEF Filed

\* A step is one worker's, or none's.
Step(w) == \/ Statement(w) \/ ValidationFails(w) \/ RequestFails(w) \/ SyncPurchaseOrders(w)
           \/ \E p \in PoNumber : UpsertRequest(w, p) \/ RecordReceipt(w, p)
           \/ \E i \in Invoice : Ingested(w, i)

LEMMA StepMoves ==
  ASSUME Filed, NEW w \in Worker, Step(w)
  PROVE  DOMAIN job' = Worker /\ \A v \in Worker : v # w => job'[v] = job[v]
  <1>1. \E j : Becomes(w, j)
    BY DEF Step, Statement, StoreOrder, MergeReceipt, SelectWaiting, Rematch, RematchDone,
           NextOrder, SyncEnds, Report, ValidationFails, RequestFails, SyncPurchaseOrders,
           UpsertRequest, RecordReceipt, Ingested, ReadOrder, RouteInvoice
  <1> QED
    BY <1>1, Moved

\* Only a request for a receipt leads to the merge.
LEMMA MergeBegins ==
  ASSUME Filed, NEW w \in Worker, Step(w), job'[w].pc = "merge"
  PROVE  GoodOrder(orders[job'[w].po])
  <1>0. JobOK(job[w])
    BY DEF Filed
  <1>1. ASSUME NEW p \in PoNumber, RecordReceipt(w, p) PROVE GoodOrder(orders[job'[w].po])
    <2>1. PICK r : Becomes(w, [Idle EXCEPT !.pc = "merge", !.po = p, !.received = r])
      BY <1>1 DEF RecordReceipt
    <2>2. job'[w] = [Idle EXCEPT !.pc = "merge", !.po = p, !.received = r]
      BY <2>1, Moved
    <2>3. job'[w].po = p
      BY <2>2 DEF Idle
    <2> QED
      BY <1>1, <2>3 DEF RecordReceipt, Filed, OnFile
  <1>2. ASSUME NEW p \in PoNumber, UpsertRequest(w, p) PROVE job'[w].pc # "merge"
    <2>1. PICK order : Becomes(w, [Idle EXCEPT !.pc = "store", !.po = p, !.order = order])
      BY <1>2 DEF UpsertRequest
    <2>2. job'[w] = [Idle EXCEPT !.pc = "store", !.po = p, !.order = order]
      BY <2>1, Moved
    <2> QED
      BY <2>2 DEF Idle
  <1>3. CASE SyncPurchaseOrders(w)
    <2>1. PICK pos : Becomes(w, [Idle EXCEPT !.pc = "next", !.sync = TRUE, !.queue = pos,
                                             !.fetched = pos])
      BY <1>3 DEF SyncPurchaseOrders
    <2>2. job'[w] = [Idle EXCEPT !.pc = "next", !.sync = TRUE, !.queue = pos, !.fetched = pos]
      BY <2>1, Moved
    <2> QED
      BY <2>2 DEF Idle
  <1>4. ASSUME NEW i \in Invoice, Ingested(w, i) PROVE job'[w].pc # "merge"
    <2>1. job'[w] = [Idle EXCEPT !.pc = "read", !.current = i]
      BY <1>4, Moved DEF Ingested
    <2> QED
      BY <2>1 DEF Idle
  <1>5. CASE RouteInvoice(w) \/ ValidationFails(w)
    <2>1. job'[w] = Validated(job[w])
      BY <1>5, Moved DEF RouteInvoice, ValidationFails
    <2> QED
      BY <1>0, <2>1 DEF Validated, Idle, JobOK, JobFields
  <1>6. CASE RequestFails(w)
    <2> DEFINE f == [job[w] EXCEPT !.failed = @ \cup {job[w].po}]
    <2>1. job'[w] = Continued(f) /\ job[w].pc \in {"store", "merge", "select"}
      BY <1>6, Moved DEF RequestFails
    <2>2. "pc" \in DOMAIN f
      BY <1>0 DEF JobOK, JobFields
    <2> HIDE DEF f
    <2> QED
      BY <2>1, <2>2 DEF Continued, Idle
  <1>7. CASE RematchDone(w)
    <2>1. job'[w] = Continued(job[w])
      BY <1>7, Moved DEF RematchDone
    <2> QED
      BY <1>0, <2>1 DEF Continued, Idle, JobOK, JobFields
  <1>8. CASE NextOrder(w)
    <2> DEFINE head == Head(job[w].queue)
    <2>1. /\ job'[w] = IF Accepted(head) THEN Stores(job[w], head)
                       ELSE [job[w] EXCEPT !.queue = Tail(@), !.failed = @ \cup {head.po}]
          /\ job[w].pc = "next"
      BY <1>8, Moved DEF NextOrder, At
    <2> HIDE DEF head
    <2> QED
      BY <1>0, <2>1 DEF JobOK, JobFields, Stores
  <1>9. CASE Rematch(w)
    <2>1. PICK i : Becomes(w, [job[w] EXCEPT !.pc = "read", !.waiting = @ \ {i}, !.current = i])
      BY <1>9 DEF Rematch
    <2>2. job'[w] = [job[w] EXCEPT !.pc = "read", !.waiting = @ \ {i}, !.current = i]
      BY <2>1, Moved
    <2> QED
      BY <1>0, <2>2 DEF JobOK, JobFields
  <1>10. CASE \/ ReadOrder(w) \/ StoreOrder(w) \/ MergeReceipt(w) \/ SelectWaiting(w)
              \/ SyncEnds(w) \/ Report(w)
    <2> DEFINE pc == job'[w].pc
    <2>1. ASSUME NEW r, job'[w] = [job[w] EXCEPT !.pc = "route", !.read = r] PROVE pc # "merge"
      BY <1>0, <2>1 DEF JobOK, JobFields
    <2>2. ASSUME NEW s, job'[w] = [job[w] EXCEPT !.pc = "select", !.stored = s] PROVE pc # "merge"
      BY <1>0, <2>2 DEF JobOK, JobFields
    <2>3. ASSUME job'[w] = [job[w] EXCEPT !.pc = "select"] PROVE pc # "merge"
      BY <1>0, <2>3 DEF JobOK, JobFields
    <2>4. ASSUME NEW s, job'[w] = [job[w] EXCEPT !.pc = "rematch", !.waiting = s] PROVE pc # "merge"
      BY <1>0, <2>4 DEF JobOK, JobFields
    <2>5. ASSUME job'[w] = [job[w] EXCEPT !.pc = "report"] \/ job'[w] = Idle PROVE pc # "merge"
      BY <1>0, <2>5 DEF JobOK, JobFields, Idle
    <2>6. job'[w] = [job[w] EXCEPT !.pc = "select", !.stored = job[w].stored \cup {job[w].po}]
          \/ ~StoreOrder(w)
      BY Moved DEF StoreOrder
    <2> QED
      BY <1>10, <2>1, <2>2, <2>3, <2>4, <2>5, <2>6, Moved
         DEF ReadOrder, MergeReceipt, SelectWaiting, SyncEnds, Report
  <1> QED
    BY <1>1, <1>2, <1>3, <1>4, <1>5, <1>6, <1>7, <1>8, <1>9, <1>10 DEF Step, Statement

LEMMA FiledStep ==
  ASSUME Filed, NEW w \in Worker, Step(w), [Next]_ovars
  PROVE  Filed'
  <1>1. JobOK(job'[w])
    <2>1. CASE \/ ReadOrder(w) \/ RouteInvoice(w) \/ ValidationFails(w)
               \/ \E i \in Invoice : Ingested(w, i)
      BY <2>1, ValidationJob
    <2>2. CASE \/ StoreOrder(w) \/ MergeReceipt(w) \/ SelectWaiting(w) \/ RequestFails(w)
               \/ Rematch(w) \/ RematchDone(w)
      BY <2>2, WriteJob
    <2>3. CASE \/ \E p \in PoNumber : UpsertRequest(w, p) \/ RecordReceipt(w, p)
               \/ SyncPurchaseOrders(w) \/ NextOrder(w) \/ SyncEnds(w) \/ Report(w)
      BY <2>3, RequestJob
    <2> QED
      BY <2>1, <2>2, <2>3 DEF Step, Statement
  <1>2. DOMAIN job' = Worker /\ \A v \in Worker : JobOK(job'[v])
    BY <1>1, StepMoves DEF Filed
  <1>3. ASSUME NEW v \in Worker, job'[v].pc = "merge" PROVE GoodOrder(orders'[job'[v].po])
    <2>1. job'[v].po \in PoNumber
      BY <1>2, <1>3 DEF JobOK
    <2>2. GoodOrder(orders[job'[v].po])
      <3>1. CASE v = w
        BY <1>3, <3>1, MergeBegins
      <3>2. CASE v # w
        BY <1>3, <3>2, StepMoves DEF Filed, At
      <3> QED
        BY <3>1, <3>2
    <2> QED
      BY <2>1, <2>2, RowsNext
  <1>4. \A v \in Worker : JobOK(job'[v]) /\ (job'[v].pc = "merge" => GoodOrder(orders'[job'[v].po]))
    BY <1>2, <1>3
  <1> QED
    BY <1>2, <1>4, RowsNext, InvoicesNext, Counted DEF Filed, At

LEMMA FiledNext == ASSUME Filed, [Next]_ovars PROVE Filed'
  <1>1. CASE Next
    <2>1. PICK w \in Worker : Step(w)
      BY <1>1 DEF Next, Step
    <2> QED
      BY <2>1, FiledStep
  <1>2. CASE UNCHANGED ovars
    BY <1>2 DEF Filed, ovars, At
  <1> QED
    BY <1>1, <1>2

LEMMA FiledInit == Init => Filed
  <1>1. Idle.pc = "idle"
    BY DEF Idle
  <1> QED
    BY <1>1, IdleOK, OrdersAssumption DEF Init, Filed, OnFile, At

\* Whoever writes an order and whatever the writer had read before, the lines of every order
\* on file are valid and add up to it, and its receipts are quantities.
THEOREM OrdersTyped == Spec => []OrdersTypeOK
  <1>1. Filed => OrdersTypeOK
    <2> SUFFICES ASSUME Filed PROVE OrdersTypeOK
      OBVIOUS
    <2>1. \A row \in Rows : /\ ValidLines(row)
                            /\ \A n \in DOMAIN row.received : row.received[n] \in Nat
      BY DEF Filed, Rows, OnFile, GoodOrder, Quantities
    <2>2. \A w \in Worker :
            /\ job[w].pc \in Pcs /\ job[w].waiting \subseteq Invoice
            /\ job[w].current \in Invoice \cup {NoInvoice}
            /\ job[w].stored \cup job[w].failed \subseteq PoNumber
      BY DEF Filed, JobOK
    <2> QED
      BY <2>1, <2>2 DEF OrdersTypeOK, Filed, Pcs
  <1> QED
    BY <1>1, FiledInit, FiledNext, PTL DEF Spec

-----------------------------------------------------------------------------
(* Cleared: an invoice that is parked is blocked, in hand, or excused.     *)

Clear(i) == inv[i].status = "EXCEPTION" /\ i \notin missed =>
              Blocked(i, orders[Cites[i]]) \/ \E w \in Worker : InHand(w, i)

Untouched(w, i) == /\ inv'[i] = inv[i] /\ orders'[Cites[i]] = orders[Cites[i]]
                   /\ i \in missed => i \in missed'
                   /\ InHand(w, i) => InHand(w, i)'

LEMMA ClearKept ==
  ASSUME Filed, NEW w \in Worker, Step(w), NEW i \in Invoice, Clear(i), Untouched(w, i)
  PROVE  Clear(i)'
  <1>1. \A v \in Worker : v # w => (InHand(v, i) => InHand(v, i)')
    BY StepMoves DEF InHand, At
  <1> QED
    BY <1>1 DEF Clear, Untouched

\* A request that has nothing in hand loses nothing.
LEMMA EmptyHanded ==
  ASSUME Filed, NEW w \in Worker, job[w].pc \in {"idle", "store", "merge", "next", "report"},
         NEW i \in Invoice
  PROVE  ~InHand(w, i)
  BY OrdersAssumption DEF Filed, JobOK, InHand, At

LEMMA ClearQuiet ==
  ASSUME Filed, NEW w \in Worker, Step(w), NEW i \in Invoice, Clear(i),
         \/ ReadOrder(w) \/ Rematch(w) \/ RematchDone(w)
         \/ NextOrder(w) \/ SyncEnds(w) \/ Report(w) \/ SyncPurchaseOrders(w)
         \/ \E p \in PoNumber : UpsertRequest(w, p) \/ RecordReceipt(w, p)
  PROVE  Clear(i)'
  <1>0. JobOK(job[w])
    BY DEF Filed
  <1>1. UNCHANGED <<inv, orders, missed>>
    BY DEF ReadOrder, Rematch, RematchDone, NextOrder, SyncEnds, Report, SyncPurchaseOrders,
           UpsertRequest, RecordReceipt
  <1>2. InHand(w, i) => InHand(w, i)'
    <2>1. CASE ReadOrder(w)
      <3>1. PICK r : job'[w] = [job[w] EXCEPT !.pc = "route", !.read = r]
        BY <2>1, Moved DEF ReadOrder
      <3> QED
        BY <1>0, <2>1, <3>1 DEF ReadOrder, JobOK, JobFields, InHand, At
    <2>2. CASE Rematch(w)
      <3>1. PICK k \in job[w].waiting :
              job'[w] = [job[w] EXCEPT !.pc = "read", !.waiting = @ \ {k}, !.current = k]
        BY <2>2, Moved DEF Rematch
      <3>2. job[w].pc = "rematch"
        BY <2>2 DEF Rematch, At
      <3>3. job[w].current = NoInvoice
        BY <1>0, <3>2 DEF JobOK
      <3> QED
        BY <1>0, <3>1, <3>2, <3>3, OrdersAssumption DEF JobOK, JobFields, InHand, At
    <2>3. CASE RematchDone(w)
      BY <1>0, <2>3, OrdersAssumption DEF RematchDone, JobOK, InHand, At
    <2>4. CASE \/ NextOrder(w) \/ SyncEnds(w) \/ Report(w) \/ SyncPurchaseOrders(w)
               \/ \E p \in PoNumber : UpsertRequest(w, p) \/ RecordReceipt(w, p)
      <3>1. job[w].pc \in {"idle", "next", "report"}
        BY <2>4 DEF NextOrder, SyncEnds, Report, SyncPurchaseOrders, UpsertRequest,
                    RecordReceipt, Begin, At
      <3> QED
        BY <3>1, EmptyHanded
    <2> QED
      BY <2>1, <2>2, <2>3, <2>4
  <1> QED
    BY <1>1, <1>2, ClearKept DEF Untouched

\* After a write every invoice that cites the order is in hand.
LEMMA ClearWrite ==
  ASSUME Filed, NEW w \in Worker, Step(w), NEW i \in Invoice, Clear(i),
         StoreOrder(w) \/ MergeReceipt(w)
  PROVE  Clear(i)'
  <1>0. JobOK(job[w])
    BY DEF Filed
  <1>1. /\ job[w].pc \in {"store", "merge"} /\ UNCHANGED <<inv, missed>>
        /\ \A p \in PoNumber : p # job[w].po => orders'[p] = orders[p]
    BY DEF StoreOrder, MergeReceipt, At, Filed
  <1>2. job'[w].pc = "select" /\ job'[w].po = job[w].po
    <2>1. CASE StoreOrder(w)
      <3>1. PICK s : job'[w] = [job[w] EXCEPT !.pc = "select", !.stored = s]
        BY <2>1, Moved DEF StoreOrder
      <3> QED
        BY <1>0, <3>1 DEF JobOK, JobFields
    <2>2. CASE MergeReceipt(w)
      <3>1. job'[w] = [job[w] EXCEPT !.pc = "select"]
        BY <2>2, Moved DEF MergeReceipt
      <3> QED
        BY <1>0, <3>1 DEF JobOK, JobFields
    <2> QED
      BY <2>1, <2>2
  <1>3. CASE Cites[i] = job[w].po
    <2>1. InHand(w, i)'
      BY <1>2, <1>3 DEF InHand, At
    <2> QED
      BY <2>1 DEF Clear
  <1>4. CASE Cites[i] # job[w].po
    <2>1. orders'[Cites[i]] = orders[Cites[i]]
      BY <1>1, <1>4, OrdersAssumption
    <2>2. ~InHand(w, i)
      BY <1>1, EmptyHanded
    <2> QED
      BY <1>1, <2>1, <2>2, ClearKept DEF Untouched
  <1> QED
    BY <1>3, <1>4

\* The search finds all that is parked, and what it fails to find is noted.
LEMMA ClearSelect ==
  ASSUME Filed, NEW w \in Worker, Step(w), NEW i \in Invoice, Clear(i),
         SelectWaiting(w) \/ RequestFails(w)
  PROVE  Clear(i)'
  <1>0. JobOK(job[w])
    BY DEF Filed
  <1>1. UNCHANGED <<inv, orders>> /\ (i \in missed => i \in missed')
    BY DEF SelectWaiting, RequestFails
  <1>2. CASE SelectWaiting(w)
    <2>1. job[w].pc = "select" /\ job'[w] = [job[w] EXCEPT !.pc = "rematch", !.waiting = Parked(job[w].po)]
      BY <1>2, Moved DEF SelectWaiting, At
    <2>2. job'[w].waiting = Parked(job[w].po)
      BY <1>0, <2>1 DEF JobOK, JobFields
    <2>3. CASE i \in Parked(job[w].po)
      <3>1. InHand(w, i)'
        BY <2>2, <2>3 DEF InHand
      <3> QED
        BY <3>1 DEF Clear
    <2>4. CASE inv[i].status # "EXCEPTION"
      BY <1>1, <2>4 DEF Clear
    <2>5. CASE Cites[i] # job[w].po
      <3>1. ~InHand(w, i)
        BY <1>0, <2>1, <2>5, OrdersAssumption DEF JobOK, InHand
      <3> QED
        BY <1>1, <3>1, ClearKept DEF Untouched
    <2> QED
      BY <2>3, <2>4, <2>5 DEF Parked
  <1>3. CASE RequestFails(w)
    <2>1. CASE job[w].pc # "select"
      <3>1. ~InHand(w, i)
        BY <1>3, <2>1, EmptyHanded DEF RequestFails
      <3> QED
        BY <1>1, <3>1, ClearKept DEF Untouched
    <2>2. CASE job[w].pc = "select"
      <3>1. missed' = missed \cup Parked(job[w].po)
        BY <1>3, <2>2 DEF RequestFails, At
      <3>2. CASE i \in Parked(job[w].po)
        BY <3>1, <3>2 DEF Clear
      <3>3. CASE inv[i].status # "EXCEPTION"
        BY <1>1, <3>3 DEF Clear
      <3>4. CASE Cites[i] # job[w].po
        <4>1. ~InHand(w, i)
          BY <1>0, <2>2, <3>4, OrdersAssumption DEF JobOK, InHand
        <4> QED
          BY <1>1, <4>1, ClearKept DEF Untouched
      <3> QED
        BY <3>2, <3>3, <3>4 DEF Parked
    <2> QED
      BY <2>1, <2>2
  <1> QED
    BY <1>2, <1>3

\* A validation decides from the order on file, or is noted.
LEMMA ClearValidation ==
  ASSUME Filed, NEW w \in Worker, Step(w), NEW i \in Invoice, Clear(i),
         RouteInvoice(w) \/ ValidationFails(w) \/ \E k \in Invoice : Ingested(w, k)
  PROVE  Clear(i)'
  <1>0. JobOK(job[w])
    BY DEF Filed
  <1>1. ASSUME NEW k \in Invoice, Ingested(w, k) PROVE Clear(i)'
    <2>1. CASE i = k
      <3>1. inv'[i].status = "VALIDATING"
        BY <1>1, <2>1 DEF Ingested, Filed
      <3> QED
        BY <3>1 DEF Clear
    <2>2. CASE i # k
      <3>1. inv'[i] = inv[i] /\ UNCHANGED <<orders, missed>> /\ job[w].pc = "idle"
        BY <1>1, <2>2 DEF Ingested, Filed, At
      <3> QED
        BY <3>1, EmptyHanded, ClearKept DEF Untouched
    <2> QED
      BY <2>1, <2>2
  <1>2. ASSUME RouteInvoice(w) \/ ValidationFails(w) PROVE Clear(i)'
    <2> DEFINE k == job[w].current
    <2>1. /\ job[w].pc \in {"read", "route"} /\ job'[w] = Validated(job[w]) /\ orders' = orders
          /\ i # k => (inv'[i] = inv[i] /\ (i \in missed => i \in missed'))
      BY <1>2, Moved DEF RouteInvoice, ValidationFails, At, Filed
    <2>2. i # k /\ InHand(w, i) => InHand(w, i)'
      <3> SUFFICES ASSUME i # k, InHand(w, i) PROVE InHand(w, i)'
        OBVIOUS
      <3>1. i \in job[w].waiting
        BY <2>1 DEF InHand, At
      <3>2. job[w].po # NoPo
        BY <1>0, <3>1, OrdersAssumption DEF JobOK
      <3>3. job'[w] = [job[w] EXCEPT !.pc = "rematch", !.current = NoInvoice, !.read = NoPo]
        BY <2>1, <3>2 DEF Validated
      <3>4. job'[w].waiting = job[w].waiting
        BY <1>0, <3>3 DEF JobOK, JobFields
      <3> QED
        BY <3>1, <3>4 DEF InHand
    <2>3. CASE i # k
      BY <2>1, <2>2, <2>3, ClearKept DEF Untouched
    <2>4. CASE i = k /\ ValidationFails(w)
      BY <2>4 DEF ValidationFails, Clear
    <2>5. CASE i = k /\ RouteInvoice(w)
      <3>1. /\ inv'[i].status = IF Blocked(i, job[w].read) THEN "EXCEPTION" ELSE "PENDING_APPROVAL"
            /\ missed' = IF orders[Cites[i]] = job[w].read THEN missed \ {i} ELSE missed \cup {i}
        BY <2>5 DEF RouteInvoice, Filed
      <3> QED
        BY <2>1, <3>1 DEF Clear
    <2> QED
      BY <1>2, <2>3, <2>4, <2>5
  <1> QED
    BY <1>1, <1>2

\* Whatever requests run at the same time and wherever one throws: an invoice still parked is
\* stopped by the order on file, or some request has it in hand, or its last validation or the
\* request that was to bring one about is noted as overtaken or failed.
THEOREM OrdersCleared == Spec => []Cleared
  <1>1. Init => Cleared
    BY DEF Init, Cleared
  <1>2. ASSUME Filed, Cleared, [Next]_ovars PROVE Cleared'
    <2>1. \A i \in Invoice : Clear(i)
      BY <1>2 DEF Cleared, Clear
    <2>2. CASE UNCHANGED ovars
      BY <1>2, <2>2 DEF Cleared, ovars, InHand, At
    <2>3. ASSUME NEW w \in Worker, Step(w), NEW i \in Invoice PROVE Clear(i)'
      BY <1>2, <2>1, <2>3, ClearQuiet, ClearWrite, ClearSelect, ClearValidation
         DEF Step, Statement
    <2>4. CASE Next
      BY <2>3, <2>4 DEF Next, Step, Cleared, Clear
    <2> QED
      BY <1>2, <2>2, <2>4
  <1> QED
    BY <1>1, <1>2, FiledInit, FiledNext, PTL DEF Spec

-----------------------------------------------------------------------------
(* SyncAccounts: what becomes of every order of an answer.                 *)

Among(x, s) == \E m \in 1..Len(s) : s[m] = x

\* What has left the queue is on file, listed or about to be stored.
Walks(j) ==
  /\ j.fetched \in Answers
  /\ \A k \in 1..Len(j.fetched) :
       \/ j.fetched[k].po \in j.stored \cup j.failed
       \/ j.pc = "store" /\ j.po = j.fetched[k].po
       \/ Among(j.fetched[k], j.queue)
  /\ \A x : Among(x, j.queue) => Among(x, j.fetched)
  /\ j.pc = "store" => \E k \in 1..Len(j.fetched) : /\ j.po = j.fetched[k].po
                                                    /\ j.order = j.fetched[k].order
  /\ j.pc = "report" => j.queue = <<>>

\* What is listed has a reason.
Listed(j, f) == \A k \in 1..Len(j.fetched) :
                  j.fetched[k].po \in j.failed => f > 0 \/ Unusable(j.fetched[k])

\* What the run has stored is as it was sent, where the run wrote last.
AsSent(j, w, table, by) ==
  \A k \in 1..Len(j.fetched) :
    j.fetched[k].po \in j.stored /\ by[j.fetched[k].po] = w =>
      table[j.fetched[k].po] = j.fetched[k].order

Accounted(j, w, f, table, by) ==
  j.sync => Walks(j) /\ Listed(j, f) /\ AsSent(j, w, table, by)

Accounting == \A w \in Worker : Accounted(job[w], w, faults, orders, writer)

LEMMA TailAmong ==
  ASSUME NEW s \in Seq(Sent), s # <<>>
  PROVE  /\ Among(Head(s), s)
         /\ \A x : Among(x, s) => x = Head(s) \/ Among(x, Tail(s))
         /\ \A x : Among(x, Tail(s)) => Among(x, s)
  <1>1. /\ Len(s) \in Nat /\ Len(s) > 0 /\ Head(s) = s[1] /\ Len(Tail(s)) = Len(s) - 1
        /\ \A k \in 1..Len(Tail(s)) : Tail(s)[k] = s[k + 1]
    BY HeadTailProperties, LenProperties, EmptySeq
  <1>2. ASSUME NEW m \in 1..Len(s), m # 1 PROVE m - 1 \in 1..Len(Tail(s)) /\ Tail(s)[m - 1] = s[m]
    <2>1. m - 1 \in 1..Len(Tail(s)) /\ (m - 1) + 1 = m
      BY <1>1, <1>2
    <2> QED
      BY <1>1, <2>1
  <1>3. \A m \in 1..Len(Tail(s)) : m + 1 \in 1..Len(s)
    BY <1>1
  <1>4. 1 \in 1..Len(s) /\ s[1] = Head(s)
    BY <1>1
  <1>5. ASSUME NEW x, Among(x, s) PROVE x = Head(s) \/ Among(x, Tail(s))
    <2>1. PICK m \in 1..Len(s) : s[m] = x
      BY <1>5 DEF Among
    <2> QED
      BY <1>2, <1>4, <2>1 DEF Among
  <1>6. ASSUME NEW x, Among(x, Tail(s)) PROVE Among(x, s)
    <2>1. PICK m \in 1..Len(Tail(s)) : Tail(s)[m] = x
      BY <1>6 DEF Among
    <2>2. s[m + 1] = x /\ m + 1 \in 1..Len(s)
      BY <1>1, <1>3, <2>1
    <2> QED
      BY <2>2 DEF Among
  <1>7. Among(Head(s), s)
    BY <1>4 DEF Among
  <1> QED
    BY <1>5, <1>6, <1>7

\* A step that leaves the run where it is with the answer.
LEMMA AccountedSame ==
  ASSUME NEW w, NEW f, NEW table, NEW by, NEW j, NEW k, Accounted(j, w, f, table, by),
         \/ ~k.sync
         \/ /\ k.sync = j.sync /\ k.fetched = j.fetched /\ k.queue = j.queue
            /\ k.stored = j.stored /\ k.failed = j.failed
            /\ j.pc # "store" /\ k.pc \notin {"store", "report"}
  PROVE  Accounted(k, w, f, table, by)
  BY DEF Accounted, Walks, Listed, AsSent

\* The run of another worker: what has been overwritten is no longer its own.
LEMMA AccountedOther ==
  ASSUME Filed, Accounting, NEW w \in Worker, Step(w), NEW v \in Worker, v # w
  PROVE  Accounted(job'[v], v, faults', orders', writer')
  <1>1. job'[v] = job[v]
    BY StepMoves
  <1>2. /\ faults' = faults \/ faults' > 0
        /\ \A p \in PoNumber : writer'[p] = v => writer[p] = v /\ orders'[p] = orders[p]
    <2>1. CASE StoreOrder(w) \/ MergeReceipt(w)
      <3>1. faults' = faults /\ writer' = [writer EXCEPT ![job[w].po] = w]
            /\ \A p \in PoNumber : p # job[w].po => orders'[p] = orders[p]
        BY <2>1 DEF StoreOrder, MergeReceipt, Filed
      <3> QED
        BY <3>1 DEF Filed
    <2>2. CASE ValidationFails(w) \/ RequestFails(w)
      BY <2>2, OrdersAssumption DEF ValidationFails, RequestFails, Fault, Filed
    <2>3. CASE UNCHANGED <<orders, writer, faults>>
      BY <2>3
    <2> QED
      BY <2>1, <2>2, <2>3
         DEF Step, Statement, ReadOrder, RouteInvoice, SelectWaiting, Rematch, RematchDone,
             NextOrder, SyncEnds, Report, SyncPurchaseOrders, UpsertRequest, RecordReceipt, Ingested
  <1>3. Accounted(job[v], v, faults, orders, writer)
    BY DEF Accounting
  <1>4. CASE ~job[v].sync
    BY <1>1, <1>4 DEF Accounted
  <1>5. CASE job[v].sync
    <2>1. /\ job[v].fetched \in Answers /\ DOMAIN job[v].fetched = 1..Len(job[v].fetched)
          /\ \A k \in 1..Len(job[v].fetched) : job[v].fetched[k].po \in PoNumber
      BY <1>3, <1>5, AnswerFacts DEF Accounted, Walks
    <2>2. Listed(job[v], faults')
      BY <1>2, <1>3, <1>5 DEF Accounted, Listed
    <2>3. AsSent(job[v], v, orders', writer')
      BY <1>2, <1>3, <1>5, <2>1 DEF Accounted, AsSent
    <2> QED
      BY <1>1, <1>3, <1>5, <2>2, <2>3 DEF Accounted
  <1> QED
    BY <1>4, <1>5

LEMMA AccountedQuiet ==
  ASSUME Filed, Accounting, NEW w \in Worker,
         \/ ReadOrder(w) \/ RouteInvoice(w) \/ ValidationFails(w) \/ SelectWaiting(w)
         \/ Rematch(w) \/ RematchDone(w) \/ Report(w) \/ MergeReceipt(w)
         \/ \E i \in Invoice : Ingested(w, i)
         \/ \E p \in PoNumber : UpsertRequest(w, p) \/ RecordReceipt(w, p)
  PROVE  Accounted(job'[w], w, faults', orders', writer')
  <1> DEFINE j == job[w]  k == job'[w]
  <1>0. JobOK(j) /\ Accounted(j, w, faults, orders, writer)
    BY DEF Filed, Accounting
  <1>1. CASE ReadOrder(w) \/ SelectWaiting(w) \/ Rematch(w)
    <2>1. /\ k.sync = j.sync /\ k.fetched = j.fetched /\ k.queue = j.queue
          /\ k.stored = j.stored /\ k.failed = j.failed
          /\ j.pc # "store" /\ k.pc \notin {"store", "report"}
      <3>1. CASE ReadOrder(w)
        <4>1. k = [j EXCEPT !.pc = "route", !.read = orders[Cites[j.current]]] /\ j.pc = "read"
          BY <3>1, Moved DEF ReadOrder, At
        <4> QED
          BY <1>0, <4>1 DEF JobOK, JobFields
      <3>2. CASE SelectWaiting(w)
        <4>1. k = [j EXCEPT !.pc = "rematch", !.waiting = Parked(j.po)] /\ j.pc = "select"
          BY <3>2, Moved DEF SelectWaiting, At
        <4> QED
          BY <1>0, <4>1 DEF JobOK, JobFields
      <3>3. CASE Rematch(w)
        <4>1. j.pc = "rematch"
          BY <3>3 DEF Rematch, At
        <4>2. PICK i \in j.waiting :
                k = [j EXCEPT !.pc = "read", !.waiting = @ \ {i}, !.current = i]
          BY <3>3, Moved DEF Rematch
        <4> QED
          BY <1>0, <4>1, <4>2 DEF JobOK, JobFields
      <3> QED
        BY <1>1, <3>1, <3>2, <3>3
    <2>2. UNCHANGED <<faults, orders, writer>>
      BY <1>1 DEF ReadOrder, SelectWaiting, Rematch
    <2> HIDE DEF j, k
    <2>3. Accounted(k, w, faults, orders, writer)
      BY <1>0, <2>1, AccountedSame
    <2> QED
      BY <2>2, <2>3 DEF k
  <1>2. CASE RouteInvoice(w) \/ ValidationFails(w)
    <2>1. /\ k = Validated(j) /\ j.pc \in {"read", "route"} /\ UNCHANGED <<orders, writer>>
          /\ faults' = faults \/ faults' > 0
      BY <1>2, Moved, OrdersAssumption DEF RouteInvoice, ValidationFails, At, Fault, Filed
    <2>2. CASE j.po = NoPo
      <3>1. ~k.sync
        BY <2>1, <2>2 DEF Validated, Idle
      <3> QED
        BY <3>1 DEF Accounted
    <2>3. CASE j.po # NoPo
      <3>1. k = [j EXCEPT !.pc = "rematch", !.current = NoInvoice, !.read = NoPo]
        BY <2>1, <2>3 DEF Validated
      <3>2. /\ k.sync = j.sync /\ k.fetched = j.fetched /\ k.queue = j.queue
            /\ k.stored = j.stored /\ k.failed = j.failed
            /\ j.pc # "store" /\ k.pc \notin {"store", "report"}
        BY <1>0, <2>1, <3>1 DEF JobOK, JobFields
      <3> HIDE DEF j, k
      <3>3. Accounted(k, w, faults, orders, writer)
        BY <1>0, <3>2, AccountedSame
      <3>4. Listed(k, faults) => Listed(k, faults')
        BY <2>1 DEF Listed
      <3>5. Accounted(k, w, faults', orders', writer')
        BY <2>1, <3>3, <3>4 DEF Accounted
      <3> QED
        BY <3>5 DEF k
    <2> QED
      BY <2>2, <2>3
  <1>3. CASE RematchDone(w)
    <2>1. k = Continued(j) /\ j.pc = "rematch" /\ UNCHANGED <<faults, orders, writer>>
      BY <1>3, Moved DEF RematchDone, At
    <2>2. CASE ~j.sync
      <3>1. ~k.sync
        BY <2>1, <2>2 DEF Continued, Idle
      <3> QED
        BY <3>1 DEF Accounted
    <2>3. CASE j.sync
      <3>1. k = [j EXCEPT !.pc = "next"]
        BY <2>1, <2>3 DEF Continued
      <3>2. /\ k.sync = j.sync /\ k.fetched = j.fetched /\ k.queue = j.queue
            /\ k.stored = j.stored /\ k.failed = j.failed
            /\ j.pc # "store" /\ k.pc \notin {"store", "report"}
        BY <1>0, <2>1, <3>1 DEF JobOK, JobFields
      <3> HIDE DEF j, k
      <3>3. Accounted(k, w, faults, orders, writer)
        BY <1>0, <3>2, AccountedSame
      <3> QED
        BY <2>1, <3>3 DEF k
    <2> QED
      BY <2>2, <2>3
  <1>4. CASE MergeReceipt(w)
    <2>1. ~j.sync /\ k = [j EXCEPT !.pc = "select"]
      BY <1>0, <1>4, Moved DEF MergeReceipt, At, JobOK
    <2>2. ~k.sync
      BY <1>0, <2>1 DEF JobOK, JobFields
    <2> QED
      BY <2>2 DEF Accounted
  <1>5. CASE \/ Report(w) \/ \E i \in Invoice : Ingested(w, i)
             \/ \E p \in PoNumber : UpsertRequest(w, p) \/ RecordReceipt(w, p)
    <2>1. ~k.sync
      <3>1. CASE Report(w)
        BY <3>1, Moved DEF Report, Idle
      <3>2. ASSUME NEW i \in Invoice, Ingested(w, i) PROVE ~k.sync
        <4>1. k = [Idle EXCEPT !.pc = "read", !.current = i]
          BY <3>2, Moved DEF Ingested
        <4> QED
          BY <4>1 DEF Idle
      <3>3. ASSUME NEW p \in PoNumber, UpsertRequest(w, p) PROVE ~k.sync
        <4>1. PICK o : k = [Idle EXCEPT !.pc = "store", !.po = p, !.order = o]
          BY <3>3, Moved DEF UpsertRequest
        <4> QED
          BY <4>1 DEF Idle
      <3>4. ASSUME NEW p \in PoNumber, RecordReceipt(w, p) PROVE ~k.sync
        <4>1. PICK r : k = [Idle EXCEPT !.pc = "merge", !.po = p, !.received = r]
          BY <3>4, Moved DEF RecordReceipt
        <4> QED
          BY <4>1 DEF Idle
      <3> QED
        BY <1>5, <3>1, <3>2, <3>3, <3>4
    <2> QED
      BY <2>1 DEF Accounted
  <1> QED
    BY <1>1, <1>2, <1>3, <1>4, <1>5

LEMMA AccountedSync ==
  ASSUME Filed, Accounting, NEW w \in Worker,
         StoreOrder(w) \/ RequestFails(w) \/ SyncPurchaseOrders(w) \/ NextOrder(w) \/ SyncEnds(w)
  PROVE  Accounted(job'[w], w, faults', orders', writer')
  <1> DEFINE j == job[w]  k == job'[w]
  <1>0. JobOK(j) /\ Accounted(j, w, faults, orders, writer)
    BY DEF Filed, Accounting
  <1>a. j.sync => /\ DOMAIN j.fetched = 1..Len(j.fetched) /\ j.fetched \in Answers
                  /\ \A m, n \in 1..Len(j.fetched) : j.fetched[m].po = j.fetched[n].po => m = n
                  /\ \A m \in 1..Len(j.fetched) : j.fetched[m].po \in PoNumber
    BY <1>0, AnswerFacts DEF Accounted, Walks
  <1>1. CASE StoreOrder(w)
    <2>1. /\ j.pc = "store" /\ k = [j EXCEPT !.pc = "select", !.stored = @ \cup {j.po}]
          /\ orders' = [orders EXCEPT ![j.po] = j.order]
          /\ writer' = [writer EXCEPT ![j.po] = w] /\ faults' = faults
      BY <1>1, Moved DEF StoreOrder, At
    <2>2. /\ k.pc = "select" /\ k.sync = j.sync /\ k.fetched = j.fetched /\ k.queue = j.queue
          /\ k.stored = j.stored \cup {j.po} /\ k.failed = j.failed
      BY <1>0, <2>1 DEF JobOK, JobFields
    <2>3. \A p \in PoNumber : p # j.po => orders'[p] = orders[p] /\ writer'[p] = writer[p]
      BY <2>1 DEF Filed
    <2>4. j.po \in PoNumber => orders'[j.po] = j.order
      BY <2>1 DEF Filed
    <2> HIDE DEF j, k
    <2>5. CASE j.sync
      <3>1. Walks(k)
        BY <1>0, <2>1, <2>2, <2>5 DEF Accounted, Walks
      <3>2. Listed(k, faults')
        BY <1>0, <2>1, <2>2, <2>5 DEF Accounted, Listed
      <3>3. \A m \in 1..Len(j.fetched) : j.po = j.fetched[m].po => j.order = j.fetched[m].order
        BY <1>0, <1>a, <2>1, <2>5 DEF Accounted, Walks
      <3>4. AsSent(k, w, orders', writer')
        BY <1>0, <1>a, <2>2, <2>3, <2>4, <2>5, <3>3 DEF Accounted, AsSent
      <3> QED
        BY <3>1, <3>2, <3>4 DEF Accounted, k
    <2>6. CASE ~j.sync
      BY <2>2, <2>6 DEF Accounted, k
    <2> QED
      BY <2>5, <2>6 DEF k
  <1>2. CASE RequestFails(w)
    <2>1. /\ k = Continued([j EXCEPT !.failed = @ \cup {j.po}]) /\ UNCHANGED <<orders, writer>>
          /\ faults' > 0
      BY <1>2, Moved, OrdersAssumption DEF RequestFails, Fault, Filed
    <2>2. j.sync \/ ~k.sync
      BY <1>0, <2>1 DEF Continued, Idle, JobOK, JobFields
    <2>3. ASSUME j.sync
          PROVE  /\ k.pc = "next" /\ k.sync = j.sync /\ k.fetched = j.fetched /\ k.queue = j.queue
                 /\ k.stored = j.stored /\ k.failed = j.failed \cup {j.po}
      BY <1>0, <2>1, <2>3 DEF Continued, JobOK, JobFields
    <2> HIDE DEF j, k
    <2>4. CASE j.sync
      <3>1. Walks(k)
        BY <1>0, <2>3, <2>4 DEF Accounted, Walks
      <3>2. Listed(k, faults') /\ AsSent(k, w, orders', writer')
        BY <1>0, <2>1, <2>3, <2>4 DEF Accounted, Listed, AsSent
      <3> QED
        BY <3>1, <3>2 DEF Accounted, k
    <2>5. CASE ~k.sync
      BY <2>5 DEF Accounted, k
    <2> QED
      BY <2>2, <2>4, <2>5 DEF k
  <1>3. CASE SyncPurchaseOrders(w)
    <2>1. PICK body \in Feed :
            Becomes(w, [Idle EXCEPT !.pc = "next", !.sync = TRUE, !.queue = MapPurchaseOrders(body),
                                    !.fetched = MapPurchaseOrders(body)])
      BY <1>3 DEF SyncPurchaseOrders
    <2> DEFINE pos == MapPurchaseOrders(body)
    <2>2. pos \in Answers
      BY DEF Answers
    <2> HIDE DEF pos
    <2>3. k = [Idle EXCEPT !.pc = "next", !.sync = TRUE, !.queue = pos, !.fetched = pos]
      BY <2>1, Moved DEF pos
    <2>4. k.pc = "next" /\ k.queue = pos /\ k.fetched = pos /\ k.stored = {} /\ k.failed = {}
      BY <2>3 DEF Idle
    <2> HIDE DEF j, k
    <2>5. Walks(k)
      BY <2>2, <2>4 DEF Walks, Among
    <2>6. Listed(k, faults') /\ AsSent(k, w, orders', writer')
      BY <2>4 DEF Listed, AsSent
    <2> QED
      BY <2>5, <2>6 DEF Accounted, k
  <1>4. CASE NextOrder(w)
    <2> DEFINE head == Head(j.queue)  rest == Tail(j.queue)
    <2>1. /\ j.pc = "next" /\ j.queue # <<>> /\ UNCHANGED <<orders, writer, faults>>
          /\ k = IF Accepted(head) THEN Stores(j, head)
                 ELSE [j EXCEPT !.queue = Tail(@), !.failed = @ \cup {head.po}]
      BY <1>4, Moved DEF NextOrder, At
    <2>2. j.sync /\ j.queue \in Seq(Sent)
      BY <1>0, <2>1 DEF JobOK
    <2>3. /\ Among(head, j.queue) /\ \A x : Among(x, j.queue) => x = head \/ Among(x, rest)
          /\ \A x : Among(x, rest) => Among(x, j.queue)
      BY <2>1, <2>2, TailAmong
    <2>a. Among(head, j.fetched)
      BY <1>0, <2>2, <2>3 DEF Accounted, Walks
    <2>4. PICK n \in 1..Len(j.fetched) : head = j.fetched[n]
      BY <2>a DEF Among
    <2>5. CASE Accepted(head)
      <3> DEFINE po == head.po  order == head.order
      <3>1. k = [j EXCEPT !.pc = "store", !.queue = rest, !.po = po, !.order = order]
        BY <2>1, <2>5 DEF Stores
      <3> HIDE DEF rest, po, order
      <3>2. /\ k.pc = "store" /\ k.sync = j.sync /\ k.fetched = j.fetched /\ k.queue = rest
            /\ k.po = po /\ k.order = order /\ k.stored = j.stored /\ k.failed = j.failed
        BY <1>0, <3>1 DEF JobOK, JobFields
      <3> HIDE DEF j, k, head
      <3>3. Walks(k)
        <4>1. po = j.fetched[n].po /\ order = j.fetched[n].order
          BY <2>4 DEF po, order
        <4>2. ASSUME NEW m \in 1..Len(j.fetched), Among(j.fetched[m], j.queue)
              PROVE  j.fetched[m].po = po \/ Among(j.fetched[m], rest)
          BY <2>3, <4>2 DEF po
        <4>3. j.pc # "store" /\ Walks(j)
          BY <1>0, <2>1, <2>2 DEF Accounted
        <4>4. \A x : Among(x, rest) => Among(x, j.fetched)
          BY <2>3, <4>3 DEF Walks
        <4> QED
          BY <3>2, <4>1, <4>2, <4>3, <4>4 DEF Walks
      <3>4. Listed(k, faults') /\ AsSent(k, w, orders', writer')
        BY <1>0, <2>1, <2>2, <3>2 DEF Accounted, Listed, AsSent
      <3> QED
        BY <3>3, <3>4 DEF Accounted, k
    <2>6. CASE ~Accepted(head)
      <3> DEFINE po == head.po
      <3>1. k = [j EXCEPT !.queue = rest, !.failed = @ \cup {po}]
        BY <2>1, <2>6
      <3>0. Unusable(j.fetched[n])
        BY <1>a, <2>2, <2>4, <2>6, RefusedIsUnusable
      <3> HIDE DEF rest, po
      <3>2. /\ k.pc = "next" /\ k.sync = j.sync /\ k.fetched = j.fetched /\ k.queue = rest
            /\ k.stored = j.stored /\ k.failed = j.failed \cup {po}
        BY <1>0, <2>1, <3>1 DEF JobOK, JobFields
      <3> HIDE DEF j, k, head
      <3>a. po = j.fetched[n].po
        BY <2>4 DEF po
      <3>3. Walks(k)
        <4>2. ASSUME NEW m \in 1..Len(j.fetched), Among(j.fetched[m], j.queue)
              PROVE  j.fetched[m].po = po \/ Among(j.fetched[m], rest)
          BY <2>3, <4>2 DEF po
        <4>3. j.pc # "store" /\ Walks(j)
          BY <1>0, <2>1, <2>2 DEF Accounted
        <4>4. \A x : Among(x, rest) => Among(x, j.fetched)
          BY <2>3, <4>3 DEF Walks
        <4> QED
          BY <3>2, <4>2, <4>3, <4>4 DEF Walks
      <3>4. Listed(k, faults')
        <4>1. \A m \in 1..Len(j.fetched) : j.fetched[m].po = po => m = n
          BY <1>a, <2>2, <3>a
        <4> QED
          BY <1>0, <2>1, <2>2, <3>0, <3>2, <4>1 DEF Accounted, Listed
      <3>5. AsSent(k, w, orders', writer')
        BY <1>0, <2>1, <2>2, <3>2 DEF Accounted, AsSent
      <3> QED
        BY <3>3, <3>4, <3>5 DEF Accounted, k
    <2> QED
      BY <2>5, <2>6
  <1>5. CASE SyncEnds(w)
    <2>1. /\ j.pc = "next" /\ j.queue = <<>> /\ UNCHANGED <<orders, writer, faults>>
          /\ k = [j EXCEPT !.pc = "report"]
      BY <1>5, Moved DEF SyncEnds, At
    <2>2. /\ k.pc = "report" /\ k.sync = j.sync /\ k.fetched = j.fetched /\ k.queue = j.queue
          /\ k.stored = j.stored /\ k.failed = j.failed
      BY <1>0, <2>1 DEF JobOK, JobFields
    <2> HIDE DEF j, k
    <2>3. j.sync => Walks(k)
      BY <1>0, <2>1, <2>2 DEF Accounted, Walks
    <2>4. j.sync => Listed(k, faults') /\ AsSent(k, w, orders', writer')
      BY <1>0, <2>1, <2>2 DEF Accounted, Listed, AsSent
    <2> QED
      BY <2>2, <2>3, <2>4 DEF Accounted, k
  <1> QED
    BY <1>1, <1>2, <1>3, <1>4, <1>5

\* However many orders an answer holds, whichever of them are refused or throw, and whoever
\* else writes orders meanwhile: each is on file as sent where nobody has written it since,
\* or listed with a reason.
THEOREM OrdersSyncAccounts == Spec => []SyncAccounts
  <1>1. Init => Accounting
    BY DEF Init, Accounting, Accounted, Idle
  <1>2. ASSUME Filed, Accounting, [Next]_ovars PROVE Accounting'
    <2>1. CASE UNCHANGED ovars
      BY <1>2, <2>1 DEF Accounting, ovars
    <2>2. ASSUME NEW w \in Worker, Step(w) PROVE Accounting'
      <3>1. Accounted(job'[w], w, faults', orders', writer')
        BY <1>2, <2>2, AccountedQuiet, AccountedSync DEF Step, Statement
      <3>2. \A v \in Worker : Accounted(job'[v], v, faults', orders', writer')
        BY <1>2, <2>2, <3>1, AccountedOther
      <3> QED
        BY <3>2 DEF Accounting
    <2>3. CASE Next
      BY <2>2, <2>3 DEF Next, Step
    <2> QED
      BY <1>2, <2>1, <2>3
  <1>3. ASSUME Filed, Accounting PROVE SyncAccounts
    <2> SUFFICES ASSUME NEW w \in Worker, At(w, "report"), NEW k \in DOMAIN job[w].fetched
                 PROVE  LET sent == job[w].fetched[k]
                        IN  IF sent.po \in job[w].failed THEN faults > 0 \/ Unusable(sent)
                            ELSE /\ sent.po \in job[w].stored
                                 /\ writer[sent.po] = w => orders[sent.po] = sent.order
      BY DEF SyncAccounts
    <2>1. job[w].sync
      BY <1>3 DEF Filed, JobOK, At
    <2>2. Walks(job[w]) /\ Listed(job[w], faults) /\ AsSent(job[w], w, orders, writer)
      BY <1>3, <2>1 DEF Accounting, Accounted
    <2>3. k \in 1..Len(job[w].fetched)
      BY <2>2, AnswerFacts DEF Walks
    <2>4. ~Among(job[w].fetched[k], job[w].queue)
      BY <2>2 DEF Walks, Among, At
    <2>5. job[w].fetched[k].po \in job[w].stored \cup job[w].failed
      BY <2>2, <2>3, <2>4 DEF Walks, At
    <2> QED
      BY <2>2, <2>3, <2>5 DEF Listed, AsSent
  <1> QED
    BY <1>1, <1>2, <1>3, FiledInit, FiledNext, PTL DEF Spec


-----------------------------------------------------------------------------
(* pairLines: no order line is paired with two lines of a bill.            *)

LEMMA LeastOf == ASSUME NEW S \in SUBSET Nat, S # {} PROVE \E k \in S : \A j \in S : k <= j
  <1> DEFINE R == OpToRel(<, Nat)
  <1>1. IsWellFoundedOn(R, Nat)
    BY NatLessThanWellFounded
  <1>2. \A i, j \in Nat : i < j => <<i, j>> \in R
    BY DEF OpToRel
  <1> HIDE DEF R
  <1>3. PICK k \in S : \A j \in S : ~(<<j, k>> \in R)
    BY <1>1, WFMin
  <1>4. \A j \in S : ~(j < k)
    BY <1>2, <1>3
  <1> QED
    BY <1>3, <1>4

LEMMA LeastIn == ASSUME NEW S \in SUBSET Nat, S # {} PROVE Least(S) \in S
  BY LeastOf DEF Least

\* The step of the first pass, and the recursion of ByDescription.
Claim(bill, order, before, i) ==
  LET free == {j \in Lines(order) : /\ order.lines[j].item = bill.lines[i].item
                                    /\ \A k \in DOMAIN before : before[k] # j}
  IN  Append(before, IF free = {} THEN 0 ELSE Least(free))

Claims(bill, order, n, c) ==
  c = [i \in 0..n |-> IF i = 0 THEN <<>> ELSE Claim(bill, order, c[i - 1], i)]

LEMMA ByDescriptionIs ==
  ASSUME NEW bill, NEW order
  PROVE  LET n == Len(bill.lines)
         IN  ByDescription(bill, order) = (CHOOSE c : Claims(bill, order, n, c))[n]
  BY DEF ByDescription, Claims, Claim

LEMMA ClaimsExist ==
  ASSUME NEW bill, NEW order, NEW n \in Nat PROVE \E c : Claims(bill, order, n, c)
  <1> DEFINE bad == {m \in Nat : ~\E c : Claims(bill, order, m, c)}
  <1>1. SUFFICES bad = {}
    OBVIOUS
  <1>2. SUFFICES ASSUME bad # {} PROVE FALSE
    OBVIOUS
  <1>3. PICK m \in bad : \A j \in bad : m <= j
    <2>1. bad \in SUBSET Nat
      OBVIOUS
    <2> HIDE DEF bad
    <2> QED
      BY <1>2, <2>1, LeastOf
  <1>4. m # 0
    <2>1. Claims(bill, order, 0, [i \in 0..0 |-> <<>>])
      BY DEF Claims
    <2> QED
      BY <2>1
  <1>5. m \in Nat /\ m - 1 \in Nat /\ m - 1 \notin bad
    BY <1>3, <1>4
  <1>6. PICK c : Claims(bill, order, m - 1, c)
    BY <1>5
  <1> DEFINE d == [i \in 0..m |-> IF i = m THEN Claim(bill, order, c[m - 1], m) ELSE c[i]]
  <1>7. \A i \in 0..m : i = m \/ i \in 0..(m - 1)
    BY <1>5
  <1>8. \A i \in 0..(m - 1) : c[i] = IF i = 0 THEN <<>> ELSE Claim(bill, order, c[i - 1], i)
    BY <1>6 DEF Claims
  <1>9. \A i \in 0..m : i # 0 => i - 1 \in 0..m /\ i - 1 # m
    BY <1>5
  <1>10. \A i \in 0..m : d[i] = IF i = 0 THEN <<>> ELSE Claim(bill, order, d[i - 1], i)
    <2> SUFFICES ASSUME NEW i \in 0..m
                 PROVE  d[i] = IF i = 0 THEN <<>> ELSE Claim(bill, order, d[i - 1], i)
      OBVIOUS
    <2>1. CASE i = m
      BY <1>4, <1>9, <2>1
    <2>2. CASE i # m
      BY <1>7, <1>8, <1>9, <2>2
    <2> QED
      BY <2>1, <2>2
  <1>11. DOMAIN d = 0..m /\ d = [i \in 0..m |-> d[i]]
    OBVIOUS
  <1> HIDE DEF d
  <1>12. Claims(bill, order, m, d)
    BY <1>10, <1>11 DEF Claims
  <1> QED
    BY <1>3, <1>12

\* A list of i claims: each of an order line, or of none, and no line twice.
Distinct(order, s, i) ==
  /\ s \in Seq(Nat) /\ Len(s) = i
  /\ \A k \in 1..i : s[k] = 0 \/ s[k] \in Lines(order)
  /\ \A k, m \in 1..i : s[k] = s[m] /\ s[k] # 0 => k = m

LEMMA ClaimKeeps ==
  ASSUME NEW bill, NEW order, IsOrder(order), NEW before, NEW i \in Nat, i # 0,
         Distinct(order, before, i - 1)
  PROVE  Distinct(order, Claim(bill, order, before, i), i)
  <1> DEFINE free == {j \in Lines(order) : /\ order.lines[j].item = bill.lines[i].item
                                           /\ \A k \in DOMAIN before : before[k] # j}
             x == IF free = {} THEN 0 ELSE Least(free)
             s == Claim(bill, order, before, i)
  <1>1. s = Append(before, x)
    BY DEF Claim
  <1>2. x = 0 \/ (x \in Lines(order) /\ \A k \in DOMAIN before : before[k] # x)
    <2>1. free \in SUBSET Nat
      BY DEF IsOrder
    <2>2. CASE free # {}
      <3>1. Least(free) \in free
        <4> HIDE DEF free
        <4> QED
          BY <2>1, <2>2, LeastIn
      <3> QED
        BY <2>2, <3>1
    <2> QED
      BY <2>2
  <1>3. x \in Nat
    BY <1>2 DEF IsOrder
  <1> HIDE DEF free, x, s
  <1>4. before \in Seq(Nat) /\ Len(before) = i - 1 /\ DOMAIN before = 1..(i - 1)
    BY LenProperties DEF Distinct
  <1>5. /\ s \in Seq(Nat) /\ Len(s) = i
        /\ \A k \in 1..(i - 1) : s[k] = before[k]
        /\ s[i] = x
    BY <1>1, <1>3, <1>4, AppendProperties
  <1>6. \A k \in 1..i : k = i \/ (k \in 1..(i - 1) /\ k # i)
    OBVIOUS
  <1>7. \A k \in 1..(i - 1) : before[k] = 0 \/ before[k] # x
    BY <1>2, <1>4
  <1>8. ASSUME NEW k \in 1..i PROVE s[k] = 0 \/ s[k] \in Lines(order)
    <2>1. CASE k = i
      BY <1>2, <1>5, <2>1
    <2>2. CASE k \in 1..(i - 1)
      BY <1>5, <2>2 DEF Distinct
    <2> QED
      BY <1>6, <2>1, <2>2
  <1>9. ASSUME NEW k \in 1..i, NEW m \in 1..i, s[k] = s[m], s[k] # 0 PROVE k = m
    <2>1. CASE k \in 1..(i - 1) /\ m \in 1..(i - 1)
      BY <1>5, <1>9, <2>1 DEF Distinct
    <2>2. CASE k = i /\ m \in 1..(i - 1)
      BY <1>5, <1>7, <1>9, <2>2
    <2>3. CASE m = i /\ k \in 1..(i - 1)
      BY <1>5, <1>7, <1>9, <2>3
    <2> QED
      BY <1>6, <2>1, <2>2, <2>3
  <1> QED
    BY <1>5, <1>8, <1>9 DEF Distinct, s

LEMMA ClaimsDistinct ==
  ASSUME NEW bill, NEW order, IsOrder(order), NEW n \in Nat, NEW c, Claims(bill, order, n, c)
  PROVE  Distinct(order, c[n], n)
  <1> DEFINE bad == {m \in 0..n : ~Distinct(order, c[m], m)}
  <1>1. SUFFICES bad = {}
    BY DEF Distinct
  <1>2. SUFFICES ASSUME bad # {} PROVE FALSE
    OBVIOUS
  <1>3. PICK m \in bad : \A j \in bad : m <= j
    <2>1. bad \in SUBSET Nat
      OBVIOUS
    <2> HIDE DEF bad
    <2> QED
      BY <1>2, <2>1, LeastOf
  <1>4. /\ c[m] = IF m = 0 THEN <<>> ELSE Claim(bill, order, c[m - 1], m)
        /\ m \in Nat
    BY <1>3 DEF Claims
  <1>5. CASE m = 0
    <2>1. Distinct(order, <<>>, 0)
      BY EmptySeq DEF Distinct
    <2> QED
      BY <1>3, <1>4, <1>5, <2>1
  <1>6. CASE m # 0
    <2>1. m - 1 \in 0..n /\ m - 1 < m
      BY <1>3, <1>4, <1>6
    <2>2. Distinct(order, c[m - 1], m - 1)
      BY <1>3, <1>4, <2>1
    <2>3. Distinct(order, c[m], m)
      BY <1>4, <1>6, <2>2, ClaimKeeps
    <2> QED
      BY <1>3, <2>3
  <1> QED
    BY <1>5, <1>6

LEMMA ByDescriptionDistinct ==
  ASSUME NEW bill, NEW order, IsOrder(order), Len(bill.lines) \in Nat
  PROVE  Distinct(order, ByDescription(bill, order), Len(bill.lines))
  <1> DEFINE n == Len(bill.lines)  c == CHOOSE d : Claims(bill, order, n, d)
  <1>1. Claims(bill, order, n, c)
    BY ClaimsExist
  <1>2. ByDescription(bill, order) = c[n]
    BY ByDescriptionIs
  <1> HIDE DEF c
  <1> QED
    BY <1>1, <1>2, ClaimsDistinct

\* Two members of a set of numbers have different numbers of members below them.
LEMMA BelowDiffers ==
  ASSUME NEW S, IsFiniteSet(S), S \subseteq Nat, NEW i \in S, NEW k \in S,
         Below(S, i) = Below(S, k)
  PROVE  i = k
  <1>1. ASSUME NEW a \in S, NEW b \in S, a < b PROVE Below(S, a) # Below(S, b)
    <2> DEFINE A == {x \in S : x < a}  B == {x \in S : x < b}
    <2>0. a \in Nat /\ b \in Nat /\ \A x \in S : x \in Nat
      OBVIOUS
    <2>1. A \subseteq B /\ a \in B /\ a \notin A
      <3>1. ASSUME NEW x \in S, x < a PROVE x < b
        BY <1>1, <2>0, <3>1
      <3>2. a \in B
        BY <1>1
      <3>3. ~(a < a)
        BY <2>0
      <3> QED
        BY <3>1, <3>2, <3>3
    <2>2. IsFiniteSet(B)
      BY FS_Subset
    <2>3. Cardinality(A) # Cardinality(B)
      <3> HIDE DEF A, B
      <3> QED
        BY <2>1, <2>2, FS_Subset
    <2> QED
      BY <2>3 DEF Below
  <1>2. i < k \/ k < i \/ i = k
    OBVIOUS
  <1> QED
    BY <1>1, <1>2

LEMMA PairLinesDistinct ==
  ASSUME NEW bill, NEW order, IsOrder(order), Len(bill.lines) \in Nat
  PROVE  LET pairs == PairLines(bill, order)
             n     == Len(bill.lines)
         IN  /\ DOMAIN pairs = 1..n /\ Len(pairs) = n
             /\ \A k, m \in 1..n : pairs[k] = pairs[m] /\ pairs[k] # 0 => k = m
  <1> DEFINE n == Len(bill.lines)
             first == ByDescription(bill, order)
             left  == {i \in DOMAIN first : first[i] = 0}
             rest  == {j \in Lines(order) : \A i \in DOMAIN first : first[i] # j}
             Same(i) == {j \in rest : Below(rest, j) = Below(left, i)}
             pairs == [i \in DOMAIN first |-> IF first[i] # 0 THEN first[i]
                                              ELSE IF Same(i) = {} THEN 0 ELSE Least(Same(i))]
  <1>1. PairLines(bill, order) = pairs
    BY DEF PairLines
  <1>2. Distinct(order, first, n) /\ DOMAIN first = 1..n
    BY ByDescriptionDistinct, LenProperties DEF Distinct
  <1>3. IsFiniteSet(left) /\ left \subseteq Nat
    <2>1. IsFiniteSet(1..n)
      BY FS_Interval
    <2> QED
      BY <1>2, <2>1, FS_Subset
  <1>4. rest \subseteq Nat
    BY DEF IsOrder
  <1>5. ASSUME NEW i \in 1..n
        PROVE  IF first[i] # 0 THEN pairs[i] = first[i] /\ pairs[i] \notin rest
               ELSE /\ i \in left
                    /\ pairs[i] # 0 => pairs[i] \in rest /\ Below(rest, pairs[i]) = Below(left, i)
    <2>1. CASE first[i] # 0
      BY <1>2, <2>1
    <2>2. CASE first[i] = 0
      <3>1. i \in left /\ pairs[i] = IF Same(i) = {} THEN 0 ELSE Least(Same(i))
        BY <1>2, <2>2
      <3>2. ASSUME Same(i) # {} PROVE Least(Same(i)) \in Same(i)
        <4>1. Same(i) \in SUBSET Nat
          BY <1>4
        <4> HIDE DEF Same
        <4> QED
          BY <3>2, <4>1, LeastIn
      <3> QED
        BY <2>2, <3>1, <3>2
    <2> QED
      BY <2>1, <2>2
  <1>6. ASSUME NEW i \in 1..n PROVE pairs[i] \in Nat
    <2>1. first[i] \in Nat
      BY <1>2, ElementOfSeq DEF Distinct
    <2>2. pairs[i] = first[i] \/ pairs[i] = 0 \/ pairs[i] \in rest
      BY <1>5
    <2>3. \A x \in rest : x \in Nat
      BY <1>4
    <2>4. CASE pairs[i] = first[i]
      BY <2>1, <2>4
    <2>5. CASE pairs[i] = 0
      BY <2>5
    <2>6. CASE pairs[i] \in rest
      BY <2>3, <2>6
    <2> QED
      BY <2>2, <2>4, <2>5, <2>6
  <1>7. DOMAIN pairs = 1..n
    BY <1>2
  <1>8. pairs = [i \in 1..n |-> pairs[i]]
    BY <1>2
  <1> HIDE DEF pairs
  <1>9. Len(pairs) = n
    <2>1. pairs \in [1..n -> Nat]
      BY <1>6, <1>8
    <2>2. pairs \in Seq(Nat)
      BY <2>1, SeqDef
    <2> QED
      BY <1>7, <2>2, LenProperties
  <1>10. ASSUME NEW k \in 1..n, NEW m \in 1..n, pairs[k] = pairs[m], pairs[k] # 0 PROVE k = m
    <2>1. CASE first[k] # 0 /\ first[m] # 0
      BY <1>2, <1>5, <1>10, <2>1 DEF Distinct
    <2>2. CASE first[k] = 0 /\ first[m] = 0
      <3>1. k \in left /\ m \in left /\ Below(left, k) = Below(left, m)
        BY <1>5, <1>10, <2>2
      <3> HIDE DEF left
      <3> QED
        BY <1>3, <3>1, BelowDiffers
    <2>3. CASE first[k] # 0 /\ first[m] = 0
      BY <1>5, <1>10, <2>3
    <2>4. CASE first[k] = 0 /\ first[m] # 0
      BY <1>5, <1>10, <2>4
    <2> QED
      BY <2>1, <2>2, <2>3, <2>4
  <1> QED
    BY <1>1, <1>7, <1>9, <1>10

-----------------------------------------------------------------------------
(* BilledWithinReceipt: what is billed of an order line is the quantity of *)
(* the one line paired with it.                                            *)

\* The recursion of Billed.
Adds(pairs, lines, j, n, s) ==
  s = [k \in 0..n |-> IF k = 0 THEN 0
                      ELSE s[k - 1] + IF pairs[k] = j THEN lines[k].qty ELSE 0]

LEMMA BilledIs ==
  ASSUME NEW i, NEW j
  PROVE  LET pairs == PairLines(Bill[i], inv[i].read)
             n     == Len(pairs)
         IN  Billed(i, j) = (CHOOSE s : Adds(pairs, Bill[i].lines, j, n, s))[n]
  BY DEF Billed, Adds

LEMMA AddsExist ==
  ASSUME NEW pairs, NEW lines, NEW j, NEW n \in Nat PROVE \E s : Adds(pairs, lines, j, n, s)
  <1> DEFINE bad == {m \in Nat : ~\E s : Adds(pairs, lines, j, m, s)}
             Next1(x, k) == x + IF pairs[k] = j THEN lines[k].qty ELSE 0
  <1>1. SUFFICES ASSUME bad # {} PROVE FALSE
    OBVIOUS
  <1>2. PICK m \in bad : \A k \in bad : m <= k
    <2>1. bad \in SUBSET Nat
      OBVIOUS
    <2> HIDE DEF bad
    <2> QED
      BY <1>1, <2>1, LeastOf
  <1>3. m # 0
    <2>1. Adds(pairs, lines, j, 0, [k \in 0..0 |-> 0])
      BY DEF Adds
    <2> QED
      BY <2>1
  <1>4. m \in Nat /\ m - 1 \in Nat /\ m - 1 \notin bad
    BY <1>2, <1>3
  <1>5. PICK s : Adds(pairs, lines, j, m - 1, s)
    BY <1>4
  <1> DEFINE t == [k \in 0..m |-> IF k = m THEN Next1(s[m - 1], m) ELSE s[k]]
  <1>6. \A k \in 0..m : k = m \/ k \in 0..(m - 1)
    BY <1>4
  <1>7. \A k \in 0..(m - 1) : s[k] = IF k = 0 THEN 0 ELSE Next1(s[k - 1], k)
    BY <1>5 DEF Adds
  <1>8. \A k \in 0..m : k # 0 => k - 1 \in 0..m /\ k - 1 # m
    BY <1>4
  <1> HIDE DEF Next1
  <1>9. \A k \in 0..m : t[k] = IF k = 0 THEN 0 ELSE Next1(t[k - 1], k)
    <2> SUFFICES ASSUME NEW k \in 0..m PROVE t[k] = IF k = 0 THEN 0 ELSE Next1(t[k - 1], k)
      OBVIOUS
    <2>1. CASE k = m
      BY <1>3, <1>8, <2>1
    <2>2. CASE k # m
      BY <1>6, <1>7, <1>8, <2>2
    <2> QED
      BY <2>1, <2>2
  <1>10. t = [k \in 0..m |-> t[k]]
    OBVIOUS
  <1> HIDE DEF t
  <1>11. t = [k \in 0..m |-> IF k = 0 THEN 0 ELSE Next1(t[k - 1], k)]
    BY <1>9, <1>10
  <1>12. Adds(pairs, lines, j, m, t)
    BY <1>11 DEF Adds, Next1
  <1> QED
    BY <1>2, <1>12

LEMMA AddsOne ==
  ASSUME NEW pairs, NEW lines, NEW j, NEW n \in Nat, NEW s, Adds(pairs, lines, j, n, s),
         \A k \in 1..n : lines[k].qty \in Int,
         \A k, m \in 1..n : pairs[k] = j /\ pairs[m] = j => k = m
  PROVE  s[n] = 0 \/ \E k \in 1..n : pairs[k] = j /\ s[n] = lines[k].qty
  <1> DEFINE Good(m) == IF \E k \in 1..m : pairs[k] = j
                        THEN \E k \in 1..m : pairs[k] = j /\ s[m] = lines[k].qty
                        ELSE s[m] = 0
             bad == {m \in 0..n : ~Good(m)}
  <1>1. SUFFICES bad = {}
    <2>1. n \in 0..n
      OBVIOUS
    <2> QED
      BY <2>1
  <1>2. SUFFICES ASSUME bad # {} PROVE FALSE
    OBVIOUS
  <1>3. PICK m \in bad : \A k \in bad : m <= k
    <2>1. bad \in SUBSET Nat
      OBVIOUS
    <2> HIDE DEF bad
    <2> QED
      BY <1>2, <2>1, LeastOf
  <1>4. m \in 0..n /\ m \in Nat /\ ~Good(m)
    BY <1>3
  <1>5. s[m] = IF m = 0 THEN 0 ELSE s[m - 1] + IF pairs[m] = j THEN lines[m].qty ELSE 0
    BY <1>4 DEF Adds
  <1>6. CASE m = 0
    BY <1>4, <1>5, <1>6
  <1>7. CASE m # 0
    <2>1. /\ m - 1 \in 0..n /\ m - 1 < m /\ m \in 1..n /\ m \in 1..m
          /\ \A k \in 1..m : k = m \/ k \in 1..(m - 1)
          /\ \A k \in 1..(m - 1) : k \in 1..m /\ k # m /\ k \in 1..n
      BY <1>4, <1>7
    <2>2. Good(m - 1)
      BY <1>3, <1>4, <2>1
    <2>3. CASE pairs[m] = j
      <3>1. ~\E k \in 1..(m - 1) : pairs[k] = j
        BY <2>1, <2>3
      <3>2. s[m - 1] = 0
        BY <2>2, <3>1
      <3>3. s[m] = lines[m].qty
        BY <1>5, <1>7, <2>1, <2>3, <3>2
      <3> QED
        BY <1>4, <2>1, <2>3, <3>3
    <2>4. CASE pairs[m] # j
      <3>1. s[m] = s[m - 1] + 0
        BY <1>5, <1>7, <2>4
      <3>2. CASE \E k \in 1..(m - 1) : pairs[k] = j
        <4>1. PICK k \in 1..(m - 1) : pairs[k] = j /\ s[m - 1] = lines[k].qty
          BY <2>2, <3>2
        <4>2. lines[k].qty \in Int /\ k \in 1..m
          BY <2>1
        <4>3. s[m] = lines[k].qty
          BY <3>1, <4>1, <4>2
        <4> QED
          BY <1>4, <4>1, <4>2, <4>3
      <3>3. CASE ~\E k \in 1..(m - 1) : pairs[k] = j
        <4>1. s[m - 1] = 0
          BY <2>2, <3>3
        <4>2. s[m] = 0
          BY <3>1, <4>1
        <4>3. ~\E k \in 1..m : pairs[k] = j
          BY <2>1, <2>4, <3>3
        <4> QED
          BY <1>4, <4>2, <4>3
      <3> QED
        BY <3>2, <3>3
    <2> QED
      BY <2>3, <2>4
  <1> QED
    BY <1>6, <1>7

\* All that an invoice bills against one order line, one line of it bills.
LEMMA BilledOnce ==
  ASSUME NEW i \in Invoice, IsOrder(inv[i].read), NEW j \in Lines(inv[i].read)
  PROVE  LET pairs == PairLines(Bill[i], inv[i].read)
         IN  \/ Billed(i, j) = 0
             \/ \E k \in DOMAIN pairs : pairs[k] = j /\ Billed(i, j) = Bill[i].lines[k].qty
                                        /\ Bill[i].lines[k].qty \in Int
  <1> DEFINE order == inv[i].read  pairs == PairLines(Bill[i], order)
             n == Len(Bill[i].lines)  s == CHOOSE t : Adds(pairs, Bill[i].lines, j, n, t)
  <1>1. n \in Nat /\ \A k \in 1..n : Bill[i].lines[k].qty \in Int
    BY DataAssumption
  <1>2. /\ DOMAIN pairs = 1..n /\ Len(pairs) = n
        /\ \A k, m \in 1..n : pairs[k] = pairs[m] /\ pairs[k] # 0 => k = m
    BY <1>1, PairLinesDistinct
  <1>3. Billed(i, j) = s[n]
    BY <1>2, BilledIs
  <1>4. j # 0
    BY DEF IsOrder
  <1>5. Adds(pairs, Bill[i].lines, j, n, s)
    BY <1>1, AddsExist
  <1>6. \A k, m \in 1..n : pairs[k] = j /\ pairs[m] = j => k = m
    BY <1>2, <1>4
  <1> HIDE DEF s, pairs, n
  <1>7. s[n] = 0 \/ \E k \in 1..n : pairs[k] = j /\ s[n] = Bill[i].lines[k].qty
    BY <1>1, <1>5, <1>6, AddsOne
  <1> QED
    BY <1>1, <1>2, <1>3, <1>7 DEF pairs

\* A line that is let through bills no more than was received.
LEMMA NotBlocked ==
  ASSUME NEW i \in Invoice, NEW order, ~Blocked(i, order), Tolerances.blockOnOverReceipt,
         NEW k \in DOMAIN PairLines(Bill[i], order), PairLines(Bill[i], order)[k] # 0
  PROVE  LET o == order.lines[PairLines(Bill[i], order)[k]]
         IN  ~(o.no \in DOMAIN order.received /\ Bill[i].lines[k].qty > order.received[o.no])
  <1> DEFINE pairs == PairLines(Bill[i], order)
             lines == LineMatches(Bill[i], order, Tolerances)
  <1>1. Verdict(Bill[i], order, Tolerances) # "BLOCKED"
    BY DEF Blocked
  <1>2. ~\E m \in DOMAIN lines : lines[m] = "OVER_RECEIPT"
    BY <1>1 DEF Verdict
  <1>3. lines[k] = LineStatus(Bill[i].lines[k], order, pairs[k], Tolerances) /\ k \in DOMAIN lines
    BY DEF LineMatches
  <1>4. LineStatus(Bill[i].lines[k], order, pairs[k], Tolerances) # "OVER_RECEIPT"
    BY <1>2, <1>3
  <1> HIDE DEF lines
  <1> QED
    BY <1>4 DEF LineStatus

\* What is out for approval was let through by the order its status was decided from.
Passed == \A i \in Invoice : inv[i].status = "PENDING_APPROVAL" => ~Blocked(i, inv[i].read)

LEMMA PassedNext == ASSUME Filed, Passed, [Next]_ovars PROVE Passed'
  <1>1. ASSUME NEW w \in Worker, RouteInvoice(w) PROVE Passed'
    <2> DEFINE i == job[w].current  order == job[w].read
    <2>1. i \in Invoice
      BY <1>1 DEF RouteInvoice, At, Filed, JobOK
    <2>2. /\ inv'[i].read = order
          /\ inv'[i].status = IF Blocked(i, order) THEN "EXCEPTION" ELSE "PENDING_APPROVAL"
          /\ \A k \in Invoice : k # i => inv'[k] = inv[k]
      BY <1>1, <2>1 DEF RouteInvoice, Filed
    <2> HIDE DEF i, order
    <2>3. inv'[i].status = "PENDING_APPROVAL" => ~Blocked(i, inv'[i].read)
      BY <2>2
    <2> QED
      BY <2>2, <2>3 DEF Passed
  <1>2. ASSUME NEW w \in Worker, NEW i \in Invoice, Ingested(w, i) PROVE Passed'
    <2>1. inv'[i].status = "VALIDATING" /\ \A k \in Invoice : k # i => inv'[k] = inv[k]
      BY <1>2 DEF Ingested, Filed
    <2> QED
      BY <2>1 DEF Passed
  <1>3. CASE inv' = inv
    BY <1>3 DEF Passed
  <1>4. inv' = inv \/ \E w \in Worker : RouteInvoice(w) \/ \E i \in Invoice : Ingested(w, i)
    BY DEF Next, Statement, ovars, ReadOrder, StoreOrder, MergeReceipt, SelectWaiting, Rematch,
           RematchDone, NextOrder, SyncEnds, Report, ValidationFails, RequestFails,
           SyncPurchaseOrders, UpsertRequest, RecordReceipt
  <1> QED
    BY <1>1, <1>2, <1>3, <1>4

\* However the order changes between the reading of it and the next validation: what an
\* invoice out for approval bills of an order line is within what had been received of it.
THEOREM OrdersBilledWithinReceipt ==
  ASSUME Tolerances.blockOnOverReceipt PROVE Spec => []BilledWithinReceipt
  <1>1. Init => Passed
    BY DEF Init, Passed
  <1>2. Filed /\ Passed /\ [Next]_ovars => Filed' /\ Passed'
    BY FiledNext, PassedNext
  <1>3. Filed /\ Passed => BilledWithinReceipt
    <2> SUFFICES ASSUME Filed, Passed, NEW i \in Invoice, inv[i].status = "PENDING_APPROVAL",
                        inv[i].read # NoPo, NEW j \in Lines(inv[i].read),
                        inv[i].read.lines[j].no \in DOMAIN inv[i].read.received
                 PROVE  Billed(i, j) <= inv[i].read.received[inv[i].read.lines[j].no]
      BY DEF BilledWithinReceipt
    <2> DEFINE order == inv[i].read  r == order.received[order.lines[j].no]
               pairs == PairLines(Bill[i], order)
    <2>1. IsOrder(order) /\ GoodOrder(order)
      BY DEF Filed, OnFile, GoodOrder
    <2>2. r \in Nat
      BY <2>1 DEF GoodOrder, Quantities
    <2>3. j # 0
      BY <2>1 DEF IsOrder
    <2>4. ~Blocked(i, order)
      BY DEF Passed
    <2>5. \/ Billed(i, j) = 0
          \/ \E k \in DOMAIN pairs : pairs[k] = j /\ Billed(i, j) = Bill[i].lines[k].qty
                                     /\ Bill[i].lines[k].qty \in Int
      BY <2>1, BilledOnce
    <2>6. ASSUME NEW k \in DOMAIN pairs, pairs[k] = j, Bill[i].lines[k].qty \in Int
          PROVE  Bill[i].lines[k].qty <= r
      <3>1. ~(Bill[i].lines[k].qty > r)
        BY <2>3, <2>4, <2>6, NotBlocked
      <3> QED
        BY <2>2, <2>6, <3>1
    <2> QED
      BY <2>2, <2>5, <2>6
  <1> QED
    BY <1>1, <1>2, <1>3, FiledInit, PTL DEF Spec

-----------------------------------------------------------------------------
(* NetIsOnHand: what the material documents add up to.                     *)

\* A sum over a list of terms.
Sums(term, n, s) == s = [k \in 0..n |-> IF k = 0 THEN 0 ELSE s[k - 1] + term[k]]

LEMMA SumsExist == ASSUME NEW term, NEW n \in Nat PROVE \E s : Sums(term, n, s)
  <1> DEFINE pairs == [k \in 1..n |-> 0]  lines == [k \in 1..n |-> [qty |-> term[k]]]
  <1>1. PICK s : Adds(pairs, lines, 0, n, s)
    BY AddsExist
  <1>2. \A k \in 0..n : k # 0 => pairs[k] = 0 /\ lines[k].qty = term[k]
    OBVIOUS
  <1>3. s = [k \in 0..n |-> IF k = 0 THEN 0
                           ELSE s[k - 1] + IF pairs[k] = 0 THEN lines[k].qty ELSE 0]
    BY <1>1 DEF Adds
  <1> HIDE DEF pairs, lines
  <1>4. s = [k \in 0..n |-> IF k = 0 THEN 0 ELSE s[k - 1] + term[k]]
    BY <1>2, <1>3
  <1> QED
    BY <1>4 DEF Sums

\* The first n terms of g are those of f, but for term k that is larger by d.
Shifted(f, g, n, k, d) == \A i \in 1..n : f[i] \in Int /\ g[i] = f[i] + IF i = k THEN d ELSE 0
Agree(f, g, n)         == \A i \in 1..n : f[i] \in Int /\ g[i] = f[i]

\* Two lists that differ in one term differ in their sums by as much.
LEMMA SumsDiffer ==
  ASSUME NEW f, NEW g, NEW n \in Nat, NEW m \in Nat, n <= m, NEW k \in Nat, NEW d \in Int,
         Shifted(f, g, n, k, d), NEW s, Sums(f, n, s), NEW t, Sums(g, m, t)
  PROVE  /\ s[n] \in Int
         /\ t[n] = s[n] + IF k \in 1..n THEN d ELSE 0
  <1> DEFINE Good(i) == s[i] \in Int /\ t[i] = s[i] + IF k \in 1..i THEN d ELSE 0
             bad == {i \in 0..n : ~Good(i)}
  <1>1. SUFFICES ASSUME bad # {} PROVE FALSE
    OBVIOUS
  <1>2. PICK i \in bad : \A j \in bad : i <= j
    <2>1. bad \in SUBSET Nat
      OBVIOUS
    <2> HIDE DEF bad
    <2> QED
      BY <1>1, <2>1, LeastOf
  <1>3. i \in 0..n /\ i \in 0..m /\ ~Good(i)
    BY <1>2
  <1>4. /\ s[i] = IF i = 0 THEN 0 ELSE s[i - 1] + f[i]
        /\ t[i] = IF i = 0 THEN 0 ELSE t[i - 1] + g[i]
    BY <1>3 DEF Sums
  <1>5. CASE i = 0
    BY <1>3, <1>4, <1>5
  <1>6. CASE i # 0
    <2>1. i - 1 \in 0..n /\ i - 1 < i /\ i \in 1..n
      BY <1>3, <1>6
    <2>2. Good(i - 1)
      BY <1>2, <1>3, <2>1
    <2>3. /\ s[i] = s[i - 1] + f[i] /\ t[i] = t[i - 1] + g[i]
          /\ f[i] \in Int /\ g[i] = f[i] + IF i = k THEN d ELSE 0
      BY <1>4, <1>6, <2>1 DEF Shifted
    <2>4. k \in 1..i <=> k \in 1..(i - 1) \/ i = k
      BY <2>1
    <2>5. ~(k \in 1..(i - 1) /\ i = k)
      BY <2>1
    <2>6. Good(i)
      BY <2>2, <2>3, <2>4, <2>5
    <2> QED
      BY <1>3, <2>6
  <1> QED
    BY <1>5, <1>6

LEMMA SumsEqual ==
  ASSUME NEW f, NEW g, NEW n \in Nat, NEW m \in Nat, n <= m,
         Agree(f, g, n), NEW s, Sums(f, n, s), NEW t, Sums(g, m, t)
  PROVE  s[n] \in Int /\ t[n] = s[n]
  <1>1. PICK k \in Nat, d \in Int : k = 0 /\ d = 0
    OBVIOUS
  <1>2. Shifted(f, g, n, k, d)
    BY <1>1 DEF Shifted, Agree
  <1>3. s[n] \in Int /\ t[n] = s[n] + IF k \in 1..n THEN d ELSE 0
    BY <1>2, SumsDiffer
  <1> QED
    BY <1>1, <1>3

LEMMA SumsLast ==
  ASSUME NEW f, NEW n \in Nat, n # 0, NEW s, Sums(f, n, s)
  PROVE  s[n] = s[n - 1] + f[n]
  BY DEF Sums

LEMMA SumsPrefix ==
  ASSUME NEW f, NEW n \in Nat, NEW m \in Nat, m <= n, NEW s, Sums(f, n, s)
  PROVE  Sums(f, m, [k \in 0..m |-> s[k]])
  <1> DEFINE t == [k \in 0..m |-> s[k]]
  <1>1. \A k \in 0..m : s[k] = IF k = 0 THEN 0 ELSE s[k - 1] + f[k]
    BY DEF Sums
  <1>2. \A k \in 0..m : k # 0 => k - 1 \in 0..m
    OBVIOUS
  <1>3. t = [k \in 0..m |-> IF k = 0 THEN 0 ELSE t[k - 1] + f[k]]
    BY <1>1, <1>2
  <1> QED
    BY <1>3 DEF Sums

\* What a document counts for, of one order line.
Term(docs, n) ==
  [k \in DOMAIN docs |-> IF CountsTowardReceipt(docs[k]) /\ docs[k].line = n
                         THEN Signed(docs[k]) ELSE 0]

StockInv ==
  /\ ledger \in Seq(Document)
  /\ DOMAIN onHand = Line
  /\ \A n \in Line : \A s : Sums(Term(ledger, n), Len(ledger), s) => s[Len(ledger)] = onHand[n]

LEMMA SignedInt == ASSUME NEW d \in Document PROVE Signed(d) \in Int
  <1>1. d.baseQty \in Nat
    BY DEF Document
  <1> QED
    BY <1>1 DEF Signed, MovementSign

LEMMA TermInt ==
  ASSUME NEW docs \in Seq(Document), NEW n
  PROVE  /\ DOMAIN Term(docs, n) = 1..Len(docs)
         /\ \A k \in 1..Len(docs) : Term(docs, n)[k] \in Int
  <1>1. DOMAIN docs = 1..Len(docs) /\ \A k \in 1..Len(docs) : docs[k] \in Document
    BY LenProperties, ElementOfSeq
  <1> QED
    BY <1>1, SignedInt DEF Term

LEMMA StockBook == ASSUME StockInv, Book PROVE StockInv'
  <1> DEFINE L == Len(ledger)
  <1>1. PICK m \in Movement : /\ ledger' = Append(ledger, m)
                              /\ onHand' = [onHand EXCEPT ![m.line] = @ + Signed(m)]
    BY DEF Book
  <1>2. m \in Document /\ ~m.cancelled /\ m.reverses = 0 /\ m.line \in Line /\ m.line # 0
    BY MovementAssumption DEF Document
  <1>3. CountsTowardReceipt(m)
    BY <1>2 DEF CountsTowardReceipt
  <1>4. /\ ledger \in Seq(Document) /\ L \in Nat /\ DOMAIN ledger = 1..L
    BY LenProperties DEF StockInv
  <1>5. /\ ledger' \in Seq(Document) /\ Len(ledger') = L + 1 /\ DOMAIN ledger' = 1..(L + 1)
        /\ \A k \in 1..L : ledger'[k] = ledger[k]
        /\ ledger'[L + 1] = m
    BY <1>1, <1>2, <1>4, AppendProperties
  <1> HIDE DEF L
  <1>6. ASSUME NEW n \in Line, NEW t, Sums(Term(ledger', n), L + 1, t)
        PROVE  t[L + 1] = onHand'[n]
    <2>1. PICK s : Sums(Term(ledger, n), L, s)
      BY <1>4, SumsExist
    <2>2. s[L] = onHand[n]
      BY <2>1 DEF StockInv, L
    <2> DEFINE u == [k \in 0..L |-> t[k]]
    <2>4. Sums(Term(ledger', n), L, u) /\ u[L] = t[L]
      BY <1>4, <1>6, SumsPrefix
    <2>5. Agree(Term(ledger, n), Term(ledger', n), L)
      <3>1. \A k \in 1..L : Term(ledger, n)[k] \in Int
        BY <1>4, TermInt DEF L
      <3>2. \A k \in 1..L : k \in 1..(L + 1)
        BY <1>4
      <3> QED
        BY <1>4, <1>5, <3>1, <3>2 DEF Term, Agree
    <2> HIDE DEF u
    <2>6. s[L] \in Int /\ u[L] = s[L]
      <3>1. L \in Nat /\ L <= L
        BY <1>4
      <3> QED
        BY <2>1, <2>4, <2>5, <3>1, SumsEqual
    <2>7. t[L + 1] = t[L] + Term(ledger', n)[L + 1]
      <3>1. L + 1 \in Nat /\ L + 1 # 0 /\ (L + 1) - 1 = L
        BY <1>4
      <3> QED
        BY <1>6, <3>1, SumsLast
    <2>8. Term(ledger', n)[L + 1] = IF m.line = n THEN Signed(m) ELSE 0
      <3>1. L + 1 \in 1..(L + 1)
        BY <1>4
      <3> QED
        BY <1>3, <1>5, <3>1 DEF Term
    <2>9. onHand'[n] = IF m.line = n THEN onHand[n] + Signed(m) ELSE onHand[n]
      BY <1>1 DEF StockInv
    <2>10. Signed(m) \in Int
      BY <1>2, SignedInt
    <2>11. CASE m.line = n
      BY <2>2, <2>4, <2>6, <2>7, <2>8, <2>9, <2>10, <2>11
    <2>12. CASE m.line # n
      <3>1. Term(ledger', n)[L + 1] = 0 /\ onHand'[n] = onHand[n]
        BY <2>8, <2>9, <2>12
      <3>2. t[L] \in Int /\ t[L] = onHand[n]
        BY <2>2, <2>4, <2>6
      <3> QED
        BY <2>7, <3>1, <3>2
    <2> QED
      BY <2>11, <2>12
  <1>7. DOMAIN onHand' = Line
    BY <1>1 DEF StockInv
  <1> QED
    BY <1>5, <1>6, <1>7 DEF StockInv

LEMMA StockCancel == ASSUME StockInv, CancelDocument PROVE StockInv'
  <1> DEFINE L == Len(ledger)
  <1>1. PICK k \in DOMAIN ledger :
          LET m == ledger[k]
              reversal == [m EXCEPT !.code = IF m.code = "H" THEN "S" ELSE "H", !.reverses = k]
          IN  /\ ~m.cancelled /\ m.reverses = 0
              /\ ledger' = Append([ledger EXCEPT ![k].cancelled = TRUE], reversal)
              /\ onHand' = [onHand EXCEPT ![m.line] = @ - Signed(m)]
    BY DEF CancelDocument
  <1> DEFINE m == ledger[k]
             reversal == [m EXCEPT !.code = IF m.code = "H" THEN "S" ELSE "H", !.reverses = k]
             flagged == [m EXCEPT !.cancelled = TRUE]
             docs == [ledger EXCEPT ![k] = flagged]
  <1>2. /\ ledger \in Seq(Document) /\ L \in Nat /\ DOMAIN ledger = 1..L
        /\ k \in 1..L /\ k \in Nat /\ k # 0
        /\ \A j \in 1..L : ledger[j] \in Document
    BY LenProperties, ElementOfSeq DEF StockInv
  <1>3. m \in Document /\ m.line \in Line /\ m.line # 0 /\ CountsTowardReceipt(m)
    BY <1>1, <1>2, MovementAssumption DEF Document, CountsTowardReceipt
  <1>4. reversal \in Document /\ reversal.reverses # 0
    <2> DEFINE c == IF m.code = "H" THEN "S" ELSE "H"
    <2>1. c \in {"S", "H"}
      OBVIOUS
    <2>3. reversal = [m EXCEPT !.code = c, !.reverses = k]
      OBVIOUS
    <2> HIDE DEF m, c, reversal
    <2>4. /\ m \in [line : Line, qty : Nat, unit : STRING, baseQty : Nat, baseUnit : STRING,
                    code : {"S", "H"}, cancelled : BOOLEAN, reverses : Nat]
          /\ k \in Nat
      BY <1>2, <1>3 DEF Document
    <2>2. /\ reversal \in [line : Line, qty : Nat, unit : STRING, baseQty : Nat, baseUnit : STRING,
                           code : {"S", "H"}, cancelled : BOOLEAN, reverses : Nat]
          /\ reversal.reverses = k /\ reversal.line = m.line /\ reversal.qty = m.qty
          /\ reversal.unit = m.unit /\ reversal.baseQty = m.baseQty
          /\ reversal.baseUnit = m.baseUnit
      BY <2>1, <2>3, <2>4
    <2> QED
      BY <1>2, <1>3, <2>2 DEF Document
  <1>5. flagged \in Document /\ flagged.cancelled
    BY <1>3 DEF Document
  <1>6. docs \in Seq(Document) /\ Len(docs) = L
    BY <1>2, <1>5, ExceptSeq
  <1>7. ledger' = Append(docs, reversal)
    BY <1>1
  <1>8. DOMAIN docs = 1..L /\ docs[k] = flagged /\ \A j \in 1..L : j # k => docs[j] = ledger[j]
    BY <1>2
  <1> HIDE DEF m, reversal, flagged, docs, L
  <1>9. /\ ledger' \in Seq(Document) /\ Len(ledger') = L + 1 /\ DOMAIN ledger' = 1..(L + 1)
        /\ \A j \in 1..L : ledger'[j] = docs[j]
        /\ ledger'[L + 1] = reversal
    BY <1>4, <1>6, <1>7, <1>8, AppendProperties
  <1>10. Signed(m) \in Int
    BY <1>3, SignedInt
  <1>11. ASSUME NEW n \in Line, NEW t, Sums(Term(ledger', n), L + 1, t)
         PROVE  t[L + 1] = onHand'[n]
    <2> DEFINE d == IF m.line = n THEN -Signed(m) ELSE 0
               u == [j \in 0..L |-> t[j]]
    <2>1. PICK s : Sums(Term(ledger, n), L, s)
      BY <1>2, SumsExist
    <2>2. s[L] = onHand[n]
      BY <2>1 DEF StockInv, L
    <2>3. Sums(Term(ledger', n), L, u) /\ u[L] = t[L]
      BY <1>2, <1>11, SumsPrefix
    <2>4. Shifted(Term(ledger, n), Term(ledger', n), L, k, d) /\ d \in Int
      <3>1. \A j \in 1..L : Term(ledger, n)[j] \in Int
        BY <1>2, TermInt DEF L
      <3>2. \A j \in 1..L : j \in 1..(L + 1)
        BY <1>2
      <3>3. ASSUME NEW j \in 1..L, j # k PROVE Term(ledger', n)[j] = Term(ledger, n)[j]
        BY <1>2, <1>8, <1>9, <3>2, <3>3 DEF Term
      <3>4. Term(ledger, n)[k] = IF m.line = n THEN Signed(m) ELSE 0
        BY <1>2, <1>3 DEF Term, m
      <3>5. ledger'[k] = flagged /\ k \in DOMAIN ledger'
        BY <1>2, <1>8, <1>9, <3>2
      <3>6. Term(ledger', n)[k] = 0
        BY <1>5, <3>5 DEF Term, CountsTowardReceipt
      <3>7. d \in Int /\ Term(ledger', n)[k] = Term(ledger, n)[k] + d
        BY <1>10, <3>4, <3>6
      <3> HIDE DEF d
      <3> QED
        BY <3>1, <3>3, <3>7 DEF Shifted
    <2>5. d = IF m.line = n THEN -Signed(m) ELSE 0
      OBVIOUS
    <2> HIDE DEF u, d
    <2>6. L <= L
      BY <1>2
    <2>7. s[L] \in Int /\ u[L] = s[L] + IF k \in 1..L THEN d ELSE 0
      BY <1>2, <2>1, <2>3, <2>4, <2>6, SumsDiffer
    <2>8. t[L + 1] = t[L] + Term(ledger', n)[L + 1]
      <3>1. L + 1 \in Nat /\ L + 1 # 0 /\ (L + 1) - 1 = L
        BY <1>2
      <3> QED
        BY <1>11, <3>1, SumsLast
    <2>9. Term(ledger', n)[L + 1] = 0
      <3>1. L + 1 \in 1..(L + 1)
        BY <1>2
      <3> QED
        BY <1>4, <1>9, <3>1 DEF Term, CountsTowardReceipt
    <2>10. t[L + 1] = onHand[n] + d
      <3>1. u[L] = s[L] + d
        BY <1>2, <2>7
      <3>2. t[L] = onHand[n] + d /\ t[L] \in Int
        BY <2>2, <2>3, <2>4, <2>7, <3>1
      <3> QED
        BY <2>8, <2>9, <3>2
    <2>11. onHand'[n] = IF m.line = n THEN onHand[n] - Signed(m) ELSE onHand[n]
      BY <1>1 DEF StockInv, m
    <2>12. onHand[n] \in Int
      BY <2>2, <2>7
    <2>13. CASE m.line = n
      BY <1>10, <2>5, <2>10, <2>11, <2>12, <2>13
    <2>14. CASE m.line # n
      BY <2>5, <2>10, <2>11, <2>12, <2>14
    <2> QED
      BY <2>13, <2>14
  <1>12. DOMAIN onHand' = Line
    BY <1>1 DEF StockInv, m
  <1> QED
    BY <1>9, <1>11, <1>12 DEF StockInv

LEMMA StockNext == ASSUME StockInv, [LedgerNext]_stock PROVE StockInv'
  <1>1. CASE UNCHANGED stock
    BY <1>1 DEF StockInv, stock, Term
  <1> QED
    BY <1>1, StockBook, StockCancel DEF LedgerNext

LEMMA StockInit == ASSUME LedgerInit PROVE StockInv
  <1>1. ledger = <<>> /\ onHand = [n \in Line |-> 0] /\ Len(ledger) = 0
    BY DEF LedgerInit
  <1>2. ASSUME NEW n \in Line, NEW s, Sums(Term(ledger, n), 0, s) PROVE s[0] = 0
    BY <1>2 DEF Sums
  <1> QED
    BY <1>1, <1>2, EmptySeq DEF StockInv

-----------------------------------------------------------------------------
\* The recursion of FlattenSeq.
Joins(lists, n, f) == f = [i \in 1..n |-> IF i = 1 THEN lists[i] ELSE f[i - 1] \o lists[i]]

LEMMA FlattenIs ==
  ASSUME NEW lists, Len(lists) # 0
  PROVE  LET n == Len(lists) IN FlattenSeq(lists) = (CHOOSE f : Joins(lists, n, f))[n]
  BY DEF FlattenSeq, Joins

LEMMA JoinsExist == ASSUME NEW lists, NEW n \in Nat PROVE \E f : Joins(lists, n, f)
  <1> DEFINE bad == {m \in Nat : ~\E f : Joins(lists, m, f)}
             Joined(x, k) == x \o lists[k]
  <1>1. SUFFICES ASSUME bad # {} PROVE FALSE
    OBVIOUS
  <1>2. PICK m \in bad : \A k \in bad : m <= k
    <2>1. bad \in SUBSET Nat
      OBVIOUS
    <2> HIDE DEF bad
    <2> QED
      BY <1>1, <2>1, LeastOf
  <1>3. m # 0
    <2>1. Joins(lists, 0, [k \in 1..0 |-> 0])
      BY DEF Joins
    <2> QED
      BY <2>1
  <1>4. m \in Nat /\ m - 1 \in Nat /\ m - 1 \notin bad
    BY <1>2, <1>3
  <1>5. PICK f : Joins(lists, m - 1, f)
    BY <1>4
  <1> DEFINE First == lists[1]
             g == [k \in 1..m |-> IF k = m THEN IF m = 1 THEN First ELSE Joined(f[m - 1], m)
                                  ELSE f[k]]
  <1>6. \A k \in 1..m : k = m \/ k \in 1..(m - 1)
    BY <1>4
  <1>7. \A k \in 1..(m - 1) : f[k] = IF k = 1 THEN First ELSE Joined(f[k - 1], k)
    BY <1>5 DEF Joins
  <1>8. \A k \in 1..m : k # 1 => k - 1 \in 1..m /\ k - 1 # m
    BY <1>4
  <1> HIDE DEF Joined, First
  <1>9. \A k \in 1..m : g[k] = IF k = 1 THEN First ELSE Joined(g[k - 1], k)
    <2> SUFFICES ASSUME NEW k \in 1..m
                 PROVE  g[k] = IF k = 1 THEN First ELSE Joined(g[k - 1], k)
      OBVIOUS
    <2>1. CASE k = m
      BY <1>3, <1>8, <2>1
    <2>2. CASE k # m
      BY <1>6, <1>7, <1>8, <2>2
    <2> QED
      BY <2>1, <2>2
  <1>10. g = [k \in 1..m |-> g[k]]
    OBVIOUS
  <1> HIDE DEF g
  <1>11. g = [k \in 1..m |-> IF k = 1 THEN First ELSE Joined(g[k - 1], k)]
    BY <1>9, <1>10
  <1>12. \A k \in 1..m : (IF k = 1 THEN First ELSE Joined(g[k - 1], k))
                         = IF k = 1 THEN lists[k] ELSE g[k - 1] \o lists[k]
    BY DEF Joined, First
  <1>13. Joins(lists, m, g)
    BY <1>11, <1>12 DEF Joins
  <1> QED
    BY <1>2, <1>13

\* FlattenSeq goes through the lists in turn.
LEMMA Flattening ==
  ASSUME NEW lists, NEW n \in Nat, n # 0, Len(lists) = n
  PROVE  \E f : /\ FlattenSeq(lists) = f[n] /\ f[1] = lists[1]
                /\ \A i \in 2..n : f[i] = f[i - 1] \o lists[i]
  <1> DEFINE f == CHOOSE g : Joins(lists, n, g)
  <1>1. Joins(lists, n, f)
    BY JoinsExist
  <1>2. FlattenSeq(lists) = f[n]
    BY FlattenIs
  <1> HIDE DEF f
  <1>3. f[1] = lists[1]
    BY <1>1 DEF Joins
  <1>4. \A i \in 2..n : i \in 1..n /\ i # 1
    OBVIOUS
  <1>5. \A i \in 2..n : f[i] = f[i - 1] \o lists[i]
    BY <1>1, <1>4 DEF Joins
  <1> QED
    BY <1>2, <1>3, <1>5

LEMMA ConcatOne ==
  ASSUME NEW S, NEW s \in Seq(S), NEW x \in S
  PROVE  s \o <<x>> = Append(s, x) /\ s \o <<>> = s
  <1>1. <<x>> \in Seq(S) /\ Len(<<x>>) = 1 /\ <<x>>[1] = x
    OBVIOUS
  <1>2. Append(s, x) = s \o <<x>>
    OBVIOUS
  <1>3. s \o <<>> = s
    BY ConcatEmptySeq
  <1> QED
    BY <1>2, <1>3

\* Lists of one element each flatten to the list of these.
LEMMA FlattenSingles ==
  ASSUME NEW S, NEW s \in Seq(S), NEW lists, Len(lists) = Len(s),
         \A i \in 1..Len(s) : lists[i] = <<s[i]>>, s # <<>>
  PROVE  FlattenSeq(lists) = s
  <1> DEFINE n == Len(s)
  <1>1. n \in Nat /\ n # 0 /\ DOMAIN s = 1..n
    BY EmptySeq, LenProperties
  <1>2. PICK f : /\ FlattenSeq(lists) = f[n] /\ f[1] = lists[1]
                 /\ \A i \in 2..n : f[i] = f[i - 1] \o lists[i]
    BY <1>1, Flattening
  <1> DEFINE Good(i) == f[i] \in Seq(S) /\ Len(f[i]) = i /\ \A k \in 1..i : f[i][k] = s[k]
             bad == {i \in 1..n : ~Good(i)}
  <1>3. bad = {}
    <2>1. SUFFICES ASSUME bad # {} PROVE FALSE
      OBVIOUS
    <2>2. PICK i \in bad : \A k \in bad : i <= k
      <3>1. bad \in SUBSET Nat
        BY <1>1
      <3> HIDE DEF bad
      <3> QED
        BY <2>1, <3>1, LeastOf
    <2>3. i \in 1..n /\ ~Good(i) /\ s[i] \in S
      BY <2>2, <1>1, ElementOfSeq
    <2>4. CASE i = 1
      <3>1. f[1] = <<s[1]>>
        BY <1>1, <1>2
      <3>2. <<s[1]>> \in Seq(S) /\ Len(<<s[1]>>) = 1 /\ <<s[1]>>[1] = s[1]
        BY <2>3, <2>4
      <3>3. \A k \in 1..1 : k = 1
        OBVIOUS
      <3> QED
        BY <2>3, <2>4, <3>1, <3>2, <3>3
    <2>5. CASE i # 1
      <3>1. i \in 2..n /\ i - 1 \in 1..n /\ i - 1 < i /\ ~(i <= i - 1)
        BY <1>1, <2>3, <2>5
      <3>2. Good(i - 1)
        BY <2>2, <3>1
      <3>3. f[i] = Append(f[i - 1], s[i])
        <4>1. f[i] = f[i - 1] \o <<s[i]>>
          BY <1>2, <2>3, <3>1
        <4>2. f[i - 1] \in Seq(S) /\ s[i] \in S
          BY <2>3, <3>2
        <4>3. f[i - 1] \o <<s[i]>> = Append(f[i - 1], s[i])
          BY <4>2, ConcatOne
        <4> QED
          BY <4>1, <4>3
      <3>4. /\ f[i] \in Seq(S) /\ Len(f[i]) = (i - 1) + 1 /\ f[i][(i - 1) + 1] = s[i]
            /\ \A k \in 1..(i - 1) : f[i][k] = f[i - 1][k]
        BY <2>3, <3>2, <3>3, AppendProperties
      <3>5. (i - 1) + 1 = i /\ \A k \in 1..i : k = i \/ k \in 1..(i - 1)
        BY <2>3
      <3> QED
        BY <2>3, <3>2, <3>4, <3>5
    <2> QED
      BY <2>4, <2>5
  <1>4. Good(n)
    BY <1>1, <1>3
  <1> QED
    BY <1>1, <1>2, <1>4, SeqEqual

\* What S/4HANA answers with is the ledger, in either shape.
LEMMA LedgerRead ==
  ASSUME StockInv, NEW expanded \in BOOLEAN
  PROVE  MaterialDocumentItems(MaterialDocuments(expanded)) = ledger
  <1> DEFINE body == MaterialDocuments(expanded)  rows == OdataCollection(body)
             lists == [i \in DOMAIN rows |-> ItemsOf(rows[i])]  n == Len(ledger)
  <1>1. ledger \in Seq(Document) /\ n \in Nat /\ DOMAIN ledger = 1..n
    BY LenProperties DEF StockInv
  <1>2. /\ DOMAIN rows = 1..n
        /\ \A i \in 1..n : rows[i] = IF expanded
              THEN [items |-> [shape |-> "results", rows |-> <<ledger[i]>>]] ELSE ledger[i]
    <2>1. CASE expanded
      BY <1>1, <2>1 DEF MaterialDocuments, OdataCollection
    <2>2. CASE ~expanded
      BY <1>1, <2>2 DEF MaterialDocuments, OdataCollection
    <2> QED
      BY <2>1, <2>2
  <1> HIDE DEF rows
  <1>3. ASSUME NEW i \in 1..n PROVE lists[i] = <<ledger[i]>>
    <2>1. ledger[i] \in Document
      BY <1>1, ElementOfSeq
    <2>2. "items" \notin DOMAIN ledger[i] /\ "line" \in DOMAIN ledger[i]
      BY <2>1 DEF Document
    <2>3. lists[i] = ItemsOf(rows[i])
      BY <1>2
    <2>4. <<ledger[i]>> # <<>>
      OBVIOUS
    <2>5. CASE expanded
      <3> DEFINE row == rows[i]
      <3>1. row = [items |-> [shape |-> "results", rows |-> <<ledger[i]>>]]
        BY <1>2, <2>5
      <3>2. "items" \in DOMAIN row /\ row.items = [shape |-> "results", rows |-> <<ledger[i]>>]
        BY <3>1
      <3> HIDE DEF row
      <3>3. OdataCollection(row.items) = <<ledger[i]>>
        BY <3>2 DEF OdataCollection
      <3>4. ItemsOf(row) = <<ledger[i]>>
        BY <2>4, <3>2, <3>3 DEF ItemsOf
      <3> QED
        BY <2>3, <3>4 DEF row
    <2>6. CASE ~expanded
      <3>1. rows[i] = ledger[i]
        BY <1>2, <2>6
      <3>2. ItemsOf(ledger[i]) = <<ledger[i]>>
        BY <2>2 DEF ItemsOf
      <3> QED
        BY <2>3, <3>1, <3>2
    <2> QED
      BY <2>5, <2>6
  <1>4. Len(lists) = n /\ DOMAIN lists = 1..n
    BY <1>1, <1>2
  <1>5. MaterialDocumentItems(body) = FlattenSeq(lists)
    BY DEF MaterialDocumentItems, rows
  <1>6. CASE ledger # <<>>
    <2> HIDE DEF lists, body
    <2>1. FlattenSeq(lists) = ledger
      BY <1>1, <1>3, <1>4, <1>6, FlattenSingles
    <2> QED
      BY <1>5, <2>1 DEF body
  <1>7. CASE ledger = <<>>
    <2>1. n = 0 /\ lists = <<>>
      BY <1>1, <1>4, <1>7, EmptySeq
    <2>2. FlattenSeq(lists) = lists
      BY <1>4, <2>1 DEF FlattenSeq
    <2> QED
      BY <1>5, <1>7, <2>1, <2>2
  <1> QED
    BY <1>6, <1>7

LEMMA NullIsNone == \A x \in Nat : x # Null
  BY DEF Null

\* What a document of the ledger brings or takes, in the unit of its order line.
LEMMA CountedDocument ==
  ASSUME NEW d \in Document, Unit[d.line] # ""
  PROVE  /\ ~UnitMismatch(d, Unit[d.line])
         /\ MovementSign(d) * QuantityInPoUnit(d, Unit[d.line]) = Signed(d)
  <1>1. /\ d.qty \in Nat /\ d.baseQty \in Nat /\ d.baseUnit = Unit[d.line]
        /\ d.unit = d.baseUnit => d.qty = d.baseQty
    BY DEF Document
  <1>2. QuantityInPoUnit(d, Unit[d.line]) = d.baseQty
    BY <1>1 DEF QuantityInPoUnit
  <1>3. d.baseQty # Null
    BY <1>1, NullIsNone
  <1> QED
    BY <1>2, <1>3 DEF UnitMismatch, Signed

LEMMA NetIsSum ==
  ASSUME StockInv, NEW expanded \in BOOLEAN, NEW n \in Line
  PROVE  NetReceived(MaterialDocuments(expanded), n, Unit[n]) = onHand[n]
  <1> DEFINE L == Len(ledger)
             Booked(m) == IF CountsTowardReceipt(m) /\ m.line = n /\ ~UnitMismatch(m, Unit[n])
                          THEN MovementSign(m) * QuantityInPoUnit(m, Unit[n]) ELSE 0
             Net(docs, s) == s = [i \in 0..Len(docs) |-> IF i = 0 THEN 0 ELSE s[i - 1] + Booked(docs[i])]
             Sum(s) == Net(ledger, s)
  <1>1. ledger \in Seq(Document) /\ L \in Nat /\ DOMAIN ledger = 1..L
    BY LenProperties DEF StockInv
  <1>2. ASSUME NEW i \in 1..L PROVE Term(ledger, n)[i] = Booked(ledger[i])
    <2> DEFINE m == ledger[i]
    <2>1. m \in Document /\ m.line \in Line /\ Unit[m.line] # ""
      <3>1. m \in Document
        BY <1>1, ElementOfSeq
      <3> QED
        BY <3>1, MovementAssumption DEF Document
    <2>2. ~UnitMismatch(m, Unit[m.line]) /\ MovementSign(m) * QuantityInPoUnit(m, Unit[m.line]) = Signed(m)
      BY <2>1, CountedDocument
    <2>3. Term(ledger, n)[i] = IF CountsTowardReceipt(m) /\ m.line = n THEN Signed(m) ELSE 0
      BY <1>1 DEF Term
    <2> HIDE DEF m
    <2>4. Booked(m) = IF CountsTowardReceipt(m) /\ m.line = n THEN Signed(m) ELSE 0
      BY <2>2
    <2> QED
      BY <2>3, <2>4 DEF m
  <1>3. NetReceived(MaterialDocuments(expanded), n, Unit[n]) = (CHOOSE s : Sum(s))[L]
    <2> DEFINE docs == MaterialDocumentItems(MaterialDocuments(expanded))
    <2>1. NetReceived(MaterialDocuments(expanded), n, Unit[n]) = (CHOOSE s : Net(docs, s))[Len(docs)]
      BY DEF NetReceived
    <2>2. docs = ledger
      BY LedgerRead
    <2> HIDE DEF docs, Net
    <2> QED
      BY <2>1, <2>2
  <1>4. PICK t : Sums(Term(ledger, n), L, t)
    BY <1>1, SumsExist
  <1> HIDE DEF Booked
  <1>5. ASSUME NEW s PROVE Sum(s) <=> Sums(Term(ledger, n), L, s)
    <2>1. \A i \in 0..L : i # 0 => i \in 1..L
      BY <1>1
    <2>2. \A i \in 0..L : (IF i = 0 THEN 0 ELSE s[i - 1] + Booked(ledger[i]))
                         = IF i = 0 THEN 0 ELSE s[i - 1] + Term(ledger, n)[i]
      BY <1>2, <2>1
    <2>3. [i \in 0..L |-> IF i = 0 THEN 0 ELSE s[i - 1] + Booked(ledger[i])]
            = [i \in 0..L |-> IF i = 0 THEN 0 ELSE s[i - 1] + Term(ledger, n)[i]]
      BY <2>2
    <2> QED
      BY <2>3 DEF Sums
  <1>6. Sum(CHOOSE s : Sum(s))
    BY <1>4, <1>5
  <1> HIDE DEF Sum, L
  <1>7. Sums(Term(ledger, n), L, CHOOSE s : Sum(s))
    BY <1>5, <1>6
  <1> QED
    BY <1>3, <1>7 DEF StockInv, L

-----------------------------------------------------------------------------
\* The receipts handed on, one by one.
Receipt == [line : Line, qty : Int]

SumOfTerm(receipts, n) == [k \in DOMAIN receipts |-> IF receipts[k].line = n THEN receipts[k].qty ELSE 0]

LEMMA SumOfTermInt ==
  ASSUME NEW r \in Seq(Receipt), NEW n
  PROVE  /\ Len(r) \in Nat /\ DOMAIN r = 1..Len(r)
         /\ \A k \in 1..Len(r) : SumOfTerm(r, n)[k] \in Int
  <1>1. Len(r) \in Nat /\ DOMAIN r = 1..Len(r) /\ \A k \in 1..Len(r) : r[k] \in Receipt
    BY LenProperties, ElementOfSeq
  <1>2. \A x \in Receipt : x.qty \in Int
    BY DEF Receipt
  <1> QED
    BY <1>1, <1>2 DEF SumOfTerm

LEMMA SumOfIs ==
  ASSUME NEW r \in Seq(Receipt), NEW n
  PROVE  \E s : Sums(SumOfTerm(r, n), Len(r), s) /\ SumOf(r, n) = s[Len(r)]
  <1> DEFINE L == Len(r)
             Added(k) == IF r[k].line = n THEN r[k].qty ELSE 0
             Sum(s) == s = [k \in 0..L |-> IF k = 0 THEN 0 ELSE s[k - 1] + Added(k)]
  <1>1. L \in Nat /\ DOMAIN r = 1..L
    BY LenProperties
  <1>2. \A k \in 1..L : SumOfTerm(r, n)[k] = Added(k)
    BY <1>1 DEF SumOfTerm
  <1>3. SumOf(r, n) = (CHOOSE s : Sum(s))[L]
    BY DEF SumOf
  <1>4. PICK t : Sums(SumOfTerm(r, n), L, t)
    BY <1>1, SumsExist
  <1> HIDE DEF Added
  <1>5. ASSUME NEW s PROVE Sum(s) <=> Sums(SumOfTerm(r, n), L, s)
    <2>1. \A k \in 0..L : k # 0 => k \in 1..L
      BY <1>1
    <2>2. \A k \in 0..L : (IF k = 0 THEN 0 ELSE s[k - 1] + Added(k))
                         = IF k = 0 THEN 0 ELSE s[k - 1] + SumOfTerm(r, n)[k]
      BY <1>2, <2>1
    <2>3. [k \in 0..L |-> IF k = 0 THEN 0 ELSE s[k - 1] + Added(k)]
            = [k \in 0..L |-> IF k = 0 THEN 0 ELSE s[k - 1] + SumOfTerm(r, n)[k]]
      BY <2>2
    <2> QED
      BY <2>3 DEF Sums
  <1>6. Sum(CHOOSE s : Sum(s))
    BY <1>4, <1>5
  <1> HIDE DEF Sum, L
  <1>7. Sums(SumOfTerm(r, n), L, CHOOSE s : Sum(s))
    BY <1>5, <1>6
  <1> QED
    BY <1>3, <1>7 DEF L

LEMMA SumOfEmpty == ASSUME NEW n PROVE SumOf(<<>>, n) = 0
  <1>1. <<>> \in Seq(Receipt) /\ Len(<<>>) = 0
    OBVIOUS
  <1>2. PICK s : Sums(SumOfTerm(<<>>, n), 0, s) /\ SumOf(<<>>, n) = s[0]
    BY <1>1, SumOfIs
  <1> QED
    BY <1>2 DEF Sums

LEMMA SumOfAppend ==
  ASSUME NEW r \in Seq(Receipt), NEW x \in Receipt, NEW n
  PROVE  /\ SumOf(r, n) \in Int
         /\ SumOf(Append(r, x), n) = SumOf(r, n) + IF x.line = n THEN x.qty ELSE 0
  <1> DEFINE L == Len(r)  q == Append(r, x)
  <1>1. L \in Nat /\ DOMAIN r = 1..L /\ \A k \in 1..L : SumOfTerm(r, n)[k] \in Int
    BY SumOfTermInt
  <1>2. /\ q \in Seq(Receipt) /\ Len(q) = L + 1 /\ DOMAIN q = 1..(L + 1)
        /\ \A k \in 1..L : q[k] = r[k]
        /\ q[L + 1] = x
    BY AppendProperties
  <1>3. PICK s : Sums(SumOfTerm(r, n), L, s) /\ SumOf(r, n) = s[L]
    BY SumOfIs
  <1> HIDE DEF L, q
  <1>4. PICK t : Sums(SumOfTerm(q, n), L + 1, t) /\ SumOf(q, n) = t[L + 1]
    BY <1>2, SumOfIs
  <1> DEFINE u == [k \in 0..L |-> t[k]]
  <1>5. L + 1 \in Nat /\ L + 1 # 0 /\ (L + 1) - 1 = L /\ L <= L + 1 /\ L <= L
    BY <1>1
  <1>6. Sums(SumOfTerm(q, n), L, u) /\ u[L] = t[L]
    BY <1>1, <1>4, <1>5, SumsPrefix
  <1>7. Agree(SumOfTerm(r, n), SumOfTerm(q, n), L)
    <2>1. \A k \in 1..L : k \in 1..(L + 1)
      BY <1>1
    <2> QED
      BY <1>1, <1>2, <2>1 DEF SumOfTerm, Agree
  <1> HIDE DEF u
  <1>8. s[L] \in Int /\ u[L] = s[L]
    BY <1>1, <1>3, <1>5, <1>6, <1>7, SumsEqual
  <1>9. t[L + 1] = t[L] + SumOfTerm(q, n)[L + 1]
    BY <1>4, <1>5, SumsLast
  <1>10. SumOfTerm(q, n)[L + 1] = IF x.line = n THEN x.qty ELSE 0
    <2>1. L + 1 \in 1..(L + 1)
      BY <1>1
    <2> QED
      BY <1>2, <2>1 DEF SumOfTerm
  <1> QED
    BY <1>3, <1>4, <1>6, <1>8, <1>9, <1>10 DEF q

LEMMA ReceiptsAreSum ==
  ASSUME StockInv, NEW expanded \in BOOLEAN, NEW n \in Line
  PROVE  SumOf(MapGoodsReceipts(MaterialDocuments(expanded), Unit), n) = onHand[n]
  <1> DEFINE L == Len(ledger)  term == Term(ledger, n)
             lists == [i \in DOMAIN ledger |-> ReceiptsOf(ledger[i], Unit)]
             x(i) == [line |-> ledger[i].line, qty |-> Signed(ledger[i])]
  <1>1. ledger \in Seq(Document) /\ L \in Nat /\ DOMAIN ledger = 1..L
    BY LenProperties DEF StockInv
  <1>2. MapGoodsReceipts(MaterialDocuments(expanded), Unit) = FlattenSeq(lists)
    <2> DEFINE docs == MaterialDocumentItems(MaterialDocuments(expanded))
    <2>1. MapGoodsReceipts(MaterialDocuments(expanded), Unit)
            = FlattenSeq([i \in DOMAIN docs |-> ReceiptsOf(docs[i], Unit)])
      BY DEF MapGoodsReceipts
    <2>2. docs = ledger
      BY LedgerRead
    <2> HIDE DEF docs
    <2> QED
      BY <2>1, <2>2
  <1>3. Len(lists) = L /\ DOMAIN lists = 1..L
    BY <1>1
  \* One receipt for a document that counts, none for another.
  <1>4. ASSUME NEW i \in 1..L
        PROVE  IF CountsTowardReceipt(ledger[i])
               THEN /\ lists[i] = <<x(i)>> /\ x(i) \in Receipt
                    /\ term[i] = IF x(i).line = n THEN x(i).qty ELSE 0
               ELSE lists[i] = <<>> /\ term[i] = 0
    <2> DEFINE m == ledger[i]
    <2>1. m \in Document
      BY <1>1, ElementOfSeq
    <2>2. m.line \in Line /\ Unit[m.line] # ""
      BY <2>1, MovementAssumption DEF Document
    <2>3. /\ ~UnitMismatch(m, Unit[m.line])
          /\ MovementSign(m) * QuantityInPoUnit(m, Unit[m.line]) = Signed(m)
      BY <2>1, <2>2, CountedDocument
    <2>4. Signed(m) \in Int
      BY <2>1, SignedInt
    <2>5. term[i] = IF CountsTowardReceipt(m) /\ m.line = n THEN Signed(m) ELSE 0
      BY <1>1 DEF Term
    <2>6. lists[i] = ReceiptsOf(m, Unit)
      BY <1>1
    <2>7. ReceiptsOf(m, Unit) = IF CountsTowardReceipt(m) THEN <<x(i)>> ELSE <<>>
      <3> HIDE DEF m
      <3>1. ReceiptsOf(m, Unit) = IF CountsTowardReceipt(m)
                                  THEN <<[line |-> m.line, qty |-> Signed(m)]>> ELSE <<>>
        BY <2>3 DEF ReceiptsOf
      <3> QED
        BY <3>1 DEF m
    <2>8. x(i) \in Receipt /\ x(i).line = m.line /\ x(i).qty = Signed(m)
      BY <2>2, <2>4 DEF Receipt
    <2> HIDE DEF m, x, term, lists
    <2>9. CASE CountsTowardReceipt(m)
      BY <2>5, <2>6, <2>7, <2>8, <2>9 DEF m
    <2>10. CASE ~CountsTowardReceipt(m)
      BY <2>5, <2>6, <2>7, <2>10 DEF m
    <2> QED
      BY <2>9, <2>10
  <1>5. PICK s : Sums(term, L, s)
    BY <1>1, SumsExist
  <1>6. s[0] = 0 /\ \A i \in 1..L : s[i] = s[i - 1] + term[i]
    BY <1>1, <1>5 DEF Sums
  <1>7. s[L] = onHand[n]
    BY <1>5 DEF StockInv
  <1>8. CASE L = 0
    <2>1. lists = <<>> /\ FlattenSeq(lists) = lists
      BY <1>1, <1>3, <1>8, EmptySeq DEF FlattenSeq
    <2> QED
      BY <1>2, <1>6, <1>7, <1>8, <2>1, SumOfEmpty
  <1>9. CASE L # 0
    <2>1. PICK f : /\ FlattenSeq(lists) = f[L] /\ f[1] = lists[1]
                   /\ \A i \in 2..L : f[i] = f[i - 1] \o lists[i]
      BY <1>1, <1>3, <1>9, Flattening
    <2> HIDE DEF x, term, lists, L
    <2>2. ASSUME NEW r \in Seq(Receipt), NEW i \in 1..L, SumOf(r, n) = s[i - 1]
          PROVE  r \o lists[i] \in Seq(Receipt) /\ SumOf(r \o lists[i], n) = s[i]
      <3>1. s[i] = s[i - 1] + term[i]
        BY <1>6
      <3>2. CASE CountsTowardReceipt(ledger[i])
        <4>1. /\ lists[i] = <<x(i)>> /\ x(i) \in Receipt
              /\ term[i] = IF x(i).line = n THEN x(i).qty ELSE 0
          BY <1>4, <3>2
        <4>2. r \o lists[i] = Append(r, x(i)) /\ Append(r, x(i)) \in Seq(Receipt)
          BY <4>1, ConcatOne, AppendProperties
        <4>3. SumOf(Append(r, x(i)), n) = SumOf(r, n) + IF x(i).line = n THEN x(i).qty ELSE 0
          BY <4>1, SumOfAppend
        <4> QED
          BY <2>2, <3>1, <4>1, <4>2, <4>3
      <3>3. CASE ~CountsTowardReceipt(ledger[i])
        <4>1. lists[i] = <<>> /\ term[i] = 0
          BY <1>4, <3>3
        <4>2. r \o lists[i] = r
          BY <4>1, ConcatEmptySeq
        <4>3. SumOf(r, n) \in Int
          <5>1. PICK t : Sums(SumOfTerm(r, n), Len(r), t) /\ SumOf(r, n) = t[Len(r)]
            BY SumOfIs
          <5>2. Len(r) \in Nat /\ Len(r) <= Len(r)
            BY LenProperties
          <5>3. Agree(SumOfTerm(r, n), SumOfTerm(r, n), Len(r))
            BY SumOfTermInt DEF Agree
          <5> QED
            BY <5>1, <5>2, <5>3, SumsEqual
        <4> QED
          BY <2>2, <3>1, <4>1, <4>2, <4>3
      <3> QED
        BY <3>2, <3>3
    <2> DEFINE Good(i) == f[i] \in Seq(Receipt) /\ SumOf(f[i], n) = s[i]
               bad == {i \in 1..L : ~Good(i)}
    <2>3. bad = {}
      <3>1. SUFFICES ASSUME bad # {} PROVE FALSE
        OBVIOUS
      <3>2. PICK i \in bad : \A k \in bad : i <= k
        <4>1. bad \in SUBSET Nat
          BY <1>1
        <4> HIDE DEF bad
        <4> QED
          BY <3>1, <4>1, LeastOf
      <3>3. i \in 1..L /\ ~Good(i)
        BY <3>2
      <3>4. CASE i = 1
        <4>1. <<>> \in Seq(Receipt) /\ SumOf(<<>>, n) = s[1 - 1]
          BY <1>6, SumOfEmpty
        <4>2. <<>> \o lists[1] \in Seq(Receipt) /\ SumOf(<<>> \o lists[1], n) = s[1]
          BY <2>2, <3>3, <3>4, <4>1
        <4>3. <<>> \o lists[1] = f[1]
          <5>1. CASE CountsTowardReceipt(ledger[1])
            BY <1>4, <2>1, <3>3, <3>4, <5>1, ConcatEmptySeq
          <5>2. CASE ~CountsTowardReceipt(ledger[1])
            BY <1>4, <2>1, <3>3, <3>4, <5>2
          <5> QED
            BY <5>1, <5>2
        <4> QED
          BY <3>3, <3>4, <4>2, <4>3
      <3>5. CASE i # 1
        <4>1. i \in 2..L /\ i - 1 \in 1..L /\ i - 1 < i /\ ~(i <= i - 1)
          BY <1>1, <3>3, <3>5
        <4>2. Good(i - 1)
          BY <3>2, <4>1
        <4>3. Good(i)
          BY <2>1, <2>2, <3>3, <4>1, <4>2
        <4> QED
          BY <3>3, <4>3
      <3> QED
        BY <3>4, <3>5
    <2>4. Good(L)
      BY <1>1, <1>9, <2>3
    <2> QED
      BY <1>2, <1>7, <2>1, <2>4
  <1> QED
    BY <1>8, <1>9

\* However goods come, go back and are cancelled, the net of the material documents is
\* what lies in the store, and so is the sum of the receipts handed on one by one, for
\* any movements, lines and number of documents.
THEOREM LedgerNetIsOnHand == LedgerSpec => []NetIsOnHand
  <1>1. StockInv => NetIsOnHand
    BY NetIsSum, ReceiptsAreSum DEF NetIsOnHand
  <1>2. LedgerInit => StockInv
    BY StockInit
  <1>3. StockInv /\ [LedgerNext]_stock => StockInv'
    BY StockNext
  <1> QED
    BY <1>1, <1>2, <1>3, PTL DEF LedgerSpec
=============================================================================
