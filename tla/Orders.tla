------------------------------- MODULE Orders -------------------------------
(***************************************************************************)
(* Purchase orders and the invoices that wait for them:                    *)
(* purchase-orders.service.ts, the order sync of erp-connections.service   *)
(* and the PO match of invoices.service.ts.                                *)
(*                                                                         *)
(* Requests run side by side, each on a worker: an invoice that comes in,  *)
(* an upsert, a receipt, a sync run.  job[w].pc is the statement worker w  *)
(* executes next, the rest of the record its locals.  A validation reads   *)
(* the order in one statement and acts on it in a later one; a receipt is  *)
(* merged with the receipts read before and written by number alone.       *)
(***************************************************************************)
EXTENDS S4Documents

CONSTANTS
  Worker,     \* requests served at the same time
  Invoice,    \* invoices that cite an order
  Bill,       \* Bill[i]: lines, net total and currency
  Cites,      \* Cites[i]: the PO number on it
  PoNumber,
  NoPo, NoInvoice, NoWorker,
  Payload,    \* orders an administrator may send
  Delivered,  \* quantities by order line a receipt may report
  Feed,       \* answers of S/4HANA to a sync
  Tolerances,
  MaxOps,     \* bound on upserts, receipts and syncs
  MaxFaults   \* bound on exceptions

ASSUME OrdersAssumption ==
  /\ Cites \in [Invoice -> PoNumber] /\ NoPo \notin Payload /\ NoPo \notin PoNumber
  /\ NoInvoice \notin Invoice /\ NoWorker \notin Worker
  /\ MaxOps \in Nat /\ MaxFaults \in Nat

VARIABLES orders,   \* the table purchase_orders, unique by number
          inv,      \* status of the invoices, and the order it was decided from
          job,      \* job[w]: the request worker w is at
          writer,   \* who wrote each order last
          missed,   \* invoices whose last validation was overtaken or failed
          ops, faults

ovars == <<orders, inv, job, writer, missed, ops, faults>>

Idle == [pc |-> "idle", po |-> NoPo, order |-> NoPo, received |-> <<>>, waiting |-> {},
         current |-> NoInvoice, read |-> NoPo, queue |-> <<>>, sync |-> FALSE,
         fetched |-> <<>>, stored |-> {}, failed |-> {}]
At(w, l)    == job[w].pc = l
Becomes(w, j) == job' = [job EXCEPT ![w] = j]
Begin(w)    == At(w, "idle") /\ ops < MaxOps /\ ops' = ops + 1
Fault       == faults < MaxFaults /\ faults' = faults + 1

\* Of a request on an order: a sync goes on with the next, the others are over.
Continued(j) == IF j.sync THEN [j EXCEPT !.pc = "next"] ELSE Idle
\* Of a validation: a re-match goes on with the next invoice, an ingest is over.
Validated(j) == IF j.po = NoPo THEN Idle
                ELSE [j EXCEPT !.pc = "rematch", !.current = NoInvoice, !.read = NoPo]

-----------------------------------------------------------------------------
(* The match of an invoice: runValidation after the duplicate search.      *)

Blocked(i, order) == order = NoPo \/ Verdict(Bill[i], order, Tolerances) = "BLOCKED"

Ingested(w, i) ==
  /\ At(w, "idle") /\ inv[i].status = "none"
  /\ inv' = [inv EXCEPT ![i].status = "VALIDATING"]
  /\ Becomes(w, [Idle EXCEPT !.pc = "read", !.current = i])
  /\ UNCHANGED <<orders, writer, missed, ops, faults>>

ReadOrder(w) ==
  /\ At(w, "read")
  /\ Becomes(w, [job[w] EXCEPT !.pc = "route", !.read = orders[Cites[job[w].current]]])
  /\ UNCHANGED <<orders, inv, writer, missed, ops, faults>>

\* Parked with an exception, or out for approval, by the order as it was read.
RouteInvoice(w) ==
  /\ At(w, "route")
  /\ LET i == job[w].current
         order == job[w].read
     IN  /\ inv' = [inv EXCEPT ![i] =
              [status |-> IF Blocked(i, order) THEN "EXCEPTION" ELSE "PENDING_APPROVAL",
               read |-> order]]
         /\ missed' = IF orders[Cites[i]] = order THEN missed \ {i} ELSE missed \cup {i}
  /\ Becomes(w, Validated(job[w]))
  /\ UNCHANGED <<orders, writer, ops, faults>>

\* In a re-match one invoice that cannot be validated is logged, the others follow.
ValidationFails(w) ==
  /\ job[w].pc \in {"read", "route"} /\ Fault
  /\ missed' = missed \cup {job[w].current}
  /\ Becomes(w, Validated(job[w]))
  /\ UNCHANGED <<orders, inv, writer, ops>>

-----------------------------------------------------------------------------
(* upsert and recordReceipt.                                               *)

UpsertRequest(w, p) ==
  /\ Begin(w)
  /\ \E order \in Payload :
       /\ ValidPo(order)
       /\ Becomes(w, [Idle EXCEPT !.pc = "store", !.po = p, !.order = order])
  /\ UNCHANGED <<orders, inv, writer, missed, faults>>

\* A delivery of line 2 leaves what was recorded of line 1.
Merged(old, new) ==
  [n \in DOMAIN old \cup DOMAIN new |-> IF n \in DOMAIN new THEN new[n] ELSE old[n]]

\* Whatever quantities of its lines are reported: only these are validated, and both the
\* lines and the receipts they are merged with are the ones read here.
RecordReceipt(w, p) ==
  /\ Begin(w)
  /\ orders[p] # NoPo
  /\ \E dto \in Delivered :
       /\ ValidPo([orders[p] EXCEPT !.received = dto])
       /\ Becomes(w, [Idle EXCEPT !.pc = "merge", !.po = p,
                        !.received = Merged(orders[p].received, dto)])
  /\ UNCHANGED <<orders, inv, writer, missed, faults>>

\* INSERT ... ON CONFLICT UPDATE; an order without receipts sets the column to null.
StoreOrder(w) ==
  /\ At(w, "store")
  /\ orders' = [orders EXCEPT ![job[w].po] = job[w].order]
  /\ writer' = [writer EXCEPT ![job[w].po] = w]
  /\ Becomes(w, [job[w] EXCEPT !.pc = "select", !.stored = @ \cup {job[w].po}])
  /\ UNCHANGED <<inv, missed, ops, faults>>

\* Only the column received_qty is written, whatever the lines are by now.
MergeReceipt(w) ==
  /\ At(w, "merge")
  /\ orders' = [orders EXCEPT ![job[w].po].received = job[w].received]
  /\ writer' = [writer EXCEPT ![job[w].po] = w]
  /\ Becomes(w, [job[w] EXCEPT !.pc = "select"])
  /\ UNCHANGED <<inv, missed, ops, faults>>

-----------------------------------------------------------------------------
(* rematchInvoicesAwaitingPo.                                              *)

Parked(p) == {i \in Invoice : Cites[i] = p /\ inv[i].status = "EXCEPTION"}

\* Mutant of SelectWaiting: only invoices that never found an order.
SelectWaitingMissing(w) ==
  /\ At(w, "select")
  /\ Becomes(w, [job[w] EXCEPT !.pc = "rematch",
       !.waiting = {i \in Parked(job[w].po) : inv[i].read = NoPo}])
  /\ UNCHANGED <<orders, inv, writer, missed, ops, faults>>

SelectWaiting(w) ==
  /\ At(w, "select")
  /\ Becomes(w, [job[w] EXCEPT !.pc = "rematch", !.waiting = Parked(job[w].po)])
  /\ UNCHANGED <<orders, inv, writer, missed, ops, faults>>

\* The statement before the re-match throws: the write, and then the order is not on file,
\* or the audit entry or the SELECT, and then it is and no invoice is looked at.
RequestFails(w) ==
  /\ job[w].pc \in {"store", "merge", "select"} /\ Fault
  /\ missed' = IF At(w, "select") THEN missed \cup Parked(job[w].po) ELSE missed
  /\ Becomes(w, Continued([job[w] EXCEPT !.failed = @ \cup {job[w].po}]))
  /\ UNCHANGED <<orders, inv, writer, ops>>

\* revalidate: the match is made again, of whatever the invoice has come to meanwhile
\* (what else may keep it from that is InvoiceLifecycle's).
Rematch(w) ==
  /\ At(w, "rematch")
  /\ \E i \in job[w].waiting :
       Becomes(w, [job[w] EXCEPT !.pc = "read", !.waiting = @ \ {i}, !.current = i])
  /\ UNCHANGED <<orders, inv, writer, missed, ops, faults>>

RematchDone(w) ==
  /\ At(w, "rematch") /\ job[w].waiting = {}
  /\ Becomes(w, Continued(job[w]))
  /\ UNCHANGED <<orders, inv, writer, missed, ops, faults>>

-----------------------------------------------------------------------------
(* syncPurchaseOrders.                                                     *)

SyncPurchaseOrders(w) ==
  /\ Begin(w)
  /\ \E body \in Feed :
       LET pos == MapPurchaseOrders(body)
       IN  Becomes(w, [Idle EXCEPT !.pc = "next", !.sync = TRUE,
                                   !.queue = pos, !.fetched = pos])
  /\ UNCHANGED <<orders, inv, writer, missed, faults>>

\* What upsert takes: a valid order of a supplier that is named.
Accepted(po) == ValidPo(po.order) /\ po.supplier # ""
Stores(j, po) == [j EXCEPT !.pc = "store", !.queue = Tail(@), !.po = po.po, !.order = po.order]

\* Mutant of NextOrder: an order that is refused ends the run.
NextOrderAbort(w) ==
  /\ At(w, "next") /\ job[w].queue # <<>>
  /\ LET head == Head(job[w].queue)
     IN  Becomes(w, IF Accepted(head) THEN Stores(job[w], head)
                    ELSE [job[w] EXCEPT !.pc = "report", !.queue = <<>>,
                                        !.failed = @ \cup {head.po}])
  /\ UNCHANGED <<orders, inv, writer, missed, ops, faults>>

\* Each through upsert; one that is refused is listed and the run goes on.
NextOrder(w) ==
  /\ At(w, "next") /\ job[w].queue # <<>>
  /\ LET head == Head(job[w].queue)
     IN  Becomes(w, IF Accepted(head) THEN Stores(job[w], head)
                    ELSE [job[w] EXCEPT !.queue = Tail(@), !.failed = @ \cup {head.po}])
  /\ UNCHANGED <<orders, inv, writer, missed, ops, faults>>

SyncEnds(w) ==
  /\ At(w, "next") /\ job[w].queue = <<>>
  /\ Becomes(w, [job[w] EXCEPT !.pc = "report"])
  /\ UNCHANGED <<orders, inv, writer, missed, ops, faults>>

\* lastSyncAt and the answer.
Report(w) ==
  /\ At(w, "report")
  /\ Becomes(w, Idle)
  /\ UNCHANGED <<orders, inv, writer, missed, ops, faults>>

-----------------------------------------------------------------------------
Init ==
  /\ orders = [p \in PoNumber |-> NoPo]
  /\ inv = [i \in Invoice |-> [status |-> "none", read |-> NoPo]]
  /\ job = [w \in Worker |-> Idle]
  /\ writer = [p \in PoNumber |-> NoWorker]
  /\ missed = {} /\ ops = 0 /\ faults = 0

Statement(w) ==
  \/ ReadOrder(w) \/ RouteInvoice(w) \/ StoreOrder(w) \/ MergeReceipt(w)
  \/ SelectWaiting(w) \/ Rematch(w) \/ RematchDone(w)
  \/ NextOrder(w) \/ SyncEnds(w) \/ Report(w)

Next ==
  \E w \in Worker :
    \/ Statement(w) \/ ValidationFails(w) \/ RequestFails(w) \/ SyncPurchaseOrders(w)
    \/ \E p \in PoNumber : UpsertRequest(w, p) \/ RecordReceipt(w, p)
    \/ \E i \in Invoice : Ingested(w, i)

Spec == Init /\ [][Next]_ovars
=============================================================================
