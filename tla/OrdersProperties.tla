-------------------------- MODULE OrdersProperties --------------------------
(***************************************************************************)
(* What is promised of orders, receipts and the invoices that cite them.   *)
(***************************************************************************)
EXTENDS Orders

\* An order as a row or a request holds it.
IsOrder(order) == /\ DOMAIN order = {"lines", "total", "currency", "received"}
                  /\ Len(order.lines) \in Nat /\ Lines(order) = 1..Len(order.lines)

\* What is sent and what is billed is a list of lines.
ASSUME DataAssumption ==
  /\ \A p \in Payload : IsOrder(p)
  /\ \A i \in Invoice : /\ Len(Bill[i].lines) \in Nat
                        /\ DOMAIN Bill[i].lines = 1..Len(Bill[i].lines)
                        /\ \A k \in DOMAIN Bill[i].lines : Bill[i].lines[k].qty \in Int

\* An answer of S/4HANA lists an order once, by its number, its lines under numbers of
\* their own, and no amount in it is negative.
ASSUME FeedAssumption ==
  \A body \in Feed :
    LET pos == MapPurchaseOrders(body)
    IN  /\ Len(pos) \in Nat /\ DOMAIN pos = 1..Len(pos)
        /\ \A j, k \in DOMAIN pos : pos[j].po = pos[k].po => j = k
        /\ \A k \in DOMAIN pos :
             LET order == pos[k].order
             IN  /\ pos[k].po \in PoNumber /\ IsOrder(order)
                 /\ Cardinality(Numbers(order)) = Len(order.lines)
                 /\ LineSum(order.lines) \in Int
                 /\ \A j \in Lines(order) :
                      LET l == order.lines[j]
                      IN  l.no \in Nat \ {0} /\ l.qty \in Nat /\ l.price \in Nat

Rows == {orders[p] : p \in PoNumber} \ {NoPo}

\* Statuses, locals and ghosts have their types.  Every order on file has lines that
\* add up to it, whoever wrote it last and whatever was read before the write; its
\* receipts are quantities, of lines it has or once had.
OrdersTypeOK ==
  /\ \A row \in Rows : ValidLines(row) /\ \A n \in DOMAIN row.received : row.received[n] \in Nat
  /\ \A i \in Invoice :
       inv[i].status \in {"none", "VALIDATING", "EXCEPTION", "PENDING_APPROVAL"}
  /\ \A w \in Worker :
       /\ job[w].pc \in {"idle", "read", "route", "store", "merge", "select", "rematch",
                         "next", "report"}
       /\ job[w].waiting \subseteq Invoice /\ job[w].current \in Invoice \cup {NoInvoice}
       /\ job[w].stored \cup job[w].failed \subseteq PoNumber
  /\ writer \in [PoNumber -> Worker \cup {NoWorker}]
  /\ missed \subseteq Invoice /\ ops \in 0..MaxOps /\ faults \in 0..MaxFaults

\* A request that has yet to look for the invoice, or has found it and not yet routed it.
InHand(w, i) == \/ At(w, "select") /\ job[w].po = Cites[i]
                \/ i \in job[w].waiting \cup {job[w].current}

\* "clear itself once the order shows up": whatever requests run side by side, an invoice
\* still parked would be stopped by the order as it is on file now, or some request has it
\* in hand, unless its validation acted on an order replaced since it was read, or that
\* validation or the request that was to bring it about threw.
Cleared ==
  \A i \in Invoice : inv[i].status = "EXCEPTION" /\ i \notin missed =>
    Blocked(i, orders[Cites[i]]) \/ \E w \in Worker : InHand(w, i)

\* What an invoice out for approval bills against one order line, over all its lines,
\* is within what had been received of it when it was matched.
Billed(i, j) ==
  LET pairs == PairLines(Bill[i], inv[i].read)
      sum[k \in 0..Len(pairs)] ==
        IF k = 0 THEN 0 ELSE sum[k - 1] + IF pairs[k] = j THEN Bill[i].lines[k].qty ELSE 0
  IN  sum[Len(pairs)]
BilledWithinReceipt ==
  \A i \in Invoice : inv[i].status = "PENDING_APPROVAL" /\ inv[i].read # NoPo =>
    \A j \in Lines(inv[i].read) :
      LET n == inv[i].read.lines[j].no
      IN  n \in DOMAIN inv[i].read.received => Billed(i, j) <= inv[i].read.received[n]

\* "One bad order must not abort the run": at the end of a sync each order S/4HANA sent
\* is on file as sent, unless another request has written it since, or listed as failed,
\* and only one that cannot be used is if nothing threw.
Unusable(po) ==
  \/ po.supplier = "" \/ po.order.lines = <<>>
  \/ \E j \in Lines(po.order) : po.order.lines[j].qty = 0 \/ ~AddsUp(po.order.lines[j])
SyncAccounts ==
  \A w \in Worker : At(w, "report") =>
    \A k \in DOMAIN job[w].fetched :
      LET sent == job[w].fetched[k]
      IN  IF sent.po \in job[w].failed THEN faults > 0 \/ Unusable(sent)
          ELSE /\ sent.po \in job[w].stored
               /\ writer[sent.po] = w => orders[sent.po] = sent.order

-----------------------------------------------------------------------------
(* What the comments say and the code does not do.                         *)

\* "re-running a sync updates rather than duplicating" and "Merge rather than replace":
\* a recorded delivery of a line that stays on the order stays on record.
ReceiptsKept ==
  [][\A p \in PoNumber : orders[p] # NoPo /\ orders'[p] # NoPo =>
       \A n \in DOMAIN orders[p].received :
         n \in Numbers(orders'[p]) => n \in DOMAIN orders'[p].received]_ovars

\* "Received quantity references line ..., which is not on this purchase order": what is
\* refused in a request is not on file either.
ReceiptsOfLines == \A row \in Rows : ValidReceipt(row, row.received)

\* "it should clear itself once the order shows up rather than needing a human to poke it"
NobodyPokes ==
  (\A w \in Worker : At(w, "idle")) /\ faults = 0 =>
    \A i \in Invoice : inv[i].status = "EXCEPTION" => Blocked(i, orders[Cites[i]])
=============================================================================
