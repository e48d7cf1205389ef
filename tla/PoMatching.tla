----------------------------- MODULE PoMatching -----------------------------
(***************************************************************************)
(* The pure rules about purchase orders: what is a valid order             *)
(* (purchase-order.validation.ts), how an invoice is matched to it         *)
(* (po-matching.ts), and what stops the invoice (recordMatchExceptions).   *)
(*                                                                         *)
(* An order is [lines, total, currency, received]; a line [no, item, qty,  *)
(* price, total]; received maps line numbers to quantities and is empty    *)
(* where the column is null.  A bill is [lines, net, currency].  Totals    *)
(* are in cents, unit prices in fractions of one; item stands for the      *)
(* normalised description.                                                 *)
(***************************************************************************)
EXTENDS Integers, Sequences, FiniteSets

CONSTANT Fine   \* a cent is this many of the smallest units of a unit price (10000)

ASSUME FineAssumption == Fine \in Nat \ {0}

Null == -1   \* an amount the extractor did not find

Lines(order)   == DOMAIN order.lines
Numbers(order) == {order.lines[i].no : i \in Lines(order)}

LineSum(lines) ==
  LET sum[i \in 0..Len(lines)] == IF i = 0 THEN 0 ELSE sum[i - 1] + lines[i].total
  IN  sum[Len(lines)]

\* toFixed and round2, of amounts that are not negative: a half goes up.
RoundDiv(n, d) == (2 * n + d) \div (2 * d)

Abs(n) == IF n < 0 THEN -n ELSE n

-----------------------------------------------------------------------------
(* validatePoPayload.                                                      *)

\* Within a cent, after rounding.
AddsUp(l) == Abs(RoundDiv(l.qty * l.price, Fine) - l.total) <= 1

ValidLine(l) == l.no >= 1 /\ l.qty > 0 /\ l.price >= 0 /\ AddsUp(l)

\* Quantities received, of lines that exist.
ValidReceipt(order, received) ==
  DOMAIN received \subseteq Numbers(order) /\ \A n \in DOMAIN received : received[n] \in Nat

ValidLines(order) ==
  /\ order.lines # <<>>
  /\ \A i \in Lines(order) : ValidLine(order.lines[i])
  /\ Cardinality(Numbers(order)) = Len(order.lines)
  /\ Abs(LineSum(order.lines) - order.total) <= 1

ValidPo(order) == ValidLines(order) /\ ValidReceipt(order, order.received)

-----------------------------------------------------------------------------
(* pairLines.                                                              *)

Least(S) == CHOOSE n \in S : \A k \in S : n <= k
Below(S, n) == Cardinality({k \in S : k < n})

\* Mutant of ByDescription: a line already claimed is claimed again.
ByDescriptionAgain(bill, order) ==
  [i \in DOMAIN bill.lines |->
     LET same == {j \in Lines(order) : order.lines[j].item = bill.lines[i].item}
     IN  IF same = {} THEN 0 ELSE Least(same)]

\* The first pass, line by line: the first order line of the same description that
\* no earlier line has claimed, or none (0).
ByDescription(bill, order) ==
  LET claims[i \in 0..Len(bill.lines)] ==
        IF i = 0 THEN <<>>
        ELSE LET before == claims[i - 1]
                 free == {j \in Lines(order) : /\ order.lines[j].item = bill.lines[i].item
                                               /\ \A k \in DOMAIN before : before[k] # j}
             IN  Append(before, IF free = {} THEN 0 ELSE Least(free))
  IN  claims[Len(bill.lines)]

\* The second: what is left of the bill against what is left of the order, by position.
PairLines(bill, order) ==
  LET first == ByDescription(bill, order)
      left  == {i \in DOMAIN first : first[i] = 0}
      rest  == {j \in Lines(order) : \A i \in DOMAIN first : first[i] # j}
      Same(i) == {j \in rest : Below(rest, j) = Below(left, i)}
  IN  [i \in DOMAIN first |-> IF first[i] # 0 THEN first[i]
                              ELSE IF Same(i) = {} THEN 0 ELSE Least(Same(i))]

-----------------------------------------------------------------------------
(* matchInvoiceToPo.                                                       *)

DefaultTolerances ==
  [price |-> 5, quantity |-> 0, totalAbs |-> 1, totalPct |-> 5, blockOnOverReceipt |-> TRUE]

\* variancePct(actual, expected) > limit; a variance against zero is none.
Exceeds(actual, expected, limit) ==
  expected # 0 /\ (actual - expected) * 100 > limit * expected

\* The more specific finding wins.
LineStatus(b, order, j, tol) ==
  IF j = 0 THEN "UNMATCHED"
  ELSE LET o == order.lines[j]
       IN  IF /\ o.no \in DOMAIN order.received /\ b.qty > order.received[o.no]
              /\ tol.blockOnOverReceipt                   THEN "OVER_RECEIPT"
           ELSE IF Exceeds(b.qty, o.qty, tol.quantity)    THEN "QUANTITY_VARIANCE"
           ELSE IF Exceeds(b.price, o.price, tol.price)   THEN "PRICE_VARIANCE"
           ELSE "MATCHED"

LineMatches(bill, order, tol) ==
  LET pairs == PairLines(bill, order)
  IN  [i \in DOMAIN pairs |-> LineStatus(bill.lines[i], order, pairs[i], tol)]

CurrencyIssue(bill, order) == bill.currency # "none" /\ bill.currency # order.currency

\* Both limits must be breached.
TotalIssue(bill, order, tol) ==
  /\ bill.net # Null /\ order.total # 0
  /\ Abs(bill.net - order.total) > tol.totalAbs
  /\ Abs(bill.net - order.total) * 100 > tol.totalPct * order.total

\* runPoMatch and recordMatchExceptions: integrity failures block, variances are
\* recorded and left to the approvers.
Verdict(bill, order, tol) ==
  LET lines == LineMatches(bill, order, tol)
      Some(s) == \E i \in DOMAIN lines : lines[i] = s
  IN  IF CurrencyIssue(bill, order) \/ Some("OVER_RECEIPT") THEN "BLOCKED"
      ELSE IF \/ Some("QUANTITY_VARIANCE") \/ Some("PRICE_VARIANCE") \/ Some("UNMATCHED")
              \/ TotalIssue(bill, order, tol)               THEN "PO_MISMATCH"
      ELSE "CLEAN"
=============================================================================
