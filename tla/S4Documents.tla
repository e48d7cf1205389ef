---------------------------- MODULE S4Documents ----------------------------
(***************************************************************************)
(* How S/4HANA's documents are read: purchase orders (s4-purchase-order.ts)*)
(* and material documents (s4-goods-receipt.ts).  Pure.                    *)
(*                                                                         *)
(* An S/4 order is [po, deleted, supplier, currency, items]; an item [no,  *)
(* item, qty, price, per, deleted], its price in cents for `per` units.    *)
(* A movement is [line, qty, unit, baseQty, baseUnit, code, cancelled,     *)
(* reverses]: quantities in the entry and in the base unit, the debit or   *)
(* credit code, and the document it reverses (0: none); a material document *)
(* is [items].  A response is [shape, rows].                               *)
(***************************************************************************)
EXTENDS PoMatching, SequencesExt

\* odataCollection: the envelope is at the root only, a nested expansion is bare; what is
\* neither has no rows.
OdataCollection(body) ==
  IF body.shape \in {"array", "d", "d.results", "results"} THEN body.rows ELSE <<>>

\* A price unit of 0, like an absent one, reads as 1.
PriceUnit(item) == IF item.per = 0 THEN 1 ELSE item.per

\* S/4HANA has no line total: the price covers `per` units.  Both are rounded, each to
\* decimals of its own, so that many units at a price that does not come out even may
\* miss their total.
LineNetAmount(item) == RoundDiv(item.qty * item.price, PriceUnit(item))

EffectiveUnitPrice(item) == RoundDiv(item.price * Fine, PriceUnit(item))

MapItem(item) ==
  [no |-> item.no, item |-> item.item, qty |-> item.qty,
   price |-> EffectiveUnitPrice(item), total |-> LineNetAmount(item)]

IsDeleted(row) == row.deleted
Kept(item)     == ~IsDeleted(item)

\* Deleted lines are dropped, the total is the sum of the others; the S/4 order
\* says nothing of receipts.
MapPurchaseOrder(row) ==
  LET kept  == SelectSeq(OdataCollection(row.items), Kept)
      lines == [i \in DOMAIN kept |-> MapItem(kept[i])]
  IN  [lines |-> lines, total |-> LineSum(lines), currency |-> row.currency, received |-> <<>>]

\* mapPurchaseOrders: an order without a number or deleted in S/4 is passed over.
KeptOrder(row) == row.po # "" /\ ~IsDeleted(row)
MapPurchaseOrders(body) ==
  LET kept == SelectSeq(OdataCollection(body), KeptOrder)
  IN  [i \in DOMAIN kept |-> [po |-> kept[i].po, supplier |-> kept[i].supplier,
                              order |-> MapPurchaseOrder(kept[i])]]

-----------------------------------------------------------------------------
MovementSign(m) == IF m.code = "H" THEN -1 ELSE 1

\* Mutant of CountsTowardReceipt: the document that reverses another is not left out.
CountsTowardReceiptReversal(m) == m.line # 0 /\ ~m.cancelled

\* Without a cancelled item and without the one that reverses it.
CountsTowardReceipt(m) == m.line # 0 /\ ~m.cancelled /\ m.reverses = 0

\* Never converts: the quantity booked in the unit of the order, or none; without a unit
\* to match, as it was keyed.
QuantityInPoUnit(m, unit) ==
  IF unit = "" \/ m.unit = unit THEN m.qty
  ELSE IF m.baseUnit = unit     THEN m.baseQty
  ELSE Null
UnitMismatch(m, unit) == QuantityInPoUnit(m, unit) = Null

\* materialDocumentItems: of headers with their items expanded, or items asked for directly.
ItemsOf(row) ==
  LET nested == IF "items" \in DOMAIN row THEN OdataCollection(row.items) ELSE <<>>
  IN  IF nested # <<>> THEN nested ELSE IF "line" \in DOMAIN row THEN <<row>> ELSE <<>>
MaterialDocumentItems(body) ==
  LET rows == OdataCollection(body)
  IN  FlattenSeq([i \in DOMAIN rows |-> ItemsOf(rows[i])])

\* mapGoodsReceipts: one signed receipt per movement, those without a common unit skipped.
ReceiptsOf(m, unit) ==
  IF CountsTowardReceipt(m) /\ ~UnitMismatch(m, unit[m.line])
  THEN <<[line |-> m.line, qty |-> MovementSign(m) * QuantityInPoUnit(m, unit[m.line])]>>
  ELSE <<>>
MapGoodsReceipts(body, unit) ==
  LET movements == MaterialDocumentItems(body)
  IN  FlattenSeq([i \in DOMAIN movements |-> ReceiptsOf(movements[i], unit)])

\* netReceivedQuantities, for one order line.
NetReceived(body, line, unit) ==
  LET movements == MaterialDocumentItems(body)
      net[i \in 0..Len(movements)] ==
        IF i = 0 THEN 0
        ELSE LET m == movements[i]
             IN  net[i - 1] + IF /\ CountsTowardReceipt(m) /\ m.line = line
                                 /\ ~UnitMismatch(m, unit)
                              THEN MovementSign(m) * QuantityInPoUnit(m, unit) ELSE 0
  IN  net[Len(movements)]
=============================================================================
