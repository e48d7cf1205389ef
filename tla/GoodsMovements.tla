--------------------------- MODULE GoodsMovements ---------------------------
(***************************************************************************)
(* S/4HANA's stock ledger, as s4-goods-receipt.ts reads it: goods arrive,  *)
(* go back to the supplier, and documents are cancelled.  What is received *)
(* of an order line is the net of its material documents.                  *)
(***************************************************************************)
EXTENDS S4Documents

CONSTANTS
  Movement,   \* goods movements that may be booked
  Unit,       \* Unit[n]: the unit of order line n, and of the stock ledger
  MaxMoves    \* bound on material documents

ASSUME MovesAssumption == MaxMoves \in Nat

Line == DOMAIN Unit

VARIABLES ledger,   \* the material documents
          onHand    \* what of each line really is in the store

stock == <<ledger, onHand>>

\* The ledger as S/4HANA answers with it: documents with their items, or the items alone.
MaterialDocuments(expanded) ==
  IF expanded
  THEN [shape |-> "d.results",
        rows |-> [k \in DOMAIN ledger |-> [items |-> [shape |-> "results", rows |-> <<ledger[k]>>]]]]
  ELSE [shape |-> "d.results", rows |-> ledger]

Signed(m) == MovementSign(m) * m.baseQty

Book ==
  /\ Len(ledger) < MaxMoves
  /\ \E m \in Movement :
       /\ onHand[m.line] + Signed(m) >= 0
       /\ ledger' = Append(ledger, m)
       /\ onHand' = [onHand EXCEPT ![m.line] = @ + Signed(m)]

\* A cancelled document is flagged and a second one reverses it.
CancelDocument ==
  /\ Len(ledger) < MaxMoves
  /\ \E k \in DOMAIN ledger :
       LET m == ledger[k]
           reversal == [m EXCEPT !.code = IF m.code = "H" THEN "S" ELSE "H", !.reverses = k]
       IN  /\ ~m.cancelled /\ m.reverses = 0 /\ onHand[m.line] >= Signed(m)
           /\ ledger' = Append([ledger EXCEPT ![k].cancelled = TRUE], reversal)
           /\ onHand' = [onHand EXCEPT ![m.line] = @ - Signed(m)]

LedgerInit == ledger = <<>> /\ onHand = [n \in Line |-> 0]
LedgerNext == Book \/ CancelDocument
LedgerSpec == LedgerInit /\ [][LedgerNext]_stock

-----------------------------------------------------------------------------
\* Material documents: whole quantities, the base unit is that of the line, and a quantity
\* keyed in it is the same in both units.  One that is booked is neither cancelled nor does
\* it reverse another.
Document ==
  {d \in [line : Line, qty : Nat, unit : STRING, baseQty : Nat, baseUnit : STRING,
          code : {"S", "H"}, cancelled : BOOLEAN, reverses : Nat] :
     d.baseUnit = Unit[d.line] /\ (d.unit = d.baseUnit => d.qty = d.baseQty)}
ASSUME MovementAssumption ==
  /\ \A n \in Line : n # 0 /\ Unit[n] # ""
  /\ \A m \in Movement : m \in Document /\ ~m.cancelled /\ m.reverses = 0

\* What the receipts of an order line add up to.
SumOf(receipts, line) ==
  LET sum[k \in 0..Len(receipts)] ==
        IF k = 0 THEN 0
        ELSE sum[k - 1] + IF receipts[k].line = line THEN receipts[k].qty ELSE 0
  IN  sum[Len(receipts)]
\* However goods come, go back and are cancelled, and in whichever of its shapes S/4HANA
\* answers, the net of the material documents is what lies in the store, and so is the sum
\* of the receipts handed on one by one.
NetIsOnHand ==
  \A expanded \in BOOLEAN :
    LET body == MaterialDocuments(expanded)
    IN  \A n \in Line : /\ NetReceived(body, n, Unit[n]) = onHand[n]
                        /\ SumOf(MapGoodsReceipts(body, Unit), n) = onHand[n]
=============================================================================
