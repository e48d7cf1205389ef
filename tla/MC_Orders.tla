------------------------------ MODULE MC_Orders ------------------------------
(***************************************************************************)
(* Two invoices of one order of two lines: the first bills the first item  *)
(* twice, the second once.  Orders come by hand or from S/4HANA, where the *)
(* price is per ten, one order has no quantity, one no supplier and one a  *)
(* price per unit that does not come out even.                             *)
(*                                                                         *)
(* In S/4HANA goods of two order lines are booked, in pieces or in cases   *)
(* of two.  Its ledger shares no state with what the backend keeps, so a   *)
(* behaviour is of the one or of the other.                                *)
(***************************************************************************)
EXTENDS OrdersProperties, GoodsMovements, TLC

VARIABLE system

MCBill == [i \in Invoice |->
  [lines |-> IF i = "twice" THEN <<[item |-> "a", qty |-> 1, price |-> 30],
                                   [item |-> "a", qty |-> 1, price |-> 30]>>
             ELSE <<[item |-> "a", qty |-> 1, price |-> 30]>>,
   net |-> Null, currency |-> "EUR"]]
MCCites == [i \in Invoice |-> "po1"]

Item(no, item, qty, price, per, deleted) ==
  [no |-> no, item |-> item, qty |-> qty, price |-> price, per |-> per, deleted |-> deleted]
S4Order(po, supplier, deleted, items) ==
  [po |-> po, supplier |-> supplier, deleted |-> deleted, currency |-> "EUR",
   items |-> [shape |-> "results", rows |-> items]]
Root(orderRows) == [shape |-> "d.results", rows |-> orderRows]
Both  == <<Item(1, "a", 2, 30, 10, FALSE), Item(2, "a", 1, 3, 0, FALSE)>>
Fewer == <<Item(1, "a", 2, 30, 10, TRUE), Item(2, "a", 1, 3, 1, FALSE)>>
Empty  == S4Order("po2", "acme", FALSE, <<Item(2, "b", 0, 3, 1, FALSE)>>)
Uneven == S4Order("po2", "acme", FALSE, <<Item(2, "b", 60, 1, 3, FALSE)>>)
Nobody == S4Order("po2", "", FALSE, Both)
Gone   == S4Order("po3", "acme", TRUE, Both)
MCFeed == {Root(<<Empty, S4Order("po1", "acme", FALSE, Both)>>),
           Root(<<Gone, Uneven, S4Order("po1", "acme", FALSE, Fewer)>>),
           Root(<<Nobody, S4Order("po1", "acme", FALSE, Fewer)>>)}

Single == <<[no |-> 1, item |-> "a", qty |-> 2, price |-> 30, total |-> 6]>>
MCPayload == {[lines |-> Single, total |-> 6, currency |-> "EUR", received |-> (1 :> 1)],
              [lines |-> Single, total |-> 7, currency |-> "USD", received |-> <<>>]}
MCDelivered == {(1 :> 1), (1 :> 2), (2 :> 1)}
MCTolerances == DefaultTolerances

Goods(line, qty, unit, baseQty, code) ==
  [line |-> line, qty |-> qty, unit |-> unit, baseQty |-> baseQty, baseUnit |-> "piece",
   code |-> code, cancelled |-> FALSE, reverses |-> 0]
MCMovement == {Goods(1, 1, "case", 2, "S"), Goods(1, 1, "piece", 1, "H"),
               Goods(2, 1, "piece", 1, "S")}
MCUnit == <<"piece", "piece">>

TradeInit == system \in {"backend", "S/4HANA"} /\ Init /\ LedgerInit
TradeNext == \/ system = "backend" /\ Next /\ UNCHANGED <<stock, system>>
             \/ system = "S/4HANA" /\ LedgerNext /\ UNCHANGED <<ovars, system>>
TradeSpec == TradeInit /\ [][TradeNext]_<<ovars, stock, system>>

Workers == Permutations(Worker)
=============================================================================
