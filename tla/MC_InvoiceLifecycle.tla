------------------------- MODULE MC_InvoiceLifecycle -------------------------
(***************************************************************************)
(* Small instances of the invoice lifecycle: one approval node, two sets   *)
(* of figures that cite the same purchase order or none.                   *)
(***************************************************************************)
EXTENDS InvoiceProperties, TLC

MCNode == {"start", "a", "end"}
MCUser == {"u1", "u2"}
MCAmount == {1, 2}
OneAmount == {1}
\* u2 may approve amount 1 only.
MCLimit == [u \in MCUser |-> IF u = "u1" THEN 2 ELSE 1]

E(from, to) == [from |-> from, to |-> to, onReject |-> FALSE, onSlaBreach |-> FALSE,
                isDefault |-> FALSE, holds |-> NoCondition]

\* start -> a -> end; a rejection ends the instance, a breach of a timed node is
\* only reported.
OneNode(mode, list, timed) ==
  [kind |-> [n \in MCNode |-> CASE n = "start" -> "START" [] n = "end" -> "END"
                                [] OTHER -> "APPROVAL"],
   mode |-> [n \in MCNode |-> mode],
   approvers |-> [n \in MCNode |-> IF n = "a" THEN list ELSE <<>>],
   timed |-> [n \in MCNode |-> timed],
   edges |-> <<E("start", "a"), E("a", "end")>>]

MCDef == ("u1" :> OneNode("ANY", <<"u1">>, FALSE)) @@ ("u2" :> OneNode("ANY", <<"u2">>, FALSE))
         @@ ("timed" :> OneNode("ANY", <<"u1">>, TRUE))
Defs == [d \in Workflow |-> MCDef[d]]
Symmetry == Permutations(Worker)

MCUnearned == [d \in Workflow |-> {"start", "a"}]

\* The order may be missing, in another currency, or in agreement with figures
\* "p"; figures "q" deviate from it in price; "n" cite no order, and "d" cite
\* it but repeat the number of another invoice.
MCOrder == {"absent", "other", "agreed"}
OneOrder == {"agreed"}
MCCiting == Figures \ {"blank", "n"}
MCCheck ==
  [f \in Figures |-> [o \in Order |->
     CASE f = "blank" \/ f = "n" -> "NO_PO"
       [] f = "d" -> "DUPLICATE_INVOICE"
       [] o = "absent" -> "MISSING_PO"
       [] o = "other" -> "BLOCKED"
       [] OTHER -> IF f = "p" THEN "CLEAN" ELSE "PO_MISMATCH"]]
=============================================================================
