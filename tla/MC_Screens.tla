----------------------------- MODULE MC_Screens -----------------------------
(***************************************************************************)
(* The two pages on which people write, each with its calls and as much of *)
(* the server as they reach: the invoice page and the cost assignment.     *)
(* They share no state, in the browser or behind it (a page that is left   *)
(* is unmounted; header fields and assignments are different columns), so  *)
(* a behaviour stays on the page it starts with.                           *)
(*                                                                         *)
(* Two invoices; a negative amount in every notation and 1500.00 with a    *)
(* lone mark before three digits, a day that exists in either order, and a *)
(* currency.  Two lines, an account that is on file and one that is not,   *)
(* one editor and another client.                                          *)
(***************************************************************************)
EXTENDS Screens, CostAssignment

VARIABLE route

Meant(field, values) ==
  UNION {{[field |-> field, text |-> t, meant |-> v] : t \in Written(field, v)} : v \in values}
MCEntry ==
  Meant("subtotal", {-123456700})
  \cup {e \in Meant("subtotal", {150000}) : Len(e.text.seps) = 1 /\ e.text.groups[2].len = 3}
  \cup Meant("dueDate", {20260603})
  \cup Meant("currency", {[word |-> "euro", small |-> FALSE]})
MCPastUses == <<"a1", "c1">> :> 2

PagesInit == /\ route \in {"invoice", "coding"}
             /\ Init /\ CodingInit
             /\ route = "invoice" => row = [l \in Line |-> Uncoded]
PagesNext == \/ route = "invoice" /\ UNCHANGED <<cvars, route>> /\ Browse
             \/ \E x \in Sent : route = "invoice" /\ UNCHANGED <<cvars, route>> /\ Save(x)
             \/ route = "coding" /\ UNCHANGED <<vars, route>> /\ CodingNext
PagesSpec == PagesInit /\ [][PagesNext]_<<vars, cvars, route>>

Symmetry == Permutations(Invoice)
=============================================================================
