------------------------- MODULE MC_ApprovalEngine -------------------------
(***************************************************************************)
(* Small instances of the approval engine: graphs over five nodes and two  *)
(* approvers, u2 with authority for amount 1 only.                         *)
(***************************************************************************)
EXTENDS ApprovalProperties, TLC

MCNode   == {"start", "a", "b", "end", "rej"}
MCUser   == {"u1", "u2"}
MCAmount == {1, 2}
OneAmount == {1}
NoTotal == {0}
MCLimit  == [u \in MCUser |-> IF u = "u1" THEN 2 ELSE 1]

E(from, to) == [from |-> from, to |-> to, onReject |-> FALSE, onSlaBreach |-> FALSE,
                isDefault |-> FALSE, holds |-> NoCondition]
OnReject(from, to) == [E(from, to) EXCEPT !.onReject = TRUE]
OnSla(from, to)    == [E(from, to) EXCEPT !.onSlaBreach = TRUE]
When(from, to, S)  == [E(from, to) EXCEPT !.holds = S]
Else(from, to)     == [E(from, to) EXCEPT !.isDefault = TRUE]

\* Two approval nodes a and b; their modes, approvers and edges vary.
TwoNodes(modeA, modeB, listA, listB, timed, edges) ==
  [kind |-> [n \in MCNode |-> CASE n = "start" -> "START" [] n = "end" -> "END"
                                [] n = "rej" -> "REJECT" [] OTHER -> "APPROVAL"],
   mode |-> [n \in MCNode |-> IF n = "a" THEN modeA ELSE modeB],
   approvers |-> [n \in MCNode |-> CASE n = "a" -> listA [] n = "b" -> listB [] OTHER -> <<>>],
   timed |-> [n \in MCNode |-> n \in timed],
   edges |-> edges]

\* start -> a -> end, b unused.
OneStage(mode) ==
  TwoNodes(mode, "ALL", <<"u1", "u2">>, <<"u1">>, {},
           <<E("start", "a"), E("a", "end"), E("b", "end")>>)

\* a in parallel, then b; a rejection of b goes to rej, of a ends the instance.
TwoStage(mode) ==
  TwoNodes(mode, "ANY", <<"u1", "u2">>, <<"u1">>, {},
           <<E("start", "a"), E("a", "b"), E("b", "end"), OnReject("b", "rej")>>)

\* A breach of a escalates to b; one of b is only reported.
Escalating(mode) ==
  TwoNodes(mode, "ANY", <<"u1", "u2">>, <<"u1">>, {"a", "b"},
           <<E("start", "a"), E("a", "end"), OnSla("a", "b"), E("b", "end")>>)

\* b is a condition: large amounts go through a, the rest straight to END.
Conditional ==
  [TwoNodes("ALL", "ANY", <<"u2", "u1">>, <<>>, {"a"},
            <<E("start", "b"), Else("b", "end"), When("b", "a", Satisfying(">=", 2)), E("a", "end"),
              OnReject("a", "rej")>>)
   EXCEPT !.kind["b"] = "CONDITION"]

\* b is a condition: amounts below 2 need no approval.
Unattended ==
  [TwoNodes("ANY", "ANY", <<"u1">>, <<>>, {},
            <<E("start", "b"), When("b", "end", Satisfying("<", 2)), Else("b", "a"),
              E("a", "end")>>)
   EXCEPT !.kind["b"] = "CONDITION"]

\* A rejection at b sends the invoice back to a.
Rework(mode) ==
  TwoNodes(mode, "ANY", <<"u1">>, <<"u1">>, {},
           <<E("start", "a"), E("a", "b"), E("b", "end"), OnReject("b", "a")>>)

\* Two conditions that send small amounts round in a circle.
Loop ==
  LET edges == <<E("start", "a"), Else("a", "b"), Else("b", "a"), When("b", "end", Satisfying("==", 2))>>
  IN  [TwoNodes("ALL", "ANY", <<>>, <<>>, {}, edges)
       EXCEPT !.kind["a"] = "CONDITION", !.kind["b"] = "CONDITION"]

\* b is to be approved by a role that nobody holds.
EmptyRole ==
  TwoNodes("ANY", "ANY", <<"u1">>, <<>>, {},
           <<E("start", "a"), E("a", "b"), E("b", "end")>>)

\* The definitions by name; a run publishes some of them.
MCDef ==
     ("one-any"  :> OneStage("ANY"))  @@ ("one-all"  :> OneStage("ALL"))
  @@ ("two-any"  :> TwoStage("ANY"))  @@ ("two-all"  :> TwoStage("ALL"))
  @@ ("sla-any"  :> Escalating("ANY")) @@ ("sla-all" :> Escalating("ALL"))
  @@ ("cond"     :> Conditional)      @@ ("rework"   :> Rework("ANY"))
  @@ ("loop"     :> Loop)             @@ ("no-role"  :> EmptyRole)
  @@ ("small"    :> Unattended)
Defs == [d \in Workflow |-> MCDef[d]]

\* The nodes an instance can get to without an approval.
MCUnearned ==
  [d \in Workflow |->
    CASE d \in {"sla-any", "sla-all"} -> {"start", "a", "b"}
      [] d = "cond" -> {"start", "a", "b", "rej", "end"}
      [] d \in {"loop", "small"} -> {"start", "a", "b", "end"}
      [] d \in {"two-any", "two-all"} -> {"start", "a", "rej"}
      [] OTHER -> {"start", "a"}]

Symmetry == Permutations(Worker \ Scheduler)
=============================================================================
