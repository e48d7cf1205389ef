--------------------------- MODULE WorkflowGraph ---------------------------
(***************************************************************************)
(* The tenant-authored approval graph and the rules the engine reads off   *)
(* it: workflow-graph.types.ts, workflow-graph.validator.ts and the pure   *)
(* parts of workflow-engine.service.ts (edge selection, conditions and the *)
(* ALL / ANY outcome of an approval node).                                 *)
(*                                                                         *)
(* An edge's condition `<field> op value` is represented by the set of     *)
(* amounts that satisfy it: evaluateCondition(v, c) is v \in e.holds.  A    *)
(* missing total is the amount 0, which is what Number(null) makes of it.  *)
(* Node ids are the elements of Node, so the duplicate-id and unknown-node *)
(* checks of validateGraph hold by the type of a graph.                    *)
(***************************************************************************)
EXTENDS Naturals, Sequences, FiniteSets

CONSTANTS Node,        \* node ids
          User,        \* approver ids
          Amount,      \* figures an invoice may carry (the conditions' field)
          NoCondition  \* an edge authored without a condition

Kind == {"START", "APPROVAL", "CONDITION", "END", "REJECT"}
Mode == {"ALL", "ANY"}

Edge == [from : Node, to : Node,
         onReject : BOOLEAN, onSlaBreach : BOOLEAN, isDefault : BOOLEAN,
         holds : (SUBSET Amount) \cup {NoCondition}]

\* approvers[n] is the list resolveApprovers yields: the node's approverIds,
\* or the tenant's users holding its role. timed[n]: the node has slaHours.
Graph == [kind : [Node -> Kind], mode : [Node -> Mode],
          approvers : [Node -> Seq(User)], timed : [Node -> BOOLEAN],
          edges : Seq(Edge)]

ApproveEdge(e) == ~e.onReject /\ ~e.onSlaBreach

EdgesOf(g)       == {g.edges[i] : i \in DOMAIN g.edges}
OutOf(g, n)      == {e \in EdgesOf(g) : e.from = n}
ApproveOut(g, n) == {e \in OutOf(g, n) : ApproveEdge(e)}
RejectOut(g, n)  == {e \in OutOf(g, n) : e.onReject}
SlaOut(g, n)     == {e \in OutOf(g, n) : e.onSlaBreach}

\* graph.edges.find((e) => e \in S): the first edge of the list that is in S,
\* as a set of at most one edge.
FirstOf(g, S) ==
  {g.edges[i] : i \in {k \in DOMAIN g.edges :
                        /\ g.edges[k] \in S
                        /\ \A j \in 1..(k - 1) : g.edges[j] \notin S}}

\* evaluateCondition: the figures that satisfy `op value`.
Satisfying(op, value) ==
  {a \in Amount : CASE op = ">"  -> a > value
                    [] op = ">=" -> a >= value
                    [] op = "<"  -> a < value
                    [] op = "<=" -> a <= value
                    [] op = "==" -> a = value
                    [] op = "!=" -> a # value
                    [] OTHER     -> FALSE}

\* Where a settled CONDITION node leads for an invoice of this amount: the
\* first non-default edge whose condition holds, else the first default edge.
ConditionOut(g, n, amount) ==
  LET matching == {e \in OutOf(g, n) : /\ ~e.isDefault
                                       /\ e.holds # NoCondition
                                       /\ amount \in e.holds}
  IN  IF matching # {}
      THEN FirstOf(g, matching)
      ELSE FirstOf(g, {e \in OutOf(g, n) : e.isDefault})

StartNode(g) == CHOOSE n \in Node : g.kind[n] = "START"

\* validateGraph: what createDefinition and publishDefinition insist on.
\* Two edges of one list may coincide, so the counts are of list positions.
CountOut(g, S) == Cardinality({i \in DOMAIN g.edges : g.edges[i] \in S})

ValidNode(g, n) ==
  CASE g.kind[n] = "START" -> CountOut(g, OutOf(g, n)) = 1
    [] g.kind[n] = "APPROVAL" ->
         /\ CountOut(g, ApproveOut(g, n)) = 1
         /\ CountOut(g, RejectOut(g, n)) <= 1
         /\ CountOut(g, SlaOut(g, n)) <= 1
         /\ SlaOut(g, n) # {} => g.timed[n]
    [] g.kind[n] = "CONDITION" ->
         /\ CountOut(g, {e \in OutOf(g, n) : e.isDefault}) = 1
         /\ \A e \in OutOf(g, n) : ~e.isDefault => e.holds # NoCondition
    [] OTHER -> OutOf(g, n) = {}

ValidGraph(g) ==
  /\ \E start \in Node : \A n \in Node : (g.kind[n] = "START") <=> (n = start)
  /\ \A n \in Node : ValidNode(g, n)

-----------------------------------------------------------------------------
(* Outcome of an approval node from the statuses of its steps.             *)

StepStatus == {"PENDING", "APPROVED", "REJECTED", "SKIPPED", "DELEGATED", "CANCELLED"}
Deciding   == {"PENDING", "APPROVED", "REJECTED"}
Outcome    == {"APPROVED", "REJECTED", "WAITING"}

\* Mutant of NodeOutcome: once everybody has answered the node carries, whatever
\* the answers are.
NodeOutcomeAnswered(mode, statuses) ==
  LET live == statuses \cap Deciding
  IN  IF live = {} \/ "PENDING" \in live THEN "WAITING" ELSE "APPROVED"

\* Mutant of NodeOutcome: a handed-off step counts among the deciding ones.
NodeOutcomeDelegated(mode, statuses) ==
  LET live == statuses \cap (Deciding \cup {"DELEGATED"})
  IN  CASE live = {} -> "WAITING"
        [] mode = "ANY" /\ "APPROVED" \in live -> "APPROVED"
        [] mode = "ALL" /\ "REJECTED" \in live -> "REJECTED"
        [] live = {"APPROVED"} -> "APPROVED"
        [] live = {"REJECTED"} -> "REJECTED"
        [] OTHER -> "WAITING"

\* resolveNodeOutcome; `statuses` is the set of statuses among the node's steps
\* (the rules only ask whether some or every deciding step has a status).
NodeOutcome(mode, statuses) ==
  LET live == statuses \cap Deciding
  IN  CASE live = {} -> "WAITING"
        [] live # {} /\ mode = "ANY" ->
             IF "APPROVED" \in live THEN "APPROVED"
             ELSE IF live = {"REJECTED"} THEN "REJECTED" ELSE "WAITING"
        [] OTHER ->
             IF "REJECTED" \in live THEN "REJECTED"
             ELSE IF live = {"APPROVED"} THEN "APPROVED" ELSE "WAITING"
=============================================================================
