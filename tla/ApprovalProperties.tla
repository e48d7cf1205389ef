------------------------- MODULE ApprovalProperties -------------------------
(***************************************************************************)
(* What the approval engine promises.  The properties are stated over the  *)
(* variables of ApprovalEngine only, so that they can be checked of the    *)
(* engine on its own and of the systems that extend it.                    *)
(***************************************************************************)
EXTENDS ApprovalQueries

CONSTANT Unearned  \* Unearned[d]: nodes of d's graph reachable without an approval

\* Unearned[d] holds the START node and is closed under every edge except the
\* approve edge of an APPROVAL node.
ASSUME UnearnedAssumption ==
  /\ Unearned \in [Workflow -> SUBSET Node]
  /\ \A d \in Workflow :
       /\ StartNode(Def[d]) \in Unearned[d]
       /\ \A e \in EdgesOf(Def[d]) :
            /\ e.from \in Unearned[d]
            /\ ~(Def[d].kind[e.from] = "APPROVAL" /\ ApproveEdge(e))
            => e.to \in Unearned[d]

Label == {"idle", "start", "advance", "park", "complete", "settle", "authorise",
          "record", "log", "tally", "skip", "leave", "handoff", "replace",
          "recall", "recallFind", "cancel", "supersede", "link",
          "sweep", "stamp", "sweepRead"}

\* Positions in the handlers of InvoiceLifecycle, which call the engine, and the
\* labels a caller of the engine pushes.
HandlerLabel == {"extract", "insertLines", "validate", "check", "match", "raise", "route",
                 "revalidate", "decide", "clear", "resolve", "guardRole", "correct",
                 "rematch", "code", "uncoded", "post"}
Resumed == {"start", "link", "sweep", "clear"}

Request == [pc : Label \cup HandlerLabel,
            ret : Seq(Resumed),
            inst : Nat, node : Node \cup {NoNode}, step : Nat,
            vote : Vote \cup {"none"}, to : User \cup {NoUser},
            seen : SUBSET Nat, outcome : {"none", "APPROVED", "REJECTED", "SLA"},
            todo : SUBSET (Nat \X Node), old : Nat]

InvoiceStatus == {"RECEIVED", "EXTRACTING", "NEEDS_REVIEW", "VALIDATING", "EXCEPTION",
                  "PENDING_APPROVAL", "APPROVED", "POSTED", "PAID", "REJECTED"}

Instance == [workflow : Workflow, status : InstanceStatus, node : Node, link : Nat]
Step     == [inst : Nat, node : Node, approver : User, status : StepStatus,
             due : Nat, breached : BOOLEAN]

\* Rows and requests have their types, and every step belongs to an instance there is.
TypeOK ==
  /\ invoice \in [status : InvoiceStatus, amount : Amount]
  /\ instances \in Seq(Instance)
  /\ steps \in Seq(Step)
  /\ \A s \in DOMAIN steps : steps[s].inst \in DOMAIN instances
  /\ overdue \subseteq Nat
  /\ audit \subseteq Nat \X Vote
  /\ breaches \in [1..MaxInstances -> [Node -> Nat]]
  /\ proc \in [Worker -> Request]

-----------------------------------------------------------------------------
(* Properties that hold however requests interleave.                       *)

\* At most one instance of the invoice is live, whatever recalls, restarts and
\* decisions race (schema.ts: the partial unique index on ACTIVE, and no
\* statement that ever sets a completed or superseded row back to ACTIVE).
OneActivePerInvoice == \A i, j \in ActiveIds : i = j

\* The APPROVE of step s is in the audit trail, or the handler that wrote it is
\* about to put it there.
Recorded(s) ==
  \/ <<s, "APPROVE">> \in audit
  \/ \E w \in Worker : At(w, "log") /\ proc[w].step = s /\ proc[w].vote = "APPROVE"

OnRecord(i) == \E s \in DOMAIN steps : steps[s].inst = i /\ Recorded(s)

\* No instance gets past the unearned part of its graph, so none reaches END
\* there, unless an approver said yes and the audit trail shows it: no race of
\* decisions, hand-offs, escalations and recalls fabricates an approval.
ApprovedOnRecord ==
  \A i \in DOMAIN instances :
    instances[i].node \notin Unearned[instances[i].workflow] => OnRecord(i)

Quiet == \A w \in Worker : At(w, "idle")

\* When no request is in flight a live instance is the one shown as the invoice's
\* approval, and one of its steps is in somebody's inbox: two approvers who decide the
\* last two steps of a node at once never both conclude that the node waits for the
\* other, and no recall or hand-off leaves an invoice waiting for nobody.
SomeoneToAsk ==
  Quiet => \A i \in ActiveIds : /\ i = CurrentInstance
                                /\ \E u \in User : \E s \in Inbox(u) : steps[s].inst = i
-----------------------------------------------------------------------------
(* Properties of requests that do not overlap (a single worker).           *)

\* A step answered, handed off, skipped or cancelled keeps that status: the
\* history an auditor reads is never rewritten (schema.ts keeps SKIPPED and
\* CANCELLED apart for that reason).
HistoryKept ==
  [][\A s \in DOMAIN steps : steps[s].status # "PENDING"
       => steps'[s].status = steps[s].status]_vars

\* Between requests, whoever holds a PENDING step is being asked about the node
\* the live instance is parked at: no question outlives its node or its instance.
NoStrayQuestion ==
  Quiet => \A s \in DOMAIN steps : steps[s].status = "PENDING" =>
             LET i == steps[s].inst
             IN  instances[i].status = "ACTIVE" /\ instances[i].node = steps[s].node

\* The engine as one ballot at a time: see ApprovalRound.
Round == INSTANCE ApprovalRound WITH
  round  <- Len(instances),
  result <- IF instances = <<>> THEN "none"
            ELSE LET last == instances[Len(instances)]
                 IN  CASE last.status = "ACTIVE" -> "open"
                       [] last.status = "SUPERSEDED" -> "withdrawn"
                       [] OTHER -> IF Def[last.workflow].kind[last.node] = "END"
                                   THEN "approved" ELSE "rejected",
  waived <- /\ instances # <<>>
            /\ LET d == instances[Len(instances)].workflow
               IN  \E n \in Unearned[d] : Def[d].kind[n] = "END",
  asked  <- Pending({s \in DOMAIN steps : steps[s].inst = Len(instances)}),
  yes    <- {s \in DOMAIN steps : steps[s].inst = Len(instances)
                                  /\ steps[s].status = "APPROVED"}

ImplementsRound == Round!Spec

-----------------------------------------------------------------------------
(* Liveness, under FairSpec.                                               *)

\* Every request comes to an end: the walk through the graph parks at an
\* approval node, completes or throws (startInstance's and advance's comments).
RequestsEnd == \A w \in Worker : ~At(w, "idle") ~> At(w, "idle")

\* A breach does not pass silently: an overdue, unreported step at the node its
\* live instance is parked at is reported, answered or withdrawn.  (A late step
\* at a node the instance has left is stale and is skipped by every sweep.)
LiveBreach(s) ==
  /\ s \in Overdue
  /\ instances[steps[s].inst].node = steps[s].node

BreachesSurface ==
  \A s \in 1..MaxSteps :
    (s \in DOMAIN steps /\ LiveBreach(s)) ~> ~(s \in DOMAIN steps /\ LiveBreach(s))

-----------------------------------------------------------------------------
(* Crashes, under CrashSpec with a single worker.                          *)

\* A crash may leave a live instance with nobody to ask or with its decision
\* half applied; restarting its approval always repairs it: the restart, when it
\* comes to an end, leaves a live instance with a question open, or none.
RestartRepairs ==
  [][\A w \in Worker : LinkSuccessor(w) =>
       \A i \in ActiveIds : \E s \in DOMAIN steps :
         steps[s].inst = i /\ steps[s].status = "PENDING"]_vars

-----------------------------------------------------------------------------
(* What the comments say and the code does not do.                         *)

\* "ACTIVE is the only status that lets an instance be decided."
OnlyActiveDecided ==
  [][\A w \in Worker : RecordDecision(w) => InstanceOf(w).status = "ACTIVE"]_vars

\* "a missing/non-numeric field matches nothing, so the default edge is taken"
MissingTakesDefault ==
  [][\A w \in Worker :
       LET g == GraphOf(w)  n == proc[w].node
       IN  AdvanceWalk(w) /\ g.kind[n] = "CONDITION" /\ invoice.amount = 0
             => \E e \in OutOf(g, n) : e.isDefault /\ e.to = proc'[w].node]_vars

\* "Each breach is reported exactly once."
BreachReportedOnce ==
  \A i \in 1..MaxInstances, n \in Node : breaches[i][n] <= 1

\* A rejection never carries a node: it is left by its approve edge only in answer to an
\* approval (resolveNodeOutcome's ANY rule).  A node that a reject edge leads back to
\* tallies the answers of both visits.
RejectionNeverCarries ==
  [][\A w \in Worker : LeaveNode(w) /\ proc[w].outcome = "APPROVED"
       => proc[w].vote = "APPROVE"]_vars

\* "how many more sign-offs if all goes well": while somebody is asked at least one is
\* missing.  A node counts as decided with its first answer, whatever its mode.
ProgressCounts == Quiet => \A i \in ActiveIds : ApprovalsRemaining(i) > 0
=============================================================================
