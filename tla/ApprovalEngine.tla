--------------------------- MODULE ApprovalEngine ---------------------------
(***************************************************************************)
(* The approval engine of workflow-engine.service.ts, for one invoice.     *)
(*                                                                         *)
(* No handler of the engine opens a transaction: every `await this.db...`  *)
(* is a statement of its own, and the requests of several users, the SLA   *)
(* scheduler and the manual escalation endpoint interleave between them.   *)
(* A worker is one request in flight; proc[w].pc names the statement it    *)
(* executes next and the other fields are the local variables it carries   *)
(* over the await.  One action is one statement with the local computation *)
(* around it.  With a single worker the handlers run to completion.        *)
(*                                                                         *)
(* Tables: instances (approval_instances) and steps (approval_steps) are   *)
(* sequences, a row's id being its position.  completedAt is null exactly  *)
(* while the status is ACTIVE, so it has no field of its own.  A step's    *)
(* due date is the id `due` of the insert that set it (0: no slaHours);    *)
(* overdue holds the due dates the clock has passed.                       *)
(***************************************************************************)
EXTENDS WorkflowGraph

CONSTANTS Worker,        \* requests and scheduled sweeps in flight together
          Scheduler,     \* the workers that are the SLA cron job (at most one)
          Workflow,      \* workflow_definitions rows that may be published
          Def,           \* Def[d]: the graph of row d, immutable once published
          Limit,         \* Limit[u]: the largest amount u may approve
          Enforced,      \* what enforceApprovalLimits may be when a decision reads it
          NoNode, NoUser,
          MaxInstances,  \* bound on the instances started
          MaxSteps,      \* bound on the rows beyond which no step is acted on
          MaxDelegations \* bound on the steps handed off

ASSUME WorkflowAssumption ==
  /\ Def \in [Workflow -> Graph]
  /\ \A d \in Workflow : ValidGraph(Def[d])
ASSUME WorkerAssumption == Scheduler \subseteq Worker
ASSUME SentinelAssumption == NoNode \notin Node /\ NoUser \notin User
ASSUME AmountAssumption == Amount \subseteq Nat /\ Limit \in [User -> Nat]
ASSUME EnforcedAssumption == Enforced \subseteq BOOLEAN /\ Enforced # {}
ASSUME BoundAssumption == MaxInstances \in Nat /\ MaxSteps \in Nat /\ MaxDelegations \in Nat

VARIABLES invoice,    \* the invoice row: status and amount
          instances,  \* approval_instances
          steps,      \* approval_steps
          overdue,    \* due dates that have passed
          audit,      \* APPROVAL_STEP_DECIDED events: <<step, vote>>
          breaches,   \* APPROVAL_SLA_BREACHED events per <<instance, node>>
          proc        \* requests in flight

tables == <<invoice, instances, steps>>
logs   == <<audit, breaches>>
vars   == <<invoice, instances, steps, overdue, audit, breaches, proc>>

InstanceStatus == {"ACTIVE", "COMPLETED", "SUPERSEDED"}
Vote           == {"APPROVE", "REJECT"}
Verdict(v)     == IF v = "APPROVE" THEN "APPROVED" ELSE "REJECTED"

Idle == [pc |-> "idle", ret |-> <<>>, inst |-> 0, node |-> NoNode, step |-> 0,
         vote |-> "none", to |-> NoUser, seen |-> {}, outcome |-> "none",
         todo |-> {}, old |-> 0]

\* Position of the worker w; moving it to label l, or to a whole new record.
At(w, l)   == proc[w].pc = l
Set(w, p)  == proc' = [proc EXCEPT ![w] = p]
Goto(w, l) == Set(w, [proc[w] EXCEPT !.pc = l])

\* A finished call returns to the label its caller pushed, or ends the request.
After(p) == IF p.ret = <<>> THEN Idle
            ELSE [p EXCEPT !.pc = Head(p.ret), !.ret = Tail(p.ret)]
Return(w) == Set(w, After(proc[w]))
Fail(w)   == Set(w, Idle)     \* an exception leaves the handler; rows stay as written

\* The request goes on in advance, at node n of instance i.
Advancing(p, i, n) ==
  [Idle EXCEPT !.pc = "advance", !.inst = i, !.node = n,
               !.ret = p.ret, !.todo = p.todo, !.old = p.old]

InstanceOf(w) == instances[proc[w].inst]
GraphOf(w)    == Def[InstanceOf(w).workflow]
StepsAt(i, n) == {s \in DOMAIN steps : steps[s].inst = i /\ steps[s].node = n}
Pending(S)    == {s \in S : steps[s].status = "PENDING"}
ActiveIds     == {i \in DOMAIN instances : instances[i].status = "ACTIVE"}

\* UPDATE approval_steps SET status = x WHERE id IN S
SetStatus(S, x) ==
  [s \in DOMAIN steps |-> IF s \in S THEN [steps[s] EXCEPT !.status = x] ELSE steps[s]]

NewStep(i, n, u, due) ==
  [inst |-> i, node |-> n, approver |-> u, status |-> "PENDING", due |-> due, breached |-> FALSE]

-----------------------------------------------------------------------------
(* startInstance: its caller has pushed where to continue.  The SELECT of  *)
(* the PUBLISHED row may find any valid definition, or none.               *)

\* Mutant of StartInstance: approval_instances has no unique index.
StartInstanceUnchecked(w) ==
  /\ At(w, "start")
  /\ \E d \in Workflow :
       /\ instances' = Append(instances, [workflow |-> d, status |-> "ACTIVE",
                                          node |-> StartNode(Def[d]), link |-> 0])
       /\ Set(w, Advancing(proc[w], Len(instances) + 1, StartNode(Def[d])))
  /\ UNCHANGED <<invoice, steps, overdue, logs>>

StartInstance(w) ==
  /\ At(w, "start")
  /\ \/ Return(w) /\ UNCHANGED instances             \* none: left unrouted, null
     \/ /\ ActiveIds # {}                             \* the unique index refuses
        /\ Fail(w) /\ UNCHANGED instances
     \/ \E d \in Workflow :
          /\ ActiveIds = {}
          /\ instances' = Append(instances, [workflow |-> d, status |-> "ACTIVE",
                                             node |-> StartNode(Def[d]), link |-> 0])
          /\ Set(w, Advancing(proc[w], Len(instances) + 1, StartNode(Def[d])))
  /\ UNCHANGED <<invoice, steps, overdue, logs>>

-----------------------------------------------------------------------------
(* advance: the loop over instance.currentNodeId.                          *)

\* START and CONDITION resolve without writing; a CONDITION reads the invoice.
WalkTargets(w) ==
  LET g == GraphOf(w)  n == proc[w].node
  IN  {e.to : e \in CASE g.kind[n] = "START" -> FirstOf(g, ApproveOut(g, n))
                      [] g.kind[n] = "CONDITION" -> ConditionOut(g, n, invoice.amount)
                      [] OTHER -> {}}

AdvanceWalk(w) ==
  /\ At(w, "advance")
  /\ \E n \in WalkTargets(w) : Set(w, [proc[w] EXCEPT !.node = n])
  /\ UNCHANGED <<tables, overdue, logs>>

\* Mutant of AdvanceCreateSteps: an approver who approved this node in an earlier
\* attempt is not asked again, the vote is carried forward.
AdvanceCreateStepsCarry(w) ==
  /\ At(w, "advance")
  /\ LET i == proc[w].inst  n == proc[w].node  list == GraphOf(w).approvers[n]
         voted(u) == \E s \in DOMAIN steps : /\ steps[s].node = n /\ steps[s].approver = u
                                              /\ steps[s].status = "APPROVED"
         row(u) == [NewStep(i, n, u, 0)
                    EXCEPT !.status = IF voted(u) THEN "APPROVED" ELSE "PENDING"]
     IN  /\ GraphOf(w).kind[n] = "APPROVAL" /\ list # <<>>
         /\ steps' = steps \o [k \in 1..Len(list) |-> row(list[k])]
  /\ Goto(w, "park")
  /\ UNCHANGED <<invoice, instances, overdue, logs>>

\* Mutant of AdvanceCreateSteps: the node's steps are looked up by node alone, so
\* a restarted instance finds those of the attempt it replaces and adds none.
AdvanceCreateStepsOnce(w) ==
  /\ At(w, "advance")
  /\ LET i == proc[w].inst  n == proc[w].node  list == GraphOf(w).approvers[n]
     IN  /\ GraphOf(w).kind[n] = "APPROVAL" /\ list # <<>>
         /\ steps' = IF \E s \in DOMAIN steps : steps[s].node = n THEN steps
                     ELSE steps \o [k \in 1..Len(list) |-> NewStep(i, n, list[k], 0)]
  /\ Goto(w, "park")
  /\ UNCHANGED <<invoice, instances, overdue, logs>>

\* createStepsForNode: one INSERT of a PENDING step per approver.
AdvanceCreateSteps(w) ==
  /\ At(w, "advance")
  /\ LET i == proc[w].inst  n == proc[w].node  g == GraphOf(w)
         list == g.approvers[n]
         due == IF g.timed[n] THEN Len(steps) + 1 ELSE 0
     IN  /\ g.kind[n] = "APPROVAL"
         /\ list # <<>>
         /\ steps' = steps \o [k \in 1..Len(list) |-> NewStep(i, n, list[k], due)]
  /\ Goto(w, "park")
  /\ UNCHANGED <<invoice, instances, overdue, logs>>

\* "resolved to zero approvers", or no edge to follow: the handler throws.
AdvanceThrows(w) ==
  /\ At(w, "advance")
  /\ LET g == GraphOf(w)  n == proc[w].node
     IN  \/ g.kind[n] = "APPROVAL" /\ g.approvers[n] = <<>>
         \/ g.kind[n] \in {"START", "CONDITION"} /\ WalkTargets(w) = {}
  /\ Fail(w)
  /\ UNCHANGED <<tables, overdue, logs>>

\* The setCurrentNode that ends advance at an APPROVAL node.
Park(w) ==
  /\ At(w, "park")
  /\ instances' = [instances EXCEPT ![proc[w].inst].node = proc[w].node]
  /\ Return(w)
  /\ UNCHANGED <<invoice, steps, overdue, logs>>

\* Mutant of CompleteInstance: completing clears currentNodeId.
CompleteInstanceNowhere(w) ==
  /\ At(w, "advance") /\ GraphOf(w).kind[proc[w].node] \in {"END", "REJECT"}
  /\ instances' = [instances EXCEPT ![proc[w].inst].node = NoNode,
                                    ![proc[w].inst].status = "COMPLETED"]
  /\ Set(w, [proc[w] EXCEPT !.pc = "settle", !.outcome = "APPROVED"])
  /\ UNCHANGED <<invoice, steps, overdue, logs>>

\* completeInstance, first UPDATE: by id, whatever the instance's status is.
CompleteInstance(w) ==
  LET i == proc[w].inst  n == proc[w].node  kind == GraphOf(w).kind[n]
  IN  /\ \/ At(w, "complete")
         \/ At(w, "advance") /\ kind \in {"END", "REJECT"}
      /\ instances' = [instances EXCEPT ![i].node = n, ![i].status = "COMPLETED"]
      /\ Set(w, [proc[w] EXCEPT !.pc = "settle",
                   !.outcome = IF At(w, "advance") /\ kind = "END"
                               THEN "APPROVED" ELSE "REJECTED"])
      /\ UNCHANGED <<invoice, steps, overdue, logs>>

\* completeInstance, second UPDATE: by id, whatever the invoice's status is.
SettleInvoice(w) ==
  /\ At(w, "settle")
  /\ invoice' = [invoice EXCEPT !.status = proc[w].outcome]
  /\ Return(w)
  /\ UNCHANGED <<instances, steps, overdue, logs>>

-----------------------------------------------------------------------------
(* decideStep.                                                             *)

\* loadPendingStep and assertIsAssignedApprover: the approver the step is
\* assigned to answers.  The instance's status is not looked at.
DecideStep(w, s, v) ==
  /\ At(w, "idle")
  /\ Len(steps) <= MaxSteps
  /\ steps[s].status = "PENDING"
  /\ Set(w, [Idle EXCEPT !.pc = IF v = "APPROVE" THEN "authorise" ELSE "record",
                         !.inst = steps[s].inst, !.node = steps[s].node,
                         !.step = s, !.vote = v])
  /\ UNCHANGED <<tables, overdue, logs>>

\* assertHasApprovalAuthority: only an APPROVE asks, and none is refused while the
\* tenant does not enforce limits.  A missing total is within nobody's limit.
Authorise(w) ==
  /\ At(w, "authorise")
  /\ \E enforced \in Enforced :
       IF enforced => 0 < invoice.amount /\ invoice.amount <= Limit[steps[proc[w].step].approver]
       THEN Goto(w, "record") ELSE Fail(w)
  /\ UNCHANGED <<tables, overdue, logs>>

\* UPDATE the step by id alone: what happened to it since it was read is lost.
RecordDecision(w) ==
  /\ At(w, "record")
  /\ steps' = SetStatus({proc[w].step}, Verdict(proc[w].vote))
  /\ Goto(w, "log")
  /\ UNCHANGED <<invoice, instances, overdue, logs>>

LogDecision(w) ==
  /\ At(w, "log")
  /\ audit' = audit \cup {<<proc[w].step, proc[w].vote>>}
  /\ Goto(w, "tally")
  /\ UNCHANGED <<tables, overdue, breaches>>

\* Where a resolved node goes once its siblings are skipped: a rejection with
\* no reject edge completes the instance on the spot.
AfterSkip(g, n, outcome) ==
  IF outcome = "REJECTED" /\ RejectOut(g, n) = {} THEN "complete" ELSE "leave"

\* SELECT the node's steps (of every visit) and apply resolveNodeOutcome.
Tally(w) ==
  /\ At(w, "tally")
  /\ LET p == proc[w]  g == GraphOf(w)
         siblings == StepsAt(p.inst, p.node)
         outcome == NodeOutcome(g.mode[p.node], {steps[s].status : s \in siblings})
         others == Pending(siblings) \ {p.step}
     IN  IF outcome = "WAITING" THEN Return(w)    \* keep waiting for the others
         ELSE Set(w, [p EXCEPT !.outcome = outcome, !.seen = others,
                        !.pc = IF others = {} THEN AfterSkip(g, p.node, outcome)
                               ELSE "skip"])
  /\ UNCHANGED <<tables, overdue, logs>>

\* Mutant of SkipSiblings: the siblings stay PENDING.
SkipSiblingsNone(w) ==
  /\ At(w, "skip")
  /\ Set(w, [proc[w] EXCEPT !.seen = {},
               !.pc = AfterSkip(GraphOf(w), proc[w].node, proc[w].outcome)])
  /\ UNCHANGED <<tables, overdue, logs>>

\* skipPendingSiblings: the ids read before, whatever their status is now.
SkipSiblings(w) ==
  /\ At(w, "skip")
  /\ steps' = SetStatus(proc[w].seen, "SKIPPED")
  /\ Set(w, [proc[w] EXCEPT !.seen = {},
               !.pc = AfterSkip(GraphOf(w), proc[w].node, proc[w].outcome)])
  /\ UNCHANGED <<invoice, instances, overdue, logs>>

ExitOut(g, n, outcome) ==
  FirstOf(g, CASE outcome = "APPROVED" -> ApproveOut(g, n)
               [] outcome = "REJECTED" -> RejectOut(g, n)
               [] OTHER -> SlaOut(g, n))

\* setCurrentNode to the target of the edge taken; advance goes on from there.
LeaveNode(w) ==
  /\ At(w, "leave")
  /\ \E e \in ExitOut(GraphOf(w), proc[w].node, proc[w].outcome) :
       /\ instances' = [instances EXCEPT ![proc[w].inst].node = e.to]
       /\ Set(w, Advancing(proc[w], proc[w].inst, e.to))
  /\ UNCHANGED <<invoice, steps, overdue, logs>>

-----------------------------------------------------------------------------
(* delegateStep.                                                           *)

DelegateStep(w, s, u) ==
  /\ At(w, "idle")
  /\ Len(steps) <= MaxSteps
  /\ Cardinality({k \in DOMAIN steps : steps[k].status = "DELEGATED"}) < MaxDelegations
  /\ steps[s].status = "PENDING"
  /\ u # steps[s].approver
  /\ Set(w, [Idle EXCEPT !.pc = "handoff", !.inst = steps[s].inst,
                         !.node = steps[s].node, !.step = s, !.to = u])
  /\ UNCHANGED <<tables, overdue, logs>>

MarkDelegated(w) ==
  /\ At(w, "handoff")
  /\ steps' = SetStatus({proc[w].step}, "DELEGATED")
  /\ Goto(w, "replace")
  /\ UNCHANGED <<invoice, instances, overdue, logs>>

\* The replacement inherits slaDueAt, and not slaBreachedAt.
InsertDelegate(w) ==
  /\ At(w, "replace")
  /\ LET p == proc[w]
     IN  steps' = Append(steps, NewStep(p.inst, p.node, p.to, steps[p.step].due))
  /\ Return(w)
  /\ UNCHANGED <<invoice, instances, overdue, logs>>

-----------------------------------------------------------------------------
(* recallInstance: its caller has pushed where to continue.                *)

RecallCheck(w) ==
  /\ At(w, "recall")
  /\ IF invoice.status \in {"POSTED", "PAID"} THEN Fail(w) ELSE Goto(w, "recallFind")
  /\ UNCHANGED <<tables, overdue, logs>>

RecallFind(w) ==
  /\ At(w, "recallFind")
  /\ \/ /\ ActiveIds = {}
        /\ Return(w)
     \/ \E i \in ActiveIds : Set(w, [proc[w] EXCEPT !.pc = "cancel", !.old = i])
  /\ UNCHANGED <<tables, overdue, logs>>

\* Mutant of CancelSteps: every step of the instance, answered or not.
CancelStepsAll(w) ==
  /\ At(w, "cancel")
  /\ steps' = SetStatus({s \in DOMAIN steps : steps[s].inst = proc[w].old}, "CANCELLED")
  /\ Goto(w, "supersede")
  /\ UNCHANGED <<invoice, instances, overdue, logs>>

CancelSteps(w) ==
  /\ At(w, "cancel")
  /\ steps' = SetStatus(Pending({s \in DOMAIN steps : steps[s].inst = proc[w].old}), "CANCELLED")
  /\ Goto(w, "supersede")
  /\ UNCHANGED <<invoice, instances, overdue, logs>>

\* By id: an instance that completed in the meantime is superseded all the same.
Supersede(w) ==
  /\ At(w, "supersede")
  /\ instances' = [instances EXCEPT ![proc[w].old].status = "SUPERSEDED"]
  /\ Return(w)
  /\ UNCHANGED <<invoice, steps, overdue, logs>>

\* restartInstance, last statement: the superseded row points at the live one.
LinkSuccessor(w) ==
  /\ At(w, "link")
  /\ \/ /\ proc[w].old # 0 /\ proc[w].inst # 0
        /\ \E i \in ActiveIds : instances' = [instances EXCEPT ![proc[w].old].link = i]
     \/ /\ proc[w].old = 0 \/ proc[w].inst = 0 \/ ActiveIds = {}
        /\ UNCHANGED instances
  /\ Return(w)
  /\ UNCHANGED <<invoice, steps, overdue, logs>>

-----------------------------------------------------------------------------
(* escalateOverdueSteps, from the scheduler or the manual endpoint.        *)

Overdue == {s \in DOMAIN steps : /\ steps[s].status = "PENDING"
                                 /\ instances[steps[s].inst].status = "ACTIVE"
                                 /\ steps[s].due \in overdue
                                 /\ ~steps[s].breached}

\* findTenantsWithOverdueSteps: a tick leaves a tenant alone unless there is work.
WorkToSweep == Overdue # {}

\* findOverdueSteps, grouped to one entry per <<instance, node>>.  A request
\* may be the manual endpoint; the scheduler's own ticks never overlap each
\* other (sweepInFlight: its worker must be idle), but may overlap a request.
EscalateOverdue(w) ==
  /\ At(w, "idle")
  /\ WorkToSweep
  /\ Set(w, [Idle EXCEPT !.pc = "sweep",
                         !.todo = {<<steps[s].inst, steps[s].node>> : s \in Overdue}])
  /\ UNCHANGED <<tables, overdue, logs>>

SweepEnd(w) ==
  /\ At(w, "sweep") /\ proc[w].todo = {}
  /\ Return(w)
  /\ UNCHANGED <<tables, overdue, logs>>

\* Mutant of SweepSkip: the loop does not move on from a stale breach.
SweepSkipStays(w) ==
  /\ At(w, "sweep")
  /\ \E b \in proc[w].todo :
       instances[b[1]].status # "ACTIVE" \/ instances[b[1]].node # b[2]
  /\ UNCHANGED vars

\* Mutant of SweepSkip: a breach that nothing escalates is skipped as well.
SweepSkipUnescalated(w) ==
  /\ At(w, "sweep")
  /\ \E b \in proc[w].todo :
       /\ \/ instances[b[1]].status # "ACTIVE" \/ instances[b[1]].node # b[2]
          \/ SlaOut(Def[instances[b[1]].workflow], b[2]) = {}
       /\ Set(w, [proc[w] EXCEPT !.todo = @ \ {b}])
  /\ UNCHANGED <<tables, overdue, logs>>

\* The instance is read again: completed, or parked elsewhere, it is skipped.
SweepSkip(w) ==
  /\ At(w, "sweep")
  /\ \E b \in proc[w].todo :
       /\ instances[b[1]].status # "ACTIVE" \/ instances[b[1]].node # b[2]
       /\ Set(w, [proc[w] EXCEPT !.todo = @ \ {b}])
  /\ UNCHANGED <<tables, overdue, logs>>

SweepReport(w) ==
  /\ At(w, "sweep")
  /\ \E b \in proc[w].todo :
       /\ instances[b[1]].status = "ACTIVE" /\ instances[b[1]].node = b[2]
       /\ breaches' = [breaches EXCEPT ![b[1]][b[2]] = @ + 1]
       /\ Set(w, [proc[w] EXCEPT !.pc = "stamp", !.todo = @ \ {b},
                                 !.inst = b[1], !.node = b[2]])
  /\ UNCHANGED <<tables, overdue, audit>>

\* slaBreachedAt on the node's pending steps; no onSlaBreach edge, no move.
SweepStamp(w) ==
  /\ At(w, "stamp")
  /\ LET p == proc[w]
     IN  /\ steps' = [s \in DOMAIN steps |->
                        IF s \in Pending(StepsAt(p.inst, p.node))
                        THEN [steps[s] EXCEPT !.breached = TRUE] ELSE steps[s]]
         /\ Goto(w, IF SlaOut(GraphOf(w), p.node) = {} THEN "sweep" ELSE "sweepRead")
  /\ UNCHANGED <<invoice, instances, overdue, logs>>

SweepRead(w) ==
  /\ At(w, "sweepRead")
  /\ LET p == proc[w]  open == Pending(StepsAt(p.inst, p.node))
     IN  Set(w, [p EXCEPT !.outcome = "SLA", !.seen = open, !.ret = <<"sweep">>,
                          !.pc = IF open = {} THEN "leave" ELSE "skip"])
  /\ UNCHANGED <<tables, overdue, logs>>

\* The clock passes a due date.
DeadlinePasses ==
  /\ \E s \in DOMAIN steps :
       /\ steps[s].due # 0 /\ steps[s].due \notin overdue
       /\ overdue' = overdue \cup {steps[s].due}
  /\ UNCHANGED <<tables, logs, proc>>
-----------------------------------------------------------------------------
(* The engine under its own callers: an invoice at PENDING_APPROVAL is     *)
(* routed once, and may be recalled and re-routed (restartInstance).       *)

Starting == {w \in Worker : \E k \in DOMAIN proc[w].ret : proc[w].ret[k] = "start"}
              \cup {w \in Worker : At(w, "start")}

RequestStart(w) ==
  /\ At(w, "idle")
  /\ Len(instances) + Cardinality(Starting) < MaxInstances
  /\ invoice.status = "PENDING_APPROVAL"
  /\ Set(w, [Idle EXCEPT !.pc = "start"])
  /\ UNCHANGED <<tables, overdue, logs>>

RestartInstance(w) ==
  /\ At(w, "idle")
  /\ Len(instances) + Cardinality(Starting) < MaxInstances
  /\ Set(w, [Idle EXCEPT !.pc = "recall", !.ret = <<"start", "link">>])
  /\ UNCHANGED <<tables, overdue, logs>>

Init ==
  /\ invoice \in [status : {"PENDING_APPROVAL"}, amount : Amount]
  /\ instances = <<>>
  /\ steps = <<>>
  /\ overdue = {}
  /\ audit = {}
  /\ breaches = [i \in 1..MaxInstances |-> [n \in Node |-> 0]]
  /\ proc = [w \in Worker |-> Idle]

\* Every statement of a request in flight.
Proceed(w) ==
  \/ StartInstance(w) \/ AdvanceWalk(w) \/ AdvanceCreateSteps(w) \/ AdvanceThrows(w)
  \/ Park(w) \/ CompleteInstance(w) \/ SettleInvoice(w)
  \/ Authorise(w) \/ RecordDecision(w) \/ LogDecision(w)
  \/ Tally(w) \/ SkipSiblings(w) \/ LeaveNode(w)
  \/ MarkDelegated(w) \/ InsertDelegate(w)
  \/ RecallCheck(w) \/ RecallFind(w) \/ CancelSteps(w) \/ Supersede(w) \/ LinkSuccessor(w)
  \/ SweepEnd(w) \/ SweepSkip(w) \/ SweepReport(w) \/ SweepStamp(w) \/ SweepRead(w)

StepRequest(w) ==
  \E s \in DOMAIN steps : \/ \E v \in Vote : DecideStep(w, s, v)
                          \/ \E u \in User : DelegateStep(w, s, u)

Next ==
  \/ \E w \in Worker : Proceed(w) \/ EscalateOverdue(w)
  \/ \E w \in Worker \ Scheduler : StepRequest(w) \/ RequestStart(w) \/ RestartInstance(w)
  \/ DeadlinePasses

Spec == Init /\ [][Next]_vars

\* The event loop runs every request that can go on and the cron job ticks
\* every ten minutes; users need not act.
FairSpec == /\ Spec
            /\ \A w \in Worker : WF_vars(Proceed(w))
            /\ \A w \in Scheduler : WF_vars(EscalateOverdue(w))

\* The API process dies between two statements: the requests are gone, the
\* rows stay.
Crash ==
  /\ proc' = [w \in Worker |-> Idle]
  /\ UNCHANGED <<tables, overdue, logs>>

CrashSpec == Init /\ [][Next \/ Crash]_vars
=============================================================================
