-------------------------- MODULE ApprovalQueries --------------------------
(***************************************************************************)
(* What the engine shows: the queries of workflow-engine.service.ts.       *)
(* Nobody is notified when a step is created: an approver finds it in the  *)
(* inbox and a client finds "the approval" as the newest instance, so what *)
(* these queries leave out does not exist for the people concerned.        *)
(***************************************************************************)
EXTENDS ApprovalEngine

\* getInstance: the newest of the invoice's instances, with its steps and the attempts
\* before it, newest first.
CurrentInstance == Len(instances)
StepsOf(i)      == {s \in DOMAIN steps : steps[s].inst = i}
GetInstance     == [instance |-> instances[CurrentInstance], steps |-> StepsOf(CurrentInstance),
                    attempts |-> [k \in DOMAIN instances |-> instances[Len(instances) + 1 - k]]]

\* findPendingForApprover: what waits for u, of instances that are live.
Inbox(u) == {s \in DOMAIN steps : /\ steps[s].approver = u
                                  /\ steps[s].status = "PENDING"
                                  /\ instances[steps[s].inst].status = "ACTIVE"}

\* findHistoryForApprover: what u answered or handed on, of any instance.
History(u) == {s \in DOMAIN steps : /\ steps[s].approver = u
                                    /\ steps[s].status \in {"APPROVED", "REJECTED", "DELEGATED"}}

-----------------------------------------------------------------------------
(* getApprovalProgress.                                                    *)

NodesDecided(i) == {steps[s].node : s \in {k \in StepsOf(i) :
                                            steps[k].status \in {"APPROVED", "REJECTED"}}}

\* The walk follows the first approve edge of every node, of a condition too, until a
\* terminal or a node it has seen; it cannot take more steps than there are nodes.
NextOnPath(g, n) ==
  IF g.kind[n] \in {"END", "REJECT"} THEN {} ELSE {e.to : e \in FirstOf(g, ApproveOut(g, n))}
OptimisticPath(g, start) ==
  LET seen[k \in 0..Cardinality(Node)] ==
        IF k = 0 THEN {start}
        ELSE seen[k - 1] \cup UNION {NextOnPath(g, n) : n \in seen[k - 1]}
  IN  seen[Cardinality(Node)]

ApprovalsRemaining(i) ==
  LET g == Def[instances[i].workflow]
  IN  IF instances[i].status # "ACTIVE" THEN 0
      ELSE Cardinality({n \in OptimisticPath(g, instances[i].node) :
                          g.kind[n] = "APPROVAL" /\ n \notin NodesDecided(i)})

Progress(i) == [given |-> Cardinality(NodesDecided(i)), remaining |-> ApprovalsRemaining(i),
                total |-> Cardinality(NodesDecided(i)) + ApprovalsRemaining(i)]
=============================================================================
