------------------------ MODULE ApprovalEngineProofs ------------------------
(***************************************************************************)
(* Proofs about ApprovalEngine for every graph, any number of requests in  *)
(* flight, users and amounts.                                              *)
(*                                                                         *)
(* Typed is the inductive strengthening of TypeOK: a request holds ids of  *)
(* existing rows and the locals its next statement reads.  Every theorem   *)
(* below rests on it.                                                      *)
(***************************************************************************)
EXTENDS ApprovalProperties, SequenceTheorems, TLAPS

\* Positions at which a request works on an instance and a node of its graph.
AtNode == {"advance", "park", "complete", "settle", "authorise", "record", "log", "tally",
           "skip", "leave", "handoff", "replace", "stamp", "sweepRead"}
\* ... on a step of that node; ... to record an answer; ... to hand it off.
AtStep  == {"authorise", "record", "log", "tally", "handoff", "replace"}
AtVote  == {"authorise", "record", "log", "tally"}

\* A request may hold these locals while the tables have ni and ns rows.
RequestOK(p, ni, ns) ==
  /\ p \in Request
  /\ p.pc \in AtNode => p.inst \in 1..ni /\ p.node \in Node
  /\ p.pc \in AtStep => p.step \in 1..ns
  /\ p.pc \in AtVote => p.vote \in Vote
  /\ p.pc \in {"handoff", "replace"} => p.to \in User
  /\ p.pc = "settle" => p.outcome \in {"APPROVED", "REJECTED"}
  /\ p.pc \in {"cancel", "supersede"} => p.old \in 1..ni
  /\ p.old \in 0..ni
  /\ p.todo \subseteq (1..ni) \X Node

StepsOK(ni) ==
  /\ steps \in Seq(Step)
  /\ \A s \in DOMAIN steps : steps[s].inst \in 1..ni

Typed ==
  /\ instances \in Seq(Instance)
  /\ StepsOK(Len(instances))
  /\ overdue \subseteq Nat
  /\ audit \subseteq Nat \X Vote
  /\ breaches \in [1..MaxInstances -> [Node -> Nat]]
  /\ proc \in [Worker -> Request]
  /\ \A w \in Worker : RequestOK(proc[w], Len(instances), Len(steps))

-----------------------------------------------------------------------------
(* Graphs.                                                                 *)

LEMMA DefIsGraph == ASSUME NEW d \in Workflow PROVE Def[d] \in Graph
  BY WorkflowAssumption

LEMMA EdgeType ==
  ASSUME NEW g \in Graph, NEW e \in EdgesOf(g) PROVE e \in Edge
  <1>1. g.edges \in Seq(Edge)
    BY DEF Graph
  <1> QED
    BY <1>1 DEF EdgesOf

LEMMA StartNodeType ==
  ASSUME NEW d \in Workflow
  PROVE  StartNode(Def[d]) \in Node /\ Def[d].kind[StartNode(Def[d])] = "START"
  <1>1. \E n \in Node : Def[d].kind[n] = "START"
    BY WorkflowAssumption DEF ValidGraph
  <1> QED
    BY <1>1 DEF StartNode

LEMMA FirstOfEdge ==
  ASSUME NEW g, NEW S, NEW e \in FirstOf(g, S) PROVE e \in EdgesOf(g) /\ e \in S
  BY DEF FirstOf, EdgesOf

-----------------------------------------------------------------------------
(* Requests and rows.                                                      *)

LEMMA IdleOK == ASSUME NEW ni \in Nat, NEW ns \in Nat PROVE RequestOK(Idle, ni, ns)
  BY DEF RequestOK, Request, Label, Idle, AtNode, AtStep, AtVote, Vote

LEMMA IdleRequest == Idle \in Request
  BY DEF Request, Label, Idle

LEMMA RequestGrows ==
  ASSUME NEW p, NEW ni \in Nat, NEW ns \in Nat, RequestOK(p, ni, ns),
         NEW mi \in Nat, NEW ms \in Nat, ni <= mi, ns <= ms
  PROVE  RequestOK(p, mi, ms)
  BY DEF RequestOK

LEMMA AfterOK ==
  ASSUME NEW p, NEW ni \in Nat, NEW ns \in Nat, RequestOK(p, ni, ns)
  PROVE  RequestOK(After(p), ni, ns)
  <1>1. CASE p.ret = <<>>
    BY <1>1, IdleOK DEF After
  <1>2. CASE p.ret # <<>>
    <2> DEFINE q == [p EXCEPT !.pc = Head(p.ret), !.ret = Tail(p.ret)]
    <2>1. /\ Head(p.ret) \in Resumed
          /\ Tail(p.ret) \in Seq(Resumed)
      BY <1>2 DEF RequestOK, Request
    <2>2. q \in Request
      <3>1. Head(p.ret) \in Label \cup HandlerLabel
        BY <2>1 DEF Resumed, Label, HandlerLabel
      <3> QED
        BY <2>1, <3>1 DEF RequestOK, Request
    <2>3. /\ q.pc \in Resumed
          /\ q.old = p.old /\ q.todo = p.todo
      BY <2>1 DEF RequestOK, Request
    <2> QED
      BY <2>2, <2>3, <1>2 DEF RequestOK, After, Resumed, AtNode, AtStep, AtVote
  <1> QED
    BY <1>1, <1>2

LEMMA AdvancingOK ==
  ASSUME NEW p, NEW ni \in Nat, NEW ns \in Nat, RequestOK(p, ni, ns),
         NEW i \in 1..ni, NEW n \in Node
  PROVE  RequestOK(Advancing(p, i, n), ni, ns)
  <1> DEFINE q == Advancing(p, i, n)
  <1>1. /\ q.pc = "advance" /\ q.inst = i /\ q.node = n
        /\ q.old = p.old /\ q.todo = p.todo
    BY DEF Advancing, Idle
  <1>2. q \in Request
    <2>1. /\ p.ret \in Seq(Resumed) /\ p.old \in Nat
          /\ p.todo \in SUBSET (Nat \X Node) /\ i \in Nat
      BY DEF RequestOK, Request
    <2> QED
      BY <2>1 DEF Advancing, Idle, Request, Label
  <1> QED
    BY <1>1, <1>2 DEF RequestOK, AtNode, AtStep, AtVote

LEMMA MoveInstanceOK ==
  ASSUME Typed, NEW i \in DOMAIN instances, NEW n \in Node
  PROVE  /\ [instances EXCEPT ![i].node = n] \in Seq(Instance)
         /\ Len([instances EXCEPT ![i].node = n]) = Len(instances)
  <1>1. i \in 1..Len(instances) /\ instances[i] \in Instance
    BY LenProperties DEF Typed
  <1>2. [instances[i] EXCEPT !.node = n] \in Instance
    BY <1>1 DEF Instance
  <1> QED
    BY <1>1, <1>2, ExceptSeq DEF Typed

LEMMA CloseInstanceOK ==
  ASSUME Typed, NEW i \in DOMAIN instances, NEW x \in InstanceStatus
  PROVE  /\ [instances EXCEPT ![i].status = x] \in Seq(Instance)
         /\ Len([instances EXCEPT ![i].status = x]) = Len(instances)
  <1>1. i \in 1..Len(instances) /\ instances[i] \in Instance
    BY LenProperties DEF Typed
  <1>2. [instances[i] EXCEPT !.status = x] \in Instance
    BY <1>1 DEF Instance
  <1> QED
    BY <1>1, <1>2, ExceptSeq DEF Typed

LEMMA LinkInstanceOK ==
  ASSUME Typed, NEW i \in DOMAIN instances, NEW j \in Nat
  PROVE  /\ [instances EXCEPT ![i].link = j] \in Seq(Instance)
         /\ Len([instances EXCEPT ![i].link = j]) = Len(instances)
  <1>1. i \in 1..Len(instances) /\ instances[i] \in Instance
    BY LenProperties DEF Typed
  <1>2. [instances[i] EXCEPT !.link = j] \in Instance
    BY <1>1 DEF Instance
  <1> QED
    BY <1>1, <1>2, ExceptSeq DEF Typed

LEMMA SetStatusOK ==
  ASSUME Typed, NEW S, NEW x \in StepStatus
  PROVE  /\ SetStatus(S, x) \in Seq(Step)
         /\ Len(SetStatus(S, x)) = Len(steps)
         /\ \A s \in DOMAIN steps : SetStatus(S, x)[s].inst = steps[s].inst
  <1>1. DOMAIN steps = 1..Len(steps) /\ Len(steps) \in Nat
    BY LenProperties DEF Typed, StepsOK
  <1>2. \A s \in DOMAIN steps : steps[s] \in Step
    BY DEF Typed, StepsOK
  <1>3. \A s \in DOMAIN steps : /\ [steps[s] EXCEPT !.status = x] \in Step
                                /\ [steps[s] EXCEPT !.status = x].inst = steps[s].inst
    BY <1>2 DEF Step
  <1>4. SetStatus(S, x) \in [1..Len(steps) -> Step]
    BY <1>1, <1>2, <1>3 DEF SetStatus
  <1>5. SetStatus(S, x) \in Seq(Step)
    BY <1>1, <1>4, SeqDef
  <1> QED
    BY <1>1, <1>3, <1>4, <1>5, LenProperties DEF SetStatus

\* What a step has to establish, in two forms.
LEMMA Assemble ==
  ASSUME Typed, NEW w \in Worker, NEW p, Set(w, p),
         instances' \in Seq(Instance), Len(instances) <= Len(instances'),
         steps' \in Seq(Step), Len(steps) <= Len(steps'),
         \A s \in DOMAIN steps' : steps'[s].inst \in 1..Len(instances'),
         RequestOK(p, Len(instances'), Len(steps')),
         overdue' \subseteq Nat, audit' \subseteq Nat \X Vote,
         breaches' \in [1..MaxInstances -> [Node -> Nat]]
  PROVE  Typed'
  <1>1. /\ Len(instances) \in Nat /\ Len(instances') \in Nat
        /\ Len(steps) \in Nat /\ Len(steps') \in Nat
    BY LenProperties DEF Typed, StepsOK
  <1>2. ASSUME NEW v \in Worker
        PROVE  RequestOK(proc'[v], Len(instances'), Len(steps'))
    <2>1. CASE v = w
      BY <2>1 DEF Set, Typed
    <2>2. CASE v # w
      <3>1. proc'[v] = proc[v]
        BY <2>2 DEF Set, Typed
      <3>2. RequestOK(proc[v], Len(instances), Len(steps))
        BY DEF Typed
      <3> QED
        BY <1>1, <3>1, <3>2, RequestGrows
    <2> QED
      BY <2>1, <2>2
  <1>3. proc' \in [Worker -> Request]
    BY DEF Typed, Set, RequestOK
  <1> QED
    BY <1>2, <1>3 DEF Typed, StepsOK

LEMMA OnlyRequest ==
  ASSUME Typed, NEW w \in Worker, NEW p, Set(w, p), UNCHANGED <<tables, overdue, logs>>,
         RequestOK(p, Len(instances), Len(steps))
  PROVE  Typed'
  <1>1. /\ Len(instances) \in Nat /\ Len(steps) \in Nat
    BY LenProperties DEF Typed, StepsOK
  <1> QED
    BY <1>1, Assemble DEF Typed, StepsOK, tables, logs

LEMMA OnlyInstances ==
  ASSUME Typed, NEW w \in Worker, NEW p, Set(w, p),
         UNCHANGED <<invoice, steps, overdue, logs>>,
         instances' \in Seq(Instance), Len(instances) <= Len(instances'),
         RequestOK(p, Len(instances'), Len(steps))
  PROVE  Typed'
  <1>1. /\ Len(instances) \in Nat /\ Len(instances') \in Nat /\ Len(steps) \in Nat
    BY LenProperties DEF Typed, StepsOK
  <1>2. \A s \in DOMAIN steps' : steps'[s].inst \in 1..Len(instances')
    BY <1>1 DEF Typed, StepsOK
  <1>3. steps' \in Seq(Step) /\ steps' = steps
    BY DEF Typed, StepsOK
  <1>4. /\ overdue' \subseteq Nat /\ audit' \subseteq Nat \X Vote
        /\ breaches' \in [1..MaxInstances -> [Node -> Nat]]
    BY DEF Typed, logs
  <1> QED
    BY <1>1, <1>2, <1>3, <1>4, Assemble

LEMMA OnlySteps ==
  ASSUME Typed, NEW w \in Worker, NEW p, Set(w, p),
         UNCHANGED <<invoice, instances, overdue, logs>>,
         steps' \in Seq(Step), Len(steps) <= Len(steps'),
         \A s \in DOMAIN steps' : steps'[s].inst \in 1..Len(instances),
         RequestOK(p, Len(instances), Len(steps'))
  PROVE  Typed'
  <1>1. Len(instances) \in Nat
    BY LenProperties DEF Typed
  <1> QED
    BY <1>1, Assemble DEF Typed, StepsOK, logs

\* A request may move to a label that needs no more locals than it has.
LEMMA MoveOK ==
  ASSUME NEW p, NEW ni \in Nat, NEW ns \in Nat, RequestOK(p, ni, ns),
         NEW l \in Label \cup HandlerLabel,
         l \in AtNode => p.pc \in AtNode,
         l \in AtStep => p.pc \in AtStep,
         l \in AtVote => p.pc \in AtVote,
         l \in {"handoff", "replace"} => p.pc \in {"handoff", "replace"},
         l \in {"cancel", "supersede"} => p.pc \in {"cancel", "supersede"},
         l # "settle"
  PROVE  RequestOK([p EXCEPT !.pc = l], ni, ns)
  <1>1. [p EXCEPT !.pc = l] \in Request
    BY DEF RequestOK, Request
  <1>2. /\ [p EXCEPT !.pc = l].pc = l
        /\ [p EXCEPT !.pc = l].inst = p.inst /\ [p EXCEPT !.pc = l].node = p.node
        /\ [p EXCEPT !.pc = l].step = p.step /\ [p EXCEPT !.pc = l].vote = p.vote
        /\ [p EXCEPT !.pc = l].to = p.to /\ [p EXCEPT !.pc = l].old = p.old
        /\ [p EXCEPT !.pc = l].todo = p.todo
    BY DEF RequestOK, Request
  <1> QED
    BY <1>1, <1>2 DEF RequestOK

\* ... and anywhere on the node it works on.
LEMMA OnNodeOK ==
  ASSUME NEW p, NEW ni \in Nat, NEW ns \in Nat, RequestOK(p, ni, ns), p.pc \in AtNode,
         NEW q \in Request, q.pc \in {"skip", "leave", "complete"},
         q.inst = p.inst, q.node = p.node, q.old = p.old, q.todo = p.todo
  PROVE  RequestOK(q, ni, ns)
  BY DEF RequestOK, AtStep, AtVote

LEMMA SettleOK ==
  ASSUME NEW p, NEW ni \in Nat, NEW ns \in Nat, RequestOK(p, ni, ns), p.pc \in AtNode,
         NEW outcome \in {"APPROVED", "REJECTED"}
  PROVE  RequestOK([p EXCEPT !.pc = "settle", !.outcome = outcome], ni, ns)
  <1> DEFINE q == [p EXCEPT !.pc = "settle", !.outcome = outcome]
  <1>1. q \in Request
    BY DEF RequestOK, Request, Label
  <1>2. /\ q.pc = "settle" /\ q.outcome = outcome /\ q.inst = p.inst /\ q.node = p.node
        /\ q.old = p.old /\ q.todo = p.todo
    BY DEF RequestOK, Request
  <1> HIDE DEF q
  <1>3. RequestOK(q, ni, ns)
    BY <1>1, <1>2 DEF RequestOK, AtStep, AtVote
  <1> QED
    BY <1>3 DEF q

-----------------------------------------------------------------------------
(* Typed is inductive: one lemma per handler.                              *)

LEMMA Sizes == ASSUME Typed
               PROVE  /\ Len(instances) \in Nat /\ DOMAIN instances = 1..Len(instances)
                      /\ Len(steps) \in Nat /\ DOMAIN steps = 1..Len(steps)
  BY LenProperties DEF Typed, StepsOK

LEMMA Rows == ASSUME Typed
              PROVE  /\ \A i \in DOMAIN instances : instances[i] \in Instance
                     /\ \A s \in DOMAIN steps : steps[s] \in Step
                     /\ \A s \in DOMAIN steps : steps[s].inst \in DOMAIN instances
  BY Sizes DEF Typed, StepsOK

LEMMA TypedInit == Init => Typed
  <1> SUFFICES ASSUME Init PROVE Typed
    OBVIOUS
  <1>1. instances \in Seq(Instance) /\ steps \in Seq(Step) /\ Len(instances) = 0 /\ Len(steps) = 0
    BY DEF Init
  <1>2. \A w \in Worker : RequestOK(proc[w], Len(instances), Len(steps))
    BY <1>1, IdleOK DEF Init
  <1> QED
    BY <1>1, <1>2, IdleRequest DEF Init, Typed, StepsOK

\* The graph a request walks, and the row it works on.
LEMMA AtNodeFacts ==
  ASSUME Typed, NEW w \in Worker, proc[w].pc \in AtNode
  PROVE  /\ proc[w].inst \in DOMAIN instances /\ proc[w].node \in Node
         /\ InstanceOf(w) \in Instance /\ GraphOf(w) \in Graph
  <1>1. RequestOK(proc[w], Len(instances), Len(steps))
    BY DEF Typed
  <1>2. proc[w].inst \in DOMAIN instances /\ proc[w].node \in Node
    BY <1>1, Sizes DEF RequestOK
  <1>3. InstanceOf(w) \in Instance
    BY <1>2, Rows DEF InstanceOf
  <1> QED
    BY <1>2, <1>3, DefIsGraph DEF GraphOf, Instance

LEMMA EdgeTarget ==
  ASSUME NEW g \in Graph, NEW S, NEW e \in FirstOf(g, S) PROVE e.to \in Node
  BY FirstOfEdge, EdgeType DEF Edge

\* An UPDATE of the status of some steps.
LEMMA WriteStatusOK ==
  ASSUME Typed, NEW S, NEW x \in StepStatus, steps' = SetStatus(S, x)
  PROVE  /\ steps' \in Seq(Step) /\ Len(steps') = Len(steps)
         /\ \A s \in DOMAIN steps' : steps'[s].inst \in 1..Len(instances)
  <1>1. /\ steps' \in Seq(Step) /\ Len(steps') = Len(steps)
        /\ \A s \in DOMAIN steps : steps'[s].inst = steps[s].inst
    BY SetStatusOK
  <1>2. DOMAIN steps' = DOMAIN steps
    BY <1>1, LenProperties, Sizes
  <1> QED
    BY <1>1, <1>2, Rows, Sizes

LEMMA AddStepsOK ==
  ASSUME Typed, NEW i \in DOMAIN instances, NEW new \in Seq(Step),
         \A k \in 1..Len(new) : new[k].inst = i,
         steps' = steps \o new
  PROVE  /\ steps' \in Seq(Step) /\ Len(steps') \in Nat
         /\ Len(steps) <= Len(steps')
         /\ \A s \in DOMAIN steps : steps'[s] = steps[s]
         /\ \A s \in DOMAIN steps' \ DOMAIN steps :
              \E k \in 1..Len(new) : steps'[s] = new[k]
         /\ \A s \in DOMAIN steps' : steps'[s].inst \in 1..Len(instances)
  <1>1. steps \in Seq(Step) /\ Len(new) \in Nat
    BY LenProperties DEF Typed, StepsOK
  <1>2. /\ steps \o new \in Seq(Step)
        /\ Len(steps \o new) = Len(steps) + Len(new)
        /\ \A s \in 1..(Len(steps) + Len(new)) :
             (steps \o new)[s] = IF s <= Len(steps) THEN steps[s] ELSE new[s - Len(steps)]
    BY <1>1, ConcatProperties
  <1>3. DOMAIN steps' = 1..(Len(steps) + Len(new))
    BY <1>2, LenProperties
  <1>4. \A s \in DOMAIN steps : steps'[s] = steps[s]
    BY <1>1, <1>2, Sizes
  <1>5. ASSUME NEW s \in DOMAIN steps' \ DOMAIN steps
        PROVE  \E k \in 1..Len(new) : steps'[s] = new[k]
    <2>1. s - Len(steps) \in 1..Len(new) /\ ~(s <= Len(steps))
      BY <1>1, <1>3, Sizes
    <2> QED
      BY <1>2, <1>3, <2>1
  <1>6. \A s \in DOMAIN steps' : steps'[s].inst \in 1..Len(instances)
    BY <1>4, <1>5, Rows, Sizes
  <1> QED
    BY <1>1, <1>2, <1>4, <1>5, <1>6, Sizes

\* The rows createStepsForNode inserts.
LEMMA NewStepsOK ==
  ASSUME Typed, NEW w \in Worker, proc[w].pc = "advance"
  PROVE  LET p    == proc[w]
             list == GraphOf(w).approvers[p.node]
             due  == IF GraphOf(w).timed[p.node] THEN Len(steps) + 1 ELSE 0
             new  == [k \in 1..Len(list) |-> NewStep(p.inst, p.node, list[k], due)]
         IN  /\ new \in Seq(Step)
             /\ \A k \in 1..Len(new) : /\ new[k].inst = p.inst /\ new[k].node = p.node
                                        /\ new[k].status = "PENDING"
  <1> DEFINE p == proc[w]
             list == GraphOf(w).approvers[p.node]
             due == IF GraphOf(w).timed[p.node] THEN Len(steps) + 1 ELSE 0
             new == [k \in 1..Len(list) |-> NewStep(p.inst, p.node, list[k], due)]
  <1>1. p.inst \in DOMAIN instances /\ p.node \in Node /\ GraphOf(w) \in Graph
    BY AtNodeFacts DEF AtNode
  <1>2. list \in Seq(User) /\ due \in Nat
    BY <1>1, Sizes DEF Graph
  <1>3. \A k \in 1..Len(list) : LET r == NewStep(p.inst, p.node, list[k], due)
                                IN  /\ r \in Step
                                    /\ r.inst = p.inst /\ r.node = p.node /\ r.status = "PENDING"
    BY <1>1, <1>2, Sizes DEF NewStep, Step, StepStatus
  <1>4. /\ new \in [1..Len(list) -> Step]
        /\ \A k \in 1..Len(list) : /\ new[k].inst = p.inst /\ new[k].node = p.node
                                    /\ new[k].status = "PENDING"
    BY <1>3
  <1>5. new \in Seq(Step) /\ Len(new) = Len(list)
    BY <1>2, <1>4, SeqDef
  <1> QED
    BY <1>4, <1>5

\* advance.
LEMMA TypedAdvance ==
  ASSUME Typed, NEW w \in Worker,
         \/ StartInstance(w) \/ AdvanceWalk(w) \/ AdvanceCreateSteps(w)
         \/ AdvanceThrows(w) \/ Park(w)
  PROVE  Typed'
  <1> DEFINE p == proc[w]  ni == Len(instances)  ns == Len(steps)
  <1>0. RequestOK(p, ni, ns) /\ ni \in Nat /\ ns \in Nat
    BY Sizes DEF Typed
  <1>1. CASE StartInstance(w)
    <2>1. CASE Return(w) /\ UNCHANGED instances
      BY <1>0, <1>1, <2>1, AfterOK, OnlyRequest DEF StartInstance, Return, tables
    <2>2. CASE Fail(w) /\ UNCHANGED instances
      BY <1>0, <1>1, <2>2, IdleOK, OnlyRequest DEF StartInstance, Fail, tables
    <2>3. ASSUME NEW d \in Workflow,
                 instances' = Append(instances, [workflow |-> d, status |-> "ACTIVE",
                                                 node |-> StartNode(Def[d]), link |-> 0]),
                 Set(w, Advancing(p, ni + 1, StartNode(Def[d])))
          PROVE  Typed'
      <3>1. StartNode(Def[d]) \in Node
        BY StartNodeType
      <3>2. [workflow |-> d, status |-> "ACTIVE", node |-> StartNode(Def[d]), link |-> 0]
              \in Instance
        BY <3>1 DEF Instance, InstanceStatus
      <3>3. instances' \in Seq(Instance) /\ Len(instances') = ni + 1
        BY <2>3, <3>2 DEF Typed
      <3>4. RequestOK(p, ni + 1, ns)
        BY <1>0, RequestGrows
      <3>5. RequestOK(Advancing(p, ni + 1, StartNode(Def[d])), ni + 1, ns)
        BY <1>0, <3>1, <3>4, AdvancingOK
      <3> QED
        BY <1>0, <1>1, <2>3, <3>3, <3>5, OnlyInstances DEF StartInstance
    <2> QED
      BY <1>1, <2>1, <2>2, <2>3 DEF StartInstance
  <1>2. CASE AdvanceWalk(w)
    <2>1. PICK n \in WalkTargets(w) : Set(w, [p EXCEPT !.node = n])
      BY <1>2 DEF AdvanceWalk
    <2>2. p.pc = "advance"
      BY <1>2 DEF AdvanceWalk, At
    <2>3. GraphOf(w) \in Graph
      BY <2>2, AtNodeFacts DEF AtNode
    <2>4. n \in Node
      BY <2>1, <2>3, EdgeTarget DEF WalkTargets, ConditionOut
    <2>5. RequestOK([p EXCEPT !.node = n], ni, ns)
      BY <1>0, <2>2, <2>4 DEF RequestOK, Request, AtNode, AtStep, AtVote
    <2> QED
      BY <1>2, <2>1, <2>5, OnlyRequest DEF AdvanceWalk
  <1>3. CASE AdvanceCreateSteps(w)
    <2> DEFINE list == GraphOf(w).approvers[p.node]
               due == IF GraphOf(w).timed[p.node] THEN ns + 1 ELSE 0
               new == [k \in 1..Len(list) |-> NewStep(p.inst, p.node, list[k], due)]
    <2>1. p.pc = "advance" /\ steps' = steps \o new
      BY <1>3 DEF AdvanceCreateSteps, At
    <2>2. p.inst \in DOMAIN instances
      BY <2>1, AtNodeFacts DEF AtNode
    <2>3. new \in Seq(Step) /\ \A k \in 1..Len(new) : new[k].inst = p.inst
      BY <2>1, NewStepsOK
    <2> HIDE DEF new
    <2>4. /\ steps' \in Seq(Step) /\ ns <= Len(steps') /\ Len(steps') \in Nat
          /\ \A s \in DOMAIN steps' : steps'[s].inst \in 1..ni
      BY <2>1, <2>2, <2>3, AddStepsOK
    <2>5. RequestOK([p EXCEPT !.pc = "park"], ni, ns)
      BY <1>0, <2>1, MoveOK DEF Label, AtNode, AtStep, AtVote
    <2>6. RequestOK([p EXCEPT !.pc = "park"], ni, Len(steps'))
      BY <1>0, <2>4, <2>5, RequestGrows
    <2>7. /\ Set(w, [p EXCEPT !.pc = "park"])
          /\ UNCHANGED <<invoice, instances, overdue, logs>>
      BY <1>3 DEF AdvanceCreateSteps, Goto
    <2> QED
      BY <1>0, <2>4, <2>6, <2>7, OnlySteps
  <1>4. CASE AdvanceThrows(w)
    BY <1>0, <1>4, IdleOK, OnlyRequest DEF AdvanceThrows, Fail
  <1>5. CASE Park(w)
    <2>1. p.inst \in DOMAIN instances /\ p.node \in Node
      BY <1>5, AtNodeFacts DEF Park, At, AtNode
    <2>2. instances' \in Seq(Instance) /\ Len(instances') = ni
      BY <1>5, <2>1, MoveInstanceOK DEF Park
    <2> QED
      BY <1>0, <1>5, <2>2, AfterOK, OnlyInstances DEF Park, Return
  <1> QED
    BY <1>1, <1>2, <1>3, <1>4, <1>5

\* completeInstance.
LEMMA TypedComplete ==
  ASSUME Typed, NEW w \in Worker, CompleteInstance(w) \/ SettleInvoice(w)
  PROVE  Typed'
  <1> DEFINE p == proc[w]  ni == Len(instances)  ns == Len(steps)
  <1>0. RequestOK(p, ni, ns) /\ ni \in Nat /\ ns \in Nat
    BY Sizes DEF Typed
  <1>1. CASE CompleteInstance(w)
    <2> DEFINE x == IF At(w, "advance") /\ GraphOf(w).kind[p.node] = "END"
                    THEN "APPROVED" ELSE "REJECTED"
               q == [p EXCEPT !.pc = "settle", !.outcome = x]
    <2>1. p.pc \in AtNode
      BY <1>1 DEF CompleteInstance, At, AtNode
    <2>2. p.inst \in DOMAIN instances /\ p.node \in Node
      BY <2>1, AtNodeFacts
    <2>4. [instances[p.inst] EXCEPT !.node = p.node, !.status = "COMPLETED"] \in Instance
      BY <2>2, Rows DEF Instance, InstanceStatus
    <2>5. instances' = [instances EXCEPT ![p.inst] =
             [instances[p.inst] EXCEPT !.node = p.node, !.status = "COMPLETED"]]
      BY <1>1, <2>2 DEF CompleteInstance
    <2>6. instances' \in Seq(Instance) /\ Len(instances') = ni
      BY <2>2, <2>4, <2>5, ExceptSeq, Sizes DEF Typed
    <2>7. x \in {"APPROVED", "REJECTED"}
      OBVIOUS
    <2> HIDE DEF x
    <2>8. RequestOK(q, ni, ns)
      BY <1>0, <2>1, <2>7, SettleOK
    <2>9. Set(w, q)
      BY <1>1 DEF CompleteInstance, x
    <2> QED
      BY <1>0, <1>1, <2>6, <2>8, <2>9, OnlyInstances DEF CompleteInstance
  <1>2. CASE SettleInvoice(w)
    <2>1. RequestOK(After(p), ni, ns)
      BY <1>0, AfterOK
    <2>2. /\ instances' \in Seq(Instance) /\ instances' = instances
          /\ steps' \in Seq(Step) /\ steps' = steps
          /\ \A s \in DOMAIN steps' : steps'[s].inst \in 1..Len(instances')
          /\ overdue' \subseteq Nat /\ audit' \subseteq Nat \X Vote
          /\ breaches' \in [1..MaxInstances -> [Node -> Nat]]
      BY <1>2 DEF SettleInvoice, Typed, StepsOK, logs
    <2> QED
      BY <1>0, <1>2, <2>1, <2>2, Assemble DEF SettleInvoice, Return
  <1> QED
    BY <1>1, <1>2

\* decideStep.
LEMMA TypedDecide ==
  ASSUME Typed, NEW w \in Worker,
         \/ \E s \in DOMAIN steps, v \in Vote : DecideStep(w, s, v)
         \/ Authorise(w) \/ RecordDecision(w) \/ LogDecision(w)
         \/ Tally(w) \/ SkipSiblings(w) \/ LeaveNode(w)
  PROVE  Typed'
  <1> DEFINE p == proc[w]  ni == Len(instances)  ns == Len(steps)
  <1>0. RequestOK(p, ni, ns) /\ ni \in Nat /\ ns \in Nat
    BY Sizes DEF Typed
  <1>1. ASSUME NEW s \in DOMAIN steps, NEW v \in Vote, DecideStep(w, s, v)
        PROVE  Typed'
    <2> DEFINE q == [Idle EXCEPT !.pc = IF v = "APPROVE" THEN "authorise" ELSE "record",
                                 !.inst = steps[s].inst, !.node = steps[s].node,
                                 !.step = s, !.vote = v]
    <2>1. s \in 1..ns /\ steps[s].inst \in 1..ni /\ steps[s].node \in Node
      BY Rows, Sizes DEF Step
    <2>2. q \in Request
      <3>1. s \in Nat /\ steps[s].inst \in Nat /\ v \in Vote \cup {"none"}
        BY <1>0, <2>1
      <3>2. (IF v = "APPROVE" THEN "authorise" ELSE "record") \in Label
        BY DEF Label
      <3> QED
        BY <2>1, <3>1, <3>2, IdleRequest DEF Request
    <2>3. /\ q.pc \in {"authorise", "record"} /\ q.inst = steps[s].inst
          /\ q.node = steps[s].node /\ q.step = s /\ q.vote = v /\ q.old = 0 /\ q.todo = {}
      BY DEF Idle
    <2>4. Set(w, q)
      BY <1>1 DEF DecideStep
    <2> HIDE DEF q
    <2>5. RequestOK(q, ni, ns)
      BY <1>0, <2>1, <2>2, <2>3 DEF RequestOK
    <2> QED
      BY <1>1, <2>4, <2>5, OnlyRequest DEF DecideStep
  <1>2. CASE Authorise(w)
    <2>1. RequestOK([p EXCEPT !.pc = "record"], ni, ns)
      BY <1>0, <1>2, MoveOK DEF Authorise, At, Label, AtNode, AtStep, AtVote
    <2>2. Set(w, [p EXCEPT !.pc = "record"]) \/ Set(w, Idle)
      BY <1>2 DEF Authorise, Goto, Fail
    <2> QED
      BY <1>0, <1>2, <2>1, <2>2, IdleOK, OnlyRequest DEF Authorise
  <1>3. CASE RecordDecision(w)
    <2>1. RequestOK([p EXCEPT !.pc = "log"], ni, ns)
      BY <1>0, <1>3, MoveOK DEF RecordDecision, At, Label, AtNode, AtStep, AtVote
    <2>2. /\ steps' \in Seq(Step) /\ Len(steps') = ns
          /\ \A s \in DOMAIN steps' : steps'[s].inst \in 1..ni
      BY <1>3, WriteStatusOK DEF RecordDecision, Verdict, StepStatus
    <2>3. Set(w, [p EXCEPT !.pc = "log"]) /\ UNCHANGED <<invoice, instances, overdue, logs>>
      BY <1>3 DEF RecordDecision, Goto
    <2>4. RequestOK([p EXCEPT !.pc = "log"], ni, Len(steps'))
      BY <2>1, <2>2
    <2> QED
      BY <1>0, <2>2, <2>3, <2>4, OnlySteps
  <1>4. CASE LogDecision(w)
    <2>1. RequestOK([p EXCEPT !.pc = "tally"], ni, ns)
      BY <1>0, <1>4, MoveOK DEF LogDecision, At, Label, AtNode, AtStep, AtVote
    <2>2. p.step \in Nat /\ p.vote \in Vote
      BY <1>0, <1>4 DEF LogDecision, At, RequestOK, AtVote, AtStep
    <2>3. audit' \subseteq Nat \X Vote
      BY <1>4, <2>2 DEF LogDecision, Typed
    <2>4. /\ instances' \in Seq(Instance) /\ instances' = instances
          /\ steps' \in Seq(Step) /\ steps' = steps
          /\ \A s \in DOMAIN steps' : steps'[s].inst \in 1..Len(instances')
          /\ overdue' \subseteq Nat
          /\ breaches' \in [1..MaxInstances -> [Node -> Nat]]
      BY <1>4 DEF LogDecision, Typed, StepsOK, tables
    <2> QED
      BY <1>0, <1>4, <2>1, <2>3, <2>4, Assemble DEF LogDecision, Goto
  <1>5. CASE Tally(w)
    <2> DEFINE g == GraphOf(w)
               siblings == StepsAt(p.inst, p.node)
               outcome == NodeOutcome(g.mode[p.node], {steps[s].status : s \in siblings})
               others == Pending(siblings) \ {p.step}
               l == IF others = {} THEN AfterSkip(g, p.node, outcome) ELSE "skip"
               q == [p EXCEPT !.outcome = outcome, !.seen = others, !.pc = l]
    <2>1. p.pc \in AtNode
      BY <1>5 DEF Tally, At, AtNode
    <2>2. \/ Return(w)
          \/ outcome # "WAITING" /\ Set(w, q)
      BY <1>5 DEF Tally
    <2>3. CASE Return(w)
      BY <1>0, <1>5, <2>3, AfterOK, OnlyRequest DEF Tally, Return
    <2>4. CASE outcome # "WAITING" /\ Set(w, q)
      <3>1. outcome \in {"APPROVED", "REJECTED"}
        BY <2>4 DEF NodeOutcome
      <3>2. others \in SUBSET Nat
        BY Sizes DEF Pending, StepsAt
      <3>3. AfterSkip(g, p.node, outcome) \in {"complete", "leave"}
        BY DEF AfterSkip
      <3>4. l \in {"skip", "leave", "complete"}
        BY <3>3
      <3> HIDE DEF others, outcome, l
      <3>5. /\ q \in Request /\ q.pc \in {"skip", "leave", "complete"}
            /\ q.inst = p.inst /\ q.node = p.node /\ q.old = p.old /\ q.todo = p.todo
        <4>1. q \in Request
          BY <1>0, <3>1, <3>2, <3>4 DEF RequestOK, Request, Label
        <4>2. q.pc = l /\ q.inst = p.inst /\ q.node = p.node /\ q.old = p.old /\ q.todo = p.todo
          BY <1>0 DEF RequestOK, Request
        <4> QED
          BY <3>4, <4>1, <4>2
      <3>6. Set(w, q)
        BY <2>4
      <3> HIDE DEF q
      <3>7. RequestOK(q, ni, ns)
        BY <1>0, <2>1, <3>5, OnNodeOK
      <3> QED
        BY <1>5, <3>6, <3>7, OnlyRequest DEF Tally
    <2> QED
      BY <2>2, <2>3, <2>4
  <1>6. CASE SkipSiblings(w)
    <2> DEFINE q == [p EXCEPT !.seen = {}, !.pc = AfterSkip(GraphOf(w), p.node, p.outcome)]
    <2>1. AfterSkip(GraphOf(w), p.node, p.outcome) \in {"complete", "leave"}
      BY DEF AfterSkip
    <2>2. q \in Request /\ q.pc \in {"skip", "leave", "complete"}
      BY <1>0, <2>1 DEF RequestOK, Request, Label
    <2>3. q.inst = p.inst /\ q.node = p.node /\ q.old = p.old /\ q.todo = p.todo
      BY <1>0 DEF RequestOK, Request
    <2>4. Set(w, q) /\ p.pc \in AtNode
      BY <1>6 DEF SkipSiblings, At, AtNode
    <2> HIDE DEF q
    <2>5. RequestOK(q, ni, ns)
      BY <1>0, <2>2, <2>3, <2>4, OnNodeOK
    <2>6. /\ steps' \in Seq(Step) /\ Len(steps') = ns
          /\ \A s \in DOMAIN steps' : steps'[s].inst \in 1..ni
      BY <1>6, WriteStatusOK DEF SkipSiblings, StepStatus
    <2> QED
      BY <1>0, <1>6, <2>4, <2>5, <2>6, OnlySteps DEF SkipSiblings
  <1>7. CASE LeaveNode(w)
    <2>1. /\ p.inst \in DOMAIN instances /\ GraphOf(w) \in Graph
      BY <1>7, AtNodeFacts DEF LeaveNode, At, AtNode
    <2>2. PICK e \in ExitOut(GraphOf(w), p.node, p.outcome) :
            /\ instances' = [instances EXCEPT ![p.inst].node = e.to]
            /\ Set(w, Advancing(p, p.inst, e.to))
      BY <1>7 DEF LeaveNode
    <2>3. e.to \in Node
      BY <2>1, EdgeTarget DEF ExitOut
    <2>4. instances' \in Seq(Instance) /\ Len(instances') = ni
      BY <2>1, <2>2, <2>3, MoveInstanceOK
    <2>5. RequestOK(Advancing(p, p.inst, e.to), ni, ns)
      BY <1>0, <2>1, <2>3, AdvancingOK, Sizes
    <2> QED
      BY <1>0, <1>7, <2>2, <2>4, <2>5, OnlyInstances DEF LeaveNode
  <1> QED
    BY <1>1, <1>2, <1>3, <1>4, <1>5, <1>6, <1>7

\* delegateStep.
LEMMA TypedDelegate ==
  ASSUME Typed, NEW w \in Worker,
         \/ \E s \in DOMAIN steps, u \in User : DelegateStep(w, s, u)
         \/ MarkDelegated(w) \/ InsertDelegate(w)
  PROVE  Typed'
  <1> DEFINE p == proc[w]  ni == Len(instances)  ns == Len(steps)
  <1>0. RequestOK(p, ni, ns) /\ ni \in Nat /\ ns \in Nat
    BY Sizes DEF Typed
  <1>1. ASSUME NEW s \in DOMAIN steps, NEW u \in User, DelegateStep(w, s, u)
        PROVE  Typed'
    <2> DEFINE q == [Idle EXCEPT !.pc = "handoff", !.inst = steps[s].inst,
                                 !.node = steps[s].node, !.step = s, !.to = u]
    <2>1. s \in 1..ns /\ steps[s].inst \in 1..ni /\ steps[s].node \in Node
      BY Rows, Sizes DEF Step
    <2>2. q \in Request
      <3>1. s \in Nat /\ steps[s].inst \in Nat /\ u \in User \cup {NoUser} /\ "handoff" \in Label
        BY <1>0, <2>1 DEF Label
      <3> QED
        BY <2>1, <3>1, IdleRequest DEF Request
    <2>3. /\ q.pc = "handoff" /\ q.inst = steps[s].inst
          /\ q.node = steps[s].node /\ q.step = s /\ q.to = u /\ q.old = 0 /\ q.todo = {}
      BY DEF Idle
    <2>4. Set(w, q)
      BY <1>1 DEF DelegateStep
    <2> HIDE DEF q
    <2>5. RequestOK(q, ni, ns)
      BY <1>0, <2>1, <2>2, <2>3 DEF RequestOK, AtVote
    <2> QED
      BY <1>1, <2>4, <2>5, OnlyRequest DEF DelegateStep
  <1>2. CASE MarkDelegated(w)
    <2>1. RequestOK([p EXCEPT !.pc = "replace"], ni, ns)
      BY <1>0, <1>2, MoveOK DEF MarkDelegated, At, Label, AtNode, AtStep, AtVote
    <2>2. /\ steps' \in Seq(Step) /\ Len(steps') = ns
          /\ \A s \in DOMAIN steps' : steps'[s].inst \in 1..ni
      BY <1>2, WriteStatusOK DEF MarkDelegated, StepStatus
    <2>3. Set(w, [p EXCEPT !.pc = "replace"]) /\ UNCHANGED <<invoice, instances, overdue, logs>>
      BY <1>2 DEF MarkDelegated, Goto
    <2>4. RequestOK([p EXCEPT !.pc = "replace"], ni, Len(steps'))
      BY <2>1, <2>2
    <2> QED
      BY <1>0, <2>2, <2>3, <2>4, OnlySteps
  <1>3. CASE InsertDelegate(w)
    <2> DEFINE r == NewStep(p.inst, p.node, p.to, steps[p.step].due)
    <2>1. p.pc = "replace" /\ steps' = Append(steps, r) /\ Return(w)
      BY <1>3 DEF InsertDelegate, At
    <2>2. p.inst \in 1..ni /\ p.node \in Node /\ p.step \in DOMAIN steps /\ p.to \in User
      BY <1>0, <2>1, Sizes DEF RequestOK, AtNode, AtStep
    <2>3. steps[p.step].due \in Nat
      BY <2>2, Rows DEF Step
    <2>4. r \in Step /\ r.inst = p.inst
      BY <2>2, <2>3 DEF NewStep, Step, StepStatus
    <2> HIDE DEF r
    <2>5. /\ steps' \in Seq(Step) /\ Len(steps') = ns + 1
          /\ \A s \in 1..ns : steps'[s] = steps[s]
          /\ steps'[ns + 1] = r
      BY <2>1, <2>4, AppendProperties, Sizes DEF Typed, StepsOK
    <2>6. \A s \in DOMAIN steps' : steps'[s].inst \in 1..ni
      BY <1>0, <2>2, <2>4, <2>5, Rows, Sizes
    <2>7. RequestOK(After(p), ni, ns + 1)
      BY <1>0, AfterOK, RequestGrows
    <2> QED
      BY <1>0, <1>3, <2>5, <2>6, <2>7, OnlySteps DEF InsertDelegate, Return
  <1> QED
    BY <1>1, <1>2, <1>3

\* recallInstance and restartInstance.
LEMMA TypedRecall ==
  ASSUME Typed, NEW w \in Worker,
         \/ RecallCheck(w) \/ RecallFind(w) \/ CancelSteps(w) \/ Supersede(w)
         \/ LinkSuccessor(w)
  PROVE  Typed'
  <1> DEFINE p == proc[w]  ni == Len(instances)  ns == Len(steps)
  <1>0. RequestOK(p, ni, ns) /\ ni \in Nat /\ ns \in Nat
    BY Sizes DEF Typed
  <1>1. CASE RecallCheck(w)
    <2>1. RequestOK([p EXCEPT !.pc = "recallFind"], ni, ns)
      BY <1>0, MoveOK DEF Label, AtNode, AtStep, AtVote
    <2>2. Set(w, [p EXCEPT !.pc = "recallFind"]) \/ Set(w, Idle)
      BY <1>1 DEF RecallCheck, Goto, Fail
    <2> QED
      BY <1>0, <1>1, <2>1, <2>2, IdleOK, OnlyRequest DEF RecallCheck
  <1>2. CASE RecallFind(w)
    <2>1. CASE Return(w)
      BY <1>0, <1>2, <2>1, AfterOK, OnlyRequest DEF RecallFind, Return
    <2>2. ASSUME NEW i \in ActiveIds, Set(w, [p EXCEPT !.pc = "cancel", !.old = i])
          PROVE  Typed'
      <3> DEFINE q == [p EXCEPT !.pc = "cancel", !.old = i]
      <3>1. i \in 1..ni /\ i \in Nat
        BY Sizes DEF ActiveIds
      <3>2. q \in Request
        BY <1>0, <3>1 DEF RequestOK, Request, Label
      <3>3. q.pc = "cancel" /\ q.old = i /\ q.todo = p.todo
        BY <1>0 DEF RequestOK, Request
      <3> HIDE DEF q
      <3>4. RequestOK(q, ni, ns)
        BY <1>0, <3>1, <3>2, <3>3 DEF RequestOK, AtNode, AtStep, AtVote
      <3>5. Set(w, q)
        BY <2>2 DEF q
      <3> QED
        BY <1>2, <3>4, <3>5, OnlyRequest DEF RecallFind
    <2> QED
      BY <1>2, <2>1, <2>2 DEF RecallFind
  <1>3. CASE CancelSteps(w)
    <2>1. RequestOK([p EXCEPT !.pc = "supersede"], ni, ns)
      BY <1>0, <1>3, MoveOK DEF CancelSteps, At, Label, AtNode, AtStep, AtVote
    <2>2. /\ steps' \in Seq(Step) /\ Len(steps') = ns
          /\ \A s \in DOMAIN steps' : steps'[s].inst \in 1..ni
      BY <1>3, WriteStatusOK DEF CancelSteps, StepStatus
    <2>3. Set(w, [p EXCEPT !.pc = "supersede"]) /\ UNCHANGED <<invoice, instances, overdue, logs>>
      BY <1>3 DEF CancelSteps, Goto
    <2>4. RequestOK([p EXCEPT !.pc = "supersede"], ni, Len(steps'))
      BY <2>1, <2>2
    <2> QED
      BY <1>0, <2>2, <2>3, <2>4, OnlySteps
  <1>4. CASE Supersede(w)
    <2>1. p.old \in DOMAIN instances
      BY <1>0, <1>4, Sizes DEF Supersede, At, RequestOK
    <2>2. instances' \in Seq(Instance) /\ Len(instances') = ni
      BY <1>4, <2>1, CloseInstanceOK DEF Supersede, InstanceStatus
    <2> QED
      BY <1>0, <1>4, <2>2, AfterOK, OnlyInstances DEF Supersede, Return
  <1>5. CASE LinkSuccessor(w)
    <2>1. RequestOK(After(p), ni, ns)
      BY <1>0, AfterOK
    <2>2. CASE UNCHANGED instances
      BY <1>5, <2>1, <2>2, OnlyRequest DEF LinkSuccessor, Return, tables
    <2>3. ASSUME NEW i \in ActiveIds, p.old # 0,
                 instances' = [instances EXCEPT ![p.old].link = i]
          PROVE  Typed'
      <3>1. p.old \in DOMAIN instances /\ i \in Nat
        BY <1>0, <2>3, Sizes DEF RequestOK, ActiveIds
      <3>2. instances' \in Seq(Instance) /\ Len(instances') = ni
        BY <2>3, <3>1, LinkInstanceOK
      <3> QED
        BY <1>0, <1>5, <2>1, <3>2, OnlyInstances DEF LinkSuccessor, Return
    <2> QED
      BY <1>5, <2>2, <2>3 DEF LinkSuccessor
  <1> QED
    BY <1>1, <1>2, <1>3, <1>4, <1>5

\* escalateOverdueSteps.
LEMMA TypedSweep ==
  ASSUME Typed, NEW w \in Worker,
         \/ EscalateOverdue(w) \/ SweepEnd(w) \/ SweepSkip(w) \/ SweepReport(w)
         \/ SweepStamp(w) \/ SweepRead(w)
  PROVE  Typed'
  <1> DEFINE p == proc[w]  ni == Len(instances)  ns == Len(steps)
  <1>0. RequestOK(p, ni, ns) /\ ni \in Nat /\ ns \in Nat
    BY Sizes DEF Typed
  <1>1. CASE EscalateOverdue(w)
    <2> DEFINE todo == {<<steps[s].inst, steps[s].node>> : s \in Overdue}
               q == [Idle EXCEPT !.pc = "sweep", !.todo = todo]
    <2>1. todo \subseteq (1..ni) \X Node
      BY Rows, Sizes DEF Overdue, Step
    <2>2. todo \in SUBSET (Nat \X Node)
      BY <1>0, <2>1
    <2> HIDE DEF todo
    <2>3. q \in Request
      BY <2>2, IdleRequest DEF Request, Label
    <2>4. q.pc = "sweep" /\ q.old = 0 /\ q.todo = todo
      BY DEF Idle
    <2>5. Set(w, q)
      BY <1>1 DEF EscalateOverdue, todo
    <2> HIDE DEF q
    <2>6. RequestOK(q, ni, ns)
      BY <1>0, <2>1, <2>3, <2>4 DEF RequestOK, AtNode, AtStep, AtVote
    <2> QED
      BY <1>1, <2>5, <2>6, OnlyRequest DEF EscalateOverdue
  <1>2. CASE SweepEnd(w)
    BY <1>0, <1>2, AfterOK, OnlyRequest DEF SweepEnd, Return
  <1>3. CASE SweepSkip(w)
    <2>1. PICK b \in p.todo : Set(w, [p EXCEPT !.todo = @ \ {b}])
      BY <1>3 DEF SweepSkip
    <2>2. RequestOK([p EXCEPT !.todo = @ \ {b}], ni, ns)
      BY <1>0, <1>3 DEF SweepSkip, At, RequestOK, Request, AtNode, AtStep, AtVote
    <2> QED
      BY <1>3, <2>1, <2>2, OnlyRequest DEF SweepSkip
  <1>4. CASE SweepReport(w)
    <2>1. PICK b \in p.todo :
            /\ breaches' = [breaches EXCEPT ![b[1]][b[2]] = @ + 1]
            /\ Set(w, [p EXCEPT !.pc = "stamp", !.todo = @ \ {b},
                                !.inst = b[1], !.node = b[2]])
      BY <1>4 DEF SweepReport
    <2> DEFINE q == [p EXCEPT !.pc = "stamp", !.todo = @ \ {b}, !.inst = b[1], !.node = b[2]]
    <2>2. b[1] \in 1..ni /\ b[1] \in Nat /\ b[2] \in Node
      BY <1>0, <2>1 DEF RequestOK
    <2>3. q \in Request
      BY <1>0, <2>2 DEF RequestOK, Request, Label
    <2>4. /\ q.pc = "stamp" /\ q.inst = b[1] /\ q.node = b[2]
          /\ q.old = p.old /\ q.todo = p.todo \ {b}
      BY <1>0 DEF RequestOK, Request
    <2>5. Set(w, q)
      BY <2>1
    <2> HIDE DEF q
    <2>6. RequestOK(q, ni, ns)
      BY <1>0, <2>2, <2>3, <2>4 DEF RequestOK, AtNode, AtStep, AtVote
    <2>7. breaches' \in [1..MaxInstances -> [Node -> Nat]]
      <3> DEFINE row == [breaches[b[1]] EXCEPT ![b[2]] = @ + 1]
      <3>1. breaches \in [1..MaxInstances -> [Node -> Nat]]
        BY DEF Typed
      <3>2. b[1] \in 1..MaxInstances => row \in [Node -> Nat]
        BY <2>2, <3>1
      <3>3. breaches' = [breaches EXCEPT ![b[1]] = row]
        BY <2>1
      <3> QED
        BY <3>1, <3>2, <3>3
    <2>8. /\ instances' \in Seq(Instance) /\ instances' = instances
          /\ steps' \in Seq(Step) /\ steps' = steps
          /\ \A s \in DOMAIN steps' : steps'[s].inst \in 1..Len(instances')
          /\ overdue' \subseteq Nat /\ audit' \subseteq Nat \X Vote
      BY <1>4 DEF SweepReport, Typed, StepsOK, tables
    <2> QED
      BY <1>0, <2>5, <2>6, <2>7, <2>8, Assemble
  <1>5. CASE SweepStamp(w)
    <2> DEFINE l == IF SlaOut(GraphOf(w), p.node) = {} THEN "sweep" ELSE "sweepRead"
               hit == Pending(StepsAt(p.inst, p.node))
    <2>1. p.pc = "stamp" /\ Set(w, [p EXCEPT !.pc = l]) /\ l \in {"sweep", "sweepRead"}
      BY <1>5 DEF SweepStamp, At, Goto
    <2> HIDE DEF l
    <2>2. RequestOK([p EXCEPT !.pc = l], ni, ns)
      BY <1>0, <2>1, MoveOK DEF Label, AtNode, AtStep, AtVote
    <2>3. steps' = [s \in DOMAIN steps |-> IF s \in hit THEN [steps[s] EXCEPT !.breached = TRUE]
                                          ELSE steps[s]]
      BY <1>5 DEF SweepStamp
    <2> HIDE DEF hit
    <2>4. \A s \in DOMAIN steps : /\ [steps[s] EXCEPT !.breached = TRUE] \in Step
                                  /\ [steps[s] EXCEPT !.breached = TRUE].inst = steps[s].inst
      BY Rows DEF Step
    <2>5. steps' \in [1..ns -> Step] /\ \A s \in 1..ns : steps'[s].inst = steps[s].inst
      BY <2>3, <2>4, Rows, Sizes
    <2>6. steps' \in Seq(Step) /\ Len(steps') = ns
      BY <1>0, <2>5, SeqDef
    <2>7. \A s \in DOMAIN steps' : steps'[s].inst \in 1..ni
      BY <2>5, Rows, Sizes
    <2>8. RequestOK([p EXCEPT !.pc = l], ni, Len(steps'))
      BY <2>2, <2>6
    <2>9. UNCHANGED <<invoice, instances, overdue, logs>>
      BY <1>5 DEF SweepStamp
    <2> QED
      BY <1>0, <2>1, <2>6, <2>7, <2>8, <2>9, OnlySteps
  <1>6. CASE SweepRead(w)
    <2> DEFINE open == Pending(StepsAt(p.inst, p.node))
               l == IF open = {} THEN "leave" ELSE "skip"
               q == [p EXCEPT !.outcome = "SLA", !.seen = open, !.ret = <<"sweep">>, !.pc = l]
    <2>1. p.pc \in AtNode /\ Set(w, q)
      BY <1>6 DEF SweepRead, At, AtNode
    <2>2. open \in SUBSET Nat /\ l \in {"skip", "leave", "complete"}
      BY Sizes DEF Pending, StepsAt
    <2>3. <<"sweep">> \in Seq(Resumed)
      BY DEF Resumed
    <2> HIDE DEF open, l
    <2>4. q \in Request /\ q.pc = l
      BY <1>0, <2>2, <2>3 DEF RequestOK, Request, Label
    <2>5. q.inst = p.inst /\ q.node = p.node /\ q.old = p.old /\ q.todo = p.todo
      BY <1>0 DEF RequestOK, Request
    <2> HIDE DEF q
    <2>6. RequestOK(q, ni, ns)
      BY <1>0, <2>1, <2>2, <2>4, <2>5, OnNodeOK
    <2> QED
      BY <1>6, <2>1, <2>6, OnlyRequest DEF SweepRead
  <1> QED
    BY <1>1, <1>2, <1>3, <1>4, <1>5, <1>6

\* The callers, and the clock.
LEMMA TypedRequest ==
  ASSUME Typed, NEW w \in Worker, RequestStart(w) \/ RestartInstance(w)
  PROVE  Typed'
  <1>0. Len(instances) \in Nat /\ Len(steps) \in Nat
    BY Sizes
  <1>1. CASE RequestStart(w)
    <2>1. RequestOK([Idle EXCEPT !.pc = "start"], Len(instances), Len(steps))
      BY <1>0, IdleOK, MoveOK DEF Label, AtNode, AtStep, AtVote
    <2> QED
      BY <1>1, <2>1, OnlyRequest DEF RequestStart
  <1>2. CASE RestartInstance(w)
    <2> DEFINE q == [Idle EXCEPT !.pc = "recall", !.ret = <<"start", "link">>]
    <2>1. <<"start", "link">> \in Seq(Resumed)
      BY DEF Resumed
    <2>2. q \in Request
      BY <2>1, IdleRequest DEF Request, Label
    <2>3. q.pc = "recall" /\ q.old = 0 /\ q.todo = {}
      BY DEF Idle
    <2>4. Set(w, q)
      BY <1>2 DEF RestartInstance
    <2> HIDE DEF q
    <2>5. RequestOK(q, Len(instances), Len(steps))
      BY <1>0, <2>2, <2>3 DEF RequestOK, AtNode, AtStep, AtVote
    <2> QED
      BY <1>2, <2>4, <2>5, OnlyRequest DEF RestartInstance
  <1> QED
    BY <1>1, <1>2

LEMMA TypedClock == ASSUME Typed, DeadlinePasses PROVE Typed'
  <1>1. \A s \in DOMAIN steps : steps[s].due \in Nat
    BY Rows DEF Step
  <1>2. overdue' \subseteq Nat
    BY <1>1 DEF DeadlinePasses, Typed
  <1> QED
    BY <1>2 DEF DeadlinePasses, Typed, StepsOK, tables, logs

\* A statement of the engine, or a request that no caller of its own makes.
Statement(w) == Proceed(w) \/ EscalateOverdue(w) \/ StepRequest(w)

LEMMA TypedStatement == ASSUME Typed, NEW w \in Worker, Statement(w) PROVE Typed'
  <1>1. CASE Proceed(w)
    BY <1>1, TypedAdvance, TypedComplete, TypedDecide, TypedDelegate, TypedRecall, TypedSweep
    DEF Proceed
  <1>2. CASE StepRequest(w)
    BY <1>2, TypedDecide, TypedDelegate DEF StepRequest
  <1> QED
    BY <1>1, <1>2, TypedSweep DEF Statement

LEMMA TypedStep == ASSUME Typed, [Next]_vars PROVE Typed'
  <1>1. CASE UNCHANGED vars
    BY <1>1 DEF vars, Typed, StepsOK
  <1> QED
    BY <1>1, TypedStatement, TypedRequest, TypedClock DEF Next, Statement

\* Spec keeps every row and request typed (the inductive form) ...
THEOREM SpecTyped == Spec => []Typed
  BY TypedInit, TypedStep, PTL DEF Spec

\* The invoice row: the engine's only write to it is the outcome of an instance.
InvoiceTyped == invoice \in [status : InvoiceStatus, amount : Amount]

LEMMA OutcomeOK ==
  ASSUME Typed, NEW w \in Worker, SettleInvoice(w)
  PROVE  proc[w].outcome \in {"APPROVED", "REJECTED"}
  BY DEF SettleInvoice, At, Typed, RequestOK

\* The engine writes the invoice's status only.
LEMMA StatementWrites ==
  ASSUME NEW w \in Worker, Statement(w)
  PROVE  UNCHANGED invoice \/ SettleInvoice(w)
  BY DEF Statement, Proceed, StepRequest, tables, StartInstance, AdvanceWalk,
         AdvanceCreateSteps, AdvanceThrows, Park, CompleteInstance, Authorise,
         RecordDecision, LogDecision, Tally, SkipSiblings, LeaveNode, MarkDelegated,
         InsertDelegate, RecallCheck, RecallFind, CancelSteps, Supersede, LinkSuccessor,
         SweepEnd, SweepSkip, SweepReport, SweepStamp, SweepRead, EscalateOverdue,
         DecideStep, DelegateStep

LEMMA InvoiceTypedStep == ASSUME Typed, InvoiceTyped, [Next]_vars PROVE InvoiceTyped'
  <1>1. CASE UNCHANGED invoice
    BY <1>1 DEF InvoiceTyped
  <1>2. ASSUME NEW w \in Worker, SettleInvoice(w) PROVE InvoiceTyped'
    BY <1>2, OutcomeOK DEF SettleInvoice, InvoiceTyped, InvoiceStatus
  <1> QED
    BY <1>1, <1>2, StatementWrites
    DEF Next, Statement, vars, tables, RequestStart, RestartInstance, DeadlinePasses

\* ... and so TypeOK: no handler, however the statements of the requests in
\* flight interleave, writes a row or holds an id that refers to no row.
THEOREM SpecTypeOK == Spec => []TypeOK
  <1>1. Typed /\ InvoiceTyped => TypeOK
    BY Rows DEF Typed, StepsOK, TypeOK, InvoiceTyped
  <1>2. Init => InvoiceTyped
    BY DEF Init, InvoiceTyped, InvoiceStatus
  <1> QED
    BY <1>1, <1>2, InvoiceTypedStep, SpecTyped, PTL DEF Spec

-----------------------------------------------------------------------------
(* The two safety properties that hold however requests interleave,        *)
(* OneActivePerInvoice and ApprovedOnRecord.                               *)
(*                                                                         *)
(* Frame collects what no statement undoes: rows keep what they refer to,  *)
(* a closed instance stays closed, the audit trail only grows.  Backed is  *)
(* the inductive strengthening of ApprovedOnRecord: everywhere an approval *)
(* travels (a step's status, the outcome a handler carries, the node a     *)
(* request, a step or an instance is at), it is backed by the record.      *)

Frame ==
  /\ audit \subseteq audit'
  /\ \A s \in DOMAIN steps : /\ s \in DOMAIN steps'
                             /\ steps'[s].inst = steps[s].inst
                             /\ steps'[s].node = steps[s].node
  /\ \A i \in DOMAIN instances :
       /\ i \in DOMAIN instances'
       /\ instances'[i].workflow = instances[i].workflow
       /\ instances'[i].status = "ACTIVE" => instances[i].status = "ACTIVE"
  /\ \A v \in Worker : proc[v].pc = "log" =>
       proc'[v] = proc[v] \/ <<proc[v].step, proc[v].vote>> \in audit'

LEMMA FrameOfRequest ==
  ASSUME Typed, NEW w \in Worker, proc[w].pc # "log", NEW p, Set(w, p),
         UNCHANGED <<steps, audit>>,
         \A i \in DOMAIN instances :
           /\ i \in DOMAIN instances'
           /\ instances'[i].workflow = instances[i].workflow
           /\ instances'[i].status = "ACTIVE" => instances[i].status = "ACTIVE"
  PROVE  Frame
  <1>1. \A v \in Worker : v # w => proc'[v] = proc[v]
    BY DEF Typed, Set
  <1> QED
    BY <1>1 DEF Frame

LEMMA FrameOfSteps ==
  ASSUME Typed, NEW w \in Worker, proc[w].pc # "log", NEW p, Set(w, p),
         UNCHANGED <<instances, audit>>,
         \A s \in DOMAIN steps : /\ s \in DOMAIN steps'
                                 /\ steps'[s].inst = steps[s].inst
                                 /\ steps'[s].node = steps[s].node
  PROVE  Frame
  <1>1. \A v \in Worker : v # w => proc'[v] = proc[v]
    BY DEF Typed, Set
  <1> QED
    BY <1>1 DEF Frame

LEMMA SetStatusKeeps ==
  ASSUME Typed, NEW S, NEW x
  PROVE  /\ DOMAIN SetStatus(S, x) = DOMAIN steps
         /\ \A s \in DOMAIN steps : /\ SetStatus(S, x)[s].inst = steps[s].inst
                                    /\ SetStatus(S, x)[s].node = steps[s].node
                                    /\ SetStatus(S, x)[s].status =
                                         IF s \in S THEN x ELSE steps[s].status
  <1>1. \A s \in DOMAIN steps : steps[s] \in Step
    BY Rows
  <1>2. \A s \in DOMAIN steps :
          SetStatus(S, x)[s] = IF s \in S THEN [steps[s] EXCEPT !.status = x] ELSE steps[s]
    BY DEF SetStatus
  <1> QED
    BY <1>1, <1>2 DEF SetStatus, Step

LEMMA CreatedSteps ==
  ASSUME Typed, NEW w \in Worker, AdvanceCreateSteps(w)
  PROVE  /\ \A s \in DOMAIN steps : s \in DOMAIN steps' /\ steps'[s] = steps[s]
         /\ \A s \in DOMAIN steps' \ DOMAIN steps :
              /\ steps'[s].inst = proc[w].inst /\ steps'[s].node = proc[w].node
              /\ steps'[s].status = "PENDING"
  <1> DEFINE p == proc[w]
             list == GraphOf(w).approvers[p.node]
             due == IF GraphOf(w).timed[p.node] THEN Len(steps) + 1 ELSE 0
             new == [k \in 1..Len(list) |-> NewStep(p.inst, p.node, list[k], due)]
  <1>1. p.pc = "advance" /\ steps' = steps \o new
    BY DEF AdvanceCreateSteps, At
  <1>2. /\ new \in Seq(Step)
        /\ \A k \in 1..Len(new) : /\ new[k].inst = p.inst /\ new[k].node = p.node
                                   /\ new[k].status = "PENDING"
    BY <1>1, NewStepsOK
  <1>3. p.inst \in DOMAIN instances
    BY <1>1, AtNodeFacts DEF AtNode
  <1> HIDE DEF new
  <1>4. /\ \A s \in DOMAIN steps : steps'[s] = steps[s]
        /\ \A s \in DOMAIN steps' \ DOMAIN steps :
             \E k \in 1..Len(new) : steps'[s] = new[k]
        /\ DOMAIN steps \subseteq DOMAIN steps'
    <2>1. /\ steps' \in Seq(Step) /\ Len(steps') \in Nat /\ Len(steps) <= Len(steps')
          /\ \A s \in DOMAIN steps : steps'[s] = steps[s]
          /\ \A s \in DOMAIN steps' \ DOMAIN steps :
               \E k \in 1..Len(new) : steps'[s] = new[k]
      BY <1>1, <1>2, <1>3, AddStepsOK
    <2> QED
      BY <2>1, LenProperties, Sizes
  <1> QED
    BY <1>2, <1>4

LEMMA FrameAdvance ==
  ASSUME Typed, NEW w \in Worker,
         \/ StartInstance(w) \/ AdvanceWalk(w) \/ AdvanceCreateSteps(w)
         \/ AdvanceThrows(w) \/ Park(w) \/ CompleteInstance(w) \/ SettleInvoice(w)
  PROVE  Frame
  <1>0. \A i \in DOMAIN instances : instances[i] \in Instance
    BY Rows
  <1>1. CASE StartInstance(w)
    <2>1. PICK p : Set(w, p)
      BY <1>1 DEF StartInstance, Return, Fail
    <2>2. \A i \in DOMAIN instances : i \in DOMAIN instances' /\ instances'[i] = instances[i]
      <3>1. CASE UNCHANGED instances
        BY <3>1
      <3>2. CASE \E r : instances' = Append(instances, r)
        BY <3>2, Sizes DEF Typed
      <3> QED
        BY <1>1, <3>1, <3>2 DEF StartInstance
    <2> QED
      BY <1>1, <2>1, <2>2, FrameOfRequest DEF StartInstance, At, logs
  <1>2. CASE AdvanceWalk(w) \/ AdvanceThrows(w) \/ SettleInvoice(w)
    <2>1. PICK p : Set(w, p)
      BY <1>2 DEF AdvanceWalk, AdvanceThrows, SettleInvoice, Return, Fail
    <2> QED
      BY <1>2, <2>1, FrameOfRequest
      DEF AdvanceWalk, AdvanceThrows, SettleInvoice, At, logs, tables
  <1>3. CASE AdvanceCreateSteps(w)
    <2>1. \A s \in DOMAIN steps : s \in DOMAIN steps' /\ steps'[s] = steps[s]
      BY <1>3, CreatedSteps
    <2> QED
      BY <1>3, <2>1, FrameOfSteps DEF AdvanceCreateSteps, At, Goto, logs
  <1>4. CASE Park(w)
    <2>1. \A i \in DOMAIN instances : /\ i \in DOMAIN instances'
                                      /\ instances'[i].workflow = instances[i].workflow
                                      /\ instances'[i].status = instances[i].status
      BY <1>0, <1>4 DEF Park, Instance
    <2> QED
      BY <1>4, <2>1, FrameOfRequest DEF Park, At, Return, logs
  <1>5. CASE CompleteInstance(w)
    <2>1. PICK p : Set(w, p)
      BY <1>5 DEF CompleteInstance
    <2>2. \A i \in DOMAIN instances :
            /\ i \in DOMAIN instances'
            /\ instances'[i].workflow = instances[i].workflow
            /\ instances'[i].status = "ACTIVE" => instances[i].status = "ACTIVE"
      BY <1>0, <1>5 DEF CompleteInstance, Instance
    <2> QED
      BY <1>5, <2>1, <2>2, FrameOfRequest DEF CompleteInstance, At, logs
  <1> QED
    BY <1>1, <1>2, <1>3, <1>4, <1>5

LEMMA FrameDecide ==
  ASSUME Typed, NEW w \in Worker,
         \/ \E s \in DOMAIN steps, v \in Vote : DecideStep(w, s, v)
         \/ Authorise(w) \/ RecordDecision(w) \/ LogDecision(w)
         \/ Tally(w) \/ SkipSiblings(w) \/ LeaveNode(w)
  PROVE  Frame
  <1>1. CASE \/ \E s \in DOMAIN steps, v \in Vote : DecideStep(w, s, v)
             \/ Authorise(w) \/ Tally(w)
    <2>1. PICK p : Set(w, p)
      BY <1>1 DEF DecideStep, Authorise, Tally, Goto, Return, Fail
    <2> QED
      BY <1>1, <2>1, FrameOfRequest DEF DecideStep, Authorise, Tally, At, logs, tables
  <1>2. CASE RecordDecision(w) \/ SkipSiblings(w)
    <2>1. PICK p : Set(w, p)
      BY <1>2 DEF RecordDecision, SkipSiblings, Goto
    <2>2. PICK S, x : steps' = SetStatus(S, x)
      BY <1>2 DEF RecordDecision, SkipSiblings
    <2> QED
      BY <1>2, <2>1, <2>2, SetStatusKeeps, FrameOfSteps
      DEF RecordDecision, SkipSiblings, At, logs
  <1>3. CASE LogDecision(w)
    <2>1. \A v \in Worker : v # w => proc'[v] = proc[v]
      BY <1>3 DEF LogDecision, Goto, Set, Typed
    <2> QED
      BY <1>3, <2>1 DEF LogDecision, Frame, tables
  <1>4. CASE LeaveNode(w)
    <2>1. PICK e, p : instances' = [instances EXCEPT ![proc[w].inst].node = e.to] /\ Set(w, p)
      BY <1>4 DEF LeaveNode
    <2>2. \A i \in DOMAIN instances : /\ i \in DOMAIN instances'
                                      /\ instances'[i].workflow = instances[i].workflow
                                      /\ instances'[i].status = instances[i].status
      BY <2>1, Rows DEF Instance
    <2> QED
      BY <1>4, <2>1, <2>2, FrameOfRequest DEF LeaveNode, At, logs
  <1> QED
    BY <1>1, <1>2, <1>3, <1>4

LEMMA FrameDelegate ==
  ASSUME Typed, NEW w \in Worker,
         \/ \E s \in DOMAIN steps, u \in User : DelegateStep(w, s, u)
         \/ MarkDelegated(w) \/ InsertDelegate(w)
  PROVE  Frame
  <1>1. CASE \E s \in DOMAIN steps, u \in User : DelegateStep(w, s, u)
    BY <1>1, FrameOfRequest DEF DelegateStep, At, logs, tables
  <1>2. CASE MarkDelegated(w)
    <2>1. PICK S, x : steps' = SetStatus(S, x)
      BY <1>2 DEF MarkDelegated
    <2> QED
      BY <1>2, <2>1, SetStatusKeeps, FrameOfSteps DEF MarkDelegated, At, Goto, logs
  <1>3. CASE InsertDelegate(w)
    <2>1. \A s \in DOMAIN steps : s \in DOMAIN steps' /\ steps'[s] = steps[s]
      BY <1>3, Sizes DEF InsertDelegate, Typed, StepsOK
    <2> QED
      BY <1>3, <2>1, FrameOfSteps DEF InsertDelegate, At, Return, logs
  <1> QED
    BY <1>1, <1>2, <1>3

LEMMA FrameRecall ==
  ASSUME Typed, NEW w \in Worker,
         \/ RecallCheck(w) \/ RecallFind(w) \/ CancelSteps(w) \/ Supersede(w)
         \/ LinkSuccessor(w)
  PROVE  Frame
  <1>1. CASE RecallCheck(w) \/ RecallFind(w)
    <2>1. PICK p : Set(w, p)
      BY <1>1 DEF RecallCheck, RecallFind, Goto, Return, Fail
    <2> QED
      BY <1>1, <2>1, FrameOfRequest DEF RecallCheck, RecallFind, At, logs, tables
  <1>2. CASE CancelSteps(w)
    <2>1. PICK S, x : steps' = SetStatus(S, x)
      BY <1>2 DEF CancelSteps
    <2> QED
      BY <1>2, <2>1, SetStatusKeeps, FrameOfSteps DEF CancelSteps, At, Goto, logs
  <1>3. CASE Supersede(w)
    <2>1. \A i \in DOMAIN instances :
            /\ i \in DOMAIN instances'
            /\ instances'[i].workflow = instances[i].workflow
            /\ instances'[i].status = "ACTIVE" => instances[i].status = "ACTIVE"
      BY <1>3, Rows DEF Supersede, Instance
    <2> QED
      BY <1>3, <2>1, FrameOfRequest DEF Supersede, At, Return, logs
  <1>4. CASE LinkSuccessor(w)
    <2>1. \A i \in DOMAIN instances : /\ i \in DOMAIN instances'
                                      /\ instances'[i].workflow = instances[i].workflow
                                      /\ instances'[i].status = instances[i].status
      <3>1. CASE UNCHANGED instances
        BY <3>1
      <3>2. CASE \E i : instances' = [instances EXCEPT ![proc[w].old].link = i]
        BY <3>2, Rows DEF Instance
      <3> QED
        BY <1>4, <3>1, <3>2 DEF LinkSuccessor
    <2> QED
      BY <1>4, <2>1, FrameOfRequest DEF LinkSuccessor, At, Return, logs
  <1> QED
    BY <1>1, <1>2, <1>3, <1>4

LEMMA FrameSweep ==
  ASSUME Typed, NEW w \in Worker,
         \/ EscalateOverdue(w) \/ SweepEnd(w) \/ SweepSkip(w) \/ SweepReport(w)
         \/ SweepStamp(w) \/ SweepRead(w)
  PROVE  Frame
  <1>1. CASE \/ EscalateOverdue(w) \/ SweepEnd(w) \/ SweepSkip(w) \/ SweepReport(w)
             \/ SweepRead(w)
    <2>1. PICK p : Set(w, p)
      BY <1>1 DEF EscalateOverdue, SweepEnd, SweepSkip, SweepReport, SweepRead, Return
    <2> QED
      BY <1>1, <2>1, FrameOfRequest
      DEF EscalateOverdue, SweepEnd, SweepSkip, SweepReport, SweepRead, At, logs, tables
  <1>2. CASE SweepStamp(w)
    <2>1. \A s \in DOMAIN steps : /\ s \in DOMAIN steps'
                                  /\ steps'[s].inst = steps[s].inst
                                  /\ steps'[s].node = steps[s].node
      BY <1>2, Rows DEF SweepStamp, Step
    <2> QED
      BY <1>2, <2>1, FrameOfSteps DEF SweepStamp, At, Goto, logs
  <1> QED
    BY <1>1, <1>2

\* No statement of the engine re-opens an instance, re-homes a step, or drops a
\* line of the audit trail.
LEMMA FrameStatement == ASSUME Typed, NEW w \in Worker, Statement(w) PROVE Frame
  <1>1. CASE Proceed(w)
    BY <1>1, FrameAdvance, FrameDecide, FrameDelegate, FrameRecall, FrameSweep DEF Proceed
  <1>2. CASE StepRequest(w)
    BY <1>2, FrameDecide, FrameDelegate DEF StepRequest
  <1> QED
    BY <1>1, <1>2, FrameSweep DEF Statement

LEMMA FrameClock == ASSUME DeadlinePasses PROVE Frame
  BY DEF DeadlinePasses, Frame, logs, tables

LEMMA FrameStep == ASSUME Typed, [Next]_vars PROVE Frame
  <1>1. CASE UNCHANGED vars
    BY <1>1 DEF vars, Frame
  <1>2. ASSUME NEW w \in Worker, RequestStart(w) \/ RestartInstance(w) PROVE Frame
    BY <1>2, FrameOfRequest DEF RequestStart, RestartInstance, At, logs, tables
  <1> QED
    BY <1>1, <1>2, FrameStatement, FrameClock DEF Next, Statement

-----------------------------------------------------------------------------
(* At most one live instance.                                              *)

\* The rows a step adds to approval_instances: only startInstance does, and only
\* while the unique index finds no live one.
LEMMA NewInstances ==
  ASSUME Typed, NEW w \in Worker, Statement(w)
  PROVE  \/ DOMAIN instances' = DOMAIN instances
         \/ ActiveIds = {} /\ DOMAIN instances' = DOMAIN instances \cup {Len(instances) + 1}
  <1>1. CASE UNCHANGED instances
    BY <1>1
  <1>2. ASSUME StartInstance(w), instances' # instances
        PROVE  ActiveIds = {} /\ DOMAIN instances' = DOMAIN instances \cup {Len(instances) + 1}
    <2>1. ActiveIds = {} /\ \E r : instances' = Append(instances, r)
      BY <1>2 DEF StartInstance
    <2>2. Len(instances) \in Nat /\ DOMAIN instances = 1..Len(instances)
      BY Sizes
    <2> QED
      BY <2>1, <2>2 DEF Typed
  <1>3. CASE \/ Park(w) \/ CompleteInstance(w) \/ LeaveNode(w) \/ Supersede(w)
             \/ LinkSuccessor(w)
    BY <1>3 DEF Park, CompleteInstance, LeaveNode, Supersede, LinkSuccessor
  <1> QED
    BY <1>1, <1>2, <1>3
    DEF Statement, Proceed, StepRequest, tables, AdvanceWalk, AdvanceCreateSteps,
        AdvanceThrows, SettleInvoice, Authorise, RecordDecision, LogDecision, Tally,
        SkipSiblings, MarkDelegated, InsertDelegate, RecallCheck, RecallFind, CancelSteps,
        SweepEnd, SweepSkip, SweepReport, SweepStamp, SweepRead, EscalateOverdue,
        DecideStep, DelegateStep

LEMMA OneActiveStatement ==
  ASSUME Typed, OneActivePerInvoice, NEW w \in Worker, Statement(w)
  PROVE  OneActivePerInvoice'
  <1>1. Frame
    BY FrameStatement
  <1>2. CASE DOMAIN instances' = DOMAIN instances
    BY <1>1, <1>2 DEF Frame, OneActivePerInvoice, ActiveIds
  <1>3. CASE /\ ActiveIds = {}
             /\ DOMAIN instances' = DOMAIN instances \cup {Len(instances) + 1}
    BY <1>1, <1>3 DEF Frame, OneActivePerInvoice, ActiveIds
  <1> QED
    BY <1>2, <1>3, NewInstances

\* At most one instance of an invoice is live at any time.
THEOREM SpecOneActive == Spec => []OneActivePerInvoice
  <1>1. Init => OneActivePerInvoice
    BY DEF Init, OneActivePerInvoice, ActiveIds
  <1>2. ASSUME Typed, OneActivePerInvoice, [Next]_vars PROVE OneActivePerInvoice'
    <2>1. CASE UNCHANGED instances
      BY <1>2, <2>1 DEF OneActivePerInvoice, ActiveIds
    <2>2. ASSUME NEW w \in Worker, Statement(w) PROVE OneActivePerInvoice'
      BY <1>2, <2>2, OneActiveStatement
    <2> QED
      BY <1>2, <2>1, <2>2
      DEF Next, Statement, vars, tables, RequestStart, RestartInstance, DeadlinePasses
  <1> QED
    BY <1>1, <1>2, SpecTyped, PTL DEF Spec

-----------------------------------------------------------------------------
(* No approval without a recorded yes.                                     *)

\* The instances with an approval on record.  Earned and BackedBy take the tables
\* they speak of as arguments: a step compares them before and after.
OnRecordIds == {i \in DOMAIN instances : OnRecord(i)}

\* Node n of instance i is unearned, or somebody said yes.
Earned(table, ids, i, n) == n \notin Unearned[table[i].workflow] => i \in ids

\* What a request carries is backed by the record.
BackedBy(table, ids, p) ==
  /\ p.pc \in AtNode => Earned(table, ids, p.inst, p.node)
  /\ p.pc \in {"skip", "leave"} /\ p.outcome = "APPROVED" => p.inst \in ids

Backed ==
  /\ \A s \in DOMAIN steps : steps[s].status = "APPROVED" => Recorded(s)
  /\ \A s \in DOMAIN steps : Earned(instances, OnRecordIds, steps[s].inst, steps[s].node)
  /\ \A i \in DOMAIN instances : Earned(instances, OnRecordIds, i, instances[i].node)
  /\ \A w \in Worker : BackedBy(instances, OnRecordIds, proc[w])

\* An edge that is not the approve edge of an approval node keeps to the
\* unearned part of the graph, so its target is earned only if its source is.
LEMMA EdgeKeepsEarned ==
  ASSUME NEW d \in Workflow, NEW e \in EdgesOf(Def[d]),
         ~(Def[d].kind[e.from] = "APPROVAL" /\ ApproveEdge(e)),
         e.to \notin Unearned[d]
  PROVE  e.from \notin Unearned[d]
  BY UnearnedAssumption

LEMMA RecordedStays ==
  ASSUME Frame, NEW s, Recorded(s) PROVE Recorded(s)'
  BY DEF Frame, Recorded, At

LEMMA OnRecordStays == ASSUME Frame PROVE OnRecordIds \subseteq OnRecordIds'
  <1> SUFFICES ASSUME NEW i \in DOMAIN instances, OnRecord(i)
               PROVE  i \in DOMAIN instances' /\ OnRecord(i)'
    BY DEF OnRecordIds
  <1>1. PICK s \in DOMAIN steps : steps[s].inst = i /\ Recorded(s)
    BY DEF OnRecord
  <1>2. s \in DOMAIN steps' /\ steps'[s].inst = i /\ Recorded(s)'
    BY <1>1, RecordedStays DEF Frame
  <1> QED
    BY <1>2 DEF OnRecord, Frame

LEMMA EarnedStays ==
  ASSUME Frame, NEW i \in DOMAIN instances, NEW n, Earned(instances, OnRecordIds, i, n)
  PROVE  Earned(instances', OnRecordIds', i, n)
  BY OnRecordStays DEF Earned, Frame

\* What a step of a request has to establish: that what it writes is backed.
LEMMA BackedStep ==
  ASSUME Typed, Backed, Frame, NEW w \in Worker, NEW q, Set(w, q),
         BackedBy(instances', OnRecordIds', q),
         \A s \in DOMAIN steps' :
           /\ steps'[s].status = "APPROVED" =>
                (s \in DOMAIN steps /\ steps[s].status = "APPROVED") \/ Recorded(s)'
           /\ s \in DOMAIN steps
              \/ Earned(instances', OnRecordIds', steps'[s].inst, steps'[s].node),
         \A i \in DOMAIN instances' :
           \/ i \in DOMAIN instances /\ instances'[i].node = instances[i].node
           \/ Earned(instances', OnRecordIds', i, instances'[i].node)
  PROVE  Backed'
  <1>1. \A s \in DOMAIN steps' : steps'[s].status = "APPROVED" => Recorded(s)'
    BY RecordedStays DEF Backed
  <1>2. ASSUME NEW s \in DOMAIN steps'
        PROVE  Earned(instances', OnRecordIds', steps'[s].inst, steps'[s].node)
    <2>1. CASE s \in DOMAIN steps
      <3>1. /\ steps[s].inst \in DOMAIN instances
            /\ steps'[s].inst = steps[s].inst /\ steps'[s].node = steps[s].node
        BY <2>1, Rows DEF Frame
      <3> QED
        BY <2>1, <3>1, EarnedStays DEF Backed
    <2> QED
      BY <2>1
  <1>3. ASSUME NEW i \in DOMAIN instances'
        PROVE  Earned(instances', OnRecordIds', i, instances'[i].node)
    BY EarnedStays DEF Backed
  <1>4. ASSUME NEW v \in Worker PROVE BackedBy(instances', OnRecordIds', proc'[v])
    <2>1. CASE v = w
      BY <2>1 DEF Set, Typed
    <2>2. CASE v # w
      <3>1. proc'[v] = proc[v]
        BY <2>2 DEF Set, Typed
      <3>2. proc[v].pc \in AtNode => proc[v].inst \in DOMAIN instances
        BY Sizes DEF Typed, RequestOK
      <3>3. BackedBy(instances, OnRecordIds, proc[v])
        BY DEF Backed
      <3> QED
        BY <3>1, <3>2, <3>3, EarnedStays, OnRecordStays DEF BackedBy
    <2> QED
      BY <2>1, <2>2
  <1> QED
    BY <1>1, <1>2, <1>3, <1>4 DEF Backed

\* ... when it writes neither steps nor instances.
LEMMA BackedRequest ==
  ASSUME Typed, Backed, Frame, NEW w \in Worker, NEW q, Set(w, q), UNCHANGED <<instances, steps>>,
         BackedBy(instances', OnRecordIds', q)
  PROVE  Backed'
  BY BackedStep

\* A request that keeps to the node it works on stays backed.
LEMMA BackedMove ==
  ASSUME Typed, Backed, Frame, NEW w \in Worker, proc[w].pc \in AtNode, NEW q,
         q.inst = proc[w].inst, q.node = proc[w].node,
         q.pc \in {"skip", "leave"} /\ q.outcome = "APPROVED" => q.inst \in OnRecordIds
  PROVE  BackedBy(instances', OnRecordIds', q)
  <1>1. proc[w].inst \in DOMAIN instances
    BY AtNodeFacts
  <1>2. Earned(instances, OnRecordIds, q.inst, q.node)
    BY DEF Backed, BackedBy
  <1> QED
    BY <1>1, <1>2, EarnedStays, OnRecordStays DEF BackedBy

\* A request that works on no node has nothing to back.
LEMMA BackedOff ==
  ASSUME NEW table, NEW ids, NEW q, q.pc \notin AtNode PROVE BackedBy(table, ids, q)
  BY DEF BackedBy, AtNode

LEMMA AfterOff == ASSUME NEW p \in Request PROVE After(p).pc \notin AtNode
  <1>1. CASE p.ret = <<>>
    BY <1>1 DEF After, Idle, AtNode
  <1>2. CASE p.ret # <<>>
    <2>1. Head(p.ret) \in Resumed
      BY <1>2 DEF Request
    <2>2. After(p).pc = Head(p.ret)
      BY <1>2 DEF After, Request
    <2> QED
      BY <2>1, <2>2 DEF AtNode, Resumed
  <1> QED
    BY <1>1, <1>2

LEMMA IdleOff == Idle.pc \notin AtNode
  BY DEF Idle, AtNode

LEMMA RequestType == ASSUME Typed, NEW w \in Worker PROVE proc[w] \in Request
  BY DEF Typed

LEMMA AdvancingFacts ==
  ASSUME NEW p, NEW i, NEW n
  PROVE  /\ Advancing(p, i, n).pc = "advance"
         /\ Advancing(p, i, n).inst = i /\ Advancing(p, i, n).node = n
  BY DEF Advancing, Idle

\* Where LeaveNode and AdvanceWalk lead is earned if where they come from is, or
\* if the approve edge is taken on an approval on record.
LEMMA WalkEarned ==
  ASSUME Typed, Backed, NEW w \in Worker, proc[w].pc \in AtNode,
         NEW e \in OutOf(GraphOf(w), proc[w].node),
         \/ ~(GraphOf(w).kind[proc[w].node] = "APPROVAL" /\ ApproveEdge(e))
         \/ proc[w].inst \in OnRecordIds
  PROVE  Earned(instances, OnRecordIds, proc[w].inst, e.to)
  <1> DEFINE d == InstanceOf(w).workflow
  <1>1. d \in Workflow /\ GraphOf(w) = Def[d] /\ d = instances[proc[w].inst].workflow
    BY AtNodeFacts DEF GraphOf, Instance, InstanceOf
  <1>2. e \in EdgesOf(Def[d]) /\ e.from = proc[w].node
    BY <1>1 DEF OutOf
  <1>3. Earned(instances, OnRecordIds, proc[w].inst, proc[w].node)
    BY DEF Backed, BackedBy
  <1> HIDE DEF d
  <1> QED
    BY <1>1, <1>2, <1>3, EdgeKeepsEarned DEF Earned

\* AdvanceWalk follows an edge of a START or CONDITION node.
LEMMA WalkEdge ==
  ASSUME NEW w, NEW n \in WalkTargets(w)
  PROVE  \E e \in OutOf(GraphOf(w), proc[w].node) :
           n = e.to /\ GraphOf(w).kind[proc[w].node] # "APPROVAL"
  <1> DEFINE g == GraphOf(w)  m == proc[w].node
  <1>1. CASE g.kind[m] = "START"
    <2>1. PICK e \in FirstOf(g, ApproveOut(g, m)) : n = e.to
      BY <1>1 DEF WalkTargets
    <2> QED
      BY <1>1, <2>1, FirstOfEdge DEF ApproveOut
  <1>2. CASE g.kind[m] = "CONDITION"
    <2>1. PICK e \in ConditionOut(g, m, invoice.amount) : n = e.to
      BY <1>2 DEF WalkTargets
    <2>2. \E S \in SUBSET OutOf(g, m) : e \in FirstOf(g, S)
      BY <2>1 DEF ConditionOut
    <2> QED
      BY <1>2, <2>1, <2>2, FirstOfEdge
  <1>3. g.kind[m] \in {"START", "CONDITION"}
    BY DEF WalkTargets
  <1> QED
    BY <1>1, <1>2, <1>3

LEMMA BackedAdvance ==
  ASSUME Typed, Backed, NEW w \in Worker,
         \/ StartInstance(w) \/ AdvanceWalk(w) \/ AdvanceCreateSteps(w)
         \/ AdvanceThrows(w) \/ Park(w) \/ CompleteInstance(w) \/ SettleInvoice(w)
  PROVE  Backed'
  <1> DEFINE p == proc[w]
  <1>0. Frame /\ p \in Request
    BY FrameAdvance, RequestType
  <1>1. CASE StartInstance(w)
    <2>1. CASE Return(w) /\ UNCHANGED instances
      BY <1>0, <1>1, <2>1, AfterOff, BackedOff, BackedRequest DEF StartInstance, Return
    <2>2. CASE Fail(w) /\ UNCHANGED instances
      BY <1>0, <1>1, <2>2, IdleOff, BackedOff, BackedRequest DEF StartInstance, Fail
    <2>3. ASSUME NEW d \in Workflow,
                 instances' = Append(instances, [workflow |-> d, status |-> "ACTIVE",
                                                 node |-> StartNode(Def[d]), link |-> 0]),
                 Set(w, Advancing(p, Len(instances) + 1, StartNode(Def[d])))
          PROVE  Backed'
      <3> DEFINE i == Len(instances) + 1  n == StartNode(Def[d])
      <3>1. /\ DOMAIN instances' = DOMAIN instances \cup {i}
            /\ \A j \in DOMAIN instances : instances'[j] = instances[j]
            /\ instances'[i].workflow = d /\ instances'[i].node = n
        BY <2>3, Sizes DEF Typed
      <3>2. Earned(instances', OnRecordIds', i, n)
        BY <3>1, UnearnedAssumption DEF Earned
      <3>3. BackedBy(instances', OnRecordIds', Advancing(p, i, n))
        BY <3>2, AdvancingFacts DEF BackedBy
      <3>4. UNCHANGED steps
        BY <1>1 DEF StartInstance
      <3> HIDE DEF i, n
      <3>5. Set(w, Advancing(p, i, n))
        BY <2>3 DEF i, n
      <3>6. \A j \in DOMAIN instances' :
              \/ j \in DOMAIN instances /\ instances'[j].node = instances[j].node
              \/ Earned(instances', OnRecordIds', j, instances'[j].node)
        BY <3>1, <3>2
      <3> QED
        BY <1>0, <3>3, <3>4, <3>5, <3>6, BackedStep
    <2> QED
      BY <1>1, <2>1, <2>2, <2>3 DEF StartInstance
  <1>2. CASE AdvanceWalk(w)
    <2>1. PICK n \in WalkTargets(w) : Set(w, [p EXCEPT !.node = n])
      BY <1>2 DEF AdvanceWalk
    <2>2. p.pc = "advance" /\ p.pc \in AtNode /\ UNCHANGED <<instances, steps>>
      BY <1>2 DEF AdvanceWalk, At, AtNode, tables
    <2>3. PICK e : /\ e \in OutOf(GraphOf(w), p.node) /\ n = e.to
                   /\ GraphOf(w).kind[p.node] # "APPROVAL"
      BY <2>1, WalkEdge
    <2>4. Earned(instances, OnRecordIds, p.inst, n)
      BY <2>2, <2>3, WalkEarned
    <2>5. p.inst \in DOMAIN instances
      BY <2>2, AtNodeFacts
    <2>6. BackedBy(instances', OnRecordIds', [p EXCEPT !.node = n])
      BY <1>0, <2>2, <2>4, <2>5, EarnedStays DEF BackedBy, Request
    <2> QED
      BY <1>0, <2>1, <2>2, <2>6, BackedRequest
  <1>3. CASE AdvanceCreateSteps(w)
    <2> DEFINE q == [p EXCEPT !.pc = "park"]
    <2>1. p.pc \in AtNode /\ Set(w, q) /\ UNCHANGED instances
      BY <1>3 DEF AdvanceCreateSteps, At, AtNode, Goto
    <2>2. q.inst = p.inst /\ q.node = p.node /\ q.pc = "park"
      BY <1>0 DEF Request
    <2>3. BackedBy(instances', OnRecordIds', q)
      BY <1>0, <2>1, <2>2, BackedMove
    <2>4. Earned(instances', OnRecordIds', p.inst, p.node)
      BY <2>2, <2>3 DEF BackedBy, AtNode
    <2>5. \A s \in DOMAIN steps' :
            \/ s \in DOMAIN steps /\ steps'[s] = steps[s]
            \/ /\ steps'[s].inst = p.inst /\ steps'[s].node = p.node
               /\ steps'[s].status = "PENDING"
      BY <1>3, CreatedSteps
    <2> HIDE DEF q
    <2> QED
      BY <1>0, <2>1, <2>3, <2>4, <2>5, BackedStep
  <1>4. CASE AdvanceThrows(w)
    BY <1>0, <1>4, IdleOff, BackedOff, BackedRequest DEF AdvanceThrows, Fail, tables
  <1>5. CASE Park(w)
    <2>1. p.pc \in AtNode /\ UNCHANGED steps
      BY <1>5 DEF Park, At, AtNode
    <2>2. p.inst \in DOMAIN instances /\ Earned(instances', OnRecordIds', p.inst, p.node)
      BY <1>0, <2>1, AtNodeFacts, EarnedStays DEF Backed, BackedBy
    <2>3. \A i \in DOMAIN instances' :
            \/ i \in DOMAIN instances /\ instances'[i].node = instances[i].node
            \/ i = p.inst /\ instances'[i].node = p.node
      BY <1>5, Rows DEF Park, Instance
    <2>4. BackedBy(instances', OnRecordIds', After(p)) /\ Set(w, After(p))
      BY <1>0, <1>5, AfterOff, BackedOff DEF Park, Return
    <2> QED
      BY <1>0, <2>1, <2>2, <2>3, <2>4, BackedStep
  <1>6. CASE CompleteInstance(w)
    <2>1. p.pc \in AtNode /\ UNCHANGED steps
      BY <1>6 DEF CompleteInstance, At, AtNode
    <2>2. p.inst \in DOMAIN instances /\ Earned(instances', OnRecordIds', p.inst, p.node)
      BY <1>0, <2>1, AtNodeFacts, EarnedStays DEF Backed, BackedBy
    <2>3. \A i \in DOMAIN instances' :
            \/ i \in DOMAIN instances /\ instances'[i].node = instances[i].node
            \/ i = p.inst /\ instances'[i].node = p.node
      BY <1>6, Rows DEF CompleteInstance, Instance
    <2>4. PICK x : Set(w, [p EXCEPT !.pc = "settle", !.outcome = x])
      BY <1>6 DEF CompleteInstance
    <2>5. BackedBy(instances', OnRecordIds', [p EXCEPT !.pc = "settle", !.outcome = x])
      BY <1>0, <2>1, BackedMove DEF Request
    <2> QED
      BY <1>0, <2>1, <2>2, <2>3, <2>4, <2>5, BackedStep
  <1>7. CASE SettleInvoice(w)
    BY <1>0, <1>7, AfterOff, BackedOff, BackedRequest DEF SettleInvoice, Return
  <1> QED
    BY <1>1, <1>2, <1>3, <1>4, <1>5, <1>6, <1>7

\* A step whose APPROVE is on record puts its instance on record.
LEMMA OnRecordOfStep ==
  ASSUME Typed, NEW s \in DOMAIN steps, Recorded(s) PROVE steps[s].inst \in OnRecordIds
  <1>1. steps[s].inst \in DOMAIN instances
    BY Rows
  <1> QED
    BY <1>1 DEF OnRecordIds, OnRecord

\* resolveNodeOutcome carries a node only if one of its steps is APPROVED.
LEMMA CarriedBySomeone ==
  ASSUME NEW mode, NEW statuses, NodeOutcome(mode, statuses) = "APPROVED"
  PROVE  "APPROVED" \in statuses
  BY DEF NodeOutcome, Deciding

LEMMA BackedDecide ==
  ASSUME Typed, Backed, NEW w \in Worker,
         \/ \E s \in DOMAIN steps, v \in Vote : DecideStep(w, s, v)
         \/ Authorise(w) \/ RecordDecision(w) \/ LogDecision(w)
         \/ Tally(w) \/ SkipSiblings(w) \/ LeaveNode(w)
  PROVE  Backed'
  <1> DEFINE p == proc[w]
  <1>0. Frame /\ p \in Request
    BY FrameDecide, RequestType
  <1>1. ASSUME NEW s \in DOMAIN steps, NEW v \in Vote, DecideStep(w, s, v) PROVE Backed'
    <2> DEFINE l == IF v = "APPROVE" THEN "authorise" ELSE "record"
               q == [Idle EXCEPT !.pc = l, !.inst = steps[s].inst, !.node = steps[s].node,
                                 !.step = s, !.vote = v]
    <2>1. Set(w, q) /\ UNCHANGED <<instances, steps>>
      BY <1>1 DEF DecideStep, tables
    <2>2. l \in {"authorise", "record"}
      OBVIOUS
    <2> HIDE DEF l
    <2>3. q.inst = steps[s].inst /\ q.node = steps[s].node /\ q.pc \notin {"skip", "leave"}
      BY <2>2 DEF Idle
    <2>4. /\ steps[s].inst \in DOMAIN instances
          /\ Earned(instances, OnRecordIds, steps[s].inst, steps[s].node)
      BY Rows DEF Backed
    <2> HIDE DEF q
    <2>5. BackedBy(instances', OnRecordIds', q)
      BY <1>0, <2>3, <2>4, EarnedStays DEF BackedBy
    <2> QED
      BY <1>0, <2>1, <2>5, BackedRequest
  <1>2. CASE Authorise(w)
    <2>1. p.pc \in AtNode /\ UNCHANGED <<instances, steps>>
      BY <1>2 DEF Authorise, At, AtNode, tables
    <2>2. CASE Set(w, [p EXCEPT !.pc = "record"])
      <3>1. BackedBy(instances', OnRecordIds', [p EXCEPT !.pc = "record"])
        BY <1>0, <2>1, BackedMove DEF Request
      <3> QED
        BY <1>0, <2>1, <2>2, <3>1, BackedRequest
    <2>3. CASE Set(w, Idle)
      BY <1>0, <2>1, <2>3, IdleOff, BackedOff, BackedRequest
    <2> QED
      BY <1>2, <2>2, <2>3 DEF Authorise, Goto, Fail
  <1>3. CASE RecordDecision(w)
    <2> DEFINE q == [p EXCEPT !.pc = "log"]
    <2>1. /\ p.pc \in AtNode /\ UNCHANGED instances /\ Set(w, q)
          /\ steps' = SetStatus({p.step}, Verdict(p.vote))
      BY <1>3 DEF RecordDecision, At, AtNode, Goto
    <2>2. /\ q.inst = p.inst /\ q.node = p.node /\ q.pc = "log"
          /\ q.step = p.step /\ q.vote = p.vote
      BY <1>0 DEF Request
    <2>3. BackedBy(instances', OnRecordIds', q)
      BY <1>0, <2>1, <2>2, BackedMove
    <2>4. proc'[w] = q
      BY <2>1 DEF Set, Typed
    <2> HIDE DEF q
    <2>5. \A s : s = p.step /\ Verdict(p.vote) = "APPROVED" => Recorded(s)'
      BY <2>2, <2>4 DEF Verdict, Recorded, At
    <2>6. ASSUME NEW s \in DOMAIN steps'
          PROVE  /\ s \in DOMAIN steps
                 /\ steps'[s].status = "APPROVED" =>
                      steps[s].status = "APPROVED" \/ Recorded(s)'
      <3>1. /\ s \in DOMAIN steps
            /\ steps'[s].status = IF s \in {p.step} THEN Verdict(p.vote) ELSE steps[s].status
        BY <2>1, SetStatusKeeps
      <3>2. CASE s = p.step
        BY <2>5, <3>1, <3>2
      <3>3. CASE s # p.step
        BY <3>1, <3>3
      <3> QED
        BY <3>2, <3>3
    <2> QED
      BY <1>0, <2>1, <2>3, <2>6, BackedStep
  <1>4. CASE LogDecision(w)
    <2>1. p.pc \in AtNode /\ Set(w, [p EXCEPT !.pc = "tally"]) /\ UNCHANGED <<instances, steps>>
      BY <1>4 DEF LogDecision, At, AtNode, Goto, tables
    <2>2. BackedBy(instances', OnRecordIds', [p EXCEPT !.pc = "tally"])
      BY <1>0, <2>1, BackedMove DEF Request
    <2> QED
      BY <1>0, <2>1, <2>2, BackedRequest
  <1>5. CASE Tally(w)
    <2> DEFINE siblings == StepsAt(p.inst, p.node)
               outcome == NodeOutcome(GraphOf(w).mode[p.node], {steps[s].status : s \in siblings})
    <2>1. p.pc \in AtNode /\ UNCHANGED <<instances, steps>>
      BY <1>5 DEF Tally, At, AtNode, tables
    <2>2. CASE Set(w, After(p))
      BY <1>0, <2>1, <2>2, AfterOff, BackedOff, BackedRequest
    <2>3. CASE \E l, S : Set(w, [p EXCEPT !.outcome = outcome, !.seen = S, !.pc = l])
      <3>1. PICK l, S : Set(w, [p EXCEPT !.outcome = outcome, !.seen = S, !.pc = l])
        BY <2>3
      <3>2. outcome = "APPROVED" => \E s \in DOMAIN steps : /\ steps[s].inst = p.inst
                                                         /\ steps[s].status = "APPROVED"
        BY CarriedBySomeone DEF StepsAt
      <3>3. outcome = "APPROVED" => p.inst \in OnRecordIds
        BY <3>2, OnRecordOfStep DEF Backed
      <3> HIDE DEF outcome
      <3> DEFINE q == [p EXCEPT !.outcome = outcome, !.seen = S, !.pc = l]
      <3>4. q.inst = p.inst /\ q.node = p.node /\ q.outcome = outcome
        BY <1>0 DEF Request
      <3> HIDE DEF q
      <3>5. BackedBy(instances', OnRecordIds', q)
        BY <1>0, <2>1, <3>3, <3>4, BackedMove
      <3>6. Set(w, q)
        BY <3>1 DEF q
      <3> QED
        BY <1>0, <2>1, <3>5, <3>6, BackedRequest
    <2> QED
      BY <1>5, <2>2, <2>3 DEF Tally, Return
  <1>6. CASE SkipSiblings(w)
    <2> DEFINE l == AfterSkip(GraphOf(w), p.node, p.outcome)
               q == [p EXCEPT !.seen = {}, !.pc = l]
    <2>1. /\ p.pc = "skip" /\ UNCHANGED instances /\ Set(w, q)
          /\ steps' = SetStatus(p.seen, "SKIPPED")
      BY <1>6 DEF SkipSiblings, At
    <2>2. BackedBy(instances, OnRecordIds, p)
      BY DEF Backed
    <2> HIDE DEF l
    <2>3. q.inst = p.inst /\ q.node = p.node /\ q.outcome = p.outcome
      BY <1>0 DEF Request
    <2> HIDE DEF q
    <2>4. BackedBy(instances', OnRecordIds', q)
      BY <1>0, <2>1, <2>2, <2>3, BackedMove DEF BackedBy, AtNode
    <2>5. \A s \in DOMAIN steps' :
            /\ s \in DOMAIN steps
            /\ steps'[s].status = "APPROVED" => steps[s].status = "APPROVED"
      BY <2>1, SetStatusKeeps
    <2> QED
      BY <1>0, <2>1, <2>4, <2>5, BackedStep
  <1>7. CASE LeaveNode(w)
    <2>1. PICK e \in ExitOut(GraphOf(w), p.node, p.outcome) :
            /\ instances' = [instances EXCEPT ![p.inst].node = e.to]
            /\ Set(w, Advancing(p, p.inst, e.to))
      BY <1>7 DEF LeaveNode
    <2>2. p.pc = "leave" /\ p.pc \in AtNode /\ UNCHANGED steps
      BY <1>7 DEF LeaveNode, At, AtNode
    <2>3. \/ p.outcome = "APPROVED"
          \/ ~ApproveEdge(e)
      <3>1. CASE p.outcome = "REJECTED"
        <4>1. e \in FirstOf(GraphOf(w), RejectOut(GraphOf(w), p.node))
          BY <2>1, <3>1 DEF ExitOut
        <4> QED
          BY <4>1, FirstOfEdge DEF RejectOut, ApproveEdge
      <3>2. CASE p.outcome \notin {"APPROVED", "REJECTED"}
        <4>1. e \in FirstOf(GraphOf(w), SlaOut(GraphOf(w), p.node))
          BY <2>1, <3>2 DEF ExitOut
        <4> QED
          BY <4>1, FirstOfEdge DEF SlaOut, ApproveEdge
      <3> QED
        BY <3>1, <3>2
    <2>4. e \in OutOf(GraphOf(w), p.node)
      BY <2>1, FirstOfEdge DEF ExitOut, ApproveOut, RejectOut, SlaOut
    <2>5. BackedBy(instances, OnRecordIds, p)
      BY DEF Backed
    <2>6. Earned(instances, OnRecordIds, p.inst, e.to)
      BY <2>2, <2>3, <2>4, <2>5, WalkEarned DEF BackedBy
    <2>7. p.inst \in DOMAIN instances /\ Earned(instances', OnRecordIds', p.inst, e.to)
      BY <1>0, <2>2, <2>6, AtNodeFacts, EarnedStays
    <2>8. \A i \in DOMAIN instances' :
            \/ i \in DOMAIN instances /\ instances'[i].node = instances[i].node
            \/ i = p.inst /\ instances'[i].node = e.to
      BY <2>1, Rows DEF Instance
    <2>9. BackedBy(instances', OnRecordIds', Advancing(p, p.inst, e.to))
      BY <2>7, AdvancingFacts DEF BackedBy
    <2> QED
      BY <1>0, <2>1, <2>2, <2>7, <2>8, <2>9, BackedStep
  <1> QED
    BY <1>1, <1>2, <1>3, <1>4, <1>5, <1>6, <1>7

LEMMA BackedDelegate ==
  ASSUME Typed, Backed, NEW w \in Worker,
         \/ \E s \in DOMAIN steps, u \in User : DelegateStep(w, s, u)
         \/ MarkDelegated(w) \/ InsertDelegate(w)
  PROVE  Backed'
  <1> DEFINE p == proc[w]
  <1>0. Frame /\ p \in Request
    BY FrameDelegate, RequestType
  <1>1. ASSUME NEW s \in DOMAIN steps, NEW u \in User, DelegateStep(w, s, u) PROVE Backed'
    <2> DEFINE q == [Idle EXCEPT !.pc = "handoff", !.inst = steps[s].inst,
                                 !.node = steps[s].node, !.step = s, !.to = u]
    <2>1. Set(w, q) /\ UNCHANGED <<instances, steps>>
      BY <1>1 DEF DelegateStep, tables
    <2>2. q.inst = steps[s].inst /\ q.node = steps[s].node /\ q.pc = "handoff"
      BY DEF Idle
    <2>3. /\ steps[s].inst \in DOMAIN instances
          /\ Earned(instances, OnRecordIds, steps[s].inst, steps[s].node)
      BY Rows DEF Backed
    <2> HIDE DEF q
    <2>4. BackedBy(instances', OnRecordIds', q)
      BY <1>0, <2>2, <2>3, EarnedStays DEF BackedBy
    <2> QED
      BY <1>0, <2>1, <2>4, BackedRequest
  <1>2. CASE MarkDelegated(w)
    <2>1. /\ p.pc \in AtNode /\ UNCHANGED instances /\ Set(w, [p EXCEPT !.pc = "replace"])
          /\ steps' = SetStatus({p.step}, "DELEGATED")
      BY <1>2 DEF MarkDelegated, At, AtNode, Goto
    <2>2. BackedBy(instances', OnRecordIds', [p EXCEPT !.pc = "replace"])
      BY <1>0, <2>1, BackedMove DEF Request
    <2>3. \A s \in DOMAIN steps' :
            /\ s \in DOMAIN steps
            /\ steps'[s].status = "APPROVED" => steps[s].status = "APPROVED"
      BY <2>1, SetStatusKeeps
    <2> QED
      BY <1>0, <2>1, <2>2, <2>3, BackedStep
  <1>3. CASE InsertDelegate(w)
    <2> DEFINE new == NewStep(p.inst, p.node, p.to, steps[p.step].due)
    <2>1. p.pc \in AtNode /\ UNCHANGED instances /\ Set(w, After(p)) /\ steps' = Append(steps, new)
      BY <1>3 DEF InsertDelegate, At, AtNode, Return
    <2>2. new.inst = p.inst /\ new.node = p.node /\ new.status = "PENDING"
      BY DEF NewStep
    <2> HIDE DEF new
    <2>3. \A s \in DOMAIN steps' :
            \/ s \in DOMAIN steps /\ steps'[s] = steps[s]
            \/ steps'[s] = new
      BY <2>1, Sizes DEF Typed, StepsOK
    <2>4. Earned(instances', OnRecordIds', p.inst, p.node)
      BY <1>0, <2>1, AtNodeFacts, EarnedStays DEF Backed, BackedBy
    <2>5. BackedBy(instances', OnRecordIds', After(p))
      BY <1>0, AfterOff, BackedOff
    <2> QED
      BY <1>0, <2>1, <2>2, <2>3, <2>4, <2>5, BackedStep
  <1> QED
    BY <1>1, <1>2, <1>3

LEMMA BackedRecall ==
  ASSUME Typed, Backed, NEW w \in Worker,
         \/ RecallCheck(w) \/ RecallFind(w) \/ CancelSteps(w) \/ Supersede(w)
         \/ LinkSuccessor(w)
  PROVE  Backed'
  <1> DEFINE p == proc[w]
  <1>0. Frame /\ p \in Request
    BY FrameRecall, RequestType
  <1>1. PICK q : Set(w, q) /\ q.pc \notin AtNode
    <2>1. ASSUME NEW l, l \notin AtNode, Set(w, [p EXCEPT !.pc = l])
          PROVE  \E q : Set(w, q) /\ q.pc \notin AtNode
      <3>1. [p EXCEPT !.pc = l].pc \notin AtNode
        BY <1>0, <2>1 DEF Request
      <3> QED
        BY <2>1, <3>1
    <2>2. CASE RecallCheck(w) \/ CancelSteps(w)
      BY <2>1, <2>2, IdleOff DEF RecallCheck, CancelSteps, Goto, Fail, AtNode
    <2>3. CASE RecallFind(w)
      <3>1. ASSUME NEW i \in ActiveIds, Set(w, [p EXCEPT !.pc = "cancel", !.old = i])
            PROVE  \E q : Set(w, q) /\ q.pc \notin AtNode
        <4>1. [p EXCEPT !.pc = "cancel", !.old = i].pc \notin AtNode
          BY <1>0 DEF Request, AtNode
        <4> QED
          BY <3>1, <4>1
      <3> QED
        BY <1>0, <2>3, <3>1, AfterOff DEF RecallFind, Return
    <2>4. CASE Supersede(w) \/ LinkSuccessor(w)
      BY <1>0, <2>4, AfterOff DEF Supersede, LinkSuccessor, Return
    <2> QED
      BY <2>2, <2>3, <2>4
  <1>2. \A i \in DOMAIN instances' : i \in DOMAIN instances /\ instances'[i].node = instances[i].node
    <2>1. CASE UNCHANGED instances
      BY <2>1
    <2>2. CASE \E i : instances' = [instances EXCEPT ![i].status = "SUPERSEDED"]
      BY <2>2, Rows DEF Instance
    <2>3. CASE \E i : instances' = [instances EXCEPT ![p.old].link = i]
      BY <2>3, Rows DEF Instance
    <2> QED
      BY <2>1, <2>2, <2>3
      DEF RecallCheck, RecallFind, CancelSteps, Supersede, LinkSuccessor, tables
  <1>3. \A s \in DOMAIN steps' :
          /\ s \in DOMAIN steps
          /\ steps'[s].status = "APPROVED" => steps[s].status = "APPROVED"
    <2>1. CASE UNCHANGED steps
      BY <2>1
    <2>2. CASE \E S : steps' = SetStatus(S, "CANCELLED")
      BY <2>2, SetStatusKeeps
    <2> QED
      BY <2>1, <2>2 DEF RecallCheck, RecallFind, CancelSteps, Supersede, LinkSuccessor, tables
  <1>4. BackedBy(instances', OnRecordIds', q)
    BY <1>1, BackedOff
  <1> QED
    BY <1>0, <1>1, <1>2, <1>3, <1>4, BackedStep

LEMMA BackedSweep ==
  ASSUME Typed, Backed, NEW w \in Worker,
         \/ EscalateOverdue(w) \/ SweepEnd(w) \/ SweepSkip(w) \/ SweepReport(w)
         \/ SweepStamp(w) \/ SweepRead(w)
  PROVE  Backed'
  <1> DEFINE p == proc[w]
  <1>0. Frame /\ p \in Request
    BY FrameSweep, RequestType
  <1>1. CASE EscalateOverdue(w) \/ SweepEnd(w) \/ SweepSkip(w)
    <2>1. PICK q : Set(w, q) /\ q.pc \notin AtNode
      <3>1. CASE EscalateOverdue(w)
        <4> DEFINE todo == {<<steps[s].inst, steps[s].node>> : s \in Overdue}
        <4>1. Set(w, [Idle EXCEPT !.pc = "sweep", !.todo = todo])
          BY <3>1 DEF EscalateOverdue
        <4> HIDE DEF todo
        <4>2. [Idle EXCEPT !.pc = "sweep", !.todo = todo].pc \notin AtNode
          BY DEF Idle, AtNode
        <4> QED
          BY <4>1, <4>2
      <3>2. CASE SweepEnd(w)
        BY <1>0, <3>2, AfterOff DEF SweepEnd, Return
      <3>3. CASE SweepSkip(w)
        <4>1. PICK b : Set(w, [p EXCEPT !.todo = @ \ {b}]) /\ p.pc = "sweep"
          BY <3>3 DEF SweepSkip, At
        <4>2. [p EXCEPT !.todo = @ \ {b}].pc \notin AtNode
          BY <1>0, <4>1 DEF Request, AtNode
        <4> QED
          BY <4>1, <4>2
      <3> QED
        BY <1>1, <3>1, <3>2, <3>3
    <2> QED
      BY <1>0, <1>1, <2>1, BackedOff, BackedRequest
      DEF EscalateOverdue, SweepEnd, SweepSkip, tables
  <1>2. CASE SweepReport(w)
    <2>1. PICK b \in p.todo :
            /\ instances[b[1]].node = b[2]
            /\ Set(w, [p EXCEPT !.pc = "stamp", !.todo = @ \ {b},
                                !.inst = b[1], !.node = b[2]])
      BY <1>2 DEF SweepReport
    <2> DEFINE q == [p EXCEPT !.pc = "stamp", !.todo = @ \ {b}, !.inst = b[1], !.node = b[2]]
    <2>2. q.pc = "stamp" /\ q.inst = b[1] /\ q.node = b[2]
      BY <1>0 DEF Request
    <2>3. b[1] \in DOMAIN instances
      BY Sizes DEF Typed, RequestOK
    <2>4. Set(w, q)
      BY <2>1
    <2> HIDE DEF q
    <2>5. BackedBy(instances', OnRecordIds', q)
      BY <1>0, <2>1, <2>2, <2>3, EarnedStays DEF Backed, BackedBy
    <2> QED
      BY <1>0, <1>2, <2>4, <2>5, BackedRequest DEF SweepReport, tables
  <1>3. CASE SweepStamp(w)
    <2> DEFINE l == IF SlaOut(GraphOf(w), p.node) = {} THEN "sweep" ELSE "sweepRead"
    <2>1. p.pc \in AtNode /\ UNCHANGED instances /\ Set(w, [p EXCEPT !.pc = l])
      BY <1>3 DEF SweepStamp, At, AtNode, Goto
    <2>2. l \in {"sweep", "sweepRead"}
      OBVIOUS
    <2> HIDE DEF l
    <2>3. BackedBy(instances', OnRecordIds', [p EXCEPT !.pc = l])
      BY <1>0, <2>1, <2>2, BackedMove DEF Request
    <2>4. \A s \in DOMAIN steps' :
            s \in DOMAIN steps /\ steps'[s].status = steps[s].status
      BY <1>3, Rows DEF SweepStamp, Step
    <2> QED
      BY <1>0, <2>1, <2>3, <2>4, BackedStep
  <1>4. CASE SweepRead(w)
    <2> DEFINE open == Pending(StepsAt(p.inst, p.node))
               l == IF open = {} THEN "leave" ELSE "skip"
               q == [p EXCEPT !.outcome = "SLA", !.seen = open, !.ret = <<"sweep">>, !.pc = l]
    <2>1. p.pc \in AtNode /\ UNCHANGED <<instances, steps>> /\ Set(w, q)
      BY <1>4 DEF SweepRead, At, AtNode, tables
    <2> HIDE DEF open, l
    <2>2. q.inst = p.inst /\ q.node = p.node /\ q.outcome = "SLA"
      BY <1>0 DEF Request
    <2> HIDE DEF q
    <2>3. BackedBy(instances', OnRecordIds', q)
      BY <1>0, <2>1, <2>2, BackedMove
    <2> QED
      BY <1>0, <2>1, <2>3, BackedRequest
  <1> QED
    BY <1>1, <1>2, <1>3, <1>4

LEMMA BackedInit == Init => Backed
  <1> SUFFICES ASSUME Init PROVE Backed
    OBVIOUS
  <1>1. instances = <<>> /\ steps = <<>>
    BY DEF Init
  <1>2. \A w \in Worker : proc[w].pc \notin AtNode
    BY IdleOff DEF Init
  <1>3. \A w \in Worker : BackedBy(instances, OnRecordIds, proc[w])
    BY <1>2, BackedOff
  <1> QED
    BY <1>1, <1>3 DEF Backed

\* A step that leaves the rows, the audit trail and the requests alone.
LEMMA BackedRest ==
  ASSUME Backed, UNCHANGED <<instances, steps, audit, proc>> PROVE Backed'
  <1>1. \A s : Recorded(s) => Recorded(s)'
    BY DEF Recorded, At
  <1>2. OnRecordIds' = OnRecordIds
    BY DEF OnRecordIds, OnRecord, Recorded, At
  <1>3. \A w \in Worker : BackedBy(instances', OnRecordIds', proc'[w])
    BY <1>2 DEF Backed
  <1>4. /\ \A s \in DOMAIN steps' : steps'[s].status = "APPROVED" => Recorded(s)'
        /\ \A s \in DOMAIN steps' :
             Earned(instances', OnRecordIds', steps'[s].inst, steps'[s].node)
        /\ \A i \in DOMAIN instances' : Earned(instances', OnRecordIds', i, instances'[i].node)
    BY <1>1, <1>2 DEF Backed
  <1> QED
    BY <1>3, <1>4 DEF Backed

LEMMA BackedStatement ==
  ASSUME Typed, Backed, NEW w \in Worker, Statement(w) PROVE Backed'
  <1>1. CASE Proceed(w)
    BY <1>1, BackedAdvance, BackedDecide, BackedDelegate, BackedRecall, BackedSweep DEF Proceed
  <1>2. CASE StepRequest(w)
    BY <1>2, BackedDecide, BackedDelegate DEF StepRequest
  <1> QED
    BY <1>1, <1>2, BackedSweep DEF Statement

LEMMA BackedNext == ASSUME Typed, Backed, [Next]_vars PROVE Backed'
  <1>1. CASE UNCHANGED vars
    BY <1>1, BackedRest DEF vars, tables, logs
  <1>2. ASSUME NEW w \in Worker, RequestStart(w) \/ RestartInstance(w) PROVE Backed'
    <2>1. PICK q : Set(w, q) /\ q.pc \notin AtNode
      <3>1. /\ [Idle EXCEPT !.pc = "start"].pc \notin AtNode
            /\ [Idle EXCEPT !.pc = "recall", !.ret = <<"start", "link">>].pc \notin AtNode
        BY DEF Idle, AtNode
      <3> QED
        BY <1>2, <3>1 DEF RequestStart, RestartInstance
    <2> QED
      BY <1>2, <2>1, FrameStep, BackedOff, BackedRequest
      DEF RequestStart, RestartInstance, tables, Next
  <1>3. CASE DeadlinePasses
    BY <1>3, BackedRest DEF DeadlinePasses, tables, logs
  <1> QED
    BY <1>1, <1>2, <1>3, BackedStatement DEF Next, Statement

\* No interleaving of decisions, hand-offs, escalations and recalls takes an
\* instance past the unearned part of its graph without an APPROVE on record.
THEOREM SpecApprovedOnRecord == Spec => []ApprovedOnRecord
  <1>1. Backed => ApprovedOnRecord
    BY DEF Backed, Earned, OnRecordIds, ApprovedOnRecord
  <1> QED
    BY <1>1, BackedInit, BackedNext, SpecTyped, PTL DEF Spec
=============================================================================
