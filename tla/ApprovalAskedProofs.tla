------------------------- MODULE ApprovalAskedProofs -------------------------
(***************************************************************************)
(* SomeoneToAsk, proved for any number of requests in flight and every     *)
(* graph whose approval nodes all have approvers.                          *)
(*                                                                         *)
(* Asked is its inductive strengthening: a live instance is the newest,    *)
(* and either a question of it is open or a request in flight carries it   *)
(* on, to the next question or to its end.  A handler that wrote an answer *)
(* carries the instance only as long as that answer stands: whoever        *)
(* overwrites it (a skip, a hand-off) carries the instance in its place.   *)
(*                                                                         *)
(* The second part is about requests that do not overlap.  InTurn says     *)
(* what the request at work knows of the rows it is about to write; from   *)
(* it follow NoStrayQuestion, HistoryKept and, statement by statement,     *)
(* that the engine implements ApprovalRound (ImplementsRound).             *)
(*                                                                         *)
(* The third part is about crashes between its statements: InRepair says   *)
(* what a restart of the approval knows of the live instance.              *)
(***************************************************************************)
EXTENDS ApprovalEngineProofs, WellFoundedInduction, FiniteSetTheorems

\* Every approval node has somebody to ask, and START an edge to follow; otherwise
\* advance throws and leaves a live instance behind without a question.
Staffed ==
  \A d \in Workflow, n \in Node :
    /\ Def[d].kind[n] = "APPROVAL" => Def[d].approvers[n] # <<>>
    /\ Def[d].kind[n] = "START" => ApproveOut(Def[d], n) # {}

\* A request p still at work for instance i will put a question of it or close it.
Carries(rows, p, i) ==
  \/ p.inst = i /\ p.pc \in {"advance", "complete", "skip", "leave", "replace"}
  \/ /\ p.inst = i /\ p.pc \in {"log", "tally"}
     /\ rows[p.step].status \in {"APPROVED", "REJECTED"}
  \/ p.old = i /\ p.pc = "supersede"

\* The steps a request holds are of the instance and the node it holds.
Fits(rows, p) ==
  /\ p.pc \in AtStep => rows[p.step].inst = p.inst /\ rows[p.step].node = p.node
  /\ p.pc = "skip" => \A s \in p.seen : s \in DOMAIN rows /\ rows[s].inst = p.inst

Open(rows, i) == \E s \in DOMAIN rows : rows[s].inst = i /\ rows[s].status = "PENDING"

Asked ==
  /\ \A w \in Worker : Fits(steps, proc[w])
  /\ \A i \in ActiveIds :
       /\ i = Len(instances)
       /\ Open(steps, i) \/ \E w \in Worker : Carries(steps, proc[w], i)

-----------------------------------------------------------------------------
(* What a step of a request has to establish.                              *)

LEMMA FitsStays ==
  ASSUME Typed, Frame, NEW v \in Worker, Fits(steps, proc[v])
  PROVE  Fits(steps', proc[v])
  <1>1. RequestOK(proc[v], Len(instances), Len(steps))
    BY DEF Typed
  <1>2. proc[v].pc \in AtStep => proc[v].step \in DOMAIN steps
    BY <1>1, Sizes DEF RequestOK
  <1> QED
    BY <1>2 DEF Fits, Frame

\* The request w moves to q.  The steps whose status it writes are of an instance
\* that q carries or that is closed now; what w carried, q does, or a question is open.
LEMMA AskedBy ==
  ASSUME Typed, Asked, Frame, NEW w \in Worker, NEW q, Set(w, q),
         Fits(steps', q),
         \A s \in DOMAIN steps :
           steps'[s].status = steps[s].status \/ Carries(steps', q, steps[s].inst),
         \A i \in ActiveIds' :
           Carries(steps, proc[w], i) => Open(steps', i) \/ Carries(steps', q, i),
         \A i \in ActiveIds' \ ActiveIds : i = Len(instances') /\ Carries(steps', q, i),
         ActiveIds # {} => Len(instances') = Len(instances)
  PROVE  Asked'
  <1>1. \A v \in Worker : v # w => proc'[v] = proc[v]
    BY DEF Set, Typed
  <1>2. proc'[w] = q
    BY DEF Set, Typed
  <1>3. \A v \in Worker : Fits(steps', proc'[v])
    BY <1>1, <1>2, FitsStays DEF Asked
  <1>4. ASSUME NEW i \in ActiveIds', i \in ActiveIds
        PROVE  Open(steps', i) \/ \E v \in Worker : Carries(steps', proc'[v], i)
    <2>1. CASE Carries(steps', q, i)
      BY <1>2, <2>1
    <2>2. CASE ~Carries(steps', q, i) /\ Open(steps, i)
      <3>1. PICK s \in DOMAIN steps : steps[s].inst = i /\ steps[s].status = "PENDING"
        BY <2>2 DEF Open
      <3>2. s \in DOMAIN steps' /\ steps'[s].inst = i /\ steps'[s].status = "PENDING"
        BY <2>2, <3>1 DEF Frame
      <3> QED
        BY <3>2 DEF Open
    <2>3. ASSUME NEW v \in Worker, Carries(steps, proc[v], i), ~Carries(steps', q, i)
          PROVE  Open(steps', i) \/ Carries(steps', proc'[v], i)
      <3>1. CASE v = w
        BY <2>3, <3>1
      <3>2. CASE v # w /\ proc[v].pc \notin {"log", "tally"}
        BY <1>1, <2>3, <3>2 DEF Carries
      <3>3. CASE v # w /\ proc[v].pc \in {"log", "tally"}
        <4> DEFINE s == proc[v].step
        <4>1. s \in DOMAIN steps /\ steps[s].inst = i
          <5>1. RequestOK(proc[v], Len(instances), Len(steps)) /\ Fits(steps, proc[v])
            BY DEF Typed, Asked
          <5> QED
            BY <2>3, <3>3, <5>1, Sizes DEF RequestOK, Fits, Carries, AtStep
        <4>2. steps[s].status \in {"APPROVED", "REJECTED"}
          BY <2>3, <3>3 DEF Carries
        <4>3. steps'[s].status \in {"APPROVED", "REJECTED"}
          BY <2>3, <4>1, <4>2
        <4> QED
          BY <1>1, <2>3, <3>3, <4>3 DEF Carries
      <3> QED
        BY <3>1, <3>2, <3>3
    <2> QED
      BY <2>1, <2>2, <2>3 DEF Asked
  <1>5. \A i \in ActiveIds' :
          /\ i = Len(instances')
          /\ Open(steps', i) \/ \E v \in Worker : Carries(steps', proc'[v], i)
    BY <1>2, <1>4 DEF Asked
  <1> QED
    BY <1>3, <1>5 DEF Asked

\* A step that closes no instance and opens none.
LEMMA SameInstances ==
  ASSUME Typed, Frame, DOMAIN instances' = DOMAIN instances, instances' \in Seq(Instance)
  PROVE  ActiveIds' \subseteq ActiveIds /\ Len(instances') = Len(instances)
  <1>1. Len(instances') = Len(instances)
    BY LenProperties, Sizes
  <1> QED
    BY <1>1 DEF Frame, ActiveIds

\* A request that is nobody's hope and holds no steps, such as one that returns.
LEMMA FitsOff == ASSUME NEW rows, NEW q, q.pc \notin AtNode PROVE Fits(rows, q)
  BY DEF Fits, AtNode, AtStep

\* A statement that writes no row, or no status of one.
LEMMA AskedStill ==
  ASSUME Typed, Asked, Frame, NEW w \in Worker, NEW q, Set(w, q), Fits(steps', q),
         UNCHANGED instances,
         \A s \in DOMAIN steps : steps'[s].status = steps[s].status,
         \A i \in ActiveIds : Carries(steps, proc[w], i) => Open(steps', i) \/ Carries(steps', q, i)
  PROVE  Asked'
  <1>1. ActiveIds' = ActiveIds
    BY DEF ActiveIds
  <1> QED
    BY <1>1, AskedBy

-----------------------------------------------------------------------------
(* advance.                                                                *)

LEMMA LeastOf == ASSUME NEW S \in SUBSET Nat, S # {} PROVE \E k \in S : \A j \in S : k <= j
  <1> DEFINE R == OpToRel(<, Nat)
  <1>1. IsWellFoundedOn(R, Nat)
    BY NatLessThanWellFounded
  <1>2. \A i, j \in Nat : i < j => <<i, j>> \in R
    BY DEF OpToRel
  <1> HIDE DEF R
  <1>3. PICK k \in S : \A j \in S : ~(<<j, k>> \in R)
    BY <1>1, WFMin
  <1>4. \A j \in S : ~(j < k)
    BY <1>2, <1>3
  <1> QED
    BY <1>4

\* Some edge of a list is the first of its kind.
LEMMA FirstOfSome ==
  ASSUME NEW g \in Graph, NEW S, S \cap EdgesOf(g) # {} PROVE FirstOf(g, S) # {}
  <1> DEFINE at == {k \in DOMAIN g.edges : g.edges[k] \in S}
  <1>1. DOMAIN g.edges = 1..Len(g.edges) /\ Len(g.edges) \in Nat
    BY LenProperties DEF Graph
  <1>2. at \in SUBSET Nat /\ at # {}
    BY <1>1 DEF EdgesOf
  <1> HIDE DEF at
  <1>3. PICK k \in at : \A j \in at : k <= j
    BY <1>2, LeastOf
  <1> USE DEF at
  <1>4. \A j \in 1..(k - 1) : g.edges[j] \notin S
    BY <1>1, <1>3
  <1> QED
    BY <1>3, <1>4 DEF FirstOf

\* On a graph that is staffed the walk never gets stuck before an approval node.
LEMMA WalkGoesOn ==
  ASSUME Staffed, Typed, NEW w \in Worker, proc[w].pc \in AtNode,
         GraphOf(w).kind[proc[w].node] \in {"START", "CONDITION"}
  PROVE  WalkTargets(w) # {}
  <1> DEFINE d == InstanceOf(w).workflow  g == GraphOf(w)  n == proc[w].node
  <1>1. d \in Workflow /\ g = Def[d] /\ g \in Graph /\ n \in Node
    BY AtNodeFacts DEF Instance, GraphOf
  <1> HIDE DEF d, g, n
  <1>2. CASE g.kind[n] = "START"
    <2>1. ApproveOut(g, n) \cap EdgesOf(g) # {}
      BY <1>1, <1>2 DEF Staffed, ApproveOut, OutOf
    <2>2. FirstOf(g, ApproveOut(g, n)) # {}
      BY <1>1, <2>1, FirstOfSome
    <2> QED
      BY <1>2, <2>2 DEF WalkTargets, g, n
  <1>3. CASE g.kind[n] = "CONDITION"
    <2> DEFINE otherwise == {e \in OutOf(g, n) : e.isDefault}
               matching  == {e \in OutOf(g, n) : /\ ~e.isDefault /\ e.holds # NoCondition
                                                  /\ invoice.amount \in e.holds}
    <2>1. CountOut(g, otherwise) = 1
      BY <1>1, <1>3, WorkflowAssumption DEF ValidGraph, ValidNode
    <2>2. {i \in DOMAIN g.edges : g.edges[i] \in otherwise} # {}
      BY <2>1, FS_EmptySet DEF CountOut
    <2>3. otherwise \cap EdgesOf(g) # {}
      BY <2>2 DEF OutOf
    <2>4. FirstOf(g, otherwise) # {}
      BY <1>1, <2>3, FirstOfSome
    <2>5. matching # {} => FirstOf(g, matching) # {}
      <3>1. matching \subseteq EdgesOf(g)
        BY DEF OutOf
      <3> QED
        BY <1>1, <3>1, FirstOfSome
    <2>6. ConditionOut(g, n, invoice.amount) # {}
      BY <2>4, <2>5 DEF ConditionOut
    <2> QED
      BY <1>3, <2>6 DEF WalkTargets, g, n
  <1> QED
    BY <1>2, <1>3 DEF g, n

\* A list of approvers that is not empty puts a question.
LEMMA CreatedOpen ==
  ASSUME Typed, NEW w \in Worker, AdvanceCreateSteps(w)
  PROVE  Open(steps', proc[w].inst)
  <1> DEFINE p == proc[w]
             list == GraphOf(w).approvers[p.node]
             due == IF GraphOf(w).timed[p.node] THEN Len(steps) + 1 ELSE 0
             new == [k \in 1..Len(list) |-> NewStep(p.inst, p.node, list[k], due)]
  <1>1. p.pc = "advance" /\ steps' = steps \o new /\ list # <<>>
    BY DEF AdvanceCreateSteps, At
  <1>2. new \in Seq(Step)
    BY <1>1, NewStepsOK
  <1>3. list \in Seq(User)
    BY <1>1, AtNodeFacts DEF AtNode, Graph
  <1>4. Len(list) \in Nat /\ Len(list) >= 1
    BY <1>1, <1>3, EmptySeq, LenProperties
  <1>5. Len(new) = Len(list)
    BY <1>3, <1>4
  <1> HIDE DEF new, list
  <1>6. /\ Len(steps') = Len(steps) + Len(new) /\ steps' \in Seq(Step)
    BY <1>1, <1>2, ConcatProperties DEF Typed, StepsOK
  <1>7. Len(steps) + 1 \in DOMAIN steps' \ DOMAIN steps
    BY <1>4, <1>5, <1>6, Sizes, LenProperties
  <1> QED
    BY <1>7, CreatedSteps DEF Open

LEMMA AskedAdvance ==
  ASSUME Staffed, Typed, Asked, NEW w \in Worker,
         \/ StartInstance(w) \/ AdvanceWalk(w) \/ AdvanceCreateSteps(w)
         \/ AdvanceThrows(w) \/ Park(w) \/ CompleteInstance(w) \/ SettleInvoice(w)
  PROVE  Asked'
  <1> DEFINE p == proc[w]
  <1>0. /\ Frame /\ p \in Request /\ RequestOK(p, Len(instances), Len(steps))
        /\ Fits(steps, p)
    BY FrameAdvance DEF Typed, Asked
  <1>a. \A i \in DOMAIN instances : instances[i] \in Instance
    BY Rows
  <1>1. CASE StartInstance(w)
    <2>0. p.pc = "start"
      BY <1>1 DEF StartInstance, At
    <2>1. \A i : ~Carries(steps, p, i)
      BY <2>0 DEF Carries
    <2>2. CASE UNCHANGED instances
      <3>1. CASE Return(w) \/ Fail(w)
        <4>1. PICK q : Set(w, q) /\ q.pc \notin AtNode
          BY <1>0, <3>1, AfterOff, IdleOff DEF Return, Fail
        <4> QED
          BY <1>0, <1>1, <2>1, <2>2, <4>1, FitsOff, AskedStill DEF StartInstance
      <3>2. CASE \E r : instances' = Append(instances, r)
        <4>1. Len(instances') = Len(instances) + 1
          BY <3>2 DEF Typed
        <4> QED
          BY <2>2, <4>1, Sizes
      <3> QED
        BY <1>1, <3>1, <3>2 DEF StartInstance
    <2>3. CASE instances' # instances
      <3>1. PICK d \in Workflow :
              /\ ActiveIds = {}
              /\ instances' = Append(instances, [workflow |-> d, status |-> "ACTIVE",
                                                 node |-> StartNode(Def[d]), link |-> 0])
              /\ Set(w, Advancing(p, Len(instances) + 1, StartNode(Def[d])))
        BY <1>1, <2>3 DEF StartInstance
      <3> DEFINE i == Len(instances) + 1  q == Advancing(p, i, StartNode(Def[d]))
      <3>2. q.pc = "advance" /\ q.inst = i
        BY AdvancingFacts
      <3> HIDE DEF q
      <3>3. Fits(steps', q)
        BY <3>2 DEF Fits, AtStep
      <3>4. Len(instances') = i /\ DOMAIN instances' = DOMAIN instances \cup {i}
        BY <3>1, Sizes DEF Typed
      <3>5. \A j \in ActiveIds' : j = i
        <4>1. ASSUME NEW j \in ActiveIds', j # i PROVE FALSE
          <5>1. j \in DOMAIN instances
            BY <3>4, <4>1 DEF ActiveIds
          <5>2. instances'[j].status = "ACTIVE"
            BY DEF ActiveIds
          <5>3. instances[j].status = "ACTIVE"
            BY <1>0, <5>1, <5>2 DEF Frame
          <5> QED
            BY <3>1, <5>1, <5>3 DEF ActiveIds
        <4> QED
          BY <4>1
      <3>6. \A j \in ActiveIds' : Carries(steps', q, j)
        BY <3>2, <3>5 DEF Carries
      <3> QED
        BY <1>0, <1>1, <3>1, <3>3, <3>4, <3>5, <3>6, AskedBy DEF StartInstance, q
    <2> QED
      BY <2>2, <2>3
  <1>2. CASE AdvanceWalk(w)
    <2>1. PICK n : Set(w, [p EXCEPT !.node = n])
      BY <1>2 DEF AdvanceWalk
    <2> DEFINE q == [p EXCEPT !.node = n]
    <2>2. p.pc = "advance" /\ q.pc = "advance" /\ q.inst = p.inst
      BY <1>0, <1>2 DEF AdvanceWalk, At, Request
    <2> HIDE DEF q
    <2>3. Fits(steps', q) /\ \A i : Carries(steps, p, i) => Carries(steps', q, i)
      BY <2>2 DEF Fits, AtStep, Carries
    <2> QED
      BY <1>0, <1>2, <2>1, <2>3, AskedStill DEF AdvanceWalk, tables, q
  <1>3. CASE AdvanceCreateSteps(w)
    <2> DEFINE q == [p EXCEPT !.pc = "park"]
    <2>1. p.pc = "advance" /\ q.pc = "park" /\ Set(w, q)
      BY <1>0, <1>3 DEF AdvanceCreateSteps, At, Goto, Request
    <2> HIDE DEF q
    <2>2. Fits(steps', q)
      BY <2>1 DEF Fits, AtStep
    <2>3. \A i : Carries(steps, p, i) => Open(steps', i)
      BY <1>3, <2>1, CreatedOpen DEF Carries
    <2>4. \A s \in DOMAIN steps : steps'[s].status = steps[s].status
      BY <1>3, CreatedSteps
    <2> QED
      BY <1>0, <1>3, <2>1, <2>2, <2>3, <2>4, AskedStill DEF AdvanceCreateSteps
  <1>4. CASE AdvanceThrows(w)
    <2>1. p.pc \in AtNode
      BY <1>4 DEF AdvanceThrows, At, AtNode
    <2>2. /\ InstanceOf(w).workflow \in Workflow /\ GraphOf(w) = Def[InstanceOf(w).workflow]
          /\ p.node \in Node
      BY <2>1, AtNodeFacts DEF Instance, GraphOf
    <2> QED
      BY <1>4, <2>1, <2>2, WalkGoesOn DEF AdvanceThrows, Staffed
  <1>5. CASE Park(w)
    <2>1. p.pc = "park" /\ p.inst \in DOMAIN instances
      BY <1>5, AtNodeFacts DEF Park, At, AtNode
    <2>2. PICK q : Set(w, q) /\ q.pc \notin AtNode
      BY <1>0, <1>5, AfterOff DEF Park, Return
    <2>3. ActiveIds' \subseteq ActiveIds /\ Len(instances') = Len(instances)
      <3>1. DOMAIN instances' = DOMAIN instances /\ Len(instances') = Len(instances)
        BY <1>5, Sizes, MoveInstanceOK, AtNodeFacts, LenProperties DEF Park, At, AtNode
      <3> QED
        BY <1>0, <3>1 DEF Frame, ActiveIds
    <2>4. \A i : ~Carries(steps, p, i)
      BY <2>1 DEF Carries
    <2> QED
      BY <1>0, <1>5, <2>2, <2>3, <2>4, FitsOff, AskedBy DEF Park
  <1>6. CASE CompleteInstance(w)
    <2>1. p.pc \in AtNode /\ p.pc \in {"advance", "complete"}
      BY <1>6 DEF CompleteInstance, At, AtNode
    <2>2. p.inst \in DOMAIN instances
      BY <2>1, AtNodeFacts
    <2>3. PICK x : Set(w, [p EXCEPT !.pc = "settle", !.outcome = x])
      BY <1>6 DEF CompleteInstance
    <2> DEFINE q == [p EXCEPT !.pc = "settle", !.outcome = x]
    <2>4. q.pc = "settle"
      BY <1>0 DEF Request
    <2> HIDE DEF q
    <2>5. Fits(steps', q)
      BY <2>4 DEF Fits, AtStep
    <2>6. /\ DOMAIN instances' = DOMAIN instances
          /\ instances'[p.inst].status = "COMPLETED"
      BY <1>6, <1>a, <2>2 DEF CompleteInstance, Instance
    <2>7. /\ ActiveIds' \subseteq ActiveIds /\ p.inst \notin ActiveIds'
      BY <1>0, <2>6 DEF Frame, ActiveIds
    <2>8. Len(instances') = Len(instances)
      BY <1>6 DEF CompleteInstance, Typed
    <2>9. \A i \in ActiveIds' : ~Carries(steps, p, i)
      BY <2>1, <2>7 DEF Carries
    <2> QED
      BY <1>0, <1>6, <2>3, <2>5, <2>7, <2>8, <2>9, AskedBy DEF CompleteInstance, q
  <1>7. CASE SettleInvoice(w)
    <2>1. p.pc = "settle"
      BY <1>7 DEF SettleInvoice, At
    <2>2. PICK q : Set(w, q) /\ q.pc \notin AtNode
      BY <1>0, <1>7, AfterOff DEF SettleInvoice, Return
    <2>4. \A i : ~Carries(steps, p, i)
      BY <2>1 DEF Carries
    <2> QED
      BY <1>0, <1>7, <2>2, <2>4, FitsOff, AskedStill DEF SettleInvoice
  <1> QED
    BY <1>1, <1>2, <1>3, <1>4, <1>5, <1>6, <1>7

-----------------------------------------------------------------------------
(* decideStep.                                                             *)

\* An answer among the steps leaves a node waiting only for one still pending.
LEMMA WaitsForSomeone ==
  ASSUME NEW mode, NEW S, "APPROVED" \in S \/ "REJECTED" \in S,
         NodeOutcome(mode, S) = "WAITING"
  PROVE  "PENDING" \in S
  <1> DEFINE live == S \cap Deciding
  <1>1. live # {} /\ live \subseteq Deciding
    BY DEF Deciding
  <1>2. ~("APPROVED" \in live /\ "REJECTED" \in live)
    BY <1>1 DEF NodeOutcome
  <1>3. live # {"APPROVED"} /\ live # {"REJECTED"}
    BY <1>1 DEF NodeOutcome
  <1>4. "PENDING" \in live
    BY <1>1, <1>2, <1>3 DEF Deciding
  <1> QED
    BY <1>4

\* The facts every case starts from.
LEMMA AskedFacts ==
  ASSUME Typed, Asked, NEW w \in Worker
  PROVE  /\ proc[w] \in Request /\ RequestOK(proc[w], Len(instances), Len(steps))
         /\ Fits(steps, proc[w])
         /\ proc[w].pc \in AtStep =>
              /\ proc[w].step \in DOMAIN steps
              /\ steps[proc[w].step].inst = proc[w].inst
              /\ steps[proc[w].step].node = proc[w].node
  <1>1. /\ proc[w] \in Request /\ RequestOK(proc[w], Len(instances), Len(steps))
        /\ Fits(steps, proc[w])
    BY DEF Typed, Asked
  <1> QED
    BY <1>1, Sizes DEF RequestOK, Fits

LEMMA AskedDecide ==
  ASSUME Typed, Asked, NEW w \in Worker,
         \/ \E s \in DOMAIN steps, v \in Vote : DecideStep(w, s, v)
         \/ Authorise(w) \/ RecordDecision(w) \/ LogDecision(w)
         \/ Tally(w) \/ SkipSiblings(w) \/ LeaveNode(w)
  PROVE  Asked'
  <1> DEFINE p == proc[w]
  <1>0. /\ Frame /\ p \in Request /\ RequestOK(p, Len(instances), Len(steps))
        /\ Fits(steps, p)
        /\ p.pc \in AtStep => /\ p.step \in DOMAIN steps
                              /\ steps[p.step].inst = p.inst /\ steps[p.step].node = p.node
    BY FrameDecide, AskedFacts
  <1>1. ASSUME NEW s \in DOMAIN steps, NEW v \in Vote, DecideStep(w, s, v) PROVE Asked'
    <2> DEFINE q == [Idle EXCEPT !.pc = IF v = "APPROVE" THEN "authorise" ELSE "record",
                                 !.inst = steps[s].inst, !.node = steps[s].node,
                                 !.step = s, !.vote = v]
    <2>1. /\ q.inst = steps[s].inst /\ q.node = steps[s].node /\ q.step = s
          /\ q.pc \in {"authorise", "record"} /\ q.pc # "skip"
      BY DEF Idle
    <2>2. p.pc = "idle" /\ Set(w, q)
      BY <1>1 DEF DecideStep, At
    <2> HIDE DEF q
    <2>3. steps' = steps /\ instances' = instances
      BY <1>1 DEF DecideStep, tables
    <2>4. Fits(steps', q)
      BY <2>1, <2>3 DEF Fits
    <2>5. \A i : ~Carries(steps, p, i)
      BY <2>2 DEF Carries
    <2> QED
      BY <1>0, <2>2, <2>3, <2>4, <2>5, AskedStill
  <1>2. CASE Authorise(w)
    <2>1. p.pc = "authorise" /\ steps' = steps /\ instances' = instances
      BY <1>2 DEF Authorise, At, tables
    <2>2. PICK q : Set(w, q) /\ Fits(steps', q)
      <3>1. CASE Fail(w)
        BY <3>1, IdleOff, FitsOff DEF Fail
      <3>2. CASE Goto(w, "record")
        <4> DEFINE q == [p EXCEPT !.pc = "record"]
        <4>1. q.pc = "record" /\ q.inst = p.inst /\ q.node = p.node /\ q.step = p.step
          BY <1>0 DEF Request
        <4> HIDE DEF q
        <4>2. Fits(steps', q)
          BY <1>0, <2>1, <4>1 DEF Fits, AtStep
        <4> QED
          BY <3>2, <4>2 DEF Goto, q
      <3> QED
        BY <1>2, <3>1, <3>2 DEF Authorise
    <2>3. \A i : ~Carries(steps, p, i)
      BY <2>1 DEF Carries
    <2> QED
      BY <1>0, <2>1, <2>2, <2>3, AskedStill
  <1>3. CASE RecordDecision(w)
    <2> DEFINE q == [p EXCEPT !.pc = "log"]
    <2>1. /\ p.pc = "record" /\ Set(w, q) /\ instances' = instances
          /\ steps' = SetStatus({p.step}, Verdict(p.vote))
      BY <1>3 DEF RecordDecision, At, Goto
    <2>2. q.pc = "log" /\ q.inst = p.inst /\ q.node = p.node /\ q.step = p.step
      BY <1>0 DEF Request
    <2> HIDE DEF q
    <2>3. /\ \A s \in DOMAIN steps : /\ steps'[s].inst = steps[s].inst
                                     /\ steps'[s].node = steps[s].node
          /\ \A s \in DOMAIN steps : s # p.step => steps'[s].status = steps[s].status
          /\ p.step \in DOMAIN steps => steps'[p.step].status = Verdict(p.vote)
      BY <2>1, SetStatusKeeps
    <2>4. /\ p.step \in DOMAIN steps
          /\ steps[p.step].inst = p.inst /\ steps[p.step].node = p.node
      BY <1>0, <2>1 DEF AtStep
    <2>5. Verdict(p.vote) \in {"APPROVED", "REJECTED"}
      BY DEF Verdict
    <2>6. Fits(steps', q)
      BY <2>2, <2>3, <2>4 DEF Fits
    <2>7. Carries(steps', q, p.inst)
      BY <2>2, <2>3, <2>4, <2>5 DEF Carries
    <2>8. ActiveIds' = ActiveIds
      BY <2>1 DEF ActiveIds
    <2>9. \A i : ~Carries(steps, p, i)
      BY <2>1 DEF Carries
    <2>10. \A s \in DOMAIN steps :
             steps'[s].status = steps[s].status \/ Carries(steps', q, steps[s].inst)
      BY <2>3, <2>4, <2>7
    <2> QED
      BY <1>0, <2>1, <2>6, <2>8, <2>9, <2>10, AskedBy
  <1>4. CASE LogDecision(w)
    <2> DEFINE q == [p EXCEPT !.pc = "tally"]
    <2>1. p.pc = "log" /\ Set(w, q) /\ instances' = instances /\ steps' = steps
      BY <1>4 DEF LogDecision, At, Goto, tables
    <2>2. q.pc = "tally" /\ q.inst = p.inst /\ q.node = p.node /\ q.step = p.step
      BY <1>0 DEF Request
    <2> HIDE DEF q
    <2>3. Fits(steps', q)
      BY <1>0, <2>1, <2>2 DEF Fits, AtStep
    <2>4. \A i : Carries(steps, p, i) => Carries(steps', q, i)
      BY <2>1, <2>2 DEF Carries
    <2> QED
      BY <1>0, <2>1, <2>3, <2>4, AskedStill
  <1>5. CASE Tally(w)
    <2> DEFINE siblings == StepsAt(p.inst, p.node)
               statuses == {steps[s].status : s \in siblings}
               outcome == NodeOutcome(GraphOf(w).mode[p.node], statuses)
               others == Pending(siblings) \ {p.step}
    <2>1. p.pc = "tally" /\ steps' = steps /\ instances' = instances
      BY <1>5 DEF Tally, At, tables
    <2>2. /\ p.step \in DOMAIN steps /\ p.step \in siblings
      BY <1>0, <2>1 DEF AtStep, StepsAt
    <2>3. CASE outcome = "WAITING"
      <3>1. PICK q : Set(w, q) /\ q.pc \notin AtNode
        BY <1>0, <1>5, <2>3, AfterOff DEF Tally, Return
      <3>2. ASSUME NEW i, Carries(steps, p, i) PROVE Open(steps', i)
        <4>1. p.inst = i /\ steps[p.step].status \in {"APPROVED", "REJECTED"}
          BY <2>1, <3>2 DEF Carries
        <4>2. steps[p.step].status \in statuses
          BY <2>2
        <4> HIDE DEF statuses, siblings
        <4>3. "PENDING" \in statuses
          BY <2>3, <4>1, <4>2, WaitsForSomeone
        <4> USE DEF statuses, siblings
        <4> QED
          BY <2>1, <4>1, <4>3 DEF Open, StepsAt
      <3> QED
        BY <1>0, <2>1, <3>1, <3>2, FitsOff, AskedStill
    <2>4. CASE outcome # "WAITING"
      <3> DEFINE l == IF others = {} THEN AfterSkip(GraphOf(w), p.node, outcome) ELSE "skip"
                 q == [p EXCEPT !.outcome = outcome, !.seen = others, !.pc = l]
      <3>1. Set(w, q)
        BY <1>5, <2>4 DEF Tally
      <3>2. q.pc = l /\ q.inst = p.inst /\ q.seen = others
        BY <1>0 DEF Request
      <3>3. l \in {"skip", "complete", "leave"}
        BY DEF AfterSkip
      <3>4. \A s \in others : s \in DOMAIN steps /\ steps[s].inst = p.inst
        BY DEF Pending, StepsAt
      <3> HIDE DEF q, l, others
      <3>5. Fits(steps', q)
        BY <2>1, <3>2, <3>3, <3>4 DEF Fits, AtStep
      <3>6. \A i : Carries(steps, p, i) => Carries(steps', q, i)
        BY <2>1, <3>2, <3>3 DEF Carries
      <3> QED
        BY <1>0, <2>1, <3>1, <3>5, <3>6, AskedStill
    <2> QED
      BY <2>3, <2>4
  <1>6. CASE SkipSiblings(w)
    <2> DEFINE l == AfterSkip(GraphOf(w), p.node, p.outcome)
               q == [p EXCEPT !.seen = {}, !.pc = l]
    <2>1. /\ p.pc = "skip" /\ Set(w, q) /\ instances' = instances
          /\ steps' = SetStatus(p.seen, "SKIPPED")
      BY <1>6 DEF SkipSiblings, At
    <2>2. q.pc = l /\ q.inst = p.inst
      BY <1>0 DEF Request
    <2>3. l \in {"complete", "leave"}
      BY DEF AfterSkip
    <2> HIDE DEF q, l
    <2>4. Fits(steps', q)
      BY <2>2, <2>3 DEF Fits, AtStep
    <2>5. Carries(steps', q, p.inst)
      BY <2>2, <2>3 DEF Carries
    <2>6. \A s \in DOMAIN steps : s \notin p.seen => steps'[s].status = steps[s].status
      BY <2>1, SetStatusKeeps
    <2>7. \A s \in p.seen : steps[s].inst = p.inst
      BY <1>0, <2>1 DEF Fits
    <2>8. ActiveIds' = ActiveIds
      BY <2>1 DEF ActiveIds
    <2>9. \A i : Carries(steps, p, i) => i = p.inst
      BY <2>1 DEF Carries
    <2>10. \A s \in DOMAIN steps :
             steps'[s].status = steps[s].status \/ Carries(steps', q, steps[s].inst)
      BY <2>5, <2>6, <2>7
    <2> QED
      BY <1>0, <2>1, <2>4, <2>5, <2>8, <2>9, <2>10, AskedBy
  <1>7. CASE LeaveNode(w)
    <2>1. PICK e \in ExitOut(GraphOf(w), p.node, p.outcome) :
            /\ instances' = [instances EXCEPT ![p.inst].node = e.to]
            /\ Set(w, Advancing(p, p.inst, e.to))
      BY <1>7 DEF LeaveNode
    <2> DEFINE q == Advancing(p, p.inst, e.to)
    <2>2. p.pc = "leave" /\ steps' = steps
      BY <1>7 DEF LeaveNode, At
    <2>3. q.pc = "advance" /\ q.inst = p.inst
      BY AdvancingFacts
    <2> HIDE DEF q
    <2>4. Fits(steps', q)
      BY <2>3 DEF Fits, AtStep
    <2>5. \A i : Carries(steps, p, i) => Carries(steps', q, i)
      BY <2>2, <2>3 DEF Carries
    <2>6. DOMAIN instances' = DOMAIN instances /\ Len(instances') = Len(instances)
      BY <2>1, Sizes DEF Typed
    <2>7. ActiveIds' \subseteq ActiveIds
      BY <1>0, <2>6 DEF Frame, ActiveIds
    <2> QED
      BY <1>0, <2>1, <2>2, <2>4, <2>5, <2>6, <2>7, AskedBy DEF q
  <1> QED
    BY <1>1, <1>2, <1>3, <1>4, <1>5, <1>6, <1>7

-----------------------------------------------------------------------------
(* delegateStep, recallInstance and restartInstance.                       *)

LEMMA AskedDelegate ==
  ASSUME Typed, Asked, NEW w \in Worker,
         \/ \E s \in DOMAIN steps, u \in User : DelegateStep(w, s, u)
         \/ MarkDelegated(w) \/ InsertDelegate(w)
  PROVE  Asked'
  <1> DEFINE p == proc[w]
  <1>0. /\ Frame /\ p \in Request /\ RequestOK(p, Len(instances), Len(steps))
        /\ Fits(steps, p)
        /\ p.pc \in AtStep => /\ p.step \in DOMAIN steps
                              /\ steps[p.step].inst = p.inst /\ steps[p.step].node = p.node
    BY FrameDelegate, AskedFacts
  <1>1. ASSUME NEW s \in DOMAIN steps, NEW u \in User, DelegateStep(w, s, u) PROVE Asked'
    <2> DEFINE q == [Idle EXCEPT !.pc = "handoff", !.inst = steps[s].inst,
                                 !.node = steps[s].node, !.step = s, !.to = u]
    <2>1. /\ q.inst = steps[s].inst /\ q.node = steps[s].node /\ q.step = s
          /\ q.pc = "handoff"
      BY DEF Idle
    <2>2. p.pc = "idle" /\ Set(w, q)
      BY <1>1 DEF DelegateStep, At
    <2> HIDE DEF q
    <2>3. steps' = steps /\ instances' = instances
      BY <1>1 DEF DelegateStep, tables
    <2>4. Fits(steps', q)
      BY <2>1, <2>3 DEF Fits
    <2>5. \A i : ~Carries(steps, p, i)
      BY <2>2 DEF Carries
    <2> QED
      BY <1>0, <2>2, <2>3, <2>4, <2>5, AskedStill
  <1>2. CASE MarkDelegated(w)
    <2> DEFINE q == [p EXCEPT !.pc = "replace"]
    <2>1. /\ p.pc = "handoff" /\ Set(w, q) /\ instances' = instances
          /\ steps' = SetStatus({p.step}, "DELEGATED")
      BY <1>2 DEF MarkDelegated, At, Goto
    <2>2. q.pc = "replace" /\ q.inst = p.inst /\ q.node = p.node /\ q.step = p.step
      BY <1>0 DEF Request
    <2> HIDE DEF q
    <2>3. /\ p.step \in DOMAIN steps
          /\ steps[p.step].inst = p.inst /\ steps[p.step].node = p.node
      BY <1>0, <2>1 DEF AtStep
    <2>4. \A s \in DOMAIN steps : /\ steps'[s].inst = steps[s].inst
                                  /\ steps'[s].node = steps[s].node
                                  /\ s # p.step => steps'[s].status = steps[s].status
      BY <2>1, SetStatusKeeps
    <2>5. Fits(steps', q)
      BY <2>2, <2>3, <2>4 DEF Fits
    <2>6. Carries(steps', q, p.inst)
      BY <2>2 DEF Carries
    <2>7. ActiveIds' = ActiveIds
      BY <2>1 DEF ActiveIds
    <2>8. \A i : ~Carries(steps, p, i)
      BY <2>1 DEF Carries
    <2>9. \A s \in DOMAIN steps :
            steps'[s].status = steps[s].status \/ Carries(steps', q, steps[s].inst)
      BY <2>3, <2>4, <2>6
    <2> QED
      BY <1>0, <2>1, <2>5, <2>7, <2>8, <2>9, AskedBy
  <1>3. CASE InsertDelegate(w)
    <2>1. /\ p.pc = "replace" /\ instances' = instances
          /\ steps' = Append(steps, NewStep(p.inst, p.node, p.to, steps[p.step].due))
      BY <1>3 DEF InsertDelegate, At
    <2>2. PICK q : Set(w, q) /\ q.pc \notin AtNode
      BY <1>0, <1>3, AfterOff DEF InsertDelegate, Return
    <2>3. /\ \A s \in DOMAIN steps : steps'[s] = steps[s]
          /\ Len(steps) + 1 \in DOMAIN steps'
          /\ steps'[Len(steps) + 1] = NewStep(p.inst, p.node, p.to, steps[p.step].due)
      BY <2>1, Sizes DEF Typed, StepsOK
    <2>4. Open(steps', p.inst)
      BY <2>3 DEF Open, NewStep
    <2>5. \A i : Carries(steps, p, i) => i = p.inst
      BY <2>1 DEF Carries
    <2>6. \A s \in DOMAIN steps : steps'[s].status = steps[s].status
      BY <2>3
    <2> QED
      BY <1>0, <2>1, <2>2, <2>4, <2>5, <2>6, FitsOff, AskedStill
  <1> QED
    BY <1>1, <1>2, <1>3

LEMMA AskedRecall ==
  ASSUME Typed, Asked, NEW w \in Worker,
         \/ RecallCheck(w) \/ RecallFind(w) \/ CancelSteps(w) \/ Supersede(w)
         \/ LinkSuccessor(w)
  PROVE  Asked'
  <1> DEFINE p == proc[w]
  <1>0. /\ Frame /\ p \in Request /\ RequestOK(p, Len(instances), Len(steps))
        /\ Fits(steps, p)
    BY FrameRecall, AskedFacts
  <1>a. \A i \in DOMAIN instances : instances[i] \in Instance
    BY Rows
  <1>1. CASE RecallCheck(w) \/ RecallFind(w)
    <2>1. /\ p.pc \in {"recall", "recallFind"} /\ steps' = steps /\ instances' = instances
      BY <1>1 DEF RecallCheck, RecallFind, At, tables
    <2>2. PICK q : Set(w, q) /\ q.pc \notin AtNode
      <3>1. CASE Fail(w) \/ Return(w)
        BY <1>0, <3>1, AfterOff, IdleOff DEF Fail, Return
      <3>2. CASE Goto(w, "recallFind")
        <4>1. [p EXCEPT !.pc = "recallFind"].pc \notin AtNode
          BY <1>0 DEF Request, AtNode
        <4> QED
          BY <3>2, <4>1 DEF Goto
      <3>3. CASE \E i \in ActiveIds : Set(w, [p EXCEPT !.pc = "cancel", !.old = i])
        <4>1. PICK i \in ActiveIds : Set(w, [p EXCEPT !.pc = "cancel", !.old = i])
          BY <3>3
        <4>2. [p EXCEPT !.pc = "cancel", !.old = i].pc \notin AtNode
          BY <1>0 DEF Request, AtNode
        <4> QED
          BY <4>1, <4>2
      <3> QED
        BY <1>1, <3>1, <3>2, <3>3 DEF RecallCheck, RecallFind
    <2>3. \A i : ~Carries(steps, p, i)
      BY <2>1 DEF Carries
    <2> QED
      BY <1>0, <2>1, <2>2, <2>3, FitsOff, AskedStill
  <1>2. CASE CancelSteps(w)
    <2> DEFINE q == [p EXCEPT !.pc = "supersede"]
               S == Pending({s \in DOMAIN steps : steps[s].inst = p.old})
    <2>1. /\ p.pc = "cancel" /\ Set(w, q) /\ instances' = instances
          /\ steps' = SetStatus(S, "CANCELLED")
      BY <1>2 DEF CancelSteps, At, Goto
    <2>2. q.pc = "supersede" /\ q.old = p.old
      BY <1>0 DEF Request
    <2> HIDE DEF q
    <2>3. Fits(steps', q)
      BY <2>2 DEF Fits, AtStep
    <2>4. \A s \in DOMAIN steps : s \notin S => steps'[s].status = steps[s].status
      BY <2>1, SetStatusKeeps
    <2>5. \A s \in S : Carries(steps', q, steps[s].inst)
      BY <2>2 DEF Carries, Pending
    <2>6. ActiveIds' = ActiveIds
      BY <2>1 DEF ActiveIds
    <2>7. \A i : ~Carries(steps, p, i)
      BY <2>1 DEF Carries
    <2> HIDE DEF S
    <2>8. \A s \in DOMAIN steps :
            steps'[s].status = steps[s].status \/ Carries(steps', q, steps[s].inst)
      BY <2>4, <2>5
    <2> QED
      BY <1>0, <2>1, <2>3, <2>6, <2>7, <2>8, AskedBy
  <1>3. CASE Supersede(w)
    <2>1. /\ p.pc = "supersede" /\ steps' = steps
          /\ instances' = [instances EXCEPT ![p.old].status = "SUPERSEDED"]
      BY <1>3 DEF Supersede, At
    <2>2. PICK q : Set(w, q) /\ q.pc \notin AtNode
      BY <1>0, <1>3, AfterOff DEF Supersede, Return
    <2>3. p.old \in DOMAIN instances
      BY <1>0, <2>1, Sizes DEF RequestOK
    <2>4. /\ DOMAIN instances' = DOMAIN instances /\ Len(instances') = Len(instances)
          /\ instances'[p.old].status = "SUPERSEDED"
      BY <1>a, <2>1, <2>3 DEF Instance, Typed
    <2>5. ActiveIds' \subseteq ActiveIds /\ p.old \notin ActiveIds'
      BY <1>0, <2>4 DEF Frame, ActiveIds
    <2>6. \A i : Carries(steps, p, i) => i = p.old
      BY <2>1 DEF Carries
    <2> QED
      BY <1>0, <2>1, <2>2, <2>4, <2>5, <2>6, FitsOff, AskedBy
  <1>4. CASE LinkSuccessor(w)
    <2>1. p.pc = "link" /\ steps' = steps
      BY <1>4 DEF LinkSuccessor, At
    <2>2. PICK q : Set(w, q) /\ q.pc \notin AtNode
      BY <1>0, <1>4, AfterOff DEF LinkSuccessor, Return
    <2>3. DOMAIN instances' = DOMAIN instances /\ Len(instances') = Len(instances)
      <3>1. \/ instances' = instances
            \/ \E i : p.old # 0 /\ instances' = [instances EXCEPT ![p.old].link = i]
        BY <1>4 DEF LinkSuccessor
      <3>2. ASSUME NEW i, instances' = [instances EXCEPT ![p.old].link = i]
            PROVE  DOMAIN instances' = DOMAIN instances /\ Len(instances') = Len(instances)
        BY <3>2, Sizes DEF Typed
      <3> QED
        BY <3>1, <3>2
    <2>4. ActiveIds' \subseteq ActiveIds
      BY <1>0, <2>3 DEF Frame, ActiveIds
    <2>5. \A i : ~Carries(steps, p, i)
      BY <2>1 DEF Carries
    <2> QED
      BY <1>0, <2>1, <2>2, <2>3, <2>4, <2>5, FitsOff, AskedBy
  <1> QED
    BY <1>1, <1>2, <1>3, <1>4

-----------------------------------------------------------------------------
(* escalateOverdueSteps.                                                   *)

LEMMA AskedSweep ==
  ASSUME Typed, Asked, NEW w \in Worker,
         \/ EscalateOverdue(w) \/ SweepEnd(w) \/ SweepSkip(w) \/ SweepReport(w)
         \/ SweepStamp(w) \/ SweepRead(w)
  PROVE  Asked'
  <1> DEFINE p == proc[w]
  <1>0. /\ Frame /\ p \in Request /\ Fits(steps, p)
    BY FrameSweep, AskedFacts
  <1>1. CASE EscalateOverdue(w) \/ SweepEnd(w) \/ SweepSkip(w)
    <2>1. PICK q : Set(w, q) /\ q.pc \notin AtNode
      <3>1. CASE EscalateOverdue(w)
        <4> DEFINE todo == {<<steps[s].inst, steps[s].node>> : s \in Overdue}
        <4>1. Set(w, [Idle EXCEPT !.pc = "sweep", !.todo = todo])
          BY <3>1 DEF EscalateOverdue
        <4> HIDE DEF todo
        <4>2. [Idle EXCEPT !.pc = "sweep", !.todo = todo].pc \notin AtNode
          BY DEF Idle, AtNode
        <4> QED
          BY <4>1, <4>2
      <3>2. CASE SweepEnd(w)
        BY <1>0, <3>2, AfterOff DEF SweepEnd, Return
      <3>3. CASE SweepSkip(w)
        <4>1. PICK b : Set(w, [p EXCEPT !.todo = @ \ {b}]) /\ p.pc = "sweep"
          BY <3>3 DEF SweepSkip, At
        <4>2. [p EXCEPT !.todo = @ \ {b}].pc \notin AtNode
          BY <1>0, <4>1 DEF Request, AtNode
        <4> QED
          BY <4>1, <4>2
      <3> QED
        BY <1>1, <3>1, <3>2, <3>3
    <2>2. /\ p.pc \in {"idle", "sweep"} /\ steps' = steps /\ instances' = instances
      BY <1>1 DEF EscalateOverdue, SweepEnd, SweepSkip, At, tables
    <2>3. \A i : ~Carries(steps, p, i)
      BY <2>2 DEF Carries
    <2> QED
      BY <1>0, <2>1, <2>2, <2>3, FitsOff, AskedStill
  <1>2. CASE SweepReport(w)
    <2>1. PICK b \in p.todo : Set(w, [p EXCEPT !.pc = "stamp", !.todo = @ \ {b},
                                               !.inst = b[1], !.node = b[2]])
      BY <1>2 DEF SweepReport
    <2> DEFINE q == [p EXCEPT !.pc = "stamp", !.todo = @ \ {b}, !.inst = b[1], !.node = b[2]]
    <2>2. q.pc = "stamp" /\ Set(w, q)
      BY <1>0, <2>1 DEF Request
    <2>3. p.pc = "sweep" /\ steps' = steps /\ instances' = instances
      BY <1>2 DEF SweepReport, At, tables
    <2> HIDE DEF q
    <2>4. Fits(steps', q)
      BY <2>2 DEF Fits, AtStep
    <2>5. \A i : ~Carries(steps, p, i)
      BY <2>3 DEF Carries
    <2> QED
      BY <1>0, <2>2, <2>3, <2>4, <2>5, AskedStill
  <1>3. CASE SweepStamp(w)
    <2> DEFINE l == IF SlaOut(GraphOf(w), p.node) = {} THEN "sweep" ELSE "sweepRead"
               q == [p EXCEPT !.pc = l]
    <2>1. p.pc = "stamp" /\ instances' = instances /\ Set(w, q)
      BY <1>3 DEF SweepStamp, At, Goto
    <2>2. q.pc = l /\ l \in {"sweep", "sweepRead"}
      BY <1>0 DEF Request
    <2> HIDE DEF q, l
    <2>3. Fits(steps', q)
      BY <2>2 DEF Fits, AtStep
    <2>4. \A s \in DOMAIN steps : steps'[s].status = steps[s].status
      BY <1>3, Rows DEF SweepStamp, Step
    <2>5. \A i : ~Carries(steps, p, i)
      BY <2>1 DEF Carries
    <2> QED
      BY <1>0, <2>1, <2>3, <2>4, <2>5, AskedStill
  <1>4. CASE SweepRead(w)
    <2> DEFINE open == Pending(StepsAt(p.inst, p.node))
               l == IF open = {} THEN "leave" ELSE "skip"
               q == [p EXCEPT !.outcome = "SLA", !.seen = open, !.ret = <<"sweep">>, !.pc = l]
    <2>1. p.pc = "sweepRead" /\ Set(w, q) /\ steps' = steps /\ instances' = instances
      BY <1>4 DEF SweepRead, At, tables
    <2>2. \A s \in open : s \in DOMAIN steps /\ steps[s].inst = p.inst
      BY DEF Pending, StepsAt
    <2> HIDE DEF open
    <2>3. l \in {"leave", "skip"}
      OBVIOUS
    <2> HIDE DEF l
    <2>4. q.pc = l /\ q.inst = p.inst /\ q.seen = open
      BY <1>0 DEF Request
    <2> HIDE DEF q
    <2>5. Fits(steps', q)
      BY <2>1, <2>2, <2>3, <2>4 DEF Fits, AtStep
    <2>6. \A i : ~Carries(steps, p, i)
      BY <2>1 DEF Carries
    <2> QED
      BY <1>0, <2>1, <2>5, <2>6, AskedStill
  <1> QED
    BY <1>1, <1>2, <1>3, <1>4

-----------------------------------------------------------------------------
(* The theorem.                                                            *)

LEMMA AskedStatement ==
  ASSUME Staffed, Typed, Asked, NEW w \in Worker, Statement(w) PROVE Asked'
  <1>1. CASE Proceed(w)
    BY <1>1, AskedAdvance, AskedDecide, AskedDelegate, AskedRecall, AskedSweep DEF Proceed
  <1>2. CASE StepRequest(w)
    BY <1>2, AskedDecide, AskedDelegate DEF StepRequest
  <1> QED
    BY <1>1, <1>2, AskedSweep DEF Statement

LEMMA AskedInit == Init => Asked
  <1> SUFFICES ASSUME Init PROVE Asked
    OBVIOUS
  <1>1. instances = <<>> /\ \A w \in Worker : proc[w] = Idle
    BY DEF Init
  <1>2. ActiveIds = {}
    BY <1>1 DEF ActiveIds
  <1> QED
    BY <1>1, <1>2, IdleOff, FitsOff DEF Asked

\* A step that leaves the rows and the requests alone.
LEMMA AskedRest == ASSUME Asked, UNCHANGED <<instances, steps, proc>> PROVE Asked'
  BY DEF Asked, ActiveIds

LEMMA AskedNext == ASSUME Staffed, Typed, Asked, [Next]_vars PROVE Asked'
  <1>1. CASE UNCHANGED vars
    BY <1>1, AskedRest DEF vars
  <1>2. ASSUME NEW w \in Worker, RequestStart(w) \/ RestartInstance(w) PROVE Asked'
    <2>1. PICK q : Set(w, q) /\ q.pc \notin AtNode
      <3>1. /\ [Idle EXCEPT !.pc = "start"].pc \notin AtNode
            /\ [Idle EXCEPT !.pc = "recall", !.ret = <<"start", "link">>].pc \notin AtNode
        BY DEF Idle, AtNode
      <3> QED
        BY <1>2, <3>1 DEF RequestStart, RestartInstance
    <2>2. proc[w].pc = "idle" /\ steps' = steps /\ instances' = instances
      BY <1>2 DEF RequestStart, RestartInstance, At, tables
    <2>3. \A i : ~Carries(steps, proc[w], i)
      BY <2>2 DEF Carries
    <2> QED
      BY <2>1, <2>2, <2>3, FrameStep, FitsOff, AskedStill
  <1>3. CASE DeadlinePasses
    BY <1>3, AskedRest DEF DeadlinePasses, tables
  <1> QED
    BY <1>1, <1>2, <1>3, AskedStatement DEF Next, Statement

LEMMA AskedMeans == ASSUME Typed, Asked PROVE SomeoneToAsk
  <1> SUFFICES ASSUME Quiet, NEW i \in ActiveIds
               PROVE  /\ i = CurrentInstance
                      /\ \E u \in User : \E s \in Inbox(u) : steps[s].inst = i
    BY DEF SomeoneToAsk
  <1>1. \A w \in Worker : ~Carries(steps, proc[w], i)
    BY DEF Quiet, At, Carries
  <1>2. i = Len(instances) /\ Open(steps, i)
    BY <1>1 DEF Asked
  <1>3. PICK s \in DOMAIN steps : steps[s].inst = i /\ steps[s].status = "PENDING"
    BY <1>2 DEF Open
  <1>4. steps[s].approver \in User
    BY Rows DEF Step
  <1> QED
    BY <1>2, <1>3, <1>4 DEF CurrentInstance, Inbox, ActiveIds

\* Two approvers who decide the last two steps of a node at once, a recall, a hand-off
\* or an escalation between them: when the requests in flight are through, a live
\* instance is the current one and one of its steps is in somebody's inbox.
THEOREM SpecSomeoneToAsk == ASSUME Staffed PROVE Spec => []SomeoneToAsk
  <1>1. Typed /\ Asked => SomeoneToAsk
    BY AskedMeans
  <1>2. Typed /\ Asked /\ [Next]_vars => Asked'
    BY AskedNext
  <1> QED
    BY <1>1, <1>2, AskedInit, SpecTyped, PTL DEF Spec

-----------------------------------------------------------------------------
\* One request is handled at a time.
OneAtATime == \E w : Worker = {w}

\* Whoever is asked is asked about the node the live instance is parked at, or is
\* about to be parked at.
QuestionsFit(rows, table, p) ==
  \A s \in DOMAIN rows : rows[s].status = "PENDING" =>
    /\ table[rows[s].inst].status = "ACTIVE"
    /\ \/ table[rows[s].inst].node = rows[s].node
       \/ p.pc = "park" /\ rows[s].inst = p.inst /\ rows[s].node = p.node

\* The instance a request works on is live, and parked at the node it works on
\* except while it walks.
Placed(table, p) ==
  /\ p.pc \in AtNode \ {"settle"} => table[p.inst].status = "ACTIVE"
  /\ p.pc \in AtNode \ {"settle", "advance", "park"} => table[p.inst].node = p.node
  /\ p.pc \in {"cancel", "supersede"} => table[p.old].status = "ACTIVE"

\* What a request knows of the questions of its instance.
Knows(rows, p) ==
  /\ p.pc \in {"advance", "complete", "leave"} => ~Open(rows, p.inst)
  /\ p.pc = "park" => \A s \in DOMAIN rows :
       rows[s].inst = p.inst /\ rows[s].status = "PENDING" => rows[s].node = p.node
  /\ p.pc = "supersede" => ~Open(rows, p.old)
  /\ p.pc \in {"authorise", "record", "handoff"} => rows[p.step].status = "PENDING"
  /\ p.pc \in {"log", "tally", "replace"} => rows[p.step].status # "PENDING"
  /\ p.pc \in AtStep => rows[p.step].inst = p.inst /\ rows[p.step].node = p.node
  /\ p.pc = "skip" =>
       p.seen = {s \in DOMAIN rows : rows[s].inst = p.inst /\ rows[s].status = "PENDING"}

LastIsLive(table) == \A i \in DOMAIN table : table[i].status = "ACTIVE" => i = Len(table)

\* Instances of which a question was answered yes.
GrantedIds(rows) == {rows[s].inst : s \in {r \in DOMAIN rows : rows[r].status = "APPROVED"}}

\* Past the unearned part of its graph an instance has a yes of its own.
Granted(rows, table, p) ==
  /\ \A i \in DOMAIN table : Earned(table, GrantedIds(rows), i, table[i].node)
  /\ BackedBy(table, GrantedIds(rows), p)

InTurn ==
  /\ LastIsLive(instances)
  /\ \A w \in Worker : /\ QuestionsFit(steps, instances, proc[w])
                       /\ Placed(instances, proc[w])
                       /\ Knows(steps, proc[w])
                       /\ Granted(steps, instances, proc[w])

-----------------------------------------------------------------------------
(* What InTurn gives, and what a step has to establish.                    *)

LEMMA TurnFacts ==
  ASSUME Typed, InTurn, NEW w \in Worker
  PROVE  /\ proc[w] \in Request /\ RequestOK(proc[w], Len(instances), Len(steps))
         /\ LastIsLive(instances)
         /\ QuestionsFit(steps, instances, proc[w])
         /\ Placed(instances, proc[w]) /\ Knows(steps, proc[w])
         /\ Granted(steps, instances, proc[w])
         /\ proc[w].pc \in AtStep => proc[w].step \in DOMAIN steps
         /\ proc[w].pc \in AtNode => proc[w].inst \in DOMAIN instances
         /\ proc[w].pc \in {"cancel", "supersede"} => proc[w].old \in DOMAIN instances
  <1>1. RequestOK(proc[w], Len(instances), Len(steps))
    BY DEF Typed
  <1>2. /\ proc[w].pc \in AtStep => proc[w].step \in DOMAIN steps
        /\ proc[w].pc \in AtNode => proc[w].inst \in DOMAIN instances
        /\ proc[w].pc \in {"cancel", "supersede"} => proc[w].old \in DOMAIN instances
    BY <1>1, Sizes DEF RequestOK
  <1> QED
    BY <1>1, <1>2 DEF InTurn, RequestOK

\* Only a pending step changes its status.
LEMMA HistoryStatement ==
  ASSUME Typed, InTurn, NEW w \in Worker, Statement(w)
  PROVE  \A s \in DOMAIN steps :
           steps[s].status # "PENDING" => steps'[s].status = steps[s].status
  <1> DEFINE p == proc[w]
             Kept == \A s \in DOMAIN steps :
                       steps[s].status # "PENDING" => steps'[s].status = steps[s].status
  <1>0. /\ Knows(steps, p)
        /\ p.pc \in AtStep => p.step \in DOMAIN steps
    BY TurnFacts
  <1>a. ASSUME NEW S, NEW x, steps' = SetStatus(S, x),
               \A s \in S \cap DOMAIN steps : steps[s].status = "PENDING"
        PROVE  Kept
    BY <1>a, SetStatusKeeps
  <1>1. CASE UNCHANGED steps
    BY <1>1
  <1>2. CASE RecordDecision(w) \/ MarkDelegated(w)
    <2>1. p.pc \in {"record", "handoff"}
      BY <1>2 DEF RecordDecision, MarkDelegated, At
    <2>2. steps[p.step].status = "PENDING"
      BY <1>0, <2>1 DEF Knows
    <2>3. \E x : steps' = SetStatus({p.step}, x)
      BY <1>2 DEF RecordDecision, MarkDelegated
    <2> QED
      BY <1>a, <2>2, <2>3
  <1>3. CASE SkipSiblings(w)
    <2>1. p.pc = "skip" /\ steps' = SetStatus(p.seen, "SKIPPED")
      BY <1>3 DEF SkipSiblings, At
    <2>2. \A s \in p.seen : steps[s].status = "PENDING"
      BY <1>0, <2>1 DEF Knows
    <2> QED
      BY <1>a, <2>1, <2>2
  <1>4. CASE CancelSteps(w)
    <2>1. steps' = SetStatus(Pending({s \in DOMAIN steps : steps[s].inst = p.old}), "CANCELLED")
      BY <1>4 DEF CancelSteps
    <2> QED
      BY <1>a, <2>1 DEF Pending
  <1>5. CASE AdvanceCreateSteps(w)
    BY <1>5, CreatedSteps
  <1>6. CASE InsertDelegate(w)
    BY <1>6, Sizes DEF InsertDelegate, Typed, StepsOK
  <1>7. CASE SweepStamp(w)
    BY <1>7, Rows DEF SweepStamp, Step
  <1> QED
    BY <1>1, <1>2, <1>3, <1>4, <1>5, <1>6, <1>7
    DEF Statement, Proceed, StepRequest, tables, StartInstance, AdvanceWalk, AdvanceThrows,
        Park, CompleteInstance, SettleInvoice, Authorise, LogDecision, Tally, LeaveNode,
        RecallCheck, RecallFind, Supersede, LinkSuccessor, SweepEnd, SweepSkip, SweepReport,
        SweepRead, EscalateOverdue, DecideStep, DelegateStep

LEMMA GrantedStays ==
  ASSUME Frame, \A s \in DOMAIN steps :
                  steps[s].status # "PENDING" => steps'[s].status = steps[s].status
  PROVE  /\ GrantedIds(steps) \subseteq GrantedIds(steps')
         /\ \A i \in DOMAIN instances : \A n :
              Earned(instances, GrantedIds(steps), i, n) => Earned(instances', GrantedIds(steps'), i, n)
  <1>1. GrantedIds(steps) \subseteq GrantedIds(steps')
    BY DEF GrantedIds, Frame
  <1> QED
    BY <1>1 DEF Earned, Frame

\* A statement of the only request, which moves to q.
LEMMA TurnBy ==
  ASSUME OneAtATime, Typed, InTurn, NEW w \in Worker, Statement(w), NEW q, Set(w, q),
         LastIsLive(instances'),
         QuestionsFit(steps', instances', q), Placed(instances', q), Knows(steps', q),
         BackedBy(instances', GrantedIds(steps'), q),
         \A i \in DOMAIN instances' :
           \/ i \in DOMAIN instances /\ instances'[i].node = instances[i].node
           \/ Earned(instances', GrantedIds(steps'), i, instances'[i].node)
  PROVE  InTurn'
  <1>1. \A v \in Worker : proc'[v] = q
    BY DEF Set, Typed, OneAtATime
  <1>2. \A i \in DOMAIN instances : Earned(instances, GrantedIds(steps), i, instances[i].node)
    BY DEF InTurn, Granted
  <1>3. Granted(steps', instances', q)
    BY <1>2, FrameStatement, HistoryStatement, GrantedStays DEF Granted
  <1> QED
    BY <1>1, <1>3 DEF InTurn

\* ... when the rows stay as they are.
LEMMA TurnStill ==
  ASSUME OneAtATime, Typed, InTurn, NEW w \in Worker, Statement(w), NEW q, Set(w, q),
         UNCHANGED <<instances, steps>>, proc[w].pc # "park",
         Placed(instances, q), Knows(steps, q), BackedBy(instances, GrantedIds(steps), q)
  PROVE  InTurn'
  <1>1. LastIsLive(instances)
    BY DEF InTurn
  <1>2. QuestionsFit(steps, instances, q)
    BY TurnFacts DEF QuestionsFit
  <1> QED
    BY <1>1, <1>2, TurnBy

\* A request that works on nothing.
Away(q) == q.pc \notin AtNode \cup {"cancel", "supersede"}

LEMMA AwayIsFree ==
  ASSUME NEW rows, NEW table, NEW ids, NEW q, Away(q)
  PROVE  Placed(table, q) /\ Knows(rows, q) /\ BackedBy(table, ids, q)
  BY DEF Away, Placed, Knows, BackedBy, AtNode, AtStep

LEMMA AfterAway == ASSUME NEW p \in Request PROVE Away(After(p)) /\ Away(Idle)
  <1>1. CASE p.ret = <<>>
    BY <1>1 DEF After, Idle, AtNode, Away
  <1>2. CASE p.ret # <<>>
    <2>1. Head(p.ret) \in Resumed
      BY <1>2 DEF Request
    <2>2. After(p).pc = Head(p.ret)
      BY <1>2 DEF After, Request
    <2> QED
      BY <2>1, <2>2 DEF AtNode, Resumed, Away, Idle
  <1> QED
    BY <1>1, <1>2

\* Where an edge leads is earned if where it leaves from is, or a yes was given.
LEMMA EdgeEarned ==
  ASSUME Typed, NEW w \in Worker, proc[w].pc \in AtNode, NEW ids,
         Earned(instances, ids, proc[w].inst, proc[w].node),
         NEW e \in OutOf(GraphOf(w), proc[w].node),
         \/ ~(GraphOf(w).kind[proc[w].node] = "APPROVAL" /\ ApproveEdge(e))
         \/ proc[w].inst \in ids
  PROVE  Earned(instances, ids, proc[w].inst, e.to)
  <1> DEFINE d == InstanceOf(w).workflow
  <1>1. d \in Workflow /\ GraphOf(w) = Def[d] /\ d = instances[proc[w].inst].workflow
    BY AtNodeFacts DEF GraphOf, Instance, InstanceOf
  <1>2. e \in EdgesOf(Def[d]) /\ e.from = proc[w].node
    BY <1>1 DEF OutOf
  <1> HIDE DEF d
  <1> QED
    BY <1>1, <1>2, EdgeKeepsEarned DEF Earned

\* A step that leaves the set of instances alone makes none of them live.
LEMMA LastStaysLive ==
  ASSUME Frame, LastIsLive(instances), DOMAIN instances' = DOMAIN instances,
         Len(instances') = Len(instances)
  PROVE  LastIsLive(instances')
  BY DEF Frame, LastIsLive

LEMMA TurnAdvance ==
  ASSUME OneAtATime, Typed, InTurn, NEW w \in Worker, Statement(w),
         \/ StartInstance(w) \/ AdvanceWalk(w) \/ AdvanceCreateSteps(w)
         \/ AdvanceThrows(w) \/ Park(w) \/ CompleteInstance(w) \/ SettleInvoice(w)
  PROVE  InTurn'
  <1> DEFINE p == proc[w]
  <1>0. /\ p \in Request /\ LastIsLive(instances)
        /\ QuestionsFit(steps, instances, p) /\ Placed(instances, p) /\ Knows(steps, p)
        /\ Granted(steps, instances, p)
        /\ p.pc \in AtNode => p.inst \in DOMAIN instances
    BY TurnFacts
  <1>a. /\ \A i \in DOMAIN instances : instances[i] \in Instance
        /\ \A s \in DOMAIN steps : steps[s].inst \in DOMAIN instances
        /\ Len(instances) \in Nat /\ DOMAIN instances = 1..Len(instances)
    BY Rows, Sizes
  <1>b. /\ Frame
        /\ \A s \in DOMAIN steps : steps[s].status # "PENDING" => steps'[s].status = steps[s].status
    BY FrameStatement, HistoryStatement
  <1>1. CASE StartInstance(w)
    <2>0. p.pc = "start" /\ UNCHANGED steps
      BY <1>1 DEF StartInstance, At
    <2>1. CASE UNCHANGED instances /\ (Return(w) \/ Fail(w))
      BY <1>0, <2>0, <2>1, AfterAway, AwayIsFree, TurnStill DEF Return, Fail
    <2>2. ASSUME NEW d \in Workflow, ActiveIds = {},
                 instances' = Append(instances, [workflow |-> d, status |-> "ACTIVE",
                                                 node |-> StartNode(Def[d]), link |-> 0]),
                 Set(w, Advancing(p, Len(instances) + 1, StartNode(Def[d])))
          PROVE  InTurn'
      <3> DEFINE i == Len(instances) + 1  n == StartNode(Def[d])  q == Advancing(p, i, n)
      <3>1. /\ DOMAIN instances' = DOMAIN instances \cup {i} /\ Len(instances') = i
            /\ i \notin DOMAIN instances
            /\ \A j \in DOMAIN instances : instances'[j] = instances[j]
            /\ instances'[i].workflow = d /\ instances'[i].node = n
            /\ instances'[i].status = "ACTIVE"
        BY <1>a, <2>2 DEF Typed
      <3>2. q.pc = "advance" /\ q.inst = i /\ q.node = n
        BY AdvancingFacts
      <3>3. Earned(instances', GrantedIds(steps'), i, n)
        BY <3>1, UnearnedAssumption DEF Earned
      <3> HIDE DEF i, n, q
      <3>4. Set(w, q)
        BY <2>2 DEF q, i, n
      <3>5. LastIsLive(instances')
        BY <2>2, <3>1 DEF LastIsLive, ActiveIds
      <3>6. QuestionsFit(steps', instances', q)
        BY <1>0, <1>a, <2>0, <3>1 DEF QuestionsFit
      <3>7. Placed(instances', q)
        BY <3>1, <3>2 DEF Placed
      <3>8. Knows(steps', q)
        BY <1>a, <2>0, <3>1, <3>2 DEF Knows, Open, AtStep
      <3>9. BackedBy(instances', GrantedIds(steps'), q)
        BY <3>2, <3>3 DEF BackedBy
      <3>10. \A j \in DOMAIN instances' :
              \/ j \in DOMAIN instances /\ instances'[j].node = instances[j].node
              \/ Earned(instances', GrantedIds(steps'), j, instances'[j].node)
        BY <3>1, <3>3
      <3> QED
        BY <3>4, <3>5, <3>6, <3>7, <3>8, <3>9, <3>10, TurnBy
    <2> QED
      BY <1>1, <2>1, <2>2 DEF StartInstance
  <1>2. CASE AdvanceWalk(w)
    <2>1. PICK n \in WalkTargets(w) : Set(w, [p EXCEPT !.node = n])
      BY <1>2 DEF AdvanceWalk
    <2> DEFINE q == [p EXCEPT !.node = n]
    <2>2. p.pc = "advance" /\ p.pc \in AtNode /\ UNCHANGED <<instances, steps>>
      BY <1>2 DEF AdvanceWalk, At, AtNode, tables
    <2>3. PICK e : /\ e \in OutOf(GraphOf(w), p.node) /\ n = e.to
                   /\ GraphOf(w).kind[p.node] # "APPROVAL"
      BY <2>1, WalkEdge
    <2>4. Earned(instances, GrantedIds(steps), p.inst, n)
      BY <1>0, <2>2, <2>3, EdgeEarned DEF Granted, BackedBy
    <2>5. q.pc = "advance" /\ q.inst = p.inst /\ q.node = n
      BY <1>0, <2>2 DEF Request
    <2> HIDE DEF q
    <2>6. Placed(instances, q) /\ Knows(steps, q)
      BY <1>0, <2>2, <2>5 DEF Placed, Knows, AtStep
    <2>7. BackedBy(instances, GrantedIds(steps), q)
      BY <2>4, <2>5 DEF BackedBy
    <2> QED
      BY <2>1, <2>2, <2>6, <2>7, TurnStill DEF q
  <1>3. CASE AdvanceCreateSteps(w)
    <2> DEFINE q == [p EXCEPT !.pc = "park"]
    <2>1. p.pc = "advance" /\ p.pc \in AtNode /\ Set(w, q) /\ UNCHANGED instances
      BY <1>3 DEF AdvanceCreateSteps, At, AtNode, Goto
    <2>2. q.inst = p.inst /\ q.node = p.node /\ q.pc = "park"
      BY <1>0 DEF Request
    <2> HIDE DEF q
    <2>3. /\ \A s \in DOMAIN steps : s \in DOMAIN steps' /\ steps'[s] = steps[s]
          /\ \A s \in DOMAIN steps' \ DOMAIN steps :
               /\ steps'[s].inst = p.inst /\ steps'[s].node = p.node
               /\ steps'[s].status = "PENDING"
      BY <1>3, CreatedSteps
    <2>4. instances[p.inst].status = "ACTIVE" /\ ~Open(steps, p.inst)
      BY <1>0, <2>1 DEF Placed, Knows
    <2>5. QuestionsFit(steps', instances', q)
      BY <1>0, <2>1, <2>2, <2>3, <2>4 DEF QuestionsFit
    <2>6. Placed(instances', q)
      BY <2>1, <2>2, <2>4 DEF Placed
    <2>7. Knows(steps', q)
      BY <2>2, <2>3, <2>4 DEF Knows, AtStep, Open
    <2>8. Earned(instances', GrantedIds(steps'), p.inst, p.node)
      BY <1>0, <1>b, <2>1, GrantedStays DEF Granted, BackedBy
    <2>9. BackedBy(instances', GrantedIds(steps'), q)
      BY <2>2, <2>8 DEF BackedBy
    <2> QED
      BY <1>0, <2>1, <2>5, <2>6, <2>7, <2>9, TurnBy
  <1>4. CASE AdvanceThrows(w)
    <2>1. p.pc = "advance" /\ UNCHANGED <<instances, steps>> /\ Set(w, Idle)
      BY <1>4 DEF AdvanceThrows, At, tables, Fail
    <2> QED
      BY <1>0, <2>1, AfterAway, AwayIsFree, TurnStill
  <1>5. CASE Park(w)
    <2>1. /\ p.pc = "park" /\ p.inst \in DOMAIN instances /\ UNCHANGED steps
          /\ Set(w, After(p)) /\ Away(After(p))
      BY <1>0, <1>5, AfterAway DEF Park, At, AtNode, Return
    <2>2. /\ DOMAIN instances' = DOMAIN instances /\ Len(instances') = Len(instances)
          /\ \A i \in DOMAIN instances : /\ instances'[i].status = instances[i].status
                                         /\ i # p.inst => instances'[i].node = instances[i].node
          /\ instances'[p.inst].node = p.node
      BY <1>5, <1>a, <2>1, MoveInstanceOK DEF Park, Instance, Typed
    <2>3. QuestionsFit(steps', instances', After(p))
      BY <1>0, <1>a, <2>1, <2>2 DEF QuestionsFit, Knows
    <2>4. LastIsLive(instances')
      BY <1>0, <1>b, <2>2, LastStaysLive
    <2>5. Earned(instances', GrantedIds(steps'), p.inst, p.node)
      BY <1>0, <1>b, <2>1, GrantedStays DEF Granted, BackedBy, AtNode
    <2>6. \A i \in DOMAIN instances' :
            \/ i \in DOMAIN instances /\ instances'[i].node = instances[i].node
            \/ Earned(instances', GrantedIds(steps'), i, instances'[i].node)
      BY <2>2, <2>5
    <2> QED
      BY <2>1, <2>3, <2>4, <2>6, AwayIsFree, TurnBy
  <1>6. CASE CompleteInstance(w)
    <2>1. p.pc \in {"advance", "complete"} /\ p.inst \in DOMAIN instances /\ UNCHANGED steps
      BY <1>0, <1>6 DEF CompleteInstance, At, AtNode
    <2>2. PICK x : Set(w, [p EXCEPT !.pc = "settle", !.outcome = x])
      BY <1>6 DEF CompleteInstance
    <2> DEFINE q == [p EXCEPT !.pc = "settle", !.outcome = x]
    <2>3. q.pc = "settle" /\ q.inst = p.inst /\ q.node = p.node
      BY <1>0 DEF Request
    <2> HIDE DEF q
    <2>4. instances' = [instances EXCEPT ![p.inst].node = p.node, ![p.inst].status = "COMPLETED"]
      BY <1>6 DEF CompleteInstance
    <2>5. /\ DOMAIN instances' = DOMAIN instances /\ Len(instances') = Len(instances)
          /\ \A i \in DOMAIN instances : i # p.inst => instances'[i] = instances[i]
          /\ instances'[p.inst].node = p.node
      BY <1>a, <2>1, <2>4 DEF Instance, Typed
    <2>6. ~Open(steps, p.inst)
      BY <1>0, <2>1 DEF Knows
    <2>7. QuestionsFit(steps', instances', q)
      BY <1>0, <1>a, <2>1, <2>5, <2>6 DEF QuestionsFit, Open
    <2>8. LastIsLive(instances')
      BY <1>0, <1>b, <2>5, LastStaysLive
    <2>9. Earned(instances', GrantedIds(steps'), p.inst, p.node)
      BY <1>0, <1>b, <2>1, GrantedStays DEF Granted, BackedBy, AtNode
    <2>10. Placed(instances', q) /\ Knows(steps', q) /\ BackedBy(instances', GrantedIds(steps'), q)
      BY <2>3, <2>9 DEF Placed, Knows, BackedBy, AtStep
    <2>11. \A i \in DOMAIN instances' :
            \/ i \in DOMAIN instances /\ instances'[i].node = instances[i].node
            \/ Earned(instances', GrantedIds(steps'), i, instances'[i].node)
      BY <2>5, <2>9
    <2> QED
      BY <2>2, <2>7, <2>8, <2>10, <2>11, TurnBy DEF q
  <1>7. CASE SettleInvoice(w)
    <2>1. p.pc = "settle" /\ UNCHANGED <<instances, steps>> /\ Set(w, After(p))
      BY <1>7 DEF SettleInvoice, At, Return
    <2> QED
      BY <1>0, <2>1, AfterAway, AwayIsFree, TurnStill
  <1> QED
    BY <1>1, <1>2, <1>3, <1>4, <1>5, <1>6, <1>7

\* The approve edge is followed only for an approving outcome.
LEMMA LeaveEdge ==
  ASSUME NEW g, NEW n, NEW outcome, NEW e \in ExitOut(g, n, outcome)
  PROVE  outcome = "APPROVED" \/ ~ApproveEdge(e)
  <1>1. CASE outcome = "REJECTED"
    <2>1. e \in FirstOf(g, RejectOut(g, n))
      BY <1>1 DEF ExitOut
    <2> QED
      BY <2>1, FirstOfEdge DEF RejectOut, ApproveEdge
  <1>2. CASE outcome \notin {"APPROVED", "REJECTED"}
    <2>1. e \in FirstOf(g, SlaOut(g, n))
      BY <1>2 DEF ExitOut
    <2> QED
      BY <2>1, FirstOfEdge DEF SlaOut, ApproveEdge
  <1> QED
    BY <1>1, <1>2

LEMMA TurnDecide ==
  ASSUME OneAtATime, Typed, InTurn, NEW w \in Worker, Statement(w),
         \/ \E s \in DOMAIN steps, v \in Vote : DecideStep(w, s, v)
         \/ Authorise(w) \/ RecordDecision(w) \/ LogDecision(w)
         \/ Tally(w) \/ SkipSiblings(w) \/ LeaveNode(w)
  PROVE  InTurn'
  <1> DEFINE p == proc[w]  ids == GrantedIds(steps)
  <1>0. /\ p \in Request /\ LastIsLive(instances)
        /\ QuestionsFit(steps, instances, p) /\ Placed(instances, p) /\ Knows(steps, p)
        /\ Granted(steps, instances, p)
        /\ p.pc \in AtStep => p.step \in DOMAIN steps
        /\ p.pc \in AtNode => p.inst \in DOMAIN instances
    BY TurnFacts
  <1>a. /\ \A i \in DOMAIN instances : instances[i] \in Instance
        /\ \A s \in DOMAIN steps : steps[s].inst \in DOMAIN instances
    BY Rows
  <1>b. /\ Frame
        /\ \A s \in DOMAIN steps : steps[s].status # "PENDING" => steps'[s].status = steps[s].status
    BY FrameStatement, HistoryStatement
  <1>1. ASSUME NEW s \in DOMAIN steps, NEW v \in Vote, DecideStep(w, s, v) PROVE InTurn'
    <2> DEFINE l == IF v = "APPROVE" THEN "authorise" ELSE "record"
               q == [Idle EXCEPT !.pc = l, !.inst = steps[s].inst, !.node = steps[s].node,
                                 !.step = s, !.vote = v]
    <2>1. /\ p.pc = "idle" /\ steps[s].status = "PENDING" /\ Set(w, q)
          /\ UNCHANGED <<instances, steps>>
      BY <1>1 DEF DecideStep, At, tables
    <2>2. l \in {"authorise", "record"}
      OBVIOUS
    <2> HIDE DEF l
    <2>3. /\ q.inst = steps[s].inst /\ q.node = steps[s].node /\ q.step = s
          /\ q.pc \in {"authorise", "record"}
      BY <2>2 DEF Idle
    <2> HIDE DEF q
    <2>4. /\ instances[q.inst].status = "ACTIVE" /\ instances[q.inst].node = q.node
          /\ q.inst \in DOMAIN instances
      BY <1>0, <1>a, <2>1, <2>3 DEF QuestionsFit
    <2>5. Placed(instances, q)
      BY <2>3, <2>4 DEF Placed
    <2>6. Knows(steps, q)
      BY <2>1, <2>3 DEF Knows, AtStep
    <2>7. BackedBy(instances, ids, q)
      BY <1>0, <2>3, <2>4 DEF Granted, BackedBy
    <2> QED
      BY <2>1, <2>5, <2>6, <2>7, TurnStill
  <1>2. CASE Authorise(w)
    <2>1. p.pc = "authorise" /\ UNCHANGED <<instances, steps>>
      BY <1>2 DEF Authorise, At, tables
    <2>2. CASE Set(w, Idle)
      BY <1>0, <2>1, <2>2, AfterAway, AwayIsFree, TurnStill
    <2>3. CASE Set(w, [p EXCEPT !.pc = "record"])
      <3> DEFINE q == [p EXCEPT !.pc = "record"]
      <3>1. q.pc = "record" /\ q.inst = p.inst /\ q.node = p.node /\ q.step = p.step
        BY <1>0 DEF Request
      <3> HIDE DEF q
      <3>2. Placed(instances, q)
        BY <1>0, <2>1, <3>1 DEF Placed, AtNode
      <3>3. Knows(steps, q)
        BY <1>0, <2>1, <3>1 DEF Knows, AtStep
      <3>4. BackedBy(instances, ids, q)
        BY <1>0, <2>1, <3>1 DEF Granted, BackedBy, AtNode
      <3> QED
        BY <2>1, <2>3, <3>2, <3>3, <3>4, TurnStill DEF q
    <2> QED
      BY <1>2, <2>2, <2>3 DEF Authorise, Goto, Fail
  <1>3. CASE RecordDecision(w)
    <2> DEFINE q == [p EXCEPT !.pc = "log"]
    <2>1. /\ p.pc = "record" /\ UNCHANGED instances /\ Set(w, q)
          /\ steps' = SetStatus({p.step}, Verdict(p.vote))
      BY <1>3 DEF RecordDecision, At, Goto
    <2>2. q.pc = "log" /\ q.inst = p.inst /\ q.node = p.node /\ q.step = p.step
      BY <1>0 DEF Request
    <2> HIDE DEF q
    <2>3. /\ DOMAIN steps' = DOMAIN steps /\ p.step \in DOMAIN steps
          /\ \A s \in DOMAIN steps : /\ steps'[s].inst = steps[s].inst
                                     /\ steps'[s].node = steps[s].node
                                     /\ s # p.step => steps'[s].status = steps[s].status
          /\ steps'[p.step].status = Verdict(p.vote)
      BY <1>0, <2>1, SetStatusKeeps DEF AtStep
    <2>4. Verdict(p.vote) # "PENDING"
      BY DEF Verdict
    <2>5. QuestionsFit(steps', instances', q)
      <3>1. \A s \in DOMAIN steps' : steps'[s].status = "PENDING" =>
              s \in DOMAIN steps /\ steps[s].status = "PENDING"
        BY <2>3, <2>4
      <3>2. QuestionsFit(steps, instances, p) /\ p.pc # "park" /\ instances' = instances
        BY <1>0, <2>1
      <3>3. \A s \in DOMAIN steps' : /\ steps'[s].inst = steps[s].inst
                                     /\ steps'[s].node = steps[s].node
        BY <2>3
      <3> QED
        BY <3>1, <3>2, <3>3 DEF QuestionsFit
    <2>6. Placed(instances', q)
      BY <1>0, <2>1, <2>2 DEF Placed, AtNode
    <2>7. Knows(steps', q)
      BY <1>0, <2>1, <2>2, <2>3, <2>4 DEF Knows, AtStep
    <2>8. Earned(instances', GrantedIds(steps'), p.inst, p.node)
      BY <1>0, <1>b, <2>1, GrantedStays DEF Granted, BackedBy, AtNode
    <2>9. BackedBy(instances', GrantedIds(steps'), q)
      BY <2>2, <2>8 DEF BackedBy
    <2> QED
      BY <1>0, <2>1, <2>5, <2>6, <2>7, <2>9, TurnBy
  <1>4. CASE LogDecision(w)
    <2> DEFINE q == [p EXCEPT !.pc = "tally"]
    <2>1. p.pc = "log" /\ UNCHANGED <<instances, steps>> /\ Set(w, q)
      BY <1>4 DEF LogDecision, At, Goto, tables
    <2>2. q.pc = "tally" /\ q.inst = p.inst /\ q.node = p.node /\ q.step = p.step
      BY <1>0 DEF Request
    <2> HIDE DEF q
    <2>3. Placed(instances, q)
      BY <1>0, <2>1, <2>2 DEF Placed, AtNode
    <2>4. Knows(steps, q)
      BY <1>0, <2>1, <2>2 DEF Knows, AtStep
    <2>5. BackedBy(instances, ids, q)
      BY <1>0, <2>1, <2>2 DEF Granted, BackedBy, AtNode
    <2> QED
      BY <2>1, <2>3, <2>4, <2>5, TurnStill
  <1>5. CASE Tally(w)
    <2> DEFINE siblings == StepsAt(p.inst, p.node)
               statuses == {steps[s].status : s \in siblings}
               outcome == NodeOutcome(GraphOf(w).mode[p.node], statuses)
               others == Pending(siblings) \ {p.step}
    <2>1. p.pc = "tally" /\ UNCHANGED <<instances, steps>>
      BY <1>5 DEF Tally, At, tables
    <2>2. CASE outcome = "WAITING"
      <3>1. Set(w, After(p))
        BY <1>5, <2>2 DEF Tally, Return
      <3> QED
        BY <1>0, <2>1, <3>1, AfterAway, AwayIsFree, TurnStill
    <2>3. CASE outcome # "WAITING"
      <3> DEFINE l == IF others = {} THEN AfterSkip(GraphOf(w), p.node, outcome) ELSE "skip"
                 q == [p EXCEPT !.outcome = outcome, !.seen = others, !.pc = l]
      <3>1. Set(w, q)
        BY <1>5, <2>3 DEF Tally
      <3>2. others = {s \in DOMAIN steps : steps[s].inst = p.inst /\ steps[s].status = "PENDING"}
        <4>1. steps[p.step].status # "PENDING" /\ instances[p.inst].node = p.node
          BY <1>0, <2>1 DEF Knows, Placed, AtNode
        <4>2. \A s \in DOMAIN steps : steps[s].inst = p.inst /\ steps[s].status = "PENDING"
                => steps[s].node = p.node
          BY <1>0, <2>1, <4>1 DEF QuestionsFit
        <4> QED
          BY <4>1, <4>2 DEF Pending, StepsAt
      <3>3. outcome = "APPROVED" => p.inst \in ids
        BY CarriedBySomeone DEF StepsAt, GrantedIds
      <3>4. q.pc = l /\ q.inst = p.inst /\ q.node = p.node /\ q.seen = others
            /\ q.outcome = outcome
        BY <1>0 DEF Request
      <3>5. l = "skip" \/ (l \in {"complete", "leave"} /\ others = {})
        BY DEF AfterSkip
      <3> HIDE DEF q, l, others, outcome
      <3>6. Placed(instances, q)
        BY <1>0, <2>1, <3>4, <3>5 DEF Placed, AtNode
      <3>7. Knows(steps, q)
        BY <3>2, <3>4, <3>5 DEF Knows, AtStep, Open
      <3>8. BackedBy(instances, ids, q)
        BY <1>0, <2>1, <3>3, <3>4 DEF Granted, BackedBy, AtNode
      <3> QED
        BY <2>1, <3>1, <3>6, <3>7, <3>8, TurnStill
    <2> QED
      BY <2>2, <2>3
  <1>6. CASE SkipSiblings(w)
    <2> DEFINE l == AfterSkip(GraphOf(w), p.node, p.outcome)
               q == [p EXCEPT !.seen = {}, !.pc = l]
    <2>1. /\ p.pc = "skip" /\ UNCHANGED instances /\ Set(w, q)
          /\ steps' = SetStatus(p.seen, "SKIPPED")
      BY <1>6 DEF SkipSiblings, At
    <2>2. l \in {"complete", "leave"}
      BY DEF AfterSkip
    <2> HIDE DEF l
    <2>3. q.pc = l /\ q.inst = p.inst /\ q.node = p.node /\ q.outcome = p.outcome
      BY <1>0 DEF Request
    <2> HIDE DEF q
    <2>4. /\ DOMAIN steps' = DOMAIN steps
          /\ \A s \in DOMAIN steps : /\ steps'[s].inst = steps[s].inst
                                     /\ steps'[s].node = steps[s].node
                                     /\ steps'[s].status = IF s \in p.seen THEN "SKIPPED"
                                                           ELSE steps[s].status
      BY <2>1, SetStatusKeeps
    <2>5. p.seen = {s \in DOMAIN steps : steps[s].inst = p.inst /\ steps[s].status = "PENDING"}
      BY <1>0, <2>1 DEF Knows
    <2>6. ~Open(steps', p.inst)
      BY <2>4, <2>5 DEF Open
    <2>7. QuestionsFit(steps', instances', q)
      BY <1>0, <2>1, <2>4 DEF QuestionsFit
    <2>8. Placed(instances', q)
      BY <1>0, <2>1, <2>2, <2>3 DEF Placed, AtNode
    <2>9. Knows(steps', q)
      BY <2>2, <2>3, <2>6 DEF Knows, AtStep
    <2>10. Earned(instances', GrantedIds(steps'), p.inst, p.node)
      BY <1>0, <1>b, <2>1, GrantedStays DEF Granted, BackedBy, AtNode
    <2>11. p.outcome = "APPROVED" => p.inst \in GrantedIds(steps')
      BY <1>0, <1>b, <2>1, GrantedStays DEF Granted, BackedBy
    <2>12. BackedBy(instances', GrantedIds(steps'), q)
      BY <2>3, <2>10, <2>11 DEF BackedBy
    <2> QED
      BY <1>0, <2>1, <2>7, <2>8, <2>9, <2>12, TurnBy
  <1>7. CASE LeaveNode(w)
    <2>1. PICK e \in ExitOut(GraphOf(w), p.node, p.outcome) :
            /\ instances' = [instances EXCEPT ![p.inst].node = e.to]
            /\ Set(w, Advancing(p, p.inst, e.to))
      BY <1>7 DEF LeaveNode
    <2> DEFINE q == Advancing(p, p.inst, e.to)
    <2>2. p.pc = "leave" /\ p.pc \in AtNode /\ UNCHANGED steps /\ p.inst \in DOMAIN instances
      BY <1>0, <1>7 DEF LeaveNode, At, AtNode
    <2>3. q.pc = "advance" /\ q.inst = p.inst /\ q.node = e.to
      BY AdvancingFacts
    <2> HIDE DEF q
    <2>4. Earned(instances, ids, p.inst, e.to)
      <3>1. p.outcome = "APPROVED" \/ ~ApproveEdge(e)
        BY <2>1, LeaveEdge
      <3>2. e \in OutOf(GraphOf(w), p.node)
        BY <2>1, FirstOfEdge DEF ExitOut, ApproveOut, RejectOut, SlaOut
      <3>3. p.outcome = "APPROVED" => p.inst \in ids
        BY <1>0, <2>2 DEF Granted, BackedBy
      <3>4. Earned(instances, ids, p.inst, p.node)
        BY <1>0, <2>2 DEF Granted, BackedBy
      <3> QED
        BY <2>2, <3>1, <3>2, <3>3, <3>4, EdgeEarned
    <2>5. Earned(instances', GrantedIds(steps'), p.inst, e.to)
      BY <1>b, <2>2, <2>4, GrantedStays
    <2>6. /\ DOMAIN instances' = DOMAIN instances /\ Len(instances') = Len(instances)
          /\ \A i \in DOMAIN instances : /\ instances'[i].status = instances[i].status
                                         /\ i # p.inst => instances'[i].node = instances[i].node
          /\ instances'[p.inst].node = e.to
      BY <1>a, <2>1, <2>2 DEF Instance, Typed
    <2>7. ~Open(steps, p.inst)
      BY <1>0, <2>2 DEF Knows
    <2>8. QuestionsFit(steps', instances', q)
      BY <1>0, <1>a, <2>2, <2>6, <2>7 DEF QuestionsFit, Open
    <2>9. LastIsLive(instances')
      BY <1>0, <1>b, <2>6, LastStaysLive
    <2>10. Placed(instances', q)
      BY <1>0, <2>2, <2>3, <2>6 DEF Placed
    <2>11. Knows(steps', q)
      BY <2>2, <2>3, <2>7 DEF Knows, AtStep
    <2>12. BackedBy(instances', GrantedIds(steps'), q)
      BY <2>3, <2>5 DEF BackedBy
    <2>13. \A i \in DOMAIN instances' :
            \/ i \in DOMAIN instances /\ instances'[i].node = instances[i].node
            \/ Earned(instances', GrantedIds(steps'), i, instances'[i].node)
      BY <2>5, <2>6
    <2> QED
      BY <2>1, <2>8, <2>9, <2>10, <2>11, <2>12, <2>13, TurnBy DEF q
  <1> QED
    BY <1>1, <1>2, <1>3, <1>4, <1>5, <1>6, <1>7

LEMMA TurnDelegate ==
  ASSUME OneAtATime, Typed, InTurn, NEW w \in Worker, Statement(w),
         \/ \E s \in DOMAIN steps, u \in User : DelegateStep(w, s, u)
         \/ MarkDelegated(w) \/ InsertDelegate(w)
  PROVE  InTurn'
  <1> DEFINE p == proc[w]  ids == GrantedIds(steps)
  <1>0. /\ p \in Request /\ LastIsLive(instances)
        /\ QuestionsFit(steps, instances, p) /\ Placed(instances, p) /\ Knows(steps, p)
        /\ Granted(steps, instances, p)
        /\ p.pc \in AtStep => p.step \in DOMAIN steps
        /\ p.pc \in AtNode => p.inst \in DOMAIN instances
    BY TurnFacts
  <1>a. \A s \in DOMAIN steps : steps[s].inst \in DOMAIN instances
    BY Rows
  <1>b. /\ Frame
        /\ \A s \in DOMAIN steps : steps[s].status # "PENDING" => steps'[s].status = steps[s].status
    BY FrameStatement, HistoryStatement
  <1>1. ASSUME NEW s \in DOMAIN steps, NEW u \in User, DelegateStep(w, s, u) PROVE InTurn'
    <2> DEFINE q == [Idle EXCEPT !.pc = "handoff", !.inst = steps[s].inst,
                                 !.node = steps[s].node, !.step = s, !.to = u]
    <2>1. /\ p.pc = "idle" /\ steps[s].status = "PENDING" /\ Set(w, q)
          /\ UNCHANGED <<instances, steps>>
      BY <1>1 DEF DelegateStep, At, tables
    <2>2. q.inst = steps[s].inst /\ q.node = steps[s].node /\ q.step = s /\ q.pc = "handoff"
      BY DEF Idle
    <2> HIDE DEF q
    <2>3. /\ instances[q.inst].status = "ACTIVE" /\ instances[q.inst].node = q.node
          /\ q.inst \in DOMAIN instances
      BY <1>0, <1>a, <2>1, <2>2 DEF QuestionsFit
    <2>4. Placed(instances, q)
      BY <2>2, <2>3 DEF Placed
    <2>5. Knows(steps, q)
      BY <2>1, <2>2 DEF Knows, AtStep
    <2>6. BackedBy(instances, ids, q)
      BY <1>0, <2>2, <2>3 DEF Granted, BackedBy
    <2> QED
      BY <2>1, <2>4, <2>5, <2>6, TurnStill
  <1>2. CASE MarkDelegated(w)
    <2> DEFINE q == [p EXCEPT !.pc = "replace"]
    <2>1. /\ p.pc = "handoff" /\ UNCHANGED instances /\ Set(w, q)
          /\ steps' = SetStatus({p.step}, "DELEGATED")
      BY <1>2 DEF MarkDelegated, At, Goto
    <2>2. q.pc = "replace" /\ q.inst = p.inst /\ q.node = p.node /\ q.step = p.step
      BY <1>0 DEF Request
    <2> HIDE DEF q
    <2>3. /\ DOMAIN steps' = DOMAIN steps /\ p.step \in DOMAIN steps
          /\ \A s \in DOMAIN steps : /\ steps'[s].inst = steps[s].inst
                                     /\ steps'[s].node = steps[s].node
                                     /\ s # p.step => steps'[s].status = steps[s].status
          /\ steps'[p.step].status = "DELEGATED"
      BY <1>0, <2>1, SetStatusKeeps DEF AtStep
    <2>4. QuestionsFit(steps', instances', q)
      <3>1. \A s \in DOMAIN steps' : steps'[s].status = "PENDING" =>
              s \in DOMAIN steps /\ steps[s].status = "PENDING"
        BY <2>3
      <3>2. QuestionsFit(steps, instances, p) /\ p.pc # "park" /\ instances' = instances
        BY <1>0, <2>1
      <3>3. \A s \in DOMAIN steps' : /\ steps'[s].inst = steps[s].inst
                                     /\ steps'[s].node = steps[s].node
        BY <2>3
      <3> QED
        BY <3>1, <3>2, <3>3 DEF QuestionsFit
    <2>5. Placed(instances', q)
      BY <1>0, <2>1, <2>2 DEF Placed, AtNode
    <2>6. Knows(steps', q)
      <3>1. steps[p.step].inst = p.inst /\ steps[p.step].node = p.node
        BY <1>0, <2>1 DEF Knows, AtStep
      <3>2. /\ steps'[q.step].status = "DELEGATED"
            /\ steps'[q.step].inst = q.inst /\ steps'[q.step].node = q.node
        BY <2>2, <2>3, <3>1
      <3> QED
        BY <2>2, <3>2 DEF Knows
    <2>7. Earned(instances', GrantedIds(steps'), p.inst, p.node)
      BY <1>0, <1>b, <2>1, GrantedStays DEF Granted, BackedBy, AtNode
    <2>8. BackedBy(instances', GrantedIds(steps'), q)
      BY <2>2, <2>7 DEF BackedBy
    <2> QED
      BY <1>0, <2>1, <2>4, <2>5, <2>6, <2>8, TurnBy
  <1>3. CASE InsertDelegate(w)
    <2> DEFINE new == NewStep(p.inst, p.node, p.to, steps[p.step].due)
    <2>1. /\ p.pc = "replace" /\ UNCHANGED instances /\ Set(w, After(p))
          /\ steps' = Append(steps, new)
      BY <1>3 DEF InsertDelegate, At, Return
    <2>2. new.inst = p.inst /\ new.node = p.node
      BY DEF NewStep
    <2> HIDE DEF new
    <2>3. \A s \in DOMAIN steps' :
            \/ s \in DOMAIN steps /\ steps'[s] = steps[s]
            \/ steps'[s] = new
      BY <2>1, Sizes DEF Typed, StepsOK
    <2>4. instances[p.inst].status = "ACTIVE" /\ instances[p.inst].node = p.node
      BY <1>0, <2>1 DEF Placed, AtNode
    <2>5. QuestionsFit(steps', instances', After(p))
      BY <1>0, <2>1, <2>2, <2>3, <2>4 DEF QuestionsFit
    <2>6. Away(After(p))
      BY <1>0, AfterAway
    <2> QED
      BY <1>0, <2>1, <2>5, <2>6, AwayIsFree, TurnBy
  <1> QED
    BY <1>1, <1>2, <1>3

LEMMA TurnRecall ==
  ASSUME OneAtATime, Typed, InTurn, NEW w \in Worker, Statement(w),
         \/ RecallCheck(w) \/ RecallFind(w) \/ CancelSteps(w) \/ Supersede(w)
         \/ LinkSuccessor(w)
  PROVE  InTurn'
  <1> DEFINE p == proc[w]
  <1>0. /\ p \in Request /\ LastIsLive(instances)
        /\ QuestionsFit(steps, instances, p) /\ Placed(instances, p) /\ Knows(steps, p)
        /\ p.pc \in {"cancel", "supersede"} => p.old \in DOMAIN instances
    BY TurnFacts
  <1>a. /\ \A i \in DOMAIN instances : instances[i] \in Instance
        /\ \A s \in DOMAIN steps : steps[s].inst \in DOMAIN instances
    BY Rows
  <1>b. Frame
    BY FrameStatement
  <1>1. CASE RecallCheck(w)
    <2>1. p.pc = "recall" /\ UNCHANGED <<instances, steps>>
      BY <1>1 DEF RecallCheck, At, tables
    <2>2. Away([p EXCEPT !.pc = "recallFind"])
      BY <1>0 DEF Away, Request, AtNode
    <2> QED
      BY <1>0, <1>1, <2>1, <2>2, AfterAway, AwayIsFree, TurnStill DEF RecallCheck, Goto, Fail
  <1>2. CASE RecallFind(w)
    <2>1. p.pc = "recallFind" /\ UNCHANGED <<instances, steps>>
      BY <1>2 DEF RecallFind, At, tables
    <2>2. CASE Set(w, After(p))
      BY <1>0, <2>1, <2>2, AfterAway, AwayIsFree, TurnStill
    <2>3. ASSUME NEW i \in ActiveIds, Set(w, [p EXCEPT !.pc = "cancel", !.old = i])
          PROVE  InTurn'
      <3> DEFINE q == [p EXCEPT !.pc = "cancel", !.old = i]
      <3>1. q.pc = "cancel" /\ q.old = i
        BY <1>0 DEF Request
      <3>2. instances[i].status = "ACTIVE"
        BY DEF ActiveIds
      <3> HIDE DEF q
      <3>3. /\ Placed(instances, q) /\ Knows(steps, q)
            /\ BackedBy(instances, GrantedIds(steps), q)
        BY <3>1, <3>2 DEF Placed, Knows, BackedBy, AtNode, AtStep
      <3> QED
        BY <2>1, <2>3, <3>3, TurnStill DEF q
    <2> QED
      BY <1>2, <2>2, <2>3 DEF RecallFind, Return
  <1>3. CASE CancelSteps(w)
    <2> DEFINE q == [p EXCEPT !.pc = "supersede"]
               S == Pending({s \in DOMAIN steps : steps[s].inst = p.old})
    <2>1. /\ p.pc = "cancel" /\ Set(w, q) /\ UNCHANGED instances
          /\ steps' = SetStatus(S, "CANCELLED")
      BY <1>3 DEF CancelSteps, At, Goto
    <2>2. q.pc = "supersede" /\ q.old = p.old
      BY <1>0 DEF Request
    <2> HIDE DEF q
    <2>3. /\ DOMAIN steps' = DOMAIN steps
          /\ \A s \in DOMAIN steps : /\ steps'[s].inst = steps[s].inst
                                     /\ steps'[s].node = steps[s].node
                                     /\ steps'[s].status = IF s \in S THEN "CANCELLED"
                                                           ELSE steps[s].status
      BY <2>1, SetStatusKeeps
    <2>4. ~Open(steps', p.old)
      BY <2>3 DEF Open, Pending
    <2> HIDE DEF S
    <2>5. QuestionsFit(steps', instances', q)
      BY <1>0, <2>1, <2>3 DEF QuestionsFit
    <2>6. /\ Placed(instances', q) /\ Knows(steps', q)
          /\ BackedBy(instances', GrantedIds(steps'), q)
      BY <1>0, <2>1, <2>2, <2>4 DEF Placed, Knows, BackedBy, AtNode, AtStep
    <2> QED
      BY <1>0, <2>1, <2>5, <2>6, TurnBy
  <1>4. CASE Supersede(w)
    <2>1. /\ p.pc = "supersede" /\ UNCHANGED steps /\ p.old \in DOMAIN instances
          /\ instances' = [instances EXCEPT ![p.old].status = "SUPERSEDED"]
          /\ Set(w, After(p)) /\ Away(After(p))
      BY <1>0, <1>4, AfterAway DEF Supersede, At, Return
    <2>2. /\ DOMAIN instances' = DOMAIN instances /\ Len(instances') = Len(instances)
          /\ \A i \in DOMAIN instances : /\ instances'[i].node = instances[i].node
                                         /\ i # p.old => instances'[i] = instances[i]
      BY <1>a, <2>1 DEF Instance, Typed
    <2>3. ~Open(steps, p.old)
      BY <1>0, <2>1 DEF Knows
    <2>4. QuestionsFit(steps', instances', After(p))
      BY <1>0, <1>a, <2>1, <2>2, <2>3 DEF QuestionsFit, Open
    <2>5. LastIsLive(instances')
      BY <1>0, <1>b, <2>2, LastStaysLive
    <2> QED
      BY <2>1, <2>2, <2>4, <2>5, AwayIsFree, TurnBy
  <1>5. CASE LinkSuccessor(w)
    <2>1. p.pc = "link" /\ UNCHANGED steps /\ Set(w, After(p)) /\ Away(After(p))
      BY <1>0, <1>5, AfterAway DEF LinkSuccessor, At, Return
    <2>2. /\ DOMAIN instances' = DOMAIN instances /\ Len(instances') = Len(instances)
          /\ \A i \in DOMAIN instances : /\ instances'[i].node = instances[i].node
                                         /\ instances'[i].status = instances[i].status
      <3>1. CASE UNCHANGED instances
        BY <3>1
      <3>2. ASSUME NEW i, instances' = [instances EXCEPT ![p.old].link = i]
            PROVE  /\ DOMAIN instances' = DOMAIN instances /\ Len(instances') = Len(instances)
                   /\ \A j \in DOMAIN instances : /\ instances'[j].node = instances[j].node
                                                  /\ instances'[j].status = instances[j].status
        BY <1>a, <3>2 DEF Instance, Typed
      <3> QED
        BY <1>5, <3>1, <3>2 DEF LinkSuccessor
    <2>3. QuestionsFit(steps', instances', After(p))
      BY <1>0, <1>a, <2>1, <2>2 DEF QuestionsFit
    <2>4. LastIsLive(instances')
      BY <1>0, <1>b, <2>2, LastStaysLive
    <2> QED
      BY <2>1, <2>2, <2>3, <2>4, AwayIsFree, TurnBy
  <1> QED
    BY <1>1, <1>2, <1>3, <1>4, <1>5

LEMMA TurnSweep ==
  ASSUME OneAtATime, Typed, InTurn, NEW w \in Worker, Statement(w),
         \/ EscalateOverdue(w) \/ SweepEnd(w) \/ SweepSkip(w) \/ SweepReport(w)
         \/ SweepStamp(w) \/ SweepRead(w)
  PROVE  InTurn'
  <1> DEFINE p == proc[w]
  <1>0. /\ p \in Request /\ LastIsLive(instances)
        /\ QuestionsFit(steps, instances, p) /\ Placed(instances, p) /\ Knows(steps, p)
        /\ Granted(steps, instances, p)
        /\ RequestOK(p, Len(instances), Len(steps))
        /\ p.pc \in AtNode => p.inst \in DOMAIN instances
    BY TurnFacts
  <1>b. /\ Frame
        /\ \A s \in DOMAIN steps : steps[s].status # "PENDING" => steps'[s].status = steps[s].status
    BY FrameStatement, HistoryStatement
  <1>1. CASE EscalateOverdue(w) \/ SweepEnd(w) \/ SweepSkip(w)
    <2>1. PICK q : Set(w, q) /\ Away(q)
      <3>1. CASE EscalateOverdue(w)
        <4> DEFINE todo == {<<steps[s].inst, steps[s].node>> : s \in Overdue}
        <4>1. Set(w, [Idle EXCEPT !.pc = "sweep", !.todo = todo])
          BY <3>1 DEF EscalateOverdue
        <4> HIDE DEF todo
        <4>2. Away([Idle EXCEPT !.pc = "sweep", !.todo = todo])
          BY DEF Idle, AtNode, Away
        <4> QED
          BY <4>1, <4>2
      <3>2. CASE SweepEnd(w)
        BY <1>0, <3>2, AfterAway DEF SweepEnd, Return
      <3>3. CASE SweepSkip(w)
        <4>1. PICK b : Set(w, [p EXCEPT !.todo = @ \ {b}]) /\ p.pc = "sweep"
          BY <3>3 DEF SweepSkip, At
        <4>2. Away([p EXCEPT !.todo = @ \ {b}])
          BY <1>0, <4>1 DEF Request, AtNode, Away
        <4> QED
          BY <4>1, <4>2
      <3> QED
        BY <1>1, <3>1, <3>2, <3>3
    <2>2. p.pc \in {"idle", "sweep"} /\ UNCHANGED <<instances, steps>>
      BY <1>1 DEF EscalateOverdue, SweepEnd, SweepSkip, At, tables
    <2> QED
      BY <2>1, <2>2, AwayIsFree, TurnStill
  <1>2. CASE SweepReport(w)
    <2>1. PICK b \in p.todo :
            /\ instances[b[1]].status = "ACTIVE" /\ instances[b[1]].node = b[2]
            /\ Set(w, [p EXCEPT !.pc = "stamp", !.todo = @ \ {b},
                                !.inst = b[1], !.node = b[2]])
      BY <1>2 DEF SweepReport
    <2> DEFINE q == [p EXCEPT !.pc = "stamp", !.todo = @ \ {b}, !.inst = b[1], !.node = b[2]]
    <2>2. q.pc = "stamp" /\ q.inst = b[1] /\ q.node = b[2] /\ Set(w, q)
      BY <1>0, <2>1 DEF Request
    <2> HIDE DEF q
    <2>3. b[1] \in DOMAIN instances
      BY <1>0, Sizes DEF RequestOK
    <2>4. Placed(instances, q) /\ Knows(steps, q)
      BY <2>1, <2>2 DEF Placed, Knows, AtStep
    <2>5. BackedBy(instances, GrantedIds(steps), q)
      BY <1>0, <2>1, <2>2, <2>3 DEF Granted, BackedBy
    <2>6. p.pc = "sweep" /\ UNCHANGED <<instances, steps>>
      BY <1>2 DEF SweepReport, At, tables
    <2> QED
      BY <2>2, <2>4, <2>5, <2>6, TurnStill
  <1>3. CASE SweepStamp(w)
    <2> DEFINE l == IF SlaOut(GraphOf(w), p.node) = {} THEN "sweep" ELSE "sweepRead"
               q == [p EXCEPT !.pc = l]
    <2>1. p.pc = "stamp" /\ UNCHANGED instances /\ Set(w, q)
      BY <1>3 DEF SweepStamp, At, Goto
    <2>2. q.pc = l /\ l \in {"sweep", "sweepRead"} /\ q.inst = p.inst /\ q.node = p.node
      BY <1>0 DEF Request
    <2> HIDE DEF q, l
    <2>3. /\ DOMAIN steps' = DOMAIN steps
          /\ \A s \in DOMAIN steps : /\ steps'[s].inst = steps[s].inst
                                     /\ steps'[s].node = steps[s].node
                                     /\ steps'[s].status = steps[s].status
      BY <1>3, Rows DEF SweepStamp, Step
    <2>4. QuestionsFit(steps', instances', q)
      BY <1>0, <2>1, <2>3 DEF QuestionsFit
    <2>5. Placed(instances', q)
      BY <1>0, <2>1, <2>2 DEF Placed, AtNode
    <2>6. Knows(steps', q)
      BY <2>2 DEF Knows, AtStep
    <2>7. Earned(instances', GrantedIds(steps'), p.inst, p.node)
      BY <1>0, <1>b, <2>1, GrantedStays DEF Granted, BackedBy, AtNode
    <2>8. BackedBy(instances', GrantedIds(steps'), q)
      BY <2>2, <2>7 DEF BackedBy
    <2> QED
      BY <1>0, <2>1, <2>4, <2>5, <2>6, <2>8, TurnBy
  <1>4. CASE SweepRead(w)
    <2> DEFINE open == Pending(StepsAt(p.inst, p.node))
               l == IF open = {} THEN "leave" ELSE "skip"
               q == [p EXCEPT !.outcome = "SLA", !.seen = open, !.ret = <<"sweep">>, !.pc = l]
    <2>1. p.pc = "sweepRead" /\ Set(w, q) /\ UNCHANGED <<instances, steps>>
      BY <1>4 DEF SweepRead, At, tables
    <2>2. open = {s \in DOMAIN steps : steps[s].inst = p.inst /\ steps[s].status = "PENDING"}
      <3>1. instances[p.inst].node = p.node
        BY <1>0, <2>1 DEF Placed, AtNode
      <3>2. \A s \in DOMAIN steps : steps[s].inst = p.inst /\ steps[s].status = "PENDING"
              => steps[s].node = p.node
        BY <1>0, <2>1, <3>1 DEF QuestionsFit
      <3> QED
        BY <3>2 DEF Pending, StepsAt
    <2> HIDE DEF open
    <2>3. l = "skip" \/ (l = "leave" /\ open = {})
      OBVIOUS
    <2> HIDE DEF l
    <2>4. q.pc = l /\ q.inst = p.inst /\ q.node = p.node /\ q.seen = open /\ q.outcome = "SLA"
      BY <1>0 DEF Request
    <2> HIDE DEF q
    <2>5. Placed(instances, q)
      BY <1>0, <2>1, <2>3, <2>4 DEF Placed, AtNode
    <2>6. Knows(steps, q)
      BY <2>2, <2>3, <2>4 DEF Knows, AtStep, Open
    <2>7. BackedBy(instances, GrantedIds(steps), q)
      BY <1>0, <2>1, <2>4 DEF Granted, BackedBy, AtNode
    <2> QED
      BY <2>1, <2>5, <2>6, <2>7, TurnStill
  <1> QED
    BY <1>1, <1>2, <1>3, <1>4

LEMMA TurnStatement ==
  ASSUME OneAtATime, Typed, InTurn, NEW w \in Worker, Statement(w) PROVE InTurn'
  <1>1. CASE Proceed(w)
    BY <1>1, TurnAdvance, TurnDecide, TurnDelegate, TurnRecall, TurnSweep DEF Proceed
  <1>2. CASE StepRequest(w)
    BY <1>2, TurnDecide, TurnDelegate DEF StepRequest
  <1> QED
    BY <1>1, <1>2, TurnSweep DEF Statement

LEMMA TurnInit == Init => InTurn
  <1> SUFFICES ASSUME Init PROVE InTurn
    OBVIOUS
  <1>1. instances = <<>> /\ steps = <<>> /\ \A w \in Worker : proc[w] = Idle
    BY DEF Init
  <1>2. Away(Idle)
    BY DEF Away, Idle, AtNode
  <1> QED
    BY <1>1, <1>2, AwayIsFree DEF InTurn, LastIsLive, QuestionsFit, Granted

\* A request that is not at work comes or goes, the rows stay.
LEMMA TurnIdle ==
  ASSUME OneAtATime, Typed, InTurn, NEW w \in Worker, NEW q, Set(w, q), Away(q),
         proc[w].pc # "park", UNCHANGED <<instances, steps>>
  PROVE  InTurn'
  <1>1. \A v \in Worker : proc'[v] = q
    BY DEF Set, Typed, OneAtATime
  <1>2. QuestionsFit(steps, instances, q)
    BY TurnFacts DEF QuestionsFit
  <1> QED
    BY <1>1, <1>2, AwayIsFree DEF InTurn, Granted

LEMMA TurnNext == ASSUME OneAtATime, Typed, InTurn, [Next]_vars PROVE InTurn'
  <1>1. ASSUME UNCHANGED <<instances, steps, proc>> PROVE InTurn'
    BY <1>1 DEF InTurn
  <1>2. ASSUME NEW w \in Worker, RequestStart(w) \/ RestartInstance(w) PROVE InTurn'
    <2>1. PICK q : Set(w, q) /\ Away(q)
      <3>1. /\ Away([Idle EXCEPT !.pc = "start"])
            /\ Away([Idle EXCEPT !.pc = "recall", !.ret = <<"start", "link">>])
        BY DEF Idle, AtNode, Away
      <3> QED
        BY <1>2, <3>1 DEF RequestStart, RestartInstance
    <2>2. proc[w].pc = "idle" /\ UNCHANGED <<instances, steps>>
      BY <1>2 DEF RequestStart, RestartInstance, At, tables
    <2> QED
      BY <2>1, <2>2, TurnIdle
  <1> QED
    BY <1>1, <1>2, TurnStatement DEF Next, Statement, vars, DeadlinePasses, tables

LEMMA TurnMeans == ASSUME OneAtATime, Typed, InTurn PROVE NoStrayQuestion
  <1> SUFFICES ASSUME Quiet, NEW s \in DOMAIN steps, steps[s].status = "PENDING"
               PROVE  /\ instances[steps[s].inst].status = "ACTIVE"
                      /\ instances[steps[s].inst].node = steps[s].node
    BY DEF NoStrayQuestion
  <1>1. PICK w \in Worker : TRUE
    BY DEF OneAtATime
  <1>2. QuestionsFit(steps, instances, proc[w]) /\ proc[w].pc = "idle"
    BY DEF InTurn, Quiet, At
  <1> QED
    BY <1>2 DEF QuestionsFit

\* With requests handled one at a time, a decision, a hand-off, an escalation, a recall
\* or a restart leaves no question open whose node or instance is not the current one.
THEOREM SpecNoStrayQuestion == ASSUME OneAtATime PROVE Spec => []NoStrayQuestion
  <1>1. Typed /\ InTurn => NoStrayQuestion
    BY TurnMeans
  <1>2. Typed /\ InTurn /\ [Next]_vars => InTurn'
    BY TurnNext
  <1> QED
    BY <1>1, <1>2, TurnInit, SpecTyped, PTL DEF Spec

\* With requests handled one at a time, no answer, hand-off, skip or cancellation on
\* record is ever rewritten, although skipPendingSiblings and the recall write by id.
THEOREM SpecHistoryKept == ASSUME OneAtATime PROVE Spec => HistoryKept
  <1>1. Typed /\ InTurn /\ [Next]_vars => InTurn'
    BY TurnNext
  <1>2. Typed /\ InTurn /\ [Next]_vars =>
          [\A s \in DOMAIN steps : steps[s].status # "PENDING"
             => steps'[s].status = steps[s].status]_vars
    BY HistoryStatement
    DEF Next, Statement, vars, tables, RequestStart, RestartInstance, DeadlinePasses
  <1> QED
    BY <1>1, <1>2, TurnInit, SpecTyped, PTL DEF Spec, HistoryKept

-----------------------------------------------------------------------------
(* ImplementsRound: what a statement of the engine is to the ballot.       *)

\* The refinement mapping of Round, as a function of the tables.
ResultOf(table) ==
  IF table = <<>> THEN "none"
  ELSE LET last == table[Len(table)]
       IN  CASE last.status = "ACTIVE" -> "open"
             [] last.status = "SUPERSEDED" -> "withdrawn"
             [] OTHER -> IF Def[last.workflow].kind[last.node] = "END"
                         THEN "approved" ELSE "rejected"
WaivedBy(table) ==
  /\ table # <<>>
  /\ LET d == table[Len(table)].workflow
     IN  \E n \in Unearned[d] : Def[d].kind[n] = "END"
AskedOf(rows, i) == {s \in DOMAIN rows : rows[s].inst = i /\ rows[s].status = "PENDING"}
YesOf(rows, i)   == {s \in DOMAIN rows : rows[s].inst = i /\ rows[s].status = "APPROVED"}

RoundStep == Round!Next \/ UNCHANGED Round!vars

\* The tables after a step that neither opens nor closes a round.
SameRound ==
  /\ Len(instances') = Len(instances)
  /\ ResultOf(instances') = ResultOf(instances)
  /\ WaivedBy(instances') = WaivedBy(instances)

LEMMA Stutters ==
  ASSUME SameRound, AskedOf(steps', Len(instances)) = AskedOf(steps, Len(instances)),
         YesOf(steps', Len(instances)) = YesOf(steps, Len(instances))
  PROVE  RoundStep
  BY DEF RoundStep, SameRound, Round!vars, ResultOf, WaivedBy, AskedOf, YesOf, Pending

LEMMA Asks ==
  ASSUME SameRound, ResultOf(instances) = "open",
         AskedOf(steps, Len(instances)) \subseteq AskedOf(steps', Len(instances)),
         AskedOf(steps', Len(instances)) \cap YesOf(steps, Len(instances)) = {},
         YesOf(steps', Len(instances)) = YesOf(steps, Len(instances))
  PROVE  RoundStep
  <1>1. Round!Ask
    BY DEF SameRound, Round!Ask, ResultOf, WaivedBy, AskedOf, YesOf, Pending
  <1> QED
    BY <1>1 DEF RoundStep, Round!Next

LEMMA Drops ==
  ASSUME SameRound, ResultOf(instances) = "open",
         AskedOf(steps', Len(instances)) \subseteq AskedOf(steps, Len(instances)),
         YesOf(steps', Len(instances)) = YesOf(steps, Len(instances))
  PROVE  RoundStep
  <1>1. Round!Drop
    BY DEF SameRound, Round!Drop, ResultOf, WaivedBy, AskedOf, YesOf, Pending
  <1> QED
    BY <1>1 DEF RoundStep, Round!Next

LEMMA Consents ==
  ASSUME SameRound, ResultOf(instances) = "open",
         NEW s \in AskedOf(steps, Len(instances)),
         AskedOf(steps', Len(instances)) = AskedOf(steps, Len(instances)) \ {s},
         YesOf(steps', Len(instances)) = YesOf(steps, Len(instances)) \cup {s}
  PROVE  RoundStep
  <1> DEFINE asked == Pending({r \in DOMAIN steps : steps[r].inst = Len(instances)})
             yes == {r \in DOMAIN steps : steps[r].inst = Len(instances)
                                           /\ steps[r].status = "APPROVED"}
  <1>a. /\ asked = AskedOf(steps, Len(instances)) /\ asked' = AskedOf(steps', Len(instances'))
        /\ yes = YesOf(steps, Len(instances)) /\ yes' = YesOf(steps', Len(instances'))
    BY DEF AskedOf, YesOf, Pending
  <1>b. s \in asked /\ asked' = asked \ {s} /\ yes' = yes \cup {s}
    BY <1>a DEF SameRound
  <1>c. \E q \in asked : asked' = asked \ {q} /\ yes' = yes \cup {q}
    BY <1>b
  <1>1. Round!Consent
    BY <1>c DEF SameRound, Round!Consent, ResultOf, WaivedBy
  <1> QED
    BY <1>1 DEF RoundStep, Round!Next

LEMMA Closes ==
  ASSUME ResultOf(instances) = "open", AskedOf(steps, Len(instances)) = {},
         Len(instances') = Len(instances), WaivedBy(instances') = WaivedBy(instances),
         UNCHANGED steps,
         \/ /\ ResultOf(instances') = "approved"
            /\ WaivedBy(instances) \/ YesOf(steps, Len(instances)) # {}
         \/ ResultOf(instances') \in {"rejected", "withdrawn"}
  PROVE  RoundStep
  <1>1. Round!Close
    BY DEF Round!Close, ResultOf, WaivedBy, AskedOf, YesOf, Pending
  <1> QED
    BY <1>1 DEF RoundStep, Round!Next

LEMMA Opens ==
  ASSUME ResultOf(instances) # "open", ResultOf(instances') = "open",
         Len(instances') = Len(instances) + 1,
         AskedOf(steps', Len(instances')) = {}, YesOf(steps', Len(instances')) = {}
  PROVE  RoundStep
  <1>1. Round!Open
    BY DEF Round!Open, ResultOf, WaivedBy, AskedOf, YesOf, Pending
  <1> QED
    BY <1>1 DEF RoundStep, Round!Next

\* The live instance is the round that is open.
LEMMA LiveIsOpen ==
  ASSUME Typed, LastIsLive(instances), NEW i \in DOMAIN instances,
         instances[i].status = "ACTIVE"
  PROVE  i = Len(instances) /\ instances # <<>> /\ ResultOf(instances) = "open"
  <1>1. i = Len(instances) /\ instances # <<>>
    BY DEF LastIsLive
  <1> QED
    BY <1>1 DEF ResultOf

\* A step that leaves status and workflow of the last row alone, and its node if the
\* row is closed, neither opens nor closes a round.
LEMMA SameRoundBy ==
  ASSUME Typed, DOMAIN instances' = DOMAIN instances, Len(instances') = Len(instances),
         \A i \in DOMAIN instances :
           /\ instances'[i].status = instances[i].status
           /\ instances'[i].workflow = instances[i].workflow
           /\ instances'[i].node = instances[i].node \/ instances[i].status = "ACTIVE"
  PROVE  SameRound
  <1>1. Len(instances) \in Nat /\ DOMAIN instances = 1..Len(instances)
    BY Sizes
  <1>2. CASE instances = <<>>
    <2>1. instances' = instances
      BY <1>1, <1>2, EmptySeq DEF Typed
    <2> QED
      BY <2>1 DEF SameRound
  <1>3. CASE instances # <<>>
    <2> DEFINE L == Len(instances)
    <2>1. L \in DOMAIN instances
      BY <1>1, <1>3, EmptySeq DEF Typed
    <2>2. instances' # <<>>
      BY <2>1
    <2>3. /\ instances'[L].status = instances[L].status
          /\ instances'[L].workflow = instances[L].workflow
          /\ instances'[L].node = instances[L].node \/ instances[L].status = "ACTIVE"
      BY <2>1
    <2>4. Len(instances') = L
      OBVIOUS
    <2> HIDE DEF L
    <2>5. ResultOf(instances') = ResultOf(instances)
      BY <1>3, <2>2, <2>3, <2>4 DEF ResultOf, L
    <2>6. WaivedBy(instances') = WaivedBy(instances)
      BY <1>3, <2>2, <2>3, <2>4 DEF WaivedBy, L
    <2> QED
      BY <2>5, <2>6 DEF SameRound
  <1> QED
    BY <1>2, <1>3

\* Writing a status over pending steps of the round that is open lets them off, or
\* is the one yes.
LEMMA RoundOfStatus ==
  ASSUME Typed, LastIsLive(instances), UNCHANGED instances, NEW S, NEW x,
         steps' = SetStatus(S, x), x # "PENDING",
         NEW i \in DOMAIN instances, instances[i].status = "ACTIVE",
         S \subseteq AskedOf(steps, i),
         x = "APPROVED" => \E s \in AskedOf(steps, i) : S = {s}
  PROVE  RoundStep
  <1>1. i = Len(instances) /\ ResultOf(instances) = "open" /\ SameRound
    BY LiveIsOpen DEF SameRound
  <1>2. /\ DOMAIN steps' = DOMAIN steps
        /\ \A s \in DOMAIN steps : /\ steps'[s].inst = steps[s].inst
                                   /\ steps'[s].status = IF s \in S THEN x ELSE steps[s].status
    BY SetStatusKeeps
  <1>3. AskedOf(steps', i) = AskedOf(steps, i) \ S
    BY <1>2 DEF AskedOf
  <1>4. CASE x = "APPROVED"
    <2>1. YesOf(steps', i) = YesOf(steps, i) \cup S
      BY <1>2, <1>4 DEF YesOf, AskedOf
    <2> QED
      BY <1>1, <1>3, <1>4, <2>1, Consents
  <1>5. CASE x # "APPROVED"
    <2>1. YesOf(steps', i) = YesOf(steps, i)
      BY <1>2, <1>5 DEF YesOf, AskedOf
    <2> QED
      BY <1>1, <1>3, <2>1, Drops
  <1> QED
    BY <1>4, <1>5

\* New rows of the round that is open are questions.
LEMMA RoundOfRows ==
  ASSUME Typed, LastIsLive(instances), UNCHANGED instances,
         NEW i \in DOMAIN instances, instances[i].status = "ACTIVE",
         \A s \in DOMAIN steps : s \in DOMAIN steps' /\ steps'[s] = steps[s],
         \A s \in DOMAIN steps' \ DOMAIN steps : steps'[s].status = "PENDING"
  PROVE  RoundStep
  <1>1. i = Len(instances) /\ ResultOf(instances) = "open" /\ SameRound
    BY LiveIsOpen DEF SameRound
  <1>2. AskedOf(steps, i) \subseteq AskedOf(steps', i)
    BY DEF AskedOf
  <1>3. YesOf(steps', i) = YesOf(steps, i)
    BY DEF YesOf
  <1>4. AskedOf(steps', i) \cap YesOf(steps, i) = {}
    BY DEF YesOf, AskedOf
  <1> QED
    BY <1>1, <1>2, <1>3, <1>4, Asks

\* Rows whose status does not change are no business of the round.
LEMMA RoundOfRest ==
  ASSUME SameRound, DOMAIN steps' = DOMAIN steps,
         \A s \in DOMAIN steps : /\ steps'[s].inst = steps[s].inst
                                 /\ steps'[s].status = steps[s].status
  PROVE  RoundStep
  <1>1. \A i : AskedOf(steps', i) = AskedOf(steps, i) /\ YesOf(steps', i) = YesOf(steps, i)
    BY DEF AskedOf, YesOf
  <1> QED
    BY <1>1, Stutters

LEMMA RoundAdvance ==
  ASSUME Typed, InTurn, NEW w \in Worker,
         \/ StartInstance(w) \/ AdvanceCreateSteps(w) \/ Park(w) \/ CompleteInstance(w)
  PROVE  RoundStep
  <1> DEFINE p == proc[w]
  <1>0. /\ p \in Request /\ LastIsLive(instances)
        /\ Placed(instances, p) /\ Knows(steps, p) /\ Granted(steps, instances, p)
        /\ p.pc \in AtNode => p.inst \in DOMAIN instances
    BY TurnFacts
  <1>a. /\ \A i \in DOMAIN instances : instances[i] \in Instance
        /\ \A s \in DOMAIN steps : steps[s].inst \in DOMAIN instances
        /\ Len(instances) \in Nat /\ DOMAIN instances = 1..Len(instances)
    BY Rows, Sizes
  <1>1. CASE StartInstance(w)
    <2>1. UNCHANGED steps
      BY <1>1 DEF StartInstance
    <2>2. CASE UNCHANGED instances
      BY <2>1, <2>2, RoundOfRest DEF SameRound
    <2>3. ASSUME NEW d \in Workflow, ActiveIds = {},
                 instances' = Append(instances, [workflow |-> d, status |-> "ACTIVE",
                                                 node |-> StartNode(Def[d]), link |-> 0])
          PROVE  RoundStep
      <3> DEFINE L == Len(instances)
      <3>1. /\ Len(instances') = L + 1 /\ instances' # <<>>
            /\ instances'[L + 1].status = "ACTIVE"
        BY <1>a, <2>3 DEF Typed
      <3>2. ResultOf(instances') = "open"
        BY <3>1 DEF ResultOf
      <3>3. ResultOf(instances) # "open"
        <4>1. CASE instances = <<>>
          BY <4>1 DEF ResultOf
        <4>2. CASE instances # <<>>
          <5>1. instances[L].status # "ACTIVE" /\ instances[L] \in Instance
            BY <1>a, <2>3, <4>2, EmptySeq DEF ActiveIds, Typed
          <5> QED
            BY <4>2, <5>1 DEF ResultOf, Instance, InstanceStatus
        <4> QED
          BY <4>1, <4>2
      <3>4. \A s \in DOMAIN steps : steps[s].inst # L + 1
        BY <1>a
      <3>5. AskedOf(steps', L + 1) = {} /\ YesOf(steps', L + 1) = {}
        BY <2>1, <3>4 DEF AskedOf, YesOf
      <3> QED
        BY <3>1, <3>2, <3>3, <3>5, Opens
    <2> QED
      BY <1>1, <2>2, <2>3 DEF StartInstance
  <1>2. CASE AdvanceCreateSteps(w)
    <2>1. p.pc = "advance" /\ UNCHANGED instances
      BY <1>2 DEF AdvanceCreateSteps, At
    <2>2. instances[p.inst].status = "ACTIVE" /\ p.inst \in DOMAIN instances
      BY <1>0, <2>1 DEF Placed, AtNode
    <2> QED
      BY <1>0, <1>2, <2>1, <2>2, CreatedSteps, RoundOfRows
  <1>3. CASE Park(w)
    <2>1. p.pc = "park" /\ UNCHANGED steps
          /\ instances' = [instances EXCEPT ![p.inst].node = p.node]
      BY <1>3 DEF Park, At
    <2>2. instances[p.inst].status = "ACTIVE" /\ p.inst \in DOMAIN instances
      BY <1>0, <2>1 DEF Placed, AtNode
    <2>3. /\ DOMAIN instances' = DOMAIN instances /\ Len(instances') = Len(instances)
          /\ \A i \in DOMAIN instances :
               /\ instances'[i].status = instances[i].status
               /\ instances'[i].workflow = instances[i].workflow
               /\ i # p.inst => instances'[i].node = instances[i].node
      BY <1>a, <2>1, <2>2 DEF Instance, Typed
    <2>4. SameRound
      BY <2>2, <2>3, SameRoundBy
    <2> QED
      BY <2>1, <2>4, RoundOfRest
  <1>4. CASE CompleteInstance(w)
    <2> DEFINE L == Len(instances)
    <2>1. /\ p.pc \in {"advance", "complete"} /\ UNCHANGED steps
          /\ instances' = [instances EXCEPT ![p.inst].node = p.node,
                                            ![p.inst].status = "COMPLETED"]
      BY <1>4 DEF CompleteInstance, At
    <2>2. /\ instances[p.inst].status = "ACTIVE" /\ p.inst \in DOMAIN instances
          /\ ~Open(steps, p.inst)
      BY <1>0, <2>1 DEF Placed, AtNode, Knows
    <2>3. p.inst = L /\ instances # <<>> /\ ResultOf(instances) = "open"
      BY <1>0, <2>2, LiveIsOpen
    <2>4. /\ Len(instances') = L /\ instances' # <<>>
          /\ instances'[p.inst].status = "COMPLETED"
          /\ instances'[p.inst].node = p.node
          /\ instances'[p.inst].workflow = instances[p.inst].workflow
      BY <1>a, <2>1, <2>2 DEF Instance, Typed
    <2> HIDE DEF L
    <2>5. WaivedBy(instances') = WaivedBy(instances)
      BY <2>3, <2>4 DEF WaivedBy, L
    <2>6. AskedOf(steps, L) = {}
      BY <2>2, <2>3 DEF AskedOf, Open
    <2>7. ResultOf(instances') =
            IF Def[instances[p.inst].workflow].kind[p.node] = "END" THEN "approved" ELSE "rejected"
      BY <2>3, <2>4 DEF ResultOf
    <2>8. ASSUME Def[instances[p.inst].workflow].kind[p.node] = "END"
          PROVE  WaivedBy(instances) \/ YesOf(steps, L) # {}
      <3>1. Earned(instances, GrantedIds(steps), p.inst, p.node)
        BY <1>0, <2>1 DEF Granted, BackedBy, AtNode
      <3>2. CASE p.node \in Unearned[instances[p.inst].workflow]
        BY <2>3, <2>8, <3>2 DEF WaivedBy, L
      <3>3. CASE p.inst \in GrantedIds(steps)
        BY <2>3, <3>3 DEF GrantedIds, YesOf
      <3> QED
        BY <3>1, <3>2, <3>3 DEF Earned
    <2> QED
      BY <2>1, <2>3, <2>4, <2>5, <2>6, <2>7, <2>8, Closes DEF L
  <1> QED
    BY <1>1, <1>2, <1>3, <1>4

LEMMA RoundDecide ==
  ASSUME Typed, InTurn, NEW w \in Worker,
         \/ RecordDecision(w) \/ SkipSiblings(w) \/ LeaveNode(w)
         \/ MarkDelegated(w) \/ InsertDelegate(w)
  PROVE  RoundStep
  <1> DEFINE p == proc[w]
  <1>0. /\ p \in Request /\ LastIsLive(instances)
        /\ Placed(instances, p) /\ Knows(steps, p)
        /\ p.pc \in AtStep => p.step \in DOMAIN steps
        /\ p.pc \in AtNode => p.inst \in DOMAIN instances
    BY TurnFacts
  <1>1. CASE RecordDecision(w) \/ MarkDelegated(w)
    <2>1. p.pc \in {"record", "handoff"} /\ UNCHANGED instances
      BY <1>1 DEF RecordDecision, MarkDelegated, At
    <2>2. PICK x : x # "PENDING" /\ steps' = SetStatus({p.step}, x)
      BY <1>1 DEF RecordDecision, MarkDelegated, Verdict
    <2>3. instances[p.inst].status = "ACTIVE" /\ p.inst \in DOMAIN instances
      BY <1>0, <2>1 DEF Placed, AtNode
    <2>4. p.step \in AskedOf(steps, p.inst)
      BY <1>0, <2>1 DEF Knows, AskedOf, AtStep
    <2> QED
      BY <1>0, <2>1, <2>2, <2>3, <2>4, RoundOfStatus
  <1>2. CASE SkipSiblings(w)
    <2>1. p.pc = "skip" /\ UNCHANGED instances /\ steps' = SetStatus(p.seen, "SKIPPED")
      BY <1>2 DEF SkipSiblings, At
    <2>2. instances[p.inst].status = "ACTIVE" /\ p.inst \in DOMAIN instances
      BY <1>0, <2>1 DEF Placed, AtNode
    <2>3. p.seen \subseteq AskedOf(steps, p.inst)
      BY <1>0, <2>1 DEF Knows, AskedOf
    <2> QED
      BY <1>0, <2>1, <2>2, <2>3, RoundOfStatus
  <1>3. CASE LeaveNode(w)
    <2>1. PICK n : instances' = [instances EXCEPT ![p.inst].node = n]
      BY <1>3 DEF LeaveNode
    <2>2. p.pc = "leave" /\ UNCHANGED steps
      BY <1>3 DEF LeaveNode, At
    <2>3. instances[p.inst].status = "ACTIVE" /\ p.inst \in DOMAIN instances
      BY <1>0, <2>2 DEF Placed, AtNode
    <2>4. /\ DOMAIN instances' = DOMAIN instances /\ Len(instances') = Len(instances)
          /\ \A i \in DOMAIN instances :
               /\ instances'[i].status = instances[i].status
               /\ instances'[i].workflow = instances[i].workflow
               /\ i # p.inst => instances'[i].node = instances[i].node
      BY <2>1, <2>3, Rows DEF Instance, Typed
    <2>5. SameRound
      BY <2>3, <2>4, SameRoundBy
    <2> QED
      BY <2>2, <2>5, RoundOfRest
  <1>4. CASE InsertDelegate(w)
    <2> DEFINE new == NewStep(p.inst, p.node, p.to, steps[p.step].due)
    <2>1. p.pc = "replace" /\ UNCHANGED instances /\ steps' = Append(steps, new)
      BY <1>4 DEF InsertDelegate, At
    <2>2. instances[p.inst].status = "ACTIVE" /\ p.inst \in DOMAIN instances
      BY <1>0, <2>1 DEF Placed, AtNode
    <2>3. new.status = "PENDING"
      BY DEF NewStep
    <2> HIDE DEF new
    <2>4. /\ \A s \in DOMAIN steps : s \in DOMAIN steps' /\ steps'[s] = steps[s]
          /\ \A s \in DOMAIN steps' \ DOMAIN steps : steps'[s] = new
      BY <2>1, Sizes DEF Typed, StepsOK
    <2> QED
      BY <1>0, <2>1, <2>2, <2>3, <2>4, RoundOfRows
  <1> QED
    BY <1>1, <1>2, <1>3, <1>4

LEMMA RoundRecall ==
  ASSUME Typed, InTurn, NEW w \in Worker,
         \/ CancelSteps(w) \/ Supersede(w) \/ LinkSuccessor(w) \/ SweepStamp(w)
  PROVE  RoundStep
  <1> DEFINE p == proc[w]
  <1>0. /\ p \in Request /\ LastIsLive(instances)
        /\ Placed(instances, p) /\ Knows(steps, p)
        /\ p.pc \in {"cancel", "supersede"} => p.old \in DOMAIN instances
    BY TurnFacts
  <1>a. \A i \in DOMAIN instances : instances[i] \in Instance
    BY Rows
  <1>1. CASE CancelSteps(w)
    <2> DEFINE S == Pending({s \in DOMAIN steps : steps[s].inst = p.old})
    <2>1. p.pc = "cancel" /\ UNCHANGED instances /\ steps' = SetStatus(S, "CANCELLED")
      BY <1>1 DEF CancelSteps, At
    <2>2. instances[p.old].status = "ACTIVE" /\ p.old \in DOMAIN instances
      BY <1>0, <2>1 DEF Placed
    <2>3. S \subseteq AskedOf(steps, p.old)
      BY DEF AskedOf, Pending
    <2> HIDE DEF S
    <2> QED
      BY <1>0, <2>1, <2>2, <2>3, RoundOfStatus
  <1>2. CASE Supersede(w)
    <2> DEFINE L == Len(instances)
    <2>1. /\ p.pc = "supersede" /\ UNCHANGED steps
          /\ instances' = [instances EXCEPT ![p.old].status = "SUPERSEDED"]
      BY <1>2 DEF Supersede, At
    <2>2. /\ instances[p.old].status = "ACTIVE" /\ p.old \in DOMAIN instances
          /\ ~Open(steps, p.old)
      BY <1>0, <2>1 DEF Placed, Knows
    <2>3. p.old = L /\ instances # <<>> /\ ResultOf(instances) = "open"
      BY <1>0, <2>2, LiveIsOpen
    <2>4. /\ Len(instances') = L /\ instances' # <<>>
          /\ instances'[p.old].status = "SUPERSEDED"
          /\ instances'[p.old].workflow = instances[p.old].workflow
      BY <1>a, <2>1, <2>2 DEF Instance, Typed
    <2> HIDE DEF L
    <2>5. WaivedBy(instances') = WaivedBy(instances)
      BY <2>3, <2>4 DEF WaivedBy, L
    <2>6. AskedOf(steps, L) = {}
      BY <2>2, <2>3 DEF AskedOf, Open
    <2>7. ResultOf(instances') = "withdrawn"
      BY <2>3, <2>4 DEF ResultOf
    <2> QED
      BY <2>1, <2>3, <2>4, <2>5, <2>6, <2>7, Closes DEF L
  <1>3. CASE LinkSuccessor(w)
    <2>1. UNCHANGED steps
      BY <1>3 DEF LinkSuccessor
    <2>2. CASE UNCHANGED instances
      BY <2>1, <2>2, RoundOfRest DEF SameRound
    <2>3. ASSUME NEW i, instances' = [instances EXCEPT ![p.old].link = i] PROVE RoundStep
      <3>1. /\ DOMAIN instances' = DOMAIN instances /\ Len(instances') = Len(instances)
            /\ \A j \in DOMAIN instances :
                 /\ instances'[j].status = instances[j].status
                 /\ instances'[j].workflow = instances[j].workflow
                 /\ instances'[j].node = instances[j].node
        BY <1>a, <2>3 DEF Instance, Typed
      <3>2. SameRound
        BY <3>1, SameRoundBy
      <3> QED
        BY <2>1, <3>2, RoundOfRest
    <2> QED
      BY <1>3, <2>2, <2>3 DEF LinkSuccessor
  <1>4. CASE SweepStamp(w)
    <2>1. /\ UNCHANGED instances /\ DOMAIN steps' = DOMAIN steps
          /\ \A s \in DOMAIN steps : /\ steps'[s].inst = steps[s].inst
                                     /\ steps'[s].status = steps[s].status
      BY <1>4, Rows DEF SweepStamp, Step
    <2> QED
      BY <2>1, RoundOfRest DEF SameRound
  <1> QED
    BY <1>1, <1>2, <1>3, <1>4

LEMMA RoundStatement ==
  ASSUME Typed, InTurn, NEW w \in Worker, Statement(w) PROVE RoundStep
  <1>1. CASE UNCHANGED <<instances, steps>>
    BY <1>1, RoundOfRest DEF SameRound
  <1> QED
    BY <1>1, RoundAdvance, RoundDecide, RoundRecall
    DEF Statement, Proceed, StepRequest, tables, AdvanceWalk, AdvanceThrows, SettleInvoice,
        Authorise, LogDecision, Tally, RecallCheck, RecallFind, SweepEnd, SweepSkip,
        SweepReport, SweepRead, EscalateOverdue, DecideStep, DelegateStep

\* With requests handled one at a time, the engine holds one ballot after the other: a
\* round closes once, with no question open, and approved only on a yes given in it.
THEOREM SpecImplementsRound == ASSUME OneAtATime PROVE Spec => ImplementsRound
  <1>1. Init => Round!Init
    <2> SUFFICES ASSUME Init PROVE Round!Init
      OBVIOUS
    <2>1. instances = <<>> /\ steps = <<>>
      BY DEF Init
    <2> QED
      BY <2>1 DEF Round!Init, Pending
  <1>2. Typed /\ InTurn /\ [Next]_vars => InTurn'
    BY TurnNext
  <1>3. Typed /\ InTurn /\ [Next]_vars => [Round!Next]_(Round!vars)
    <2> SUFFICES ASSUME Typed, InTurn, [Next]_vars PROVE RoundStep
      BY DEF RoundStep
    <2>1. CASE UNCHANGED <<instances, steps>>
      BY <2>1, RoundOfRest DEF SameRound
    <2> QED
      BY <2>1, RoundStatement
      DEF Next, Statement, vars, tables, RequestStart, RestartInstance, DeadlinePasses
  <1> QED
    BY <1>1, <1>2, <1>3, TurnInit, SpecTyped, PTL DEF Spec, ImplementsRound, Round!Spec

-----------------------------------------------------------------------------
(* Crashes: what a restart of the approval repairs.                        *)

Restarts == {"recall", "recallFind", "cancel", "supersede"}

\* Where a request may be told to go on, and what a restart knows by then of the live
\* instances: the one it found is the only one, then there is none, then only its own.
Repairs(p, live, rows) ==
  /\ p.ret \in (CASE p.pc \in Restarts                      -> {<<"start", "link">>}
                  [] p.pc = "start"                         -> {<<>>, <<"link">>}
                  [] p.pc \in {"advance", "park", "settle"} -> {<<>>, <<"sweep">>, <<"link">>}
                  [] OTHER                                  -> {<<>>, <<"sweep">>})
  /\ p.pc \in {"cancel", "supersede"} => live \subseteq {p.old}
  /\ p.ret = <<"link">> =>
       /\ p.pc \in {"start", "settle"} => live = {}
       /\ p.pc \in {"advance", "park"} => live \subseteq {p.inst}
       /\ p.pc = "park" => Open(rows, p.inst)
  /\ p.pc = "link" => \A i \in live : Open(rows, i)

InRepair == \A w \in Worker : Repairs(proc[w], ActiveIds, steps)

\* A request that restarts nothing.
LEMMA RepairsOff ==
  ASSUME NEW q, q.ret \in {<<>>, <<"sweep">>}, q.pc \notin Restarts \cup {"link"},
         q.pc = "start" => q.ret = <<>>,
         NEW live, NEW rows
  PROVE  Repairs(q, live, rows)
  BY DEF Repairs, Restarts

LEMMA AfterRet ==
  ASSUME Typed, NEW w \in Worker
  PROVE  /\ proc[w].ret = <<>> => After(proc[w]) = Idle
         /\ proc[w].ret = <<"sweep">> => After(proc[w]).pc = "sweep" /\ After(proc[w]).ret = <<>>
         /\ proc[w].ret = <<"link">> => After(proc[w]).pc = "link" /\ After(proc[w]).ret = <<>>
         /\ proc[w].ret = <<"start", "link">> =>
              After(proc[w]).pc = "start" /\ After(proc[w]).ret = <<"link">>
  <1>1. proc[w] \in Request
    BY DEF Typed
  <1>2. <<"sweep">> # <<>> /\ Head(<<"sweep">>) = "sweep" /\ Tail(<<"sweep">>) = <<>>
    OBVIOUS
  <1>3. <<"link">> # <<>> /\ Head(<<"link">>) = "link" /\ Tail(<<"link">>) = <<>>
    OBVIOUS
  <1>4. /\ <<"start", "link">> # <<>> /\ Head(<<"start", "link">>) = "start"
        /\ Tail(<<"start", "link">>) = <<"link">>
    OBVIOUS
  <1>5. /\ proc[w].ret = <<>> => After(proc[w]) = Idle
        /\ proc[w].ret # <<>> => /\ After(proc[w]).pc = Head(proc[w].ret)
                                 /\ After(proc[w]).ret = Tail(proc[w].ret)
    BY <1>1 DEF After, Request
  <1> QED
    BY <1>2, <1>3, <1>4, <1>5

\* No statement but startInstance makes an instance live.
LEMMA NoneRevived ==
  ASSUME Typed, NEW w \in Worker, Statement(w), ~At(w, "start")
  PROVE  ActiveIds' \subseteq ActiveIds
  <1>1. Frame
    BY FrameStatement
  <1>2. DOMAIN instances' = DOMAIN instances
    BY DEF Statement, Proceed, StepRequest, tables, AdvanceWalk, AdvanceCreateSteps,
        AdvanceThrows, SettleInvoice, Authorise, RecordDecision, LogDecision, Tally,
        SkipSiblings, MarkDelegated, InsertDelegate, RecallCheck, RecallFind, CancelSteps,
        SweepEnd, SweepSkip, SweepReport, SweepStamp, SweepRead, EscalateOverdue,
        DecideStep, DelegateStep, StartInstance, Park, CompleteInstance, LeaveNode, Supersede,
        LinkSuccessor
  <1> QED
    BY <1>1, <1>2 DEF Frame, ActiveIds

\* The restart.
LEMMA RepairsRecall ==
  ASSUME Typed, OneActivePerInvoice, NEW w \in Worker, Repairs(proc[w], ActiveIds, steps),
         RecallCheck(w) \/ RecallFind(w) \/ CancelSteps(w) \/ Supersede(w) \/ StartInstance(w)
  PROVE  Repairs(proc'[w], ActiveIds', steps')
  <1> DEFINE p == proc[w]  q == proc'[w]
  <1>r. Repairs(p, ActiveIds, steps)
    OBVIOUS
  <1> SUFFICES Repairs(q, ActiveIds', steps')
    OBVIOUS
  <1>0. /\ p \in Request /\ w \in DOMAIN proc
        /\ p.pc \in {"cancel", "supersede"} => p.old \in DOMAIN instances
    BY Sizes DEF Typed, RequestOK
  <1>q. \A r : Set(w, r) => q = r
    BY <1>0 DEF Set
  <1>i. Idle.pc = "idle" /\ Idle.ret = <<>>
    BY DEF Idle
  <1>1. CASE RecallCheck(w)
    <2>1. p.ret = <<"start", "link">>
      BY <1>1 DEF RecallCheck, At, Repairs, Restarts
    <2>2. q = Idle \/ (q.pc = "recallFind" /\ q.ret = p.ret)
      BY <1>0, <1>q, <1>1 DEF RecallCheck, Fail, Goto, Request
    <2> HIDE DEF p, q
    <2> QED
      BY <1>i, <2>1, <2>2, RepairsOff DEF Repairs, Restarts
  <1>2. CASE RecallFind(w)
    <2>1. p.ret = <<"start", "link">> /\ UNCHANGED <<instances, steps>>
      BY <1>2 DEF RecallFind, At, Repairs, Restarts, tables
    <2>2. CASE ActiveIds = {} /\ Return(w)
      <3>1. q.pc = "start" /\ q.ret = <<"link">>
        BY <1>q, <2>1, <2>2, AfterRet DEF Return
      <3>2. ActiveIds' = {}
        BY <2>1, <2>2 DEF ActiveIds
      <3> HIDE DEF p, q
      <3> QED
        BY <3>1, <3>2 DEF Repairs, Restarts
    <2>3. ASSUME NEW i \in ActiveIds, Set(w, [p EXCEPT !.pc = "cancel", !.old = i])
          PROVE  Repairs(q, ActiveIds', steps')
      <3>1. q.pc = "cancel" /\ q.ret = p.ret /\ q.old = i
        BY <1>0, <1>q, <2>3 DEF Request
      <3>2. ActiveIds' \subseteq {i}
        BY <2>1, <2>3 DEF ActiveIds, OneActivePerInvoice
      <3> HIDE DEF p, q
      <3> QED
        BY <2>1, <3>1, <3>2 DEF Repairs, Restarts
    <2> QED
      BY <1>2, <2>2, <2>3 DEF RecallFind
  <1>3. CASE CancelSteps(w)
    <2>1. /\ p.ret = <<"start", "link">> /\ ActiveIds \subseteq {p.old} /\ UNCHANGED instances
      BY <1>3 DEF CancelSteps, At, Repairs, Restarts
    <2>2. q.pc = "supersede" /\ q.ret = p.ret /\ q.old = p.old
      BY <1>0, <1>q, <1>3 DEF CancelSteps, Goto, Request
    <2>3. ActiveIds' \subseteq {p.old}
      BY <2>1 DEF ActiveIds
    <2> HIDE DEF p, q
    <2> QED
      BY <2>1, <2>2, <2>3 DEF Repairs, Restarts
  <1>4. CASE Supersede(w)
    <2>1. /\ p.pc = "supersede" /\ p.ret = <<"start", "link">> /\ ActiveIds \subseteq {p.old}
          /\ instances' = [instances EXCEPT ![p.old].status = "SUPERSEDED"]
      BY <1>4 DEF Supersede, At, Repairs, Restarts
    <2>2. q.pc = "start" /\ q.ret = <<"link">>
      BY <1>q, <1>4, <2>1, AfterRet DEF Supersede, Return
    <2>3. p.old \in DOMAIN instances /\ instances \in Seq(Instance)
      BY <1>0, <2>1 DEF Typed
    <2>4. /\ DOMAIN instances' = DOMAIN instances
          /\ instances'[p.old].status = "SUPERSEDED"
          /\ \A i \in DOMAIN instances : i # p.old => instances'[i] = instances[i]
      <3> HIDE DEF p
      <3>1. instances[p.old] \in Instance
        BY <2>3
      <3> QED
        BY <2>1, <2>3, <3>1 DEF Instance
    <2>5. ActiveIds' = {}
      <3> HIDE DEF p
      <3> QED
        BY <2>1, <2>4 DEF ActiveIds
    <2> HIDE DEF p, q
    <2> QED
      BY <2>2, <2>5 DEF Repairs, Restarts
  <1>5. CASE StartInstance(w)
    <2>1. p.pc = "start" /\ p.ret \in {<<>>, <<"link">>}
      BY <1>5 DEF StartInstance, At, Repairs, Restarts
    <2>2. p.ret = <<"link">> => ActiveIds = {}
      BY <2>1 DEF Repairs
    <2>3. CASE Return(w) /\ UNCHANGED instances
      <3>1. \/ q = Idle
            \/ q.pc = "link" /\ q.ret = <<>> /\ ActiveIds = {}
        BY <1>q, <2>1, <2>2, <2>3, AfterRet DEF Return
      <3>2. ActiveIds' = ActiveIds
        BY <2>3 DEF ActiveIds
      <3> HIDE DEF p, q
      <3> QED
        BY <1>i, <3>1, <3>2, RepairsOff DEF Repairs, Restarts
    <2>4. CASE Fail(w)
      <3>1. q = Idle
        BY <1>q, <2>4 DEF Fail
      <3> HIDE DEF p, q
      <3> QED
        BY <1>i, <3>1, RepairsOff DEF Restarts
    <2>5. ASSUME NEW d \in Workflow, ActiveIds = {},
                 instances' = Append(instances, [workflow |-> d, status |-> "ACTIVE",
                                                 node |-> StartNode(Def[d]), link |-> 0]),
                 Set(w, Advancing(p, Len(instances) + 1, StartNode(Def[d])))
          PROVE  Repairs(q, ActiveIds', steps')
      <3>1. q.pc = "advance" /\ q.ret = p.ret /\ q.inst = Len(instances) + 1
        BY <1>q, <2>5 DEF Advancing, Idle
      <3>2. ActiveIds' \subseteq {Len(instances) + 1}
        BY <2>5, Sizes DEF ActiveIds, Typed
      <3> HIDE DEF p, q
      <3> QED
        BY <2>1, <3>1, <3>2 DEF Repairs, Restarts
    <2> QED
      BY <1>5, <2>3, <2>4, <2>5 DEF StartInstance
  <1> QED
    BY <1>1, <1>2, <1>3, <1>4, <1>5

\* Its walk to the first question, or to the end of the graph.
LEMMA RepairsAdvance ==
  ASSUME Typed, NEW w \in Worker, Repairs(proc[w], ActiveIds, steps),
         \/ AdvanceWalk(w) \/ AdvanceCreateSteps(w) \/ AdvanceThrows(w) \/ Park(w)
         \/ CompleteInstance(w) \/ SettleInvoice(w) \/ LinkSuccessor(w)
  PROVE  Repairs(proc'[w], ActiveIds', steps')
  <1> DEFINE p == proc[w]  q == proc'[w]
  <1>r. Repairs(p, ActiveIds, steps)
    OBVIOUS
  <1> SUFFICES Repairs(q, ActiveIds', steps')
    OBVIOUS
  <1>0. /\ p \in Request /\ w \in DOMAIN proc /\ instances \in Seq(Instance)
        /\ p.pc \in AtNode => p.inst \in DOMAIN instances
    BY Sizes DEF Typed, RequestOK
  <1>q. \A r : Set(w, r) => q = r
    BY <1>0 DEF Set
  <1>i. Idle.pc = "idle" /\ Idle.ret = <<>>
    BY DEF Idle
  <1>s. ActiveIds' \subseteq ActiveIds
    <2>1. ~At(w, "start")
      BY DEF At, AdvanceWalk, AdvanceCreateSteps, AdvanceThrows, Park, CompleteInstance,
             SettleInvoice, LinkSuccessor
    <2> QED
      BY <2>1, NoneRevived DEF Statement, Proceed
  <1>1. CASE AdvanceWalk(w)
    <2>1. p.pc = "advance" /\ q.pc = "advance" /\ q.ret = p.ret /\ q.inst = p.inst
      BY <1>0, <1>q, <1>1 DEF AdvanceWalk, At, Request
    <2> HIDE DEF p, q
    <2> QED
      BY <1>r, <1>s, <2>1 DEF Repairs, Restarts
  <1>2. CASE AdvanceCreateSteps(w)
    <2>1. p.pc = "advance" /\ q.pc = "park" /\ q.ret = p.ret /\ q.inst = p.inst
      BY <1>0, <1>q, <1>2 DEF AdvanceCreateSteps, At, Goto, Request
    <2>2. Open(steps', p.inst)
      BY <1>2, CreatedOpen
    <2> HIDE DEF p, q
    <2> QED
      BY <1>r, <1>s, <2>1, <2>2 DEF Repairs, Restarts
  <1>3. CASE AdvanceThrows(w)
    <2>1. q = Idle
      BY <1>q, <1>3 DEF AdvanceThrows, Fail
    <2> HIDE DEF p, q
    <2> QED
      BY <1>i, <2>1, RepairsOff DEF Restarts
  <1>4. CASE Park(w)
    <2>1. p.pc = "park" /\ p.ret \in {<<>>, <<"sweep">>, <<"link">>} /\ UNCHANGED steps
      BY <1>4 DEF Park, At, Repairs, Restarts
    <2>2. \/ q = Idle \/ (q.pc = "sweep" /\ q.ret = <<>>)
          \/ q.pc = "link" /\ q.ret = <<>> /\ p.ret = <<"link">>
      BY <1>q, <1>4, <2>1, AfterRet DEF Park, Return
    <2>3. p.ret = <<"link">> => \A i \in ActiveIds' : Open(steps', i)
      BY <1>s, <2>1 DEF Repairs
    <2> HIDE DEF p, q
    <2> QED
      BY <1>i, <2>2, <2>3, RepairsOff DEF Repairs, Restarts
  <1>5. CASE CompleteInstance(w)
    <2>1. /\ p.pc \in {"advance", "complete"} /\ q.pc = "settle" /\ q.ret = p.ret
          /\ \E n : instances' = [instances EXCEPT ![p.inst].node = n,
                                                   ![p.inst].status = "COMPLETED"]
      BY <1>0, <1>q, <1>5 DEF CompleteInstance, At, Request
    <2>2. p.inst \notin ActiveIds'
      <3>1. p.inst \in DOMAIN instances
        BY <1>0, <2>1 DEF AtNode
      <3> HIDE DEF p
      <3>2. instances[p.inst] \in Instance
        BY <1>0, <3>1
      <3> QED
        BY <2>1, <3>1, <3>2 DEF ActiveIds, Instance
    <2>3. p.ret = <<"link">> => p.pc = "advance" /\ ActiveIds' = {}
      BY <1>s, <2>1, <2>2 DEF Repairs, Restarts
    <2>4. p.ret \in {<<>>, <<"sweep">>, <<"link">>}
      BY <2>1 DEF Repairs, Restarts
    <2> HIDE DEF p, q
    <2> QED
      BY <2>1, <2>3, <2>4 DEF Repairs, Restarts
  <1>6. CASE SettleInvoice(w)
    <2>1. p.pc = "settle" /\ p.ret \in {<<>>, <<"sweep">>, <<"link">>}
      BY <1>6 DEF SettleInvoice, At, Repairs, Restarts
    <2>2. \/ q = Idle \/ (q.pc = "sweep" /\ q.ret = <<>>)
          \/ q.pc = "link" /\ q.ret = <<>> /\ p.ret = <<"link">>
      BY <1>q, <1>6, <2>1, AfterRet DEF SettleInvoice, Return
    <2>3. p.ret = <<"link">> => ActiveIds' = {}
      BY <1>s, <2>1 DEF Repairs
    <2> HIDE DEF p, q
    <2> QED
      BY <1>i, <2>2, <2>3, RepairsOff DEF Repairs, Restarts
  <1>7. CASE LinkSuccessor(w)
    <2>1. p.pc = "link" /\ p.ret \in {<<>>, <<"sweep">>}
      BY <1>7 DEF LinkSuccessor, At, Repairs, Restarts
    <2>2. q = Idle \/ (q.pc = "sweep" /\ q.ret = <<>>)
      BY <1>q, <1>7, <2>1, AfterRet DEF LinkSuccessor, Return
    <2> HIDE DEF p, q
    <2> QED
      BY <1>i, <2>2, RepairsOff DEF Restarts
  <1> QED
    BY <1>1, <1>2, <1>3, <1>4, <1>5, <1>6, <1>7

\* Decisions, hand-offs and the sweep restart nothing.
LEMMA RepairsOther ==
  ASSUME Typed, NEW w \in Worker, Repairs(proc[w], ActiveIds, steps),
         \/ Authorise(w) \/ RecordDecision(w) \/ LogDecision(w)
         \/ Tally(w) \/ SkipSiblings(w) \/ LeaveNode(w)
         \/ MarkDelegated(w) \/ InsertDelegate(w)
         \/ SweepEnd(w) \/ SweepSkip(w) \/ SweepReport(w) \/ SweepStamp(w) \/ SweepRead(w)
         \/ StepRequest(w) \/ EscalateOverdue(w)
  PROVE  Repairs(proc'[w], ActiveIds', steps')
  <1> DEFINE p == proc[w]  q == proc'[w]
             Off(r) == r.ret \in {<<>>, <<"sweep">>} /\ r.pc \notin Restarts \cup {"start", "link"}
  <1>0. p \in Request /\ w \in DOMAIN proc
    BY DEF Typed
  <1>1. SUFFICES \E r : Set(w, r) /\ Off(r)
    <2>1. ASSUME NEW r, Set(w, r), Off(r) PROVE Repairs(q, ActiveIds', steps')
      <3>1. q = r
        BY <1>0, <2>1 DEF Set
      <3> QED
        BY <2>1, <3>1, RepairsOff
    <2> QED
      BY <2>1
  <1>2. ASSUME p.pc \in {"authorise", "record", "log", "tally", "skip", "leave", "handoff",
                         "replace", "sweep", "stamp", "sweepRead", "idle"}
        PROVE  p.ret \in {<<>>, <<"sweep">>}
    BY <1>2 DEF Repairs, Restarts
  <1>i. Off(Idle)
    BY DEF Idle, Restarts
  <1>a. p.ret \in {<<>>, <<"sweep">>} => Off(After(p))
    BY <1>i, AfterRet DEF Restarts
  <1>3. CASE Authorise(w) \/ RecordDecision(w) \/ LogDecision(w) \/ MarkDelegated(w)
    <2>1. \/ Fail(w)
          \/ \E l \in {"record", "log", "tally", "replace"} : Goto(w, l)
      BY <1>3 DEF Authorise, RecordDecision, LogDecision, MarkDelegated
    <2>2. p.ret \in {<<>>, <<"sweep">>}
      BY <1>2, <1>3 DEF Authorise, RecordDecision, LogDecision, MarkDelegated, At
    <2>3. \A l \in {"record", "log", "tally", "replace"} : Off([p EXCEPT !.pc = l])
      BY <1>0, <2>2 DEF Request, Restarts
    <2> HIDE DEF p, q, Off
    <2> QED
      BY <1>i, <2>1, <2>3 DEF Fail, Goto, p
  <1>4. CASE Tally(w) \/ SkipSiblings(w) \/ SweepRead(w)
    <2>1. p.ret \in {<<>>, <<"sweep">>}
      BY <1>2, <1>4 DEF Tally, SkipSiblings, SweepRead, At
    <2>2. \/ Return(w)
          \/ \E o, S, t : \E l \in {"skip", "leave", "complete"} :
               /\ t \in {<<"sweep">>, p.ret}
               /\ Set(w, [p EXCEPT !.outcome = o, !.seen = S, !.ret = t, !.pc = l])
      <3>1. \A g, n, o : AfterSkip(g, n, o) \in {"complete", "leave"}
        BY DEF AfterSkip
      <3>2. p = [p EXCEPT !.ret = p.ret] /\ p = [p EXCEPT !.outcome = p.outcome]
        BY <1>0 DEF Request
      <3>3. CASE Tally(w)
        <4>1. \/ Return(w)
              \/ \E o, S : \E l \in {"skip", "leave", "complete"} :
                   Set(w, [p EXCEPT !.outcome = o, !.seen = S, !.pc = l])
          BY <3>1, <3>3 DEF Tally
        <4>2. \A o, S, l : [p EXCEPT !.outcome = o, !.seen = S, !.pc = l]
                 = [p EXCEPT !.outcome = o, !.seen = S, !.ret = p.ret, !.pc = l]
          BY <1>0 DEF Request
        <4>3. CASE Return(w)
          BY <4>3
        <4>4. ASSUME NEW o, NEW S, NEW l \in {"skip", "leave", "complete"},
                     Set(w, [p EXCEPT !.outcome = o, !.seen = S, !.pc = l])
              PROVE  Set(w, [p EXCEPT !.outcome = o, !.seen = S, !.ret = p.ret, !.pc = l])
          BY <4>2, <4>4
        <4> HIDE DEF p, q, Off
        <4> QED
          BY <4>1, <4>3, <4>4
      <3>4. CASE SkipSiblings(w)
        <4>1. \E l \in {"leave", "complete"} : Set(w, [p EXCEPT !.seen = {}, !.pc = l])
          BY <3>1, <3>4 DEF SkipSiblings
        <4>2. \A l : [p EXCEPT !.seen = {}, !.pc = l]
                 = [p EXCEPT !.outcome = p.outcome, !.seen = {}, !.ret = p.ret, !.pc = l]
          BY <1>0 DEF Request
        <4>3. PICK l \in {"leave", "complete"} : Set(w, [p EXCEPT !.seen = {}, !.pc = l])
          BY <4>1
        <4>4. Set(w, [p EXCEPT !.outcome = p.outcome, !.seen = {}, !.ret = p.ret, !.pc = l])
          BY <4>2, <4>3
        <4> HIDE DEF p, q, Off
        <4> QED
          BY <4>4
      <3>5. CASE SweepRead(w)
        BY <3>5 DEF SweepRead
      <3> QED
        BY <1>4, <3>3, <3>4, <3>5
    <2>3. \A o, S : \A t \in {<<"sweep">>, p.ret} : \A l \in {"skip", "leave", "complete"} :
            Off([p EXCEPT !.outcome = o, !.seen = S, !.ret = t, !.pc = l])
      BY <1>0, <2>1 DEF Request, Restarts
    <2> HIDE DEF Off
    <2> QED
      BY <1>a, <2>1, <2>2, <2>3 DEF Return
  <1>5. CASE LeaveNode(w)
    <2>1. p.ret \in {<<>>, <<"sweep">>}
      BY <1>2, <1>5 DEF LeaveNode, At
    <2>2. \E n : Set(w, Advancing(p, p.inst, n))
      BY <1>5 DEF LeaveNode
    <2>3. \A n : Off(Advancing(p, p.inst, n))
      BY <2>1 DEF Advancing, Idle, Restarts
    <2> QED
      BY <2>2, <2>3
  <1>6. CASE InsertDelegate(w) \/ SweepEnd(w)
    <2>1. p.ret \in {<<>>, <<"sweep">>} /\ Return(w)
      BY <1>2, <1>6 DEF InsertDelegate, SweepEnd, At
    <2> QED
      BY <1>a, <2>1 DEF Return
  <1>7. CASE SweepSkip(w) \/ SweepStamp(w)
    <2>1. p.ret \in {<<>>, <<"sweep">>} /\ p.pc \in {"sweep", "stamp"}
      BY <1>2, <1>7 DEF SweepSkip, SweepStamp, At
    <2>2. \/ \E T : Set(w, [p EXCEPT !.todo = T])
          \/ \E l \in {"sweep", "sweepRead"} : Set(w, [p EXCEPT !.pc = l])
      BY <1>7 DEF SweepSkip, SweepStamp, Goto
    <2>3. /\ \A T : Off([p EXCEPT !.todo = T])
          /\ \A l \in {"sweep", "sweepRead"} : Off([p EXCEPT !.pc = l])
      BY <1>0, <2>1 DEF Request, Restarts
    <2> HIDE DEF Off
    <2> QED
      BY <2>2, <2>3
  <1>8. CASE SweepReport(w)
    <2>1. p.ret \in {<<>>, <<"sweep">>}
      BY <1>2, <1>8 DEF SweepReport, At
    <2>2. \E T, i, n : Set(w, [p EXCEPT !.pc = "stamp", !.todo = T, !.inst = i, !.node = n])
      BY <1>8 DEF SweepReport
    <2>3. \A T, i, n : Off([p EXCEPT !.pc = "stamp", !.todo = T, !.inst = i, !.node = n])
      BY <1>0, <2>1 DEF Request, Restarts
    <2> HIDE DEF Off
    <2> QED
      BY <2>2, <2>3
  <1>9. CASE StepRequest(w)
    <2>1. ASSUME NEW s, NEW v, DecideStep(w, s, v) PROVE \E r : Set(w, r) /\ Off(r)
      <3>1. Off([Idle EXCEPT !.pc = IF v = "APPROVE" THEN "authorise" ELSE "record",
                             !.inst = steps[s].inst, !.node = steps[s].node,
                             !.step = s, !.vote = v])
        BY DEF Idle, Restarts
      <3> HIDE DEF Off
      <3> QED
        BY <2>1, <3>1 DEF DecideStep
    <2>2. ASSUME NEW s, NEW u, DelegateStep(w, s, u) PROVE \E r : Set(w, r) /\ Off(r)
      <3>1. Off([Idle EXCEPT !.pc = "handoff", !.inst = steps[s].inst,
                             !.node = steps[s].node, !.step = s, !.to = u])
        BY DEF Idle, Restarts
      <3> HIDE DEF Off
      <3> QED
        BY <2>2, <3>1 DEF DelegateStep
    <2> QED
      BY <1>9, <2>1, <2>2 DEF StepRequest
  <1>10. CASE EscalateOverdue(w)
    <2>1. \A T : Off([Idle EXCEPT !.pc = "sweep", !.todo = T])
      BY DEF Idle, Restarts
    <2> HIDE DEF Off
    <2> QED
      BY <1>10, <2>1 DEF EscalateOverdue
  <1> QED
    BY <1>3, <1>4, <1>5, <1>6, <1>7, <1>8, <1>9, <1>10

LEMMA RepairsRequest ==
  ASSUME Typed, NEW w \in Worker, RequestStart(w) \/ RestartInstance(w)
  PROVE  Repairs(proc'[w], ActiveIds', steps')
  <1>1. \/ proc'[w].ret = <<>> /\ proc'[w].pc = "start"
        \/ proc'[w].ret = <<"start", "link">> /\ proc'[w].pc = "recall"
    BY DEF RequestStart, RestartInstance, Set, Idle, Typed
  <1> DEFINE q == proc'[w]
  <1> SUFFICES Repairs(q, ActiveIds', steps')
    OBVIOUS
  <1>2. CASE q.ret = <<>> /\ q.pc = "start"
    <2> HIDE DEF q
    <2> QED
      BY <1>2, RepairsOff DEF Restarts
  <1>3. CASE q.ret = <<"start", "link">> /\ q.pc = "recall"
    <2> HIDE DEF q
    <2>1. q.ret # <<"link">>
      BY <1>3
    <2> QED
      BY <1>3, <2>1 DEF Repairs, Restarts
  <1> QED
    BY <1>1, <1>2, <1>3

EngineSound == Typed /\ OneActivePerInvoice /\ InRepair

LEMMA RepairsInit == Init => EngineSound
  <1> SUFFICES ASSUME Init PROVE EngineSound
    OBVIOUS
  <1>1. OneActivePerInvoice
    BY DEF Init, OneActivePerInvoice, ActiveIds
  <1>2. ASSUME NEW w \in Worker PROVE Repairs(proc[w], ActiveIds, steps)
    <2>1. proc[w].ret = <<>> /\ proc[w].pc = "idle"
      BY DEF Init, Idle
    <2> QED
      BY <2>1, RepairsOff DEF Restarts
  <1> QED
    BY <1>1, <1>2, TypedInit DEF EngineSound, InRepair

LEMMA RepairsNext ==
  ASSUME OneAtATime, EngineSound, [Next \/ Crash]_vars
  PROVE  EngineSound'
  <1> USE DEF EngineSound
  <1>1. PICK w \in Worker : Worker = {w}
    BY DEF OneAtATime
  <1>2. ASSUME NEW v \in Worker, Statement(v) PROVE EngineSound'
    <2>1. v = w /\ Repairs(proc[w], ActiveIds, steps)
      BY <1>1 DEF InRepair
    <2>2. Repairs(proc'[w], ActiveIds', steps')
      BY <1>2, <2>1, RepairsRecall, RepairsAdvance, RepairsOther DEF Statement, Proceed
    <2> QED
      BY <1>1, <1>2, <2>2, TypedStatement, OneActiveStatement DEF InRepair
  <1>3. ASSUME NEW v \in Worker, RequestStart(v) \/ RestartInstance(v) PROVE EngineSound'
    <2>1. UNCHANGED instances
      BY <1>3 DEF RequestStart, RestartInstance, tables
    <2>2. OneActivePerInvoice'
      BY <2>1 DEF OneActivePerInvoice, ActiveIds
    <2> QED
      BY <1>1, <1>3, <2>2, RepairsRequest, TypedRequest DEF InRepair
  <1>4. CASE Crash
    <2>1. UNCHANGED <<instances, steps, overdue, audit, breaches>>
      BY <1>4 DEF Crash, tables, logs
    <2>2. /\ proc' \in [Worker -> Request]
          /\ \A v \in Worker : proc'[v] = Idle
      BY <1>4, IdleRequest DEF Crash
    <2>3. Len(instances) \in Nat /\ Len(steps) \in Nat
      BY Sizes
    <2>4. \A v \in Worker : RequestOK(proc'[v], Len(instances'), Len(steps'))
      BY <2>1, <2>2, <2>3, IdleOK
    <2>5. Typed'
      BY <2>1, <2>2, <2>4 DEF Typed, StepsOK
    <2>6. OneActivePerInvoice'
      BY <2>1 DEF OneActivePerInvoice, ActiveIds
    <2>7. ASSUME NEW v \in Worker PROVE Repairs(proc'[v], ActiveIds', steps')
      <3>1. proc'[v].ret = <<>> /\ proc'[v].pc = "idle"
        BY <2>2 DEF Idle
      <3> QED
        BY <3>1, RepairsOff DEF Restarts
    <2> QED
      BY <2>5, <2>6, <2>7 DEF InRepair
  <1>5. CASE DeadlinePasses \/ UNCHANGED vars
    <2>1. UNCHANGED <<instances, steps, proc>>
      BY <1>5 DEF DeadlinePasses, tables, vars
    <2>2. Typed'
      BY <1>5, TypedStep DEF Next
    <2> QED
      BY <2>1, <2>2 DEF OneActivePerInvoice, ActiveIds, InRepair, Repairs, Open
  <1> QED
    BY <1>2, <1>3, <1>4, <1>5 DEF Next, Statement

\* Whatever statements a crash came between: a restart that gets to its end leaves a
\* live instance with a question open, or none.
THEOREM SpecRestartRepairs == ASSUME OneAtATime PROVE CrashSpec => RestartRepairs
  <1>1. EngineSound => \A w \in Worker : LinkSuccessor(w) =>
          \A i \in ActiveIds : \E s \in DOMAIN steps :
            steps[s].inst = i /\ steps[s].status = "PENDING"
    BY DEF EngineSound, InRepair, Repairs, LinkSuccessor, At, Open
  <1>2. EngineSound /\ [Next \/ Crash]_vars => EngineSound'
    BY RepairsNext
  <1> QED
    BY <1>1, <1>2, RepairsInit, PTL DEF CrashSpec, RestartRepairs
=============================================================================
