--------------------------- MODULE LifecycleProofs ---------------------------
(***************************************************************************)
(* Proofs about an invoice on its way to the ERP, for any number of        *)
(* requests in flight, any graphs, checks and corrections.                 *)
(*                                                                         *)
(* The engine's invariants Typed, OneActivePerInvoice and Backed carry     *)
(* over: the statements of the engine are the same actions, so their       *)
(* lemmas are cited, and a handler of InvoiceLifecycle touches no row of   *)
(* the engine and works on no node (HandlerMoves).  Paid follows the yes   *)
(* from there to the invoice's status.                                     *)
(*                                                                         *)
(* The last part is about requests that do not overlap, as those of one    *)
(* clerk at one invoice: InStep says what the one request at work knows of *)
(* the invoice at every statement, and between requests it is what the     *)
(* promises of InvoiceProperties about one worker say.                     *)
(***************************************************************************)
EXTENDS InvoiceProperties, ApprovalAskedProofs

-----------------------------------------------------------------------------
(* What a handler does to the engine's state.                              *)

\* The request w goes to a position, in or out of a handler, that works on no node.
Lands(w) == \E q : /\ Set(w, q) /\ RequestOK(q, Len(instances), Len(steps))
                   /\ Away(q)

HandlerMoves(w) ==
  /\ Lands(w) /\ proc[w].pc \notin AtNode \cup {"supersede"}
  /\ UNCHANGED <<instances, steps, overdue, logs>>

LEMMA HandlerOff ==
  ASSUME NEW l \in HandlerLabel \cup {"idle", "start", "recall"}
  PROVE  /\ l \notin AtNode /\ l \notin AtStep /\ l \notin AtVote
         /\ l \in Label \cup HandlerLabel
         /\ l \notin {"settle", "handoff", "replace", "cancel", "supersede"}
  BY DEF HandlerLabel, AtNode, AtStep, AtVote, Label

LEMMA Returns == ASSUME Typed, NEW w \in Worker, Return(w) PROVE Lands(w)
  BY AfterOK, AfterAway DEF Typed, RequestOK, Return, Lands

LEMMA Fails == ASSUME Typed, NEW w \in Worker, Fail(w) PROVE Lands(w)
  BY Sizes, IdleOK, IdleRequest, AfterAway DEF Fail, Lands

\* From p to a label of a handler, or of the engine's entry points.
LEMMA GoesTo ==
  ASSUME NEW p, NEW ni \in Nat, NEW ns \in Nat, RequestOK(p, ni, ns),
         NEW l \in HandlerLabel \cup {"start", "recall"}
  PROVE  RequestOK([p EXCEPT !.pc = l], ni, ns) /\ Away([p EXCEPT !.pc = l])
  <1>1. RequestOK([p EXCEPT !.pc = l], ni, ns)
    BY HandlerOff, MoveOK
  <1>2. [p EXCEPT !.pc = l].pc = l
    BY DEF RequestOK, Request
  <1> QED
    BY <1>1, <1>2, HandlerOff DEF Away

LEMMA Goes ==
  ASSUME Typed, NEW w \in Worker, NEW l \in HandlerLabel \cup {"start", "recall"}, Goto(w, l)
  PROVE  Lands(w)
  BY Sizes, GoesTo DEF Typed, Goto, Lands

LEMMA Begins ==
  ASSUME Typed, NEW w \in Worker, NEW l \in HandlerLabel, Set(w, [Idle EXCEPT !.pc = l])
  PROVE  Lands(w)
  BY Sizes, IdleOK, GoesTo DEF Lands

LEMMA Recalls ==
  ASSUME Typed, NEW w \in Worker, Set(w, [proc[w] EXCEPT !.pc = "recall", !.ret = <<"clear">>])
  PROVE  Lands(w)
  <1> DEFINE p == proc[w]  q == [p EXCEPT !.pc = "recall", !.ret = <<"clear">>]
             ni == Len(instances)  ns == Len(steps)
  <1>1. RequestOK(p, ni, ns) /\ p \in Request
    BY DEF Typed, RequestOK
  <1>2. <<"clear">> \in Seq(Resumed)
    BY DEF Resumed
  <1>3. q \in Request
    BY <1>1, <1>2 DEF Request, Label
  <1>4. q.pc = "recall" /\ q.old = p.old /\ q.todo = p.todo
    BY <1>1 DEF Request
  <1> HIDE DEF q
  <1>5. RequestOK(q, ni, ns)
    BY <1>1, <1>3, <1>4, HandlerOff DEF RequestOK
  <1>6. Away(q)
    BY <1>4, HandlerOff DEF Away
  <1> QED
    BY <1>5, <1>6 DEF Lands, q

LEMMA IngestMoves ==
  ASSUME Typed, NEW w \in Worker, ExtractionFails(w) \/ Extracted(w) \/ InsertLines(w)
  PROVE  HandlerMoves(w)
  <1>1. proc[w].pc \in HandlerLabel /\ UNCHANGED <<instances, steps, overdue, logs>>
    BY DEF ExtractionFails, Extracted, InsertLines, EngineRest, At, HandlerLabel
  <1>2. Lands(w)
    BY Returns, Goes DEF ExtractionFails, Extracted, InsertLines, HandlerLabel
  <1> QED
    BY <1>1, <1>2, HandlerOff DEF HandlerMoves

LEMMA ValidationMoves ==
  ASSUME Typed, NEW w \in Worker,
         ValidateRead(w) \/ CheckFigures(w) \/ WriteMatch(w) \/ RaiseException(w)
         \/ RouteInvoice(w)
  PROVE  HandlerMoves(w)
  <1>1. proc[w].pc \in HandlerLabel /\ UNCHANGED <<instances, steps, overdue, logs>>
    BY DEF ValidateRead, CheckFigures, WriteMatch, RaiseException, RouteInvoice, EngineRest,
           At, HandlerLabel
  <1>2. Lands(w)
    BY Returns, Goes
    DEF ValidateRead, CheckFigures, WriteMatch, RaiseException, RouteInvoice, HandlerLabel
  <1> QED
    BY <1>1, <1>2, HandlerOff DEF HandlerMoves

LEMMA RevalidationMoves ==
  ASSUME Typed, NEW w \in Worker,
         RevalidateRead(w) \/ RevalidateSkip(w) \/ RevalidateProceed(w)
         \/ ClearMatchState(w) \/ ResolveExceptions(w)
  PROVE  HandlerMoves(w)
  <1>1. proc[w].pc \in HandlerLabel /\ UNCHANGED <<instances, steps, overdue, logs>>
    BY DEF RevalidateRead, RevalidateSkip, RevalidateProceed, ClearMatchState,
           ResolveExceptions, EngineRest, At, HandlerLabel
  <1>2. Lands(w)
    BY Returns, Goes, Recalls
    DEF RevalidateRead, RevalidateSkip, RevalidateProceed, ClearMatchState,
        ResolveExceptions, HandlerLabel
  <1> QED
    BY <1>1, <1>2, HandlerOff DEF HandlerMoves

LEMMA OtherMoves ==
  ASSUME Typed, NEW w \in Worker,
         GuardRole(w) \/ ApplyCorrection(w) \/ Rematch(w) \/ WriteCode(w)
         \/ UncodedLineCount(w) \/ WritePosted(w)
  PROVE  HandlerMoves(w)
  <1>1. proc[w].pc \in HandlerLabel /\ UNCHANGED <<instances, steps, overdue, logs>>
    BY DEF GuardRole, ApplyCorrection, Rematch, WriteCode, UncodedLineCount, WritePosted,
           EngineRest, At, HandlerLabel
  <1>2. Lands(w)
    BY Returns, Fails, Goes
    DEF GuardRole, ApplyCorrection, Rematch, WriteCode, UncodedLineCount, WritePosted,
        HandlerLabel
  <1> QED
    BY <1>1, <1>2, HandlerOff DEF HandlerMoves

LEMMA RequestMoves ==
  ASSUME Typed, NEW w \in Worker, HandlerRequest(w)
  PROVE  HandlerMoves(w)
  <1>1. proc[w].pc = "idle" /\ UNCHANGED <<instances, steps, overdue, logs>>
    BY DEF HandlerRequest, RequestRevalidation, CorrectField, SyncOrder, CodeLine, Post,
           EngineRest, At
  <1>2. \E l \in HandlerLabel : Set(w, [Idle EXCEPT !.pc = l])
    BY DEF HandlerRequest, RequestRevalidation, CorrectField, SyncOrder, CodeLine, Post,
           HandlerLabel
  <1> QED
    BY <1>1, <1>2, Begins, HandlerOff DEF HandlerMoves

LEMMA HandlerMove ==
  ASSUME Typed, NEW w \in Worker, HandlerStep(w) \/ HandlerRequest(w)
  PROVE  HandlerMoves(w)
  BY IngestMoves, ValidationMoves, RevalidationMoves, OtherMoves, RequestMoves DEF HandlerStep

-----------------------------------------------------------------------------
(* The engine's invariants under the lifecycle's handlers.                 *)

LEMMA HandlerTyped == ASSUME Typed, NEW w \in Worker, HandlerMoves(w) PROVE Typed'
  <1>1. PICK q : Set(w, q) /\ RequestOK(q, Len(instances), Len(steps))
    BY DEF HandlerMoves, Lands
  <1>2. /\ UNCHANGED <<instances, steps, overdue, audit, breaches>>
        /\ Len(instances) \in Nat /\ Len(steps) \in Nat
    BY Sizes DEF HandlerMoves, logs
  <1>3. /\ instances' \in Seq(Instance) /\ steps' \in Seq(Step)
        /\ \A s \in DOMAIN steps' : steps'[s].inst \in 1..Len(instances')
        /\ overdue' \subseteq Nat /\ audit' \subseteq Nat \X Vote
        /\ breaches' \in [1..MaxInstances -> [Node -> Nat]]
    BY <1>2 DEF Typed, StepsOK
  <1> QED
    BY <1>1, <1>2, <1>3, Assemble

LEMMA HandlerFrame == ASSUME Typed, NEW w \in Worker, HandlerMoves(w) PROVE Frame
  <1>1. PICK q : Set(w, q)
    BY DEF HandlerMoves, Lands
  <1>2. UNCHANGED <<instances, steps, audit>> /\ proc[w].pc # "log"
    BY DEF HandlerMoves, logs, AtNode
  <1> QED
    BY <1>1, <1>2, FrameOfRequest

LEMMA HandlerBacked ==
  ASSUME Typed, Backed, NEW w \in Worker, HandlerMoves(w) PROVE Backed'
  <1>1. PICK q : Set(w, q) /\ q.pc \notin AtNode
    BY DEF HandlerMoves, Lands, Away
  <1>2. UNCHANGED <<instances, steps>>
    BY DEF HandlerMoves
  <1> QED
    BY <1>1, <1>2, HandlerFrame, BackedOff, BackedRequest

\* A step of the lifecycle, seen from the engine.
LEMMA LifecycleStep ==
  ASSUME Typed, [LifecycleNext]_lvars
  PROVE  \/ UNCHANGED vars
         \/ \E w \in Worker : Statement(w)
         \/ \E w \in Worker : HandlerMoves(w)
         \/ DeadlinePasses
  BY HandlerMove DEF LifecycleNext, EngineStep, Statement, lvars

EngineInv == Typed /\ OneActivePerInvoice /\ Backed

LEMMA EngineInvInit == LifecycleInit => EngineInv
  <1> SUFFICES ASSUME LifecycleInit PROVE EngineInv
    OBVIOUS
  <1>1. /\ instances = <<>> /\ steps = <<>> /\ overdue = {} /\ audit = {}
        /\ Len(instances) = 0 /\ Len(steps) = 0
        /\ instances \in Seq(Instance) /\ steps \in Seq(Step)
        /\ breaches = [i \in 1..MaxInstances |-> [n \in Node |-> 0]]
    BY DEF LifecycleInit
  <1> DEFINE busy == [Idle EXCEPT !.pc = "extract"]
  <1>2. PICK w \in Worker : proc = [v \in Worker |-> IF v = w THEN busy ELSE Idle]
    BY DEF LifecycleInit
  <1>3. RequestOK(busy, 0, 0) /\ busy.pc \notin AtNode
    BY IdleOK, GoesTo DEF HandlerLabel, Away
  <1> HIDE DEF busy
  <1>4. \A v \in Worker : RequestOK(proc[v], 0, 0) /\ proc[v].pc \notin AtNode
    BY <1>2, <1>3, IdleOK, IdleOff
  <1>5. proc \in [Worker -> Request]
    BY <1>2, <1>3, IdleRequest DEF RequestOK
  <1>6. Typed
    BY <1>1, <1>4, <1>5 DEF Typed, StepsOK
  <1>7. \A v \in Worker : BackedBy(instances, OnRecordIds, proc[v])
    BY <1>4, BackedOff
  <1>8. Backed
    BY <1>1, <1>7 DEF Backed
  <1> QED
    BY <1>1, <1>6, <1>8 DEF EngineInv, OneActivePerInvoice, ActiveIds

LEMMA EngineInvStep == ASSUME EngineInv, [LifecycleNext]_lvars PROVE EngineInv'
  <1> USE DEF EngineInv
  <1>1. CASE UNCHANGED vars
    BY <1>1, BackedRest DEF vars, Typed, StepsOK, OneActivePerInvoice, ActiveIds
  <1>2. ASSUME NEW w \in Worker, Statement(w) PROVE EngineInv'
    BY <1>2, TypedStatement, OneActiveStatement, BackedStatement
  <1>3. ASSUME NEW w \in Worker, HandlerMoves(w) PROVE EngineInv'
    <2>1. UNCHANGED instances
      BY <1>3 DEF HandlerMoves
    <2>2. OneActivePerInvoice'
      BY <2>1 DEF OneActivePerInvoice, ActiveIds
    <2> QED
      BY <1>3, <2>2, HandlerTyped, HandlerBacked
  <1>4. CASE DeadlinePasses
    <2>1. OneActivePerInvoice'
      BY <1>4 DEF DeadlinePasses, tables, OneActivePerInvoice, ActiveIds
    <2>2. Backed'
      BY <1>4, BackedRest DEF DeadlinePasses, tables, logs
    <2> QED
      BY <1>4, <2>1, <2>2, TypedClock
  <1> QED
    BY <1>1, <1>2, <1>3, <1>4, LifecycleStep

THEOREM LifecycleKeepsEngine == LifecycleSpec => []EngineInv
  BY EngineInvInit, EngineInvStep, PTL DEF LifecycleSpec

\* However decisions, recalls, corrections, re-validations and postings interleave, at
\* most one approval instance of the invoice is live.
THEOREM LifecycleOneActive == LifecycleSpec => []OneActivePerInvoice
  BY LifecycleKeepsEngine, PTL DEF EngineInv

\* Nothing a handler does takes a question out of an inbox.
LEMMA HandlerAsked == ASSUME Typed, Asked, NEW w \in Worker, HandlerMoves(w) PROVE Asked'
  <1>1. PICK q : Set(w, q) /\ q.pc \notin AtNode
    BY DEF HandlerMoves, Lands, Away
  <1>2. UNCHANGED <<instances, steps>> /\ proc[w].pc \notin AtNode \cup {"supersede"}
    BY DEF HandlerMoves
  <1>3. \A i : ~Carries(steps, proc[w], i)
    BY <1>2 DEF Carries, AtNode
  <1> QED
    BY <1>1, <1>2, <1>3, HandlerFrame, FitsOff, AskedStill

LEMMA LifecycleAskedInit == LifecycleInit => Asked
  <1> SUFFICES ASSUME LifecycleInit PROVE Asked
    OBVIOUS
  <1>1. \A v \in Worker : proc[v].pc \notin AtNode
    <2>1. [Idle EXCEPT !.pc = "extract"].pc \notin AtNode
      BY DEF Idle, AtNode
    <2> QED
      BY <2>1, IdleOff DEF LifecycleInit
  <1>2. ActiveIds = {}
    BY DEF LifecycleInit, ActiveIds
  <1> QED
    BY <1>1, <1>2, FitsOff DEF Asked

LEMMA LifecycleAskedStep ==
  ASSUME Staffed, Typed, Asked, [LifecycleNext]_lvars PROVE Asked'
  <1>1. CASE UNCHANGED vars
    BY <1>1, AskedRest DEF vars
  <1>2. CASE DeadlinePasses
    BY <1>2, AskedRest DEF DeadlinePasses, tables
  <1> QED
    BY <1>1, <1>2, LifecycleStep, AskedStatement, HandlerAsked

\* Corrections, re-validations and recalls of the invoice do not leave it waiting for
\* nobody either: between requests a live instance is in somebody's inbox.
THEOREM LifecycleSomeoneToAsk == ASSUME Staffed PROVE LifecycleSpec => []SomeoneToAsk
  <1>1. Typed /\ Asked => SomeoneToAsk
    BY AskedMeans
  <1>2. Typed /\ Asked /\ [LifecycleNext]_lvars => Asked'
    BY LifecycleAskedStep
  <1> QED
    BY <1>1, <1>2, LifecycleAskedInit, LifecycleKeepsEngine, PTL DEF LifecycleSpec, EngineInv

-----------------------------------------------------------------------------
(* The shape of the lifecycle's own rows and locals.                       *)

Shaped ==
  /\ invoice \in Invoice
  /\ open \subseteq Exception /\ order \in Order /\ lines \in Lines
  /\ skipped \subseteq Figures /\ unsure \subseteq Field \cup {"line"}
  /\ posts \in Nat /\ edits \in 0..MaxEdits
  /\ job \in [Worker -> Job]

LEMMA NoJobType == NoJob \in Job
  BY CheckAssumption DEF NoJob, Job

LEMMA JobType == ASSUME Shaped, NEW w \in Worker PROVE job[w] \in Job
  BY DEF Shaped

LEMMA HoldOK == ASSUME Shaped, NEW w \in Worker, NEW j \in Job, Hold(w, j)
                PROVE  job' \in [Worker -> Job]
  BY DEF Shaped, Hold

LEMMA DropOK == ASSUME Shaped, NEW w \in Worker, Drop(w) PROVE job' \in [Worker -> Job]
  BY NoJobType, JobType, HoldOK DEF Drop

\* The UPDATEs of the invoice: its status, and the stored match.
LEMMA StatusOK ==
  ASSUME invoice \in Invoice, NEW x \in InvoiceStatus
  PROVE  [invoice EXCEPT !.status = x] \in Invoice /\ [invoice EXCEPT !.status = x].status = x
  BY DEF Invoice

LEMMA MatchOK ==
  ASSUME invoice \in Invoice, NEW m \in Figures \cup {NoMatch}
  PROVE  /\ [invoice EXCEPT !.match = m] \in Invoice
         /\ [invoice EXCEPT !.match = m].status = invoice.status
  BY DEF Invoice

LEMMA ShapedIngest ==
  ASSUME Shaped, NEW w \in Worker, ExtractionFails(w) \/ Extracted(w) \/ InsertLines(w)
  PROVE  Shaped'
  <1>1. CASE ExtractionFails(w)
    BY <1>1, StatusOK, DropOK DEF ExtractionFails, Shaped, records, InvoiceStatus
  <1>2. CASE Extracted(w)
    <2>1. PICK f \in Figures \ {Blank}, a \in Amount, low \in SUBSET Field, shaky \in BOOLEAN :
            LET next == IF low # {} \/ shaky THEN "NEEDS_REVIEW" ELSE "VALIDATING"
            IN  /\ invoice' = [status |-> next, amount |-> a, figures |-> f,
                               match |-> NoMatch, low |-> low \cap Scored]
                /\ unsure' = low \cup (IF shaky THEN {"line"} ELSE {})
                /\ Hold(w, [NoJob EXCEPT !.status = next])
      BY <1>2 DEF Extracted
    <2> DEFINE next == IF low # {} \/ shaky THEN "NEEDS_REVIEW" ELSE "VALIDATING"
    <2>2. next \in InvoiceStatus
      BY DEF InvoiceStatus
    <2>3. Hold(w, [NoJob EXCEPT !.status = next])
      BY <2>1
    <2>4. invoice' = [status |-> next, amount |-> a, figures |-> f,
                      match |-> NoMatch, low |-> low \cap Scored]
      BY <2>1
    <2> HIDE DEF next
    <2>5. [NoJob EXCEPT !.status = next] \in Job
      BY <2>2, NoJobType DEF Job
    <2>6. job' \in [Worker -> Job]
      BY <2>3, <2>5, HoldOK
    <2>7. invoice' \in Invoice
      BY <2>2, <2>4 DEF Invoice
    <2>8. unsure' \subseteq Field \cup {"line"}
      BY <2>1
    <2> QED
      BY <1>2, <2>6, <2>7, <2>8 DEF Extracted, Shaped
  <1>3. CASE InsertLines(w)
    <2>1. lines' \in Lines
      BY <1>3 DEF InsertLines, Lines
    <2> QED
      BY <1>3, <2>1, DropOK DEF InsertLines, Shaped
  <1> QED
    BY <1>1, <1>2, <1>3

\* The rows a verdict may raise, and a hard stop's among them.
LEMMA RaisedRows ==
  ASSUME NEW v \in Verdicts \cup {"none"}, NEW rows \in Raises(v)  PROVE rows \subseteq Exception
  <1>1. CASE v = "BLOCKED"
    BY <1>1 DEF Raises, Blocking, Exception, Hard
  <1>2. CASE v \in {"CLEAN", "NO_PO", "none"}
    BY <1>2 DEF Raises, Exception, Hard
  <1>3. CASE v \in {"DUPLICATE_INVOICE", "MISSING_PO", "PO_MISMATCH"}
    BY <1>3 DEF Raises, Exception, Hard
  <1> QED
    BY <1>1, <1>2, <1>3 DEF Verdicts

LEMMA StopsRaise ==
  ASSUME NEW v \in Stops, NEW rows \in Raises(v)  PROVE rows \cap Hard # {}
  <1>1. CASE v = "BLOCKED"
    <2>1. rows \cap Blocking # {}
      BY <1>1 DEF Raises, Exception, Hard
    <2> QED
      BY <2>1 DEF Blocking, Hard
  <1>2. CASE v \in {"DUPLICATE_INVOICE", "MISSING_PO"}
    BY <1>2 DEF Raises, Exception, Hard
  <1> QED
    BY <1>1, <1>2 DEF Stops

LEMMA ShapedValidation ==
  ASSUME Shaped, NEW w \in Worker,
         ValidateRead(w) \/ CheckFigures(w) \/ WriteMatch(w) \/ RaiseException(w)
         \/ RouteInvoice(w)
  PROVE  Shaped'
  <1> DEFINE j == job[w]
  <1>0. j \in Job
    BY JobType
  <1>1. CASE ValidateRead(w)
    <2>1. [j EXCEPT !.figures = invoice.figures] \in Job
      BY <1>0 DEF Shaped, Invoice, Job
    <2>2. job' \in [Worker -> Job]
      BY <1>1, <2>1, HoldOK DEF ValidateRead
    <2> QED
      BY <1>1, <2>2 DEF ValidateRead, Shaped, records
  <1>2. CASE CheckFigures(w)
    <2>1. Check[j.figures][order] \in Verdicts
      BY <1>0, CheckAssumption DEF Shaped, Job
    <2>2. [j EXCEPT !.result = Check[j.figures][order]] \in Job
      BY <1>0, <2>1 DEF Job
    <2>3. job' \in [Worker -> Job]
      BY <1>2, <2>2, HoldOK DEF CheckFigures
    <2> QED
      BY <1>2, <2>3 DEF CheckFigures, Shaped, records
  <1>3. CASE WriteMatch(w)
    <2>1. j.figures \in Figures
      BY <1>0 DEF Job
    <2>2. invoice' \in Invoice
      BY <1>3, <2>1, MatchOK DEF WriteMatch, Shaped
    <2> QED
      BY <1>3, <2>2 DEF WriteMatch, Shaped, records
  <1>4. CASE RaiseException(w)
    <2>1. j.result \in Verdicts \cup {"none"}
      BY <1>0 DEF Job
    <2>2. open' \subseteq Exception
      BY <1>4, <2>1, RaisedRows DEF RaiseException, Shaped
    <2> QED
      BY <1>4, <2>2 DEF RaiseException, Shaped
  <1>5. CASE RouteInvoice(w)
    <2>1. invoice' \in Invoice
      BY <1>5, StatusOK DEF RouteInvoice, Shaped, InvoiceStatus
    <2>2. job' \in [Worker -> Job]
      BY <1>5, NoJobType, HoldOK DEF RouteInvoice
    <2> QED
      BY <1>5, <2>1, <2>2 DEF RouteInvoice, Shaped, records
  <1> QED
    BY <1>1, <1>2, <1>3, <1>4, <1>5

LEMMA ShapedRevalidation ==
  ASSUME Shaped, NEW w \in Worker,
         RevalidateRead(w) \/ RevalidateSkip(w) \/ RevalidateProceed(w)
         \/ ClearMatchState(w) \/ ResolveExceptions(w)
  PROVE  Shaped'
  <1>1. CASE RevalidateRead(w)
    <2>1. [job[w] EXCEPT !.status = invoice.status, !.low = invoice.low] \in Job
      BY JobType DEF Shaped, Invoice, Job
    <2>2. job' \in [Worker -> Job]
      BY <1>1, <2>1, HoldOK DEF RevalidateRead
    <2> QED
      BY <1>1, <2>2 DEF RevalidateRead, Shaped, records
  <1>2. CASE RevalidateSkip(w)
    <2>1. skipped' \subseteq Figures
      BY <1>2 DEF RevalidateSkip, Shaped, Invoice
    <2> QED
      BY <1>2, <2>1, DropOK DEF RevalidateSkip, Shaped
  <1>3. CASE RevalidateProceed(w)
    BY <1>3 DEF RevalidateProceed, Shaped, records
  <1>4. CASE ClearMatchState(w)
    <2>1. invoice' \in Invoice
      BY <1>4, MatchOK DEF ClearMatchState, Shaped
    <2> QED
      BY <1>4, <2>1 DEF ClearMatchState, Shaped, records
  <1>5. CASE ResolveExceptions(w)
    BY <1>5 DEF ResolveExceptions, Shaped
  <1> QED
    BY <1>1, <1>2, <1>3, <1>4, <1>5

\* The row a correction writes, whatever the values it gives the columns.
LEMMA CorrectionWrites ==
  ASSUME Shaped, NEW w \in Worker, ApplyCorrection(w)
  PROVE  invoice' \in Invoice /\ invoice'.status = invoice.status
  <1> DEFINE low == job[w].low \ {job[w].field}
  <1>1. PICK f \in Figures, a \in Amount \cup {0} :
          invoice' = [invoice EXCEPT !.figures = f, !.amount = a, !.low = low]
    BY DEF ApplyCorrection, Shaped, Invoice
  <1>2. low \subseteq Scored
    BY JobType DEF Job
  <1> HIDE DEF low
  <1> QED
    BY <1>1, <1>2 DEF Shaped, Invoice

LEMMA ShapedOther ==
  ASSUME Shaped, NEW w \in Worker,
         GuardRole(w) \/ ApplyCorrection(w) \/ Rematch(w) \/ WriteCode(w)
         \/ UncodedLineCount(w) \/ WritePosted(w)
  PROVE  Shaped'
  <1>1. CASE GuardRole(w)
    BY <1>1, DropOK DEF GuardRole, Shaped, records
  <1>2. CASE ApplyCorrection(w)
    <2>1. unsure' \subseteq Field \cup {"line"}
      BY <1>2 DEF ApplyCorrection, Shaped
    <2> QED
      BY <1>2, <2>1, CorrectionWrites, DropOK DEF ApplyCorrection, Shaped
  <1>3. CASE Rematch(w) \/ UncodedLineCount(w)
    BY <1>3 DEF Rematch, UncodedLineCount, Shaped, records
  <1>4. CASE WriteCode(w)
    <2>1. lines' \in Lines
      BY <1>4 DEF WriteCode, Shaped, Lines
    <2> QED
      BY <1>4, <2>1 DEF WriteCode, Shaped
  <1>5. CASE WritePosted(w)
    BY <1>5, StatusOK DEF WritePosted, Shaped, InvoiceStatus
  <1> QED
    BY <1>1, <1>2, <1>3, <1>4, <1>5

LEMMA ShapedRequest ==
  ASSUME Shaped, NEW w \in Worker, HandlerRequest(w) PROVE Shaped'
  <1>1. Within => edits' \in 0..MaxEdits
    BY EditAssumption DEF Within, Shaped
  <1>2. CASE RequestRevalidation(w)
    <2>1. [NoJob EXCEPT !.forced = TRUE] \in Job
      BY NoJobType DEF Job
    <2>2. job' \in [Worker -> Job]
      BY <1>2, <2>1, HoldOK DEF RequestRevalidation
    <2> QED
      BY <1>1, <1>2, <2>2 DEF RequestRevalidation, Shaped, records
  <1>3. ASSUME NEW f \in Correctable, NEW clerk \in BOOLEAN, CorrectField(w, f, clerk)
        PROVE  Shaped'
    <2> DEFINE j == [NoJob EXCEPT !.status = invoice.status, !.low = invoice.low,
                                  !.field = f, !.clerk = clerk]
    <2>1. j \in Job
      BY NoJobType DEF Shaped, Invoice, Job
    <2>2. Hold(w, j)
      BY <1>3 DEF CorrectField
    <2> HIDE DEF j
    <2>3. job' \in [Worker -> Job]
      BY <2>1, <2>2, HoldOK
    <2> QED
      BY <1>1, <1>3, <2>3 DEF CorrectField, Shaped, records
  <1>4. CASE SyncOrder(w)
    BY <1>1, <1>4 DEF SyncOrder, Shaped
  <1>5. CASE CodeLine(w) \/ Post(w)
    BY <1>5 DEF CodeLine, Post, Shaped, records
  <1> QED
    BY <1>2, <1>3, <1>4, <1>5 DEF HandlerRequest

LEMMA ShapedEngine ==
  ASSUME Typed, Shaped, NEW w \in Worker, EngineStep(w) PROVE Shaped'
  <1>1. Statement(w) /\ Drop(w) /\ UNCHANGED <<open, order, lines, skipped, posts, unsure, edits>>
    BY DEF EngineStep, Statement, records
  <1>2. invoice' \in Invoice
    <2>1. CASE UNCHANGED invoice
      BY <2>1 DEF Shaped
    <2>2. CASE SettleInvoice(w)
      BY <2>2, OutcomeOK, StatusOK DEF SettleInvoice, Shaped, InvoiceStatus
    <2> QED
      BY <1>1, <2>1, <2>2, StatementWrites
  <1> QED
    BY <1>1, <1>2, DropOK DEF Shaped

LEMMA ShapedStep == ASSUME Typed, Shaped, [LifecycleNext]_lvars PROVE Shaped'
  <1>1. CASE UNCHANGED lvars
    BY <1>1 DEF lvars, vars, records, Shaped
  <1>2. ASSUME NEW w \in Worker, HandlerStep(w) PROVE Shaped'
    BY <1>2, ShapedIngest, ShapedValidation, ShapedRevalidation, ShapedOther DEF HandlerStep
  <1>3. CASE DeadlinePasses /\ UNCHANGED <<records, edits, job>>
    BY <1>3 DEF DeadlinePasses, tables, records, Shaped
  <1> QED
    BY <1>1, <1>2, <1>3, ShapedEngine, ShapedRequest DEF LifecycleNext

THEOREM LifecycleShaped == LifecycleSpec => []Shaped
  <1>1. LifecycleInit => Shaped
    BY NoJobType, CheckAssumption, EditAssumption
    DEF LifecycleInit, Shaped, Invoice, InvoiceStatus, Lines
  <1>2. EngineInv /\ Shaped /\ [LifecycleNext]_lvars => Shaped'
    BY ShapedStep DEF EngineInv
  <1> QED
    BY <1>1, <1>2, LifecycleKeepsEngine, PTL DEF LifecycleSpec

\* However its handlers and the engine interleave, every row of the invoice's
\* lifecycle keeps its type, and no request holds an id that refers to no row.
THEOREM SpecLifecycleTypeOK == LifecycleSpec => []LifecycleTypeOK
  <1>1. EngineInv /\ Shaped => LifecycleTypeOK
    BY DEF EngineInv, Typed, StepsOK, Shaped, LifecycleTypeOK
  <1> QED
    BY <1>1, LifecycleKeepsEngine, LifecycleShaped, PTL

-----------------------------------------------------------------------------
(* An APPROVE on record behind every approved or posted invoice.           *)

\* Some step of the invoice was approved, and the audit trail shows it.
Yes == \E s \in DOMAIN steps : Recorded(s)

\* A request about to write APPROVED or POSTED on the invoice.
Settling(p) == p.pc = "settle" /\ p.outcome = "APPROVED"
Posting(p)  == p.pc \in {"uncoded", "post"}

\* Without a recorded yes the invoice is not approved, and nobody is about to say so.
Paid ==
  ~Yes => /\ invoice.status \notin {"APPROVED", "POSTED"}
          /\ \A w \in Worker : ~Settling(proc[w]) /\ ~Posting(proc[w])

LEMMA YesStays == ASSUME Frame, Yes PROVE Yes'
  <1>1. PICK s \in DOMAIN steps : Recorded(s)
    BY DEF Yes
  <1>2. s \in DOMAIN steps' /\ Recorded(s)'
    BY <1>1, RecordedStays DEF Frame
  <1> QED
    BY <1>2 DEF Yes

\* Where a finished call resumes, nothing is written on the invoice.
LEMMA AfterLabel == ASSUME NEW p \in Request PROVE ~Settling(After(p)) /\ ~Posting(After(p))
  <1>1. CASE p.ret = <<>>
    BY <1>1 DEF After, Idle, Settling, Posting
  <1>2. CASE p.ret # <<>>
    <2>1. Head(p.ret) \in Resumed
      BY <1>2 DEF Request
    <2>2. After(p).pc = Head(p.ret)
      BY <1>2 DEF After, Request
    <2> QED
      BY <2>1, <2>2 DEF Settling, Posting, Resumed
  <1> QED
    BY <1>1, <1>2

\* Every statement is of the request that executes it.
LEMMA StatementSets == ASSUME NEW w \in Worker, Statement(w) PROVE \E q : Set(w, q)
  BY DEF Statement, Proceed, StepRequest, StartInstance, AdvanceWalk, AdvanceCreateSteps,
         AdvanceThrows, Park, CompleteInstance, SettleInvoice, Authorise, RecordDecision,
         LogDecision, Tally, SkipSiblings, LeaveNode, MarkDelegated, InsertDelegate,
         RecallCheck, RecallFind, CancelSteps, Supersede, LinkSuccessor, SweepEnd, SweepSkip,
         SweepReport, SweepStamp, SweepRead, EscalateOverdue, DecideStep, DelegateStep,
         Goto, Return, Fail

\* Only completeInstance moves a request of the engine on to settle the invoice.
LEMMA EngineLabel ==
  ASSUME Typed, NEW w \in Worker, Statement(w), ~CompleteInstance(w)
  PROVE  ~Settling(proc'[w]) /\ ~Posting(proc'[w])
  <1> DEFINE p == proc[w]
  <1>0. p \in Request /\ w \in DOMAIN proc
    BY DEF Typed
  <1>1. ASSUME NEW q, q.pc \notin {"settle", "uncoded", "post"}, Set(w, q)
        PROVE  ~Settling(proc'[w]) /\ ~Posting(proc'[w])
    BY <1>0, <1>1 DEF Set, Settling, Posting
  <1>2. ASSUME NEW l, l \notin {"settle", "uncoded", "post"}, Goto(w, l)
        PROVE  ~Settling(proc'[w]) /\ ~Posting(proc'[w])
    <2>1. [p EXCEPT !.pc = l].pc = l
      BY <1>0 DEF Request
    <2> QED
      BY <1>1, <1>2, <2>1 DEF Goto
  <1>3. CASE Return(w)
    <2>1. proc'[w] = After(p)
      BY <1>0, <1>3 DEF Return, Set
    <2> QED
      BY <1>0, <2>1, AfterLabel
  <1>4. CASE Fail(w)
    BY <1>1, <1>4 DEF Fail, Idle
  <1>5. ASSUME NEW i, NEW n, Set(w, Advancing(p, i, n))
        PROVE  ~Settling(proc'[w]) /\ ~Posting(proc'[w])
    BY <1>1, <1>5, AdvancingFacts
  <1>6. ASSUME NEW o, NEW S, NEW r, NEW l, l \notin {"settle", "uncoded", "post"},
               \/ Set(w, [p EXCEPT !.outcome = o, !.seen = S, !.pc = l])
               \/ Set(w, [p EXCEPT !.seen = S, !.pc = l])
               \/ Set(w, [p EXCEPT !.outcome = o, !.seen = S, !.ret = r, !.pc = l])
        PROVE  ~Settling(proc'[w]) /\ ~Posting(proc'[w])
    <2>1. /\ [p EXCEPT !.outcome = o, !.seen = S, !.pc = l].pc = l
          /\ [p EXCEPT !.seen = S, !.pc = l].pc = l
          /\ [p EXCEPT !.outcome = o, !.seen = S, !.ret = r, !.pc = l].pc = l
      BY <1>0 DEF Request
    <2> QED
      BY <1>1, <1>6, <2>1
  <1>7. CASE StartInstance(w) \/ AdvanceThrows(w) \/ Park(w) \/ SettleInvoice(w) \/ LeaveNode(w)
    BY <1>3, <1>4, <1>5, <1>7
    DEF StartInstance, AdvanceThrows, Park, SettleInvoice, LeaveNode
  <1>8. CASE AdvanceWalk(w)
    <2>1. PICK n : Set(w, [p EXCEPT !.node = n]) /\ p.pc = "advance"
      BY <1>8 DEF AdvanceWalk, At
    <2>2. [p EXCEPT !.node = n].pc = "advance"
      BY <1>0, <2>1 DEF Request
    <2> QED
      BY <1>1, <2>1, <2>2
  <1>9. CASE \/ AdvanceCreateSteps(w) \/ Authorise(w) \/ RecordDecision(w) \/ LogDecision(w)
             \/ MarkDelegated(w) \/ InsertDelegate(w) \/ RecallCheck(w) \/ CancelSteps(w)
             \/ Supersede(w) \/ LinkSuccessor(w) \/ SweepEnd(w) \/ SweepStamp(w)
    BY <1>2, <1>3, <1>4, <1>9
    DEF AdvanceCreateSteps, Authorise, RecordDecision, LogDecision, MarkDelegated,
        InsertDelegate, RecallCheck, CancelSteps, Supersede, LinkSuccessor, SweepEnd, SweepStamp
  <1>10. CASE Tally(w) \/ SkipSiblings(w) \/ SweepRead(w)
    <2>1. \A g, n, outcome : AfterSkip(g, n, outcome) \in {"complete", "leave"}
      BY DEF AfterSkip
    <2>2. CASE Tally(w)
      <3>1. \/ Return(w)
            \/ \E o, S, l : /\ Set(w, [p EXCEPT !.outcome = o, !.seen = S, !.pc = l])
                           /\ l \in {"complete", "leave", "skip"}
        BY <2>1, <2>2 DEF Tally
      <3> QED
        BY <1>3, <1>6, <3>1
    <2>3. CASE SkipSiblings(w)
      <3>1. \E S, l : Set(w, [p EXCEPT !.seen = S, !.pc = l]) /\ l \in {"complete", "leave"}
        BY <2>1, <2>3 DEF SkipSiblings
      <3> QED
        BY <1>6, <3>1
    <2>4. CASE SweepRead(w)
      <3>1. \E o, S, r, l : /\ Set(w, [p EXCEPT !.outcome = o, !.seen = S, !.ret = r, !.pc = l])
                            /\ l \in {"leave", "skip"}
        BY <2>4 DEF SweepRead
      <3> QED
        BY <1>6, <3>1
    <2> QED
      BY <1>10, <2>2, <2>3, <2>4
  <1>11. CASE RecallFind(w)
    <2>1. ASSUME NEW i, Set(w, [p EXCEPT !.pc = "cancel", !.old = i])
          PROVE  ~Settling(proc'[w]) /\ ~Posting(proc'[w])
      <3>1. [p EXCEPT !.pc = "cancel", !.old = i].pc = "cancel"
        BY <1>0 DEF Request
      <3> QED
        BY <1>1, <2>1, <3>1
    <2> QED
      BY <1>3, <1>11, <2>1 DEF RecallFind
  <1>12. CASE SweepSkip(w)
    <2>1. PICK b : Set(w, [p EXCEPT !.todo = @ \ {b}]) /\ p.pc = "sweep"
      BY <1>12 DEF SweepSkip, At
    <2>2. [p EXCEPT !.todo = @ \ {b}].pc = "sweep"
      BY <1>0, <2>1 DEF Request
    <2> QED
      BY <1>1, <2>1, <2>2
  <1>13. CASE SweepReport(w)
    <2>1. PICK b : Set(w, [p EXCEPT !.pc = "stamp", !.todo = @ \ {b},
                                    !.inst = b[1], !.node = b[2]])
      BY <1>13 DEF SweepReport
    <2>2. [p EXCEPT !.pc = "stamp", !.todo = @ \ {b}, !.inst = b[1], !.node = b[2]].pc = "stamp"
      BY <1>0 DEF Request
    <2> QED
      BY <1>1, <2>1, <2>2
  <1>14. CASE EscalateOverdue(w)
    <2>1. PICK todo : Set(w, [Idle EXCEPT !.pc = "sweep", !.todo = todo])
      BY <1>14 DEF EscalateOverdue
    <2>2. [Idle EXCEPT !.pc = "sweep", !.todo = todo].pc = "sweep"
      BY DEF Idle
    <2> QED
      BY <1>1, <2>1, <2>2
  <1>15. ASSUME NEW s, NEW v, DecideStep(w, s, v)
         PROVE  ~Settling(proc'[w]) /\ ~Posting(proc'[w])
    <2> DEFINE l == IF v = "APPROVE" THEN "authorise" ELSE "record"
               q == [Idle EXCEPT !.pc = l, !.inst = steps[s].inst, !.node = steps[s].node,
                                 !.step = s, !.vote = v]
    <2>1. Set(w, q) /\ l \notin {"settle", "uncoded", "post"}
      BY <1>15 DEF DecideStep
    <2> HIDE DEF l
    <2>2. q.pc = l
      BY DEF Idle
    <2> HIDE DEF q
    <2> QED
      BY <1>1, <2>1, <2>2
  <1>16. ASSUME NEW s, NEW u, DelegateStep(w, s, u)
         PROVE  ~Settling(proc'[w]) /\ ~Posting(proc'[w])
    <2> DEFINE q == [Idle EXCEPT !.pc = "handoff", !.inst = steps[s].inst,
                                 !.node = steps[s].node, !.step = s, !.to = u]
    <2>1. Set(w, q) /\ q.pc = "handoff"
      BY <1>16 DEF DelegateStep, Idle
    <2> HIDE DEF q
    <2> QED
      BY <1>1, <2>1
  <1> QED
    BY <1>7, <1>8, <1>9, <1>10, <1>11, <1>12, <1>13, <1>14, <1>15, <1>16
    DEF Statement, Proceed, StepRequest

\* The outcome is APPROVED at an END node only, which no published graph reaches
\* without an approval on record.
LEMMA ApprovedOnYes ==
  ASSUME Typed, Backed, NEW w \in Worker, CompleteInstance(w), Settling(proc'[w]) PROVE Yes
  <1> DEFINE p == proc[w]
             x == IF At(w, "advance") /\ GraphOf(w).kind[p.node] = "END"
                  THEN "APPROVED" ELSE "REJECTED"
             d == InstanceOf(w).workflow
  <1>1. p \in Request /\ p.pc \in AtNode
    BY DEF CompleteInstance, At, AtNode, Typed
  <1>2. Set(w, [p EXCEPT !.pc = "settle", !.outcome = x])
    BY DEF CompleteInstance
  <1> HIDE DEF x
  <1>3. [p EXCEPT !.pc = "settle", !.outcome = x].outcome = x
    BY <1>1 DEF Request
  <1>4. proc'[w].outcome = x
    BY <1>2, <1>3 DEF Set, Typed
  <1>5. x = "APPROVED"
    BY <1>4 DEF Settling
  <1>6. GraphOf(w).kind[p.node] = "END"
    BY <1>5 DEF x
  <1>7. d \in Workflow /\ GraphOf(w) = Def[d] /\ d = instances[p.inst].workflow
    BY <1>1, AtNodeFacts DEF GraphOf, Instance, InstanceOf
  <1>8. Earned(instances, OnRecordIds, p.inst, p.node)
    BY <1>1 DEF Backed, BackedBy
  <1> HIDE DEF d
  <1>9. p.node \notin Unearned[d]
    BY <1>6, <1>7, ApprovalAssumption
  <1>10. p.inst \in OnRecordIds
    BY <1>7, <1>8, <1>9 DEF Earned
  <1> QED
    BY <1>10 DEF OnRecordIds, OnRecord, Yes

\* What a step of worker w must establish while no yes is on record.
LEMMA PaidOf ==
  ASSUME Typed, Paid, ~Yes, NEW w \in Worker, NEW q, Set(w, q),
         invoice'.status \notin {"APPROVED", "POSTED"},
         ~Settling(proc'[w]), ~Posting(proc'[w])
  PROVE  Paid'
  <1>1. \A v \in Worker : v # w => proc'[v] = proc[v]
    BY DEF Set, Typed
  <1>2. \A v \in Worker : ~Settling(proc'[v]) /\ ~Posting(proc'[v])
    BY <1>1 DEF Paid
  <1> QED
    BY <1>2 DEF Paid

LEMMA PaidEngine ==
  ASSUME Typed, Backed, Shaped, Paid, NEW w \in Worker, Statement(w) PROVE Paid'
  <1>1. CASE Yes
    BY <1>1, FrameStatement, YesStays DEF Paid
  <1>2. CASE ~Yes
    <2>1. invoice'.status \notin {"APPROVED", "POSTED"}
      <3>1. CASE SettleInvoice(w)
        <4>1. proc[w].outcome = "REJECTED"
          BY <1>2, <3>1, OutcomeOK DEF SettleInvoice, At, Paid, Settling
        <4> QED
          BY <3>1, <4>1, StatusOK DEF SettleInvoice, Shaped, InvoiceStatus
      <3> QED
        BY <1>2, <3>1, StatementWrites DEF Paid
    <2>2. ~Settling(proc'[w]) /\ ~Posting(proc'[w])
      <3>1. CASE CompleteInstance(w)
        <4>1. ~Settling(proc'[w])
          BY <1>2, <3>1, ApprovedOnYes
        <4>2. PICK x : Set(w, [proc[w] EXCEPT !.pc = "settle", !.outcome = x])
          BY <3>1 DEF CompleteInstance
        <4>3. [proc[w] EXCEPT !.pc = "settle", !.outcome = x].pc = "settle"
          BY DEF Typed, Request
        <4>4. proc'[w].pc = "settle"
          BY <4>2, <4>3 DEF Set, Typed
        <4> QED
          BY <4>1, <4>4 DEF Posting
      <3> QED
        BY <3>1, EngineLabel
    <2>3. \E q : Set(w, q)
      BY StatementSets
    <2> QED
      BY <1>2, <2>1, <2>2, <2>3, PaidOf
  <1> QED
    BY <1>1, <1>2

\* Where the handlers other than post's lead.
LEMMA NotPosting ==
  ASSUME Typed, NEW w \in Worker,
         \/ Return(w) \/ Fail(w)
         \/ \E l \in HandlerLabel \cup {"start"} : l \notin {"uncoded", "post"} /\ Goto(w, l)
         \/ \E l \in HandlerLabel : /\ l \notin {"uncoded", "post"}
                                    /\ Set(w, [Idle EXCEPT !.pc = l])
         \/ Set(w, [proc[w] EXCEPT !.pc = "recall", !.ret = <<"clear">>])
  PROVE  ~Posting(proc'[w])
  <1> DEFINE p == proc[w]
  <1>0. p \in Request /\ w \in DOMAIN proc
    BY DEF Typed
  <1>1. CASE Return(w)
    <2>1. proc'[w] = After(p)
      BY <1>0, <1>1 DEF Return, Set
    <2> QED
      BY <1>0, <2>1, AfterLabel
  <1>2. CASE Fail(w)
    BY <1>0, <1>2 DEF Fail, Set, Idle, Posting
  <1>3. ASSUME NEW l, l \notin {"uncoded", "post"},
               Goto(w, l) \/ Set(w, [Idle EXCEPT !.pc = l])
        PROVE  ~Posting(proc'[w])
    <2>1. [p EXCEPT !.pc = l].pc = l /\ [Idle EXCEPT !.pc = l].pc = l
      BY <1>0 DEF Request, Idle
    <2> QED
      BY <1>0, <1>3, <2>1 DEF Goto, Set, Posting
  <1>4. CASE Set(w, [p EXCEPT !.pc = "recall", !.ret = <<"clear">>])
    <2>1. [p EXCEPT !.pc = "recall", !.ret = <<"clear">>].pc = "recall"
      BY <1>0 DEF Request
    <2> QED
      BY <1>0, <1>4, <2>1 DEF Set, Posting
  <1> QED
    BY <1>1, <1>2, <1>3, <1>4

\* No handler approves an invoice, and only post, on an approved one, posts it.
LEMMA HandlerWrites ==
  ASSUME Typed, Shaped, Paid, ~Yes, NEW w \in Worker, HandlerStep(w) \/ HandlerRequest(w)
  PROVE  invoice'.status \notin {"APPROVED", "POSTED"} /\ ~Posting(proc'[w])
  <1> USE DEF HandlerLabel
  <1>0. /\ invoice \in Invoice /\ invoice.status \notin {"APPROVED", "POSTED"}
        /\ ~Posting(proc[w])
    BY DEF Shaped, Paid
  <1>1. CASE ExtractionFails(w) \/ Extracted(w) \/ InsertLines(w)
    <2>1. ~Posting(proc'[w])
      BY <1>1, NotPosting DEF ExtractionFails, Extracted, InsertLines
    <2>2. CASE ExtractionFails(w)
      BY <1>0, <2>1, <2>2, StatusOK DEF ExtractionFails, InvoiceStatus
    <2>3. CASE Extracted(w)
      <3>1. PICK f \in Figures \ {Blank}, a \in Amount, low \in SUBSET Field, shaky \in BOOLEAN :
              invoice' = [status |-> IF low # {} \/ shaky THEN "NEEDS_REVIEW" ELSE "VALIDATING",
                          amount |-> a, figures |-> f, match |-> NoMatch, low |-> low \cap Scored]
        BY <2>3, Zenon DEF Extracted
      <3> HIDE DEF HandlerLabel
      <3>2. invoice'.status \in {"NEEDS_REVIEW", "VALIDATING"}
        BY <3>1
      <3> QED
        BY <2>1, <3>2
    <2>4. CASE InsertLines(w)
      BY <1>0, <2>1, <2>4 DEF InsertLines
    <2> QED
      BY <1>1, <2>2, <2>3, <2>4
  <1>2. CASE ValidateRead(w) \/ CheckFigures(w) \/ WriteMatch(w) \/ RaiseException(w)
             \/ RouteInvoice(w)
    <2>1. ~Posting(proc'[w])
      BY <1>2, NotPosting
      DEF ValidateRead, CheckFigures, WriteMatch, RaiseException, RouteInvoice
    <2>2. CASE WriteMatch(w)
      <3>1. job[w].figures \in Figures
        BY JobType DEF Job
      <3> QED
        BY <1>0, <2>1, <2>2, <3>1, MatchOK DEF WriteMatch
    <2>3. CASE RouteInvoice(w)
      BY <1>0, <2>1, <2>3, StatusOK DEF RouteInvoice, InvoiceStatus
    <2>4. CASE ValidateRead(w) \/ CheckFigures(w) \/ RaiseException(w)
      BY <1>0, <2>1, <2>4 DEF ValidateRead, CheckFigures, RaiseException
    <2> QED
      BY <1>2, <2>2, <2>3, <2>4
  <1>3. CASE RevalidateRead(w) \/ RevalidateSkip(w) \/ RevalidateProceed(w)
             \/ ClearMatchState(w) \/ ResolveExceptions(w)
    <2>1. ~Posting(proc'[w])
      BY <1>3, NotPosting
      DEF RevalidateRead, RevalidateSkip, RevalidateProceed, ClearMatchState, ResolveExceptions
    <2>2. invoice'.status = invoice.status
      BY <1>0, <1>3, MatchOK
      DEF RevalidateRead, RevalidateSkip, RevalidateProceed, ClearMatchState, ResolveExceptions
    <2> QED
      BY <1>0, <2>1, <2>2
  <1>4. CASE GuardRole(w) \/ ApplyCorrection(w) \/ Rematch(w) \/ WriteCode(w)
    <2>1. ~Posting(proc'[w])
      BY <1>4, NotPosting DEF GuardRole, ApplyCorrection, Rematch, WriteCode
    <2>2. invoice'.status = invoice.status
      BY <1>4, CorrectionWrites DEF GuardRole, Rematch, WriteCode
    <2> QED
      BY <1>0, <2>1, <2>2
  <1>5. ~UncodedLineCount(w) /\ ~WritePosted(w)
    BY <1>0 DEF UncodedLineCount, WritePosted, At, Posting
  <1>6. CASE HandlerRequest(w)
    <2>1. ~Post(w)
      BY <1>0 DEF Post
    <2>2. ~Posting(proc'[w])
      BY <1>6, <2>1, NotPosting
      DEF HandlerRequest, RequestRevalidation, CorrectField, SyncOrder, CodeLine
    <2>3. UNCHANGED invoice
      BY <1>6
      DEF HandlerRequest, RequestRevalidation, CorrectField, SyncOrder, CodeLine, Post
    <2> QED
      BY <1>0, <2>2, <2>3
  <1> QED
    BY <1>1, <1>2, <1>3, <1>4, <1>5, <1>6 DEF HandlerStep

LEMMA PaidHandler ==
  ASSUME Typed, Shaped, Paid, NEW w \in Worker, HandlerStep(w) \/ HandlerRequest(w)
  PROVE  Paid'
  <1>1. HandlerMoves(w)
    BY HandlerMove
  <1>2. CASE Yes
    BY <1>1, <1>2, HandlerFrame, YesStays DEF Paid
  <1>3. CASE ~Yes
    <2>1. PICK q : Set(w, q) /\ q.pc \notin AtNode
      BY <1>1 DEF HandlerMoves, Lands, Away
    <2>2. ~Settling(proc'[w])
      BY <2>1 DEF Set, Typed, Settling, AtNode
    <2> QED
      BY <1>3, <2>1, <2>2, HandlerWrites, PaidOf
  <1> QED
    BY <1>2, <1>3

LEMMA PaidInit == LifecycleInit => Paid
  <1> SUFFICES ASSUME LifecycleInit PROVE Paid
    OBVIOUS
  <1>1. PICK w \in Worker :
          proc = [v \in Worker |-> IF v = w THEN [Idle EXCEPT !.pc = "extract"] ELSE Idle]
    BY DEF LifecycleInit
  <1>2. [Idle EXCEPT !.pc = "extract"].pc = "extract" /\ Idle.pc = "idle"
    BY DEF Idle
  <1>3. \A v \in Worker : ~Settling(proc[v]) /\ ~Posting(proc[v])
    BY <1>1, <1>2 DEF Settling, Posting
  <1> QED
    BY <1>3 DEF LifecycleInit, Paid

LEMMA PaidStep ==
  ASSUME EngineInv, Shaped, Paid, [LifecycleNext]_lvars PROVE Paid'
  <1> USE DEF EngineInv
  <1>1. ASSUME UNCHANGED <<invoice, steps, audit, proc>> PROVE Paid'
    <2>1. Yes => Yes'
      BY <1>1 DEF Yes, Recorded, At
    <2> QED
      BY <1>1, <2>1 DEF Paid
  <1>2. CASE UNCHANGED lvars
    BY <1>1, <1>2 DEF lvars, vars
  <1>3. CASE DeadlinePasses
    BY <1>1, <1>3 DEF DeadlinePasses, tables, logs
  <1>4. ASSUME NEW w \in Worker, EngineStep(w) PROVE Paid'
    BY <1>4, PaidEngine DEF EngineStep, Statement
  <1> QED
    BY <1>2, <1>3, <1>4, PaidHandler DEF LifecycleNext

\* No race of decisions, recalls, corrections, re-validations and postings gets an
\* invoice approved or posted without an APPROVE of one of its steps in the audit trail.
THEOREM SpecPaidOnRecord == LifecycleSpec => []PaidOnRecord
  <1>1. Paid => PaidOnRecord
    BY DEF Paid, Yes, PaidOnRecord
  <1>2. EngineInv /\ Shaped /\ Paid /\ [LifecycleNext]_lvars => Paid'
    BY PaidStep
  <1> QED
    BY <1>1, <1>2, PaidInit, LifecycleShaped, LifecycleKeepsEngine, PTL DEF LifecycleSpec

-----------------------------------------------------------------------------
(* One request at a time: what it knows of the invoice.                    *)

\* The statements of a recall, and of a validation between its first and its last.
Recalling  == {"recall", "recallFind", "cancel", "supersede"}
Rechecking == {"validate", "check", "match", "raise", "route"}

\* No call but a recall for a re-validation, or a move of the sweep, is to come back.
Calls(p) == /\ p.ret \in (IF p.pc \in Recalling THEN {<<"clear">>} ELSE {<<>>, <<"sweep">>})
            /\ p.pc # "link"

Live(table) == \E i \in DOMAIN table : table[i].status = "ACTIVE"

\* The latest instance reached END and was not superseded since.
Ended(table) ==
  /\ table # <<>>
  /\ LET last == table[Len(table)]
     IN  last.status = "COMPLETED" /\ Def[last.workflow].kind[last.node] = "END"

\* What a request knows of the invoice's status, and of the approval of it.
Agrees(p, table, status) ==
  /\ Live(table) => status = "PENDING_APPROVAL"
  /\ p.pc \in {"extract", "insertLines", "clear", "resolve", "start", "settle"} \cup Rechecking
       => ~Live(table)
  /\ p.pc \in Recalling \cup {"extract", "insertLines", "clear", "resolve"} \cup Rechecking
       => status # "POSTED"
  /\ p.pc \in {"start", "settle"} => status = "PENDING_APPROVAL"
  /\ p.pc \in {"uncoded", "post"} => status = "APPROVED"
  /\ status \in {"APPROVED", "POSTED"} => Ended(table)
  /\ p.pc = "settle" /\ p.outcome = "APPROVED" => Ended(table)

\* What it read of the invoice is still so.
Remembers(p, j, row) ==
  /\ p.pc = "decide" => j.status = row.status
  /\ p.pc \in {"decide", "guardRole", "correct"} => j.low = row.low
  /\ p.pc \in {"check", "match"} => j.figures = row.figures

\* An invoice at EXCEPTION, or on its way there, has the exception open.
Explained(p, j, status, raised) ==
  /\ status = "EXCEPTION" /\ p.pc \notin Rechecking => raised \cap Hard # {}
  /\ p.pc = "route" /\ j.result \in Stops => raised \cap Hard # {}

\* A stale match is on record as such, or about to be cleared.
Visible(p, row, recorded) ==
  LET stale == row.match \notin {NoMatch, row.figures}
  IN  /\ p.pc \in {"extract", "insertLines", "resolve"} \cup Rechecking => ~stale
      /\ row.status \in Routed /\ stale =>
           \/ row.figures \in recorded
           \/ p.pc \in {"revalidate", "decide", "clear"} \cup Recalling

\* Whatever is still doubtful shows on the row or on its lines, and stops a
\* validation nobody insisted on.
Gated(p, j, low, shaky, doubts) ==
  /\ doubts \subseteq low \cup (IF shaky \/ p.pc = "insertLines" THEN {"line"} ELSE {})
  /\ p.pc = "insertLines" /\ j.status = "VALIDATING" => doubts = {}
  /\ p.pc \in Recalling \cup {"clear", "resolve", "validate"} => j.forced \/ doubts = {}

\* The doubts fieldConfidence and the lines can hold.
Doubts(S) == S \cap (Scored \cup {"line"})

Coherent(p, j, row, table, raised, recorded, shaky, doubts) ==
  /\ Calls(p) /\ Agrees(p, table, row.status) /\ Remembers(p, j, row)
  /\ Explained(p, j, row.status, raised) /\ Visible(p, row, recorded)
  /\ Gated(p, j, row.low, shaky, doubts)

InStep == \A w \in Worker :
  Coherent(proc[w], job[w], invoice, instances, open, skipped, lines.shaky, Doubts(unsure))

\* Where a statement of the engine leads, as long as nothing but a recall is to
\* come back to a handler.
LEMMA EngineTo ==
  ASSUME Typed, NEW w \in Worker, Statement(w), Calls(proc[w])
  PROVE  /\ Calls(proc'[w])
         /\ proc'[w].pc \in Label \cup {"clear"} /\ proc'[w].pc \notin {"start", "recall"}
         /\ proc'[w].pc = "clear" => proc[w].pc \in {"recallFind", "supersede"}
         /\ proc'[w].pc \in Recalling => proc[w].pc \in Recalling
         /\ proc[w].pc \in Recalling => \/ proc'[w].pc \in Recalling \cup {"clear"}
                                         \/ invoice.status \in {"POSTED", "PAID"}
         /\ proc'[w].pc = "settle" => CompleteInstance(w)
  <1> DEFINE p == proc[w]
             Good(q) == /\ Calls(q) /\ q.pc \in Label \cup {"clear"}
                        /\ q.pc \notin {"start", "recall"}
                        /\ q.pc = "clear" => p.pc \in {"recallFind", "supersede"}
                        /\ q.pc \in Recalling => p.pc \in Recalling
                        /\ p.pc \in Recalling => \/ q.pc \in Recalling \cup {"clear"}
                                                 \/ invoice.status \in {"POSTED", "PAID"}
                        /\ q.pc = "settle" => CompleteInstance(w)
             Inner == Label \ (Recalling \cup {"start", "settle", "link"})
  <1>0. p \in Request /\ w \in DOMAIN proc
    BY DEF Typed
  <1>1. SUFFICES \E q : Set(w, q) /\ Good(q)
    BY <1>0 DEF Set
  <1>2. ASSUME NEW q, Set(w, q), q.pc \in Inner, q.ret \in {<<>>, <<"sweep">>},
               p.pc \notin Recalling
        PROVE  \E r : Set(w, r) /\ Good(r)
    BY <1>2 DEF Calls, Recalling, Label
  <1>3. p.pc \notin Recalling \/ invoice.status \in {"POSTED", "PAID"} => Good(Idle)
    BY DEF Idle, Calls, Recalling, Label
  <1>4. ASSUME Fail(w), p.pc \notin Recalling \/ invoice.status \in {"POSTED", "PAID"}
        PROVE  \E q : Set(w, q) /\ Good(q)
    BY <1>3, <1>4 DEF Fail
  <1>5. ASSUME Return(w), p.pc \notin {"recall", "cancel"} PROVE \E q : Set(w, q) /\ Good(q)
    <2>1. CASE p.ret = <<>>
      BY <1>3, <1>5, <2>1 DEF Return, After, Calls
    <2>2. CASE p.ret = <<"sweep">>
      <3> DEFINE q == [p EXCEPT !.pc = Head(p.ret), !.ret = Tail(p.ret)]
      <3>1. Set(w, q)
        BY <1>5, <2>2 DEF Return, After
      <3>2. q.pc = "sweep" /\ q.ret = <<>>
        BY <1>0, <2>2 DEF Request
      <3> HIDE DEF q
      <3> QED
        BY <1>2, <2>2, <3>1, <3>2 DEF Label, Recalling, Calls
    <2>3. CASE p.pc \in Recalling /\ p.ret = <<"clear">>
      <3> DEFINE q == [p EXCEPT !.pc = Head(p.ret), !.ret = Tail(p.ret)]
      <3>1. Set(w, q)
        BY <1>5, <2>3 DEF Return, After
      <3>2. q.pc = "clear" /\ q.ret = <<>>
        BY <1>0, <2>3 DEF Request
      <3> HIDE DEF q
      <3>3. p.pc \in {"recallFind", "supersede"}
        BY <1>5, <2>3 DEF Recalling
      <3> QED
        BY <3>1, <3>2, <3>3 DEF Calls, Recalling
    <2> QED
      BY <2>1, <2>2, <2>3 DEF Calls
  <1>6. ASSUME NEW l \in Inner, Goto(w, l), p.pc \notin Recalling
        PROVE  \E q : Set(w, q) /\ Good(q)
    <2> DEFINE q == [p EXCEPT !.pc = l]
    <2>1. Set(w, q) /\ q.pc = l /\ q.ret = p.ret
      BY <1>0, <1>6 DEF Goto, Request
    <2> HIDE DEF q
    <2> QED
      BY <1>2, <1>6, <2>1 DEF Calls
  <1>7. ASSUME NEW q, Set(w, q), p.pc \in Recalling, q.pc \in Recalling \ {"recall"}, q.ret = p.ret
        PROVE  \E r : Set(w, r) /\ Good(r)
    BY <1>7 DEF Calls, Recalling, Label
  <1> USE DEF Label, Recalling
  <1>8. CASE StartInstance(w)
    <2>1. ASSUME NEW i, NEW n, Set(w, Advancing(p, i, n)) PROVE \E q : Set(w, q) /\ Good(q)
      <3>1. Advancing(p, i, n).pc = "advance" /\ Advancing(p, i, n).ret = p.ret
        BY DEF Advancing, Idle
      <3>2. p.ret \in {<<>>, <<"sweep">>} /\ p.pc \notin Recalling
        BY <1>8 DEF StartInstance, At, Calls
      <3> QED
        BY <1>2, <2>1, <3>1, <3>2
    <2> QED
      BY <1>4, <1>5, <1>8, <2>1 DEF StartInstance, At
  <1>9. CASE LeaveNode(w)
    <2>1. PICK i, n : Set(w, Advancing(p, i, n))
      BY <1>9 DEF LeaveNode
    <2>2. Advancing(p, i, n).pc = "advance" /\ Advancing(p, i, n).ret = p.ret
      BY DEF Advancing, Idle
    <2>3. p.ret \in {<<>>, <<"sweep">>} /\ p.pc \notin Recalling
      BY <1>9 DEF LeaveNode, At, Calls
    <2> QED
      BY <1>2, <2>1, <2>2, <2>3
  <1>10. CASE AdvanceThrows(w) \/ Park(w) \/ SettleInvoice(w) \/ Authorise(w) \/ InsertDelegate(w)
              \/ LinkSuccessor(w) \/ SweepEnd(w) \/ Supersede(w)
    BY <1>4, <1>5, <1>6, <1>10
    DEF AdvanceThrows, Park, SettleInvoice, Authorise, InsertDelegate, LinkSuccessor, SweepEnd,
        Supersede, At
  <1>11. CASE AdvanceCreateSteps(w) \/ RecordDecision(w) \/ LogDecision(w) \/ MarkDelegated(w)
              \/ SweepStamp(w)
    BY <1>6, <1>11
    DEF AdvanceCreateSteps, RecordDecision, LogDecision, MarkDelegated, SweepStamp, At
  <1>12. CASE AdvanceWalk(w)
    <2>1. PICK n : Set(w, [p EXCEPT !.node = n]) /\ p.pc = "advance"
      BY <1>12 DEF AdvanceWalk, At
    <2>2. [p EXCEPT !.node = n].pc = "advance" /\ [p EXCEPT !.node = n].ret = p.ret
      BY <1>0, <2>1 DEF Request
    <2> QED
      BY <1>2, <2>1, <2>2 DEF Calls
  <1>13. CASE CompleteInstance(w)
    <2>1. PICK x : Set(w, [p EXCEPT !.pc = "settle", !.outcome = x])
      BY <1>13 DEF CompleteInstance
    <2> DEFINE q == [p EXCEPT !.pc = "settle", !.outcome = x]
    <2>2. q.pc = "settle" /\ q.ret = p.ret
      BY <1>0 DEF Request
    <2>3. p.pc \in {"complete", "advance"}
      BY <1>13 DEF CompleteInstance, At
    <2> HIDE DEF q
    <2>4. Good(q)
      BY <1>13, <2>2, <2>3 DEF Calls
    <2> QED
      BY <2>1, <2>4 DEF q
  <1>14. ASSUME NEW o, NEW S, NEW l \in Inner, p.pc \notin Recalling,
               \/ Set(w, [p EXCEPT !.outcome = o, !.seen = S, !.pc = l])
               \/ Set(w, [p EXCEPT !.seen = S, !.pc = l])
               \/ Set(w, [p EXCEPT !.outcome = o, !.seen = S, !.ret = <<"sweep">>, !.pc = l])
        PROVE  \E q : Set(w, q) /\ Good(q)
    <2>1. p.ret \in {<<>>, <<"sweep">>}
      BY <1>14 DEF Calls
    <2>2. /\ [p EXCEPT !.outcome = o, !.seen = S, !.pc = l].pc = l
          /\ [p EXCEPT !.seen = S, !.pc = l].pc = l
          /\ [p EXCEPT !.outcome = o, !.seen = S, !.ret = <<"sweep">>, !.pc = l].pc = l
          /\ [p EXCEPT !.outcome = o, !.seen = S, !.pc = l].ret = p.ret
          /\ [p EXCEPT !.seen = S, !.pc = l].ret = p.ret
          /\ [p EXCEPT !.outcome = o, !.seen = S, !.ret = <<"sweep">>, !.pc = l].ret = <<"sweep">>
      BY <1>0 DEF Request
    <2> QED
      BY <1>2, <1>14, <2>1, <2>2
  <1>15. \A g, n, outcome : AfterSkip(g, n, outcome) \in {"complete", "leave"}
    BY DEF AfterSkip
  <1>16. CASE Tally(w)
    <2>1. \/ Return(w)
          \/ \E o, S, l : /\ Set(w, [p EXCEPT !.outcome = o, !.seen = S, !.pc = l])
                         /\ l \in {"complete", "leave", "skip"}
      BY <1>15, <1>16 DEF Tally
    <2>2. p.pc = "tally"
      BY <1>16 DEF Tally, At
    <2> QED
      BY <1>5, <1>14, <2>1, <2>2
  <1>17. CASE SkipSiblings(w)
    <2>1. \E S, l : Set(w, [p EXCEPT !.seen = S, !.pc = l]) /\ l \in {"complete", "leave"}
      BY <1>15, <1>17 DEF SkipSiblings
    <2>2. p.pc = "skip"
      BY <1>17 DEF SkipSiblings, At
    <2> QED
      BY <1>14, <2>1, <2>2
  <1>18. CASE SweepRead(w)
    <2>1. \E o, S, l : /\ Set(w, [p EXCEPT !.outcome = o, !.seen = S, !.ret = <<"sweep">>, !.pc = l])
                      /\ l \in {"leave", "skip"}
      BY <1>18 DEF SweepRead
    <2>2. p.pc = "sweepRead"
      BY <1>18 DEF SweepRead, At
    <2> QED
      BY <1>14, <2>1, <2>2
  <1>19. CASE RecallCheck(w) \/ CancelSteps(w)
    <2>1. \A l : [p EXCEPT !.pc = l].pc = l /\ [p EXCEPT !.pc = l].ret = p.ret
      BY <1>0 DEF Request
    <2> QED
      BY <1>4, <1>7, <1>19, <2>1 DEF RecallCheck, CancelSteps, Goto, At
  <1>20. CASE RecallFind(w)
    <2>1. ASSUME NEW i, Set(w, [p EXCEPT !.pc = "cancel", !.old = i])
          PROVE  \E q : Set(w, q) /\ Good(q)
      <3>1. /\ [p EXCEPT !.pc = "cancel", !.old = i].pc = "cancel"
            /\ [p EXCEPT !.pc = "cancel", !.old = i].ret = p.ret
        BY <1>0 DEF Request
      <3> QED
        BY <1>7, <1>20, <2>1, <3>1 DEF RecallFind, At
    <2> QED
      BY <1>5, <1>20, <2>1 DEF RecallFind, At
  <1>21. CASE SweepSkip(w)
    <2>1. PICK b : Set(w, [p EXCEPT !.todo = @ \ {b}]) /\ p.pc = "sweep"
      BY <1>21 DEF SweepSkip, At
    <2>2. [p EXCEPT !.todo = @ \ {b}].pc = "sweep" /\ [p EXCEPT !.todo = @ \ {b}].ret = p.ret
      BY <1>0, <2>1 DEF Request
    <2> QED
      BY <1>2, <2>1, <2>2 DEF Calls
  <1>22. CASE SweepReport(w)
    <2>1. PICK b : Set(w, [p EXCEPT !.pc = "stamp", !.todo = @ \ {b},
                                    !.inst = b[1], !.node = b[2]])
      BY <1>22 DEF SweepReport
    <2> DEFINE q == [p EXCEPT !.pc = "stamp", !.todo = @ \ {b}, !.inst = b[1], !.node = b[2]]
    <2>2. q.pc = "stamp" /\ q.ret = p.ret
      BY <1>0 DEF Request
    <2>3. p.ret \in {<<>>, <<"sweep">>} /\ p.pc \notin Recalling
      BY <1>22 DEF SweepReport, At, Calls
    <2> HIDE DEF q
    <2> QED
      BY <1>2, <2>1, <2>2, <2>3 DEF q
  <1>23. CASE EscalateOverdue(w)
    <2>1. PICK todo : Set(w, [Idle EXCEPT !.pc = "sweep", !.todo = todo]) /\ p.pc = "idle"
      BY <1>23 DEF EscalateOverdue, At
    <2>2. /\ [Idle EXCEPT !.pc = "sweep", !.todo = todo].pc = "sweep"
          /\ [Idle EXCEPT !.pc = "sweep", !.todo = todo].ret = <<>>
      BY DEF Idle
    <2> QED
      BY <1>2, <2>1, <2>2
  <1>24. ASSUME NEW s, NEW v, DecideStep(w, s, v) PROVE \E q : Set(w, q) /\ Good(q)
    <2> DEFINE l == IF v = "APPROVE" THEN "authorise" ELSE "record"
               q == [Idle EXCEPT !.pc = l, !.inst = steps[s].inst, !.node = steps[s].node,
                                 !.step = s, !.vote = v]
    <2>1. Set(w, q) /\ l \in Inner /\ p.pc = "idle"
      BY <1>24 DEF DecideStep, At
    <2> HIDE DEF l
    <2>2. q.pc = l /\ q.ret = <<>>
      BY DEF Idle
    <2> HIDE DEF q
    <2> QED
      BY <1>2, <2>1, <2>2
  <1>25. ASSUME NEW s, NEW u, DelegateStep(w, s, u) PROVE \E q : Set(w, q) /\ Good(q)
    <2> DEFINE q == [Idle EXCEPT !.pc = "handoff", !.inst = steps[s].inst,
                                 !.node = steps[s].node, !.step = s, !.to = u]
    <2>1. Set(w, q) /\ q.pc = "handoff" /\ q.ret = <<>> /\ p.pc = "idle"
      BY <1>25 DEF DelegateStep, Idle, At
    <2> HIDE DEF q
    <2> QED
      BY <1>2, <2>1
  <1> HIDE DEF Good, Inner
  <1> QED
    BY <1>8, <1>9, <1>10, <1>11, <1>12, <1>13, <1>16, <1>17, <1>18, <1>19, <1>20, <1>21, <1>22,
       <1>23, <1>24, <1>25
    DEF Statement, Proceed, StepRequest

\* A statement of the engine stands at one of its labels.
LEMMA EngineAt == ASSUME NEW w \in Worker, Statement(w) PROVE proc[w].pc \in Label
  BY DEF Statement, Proceed, StepRequest, StartInstance, AdvanceWalk, AdvanceCreateSteps,
         AdvanceThrows, Park, CompleteInstance, SettleInvoice, Authorise, RecordDecision,
         LogDecision, Tally, SkipSiblings, LeaveNode, MarkDelegated, InsertDelegate,
         RecallCheck, RecallFind, CancelSteps, Supersede, LinkSuccessor, SweepEnd, SweepSkip,
         SweepReport, SweepStamp, SweepRead, EscalateOverdue, DecideStep, DelegateStep, At, Label

\* The statements that write the instances or the invoice.
LEMMA EngineWrites ==
  ASSUME NEW w \in Worker, Statement(w), Calls(proc[w])
  PROVE  \/ UNCHANGED <<instances, invoice>> /\ ~CompleteInstance(w)
         \/ StartInstance(w) \/ Park(w) \/ CompleteInstance(w) \/ SettleInvoice(w)
         \/ LeaveNode(w) \/ Supersede(w)
  <1> USE DEF tables
  <1>1. ~LinkSuccessor(w)
    BY DEF LinkSuccessor, At, Calls
  <1>2. CASE CompleteInstance(w)
    BY <1>2
  <1>3. CASE \/ AdvanceWalk(w) \/ AdvanceCreateSteps(w) \/ AdvanceThrows(w) \/ Authorise(w)
             \/ RecordDecision(w) \/ LogDecision(w) \/ Tally(w) \/ SkipSiblings(w)
             \/ MarkDelegated(w) \/ InsertDelegate(w)
    BY <1>2, <1>3
    DEF AdvanceWalk, AdvanceCreateSteps, AdvanceThrows, Authorise, RecordDecision, LogDecision,
        Tally, SkipSiblings, MarkDelegated, InsertDelegate
  <1>4. CASE \/ RecallCheck(w) \/ RecallFind(w) \/ CancelSteps(w) \/ SweepEnd(w) \/ SweepSkip(w)
             \/ SweepReport(w) \/ SweepStamp(w) \/ SweepRead(w) \/ EscalateOverdue(w)
             \/ StepRequest(w)
    BY <1>2, <1>4
    DEF RecallCheck, RecallFind, CancelSteps, SweepEnd, SweepSkip, SweepReport, SweepStamp,
        SweepRead, EscalateOverdue, StepRequest, DecideStep, DelegateStep
  <1> QED
    BY <1>1, <1>3, <1>4 DEF Statement, Proceed

-----------------------------------------------------------------------------
(* The engine under one request.                                           *)

\* A live instance is the last one, so closing it leaves none.
LEMMA NoneLeft ==
  ASSUME LastIsLive(instances), NEW i \in DOMAIN instances, instances[i].status = "ACTIVE",
         NEW x, x # "ACTIVE", instances'[i].status = x, DOMAIN instances' = DOMAIN instances,
         \A k \in DOMAIN instances : k # i => instances'[k].status = instances[k].status
  PROVE  ~Live(instances') /\ i = Len(instances)
  BY DEF Live, LastIsLive

LEMMA AgreesStatement ==
  ASSUME Typed, InTurn, invoice \in Invoice, NEW w \in Worker, Statement(w),
         Calls(proc[w]), Agrees(proc[w], instances, invoice.status)
  PROVE  Agrees(proc'[w], instances', invoice'.status)
  <1> DEFINE p == proc[w]  q == proc'[w]
  <1>0. /\ p \in Request /\ LastIsLive(instances) /\ Placed(instances, p)
        /\ p.pc \in AtNode => p.inst \in DOMAIN instances
        /\ p.pc \in {"cancel", "supersede"} => p.old \in DOMAIN instances
    BY TurnFacts
  <1>1. /\ q.pc \in Label \cup {"clear"} /\ q.pc \notin {"start", "recall"}
        /\ q.pc = "clear" => p.pc \in {"recallFind", "supersede"}
        /\ q.pc \in Recalling => p.pc \in Recalling
        /\ q.pc = "settle" => CompleteInstance(w)
    BY EngineTo
  <1>2. /\ instances \in Seq(Instance) /\ \A i \in DOMAIN instances : instances[i] \in Instance
        /\ DOMAIN instances = 1..Len(instances) /\ Len(instances) \in Nat
    BY Sizes, ElementOfSeq DEF Typed
  <1>3. q.pc \notin {"extract", "insertLines", "resolve", "start", "uncoded", "post"} \cup Rechecking
    BY <1>1 DEF Label, Rechecking
  <1>4. Agrees(p, instances, invoice.status) /\ Calls(p)
    OBVIOUS
  <1> SUFFICES Agrees(q, instances', invoice'.status)
    OBVIOUS
  <1> HIDE DEF p, q
  <1>5. CASE UNCHANGED <<instances, invoice>> /\ ~CompleteInstance(w)
    <2>1. q.pc = "clear" => ~Live(instances)
      <3>1. CASE p.pc = "recallFind"
        <4>1. RecallFind(w)
          BY <3>1
          DEF p, Statement, Proceed, StepRequest, StartInstance, AdvanceWalk, AdvanceCreateSteps,
              AdvanceThrows, Park, CompleteInstance, SettleInvoice, Authorise, RecordDecision,
              LogDecision, Tally, SkipSiblings, LeaveNode, MarkDelegated, InsertDelegate,
              RecallCheck, CancelSteps, Supersede, LinkSuccessor, SweepEnd, SweepSkip,
              SweepReport, SweepStamp, SweepRead, EscalateOverdue, DecideStep, DelegateStep, At
        <4>2. ASSUME NEW i, Set(w, [p EXCEPT !.pc = "cancel", !.old = i])
              PROVE  q.pc = "cancel"
          BY <1>0, <4>2 DEF Set, Typed, q, Request
        <4> QED
          BY <4>1, <4>2 DEF RecallFind, ActiveIds, Live, p
      <3>2. CASE p.pc = "supersede"
        <4>1. Supersede(w)
          BY <3>2
          DEF p, Statement, Proceed, StepRequest, StartInstance, AdvanceWalk, AdvanceCreateSteps,
              AdvanceThrows, Park, CompleteInstance, SettleInvoice, Authorise, RecordDecision,
              LogDecision, Tally, SkipSiblings, LeaveNode, MarkDelegated, InsertDelegate,
              RecallCheck, RecallFind, CancelSteps, LinkSuccessor, SweepEnd, SweepSkip,
              SweepReport, SweepStamp, SweepRead, EscalateOverdue, DecideStep, DelegateStep, At
        <4>2. instances[p.old].status = "ACTIVE" /\ p.old \in DOMAIN instances
          BY <1>0, <3>2 DEF Placed
        <4>3. instances'[p.old].status = "SUPERSEDED"
          BY <1>2, <4>1, <4>2 DEF Supersede, p, Instance
        <4> QED
          BY <1>5, <4>2, <4>3
      <3> QED
        BY <1>1, <3>1, <3>2
    <2>2. q.pc # "settle"
      BY <1>1, <1>5
    <2>3. q.pc \in Recalling \cup {"clear"} => p.pc \in Recalling
      BY <1>1 DEF Recalling
    <2> QED
      BY <1>3, <1>4, <1>5, <2>1, <2>2, <2>3 DEF Agrees
  <1>6. CASE StartInstance(w) /\ ~UNCHANGED <<instances, invoice>>
    <2>1. UNCHANGED invoice /\ p.pc = "start" /\ ~CompleteInstance(w)
      BY <1>6 DEF StartInstance, CompleteInstance, p, At
    <2>2. invoice.status = "PENDING_APPROVAL"
      BY <1>4, <2>1 DEF Agrees
    <2>3. q.pc \notin Recalling \cup {"clear", "settle"}
      BY <1>1, <2>1 DEF Recalling
    <2> QED
      BY <1>3, <2>1, <2>2, <2>3 DEF Agrees
  <1>7. CASE Park(w) \/ LeaveNode(w)
    <2>1. UNCHANGED invoice /\ p.pc \in {"park", "leave"} /\ ~CompleteInstance(w)
      BY <1>7 DEF Park, LeaveNode, CompleteInstance, p, At
    <2>2. Live(instances)
      BY <1>0, <2>1 DEF Placed, AtNode, Live
    <2>3. invoice.status = "PENDING_APPROVAL"
      BY <1>4, <2>2 DEF Agrees
    <2>4. q.pc \notin Recalling \cup {"clear", "settle"}
      BY <1>1, <2>1 DEF Recalling
    <2> QED
      BY <1>3, <2>1, <2>3, <2>4 DEF Agrees
  <1>8. CASE CompleteInstance(w)
    <2> DEFINE i == p.inst
               x == IF At(w, "advance") /\ GraphOf(w).kind[p.node] = "END"
                    THEN "APPROVED" ELSE "REJECTED"
    <2>1. /\ p.pc \in {"complete", "advance"} /\ UNCHANGED invoice
          /\ instances' = [instances EXCEPT ![i].node = p.node, ![i].status = "COMPLETED"]
          /\ Set(w, [p EXCEPT !.pc = "settle", !.outcome = x])
      BY <1>8 DEF CompleteInstance, At, p
    <2>2. i \in DOMAIN instances /\ instances[i].status = "ACTIVE"
      BY <1>0, <2>1 DEF AtNode, Placed
    <2>3. /\ instances'[i].status = "COMPLETED" /\ instances'[i].node = p.node
          /\ instances'[i].workflow = instances[i].workflow
          /\ DOMAIN instances' = DOMAIN instances /\ Len(instances') = Len(instances)
          /\ \A k \in DOMAIN instances : k # i => instances'[k] = instances[k]
      BY <1>2, <2>1, <2>2 DEF Instance
    <2>4. ~Live(instances') /\ i = Len(instances)
      BY <1>0, <2>2, <2>3, NoneLeft
    <2>5. Live(instances)
      BY <2>2 DEF Live
    <2>6. invoice.status = "PENDING_APPROVAL"
      BY <1>4, <2>5 DEF Agrees
    <2>7. q.pc = "settle" /\ q.outcome = x
      BY <1>0, <2>1 DEF Set, Typed, Request, q
    <2>8. x = "APPROVED" => Def[instances'[i].workflow].kind[p.node] = "END"
      BY <2>3 DEF GraphOf, InstanceOf, p
    <2>9. x = "APPROVED" => Ended(instances')
      BY <2>2, <2>3, <2>4, <2>8 DEF Ended
    <2> HIDE DEF x
    <2> QED
      BY <2>1, <2>4, <2>6, <2>7, <2>9 DEF Agrees, Recalling, Rechecking
  <1>9. CASE SettleInvoice(w)
    <2>1. /\ p.pc = "settle" /\ UNCHANGED instances
          /\ invoice' = [invoice EXCEPT !.status = p.outcome]
          /\ ~CompleteInstance(w)
      BY <1>9 DEF SettleInvoice, CompleteInstance, At, p
    <2>2. p.outcome \in {"APPROVED", "REJECTED"}
      BY <1>9, OutcomeOK DEF p
    <2>3. invoice'.status = p.outcome
      BY <2>1, <2>2, StatusOK DEF InvoiceStatus
    <2>4. q.pc \notin Recalling \cup {"clear", "settle"}
      BY <1>1, <2>1 DEF Recalling
    <2> QED
      BY <1>3, <1>4, <2>1, <2>2, <2>3, <2>4 DEF Agrees
  <1>10. CASE Supersede(w)
    <2>1. /\ p.pc = "supersede" /\ UNCHANGED invoice /\ ~CompleteInstance(w)
          /\ instances' = [instances EXCEPT ![p.old].status = "SUPERSEDED"]
      BY <1>10 DEF Supersede, CompleteInstance, At, p
    <2>2. p.old \in DOMAIN instances /\ instances[p.old].status = "ACTIVE"
      BY <1>0, <2>1 DEF Placed
    <2>3. /\ instances'[p.old].status = "SUPERSEDED"
          /\ DOMAIN instances' = DOMAIN instances
          /\ \A k \in DOMAIN instances : k # p.old => instances'[k] = instances[k]
      BY <1>2, <2>1, <2>2 DEF Instance
    <2>4. ~Live(instances')
      BY <1>0, <2>2, <2>3, NoneLeft
    <2>5. Live(instances)
      BY <2>2 DEF Live
    <2>6. invoice.status = "PENDING_APPROVAL"
      BY <1>4, <2>5 DEF Agrees
    <2> QED
      BY <1>1, <1>3, <2>1, <2>4, <2>6 DEF Agrees
  <1>11. \/ UNCHANGED <<instances, invoice>> /\ ~CompleteInstance(w)
         \/ StartInstance(w) \/ Park(w) \/ CompleteInstance(w) \/ SettleInvoice(w)
         \/ LeaveNode(w) \/ Supersede(w)
    BY EngineWrites
  <1>12. StartInstance(w) => ~CompleteInstance(w)
    BY DEF StartInstance, CompleteInstance, At
  <1> QED
    BY <1>5, <1>6, <1>7, <1>8, <1>9, <1>10, <1>11, <1>12

\* The rest of what a request knows: nothing the engine does bears on it but the
\* end of a recall.
LEMMA RestStatement ==
  ASSUME Typed, Shaped, InStep, NEW w \in Worker, Statement(w), Drop(w), UNCHANGED records
  PROVE  /\ Remembers(proc'[w], job'[w], invoice')
         /\ Explained(proc'[w], job'[w], invoice'.status, open')
         /\ Visible(proc'[w], invoice', skipped')
         /\ Gated(proc'[w], job'[w], invoice'.low, lines'.shaky, Doubts(unsure'))
  <1> DEFINE p == proc[w]  q == proc'[w]  j == job[w]
  <1>0. /\ Agrees(p, instances, invoice.status)
        /\ Explained(p, j, invoice.status, open) /\ Visible(p, invoice, skipped)
        /\ Gated(p, j, invoice.low, lines.shaky, Doubts(unsure))
    BY DEF InStep, Coherent
  <1>1. /\ q.pc \in Label \cup {"clear"} /\ q.pc \notin {"start", "recall"}
        /\ q.pc \in Recalling \cup {"clear"} => p.pc \in Recalling
        /\ p.pc \in Recalling => \/ q.pc \in Recalling \cup {"clear"}
                                 \/ invoice.status \in {"POSTED", "PAID"}
    BY EngineTo DEF InStep, Coherent, Recalling
  <1>2. p.pc \in Label
    BY EngineAt
  <1>3. invoice \in Invoice /\ (q.pc # "idle" => job'[w] = j)
    BY DEF Shaped, Drop, Hold
  <1>4. /\ invoice'.figures = invoice.figures /\ invoice'.match = invoice.match
        /\ invoice'.low = invoice.low
        /\ \/ invoice'.status = invoice.status
           \/ /\ invoice'.status \in {"APPROVED", "REJECTED"} /\ p.pc = "settle"
              /\ invoice.status = "PENDING_APPROVAL"
    <2>1. CASE UNCHANGED invoice
      BY <2>1
    <2>2. CASE SettleInvoice(w)
      <3>1. p.outcome \in {"APPROVED", "REJECTED"}
        BY <2>2, OutcomeOK
      <3>2. invoice' = [invoice EXCEPT !.status = p.outcome] /\ p.pc = "settle"
        BY <2>2 DEF SettleInvoice, At
      <3>3. invoice.status = "PENDING_APPROVAL"
        BY <1>0, <3>2 DEF Agrees
      <3> HIDE DEF p
      <3> QED
        BY <1>3, <3>1, <3>2, <3>3 DEF Invoice
    <2> QED
      BY <2>1, <2>2, StatementWrites
  <1>5. UNCHANGED <<open, lines, skipped, unsure>>
    BY DEF records
  <1> SUFFICES /\ Remembers(q, job'[w], invoice')
               /\ Explained(q, job'[w], invoice'.status, open')
               /\ Visible(q, invoice', skipped')
               /\ Gated(q, job'[w], invoice'.low, lines'.shaky, Doubts(unsure'))
    OBVIOUS
  <1>6. q.pc \notin {"extract", "insertLines", "resolve", "decide", "guardRole", "correct",
                     "revalidate"} \cup Rechecking
    BY <1>1 DEF Label, Rechecking
  <1>7. p.pc \notin {"extract", "insertLines", "resolve", "decide", "guardRole", "correct",
                     "revalidate", "clear"} \cup Rechecking
    BY <1>2 DEF Label, Rechecking
  <1> HIDE DEF p, q, j
  <1>8. Remembers(q, job'[w], invoice')
    BY <1>6 DEF Remembers, Rechecking
  <1>9. Explained(q, job'[w], invoice'.status, open')
    BY <1>0, <1>4, <1>5, <1>6, <1>7 DEF Explained, Rechecking
  <1>10. Visible(q, invoice', skipped')
    <2>1. invoice'.status \in Routed => invoice.status \in Routed \ {"PAID"}
      BY <1>4 DEF Routed
    <2>2. p.pc \in Recalling => invoice.status # "POSTED"
      BY <1>0 DEF Agrees
    <2>3. invoice'.status \in Routed /\ p.pc \in Recalling => q.pc \in Recalling \cup {"clear"}
      BY <1>1, <1>4, <2>1, <2>2 DEF Routed
    <2> QED
      BY <1>0, <1>4, <1>5, <1>6, <1>7, <2>1, <2>3 DEF Visible
  <1>11. Gated(q, job'[w], invoice'.low, lines'.shaky, Doubts(unsure'))
    <2>1. q.pc \in Recalling \cup {"clear"} => job'[w].forced = j.forced
      BY <1>3 DEF Recalling
    <2> QED
      BY <1>0, <1>1, <1>4, <1>5, <1>6, <1>7, <2>1 DEF Gated, Rechecking
  <1> QED
    BY <1>8, <1>9, <1>10, <1>11

\* With one request at a time its next position is all there is to show.
LEMMA InStepBy ==
  ASSUME OneAtATime, NEW w \in Worker,
         Coherent(proc'[w], job'[w], invoice', instances', open', skipped', lines'.shaky, Doubts(unsure'))
  PROVE  InStep'
  <1>1. Worker = {w}
    BY DEF OneAtATime
  <1> QED
    BY <1>1 DEF InStep

LEMMA InStepStatement ==
  ASSUME OneAtATime, Typed, Shaped, InTurn, InStep, NEW w \in Worker, EngineStep(w)
  PROVE  InStep'
  <1>1. Statement(w) /\ Drop(w) /\ UNCHANGED records
    BY DEF EngineStep, Statement
  <1>2. invoice \in Invoice
    BY DEF Shaped
  <1>3. Calls(proc[w]) /\ Agrees(proc[w], instances, invoice.status)
    BY DEF InStep, Coherent
  <1>4. Calls(proc'[w])
    BY <1>1, <1>3, EngineTo
  <1> QED
    BY <1>1, <1>2, <1>3, <1>4, AgreesStatement, RestStatement, InStepBy DEF Coherent

-----------------------------------------------------------------------------
(* The handlers under one request.                                         *)

LEMMA HandlerGoes ==
  ASSUME Typed, NEW w \in Worker, Calls(proc[w]), proc[w].pc \notin Recalling,
         NEW l, l \notin Recalling \cup {"link"}, Goto(w, l)
  PROVE  proc'[w].pc = l /\ Calls(proc'[w])
  <1> DEFINE q == [proc[w] EXCEPT !.pc = l]
  <1>1. q.pc = l /\ q.ret = proc[w].ret
    BY DEF Typed, Request
  <1>2. proc'[w] = q
    BY DEF Goto, Set, Typed
  <1> HIDE DEF q
  <1> QED
    BY <1>1, <1>2 DEF Calls

LEMMA HandlerBegins ==
  ASSUME Typed, NEW w \in Worker, NEW l, l \notin Recalling \cup {"link"},
         Set(w, [Idle EXCEPT !.pc = l])
  PROVE  proc'[w].pc = l /\ Calls(proc'[w])
  <1> DEFINE q == [Idle EXCEPT !.pc = l]
  <1>1. q.pc = l /\ q.ret = <<>>
    BY DEF Idle
  <1>2. proc'[w] = q
    BY DEF Set, Typed
  <1> HIDE DEF q
  <1> QED
    BY <1>1, <1>2 DEF Calls

LEMMA HandlerEnds ==
  ASSUME Typed, NEW w \in Worker, Calls(proc[w]), proc[w].pc \notin Recalling,
         Return(w) \/ Fail(w)
  PROVE  proc'[w].pc \in {"idle", "sweep"} /\ Calls(proc'[w])
  <1> DEFINE p == proc[w]  q == [p EXCEPT !.pc = Head(p.ret), !.ret = Tail(p.ret)]
  <1>1. Calls(Idle) /\ Idle.pc = "idle"
    BY DEF Calls, Idle, Recalling
  <1>2. CASE p.ret = <<>> \/ Fail(w)
    <2>1. proc'[w] = Idle
      BY <1>2 DEF Return, Fail, After, Set, Typed
    <2> QED
      BY <1>1, <2>1
  <1>3. CASE p.ret = <<"sweep">> /\ Return(w)
    <2>1. q.pc = "sweep" /\ q.ret = <<>>
      BY <1>3 DEF Typed, Request
    <2>2. proc'[w] = q
      BY <1>3 DEF Return, After, Set, Typed
    <2> HIDE DEF q
    <2> QED
      BY <2>1, <2>2 DEF Calls, Recalling
  <1> QED
    BY <1>2, <1>3 DEF Calls

\* The facts a handler starts from.
LEMMA StepFacts ==
  ASSUME Shaped, InStep, NEW w \in Worker
  PROVE  /\ Coherent(proc[w], job[w], invoice, instances, open, skipped, lines.shaky, Doubts(unsure))
         /\ Calls(proc[w]) /\ invoice \in Invoice /\ job[w] \in Job
         /\ \A v : Hold(w, v) => job'[w] = v
         /\ Drop(w) => job'[w] \in {job[w], NoJob}
         /\ Drop(w) /\ proc'[w].pc # "idle" => job'[w] = job[w]
  BY JobType DEF InStep, Coherent, Shaped, Hold, Drop

LEMMA InStepIngest ==
  ASSUME OneAtATime, Typed, Shaped, InStep, NEW w \in Worker,
         ExtractionFails(w) \/ Extracted(w) \/ InsertLines(w)
  PROVE  InStep'
  <1> DEFINE p == proc[w]  q == proc'[w]  j == job[w]
  <1>0. /\ Coherent(p, j, invoice, instances, open, skipped, lines.shaky, Doubts(unsure))
        /\ Calls(p) /\ invoice \in Invoice /\ j \in Job
        /\ \A v : Hold(w, v) => job'[w] = v
        /\ Drop(w) => job'[w] \in {j, NoJob}
        /\ Drop(w) /\ q.pc # "idle" => job'[w] = j
    BY StepFacts
  <1>1. SUFFICES Coherent(q, job'[w], invoice', instances', open', skipped', lines'.shaky,
                          Doubts(unsure'))
    BY InStepBy
  <1> USE DEF Recalling, Rechecking
  <1>2. CASE ExtractionFails(w)
    <2>1. /\ p.pc = "extract" /\ q.pc \in {"idle", "sweep"} /\ Calls(q)
          /\ UNCHANGED <<instances, open, skipped, lines, unsure>>
      BY <1>0, <1>2, HandlerEnds DEF ExtractionFails, At, EngineRest, records
    <2>2. /\ invoice'.status = "NEEDS_REVIEW" /\ invoice'.match = invoice.match
          /\ invoice'.figures = invoice.figures /\ invoice'.low = invoice.low
      BY <1>0, <1>2 DEF ExtractionFails, Invoice
    <2> HIDE DEF p, q, j
    <2> QED
      BY <1>0, <2>1, <2>2 DEF Coherent, Agrees, Remembers, Explained, Visible, Gated, Routed
  <1>3. CASE Extracted(w)
    <2>1. PICK f \in Figures \ {Blank}, a \in Amount, low \in SUBSET Field, shaky \in BOOLEAN :
            LET next == IF low # {} \/ shaky THEN "NEEDS_REVIEW" ELSE "VALIDATING"
            IN  /\ invoice' = [status |-> next, amount |-> a, figures |-> f,
                               match |-> NoMatch, low |-> low \cap Scored]
                /\ unsure' = low \cup (IF shaky THEN {"line"} ELSE {})
                /\ Hold(w, [NoJob EXCEPT !.status = next])
      BY <1>3 DEF Extracted
    <2> DEFINE next == IF low # {} \/ shaky THEN "NEEDS_REVIEW" ELSE "VALIDATING"
    <2>2. /\ invoice'.status = next /\ invoice'.match = NoMatch
          /\ invoice'.low = low \cap Scored
          /\ unsure' = low \cup (IF shaky THEN {"line"} ELSE {})
          /\ Hold(w, [NoJob EXCEPT !.status = next])
      BY <2>1, Zenon
    <2>3. /\ p.pc = "extract" /\ q.pc = "insertLines" /\ Calls(q)
          /\ UNCHANGED <<instances, open, skipped, lines>>
      BY <1>0, <1>3, HandlerGoes DEF Extracted, At, EngineRest
    <2>4. job'[w].status = next
      BY <1>0, <2>2 DEF NoJob
    <2>5. next = "VALIDATING" => unsure' = {}
      BY <2>2
    <2>6. Doubts(unsure') \subseteq invoice'.low \cup {"line"}
      BY <2>2 DEF Doubts
    <2>7. next \in {"NEEDS_REVIEW", "VALIDATING"} /\ Doubts({}) = {}
      BY DEF Doubts
    <2> HIDE DEF p, q, j, next
    <2> QED
      BY <1>0, <2>2, <2>3, <2>4, <2>5, <2>6, <2>7
      DEF Coherent, Agrees, Remembers, Explained, Visible, Gated, Routed
  <1>4. CASE InsertLines(w)
    <2>1. /\ p.pc = "insertLines" /\ UNCHANGED <<invoice, instances, open, skipped, unsure>>
          /\ (q.pc = "validate" /\ j.status = "VALIDATING") \/ q.pc \in {"idle", "sweep"}
          /\ Calls(q)
      BY <1>0, <1>4, HandlerGoes, HandlerEnds DEF InsertLines, At, EngineRest
    <2>2. lines'.shaky = ("line" \in unsure)
      BY <1>4 DEF InsertLines
    <2>3. Doubts(unsure) \subseteq invoice.low \cup (IF lines'.shaky THEN {"line"} ELSE {})
      BY <1>0, <2>1, <2>2 DEF Coherent, Gated, Doubts
    <2>4. q.pc = "validate" => Doubts(unsure) = {}
      BY <1>0, <2>1 DEF Coherent, Gated
    <2> HIDE DEF p, q, j
    <2> QED
      BY <1>0, <2>1, <2>3, <2>4
      DEF Coherent, Agrees, Remembers, Explained, Visible, Gated, Routed
  <1> QED
    BY <1>2, <1>3, <1>4

LEMMA InStepValidation ==
  ASSUME OneAtATime, Typed, Shaped, InStep, NEW w \in Worker,
         ValidateRead(w) \/ CheckFigures(w) \/ WriteMatch(w) \/ RaiseException(w)
         \/ RouteInvoice(w)
  PROVE  InStep'
  <1> DEFINE p == proc[w]  q == proc'[w]  j == job[w]
  <1>0. /\ Coherent(p, j, invoice, instances, open, skipped, lines.shaky, Doubts(unsure))
        /\ Calls(p) /\ invoice \in Invoice /\ j \in Job
        /\ \A v : Hold(w, v) => job'[w] = v
        /\ Drop(w) => job'[w] \in {j, NoJob}
        /\ Drop(w) /\ q.pc # "idle" => job'[w] = j
    BY StepFacts
  <1>1. SUFFICES Coherent(q, job'[w], invoice', instances', open', skipped', lines'.shaky,
                          Doubts(unsure'))
    BY InStepBy
  <1> USE DEF Recalling, Rechecking
  <1>2. CASE ValidateRead(w)
    <2>1. /\ p.pc = "validate" /\ q.pc = "check" /\ Calls(q)
          /\ UNCHANGED <<invoice, instances, open, skipped, lines, unsure>>
      BY <1>0, <1>2, HandlerGoes DEF ValidateRead, At, EngineRest, records
    <2>2. job'[w].figures = invoice.figures
      BY <1>0, <1>2 DEF ValidateRead, Job
    <2> HIDE DEF p, q, j
    <2> QED
      BY <1>0, <2>1, <2>2
      DEF Coherent, Agrees, Remembers, Explained, Visible, Gated, Routed
  <1>3. CASE CheckFigures(w)
    <2>1. /\ p.pc = "check" /\ q.pc = "match" /\ Calls(q)
          /\ UNCHANGED <<invoice, instances, open, skipped, lines, unsure>>
      BY <1>0, <1>3, HandlerGoes DEF CheckFigures, At, EngineRest, records
    <2>2. job'[w].figures = j.figures
      BY <1>0, <1>3 DEF CheckFigures, Job
    <2> HIDE DEF p, q, j
    <2> QED
      BY <1>0, <2>1, <2>2
      DEF Coherent, Agrees, Remembers, Explained, Visible, Gated, Routed
  <1>4. CASE WriteMatch(w)
    <2>1. /\ p.pc = "match" /\ q.pc = "raise" /\ Calls(q)
          /\ UNCHANGED <<instances, open, skipped, lines, unsure>>
      BY <1>0, <1>4, HandlerGoes DEF WriteMatch, At, EngineRest, records
    <2>2. /\ invoice'.status = invoice.status /\ invoice'.figures = invoice.figures
          /\ invoice'.low = invoice.low /\ invoice'.match \in {invoice.match, j.figures}
      BY <1>0, <1>4 DEF WriteMatch, Invoice
    <2> HIDE DEF p, q, j
    <2> QED
      BY <1>0, <2>1, <2>2
      DEF Coherent, Agrees, Remembers, Explained, Visible, Gated, Routed
  <1>5. CASE RaiseException(w)
    <2>1. /\ p.pc = "raise" /\ q.pc = "route" /\ Calls(q)
          /\ UNCHANGED <<invoice, instances, skipped, lines, unsure>> /\ job'[w] = j
          /\ \E rows \in Raises(j.result) : open' = open \cup rows
      BY <1>0, <1>5, HandlerGoes DEF RaiseException, At, EngineRest
    <2>2. j.result \in Stops => open' \cap Hard # {}
      BY <2>1, StopsRaise
    <2>3. open \cap Hard # {} => open' \cap Hard # {}
      BY <2>1
    <2> HIDE DEF p, q, j
    <2> QED
      BY <1>0, <2>1, <2>2, <2>3
      DEF Coherent, Agrees, Remembers, Explained, Visible, Gated, Routed
  <1>6. CASE RouteInvoice(w)
    <2>1. /\ p.pc = "route" /\ Calls(q)
          /\ UNCHANGED <<instances, open, skipped, lines, unsure>>
          /\ \/ /\ j.result \in Stops /\ q.pc \in {"idle", "sweep"}
                /\ invoice' = [invoice EXCEPT !.status = "EXCEPTION"]
             \/ /\ q.pc = "start"
                /\ invoice' = [invoice EXCEPT !.status = "PENDING_APPROVAL"]
      BY <1>0, <1>6, HandlerGoes, HandlerEnds DEF RouteInvoice, At, EngineRest, records
    <2>2. /\ \/ /\ j.result \in Stops /\ q.pc \in {"idle", "sweep"}
                /\ invoice'.status = "EXCEPTION"
             \/ q.pc = "start" /\ invoice'.status = "PENDING_APPROVAL"
          /\ invoice'.figures = invoice.figures /\ invoice'.match = invoice.match
          /\ invoice'.low = invoice.low
      BY <1>0, <2>1 DEF Invoice
    <2> HIDE DEF p, q, j
    <2> QED
      BY <1>0, <2>1, <2>2
      DEF Coherent, Agrees, Remembers, Explained, Visible, Gated, Routed
  <1> QED
    BY <1>2, <1>3, <1>4, <1>5, <1>6

LEMMA InStepRevalidation ==
  ASSUME OneAtATime, Typed, Shaped, InStep, NEW w \in Worker,
         RevalidateRead(w) \/ RevalidateSkip(w) \/ RevalidateProceed(w)
         \/ ClearMatchState(w) \/ ResolveExceptions(w)
  PROVE  InStep'
  <1> DEFINE p == proc[w]  q == proc'[w]  j == job[w]
  <1>0. /\ Coherent(p, j, invoice, instances, open, skipped, lines.shaky, Doubts(unsure))
        /\ Calls(p) /\ invoice \in Invoice /\ j \in Job
        /\ \A v : Hold(w, v) => job'[w] = v
        /\ Drop(w) => job'[w] \in {j, NoJob}
        /\ Drop(w) /\ q.pc # "idle" => job'[w] = j
    BY StepFacts
  <1>1. SUFFICES Coherent(q, job'[w], invoice', instances', open', skipped', lines'.shaky,
                          Doubts(unsure'))
    BY InStepBy
  <1> USE DEF Recalling, Rechecking
  <1>2. CASE RevalidateRead(w)
    <2>1. /\ p.pc = "revalidate" /\ q.pc = "decide" /\ Calls(q)
          /\ UNCHANGED <<invoice, instances, open, skipped, lines, unsure>>
      BY <1>0, <1>2, HandlerGoes DEF RevalidateRead, At, EngineRest, records
    <2>2. job'[w].status = invoice.status /\ job'[w].low = invoice.low
      BY <1>0, <1>2 DEF RevalidateRead, Job
    <2> HIDE DEF p, q, j
    <2> QED
      BY <1>0, <2>1, <2>2
      DEF Coherent, Agrees, Remembers, Explained, Visible, Gated, Routed
  <1>3. CASE RevalidateSkip(w)
    <2>1. /\ p.pc = "decide" /\ q.pc \in {"idle", "sweep"} /\ Calls(q)
          /\ UNCHANGED <<invoice, instances, open, lines, unsure>>
          /\ skipped' = skipped \cup {invoice.figures}
      BY <1>0, <1>3, HandlerEnds DEF RevalidateSkip, At, EngineRest
    <2> HIDE DEF p, q, j
    <2> QED
      BY <1>0, <2>1
      DEF Coherent, Agrees, Remembers, Explained, Visible, Gated, Routed
  <1>4. CASE RevalidateProceed(w)
    <2>1. /\ p.pc = "decide" /\ Proceeds(j)
          /\ UNCHANGED <<invoice, instances, open, skipped, lines, unsure>> /\ job'[w] = j
      BY <1>4 DEF RevalidateProceed, At, EngineRest, records
    <2>2. invoice.status # "POSTED"
      BY <1>0, <2>1 DEF Coherent, Remembers, Proceeds, Revalidatable
    <2>3. j.forced \/ Doubts(unsure) = {}
      <3>1. j.low = invoice.low
        BY <1>0, <2>1 DEF Coherent, Remembers
      <3>2. Doubts(unsure) \subseteq invoice.low \cup (IF lines.shaky THEN {"line"} ELSE {})
        BY <1>0, <2>1 DEF Coherent, Gated
      <3> QED
        BY <2>1, <3>1, <3>2 DEF Proceeds, Shaky
    <2>4. CASE ActiveIds = {}
      <3>1. q.pc = "clear" /\ Calls(q)
        BY <1>0, <1>4, <2>1, <2>4, HandlerGoes DEF RevalidateProceed
      <3>2. ~Live(instances)
        BY <2>4 DEF ActiveIds, Live
      <3> HIDE DEF p, q, j
      <3> QED
        BY <1>0, <2>1, <2>2, <2>3, <3>1, <3>2
        DEF Coherent, Agrees, Remembers, Explained, Visible, Gated, Routed
    <2>5. CASE ActiveIds # {}
      <3> DEFINE r == [p EXCEPT !.pc = "recall", !.ret = <<"clear">>]
      <3>1. r.pc = "recall" /\ r.ret = <<"clear">>
        BY DEF Typed, Request
      <3>2. q = r
        BY <1>4, <2>5 DEF RevalidateProceed, Set, Typed
      <3> HIDE DEF r
      <3>3. q.pc = "recall" /\ Calls(q)
        BY <3>1, <3>2 DEF Calls
      <3> HIDE DEF p, q, j
      <3> QED
        BY <1>0, <2>1, <2>2, <2>3, <3>3
        DEF Coherent, Agrees, Remembers, Explained, Visible, Gated, Routed
    <2> QED
      BY <2>4, <2>5
  <1>5. CASE ClearMatchState(w)
    <2>1. /\ p.pc = "clear" /\ q.pc = "resolve" /\ Calls(q)
          /\ UNCHANGED <<instances, open, skipped, lines, unsure>> /\ job'[w] = j
      BY <1>0, <1>5, HandlerGoes DEF ClearMatchState, At, EngineRest, records
    <2>2. /\ invoice'.status = invoice.status /\ invoice'.low = invoice.low
          /\ invoice'.match = NoMatch
      BY <1>0, <1>5 DEF ClearMatchState, Invoice
    <2> HIDE DEF p, q, j
    <2> QED
      BY <1>0, <2>1, <2>2
      DEF Coherent, Agrees, Remembers, Explained, Visible, Gated, Routed
  <1>6. CASE ResolveExceptions(w)
    <2>1. /\ p.pc = "resolve" /\ q.pc = "validate" /\ Calls(q)
          /\ UNCHANGED <<invoice, instances, skipped, lines, unsure>> /\ job'[w] = j
      BY <1>0, <1>6, HandlerGoes DEF ResolveExceptions, At, EngineRest
    <2> HIDE DEF p, q, j
    <2> QED
      BY <1>0, <2>1
      DEF Coherent, Agrees, Remembers, Explained, Visible, Gated, Routed
  <1> QED
    BY <1>2, <1>3, <1>4, <1>5, <1>6

LEMMA InStepCorrection ==
  ASSUME OneAtATime, Typed, Shaped, InStep, NEW w \in Worker,
         GuardRole(w) \/ ApplyCorrection(w)
  PROVE  InStep'
  <1> DEFINE p == proc[w]  q == proc'[w]  j == job[w]
  <1>0. /\ Coherent(p, j, invoice, instances, open, skipped, lines.shaky, Doubts(unsure))
        /\ Calls(p) /\ invoice \in Invoice /\ j \in Job
        /\ \A v : Hold(w, v) => job'[w] = v
        /\ Drop(w) => job'[w] \in {j, NoJob}
        /\ Drop(w) /\ q.pc # "idle" => job'[w] = j
    BY StepFacts
  <1>1. SUFFICES Coherent(q, job'[w], invoice', instances', open', skipped', lines'.shaky,
                          Doubts(unsure'))
    BY InStepBy
  <1> USE DEF Recalling, Rechecking
  <1>2. CASE GuardRole(w)
    <2>1. /\ p.pc = "guardRole" /\ q.pc \in {"idle", "sweep", "correct"} /\ Calls(q)
          /\ UNCHANGED <<invoice, instances, open, skipped, lines, unsure>>
          /\ Drop(w)
      BY <1>0, <1>2, HandlerGoes, HandlerEnds DEF GuardRole, At, EngineRest, records
    <2>2. q.pc = "correct" => job'[w] = j
      BY <1>0, <2>1
    <2> HIDE DEF p, q, j
    <2> QED
      BY <1>0, <2>1, <2>2
      DEF Coherent, Agrees, Remembers, Explained, Visible, Gated, Routed
  <1>3. CASE ApplyCorrection(w)
    <2>1. /\ p.pc = "correct" /\ Calls(q)
          /\ UNCHANGED <<instances, open, skipped, lines>>
          /\ unsure' = unsure \ {j.field}
          /\ \/ q.pc = "revalidate"
             \/ j.field \notin Feeding /\ q.pc \in {"idle", "sweep"}
      BY <1>0, <1>3, HandlerGoes, HandlerEnds DEF ApplyCorrection, At, EngineRest
    <2>2. PICK f, a :
            /\ invoice' = [invoice EXCEPT !.figures = f, !.amount = a, !.low = j.low \ {j.field}]
            /\ j.field \notin Feeding => f = invoice.figures
      BY <1>3 DEF ApplyCorrection
    <2>3. /\ invoice'.status = invoice.status /\ invoice'.match = invoice.match
          /\ invoice'.low = j.low \ {j.field}
          /\ q.pc \in {"idle", "sweep"} => invoice'.figures = invoice.figures
      BY <1>0, <2>1, <2>2 DEF Invoice
    <2>4. j.low = invoice.low
      BY <1>0, <2>1 DEF Coherent, Remembers
    <2>5. Doubts(unsure) \subseteq invoice.low \cup (IF lines.shaky THEN {"line"} ELSE {})
      BY <1>0, <2>1 DEF Coherent, Gated
    <2>6. Doubts(unsure') \subseteq invoice'.low \cup (IF lines'.shaky THEN {"line"} ELSE {})
      BY <2>1, <2>3, <2>4, <2>5 DEF Doubts
    <2> HIDE DEF p, q, j
    <2> QED
      BY <1>0, <2>1, <2>3, <2>6
      DEF Coherent, Agrees, Remembers, Explained, Visible, Gated, Routed
  <1> QED
    BY <1>2, <1>3

LEMMA InStepOther ==
  ASSUME OneAtATime, Typed, Shaped, InStep, NEW w \in Worker,
         Rematch(w) \/ WriteCode(w) \/ UncodedLineCount(w) \/ WritePosted(w)
  PROVE  InStep'
  <1> DEFINE p == proc[w]  q == proc'[w]  j == job[w]
  <1>0. /\ Coherent(p, j, invoice, instances, open, skipped, lines.shaky, Doubts(unsure))
        /\ Calls(p) /\ invoice \in Invoice /\ j \in Job
        /\ \A v : Hold(w, v) => job'[w] = v
        /\ Drop(w) => job'[w] \in {j, NoJob}
        /\ Drop(w) /\ q.pc # "idle" => job'[w] = j
    BY StepFacts
  <1>1. SUFFICES Coherent(q, job'[w], invoice', instances', open', skipped', lines'.shaky,
                          Doubts(unsure'))
    BY InStepBy
  <1> USE DEF Recalling, Rechecking
  <1>2. CASE Rematch(w)
    <2>1. /\ p.pc = "rematch" /\ q.pc \in {"idle", "sweep", "revalidate"} /\ Calls(q)
          /\ UNCHANGED <<invoice, instances, open, skipped, lines, unsure>>
      BY <1>0, <1>2, HandlerGoes, HandlerEnds DEF Rematch, At, EngineRest, records
    <2> HIDE DEF p, q, j
    <2> QED
      BY <1>0, <2>1
      DEF Coherent, Agrees, Remembers, Explained, Visible, Gated, Routed
  <1>3. CASE WriteCode(w)
    <2>1. /\ p.pc = "code" /\ q.pc \in {"idle", "sweep"} /\ Calls(q)
          /\ UNCHANGED <<invoice, instances, open, skipped, unsure>>
      BY <1>0, <1>3, HandlerEnds DEF WriteCode, At, EngineRest
    <2>2. lines'.shaky = lines.shaky
      BY <1>3 DEF WriteCode, Shaped, Lines
    <2> HIDE DEF p, q, j
    <2> QED
      BY <1>0, <2>1, <2>2
      DEF Coherent, Agrees, Remembers, Explained, Visible, Gated, Routed
  <1>4. CASE UncodedLineCount(w)
    <2>1. /\ p.pc = "uncoded" /\ q.pc \in {"idle", "sweep", "post"} /\ Calls(q)
          /\ UNCHANGED <<invoice, instances, open, skipped, lines, unsure>>
      BY <1>0, <1>4, HandlerGoes, HandlerEnds DEF UncodedLineCount, At, EngineRest, records
    <2> HIDE DEF p, q, j
    <2> QED
      BY <1>0, <2>1
      DEF Coherent, Agrees, Remembers, Explained, Visible, Gated, Routed
  <1>5. CASE WritePosted(w)
    <2>1. /\ p.pc = "post" /\ q.pc \in {"idle", "sweep"} /\ Calls(q)
          /\ UNCHANGED <<instances, open, skipped, lines, unsure>>
      BY <1>0, <1>5, HandlerEnds DEF WritePosted, At, EngineRest
    <2>2. /\ invoice'.status = "POSTED" /\ invoice'.match = invoice.match
          /\ invoice'.figures = invoice.figures /\ invoice'.low = invoice.low
      BY <1>0, <1>5 DEF WritePosted, Invoice
    <2> HIDE DEF p, q, j
    <2> QED
      BY <1>0, <2>1, <2>2
      DEF Coherent, Agrees, Remembers, Explained, Visible, Gated, Routed
  <1> QED
    BY <1>2, <1>3, <1>4, <1>5

LEMMA InStepRequest ==
  ASSUME OneAtATime, Typed, Shaped, InStep, NEW w \in Worker, HandlerRequest(w)
  PROVE  InStep'
  <1> DEFINE p == proc[w]  q == proc'[w]  j == job[w]
  <1>0. /\ Coherent(p, j, invoice, instances, open, skipped, lines.shaky, Doubts(unsure))
        /\ Calls(p) /\ invoice \in Invoice /\ j \in Job
        /\ \A v : Hold(w, v) => job'[w] = v
        /\ Drop(w) => job'[w] \in {j, NoJob}
        /\ Drop(w) /\ q.pc # "idle" => job'[w] = j
    BY StepFacts
  <1>1. SUFFICES Coherent(q, job'[w], invoice', instances', open', skipped', lines'.shaky,
                          Doubts(unsure'))
    BY InStepBy
  <1> USE DEF Recalling, Rechecking
  <1>2. /\ p.pc = "idle" /\ UNCHANGED <<invoice, instances, open, skipped, lines, unsure>>
    BY DEF HandlerRequest, RequestRevalidation, CorrectField, SyncOrder, CodeLine, Post, At,
           EngineRest, records
  <1>3. CASE RequestRevalidation(w) \/ SyncOrder(w) \/ CodeLine(w)
    <2>1. q.pc \in {"revalidate", "rematch", "code"} /\ Calls(q)
      BY <1>3, HandlerBegins DEF RequestRevalidation, SyncOrder, CodeLine
    <2> HIDE DEF p, q, j
    <2> QED
      BY <1>0, <1>2, <2>1
      DEF Coherent, Agrees, Remembers, Explained, Visible, Gated, Routed
  <1>4. CASE Post(w)
    <2>1. q.pc = "uncoded" /\ Calls(q) /\ invoice.status = "APPROVED"
      BY <1>4, HandlerBegins DEF Post
    <2> HIDE DEF p, q, j
    <2> QED
      BY <1>0, <1>2, <2>1
      DEF Coherent, Agrees, Remembers, Explained, Visible, Gated, Routed
  <1>5. ASSUME NEW f \in Correctable, NEW clerk \in BOOLEAN, CorrectField(w, f, clerk)
        PROVE  Coherent(q, job'[w], invoice', instances', open', skipped', lines'.shaky,
                        Doubts(unsure'))
    <2>1. q.pc \in {"guardRole", "correct"} /\ Calls(q)
      BY <1>5, HandlerBegins DEF CorrectField
    <2>2. job'[w].low = invoice.low
      BY <1>0, <1>5 DEF CorrectField, NoJob
    <2> HIDE DEF p, q, j
    <2> QED
      BY <1>0, <1>2, <2>1, <2>2
      DEF Coherent, Agrees, Remembers, Explained, Visible, Gated, Routed
  <1> QED
    BY <1>3, <1>4, <1>5 DEF HandlerRequest

LEMMA InStepInit == LifecycleInit => InStep
  <1> SUFFICES ASSUME LifecycleInit PROVE InStep
    OBVIOUS
  <1> DEFINE busy == [Idle EXCEPT !.pc = "extract"]
  <1>1. PICK w \in Worker : proc = [v \in Worker |-> IF v = w THEN busy ELSE Idle]
    BY DEF LifecycleInit
  <1>2. /\ busy.pc = "extract" /\ busy.ret = <<>>
        /\ Idle.pc = "idle" /\ Idle.ret = <<>>
    BY DEF Idle
  <1>3. /\ instances = <<>> /\ unsure = {} /\ invoice.status = "EXTRACTING"
        /\ invoice.match = NoMatch
    BY DEF LifecycleInit
  <1>4. ~Live(instances) /\ Doubts(unsure) = {}
    BY <1>3 DEF Live, Doubts
  <1> HIDE DEF busy
  <1>5. ASSUME NEW q, NEW j, q.pc \in {"extract", "idle"}, q.ret = <<>>
        PROVE  Coherent(q, j, invoice, instances, open, skipped, lines.shaky, Doubts(unsure))
    BY <1>3, <1>4, <1>5
    DEF Coherent, Calls, Agrees, Remembers, Explained, Visible, Gated, Routed, Recalling,
        Rechecking
  <1> QED
    BY <1>1, <1>2, <1>5 DEF InStep

\* Everything known of a single request, of the engine's part and the lifecycle's.
Alone == EngineInv /\ Shaped /\ InTurn /\ InStep

LEMMA AloneInit == LifecycleInit => Alone
  <1> SUFFICES ASSUME LifecycleInit PROVE InTurn /\ Shaped
    BY EngineInvInit, InStepInit DEF Alone
  <1>1. Shaped
    BY NoJobType, CheckAssumption, EditAssumption
    DEF LifecycleInit, Shaped, Invoice, InvoiceStatus, Lines
  <1>2. instances = <<>> /\ steps = <<>>
    BY DEF LifecycleInit
  <1>3. \A w \in Worker : Away(proc[w])
    <2>1. Away(Idle) /\ Away([Idle EXCEPT !.pc = "extract"])
      BY DEF Away, Idle, AtNode
    <2> QED
      BY <2>1 DEF LifecycleInit
  <1> QED
    BY <1>1, <1>2, <1>3, AwayIsFree DEF InTurn, LastIsLive, QuestionsFit, Granted

LEMMA AloneStep == ASSUME OneAtATime, Alone, [LifecycleNext]_lvars PROVE Alone'
  <1>0. EngineInv /\ Typed /\ Shaped /\ InTurn /\ InStep
    BY DEF Alone, EngineInv
  <1>1. EngineInv' /\ Shaped'
    BY <1>0, EngineInvStep, ShapedStep
  <1>2. InTurn'
    <2>1. ASSUME UNCHANGED <<instances, steps, proc>> PROVE InTurn'
      BY <1>0, <2>1 DEF InTurn
    <2>2. ASSUME NEW w \in Worker, HandlerMoves(w) PROVE InTurn'
      <3>1. PICK q : Set(w, q) /\ Away(q)
        BY <2>2 DEF HandlerMoves, Lands
      <3>2. proc[w].pc # "park" /\ UNCHANGED <<instances, steps>>
        BY <2>2 DEF HandlerMoves, AtNode
      <3> QED
        BY <1>0, <3>1, <3>2, TurnIdle
    <2> QED
      BY <1>0, <2>1, <2>2, LifecycleStep, TurnStatement DEF vars, DeadlinePasses, tables
  <1>3. InStep'
    <2>1. ASSUME UNCHANGED <<proc, job, invoice, instances, open, skipped, lines, unsure>>
          PROVE  InStep'
      BY <1>0, <2>1 DEF InStep
    <2>2. ASSUME NEW w \in Worker, HandlerStep(w) \/ HandlerRequest(w) PROVE InStep'
      BY <1>0, <2>2, InStepIngest, InStepValidation, InStepRevalidation, InStepCorrection,
         InStepOther, InStepRequest DEF HandlerStep
    <2> QED
      BY <1>0, <2>1, <2>2, InStepStatement
      DEF LifecycleNext, DeadlinePasses, tables, records, lvars, vars
  <1> QED
    BY <1>1, <1>2, <1>3 DEF Alone

LEMMA LifecycleAlone == ASSUME OneAtATime PROVE LifecycleSpec => []Alone
  <1>1. Alone /\ [LifecycleNext]_lvars => Alone'
    BY AloneStep
  <1> QED
    BY <1>1, AloneInit, PTL DEF LifecycleSpec

\* Between requests the single worker is idle.
LEMMA AloneQuiet ==
  ASSUME OneAtATime, Alone, Quiet
  PROVE  \E p, j : /\ p.pc = "idle"
                   /\ Coherent(p, j, invoice, instances, open, skipped, lines.shaky, Doubts(unsure))
  <1>1. PICK w \in Worker : TRUE
    BY DEF OneAtATime
  <1> QED
    BY <1>1 DEF Alone, InStep, Quiet, At

\* An approval is running only while the invoice waits for it: a hard stop, a
\* rejection and a posting leave none behind that could still change the invoice.
THEOREM SpecLiveIsPending == ASSUME OneAtATime PROVE LifecycleSpec => []LiveIsPending
  <1>1. Alone => LiveIsPending
    BY AloneQuiet DEF LiveIsPending, Coherent, Agrees, ActiveIds, Live
  <1> QED
    BY <1>1, LifecycleAlone, PTL

\* Whatever was corrected, re-validated or recalled before, an approved or posted
\* invoice is so on the strength of its latest instance, which reached END.
THEOREM SpecApprovalStands == ASSUME OneAtATime PROVE LifecycleSpec => []ApprovalStands
  <1>1. Alone => ApprovalStands
    BY AloneQuiet DEF ApprovalStands, Coherent, Agrees, Ended
  <1> QED
    BY <1>1, LifecycleAlone, PTL

\* An invoice parked at EXCEPTION has the exception that stops it open, although
\* every re-validation first resolves those of the run before.
THEOREM SpecExceptionExplained ==
  ASSUME OneAtATime PROVE LifecycleSpec => []ExceptionExplained
  <1>1. Alone => ExceptionExplained
    BY AloneQuiet DEF ExceptionExplained, Coherent, Explained, Rechecking
  <1> QED
    BY <1>1, LifecycleAlone, PTL

\* An invoice never runs on the match of figures it no longer has without a
\* REVALIDATION_SKIPPED event for those it has now.
THEOREM SpecStaleIsVisible == ASSUME OneAtATime PROVE LifecycleSpec => []StaleIsVisible
  <1>1. Alone => StaleIsVisible
    BY AloneQuiet DEF StaleIsVisible, Stale, Coherent, Visible, Recalling
  <1> QED
    BY <1>1, LifecycleAlone, PTL

\* If every extracted field is among those fieldConfidence is kept for, nothing but
\* an explicit request validates an invoice the extractor is still unsure of.
THEOREM SpecGateRespected ==
  ASSUME OneAtATime, Field \subseteq Scored PROVE LifecycleSpec => GateRespected
  <1>1. Alone => \A w \in Worker : ValidateRead(w) /\ ~job[w].forced => unsure = {}
    <2> SUFFICES ASSUME Alone, NEW w \in Worker, ValidateRead(w), ~job[w].forced
                 PROVE  unsure = {}
      OBVIOUS
    <2>1. proc[w].pc = "validate"
      BY DEF ValidateRead, At
    <2>2. Gated(proc[w], job[w], invoice.low, lines.shaky, Doubts(unsure))
      BY DEF Alone, InStep, Coherent
    <2>3. Doubts(unsure) = {}
      BY <2>1, <2>2 DEF Gated
    <2>4. unsure \subseteq Field \cup {"line"}
      BY DEF Alone, Shaped
    <2> QED
      BY <2>3, <2>4 DEF Doubts
  <1>2. Alone => [\A w \in Worker : ValidateRead(w) /\ ~job[w].forced => unsure = {}]_lvars
    BY <1>1
  <1> QED
    BY <1>2, LifecycleAlone, PTL DEF LifecycleSpec, GateRespected

\* A handler gives the invoice another status only where a request ingests, routes
\* or posts it.
LEMMA HandlerStatus ==
  ASSUME Shaped, NEW w \in Worker, HandlerStep(w) \/ HandlerRequest(w),
         proc[w].pc \notin {"extract", "route", "post"}
  PROVE  invoice'.status = invoice.status /\ posts' = posts
  <1>1. ~ExtractionFails(w) /\ ~Extracted(w) /\ ~RouteInvoice(w) /\ ~WritePosted(w)
    BY DEF ExtractionFails, Extracted, RouteInvoice, WritePosted, At
  <1>2. CASE WriteMatch(w) \/ ClearMatchState(w)
    BY <1>2 DEF WriteMatch, ClearMatchState, records, Shaped, Invoice
  <1>3. CASE ApplyCorrection(w)
    BY <1>3, CorrectionWrites DEF ApplyCorrection
  <1>4. CASE \/ InsertLines(w) \/ ValidateRead(w) \/ CheckFigures(w) \/ RaiseException(w)
             \/ RevalidateRead(w) \/ RevalidateSkip(w) \/ RevalidateProceed(w)
             \/ ResolveExceptions(w) \/ GuardRole(w)
             \/ Rematch(w) \/ WriteCode(w) \/ UncodedLineCount(w)
    BY <1>4
    DEF InsertLines, ValidateRead, CheckFigures, RaiseException, RevalidateRead, RevalidateSkip,
        RevalidateProceed, ResolveExceptions, GuardRole, Rematch, WriteCode, UncodedLineCount,
        records
  <1>5. CASE HandlerRequest(w)
    BY <1>5
    DEF HandlerRequest, RequestRevalidation, CorrectField, SyncOrder, CodeLine, Post, records
  <1> QED
    BY <1>1, <1>2, <1>3, <1>4, <1>5 DEF HandlerStep

\* No re-validation, correction, decision or recall takes a posted invoice out of
\* POSTED, and it is posted once.
THEOREM SpecPostingTerminal == ASSUME OneAtATime PROVE LifecycleSpec => PostingTerminal
  <1> DEFINE Final == invoice.status = "POSTED" => invoice'.status = "POSTED" /\ posts' = posts
  <1>1. ASSUME Alone, LifecycleNext PROVE Final
    <2> SUFFICES ASSUME invoice.status = "POSTED"
                 PROVE  invoice'.status = "POSTED" /\ posts' = posts
      OBVIOUS
    <2>1. \A w \in Worker : Agrees(proc[w], instances, invoice.status)
      BY <1>1 DEF Alone, InStep, Coherent
    <2>2. ASSUME NEW w \in Worker, EngineStep(w)
          PROVE  invoice'.status = "POSTED" /\ posts' = posts
      <3>1. Statement(w) /\ posts' = posts
        BY <2>2 DEF EngineStep, Statement, records
      <3>2. ~SettleInvoice(w)
        BY <2>1 DEF SettleInvoice, At, Agrees
      <3> QED
        BY <3>1, <3>2, StatementWrites
    <2>3. ASSUME NEW w \in Worker, HandlerStep(w) \/ HandlerRequest(w)
          PROVE  invoice'.status = "POSTED" /\ posts' = posts
      <3>1. proc[w].pc \notin {"extract", "route", "post"}
        BY <2>1 DEF Agrees, Rechecking
      <3> QED
        BY <1>1, <2>3, <3>1, HandlerStatus DEF Alone
    <2> QED
      BY <1>1, <2>2, <2>3 DEF LifecycleNext, DeadlinePasses, tables, records
  <1>2. Alone /\ [LifecycleNext]_lvars => [Final]_lvars
    BY <1>1
  <1> QED
    BY <1>2, LifecycleAlone, PTL DEF LifecycleSpec, PostingTerminal
=============================================================================
